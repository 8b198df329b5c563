------------------------ MODULE MessagePipeline_proofs ------------------------
(***************************************************************************)
(* Proofs about MessagePipeline, for any number of messages, posts and     *)
(* faults: the gateway's way out is an implementation of Outbound, the bot *)
(* never answers itself, and each service sees each event at most once.    *)
(***************************************************************************)
EXTENDS MessagePipeline, FiniteSetTheorems, TLAPS

------------------------------------------------------------------------------
(***************************************************************************)
(* The invariant.                                                          *)
(***************************************************************************)

\* The ids that have been given away.
Born == written \cup 1..posts

\* All events of a service with queue q, those it handles h, is done with d
\* and never saw x.
All(q, h, d, x) == {q[i] : i \in 1..Len(q)} \cup h \cup d \cup x

\* Each of them is in one place only.
Apart(q, h, d, x) ==
    /\ \A i, j \in 1..Len(q) : q[i].id = q[j].id => i = j
    /\ \A e, f \in h : e.id = f.id => e = f
    /\ \A i \in 1..Len(q) : \A e \in h \cup d \cup x : q[i].id # e.id
    /\ \A e \in h : \A f \in d \cup x : e.id # f.id
    /\ \A e \in d : \A f \in x : e.id # f.id

\* e is none of them.
Unseen(q, h, d, x, e) == \A f \in All(q, h, d, x) : f.id # e.id

Has(s) == All(queues[s], handling[s], handled[s], dropped[s])

Types ==
    /\ written \in SUBSET People
    /\ posts \in 0..MaxPosts
    /\ feed \in SUBSET Item
    /\ pub \in {"none", "connected", "listening", "broken"}
    /\ up \in SUBSET Services /\ declared \in SUBSET Services
    /\ queues \in [Services -> Seq(Event)]
    /\ handling \in [Services -> SUBSET Event]
    /\ handled \in [Services -> SUBSET Event]
    /\ dropped \in [Services -> SUBSET Event]
    /\ emitted \in SUBSET Answers

\* What Discord has still to dispatch is new to the services, one item for
\* each id, and marked if the bot posted it.
FeedNew ==
    /\ \A i \in feed : i.id \in Born /\ (i.id \in Posts => i.bot)
    /\ \A i, j \in feed : i.id = j.id => i = j
    /\ \A s \in Services : \A e \in Has(s) : \A i \in feed : e.id # i.id

\* So are the events, and no event is in two places.
EventsApart ==
    \A s \in Services :
        /\ Apart(queues[s], handling[s], handled[s], dropped[s])
        /\ \A e \in Has(s) : e.id \in Born /\ (e.id \in Posts => e.isBot)

\* An answer is to a person, from a service that is done with the event.
AnswersDone ==
    \A m \in emitted : m.to \in People /\ \E e \in handled[m.by] : e.id = m.to

PipelineInv == Types /\ FeedNew /\ EventsApart /\ AnswersDone

------------------------------------------------------------------------------
(***************************************************************************)
(* What moves events from place to place.                                  *)
(***************************************************************************)

\* A new event is queued, or dropped.
LEMMA Routes ==
    ASSUME NEW q \in Seq(Event), NEW h, NEW d, NEW x, NEW e \in Event, Apart(q, h, d, x),
           Unseen(q, h, d, x, e), NEW r, r = Append(q, e)
    PROVE  /\ Apart(r, h, d, x) /\ Apart(q, h, d, x \cup {e})
<1>1. /\ Len(r) = Len(q) + 1 /\ Len(q) \in Nat /\ r[Len(r)] = e
      /\ \A i \in 1..Len(q) : r[i] = q[i]
  OBVIOUS
<1>2. \A i \in 1..Len(r) : i = Len(r) \/ i \in 1..Len(q)
  BY <1>1
<1>3. \A i \in 1..Len(q) : q[i].id # e.id
  BY DEF All, Unseen
<1>4. \A f \in h \cup d \cup x : f.id # e.id
  BY DEF All, Unseen
<1>5. \A i, j \in 1..Len(r) : r[i].id = r[j].id => i = j
  <2> SUFFICES ASSUME NEW i \in 1..Len(r), NEW j \in 1..Len(r), r[i].id = r[j].id
               PROVE  i = j
    OBVIOUS
  <2>1. CASE i \in 1..Len(q) /\ j \in 1..Len(q)
    BY <2>1, <1>1 DEF Apart
  <2>2. CASE i = Len(r) \/ j = Len(r)
    BY <2>2, <1>1, <1>2, <1>3
  <2>. QED BY <2>1, <2>2, <1>2
<1>6. \A i \in 1..Len(r) : \A f \in h \cup d \cup x : r[i].id # f.id
  <2> SUFFICES ASSUME NEW i \in 1..Len(r), NEW f \in h \cup d \cup x
               PROVE  r[i].id # f.id
    OBVIOUS
  <2>. QED BY <1>1, <1>2, <1>4 DEF Apart
<1>7. Apart(r, h, d, x)
  <2>. QED BY <1>5, <1>6 DEF Apart
<1>8. Apart(q, h, d, x \cup {e})
  BY <1>3, <1>4 DEF Apart
<1>. QED BY <1>7, <1>8

\* The head of the queue goes to its handler.
LEMMA Receives ==
    ASSUME NEW q \in Seq(Event), NEW h, NEW d, NEW x, Apart(q, h, d, x), q # <<>>
    PROVE  /\ Apart(Tail(q), h \cup {Head(q)}, d, x)
           /\ All(Tail(q), h \cup {Head(q)}, d, x) = All(q, h, d, x)
<1> DEFINE t == Tail(q)
<1>1. /\ Len(t) = Len(q) - 1 /\ Len(q) \in Nat /\ Len(q) > 0
      /\ \A i \in 1..Len(t) : t[i] = q[i + 1]
      /\ Head(q) = q[1]
  OBVIOUS
<1> HIDE DEF t
<1>2. \A i \in 1..Len(t) : i + 1 \in 1..Len(q) /\ i + 1 # 1
  BY <1>1
<1>3. \A i \in 1..Len(q) : i = 1 \/ (i - 1 \in 1..Len(t) /\ t[i - 1] = q[i])
  BY <1>1
<1>4. 1 \in 1..Len(q)
  BY <1>1
<1>5. \A i, j \in 1..Len(t) : t[i].id = t[j].id => i = j
  <2> SUFFICES ASSUME NEW i \in 1..Len(t), NEW j \in 1..Len(t), t[i].id = t[j].id
               PROVE  i = j
    OBVIOUS
  <2>1. i + 1 = j + 1
    BY <1>1, <1>2 DEF Apart
  <2>. QED BY <2>1
<1>6. \A i \in 1..Len(t) : t[i].id # q[1].id
  BY <1>1, <1>2, <1>4 DEF Apart
<1>7. Apart(t, h \cup {q[1]}, d, x)
  <2>1. \A e, f \in h \cup {q[1]} : e.id = f.id => e = f
    BY <1>4 DEF Apart
  <2>2. \A i \in 1..Len(t) : \A e \in (h \cup {q[1]}) \cup d \cup x : t[i].id # e.id
    BY <1>1, <1>2, <1>6 DEF Apart
  <2>3. \A e \in h \cup {q[1]} : \A f \in d \cup x : e.id # f.id
    BY <1>4 DEF Apart
  <2>. QED BY <1>5, <2>1, <2>2, <2>3 DEF Apart
<1>8. {t[i] : i \in 1..Len(t)} \cup {q[1]} = {q[i] : i \in 1..Len(q)}
  <2>1. \A i \in 1..Len(t) : \E j \in 1..Len(q) : t[i] = q[j]
    BY <1>1, <1>2
  <2>2. ASSUME NEW e \in {t[i] : i \in 1..Len(t)} \cup {q[1]}
        PROVE  e \in {q[i] : i \in 1..Len(q)}
    <3>1. CASE e = q[1]
      BY <1>4, <3>1
    <3>2. CASE e \in {t[i] : i \in 1..Len(t)}
      BY <2>1, <3>2
    <3>. QED BY <2>2, <3>1, <3>2
  <2>3. ASSUME NEW j \in 1..Len(q)
        PROVE  q[j] \in {t[i] : i \in 1..Len(t)} \cup {q[1]}
    BY <1>3
  <2>4. {q[i] : i \in 1..Len(q)} \subseteq {t[i] : i \in 1..Len(t)} \cup {q[1]}
    BY <2>3
  <2>. QED BY <2>2, <2>4
<1>. QED BY <1>1, <1>7, <1>8 DEF All, t

\* A handler is done.
LEMMA Finishes ==
    ASSUME NEW q, NEW h, NEW d, NEW x, Apart(q, h, d, x), NEW e \in h
    PROVE  /\ Apart(q, h \ {e}, d \cup {e}, x)
           /\ All(q, h \ {e}, d \cup {e}, x) = All(q, h, d, x)
<1>1. Apart(q, h \ {e}, d \cup {e}, x)
  BY DEF Apart
<1>. QED BY <1>1 DEF All

\* The process dies with its handlers and the n first events.
LEMMA Dies ==
    ASSUME NEW q \in Seq(Event), NEW h, NEW d, NEW x, Apart(q, h, d, x),
           NEW n \in 0..Len(q)
    PROVE  /\ Apart(SubSeq(q, n + 1, Len(q)), {}, d, x \cup h \cup ToSet(SubSeq(q, 1, n)))
           /\ All(SubSeq(q, n + 1, Len(q)), {}, d, x \cup h \cup ToSet(SubSeq(q, 1, n)))
                = All(q, h, d, x)
<1> DEFINE r == SubSeq(q, n + 1, Len(q))
           p == SubSeq(q, 1, n)
<1>1. /\ Len(q) \in Nat /\ n \in Nat /\ n <= Len(q)
      /\ Len(r) = Len(q) - n /\ \A i \in 1..Len(r) : r[i] = q[n + i]
      /\ Len(p) = n /\ \A i \in 1..n : p[i] = q[i]
      /\ ToSet(p) = {p[i] : i \in 1..n}
  <2>1. Len(q) \in Nat /\ n \in Nat /\ n <= Len(q)
    OBVIOUS
  <2>2. Len(r) = Len(q) - n /\ \A i \in 1..Len(r) : r[i] = q[n + i]
    BY <2>1
  <2>3. p \in Seq(Event) /\ Len(p) = n /\ \A i \in 1..n : p[i] = q[i]
    BY <2>1
  <2>4. DOMAIN p = 1..n
    BY <2>3
  <2>5. ToSet(p) = {p[i] : i \in 1..n}
    BY <2>4 DEF ToSet
  <2>. QED BY <2>1, <2>2, <2>3, <2>5
<1> HIDE DEF r, p
<1>2. \A i \in 1..Len(r) : n + i \in 1..Len(q) /\ n + i \notin 1..n
  BY <1>1
<1>3. \A i \in 1..Len(q) : i \in 1..n \/ (i - n \in 1..Len(r) /\ r[i - n] = q[i])
  BY <1>1
<1>4. \A i \in 1..n : i \in 1..Len(q)
  BY <1>1
<1>5. ToSet(p) = {q[i] : i \in 1..n}
  BY <1>1
<1>6. \A i, j \in 1..Len(r) : r[i].id = r[j].id => i = j
  <2> SUFFICES ASSUME NEW i \in 1..Len(r), NEW j \in 1..Len(r), r[i].id = r[j].id
               PROVE  i = j
    OBVIOUS
  <2>1. n + i = n + j
    BY <1>1, <1>2 DEF Apart
  <2>. QED BY <1>1, <2>1
<1>7. \A i \in 1..Len(r) : \A e \in ToSet(p) : r[i].id # e.id
  <2> SUFFICES ASSUME NEW i \in 1..Len(r), NEW k \in 1..n
               PROVE  r[i].id # q[k].id
    BY <1>5
  <2>1. n + i \in 1..Len(q) /\ k \in 1..Len(q) /\ n + i # k
    BY <1>1, <1>2, <1>4
  <2>. QED BY <1>1, <2>1 DEF Apart
<1>8. \A i \in 1..Len(r) : \A e \in d \cup x \cup h : r[i].id # e.id
  BY <1>1, <1>2 DEF Apart
<1>9. \A e \in d : \A f \in x \cup h \cup ToSet(p) : e.id # f.id
  BY <1>4, <1>5 DEF Apart
<1>10. Apart(r, {}, d, x \cup h \cup ToSet(p))
  BY <1>6, <1>7, <1>8, <1>9 DEF Apart
<1>11. {r[i] : i \in 1..Len(r)} \cup ToSet(p) = {q[i] : i \in 1..Len(q)}
  <2>1. \A i \in 1..Len(r) : \E j \in 1..Len(q) : r[i] = q[j]
    BY <1>1, <1>2
  <2>. QED BY <1>3, <1>4, <1>5, <2>1
<1>. QED BY <1>10, <1>11 DEF All, r, p

------------------------------------------------------------------------------
(***************************************************************************)
(* The invariant is kept.                                                  *)
(***************************************************************************)

LEMMA Initially ==
    ASSUME Init
    PROVE  PipelineInv
<1>1. Types
  BY BoundsAssumption DEF Init, Types, Out!Init
<1>2. \A s \in Services : Len(queues[s]) = 0 /\ Has(s) = {}
  BY DEF Init, Has, All
<1>3. FeedNew /\ AnswersDone
  BY DEF Init, FeedNew, AnswersDone, Out!Init
<1>4. EventsApart
  BY <1>2 DEF Init, EventsApart, Apart
<1>. QED BY <1>1, <1>3, <1>4 DEF PipelineInv

\* Nothing that the services and Discord hold moves.
LEMMA QuietSteps ==
    ASSUME PipelineInv, Types',
           UNCHANGED <<written, posts, feed, queues, handling, handled, dropped, emitted>>
    PROVE  PipelineInv'
BY DEF PipelineInv, FeedNew, EventsApart, AnswersDone, Has, Born

\* One service moves its events from place to place.
LEMMA MovingSteps ==
    ASSUME PipelineInv, Types', NEW s \in Services, UNCHANGED <<written, posts, feed>>,
           \A t \in Services \ {s} :
               UNCHANGED <<queues[t], handling[t], handled[t], dropped[t]>>,
           Apart(queues'[s], handling'[s], handled'[s], dropped'[s]),
           All(queues'[s], handling'[s], handled'[s], dropped'[s]) = Has(s),
           AnswersDone'
    PROVE  PipelineInv'
<1>1. \A t \in Services :
        /\ Has(t)' = Has(t)
        /\ Apart(queues[t], handling[t], handled[t], dropped[t])'
  BY DEF PipelineInv, EventsApart, Has
<1>2. FeedNew'
  BY <1>1 DEF PipelineInv, FeedNew, Born
<1>3. EventsApart'
  BY <1>1 DEF PipelineInv, EventsApart, Born
<1>. QED BY <1>2, <1>3 DEF PipelineInv

\* Something new is to be dispatched.
LEMMA FeedingSteps ==
    ASSUME PipelineInv, Types', UNCHANGED <<queues, handling, handled, dropped, emitted>>,
           NEW i \in Item, feed' = feed \cup {i}, i.id \notin Born, i.id \in Born',
           Born \subseteq Born', i.id \in Posts => i.bot
    PROVE  PipelineInv'
<1>1. \A s \in Services : Has(s)' = Has(s)
  BY DEF Has
<1>2. FeedNew'
  <2>1. \A j \in feed' : j = i \/ j \in feed
    OBVIOUS
  <2>2. \A j \in feed : j.id # i.id
    BY DEF PipelineInv, FeedNew
  <2>3. \A s \in Services : \A e \in Has(s) : e.id # i.id
    BY DEF PipelineInv, EventsApart
  <2>4. \A j \in feed' : j.id \in Born' /\ (j.id \in Posts => j.bot)
    BY <2>1 DEF PipelineInv, FeedNew
  <2>5. \A j, k \in feed' : j.id = k.id => j = k
    BY <2>1, <2>2 DEF PipelineInv, FeedNew
  <2>6. \A s \in Services : \A e \in Has(s)' : \A j \in feed' : e.id # j.id
    BY <1>1, <2>1, <2>3 DEF PipelineInv, FeedNew
  <2>. QED BY <2>4, <2>5, <2>6 DEF FeedNew
<1>3. EventsApart'
  BY <1>1 DEF PipelineInv, EventsApart
<1>4. AnswersDone'
  BY DEF PipelineInv, AnswersDone
<1>. QED BY <1>2, <1>3, <1>4 DEF PipelineInv

LEMMA WriteSteps ==
    ASSUME PipelineInv, NEW id \in People, Write(id)
    PROVE  PipelineInv'
<1> DEFINE i == [id |-> id, kind |-> IF id \in Messages THEN "message" ELSE "interaction",
                 bot |-> FALSE]
<1>1. /\ i \in Item /\ i.id = id /\ id \notin written /\ id \notin Posts
      /\ feed' = feed \cup {i} /\ written' = written \cup {id}
      /\ UNCHANGED <<posts, pub, up, declared, queues, handling, handled, dropped, emitted>>
  BY IdsAssumption DEF Write, Item, services, outward
<1> HIDE DEF i
<1>2. Types'
  BY <1>1 DEF PipelineInv, Types
<1>3. i.id \notin Born /\ i.id \in Born' /\ Born \subseteq Born'
  <2>1. posts \in 0..MaxPosts /\ MaxPosts \in Nat
    BY BoundsAssumption DEF PipelineInv, Types
  <2>2. 1..posts \subseteq Posts
    BY <2>1 DEF Posts
  <2>. QED BY <1>1, <2>2 DEF Born
<1>. QED BY <1>1, <1>2, <1>3, FeedingSteps

LEMMA PostSteps ==
    ASSUME PipelineInv, NEW m \in Answers, Post(m)
    PROVE  PipelineInv'
<1> DEFINE i == [id |-> posts + 1, kind |-> "message", bot |-> TRUE]
<1>1. posts \in 0..MaxPosts /\ MaxPosts \in Nat /\ posts < MaxPosts
  BY BoundsAssumption DEF PipelineInv, Types, Post
<1>2. posts + 1 \in Posts /\ posts + 1 \notin 1..posts /\ 1..(posts + 1) = 1..posts \cup {posts + 1}
  BY <1>1 DEF Posts
<1>3. /\ i \in Item /\ i.id = posts + 1 /\ i.bot
      /\ feed' = feed \cup {i} /\ posts' = posts + 1
      /\ UNCHANGED <<written, pub, up, declared, queues, handling, handled, dropped, emitted>>
  BY <1>2 DEF Post, Item, services, Out!Accept
<1> HIDE DEF i
<1>4. Types'
  BY <1>1, <1>3 DEF PipelineInv, Types
<1>5. i.id \notin Born /\ i.id \in Born' /\ Born \subseteq Born'
  <2>1. posts + 1 \notin written
    BY <1>2, IdsAssumption DEF PipelineInv, Types
  <2>. QED BY <1>2, <1>3, <2>1 DEF Born
<1>. QED BY <1>3, <1>4, <1>5, FeedingSteps

LEMMA DispatchSteps ==
    ASSUME PipelineInv, NEW i \in feed, Dispatch(i)
    PROVE  PipelineInv'
<1> DEFINE e == EventOf(i)
<1>1. /\ feed' = feed \ {i}
      /\ UNCHANGED <<written, posts, pub, up, declared, handling, handled, emitted>>
  BY DEF Dispatch, outward
<1>2. i \in Item /\ e \in Event /\ e.id = i.id /\ e.isBot = i.bot
  BY DEF PipelineInv, Types, EventOf, Item, Event
<1>3. \A s \in Services :
        \/ UNCHANGED <<queues[s], dropped[s]>>
        \/ queues'[s] = Append(queues[s], e) /\ dropped'[s] = dropped[s]
        \/ queues'[s] = queues[s] /\ dropped'[s] = dropped[s] \cup {e}
  BY DEF Dispatch, PipelineInv, Types
<1>4. /\ DOMAIN queues' = Services /\ DOMAIN dropped' = Services
      /\ queues' = [s \in Services |-> queues'[s]] /\ dropped' = [s \in Services |-> dropped'[s]]
  BY DEF Dispatch
<1> HIDE DEF e
<1>5. Types'
  <2>1. ASSUME NEW s \in Services
        PROVE  queues'[s] \in Seq(Event) /\ dropped'[s] \in SUBSET Event
    <3>1. queues[s] \in Seq(Event) /\ dropped[s] \in SUBSET Event
      BY DEF PipelineInv, Types
    <3>2. Append(queues[s], e) \in Seq(Event)
      BY <1>2, <3>1
    <3>. QED BY <1>2, <1>3, <3>1, <3>2
  <2>. QED BY <1>1, <1>4, <2>1 DEF PipelineInv, Types
<1>6. \A s \in Services : \A f \in Has(s) : f.id # e.id
  BY <1>2 DEF PipelineInv, FeedNew
<1>7. ASSUME NEW s \in Services
      PROVE  /\ Apart(queues[s], handling[s], handled[s], dropped[s])'
             /\ \A f \in Has(s)' : f \in Has(s) \/ f = e
  <2>1. /\ queues[s] \in Seq(Event) /\ handling[s] \in SUBSET Event
        /\ handled[s] \in SUBSET Event /\ dropped[s] \in SUBSET Event
        /\ Apart(queues[s], handling[s], handled[s], dropped[s])
        /\ UNCHANGED <<handling[s], handled[s]>>
    BY <1>1 DEF PipelineInv, Types, EventsApart
  <2>2. CASE UNCHANGED <<queues[s], dropped[s]>>
    BY <2>1, <2>2 DEF Has
  <2>3. PICK r : r = Append(queues[s], e)
    OBVIOUS
  <2>4. /\ Apart(r, handling[s], handled[s], dropped[s])
        /\ Apart(queues[s], handling[s], handled[s], dropped[s] \cup {e})
        /\ \A f \in All(r, handling[s], handled[s], dropped[s]) : f \in Has(s) \/ f = e
        /\ \A f \in All(queues[s], handling[s], handled[s], dropped[s] \cup {e}) :
               f \in Has(s) \/ f = e
    <3>1. Unseen(queues[s], handling[s], handled[s], dropped[s], e)
      BY <1>6 DEF Has, Unseen
    <3>2. /\ e \in Event /\ queues[s] \in Seq(Event)
          /\ Apart(queues[s], handling[s], handled[s], dropped[s])
      BY <1>2, <2>1
    <3>3. /\ Apart(r, handling[s], handled[s], dropped[s])
          /\ Apart(queues[s], handling[s], handled[s], dropped[s] \cup {e})
      BY <3>1, <3>2, <2>3, Routes
    <3>4. \A f \in All(r, handling[s], handled[s], dropped[s]) : f \in Has(s) \/ f = e
      <4>1. \A k \in 1..Len(r) : r[k] = e \/ \E j \in 1..Len(queues[s]) : r[k] = queues[s][j]
        BY <3>2, <2>3
      <4>. QED BY <4>1 DEF Has, All
    <3>5. \A f \in All(queues[s], handling[s], handled[s], dropped[s] \cup {e}) :
             f \in Has(s) \/ f = e
      BY DEF Has, All
    <3>. QED BY <3>3, <3>4, <3>5
  <2>5. CASE queues'[s] = Append(queues[s], e) /\ dropped'[s] = dropped[s]
    BY <2>1, <2>3, <2>5, <2>4 DEF Has
  <2>6. CASE queues'[s] = queues[s] /\ dropped'[s] = dropped[s] \cup {e}
    BY <2>1, <2>6, <2>4 DEF Has
  <2>. QED BY <1>3, <2>2, <2>5, <2>6
<1>8. FeedNew'
  <2>1. \A j \in feed' : j.id # e.id
    BY <1>1, <1>2 DEF PipelineInv, FeedNew
  <2>. QED BY <1>1, <1>7, <2>1 DEF PipelineInv, FeedNew, Born
<1>9. EventsApart'
  <2>1. e.id \in Born /\ (e.id \in Posts => e.isBot)
    BY <1>2 DEF PipelineInv, FeedNew
  <2>. QED BY <1>1, <1>7, <2>1 DEF PipelineInv, EventsApart, Born
<1>10. AnswersDone'
  BY <1>1 DEF PipelineInv, AnswersDone
<1>. QED BY <1>5, <1>8, <1>9, <1>10 DEF PipelineInv

LEMMA ServiceSteps ==
    ASSUME PipelineInv, NEW s \in Services, Service(s)
    PROVE  PipelineInv'
<1>1. CASE Listen(s)
  <2>1. Types'
    BY <1>1 DEF Listen, PipelineInv, Types, outward
  <2>. QED BY <1>1, <2>1, QuietSteps DEF Listen, outward
<1>2. CASE Receive(s)
  <2>1. /\ queues[s] \in Seq(Event) /\ queues[s] # <<>>
        /\ Head(queues[s]) \in Event /\ Tail(queues[s]) \in Seq(Event)
    BY <1>2 DEF Receive, PipelineInv, Types
  <2>2. /\ queues'[s] = Tail(queues[s]) /\ handling'[s] = handling[s] \cup {Head(queues[s])}
        /\ \A t \in Services \ {s} : UNCHANGED <<queues[t], handling[t]>>
        /\ UNCHANGED <<written, posts, feed, pub, up, declared, handled, dropped, emitted>>
    BY <1>2 DEF Receive, Left, PipelineInv, Types, outward
  <2>3. Types'
    BY <1>2, <2>1, <2>2 DEF Receive, Left, PipelineInv, Types
  <2>4. Apart(queues[s], handling[s], handled[s], dropped[s])
    BY DEF PipelineInv, EventsApart
  <2>5. /\ Apart(queues'[s], handling'[s], handled'[s], dropped'[s])
        /\ All(queues'[s], handling'[s], handled'[s], dropped'[s]) = Has(s)
    <3>1. LET q == queues[s]
              h == handling[s] \cup {Head(queues[s])} IN
          /\ Apart(Tail(q), h, handled[s], dropped[s])
          /\ All(Tail(q), h, handled[s], dropped[s])
                = All(q, handling[s], handled[s], dropped[s])
      BY <2>1, <2>4, Receives
    <3>2. handled'[s] = handled[s] /\ dropped'[s] = dropped[s]
      BY <2>2
    <3>. QED BY <2>2, <3>1, <3>2 DEF Has
  <2>6. AnswersDone'
    BY <2>2 DEF PipelineInv, AnswersDone
  <2>. QED BY <2>2, <2>3, <2>5, <2>6, MovingSteps
<1>3. ASSUME NEW e \in handling[s], Reply(s, e) \/ Ignore(s, e)
      PROVE  PipelineInv'
  <2>1. Done(s, e)
    BY <1>3 DEF Reply, Ignore
  <2>2. e \in Event /\ e.id \in People \cup Posts
    BY DEF PipelineInv, Types, Event
  <2>3. /\ handling'[s] = handling[s] \ {e} /\ handled'[s] = handled[s] \cup {e}
        /\ \A t \in Services \ {s} : UNCHANGED <<handling[t], handled[t]>>
        /\ UNCHANGED <<written, posts, feed, pub, up, declared, queues, dropped>>
    BY <2>1 DEF Done, PipelineInv, Types
  <2>4. \A t \in Services : handled[t] \subseteq handled'[t]
    BY <2>3
  <2>5. \/ UNCHANGED emitted
        \/ ~e.isBot /\ emitted' = emitted \cup {[to |-> e.id, by |-> s]}
    BY <1>3 DEF Reply, Ignore, Heard, Out!Emit, outward
  <2>6. emitted' \in SUBSET Answers
    BY <2>2, <2>5 DEF PipelineInv, Types, Answers
  <2>7. Types'
    BY <2>1, <2>2, <2>3, <2>6 DEF Done, PipelineInv, Types
  <2>8. Apart(queues[s], handling[s], handled[s], dropped[s])
    BY DEF PipelineInv, EventsApart
  <2>9. /\ Apart(queues'[s], handling'[s], handled'[s], dropped'[s])
        /\ All(queues'[s], handling'[s], handled'[s], dropped'[s]) = Has(s)
    BY <2>3, <2>8, Finishes DEF Has
  <2>10. AnswersDone'
    <3>1. ~e.isBot => e.id \in People
      <4>1. e \in Has(s)
        BY DEF Has, All
      <4>. QED BY <2>2, <4>1 DEF PipelineInv, EventsApart
    <3>2. ASSUME NEW m \in emitted
          PROVE  m.to \in People /\ \E f \in handled'[m.by] : f.id = m.to
      <4>1. m \in Answers /\ m.by \in Services
        BY DEF PipelineInv, Types, Answers
      <4>. QED BY <2>4, <4>1 DEF PipelineInv, AnswersDone
    <3>3. e \in handled'[s]
      BY <2>3
    <3>. QED BY <2>5, <3>1, <3>2, <3>3 DEF AnswersDone
  <2>. QED BY <2>3, <2>7, <2>9, <2>10, MovingSteps
<1>. QED BY <1>1, <1>2, <1>3 DEF Service, Handle

LEMMA CrashSteps ==
    ASSUME PipelineInv, NEW s \in Services, NEW n \in 0..Len(queues[s]), CrashService(s, n)
    PROVE  PipelineInv'
<1> DEFINE q == queues[s]
           left == SubSeq(q, n + 1, Len(q))
           lost == ToSet(SubSeq(q, 1, n))
<1>1. q \in Seq(Event)
  BY DEF PipelineInv, Types
<1>2. left \in Seq(Event) /\ lost \in SUBSET Event
  <2>1. Len(q) \in Nat /\ n \in Nat /\ n <= Len(q)
    BY <1>1
  <2>2. SubSeq(q, 1, n) \in Seq(Event)
    BY <1>1, <2>1
  <2>3. \A p \in Seq(Event) : ToSet(p) \in SUBSET Event
    BY DEF ToSet
  <2>4. left \in Seq(Event)
    BY <1>1, <2>1
  <2>. QED BY <2>2, <2>3, <2>4
<1>3. /\ queues'[s] = left /\ handling'[s] = {}
      /\ dropped'[s] = dropped[s] \cup handling[s] \cup lost
      /\ \A t \in Services \ {s} : UNCHANGED <<queues[t], handling[t], dropped[t]>>
      /\ UNCHANGED <<written, posts, feed, pub, declared, handled, emitted>>
  BY DEF CrashService, Out!FaultElsewhere, PipelineInv, Types
<1>4. Types'
  BY <1>2 DEF CrashService, Out!FaultElsewhere, PipelineInv, Types
<1>5. Apart(queues[s], handling[s], handled[s], dropped[s])
  BY DEF PipelineInv, EventsApart
<1>6. /\ Apart(queues'[s], handling'[s], handled'[s], dropped'[s])
      /\ All(queues'[s], handling'[s], handled'[s], dropped'[s]) = Has(s)
  BY <1>1, <1>3, <1>5, Dies DEF Has
<1>7. AnswersDone'
  BY <1>3 DEF PipelineInv, AnswersDone
<1>. QED BY <1>3, <1>4, <1>6, <1>7, MovingSteps

LEMMA PipelineKept == PipelineInv /\ [Next]_vars => PipelineInv'
<1> SUFFICES ASSUME PipelineInv, [Next]_vars
             PROVE  PipelineInv'
  OBVIOUS
<1>1. CASE GatewayStarts \/ Consume \/ ConsumerFails \/ PublisherBreaks
           \/ BrokerRestarts \/ CrashGateway \/ UNCHANGED vars
  <2>1. /\ UNCHANGED <<written, posts, feed, up, declared, queues, handling, handled, dropped, emitted>>
        /\ pub' \in {pub, "none", "connected", "listening", "broken"}
    BY <1>1 DEF GatewayStarts, ConnectPublisher, ConnectManager, Consume, ConsumerFails,
                PublisherBreaks, BrokerRestarts, CrashGateway, vars, inward, services, outward,
                Out!Connect, Out!Consume, Out!Break, Out!LoseAnswer, Out!BrokerRestarts,
                Out!Crash, Out!FaultElsewhere
  <2>2. Types'
    BY <2>1 DEF PipelineInv, Types
  <2>. QED BY <2>1, <2>2, QuietSteps
<1>2. ASSUME NEW m \in Answers, Settle(m)
      PROVE  PipelineInv'
  <2>1. UNCHANGED <<written, posts, feed, pub, up, declared, queues, handling, handled, dropped, emitted>>
    BY <1>2 DEF Settle, inward, services, Out!Deliver, Out!Answer, Out!Refuse, Out!Ack, Out!Nack
  <2>2. Types'
    BY <2>1 DEF PipelineInv, Types
  <2>. QED BY <2>1, <2>2, QuietSteps
<1>. QED
  BY <1>1, <1>2, WriteSteps, DispatchSteps, ServiceSteps, PostSteps, CrashSteps
     DEF Next, Failure, Outward

\* Discord's feed, the services' events and the answers stay in step.
LEMMA Invariance == Spec => []PipelineInv
BY Initially, PipelineKept, PTL DEF Spec

------------------------------------------------------------------------------
(***************************************************************************)
(* The refinement.                                                         *)
(***************************************************************************)

OutP == INSTANCE Outbound_proofs WITH Msgs <- Answers

\* Whatever Discord, the services and the gateway's way in do, the way out
\* behaves as Outbound says: each step of the round trip is one of its steps,
\* or none.
THEOREM Implements == Spec => OutP!Spec
<1>1. Init => OutP!Init
  BY DEF Init, Out!Init, OutP!Init
<1>2. PipelineInv /\ [Next]_vars => [OutP!Next]_OutP!vars
  <2> SUFFICES ASSUME PipelineInv, [Next]_vars
               PROVE  OutP!Next \/ UNCHANGED OutP!vars
    BY DEF OutP!vars
  <2> USE DEF outward, OutP!vars
  <2>1. ASSUME NEW id \in People, Write(id)
        PROVE  UNCHANGED OutP!vars
    BY <2>1 DEF Write
  <2>2. ASSUME NEW i \in feed, Dispatch(i)
        PROVE  UNCHANGED OutP!vars
    BY <2>2 DEF Dispatch
  <2>3. CASE GatewayStarts
    BY <2>3 DEF GatewayStarts, ConnectPublisher, ConnectManager
  <2>4. CASE Consume
    BY <2>4 DEF Consume, Out!Connect, Out!Consume, OutP!Connect, OutP!Consume,
                OutP!Next, OutP!Consumer
  <2>5. CASE ConsumerFails
    BY <2>5 DEF ConsumerFails, Out!Break, OutP!Break, Out!LoseAnswer, OutP!LoseAnswer,
                Out!Fault, OutP!Fault, Out!Requeue, OutP!Requeue, OutP!Next, OutP!Failure
  <2>6. CASE PublisherBreaks \/ \E s \in Services : \E n \in 0..Len(queues[s]) : CrashService(s, n)
    BY <2>6 DEF PublisherBreaks, CrashService, Out!FaultElsewhere, OutP!FaultElsewhere,
                Out!Fault, OutP!Fault, OutP!Next, OutP!Failure
  <2>7. CASE BrokerRestarts
    BY <2>7 DEF BrokerRestarts, Out!BrokerRestarts, OutP!BrokerRestarts,
                Out!Fault, OutP!Fault, OutP!Next, OutP!Failure
  <2>8. CASE CrashGateway
    BY <2>8 DEF CrashGateway, Out!Crash, OutP!Crash, Out!Fault, OutP!Fault,
                Out!Requeue, OutP!Requeue, OutP!Next, OutP!Failure
  <2>9. ASSUME NEW s \in Services, Service(s)
        PROVE  OutP!Next \/ UNCHANGED OutP!vars
    <3>1. CASE Listen(s) \/ Receive(s)
      BY <3>1 DEF Listen, Receive
    <3>2. ASSUME NEW e \in handling[s], Ignore(s, e)
          PROVE  UNCHANGED OutP!vars
      BY <3>2 DEF Ignore
    <3>3. ASSUME NEW e \in handling[s], Reply(s, e)
          PROVE  OutP!Next
      <4>1. [to |-> e.id, by |-> s] \in Answers
        BY DEF PipelineInv, Types, Event, Answers
      <4>. QED BY <3>3, <4>1 DEF Reply, Out!Emit, OutP!Emit, OutP!Next
    <3>. QED BY <2>9, <3>1, <3>2, <3>3 DEF Service, Handle
  <2>10. ASSUME NEW m \in Answers, Post(m)
         PROVE  OutP!Next
    BY <2>10 DEF Post, Out!Accept, OutP!Accept, OutP!Next, OutP!Consumer, OutP!Handling
  <2>11. ASSUME NEW m \in Answers, Settle(m)
         PROVE  OutP!Next
    BY <2>11 DEF Settle, Out!Deliver, Out!Answer, Out!Refuse, Out!Ack, Out!Nack,
                 OutP!Deliver, OutP!Answer, OutP!Refuse, OutP!Ack, OutP!Nack,
                 Out!Delivered, OutP!Delivered, Out!Acked, OutP!Acked, Out!Nacked, OutP!Nacked,
                 Out!Settled, OutP!Settled, OutP!Next, OutP!Consumer, OutP!Handling
  <2>12. CASE UNCHANGED vars
    BY <2>12 DEF vars
  <2>. QED BY <2>1, <2>2, <2>3, <2>4, <2>5, <2>6, <2>7, <2>8, <2>9, <2>10, <2>11, <2>12
           DEF Next, Failure, Outward
<1>. QED BY <1>1, <1>2, Invariance, PTL DEF Spec, OutP!Spec

\* Every variable has its type, those of the way out included.
THEOREM TypeCorrect == Spec => []TypeOK
<1>1. Spec => []OutP!TypeOK
  BY Implements, OutP!TypeCorrect, BoundsAssumption, PTL
<1>2. OutP!TypeOK /\ PipelineInv => TypeOK
  BY DEF PipelineInv, Types, TypeOK, OutP!TypeOK, Out!TypeOK
<1>. QED BY <1>1, <1>2, Invariance, PTL

\* The bot never answers a message of its own.
THEOREM Answered == Spec => []NoEcho
<1>1. PipelineInv => NoEcho
  BY DEF PipelineInv, AnswersDone, NoEcho
<1>. QED BY <1>1, Invariance, PTL

\* Each service sees each event at most once, and answers only what it handled.
THEOREM Once == Spec => []SeenOnce
<1>1. PipelineInv => SeenOnce
  <2> SUFFICES ASSUME PipelineInv, NEW s \in Services
               PROVE  /\ IsInjective(queues[s])
                      /\ \A id \in People \cup Posts : Cardinality(Where(s, id)) <= 1
                      /\ \A m \in emitted : m.by = s => Where(s, m.to) = {"handled"}
    BY DEF SeenOnce
  <2> DEFINE q == queues[s]
  <2>1. /\ q \in Seq(Event) /\ Len(q) \in Nat /\ DOMAIN q = 1..Len(q)
        /\ Apart(q, handling[s], handled[s], dropped[s])
    BY DEF PipelineInv, Types, EventsApart
  <2>2. IsInjective(q)
    BY <2>1 DEF Apart, IsInjective
  <2>3. ToSet(q) = {q[i] : i \in 1..Len(q)}
    BY <2>1 DEF ToSet
  <2> HIDE DEF q
  <2>4. ASSUME NEW id, NEW p \in Where(s, id), NEW r \in Where(s, id)
        PROVE  p = r
    BY <2>1, <2>3 DEF Where, Apart, q
  <2>5. ASSUME NEW id
        PROVE  Cardinality(Where(s, id)) <= 1
    <3>1. CASE Where(s, id) = {}
      BY <3>1, FS_EmptySet
    <3>2. CASE Where(s, id) # {}
      <4>1. PICK p : p \in Where(s, id)
        BY <3>2
      <4>2. Where(s, id) = {p}
        BY <2>4, <4>1
      <4>. QED BY <4>2, FS_Singleton
    <3>. QED BY <3>1, <3>2
  <2>6. ASSUME NEW m \in emitted, m.by = s
        PROVE  Where(s, m.to) = {"handled"}
    <3>1. "handled" \in Where(s, m.to)
      BY <2>6 DEF PipelineInv, AnswersDone, Where
    <3>. QED BY <2>4, <3>1
  <2>. QED BY <2>2, <2>5, <2>6 DEF q
<1>. QED BY <1>1, Invariance, PTL

\* What Outbound promises holds of the whole system: an answer that reached
\* the gateway's queue is there, is being posted, was posted or was refused.
THEOREM AnswersKept == Spec => []Out!NothingLost
<1>1. Spec => []OutP!NothingLost
  BY Implements, OutP!NoLoss, BoundsAssumption, PTL
<1>2. OutP!NothingLost => Out!NothingLost
  BY DEF OutP!NothingLost, Out!NothingLost
<1>. QED BY <1>1, <1>2, PTL
==============================================================================
