------------------------- MODULE TriggerCache_proofs -------------------------
(***************************************************************************)
(* Proofs about TriggerCache, for every number of guilds, responses,       *)
(* requests, handlers, attempts and faults.                                *)
(***************************************************************************)
EXTENDS TriggerCache, SequenceTheorems, TLAPS

------------------------------------------------------------------------------
(***************************************************************************)
(* Lemmas about the operators.                                             *)
(***************************************************************************)

\* What Lose does to the ghosts, as sets.
LEMMA LoseType ==
    ASSUME NEW ids \in SUBSET Responses, NEW q, TypeOK, Lose(ids, q)
    PROVE  lost' \in SUBSET Responses /\ missed' \in SUBSET Responses
BY DEF Lose, TypeOK

\* So does Told.
LEMMA ToldType ==
    ASSUME NEW r, NEW id \in Responses, NEW ok, TypeOK, Told(r, id, ok)
    PROVE  lost' \in SUBSET Responses /\ missed' \in SUBSET Responses
<1> DEFINE last == \A s \in Committed \ {r} : edit[s].id # id
<1>1. lost' \in {lost, lost \ {id}, lost \cup {id}}
  BY DEF Told
<1>2. missed' \in {missed, missed \ {id}, missed \cup {id}}
  BY DEF Told
<1>. QED BY <1>1, <1>2 DEF TypeOK

\* A row written by an update is a row.
LEMMA UpdateRowType ==
    ASSUME NEW row \in Row, NEW loaded \in View, NEW view \in View
    PROVE  UpdateRow(row, loaded, view) \in Row
BY DEF UpdateRow, WriteColumns, Row, View

\* The list a handler writes back is a list of triggers.
LEMMA NextTriggersType ==
    ASSUME NEW seen \in SUBSET Trigger, NEW e \in Event
    PROVE  NextTriggers(seen, e) \in SUBSET Trigger
BY DEF NextTriggers, Trigger, Event, Row

\* Appending, removing the head and splitting a queue, as sets of ids.
LEMMA QueuedAppend ==
    ASSUME NEW q \in Seq(Event), NEW e \in Event
    PROVE  Queued(Append(q, e)) = Queued(q) \cup {e.id}
BY DEF Queued

LEMMA QueuedTail ==
    ASSUME NEW q \in Seq(Event), q # <<>>
    PROVE  Queued(q) = {Head(q).id} \cup Queued(Tail(q))
<1>1. Queued(q) \subseteq {Head(q).id} \cup Queued(Tail(q))
  <2> SUFFICES ASSUME NEW i \in 1..Len(q)
               PROVE  q[i].id \in {Head(q).id} \cup Queued(Tail(q))
    BY DEF Queued
  <2>1. CASE i = 1
    BY <2>1
  <2>2. CASE i # 1
    <3>1. i - 1 \in 1..Len(Tail(q)) /\ Tail(q)[i - 1] = q[i]
      BY <2>2
    <3>. QED BY <3>1 DEF Queued
  <2>. QED BY <2>1, <2>2
<1>2. {Head(q).id} \cup Queued(Tail(q)) \subseteq Queued(q)
  <2>1. Head(q).id \in Queued(q)
    <3>1. 1 \in 1..Len(q) /\ Head(q) = q[1]
      OBVIOUS
    <3>. QED BY <3>1 DEF Queued
  <2>2. ASSUME NEW i \in 1..Len(Tail(q))
        PROVE  Tail(q)[i].id \in Queued(q)
    <3>1. i + 1 \in 1..Len(q) /\ Tail(q)[i] = q[i + 1]
      OBVIOUS
    <3>. QED BY <3>1 DEF Queued
  <2>. QED BY <2>1, <2>2 DEF Queued
<1>. QED BY <1>1, <1>2

\* The part of a queue that a crash leaves, and the part it takes.
LEMMA QueuedSplit ==
    ASSUME NEW q \in Seq(Event), NEW n \in 0..Len(q)
    PROVE  /\ SubSeq(q, n + 1, Len(q)) \in Seq(Event)
           /\ Queued(q) = Queued(SubSeq(q, 1, n)) \cup Queued(SubSeq(q, n + 1, Len(q)))
<1> DEFINE left == SubSeq(q, n + 1, Len(q))
           cut  == SubSeq(q, 1, n)
<1>1. /\ left \in Seq(Event) /\ Len(left) = Len(q) - n
      /\ \A i \in 1..Len(left) : left[i] = q[n + i]
  OBVIOUS
<1>2. /\ Len(cut) = n
      /\ \A i \in 1..n : cut[i] = q[i]
  OBVIOUS
<1>3. ASSUME NEW i \in 1..Len(q)
      PROVE  q[i].id \in Queued(cut) \cup Queued(left)
  <2>1. CASE i <= n
    <3>1. i \in 1..Len(cut) /\ cut[i] = q[i]
      BY <1>2, <2>1
    <3>. QED BY <3>1 DEF Queued
  <2>2. CASE ~(i <= n)
    <3>1. i - n \in 1..Len(left) /\ left[i - n] = q[i]
      BY <1>1, <2>2
    <3>. QED BY <3>1 DEF Queued
  <2>. QED BY <2>1, <2>2
<1>4. ASSUME NEW i \in 1..Len(cut)
      PROVE  cut[i].id \in Queued(q)
  <2>1. i \in 1..Len(q) /\ cut[i] = q[i]
    BY <1>2
  <2>. QED BY <2>1 DEF Queued
<1>5. ASSUME NEW i \in 1..Len(left)
      PROVE  left[i].id \in Queued(q)
  <2>1. n + i \in 1..Len(q) /\ left[i] = q[n + i]
    BY <1>1
  <2>. QED BY <2>1 DEF Queued
<1>. HIDE DEF left, cut
<1>6. Queued(q) = Queued(cut) \cup Queued(left)
  BY <1>3, <1>4, <1>5 DEF Queued
<1>. QED BY <1>1, <1>6 DEF left, cut

------------------------------------------------------------------------------
(***************************************************************************)
(* Type correctness.                                                       *)
(***************************************************************************)

\* Every variable keeps its type, and no list of triggers ever holds one
\* without content, whatever interleaves and fails.
THEOREM TypeCorrect == Spec => []TypeOK
<1> USE GuildOfAssumption, BoundsAssumption, NoRowAssumption, StartAssumption, NoEditAssumption
<1>1. ASSUME Init PROVE TypeOK
  <2>1. NoTriggers \in [Guilds -> SUBSET Trigger]
    BY DEF NoTriggers
  <2>2. Active = {}
    BY <1>1 DEF Init, Active
  <2>3. /\ rows \in [Responses -> Row]
        /\ pc \in [Requests -> {"new", "loaded", "saved", "recorded", "done"}]
        /\ edit \in [Requests -> Edit \cup {NoEdit}]
    BY <1>1 DEF Init, Row
  <2>4. /\ history \in Seq(Entry) /\ queue \in Seq(Event)
        /\ inflight \in Seq(Handler) /\ Len(inflight) <= MaxInFlight
        /\ attempt \in 1..MaxAttempts /\ faults \in 0..MaxFaults
    BY <1>1 DEF Init
  <2>. QED BY <1>1, <2>1, <2>2, <2>3, <2>4 DEF Init, TypeOK
<1>2. TypeOK /\ [Next]_vars => TypeOK'
  <2> SUFFICES ASSUME TypeOK, [Next]_vars
               PROVE  TypeOK'
    OBVIOUS
  <2>1. ASSUME NEW r \in Requests, NEW id \in Responses, NEW view \in View,
               Create(r, id, view)
        PROVE  TypeOK'
    <3>1. edit'[r] \in Edit
      BY <2>1 DEF Create, TypeOK, Edit, Action, Row
    <3>. QED BY <2>1, <3>1 DEF Create, Saved, TypeOK, Active, proc, Row
  <2>2. ASSUME NEW r \in Requests, NEW id \in Responses, NEW view \in Row,
               NEW action \in {"UPDATE", "DELETE"}, Load(r, id, action, view)
        PROVE  TypeOK'
    <3>1. edit'[r] \in Edit
      BY <2>2 DEF Load, TypeOK, Edit, Action, Row
    <3>. QED BY <2>2, <3>1 DEF Load, TypeOK, Active, proc
  <2>3. ASSUME NEW r \in Requests, RequestStep(r)
        PROVE  TypeOK'
    <3>1. CASE SaveUpdate(r)
      <4>1. edit[r] \in Edit
        BY <3>1 DEF SaveUpdate, TypeOK, Active
      <4>2. rows'[edit[r].id] \in Row
        <5>1. edit[r].view \in View
          BY <4>1, <3>1 DEF SaveUpdate, Edit, Row
        <5>. QED BY <3>1, <4>1, <5>1 DEF SaveUpdate, UpdateRow, WriteColumns, TypeOK, Row, View, Edit
      <4>. QED BY <3>1, <4>1, <4>2 DEF SaveUpdate, Saved, TypeOK, Active, Edit, proc
    <3>2. CASE Destroy(r)
      <4>1. edit[r] \in Edit
        BY <3>2 DEF Destroy, TypeOK, Active
      <4>. QED BY <3>2, <4>1 DEF Destroy, Saved, TypeOK, Active, Edit, proc, Row
    <3>3. CASE Reject(r)
      BY <3>3 DEF Reject, Finished, TypeOK, Active, proc
    <3>4. CASE Record(r)
      <4>1. edit[r] \in Edit
        BY <3>4 DEF Record, TypeOK, Active
      <4>2. EntryOf(edit[r]) \in Entry
        BY <4>1 DEF EntryOf, Edit, Entry
      <4>. QED BY <3>4, <4>1, <4>2 DEF Record, TypeOK, Active, proc
    <3>5. CASE Publish(r)
      <4>1. edit[r] \in Edit
        BY <3>5 DEF Publish, TypeOK, Active
      <4>2. EventOf(edit[r]) \in Event
        BY <4>1 DEF EventOf, Edit, Event
      <4>3. edit[r].id \in Responses
        BY <4>1 DEF Edit
      <4>4. Append(queue, EventOf(edit[r])) \in Seq(Event)
        BY <4>2 DEF TypeOK
      <4>5. /\ queue' \in Seq(Event)
            /\ lost' \in SUBSET Responses
            /\ missed' \in SUBSET Responses
        BY <3>5, <4>3, <4>4, ToldType DEF Publish, TypeOK
      <4>. QED BY <3>5, <4>5 DEF Publish, Finished, TypeOK, Active, proc
    <3>. QED BY <2>3, <3>1, <3>2, <3>3, <3>4, <3>5 DEF RequestStep
  <2>4. ASSUME NEW r \in Requests, RequestFails(r)
        PROVE  TypeOK'
    <3>1. edit[r].id \in Responses
      BY <2>4 DEF RequestFails, TypeOK, Active, Edit
    <3>2. lost' \in SUBSET Responses /\ missed' \in SUBSET Responses
      BY <2>4, <3>1, ToldType DEF RequestFails
    <3>. QED BY <2>4, <3>1, <3>2 DEF RequestFails, Finished, Fault, TypeOK, Active, proc
  <2>5. CASE Boot
    BY <2>5 DEF Boot, TypeOK, Active, api
  <2>6. CASE FetchSnapshot
    BY <2>6 DEF FetchSnapshot, TriggersOf, Of, Trigger, Row, TypeOK, Active, api
  <2>7. ASSUME NEW g \in Guilds, FillGuild(g)
        PROVE  TypeOK'
    BY <2>7 DEF FillGuild, TypeOK, Active, api
  <2>8. CASE Hydrated
    BY <2>8 DEF Hydrated, TypeOK, Active, api
  <2>9. CASE HydrationFails
    BY <2>9 DEF HydrationFails, Fault, NoTriggers, TypeOK, Active, api
  <2>10. CASE Listen
    BY <2>10 DEF Listen, TypeOK, Active, api
  <2>11. CASE Receive
    <3>1. Head(queue) \in Event /\ Tail(queue) \in Seq(Event)
      BY <2>11 DEF Receive, TypeOK
    <3>2. [event |-> Head(queue), seen |-> cache[GuildOf[Head(queue).id]]] \in Handler
      BY <3>1 DEF Handler, Event, TypeOK
    <3>3. lost' \in SUBSET Responses /\ missed' \in SUBSET Responses
      <4>1. Overtaken(Head(queue)) \in SUBSET Responses
        BY DEF Overtaken, Of
      <4>. QED BY <2>11, <4>1, LoseType DEF Receive
    <3>. QED BY <2>11, <3>1, <3>2, <3>3 DEF Receive, TypeOK, Active, api, proc
  <2>12. CASE WriteBack
    <3>1. Head(inflight) \in Handler /\ Tail(inflight) \in Seq(Handler)
          /\ Len(Tail(inflight)) <= MaxInFlight
      BY <2>12 DEF WriteBack, TypeOK
    <3>2. NextTriggers(Head(inflight).seen, Head(inflight).event) \in SUBSET Trigger
      BY <3>1, NextTriggersType DEF Handler
    <3>. QED BY <2>12, <3>1, <3>2 DEF WriteBack, TypeOK, Active, api, proc
  <2>13. CASE HandlerFails
    <3>1. Head(inflight) \in Handler /\ Tail(inflight) \in Seq(Handler)
          /\ Len(Tail(inflight)) <= MaxInFlight
      BY <2>13 DEF HandlerFails, TypeOK
    <3>2. lost' \in SUBSET Responses /\ missed' \in SUBSET Responses
      BY <2>13, <3>1, LoseType DEF HandlerFails, Handler, Event
    <3>. QED BY <2>13, <3>1, <3>2 DEF HandlerFails, Fault, TypeOK, Active, api, proc
  <2>14. ASSUME NEW n \in 0..Len(queue), Crash(n)
         PROVE  TypeOK'
    <3>1. SubSeq(queue, n + 1, Len(queue)) \in Seq(Event)
      BY QueuedSplit DEF TypeOK
    <3>2. Queued(SubSeq(queue, 1, n)) \subseteq Responses
      <4>1. Queued(SubSeq(queue, 1, n)) \subseteq Queued(queue)
        BY QueuedSplit DEF TypeOK
      <4>2. Queued(queue) \subseteq Responses
        BY DEF Queued, TypeOK, Event
      <4>. QED BY <4>1, <4>2
    <3>3. Handling \subseteq Responses
      <4> SUFFICES ASSUME NEW i \in 1..Len(inflight)
                   PROVE  inflight[i].event.id \in Responses
        BY DEF Handling
      <4>1. inflight[i] \in Handler
        BY DEF TypeOK
      <4>. QED BY <4>1 DEF Handler, Event
    <3>4. lost' \in SUBSET Responses /\ missed' \in SUBSET Responses
      BY <2>14, <3>2, <3>3 DEF Crash, Lose, TypeOK
    <3>. QED BY <2>14, <3>1, <3>4 DEF Crash, Fault, NoTriggers, TypeOK, Active, api
  <2>15. ASSUME NEW g \in Guilds, Evict(g)
         PROVE  TypeOK'
    <3>1. {t.responseId : t \in cache[g]} \subseteq Responses
      BY DEF TypeOK, Trigger
    <3>. QED BY <2>15, <3>1 DEF Evict, Fault, TypeOK, Active, api, proc
  <2>16. CASE UNCHANGED vars
    BY <2>16 DEF vars, TypeOK, Active
  <2>. QED
    BY <2>1, <2>2, <2>3, <2>4, <2>5, <2>6, <2>7, <2>8, <2>9, <2>10, <2>11,
       <2>12, <2>13, <2>14, <2>15, <2>16 DEF Next, ServiceStep, Environment
<1>. QED BY <1>1, <1>2, PTL DEF Spec

------------------------------------------------------------------------------
(***************************************************************************)
(* Proper lists.                                                           *)
(***************************************************************************)

LEMMA NextTriggersProper ==
    ASSUME NEW seen, NEW e, ProperList(GuildOf[e.id], seen)
    PROVE  ProperList(GuildOf[e.id], NextTriggers(seen, e))
BY DEF ProperList, NextTriggers

LEMMA SnapshotProper ==
    ASSUME NEW g
    PROVE  ProperList(g, TriggersOf(g))
BY DEF ProperList, TriggersOf, Of

\* However many handlers overlap, and whatever is replayed after a crash, a
\* guild's list has no trigger of another guild and no two of one response:
\* the lists read, the lists to be written and the snapshot are like that.
THEOREM ListsProper == Spec => []ListsInv
<1>1. Init => ListsInv
  BY DEF Init, ListsInv, ProperLists, ProperList, NoTriggers
<1>2. TypeOK /\ ListsInv /\ [Next]_vars => ListsInv'
  <2> SUFFICES ASSUME TypeOK, ListsInv, [Next]_vars
               PROVE  ListsInv'
    OBVIOUS
  <2> USE DEF ListsInv, ProperLists
  <2>1. CASE UNCHANGED <<cache, snapshot, inflight>>
    BY <2>1
  <2>2. CASE FetchSnapshot
    BY <2>2, SnapshotProper DEF FetchSnapshot
  <2>3. ASSUME NEW g \in Guilds, FillGuild(g)
        PROVE  ListsInv'
    <3>1. /\ \A h \in Guilds : cache'[h] \in {cache[h], snapshot[h]}
          /\ \A h \in Guilds : snapshot'[h] \in {snapshot[h], {}}
          /\ UNCHANGED inflight
      BY <2>3 DEF FillGuild, TypeOK
    <3>2. \A h \in Guilds : ProperList(h, {})
      BY DEF ProperList
    <3>. QED BY <3>1, <3>2
  <2>4. CASE HydrationFails
    BY <2>4 DEF HydrationFails, NoTriggers, ProperList
  <2>5. CASE Receive
    <3>1. Head(queue) \in Event
      BY <2>5 DEF Receive, TypeOK
    <3>2. ProperList(GuildOf[Head(queue).id], cache[GuildOf[Head(queue).id]])
      BY <3>1, GuildOfAssumption DEF Event
    <3>3. ASSUME NEW i \in 1..Len(inflight')
          PROVE  ProperList(GuildOf[inflight'[i].event.id], inflight'[i].seen)
      <4>1. CASE i \in 1..Len(inflight)
        BY <2>5, <4>1 DEF Receive, TypeOK
      <4>2. CASE i \notin 1..Len(inflight)
        BY <2>5, <3>2, <4>2 DEF Receive, TypeOK
      <4>. QED BY <4>1, <4>2
    <3>. QED BY <2>5, <3>3 DEF Receive, proc
  <2>6. CASE inflight # <<>> /\ inflight' = Tail(inflight) /\ UNCHANGED <<cache, snapshot>>
    <3>1. ASSUME NEW i \in 1..Len(inflight')
          PROVE  ProperList(GuildOf[inflight'[i].event.id], inflight'[i].seen)
      <4>1. i + 1 \in 1..Len(inflight) /\ inflight'[i] = inflight[i + 1]
        BY <2>6 DEF TypeOK
      <4>. QED BY <4>1
    <3>. QED BY <2>6, <3>1
  <2>7. CASE WriteBack
    <3>1. ProperList(GuildOf[Head(inflight).event.id],
                    NextTriggers(Head(inflight).seen, Head(inflight).event))
      <4>1. 1 \in 1..Len(inflight) /\ Head(inflight) = inflight[1]
        BY <2>7 DEF WriteBack, TypeOK
      <4>. QED BY <4>1, NextTriggersProper
    <3>2. \A g \in Guilds : ProperList(g, cache'[g])
      BY <2>7, <3>1 DEF WriteBack, TypeOK
    <3>3. ASSUME NEW i \in 1..Len(inflight')
          PROVE  ProperList(GuildOf[inflight'[i].event.id], inflight'[i].seen)
      <4>1. i + 1 \in 1..Len(inflight) /\ inflight'[i] = inflight[i + 1]
        BY <2>7 DEF WriteBack, TypeOK
      <4>. QED BY <4>1
    <3>. QED BY <2>7, <3>2, <3>3 DEF WriteBack, proc
  <2>8. ASSUME NEW n, Crash(n)
        PROVE  ListsInv'
    BY <2>8 DEF Crash, NoTriggers, ProperList
  <2>9. ASSUME NEW g \in Guilds, Evict(g)
        PROVE  ListsInv'
    BY <2>9 DEF Evict, ProperList, TypeOK, proc
  <2>10. CASE HandlerFails
    BY <2>6, <2>10 DEF HandlerFails, proc
  <2>. QED
    BY <2>1, <2>2, <2>3, <2>4, <2>5, <2>7, <2>8, <2>9, <2>10
       DEF Next, RequestStep, ServiceStep, Environment, Create, Load, SaveUpdate,
           Destroy, Saved, Reject, Record, Publish, RequestFails, Boot, Hydrated,
           Listen, proc, vars
<1>. QED BY <1>1, <1>2, TypeCorrect, PTL DEF Spec

------------------------------------------------------------------------------
(***************************************************************************)
(* Coherence: what the queue, the handlers and the snapshot hold is what   *)
(* the table has, one kind of step at a time.                              *)
(***************************************************************************)

\* The handlers under way, as the code holds them, and the ids they are for.
LEMMA HandlerType ==
    ASSUME TypeOK
    PROVE  /\ Len(inflight) \in Nat
           /\ \A i \in 1..Len(inflight) :
                /\ inflight[i] \in Handler
                /\ inflight[i].event \in Event
                /\ inflight[i].event.id \in Responses
                /\ inflight[i].seen \in SUBSET Trigger
                /\ inflight[i].event.id \in Handling
<1>1. Len(inflight) \in Nat /\ \A i \in 1..Len(inflight) : inflight[i] \in Handler
  BY DEF TypeOK
<1>. QED BY <1>1 DEF Handler, Event, Handling

\* Steps of the service leave the requests alone.
LEMMA UnsentSame ==
    ASSUME UNCHANGED api
    PROVE  Unsent' = Unsent
BY DEF api, Unsent, Committed

\* Steps that move neither rows, events nor the cache can only shrink what
\* the invariant speaks of.
LEMMA QuietSteps ==
    ASSUME CoherenceInv, UNCHANGED <<rows, queue, inflight, cache>>,
           lost \cup Unsent \subseteq lost' \cup Unsent',
           missed \cup Unsent \subseteq missed' \cup Unsent',
           missed' \subseteq lost',
           svc' # "listening" => inflight = <<>>,
           \A g \in Guilds : svc' = "filling" /\ snapshot'[g] # {} =>
                svc = "filling" /\ snapshot'[g] = snapshot[g]
    PROVE  CoherenceInv'
<1> USE DEF CoherenceInv, PendingInStep
<1>1. Queued(queue)' = Queued(queue) /\ Handling' = Handling
  BY DEF Queued, Handling
<1>2. OnItsWay \subseteq OnItsWay'
  BY <1>1 DEF OnItsWay
<1>3. CoherentUnlessLost'
  BY <1>1, <1>2 DEF CoherentUnlessLost, Settled
<1>4. QueueInStep'
  BY DEF QueueInStep, LastOf
<1>5. HandlersInStep'
  BY <1>1, <1>2 DEF HandlersInStep, Agrees, Of, Later
<1>6. SnapshotInStep'
  BY <1>1 DEF SnapshotInStep, Agrees, Of
<1>. QED BY <1>3, <1>4, <1>5, <1>6

\* A save: it is up to the request to tell of the row from now on.
LEMMA SaveSteps ==
    ASSUME CoherenceInv, TypeOK, NEW id \in Responses,
           UNCHANGED <<queue, inflight, cache, snapshot, svc, lost, missed>>,
           \A i \in Responses \ {id} : rows'[i] = rows[i],
           Unsent' = Unsent \cup {id}
    PROVE  CoherenceInv'
<1> USE DEF CoherenceInv, PendingInStep
<1>1. Queued(queue)' = Queued(queue) /\ Handling' = Handling
  BY DEF Queued, Handling
<1>2. OnItsWay' = OnItsWay \cup {id}
  BY <1>1 DEF OnItsWay
<1>3. CoherentUnlessLost'
  BY <1>1, <1>2 DEF CoherentUnlessLost, Settled
<1>4. QueueInStep'
  BY DEF QueueInStep, LastOf
<1>5. HandlersInStep'
  BY <1>1, <1>2, HandlerType DEF HandlersInStep, Agrees, Of, Later
<1>6. SnapshotInStep'
  BY <1>1 DEF SnapshotInStep, Agrees, Of
<1>. QED BY <1>3, <1>4, <1>5, <1>6

\* A request that is over: its response is still up to another request, or
\* lost, or, if the queue took an event that says what the table says, not.
LEMMA ToldSteps ==
    ASSUME TypeOK, missed \subseteq lost, NEW r \in Committed, NEW ok,
           Finished(r), Told(r, edit[r].id, ok)
    PROVE  /\ lost \cup Unsent \subseteq lost' \cup Unsent' \cup {edit[r].id}
           /\ missed \cup Unsent \subseteq missed' \cup Unsent' \cup {edit[r].id}
           /\ missed' \subseteq lost'
           /\ edit[r].id \in lost' \cup Unsent' \/ ok
           /\ ~ok => edit[r].id \in missed' \cup Unsent'
<1> DEFINE id == edit[r].id
           last == \A s \in Committed \ {r} : edit[s].id # id
<1>1. /\ \A s \in Committed \ {r} : s \in Committed' /\ edit'[s] = edit[s]
      /\ r \in Requests
  BY DEF Finished, Committed, TypeOK
<1>2. Unsent \subseteq Unsent' \cup {id}
  BY <1>1 DEF Unsent
<1>3. ~last => id \in Unsent'
  BY <1>1 DEF Unsent
<1>4. /\ lost' = IF ~last THEN lost ELSE IF ok THEN lost \ {id} ELSE lost \cup {id}
      /\ missed' = IF ~last THEN missed ELSE IF ok THEN missed \ {id} ELSE missed \cup {id}
  BY DEF Told
<1> HIDE DEF id, last
<1>5. CASE ~last
  BY <1>2, <1>3, <1>4, <1>5 DEF id
<1>6. CASE last /\ ok
  BY <1>2, <1>4, <1>6 DEF id
<1>7. CASE last /\ ~ok
  BY <1>2, <1>4, <1>7 DEF id
<1>. QED BY <1>5, <1>6, <1>7

\* A publish to the bound queue: the request's event is the last of its row.
LEMMA PublishSteps ==
    ASSUME CoherenceInv, TypeOK, NEW r \in Requests, Publish(r), bound
    PROVE  CoherenceInv'
<1> USE DEF CoherenceInv, PendingInStep
<1> DEFINE e == EventOf(edit[r])
<1>1. /\ r \in Committed /\ edit[r] \in Edit
      /\ e \in Event /\ e.id \in Responses /\ e.id = edit[r].id /\ e.data = edit[r].view
  <2>1. r \in Committed /\ edit[r] \in Edit
    BY DEF Publish, Committed, Active, TypeOK
  <2>. QED BY <2>1 DEF EventOf, Edit, Event
<1>2. /\ queue' = Append(queue, e)
      /\ UNCHANGED <<rows, inflight, cache, snapshot, svc>>
  BY DEF Publish, proc
<1>3. /\ lost \cup Unsent \subseteq lost' \cup Unsent' \cup {e.id}
      /\ missed \cup Unsent \subseteq missed' \cup Unsent' \cup {e.id}
      /\ missed' \subseteq lost'
      /\ e.id \in lost' \cup Unsent' \/ e.data = rows[e.id]
  <2>1. Finished(r) /\ Told(r, edit[r].id, bound /\ edit[r].view = rows[edit[r].id])
    BY DEF Publish
  <2>. HIDE DEF e
  <2>. QED BY <1>1, <2>1, ToldSteps
<1>4. Queued(queue)' = Queued(queue) \cup {e.id} /\ Handling' = Handling
  BY <1>1, <1>2, QueuedAppend DEF TypeOK, Handling
<1> HIDE DEF e
<1>5. OnItsWay \subseteq OnItsWay'
  BY <1>3, <1>4 DEF OnItsWay
<1>6. CoherentUnlessLost'
  BY <1>2, <1>4, <1>5 DEF CoherentUnlessLost, Settled
<1>7. QueueInStep'
  <2> SUFFICES ASSUME NEW id \in Responses \ (lost' \cup Unsent'), NEW i \in 1..Len(queue'),
                      LastOf(id, i)'
               PROVE  queue'[i].data = rows'[id]
    BY DEF QueueInStep
  <2>1. /\ Len(queue') = Len(queue) + 1 /\ queue'[Len(queue) + 1] = e
        /\ \A k \in 1..Len(queue) : queue'[k] = queue[k]
        /\ Len(queue) \in Nat
    BY <1>1, <1>2 DEF TypeOK
  <2>2. CASE i = Len(queue) + 1
    BY <1>2, <1>3, <2>1, <2>2 DEF LastOf
  <2>3. CASE i # Len(queue) + 1
    <3>1. i \in 1..Len(queue)
      BY <2>1, <2>3
    <3>2. id # e.id
      BY <2>1, <3>1 DEF LastOf
    <3>3. LastOf(id, i)
      BY <2>1, <3>1 DEF LastOf
    <3>. QED BY <1>2, <1>3, <2>1, <3>1, <3>2, <3>3 DEF QueueInStep
  <2>. QED BY <2>2, <2>3
<1>8. HandlersInStep'
  BY <1>2, <1>4, <1>5 DEF HandlersInStep, Agrees, Of, Later
<1>9. SnapshotInStep'
  BY <1>2, <1>3, <1>4 DEF SnapshotInStep, Agrees, Of
<1>. QED BY <1>2, <1>3, <1>6, <1>7, <1>8, <1>9

\* The snapshot is the table.
LEMMA FetchSteps ==
    ASSUME CoherenceInv, TypeOK, FetchSnapshot
    PROVE  CoherenceInv'
<1> USE DEF CoherenceInv, PendingInStep
<1>1. /\ UNCHANGED <<rows, queue, inflight, cache, lost>> /\ missed' = {}
      /\ snapshot' = [g \in Guilds |-> TriggersOf(g)] /\ inflight = <<>>
  BY DEF FetchSnapshot, api
<1>2. Unsent' = Unsent
  BY UnsentSame DEF FetchSnapshot
<1>3. Queued(queue)' = Queued(queue) /\ Handling' = Handling
  BY <1>1 DEF Queued, Handling
<1>4. CoherentUnlessLost'
  BY <1>1, <1>2, <1>3 DEF CoherentUnlessLost, Settled, OnItsWay
<1>5. QueueInStep'
  BY <1>1, <1>2 DEF QueueInStep, LastOf
<1>6. HandlersInStep'
  <2>1. 1..Len(inflight') = {}
    BY <1>1
  <2>. QED BY <2>1 DEF HandlersInStep
<1>7. SnapshotInStep'
  <2>1. \A g \in Guilds : \A id \in Of(g) : Cached(TriggersOf(g), id) = AsTrigger(id, rows[id])
    BY DEF TriggersOf, Cached, AsTrigger
  <2>. QED BY <1>1, <2>1 DEF SnapshotInStep, Agrees, Of
<1>. QED BY <1>1, <1>4, <1>5, <1>6, <1>7

\* Writing a guild's snapshot repairs what no event or fault has overtaken.
LEMMA FillSteps ==
    ASSUME CoherenceInv, TypeOK, NEW g \in Guilds, FillGuild(g)
    PROVE  CoherenceInv'
<1> USE DEF CoherenceInv, PendingInStep
<1>1. /\ UNCHANGED <<rows, queue, inflight, missed, svc>> /\ inflight = <<>> /\ svc = "filling"
      /\ cache' = [cache EXCEPT ![g] = snapshot[g]]
      /\ snapshot' = [snapshot EXCEPT ![g] = {}] /\ snapshot[g] # {}
      /\ lost' = {id \in lost : GuildOf[id] # g \/ id \in missed \/ id \in Queued(queue)}
  BY DEF FillGuild, api
<1>2. Unsent' = Unsent
  BY UnsentSame DEF FillGuild
<1>3. Queued(queue)' = Queued(queue) /\ Handling' = Handling /\ Handling = {}
  BY <1>1 DEF Queued, Handling
<1>4. CoherentUnlessLost'
  <2> SUFFICES ASSUME NEW id \in Responses, Settled(id)'
               PROVE  Cached(cache'[GuildOf[id]], id) = AsTrigger(id, rows'[id])
    BY DEF CoherentUnlessLost
  <2>1. GuildOf[id] \in Guilds
    BY GuildOfAssumption
  <2>2. CASE GuildOf[id] = g
    <3>1. id \notin missed \cup Unsent \cup Queued(queue)
      BY <1>1, <1>2, <1>3 DEF Settled, OnItsWay
    <3>2. Agrees(snapshot[g], id)
      BY <1>1, <2>2, <3>1 DEF SnapshotInStep, Of
    <3>. QED BY <1>1, <2>2, <3>2 DEF Agrees, TypeOK
  <2>3. CASE GuildOf[id] # g
    <3>1. Settled(id)
      BY <1>1, <1>2, <1>3, <2>3 DEF Settled, OnItsWay
    <3>. QED BY <1>1, <2>1, <2>3, <3>1 DEF CoherentUnlessLost, TypeOK
  <2>. QED BY <2>2, <2>3
<1>5. QueueInStep'
  <2>1. \A id \in Responses, i \in 1..Len(queue) : LastOf(id, i) => id \in Queued(queue)
    BY DEF LastOf, Queued
  <2>. QED BY <1>1, <1>2, <2>1 DEF QueueInStep, LastOf
<1>6. HandlersInStep'
  <2>1. 1..Len(inflight') = {}
    BY <1>1
  <2>. QED BY <2>1 DEF HandlersInStep
<1>7. SnapshotInStep'
  BY <1>1, <1>2, <1>3 DEF SnapshotInStep, Agrees, Of, TypeOK
<1>. QED BY <1>1, <1>4, <1>5, <1>6, <1>7

\* A handler starts.  Those before it in its guild are lost, unless more is on
\* the way for them.
LEMMA ReceiveSteps ==
    ASSUME CoherenceInv, TypeOK, Receive
    PROVE  CoherenceInv'
<1> USE DEF CoherenceInv, PendingInStep
<1> DEFINE e == Head(queue)
           h == [event |-> e, seen |-> cache[GuildOf[e.id]]]
           n == Len(inflight)
<1>1. /\ UNCHANGED <<rows, cache, svc, snapshot>> /\ svc = "listening"
      /\ queue # <<>> /\ queue' = Tail(queue) /\ inflight' = Append(inflight, h)
      /\ Lose(Overtaken(e), queue')
  BY DEF Receive, api, proc
<1>2. Unsent' = Unsent
  BY UnsentSame DEF Receive
<1>3. /\ Queued(queue) = {e.id} \cup Queued(queue)'
      /\ e = queue[1] /\ e \in Event /\ e.id \in Responses
      /\ Len(queue') = Len(queue) - 1 /\ Len(queue) \in Nat \ {0}
      /\ \A i \in 1..Len(queue') : queue'[i] = queue[i + 1]
  <2>1. queue \in Seq(Event)
    BY DEF TypeOK
  <2>2. Queued(queue) = {e.id} \cup Queued(queue)'
    BY <1>1, <2>1, QueuedTail DEF Queued
  <2>3. e = queue[1] /\ e \in Event
    BY <1>1, <2>1
  <2>4. /\ Len(queue') = Len(queue) - 1 /\ Len(queue) \in Nat \ {0}
        /\ \A i \in 1..Len(queue') : queue'[i] = queue[i + 1]
    BY <1>1, <2>1
  <2>. QED BY <2>2, <2>3, <2>4 DEF Event
<1>4. /\ n \in Nat /\ Len(inflight') = n + 1 /\ inflight'[n + 1] = h
      /\ \A i \in 1..n : inflight'[i] = inflight[i]
  BY <1>1 DEF TypeOK
<1>5. /\ h.event = e /\ h.seen = cache[GuildOf[e.id]]
      /\ Handling' = Handling \cup {e.id}
  BY <1>4 DEF Handling
<1>6. /\ lost \subseteq lost' /\ missed' \subseteq lost'
      /\ Overtaken(e) \subseteq lost' \cup Unsent \cup Queued(queue)'
  BY <1>1 DEF Lose
<1> HIDE DEF e, h, n
<1>7. OnItsWay' \cup Handling' = OnItsWay' \cup Handling \cup {e.id} /\ OnItsWay \subseteq OnItsWay' \cup {e.id}
  BY <1>2, <1>3, <1>5, <1>6 DEF OnItsWay
<1>8. CoherentUnlessLost'
  BY <1>1, <1>7 DEF CoherentUnlessLost, Settled
<1>9. QueueInStep'
  <2> SUFFICES ASSUME NEW id \in Responses \ (lost' \cup Unsent'), NEW i \in 1..Len(queue'),
                      LastOf(id, i)'
               PROVE  queue'[i].data = rows'[id]
    BY DEF QueueInStep
  <2>1. i + 1 \in 1..Len(queue) /\ queue'[i] = queue[i + 1]
    BY <1>3
  <2>2. LastOf(id, i + 1)
    <3>1. queue[i + 1].id = id
      BY <2>1 DEF LastOf
    <3>2. ASSUME NEW j \in (i + 1 + 1)..Len(queue)
          PROVE  queue[j].id # id
      <4>1. j - 1 \in (i + 1)..Len(queue') /\ queue'[j - 1] = queue[j]
        BY <1>3
      <4>. QED BY <4>1 DEF LastOf
    <3>. QED BY <3>1, <3>2 DEF LastOf
  <2>. QED BY <1>1, <1>2, <1>6, <2>1, <2>2 DEF QueueInStep
<1>10. HandlersInStep'
  <2> SUFFICES ASSUME NEW i \in 1..(n + 1)
               PROVE  LET k == inflight'[i] IN
                      /\ k.event.id \notin OnItsWay' \cup Later(i)' => k.event.data = rows[k.event.id]
                      /\ \A id \in Of(GuildOf[k.event.id]) \ (OnItsWay' \cup Handling') : Agrees(k.seen, id)
                      /\ \A j \in 1..(i - 1) :
                            LET id == inflight'[j].event.id IN
                            GuildOf[id] = GuildOf[k.event.id] /\ id # k.event.id
                                => id \in OnItsWay' \cup Later(i)'
    BY <1>1, <1>4 DEF HandlersInStep, Agrees, Of
  <2>1. CASE i \in 1..n
    <3>1. Later(i)' = Later(i) \cup {e.id}
      BY <1>4, <1>5, <2>1 DEF Later, n
    <3>2. \A j \in 1..i : j \in 1..n /\ inflight'[j] = inflight[j]
      BY <1>4, <2>1
    <3>. QED BY <1>7, <2>1, <3>1, <3>2 DEF HandlersInStep, n
  <2>2. CASE i = n + 1
    <3>1. inflight'[i].event = e /\ inflight'[i].seen = cache[GuildOf[e.id]]
      BY <1>4, <1>5, <2>2
    <3>2. ASSUME e.id \notin OnItsWay'
          PROVE  e.data = rows[e.id]
      <4>1. LastOf(e.id, 1)
        <5>1. ASSUME NEW j \in 2..Len(queue)
              PROVE  queue[j].id # e.id
          <6>1. j - 1 \in 1..Len(queue') /\ queue'[j - 1] = queue[j]
            BY <1>3
          <6>. QED BY <3>2, <6>1 DEF Queued, OnItsWay
        <5>. QED BY <1>3, <5>1 DEF LastOf
      <4>2. e.id \notin lost \cup Unsent
        BY <1>2, <1>6, <3>2 DEF OnItsWay
      <4>. QED BY <1>3, <4>1, <4>2 DEF QueueInStep
    <3>3. ASSUME NEW id \in Of(GuildOf[e.id]) \ (OnItsWay' \cup Handling')
          PROVE  Agrees(cache[GuildOf[e.id]], id)
      <4>1. Settled(id) /\ GuildOf[id] = GuildOf[e.id] /\ id \in Responses
        BY <1>7, <3>3 DEF Settled, Of
      <4>. QED BY <4>1 DEF CoherentUnlessLost, Agrees
    <3>4. ASSUME NEW j \in 1..n, GuildOf[inflight[j].event.id] = GuildOf[e.id],
                 inflight[j].event.id # e.id
          PROVE  inflight[j].event.id \in OnItsWay'
      <4>1. inflight[j].event.id \in Responses
        BY HandlerType DEF n
      <4>2. inflight[j].event.id \in Overtaken(e)
        BY <3>4, <4>1 DEF Overtaken, Of, n
      <4>. QED BY <1>2, <1>6, <4>2 DEF OnItsWay
    <3>5. \A j \in 1..(i - 1) : j \in 1..n /\ inflight'[j] = inflight[j]
      BY <1>4, <2>2
    <3>. QED BY <3>1, <3>2, <3>3, <3>4, <3>5
  <2>. QED BY <1>4, <2>1, <2>2
<1>11. SnapshotInStep'
  BY <1>1 DEF SnapshotInStep
<1>. QED BY <1>1, <1>6, <1>8, <1>9, <1>10, <1>11

\* What a handler writes back: the event's response as the event says, the
\* other responses of the guild as it read them.
LEMMA NextTriggersCached ==
    ASSUME NEW seen \in SUBSET Trigger, NEW e \in Event, NEW id \in Responses
    PROVE  Cached(NextTriggers(seen, e), id) =
                IF id = e.id THEN AsTrigger(id, e.data) ELSE Cached(seen, id)
BY DEF Cached, NextTriggers, AsTrigger, Event

\* The handlers left when the first is done, and the ids they are for.
LEMMA InflightTail ==
    ASSUME TypeOK, inflight # <<>>, inflight' = Tail(inflight)
    PROVE  /\ Len(inflight) \in Nat \ {0} /\ Len(inflight') = Len(inflight) - 1
           /\ Head(inflight) = inflight[1]
           /\ \A i \in 1..Len(inflight') : inflight'[i] = inflight[i + 1]
           /\ Handling = {inflight[1].event.id} \cup Handling'
           /\ \A i \in 1..Len(inflight') : Later(i)' = Later(i + 1)
<1>1. inflight \in Seq(Handler)
  BY DEF TypeOK
<1>2. /\ Len(inflight) \in Nat \ {0} /\ Len(inflight') = Len(inflight) - 1
      /\ Head(inflight) = inflight[1]
      /\ \A i \in 1..Len(inflight') : inflight'[i] = inflight[i + 1]
  BY <1>1
<1>3. Handling \subseteq {inflight[1].event.id} \cup Handling'
  <2> SUFFICES ASSUME NEW i \in 1..Len(inflight), i # 1
               PROVE  inflight[i].event.id \in Handling'
    BY DEF Handling
  <2>1. i - 1 \in 1..Len(inflight') /\ inflight'[i - 1] = inflight[i]
    BY <1>2
  <2>. QED BY <2>1 DEF Handling
<1>4. {inflight[1].event.id} \cup Handling' \subseteq Handling
  <2>1. 1 \in 1..Len(inflight)
    BY <1>2
  <2>2. \A i \in 1..Len(inflight') : i + 1 \in 1..Len(inflight)
    BY <1>2
  <2>. QED BY <1>2, <2>1, <2>2 DEF Handling
<1>5. ASSUME NEW i \in 1..Len(inflight')
      PROVE  Later(i)' = Later(i + 1)
  <2>1. ASSUME NEW j \in (i + 1)..Len(inflight')
        PROVE  j + 1 \in (i + 1 + 1)..Len(inflight) /\ inflight'[j] = inflight[j + 1]
    BY <1>2
  <2>2. ASSUME NEW j \in (i + 1 + 1)..Len(inflight)
        PROVE  j - 1 \in (i + 1)..Len(inflight') /\ inflight'[j - 1] = inflight[j]
    BY <1>2
  <2>3. Later(i)' \subseteq Later(i + 1)
    BY <2>1 DEF Later
  <2>4. Later(i + 1) \subseteq Later(i)'
    BY <2>2 DEF Later
  <2>. QED BY <2>3, <2>4
<1>. QED BY <1>2, <1>3, <1>4, <1>5

\* When the first handler is done, those behind it stay in step: its response
\* is on its way again, if they had read the list before it was written.
LEMMA HandlersLeft ==
    ASSUME HandlersInStep, TypeOK, inflight # <<>>, inflight' = Tail(inflight),
           UNCHANGED rows, OnItsWay \subseteq OnItsWay'
    PROVE  HandlersInStep'
<1> DEFINE n == Len(inflight')
<1>1. /\ n \in Nat /\ \A i \in 1..n : i + 1 \in 1..Len(inflight)
      /\ \A i \in 1..n : inflight'[i] = inflight[i + 1] /\ Later(i)' = Later(i + 1)
      /\ Handling = {inflight[1].event.id} \cup Handling'
  BY InflightTail
<1> SUFFICES ASSUME NEW i \in 1..n
             PROVE  LET k == inflight[i + 1] IN
                    /\ k.event.id \notin OnItsWay' \cup Later(i + 1) => k.event.data = rows[k.event.id]
                    /\ \A id \in Of(GuildOf[k.event.id]) \ (OnItsWay' \cup Handling') : Agrees(k.seen, id)
                    /\ \A j \in 1..(i - 1) :
                          LET id == inflight'[j].event.id IN
                          GuildOf[id] = GuildOf[k.event.id] /\ id # k.event.id
                              => id \in OnItsWay' \cup Later(i + 1)
  BY <1>1 DEF HandlersInStep, Agrees, Of
<1>2. inflight[i + 1].event.id \notin OnItsWay' \cup Later(i + 1)
        => inflight[i + 1].event.data = rows[inflight[i + 1].event.id]
  BY <1>1 DEF HandlersInStep
<1>3. ASSUME NEW id \in Of(GuildOf[inflight[i + 1].event.id]) \ (OnItsWay' \cup Handling')
      PROVE  Agrees(inflight[i + 1].seen, id)
  <2>1. CASE id \notin Handling
    BY <1>1, <1>3, <2>1 DEF HandlersInStep
  <2>2. CASE id \in Handling
    <3>1. id = inflight[1].event.id
      BY <1>1, <1>3, <2>2
    <3>2. inflight[i + 1].event.id \in Handling'
      BY <1>1 DEF Handling
    <3>3. id \in Later(i + 1)
      <4>1. 1 \in 1..((i + 1) - 1) /\ i + 1 \in 1..Len(inflight)
        BY <1>1
      <4>. QED BY <1>3, <3>1, <3>2, <4>1 DEF HandlersInStep, Of
    <3>4. Later(i + 1) \subseteq Handling'
      <4>1. Later(i)' \subseteq Handling'
        <5>1. \A j \in (i + 1)..n : j \in 1..n
          BY <1>1
        <5>. QED BY <5>1 DEF Later, Handling
      <4>. QED BY <1>1, <4>1
    <3>. QED BY <1>3, <3>3, <3>4
  <2>. QED BY <2>1, <2>2
<1>4. ASSUME NEW j \in 1..(i - 1), GuildOf[inflight'[j].event.id] = GuildOf[inflight[i + 1].event.id],
             inflight'[j].event.id # inflight[i + 1].event.id
      PROVE  inflight'[j].event.id \in OnItsWay' \cup Later(i + 1)
  <2>1. j \in 1..n /\ j + 1 \in 1..((i + 1) - 1) /\ i + 1 \in 1..Len(inflight)
    BY <1>1
  <2>. QED BY <1>1, <1>4, <2>1 DEF HandlersInStep
<1>. QED BY <1>2, <1>3, <1>4

LEMMA WriteBackSteps ==
    ASSUME CoherenceInv, TypeOK, WriteBack
    PROVE  CoherenceInv'
<1> USE DEF CoherenceInv, PendingInStep
<1> DEFINE h == inflight[1]
           g == GuildOf[h.event.id]
<1>1. /\ UNCHANGED <<rows, queue, lost, missed, svc, snapshot>>
      /\ inflight # <<>> /\ inflight' = Tail(inflight)
      /\ cache' = [cache EXCEPT ![g] = NextTriggers(h.seen, h.event)]
  <2>1. inflight # <<>> /\ inflight' = Tail(inflight)
    BY DEF WriteBack
  <2>. QED BY <2>1, InflightTail DEF WriteBack, api, proc
<1>2. /\ h.event \in Event /\ h.event.id \in Responses /\ h.seen \in SUBSET Trigger
      /\ Handling = {h.event.id} \cup Handling' /\ 1 \in 1..Len(inflight)
  <2>1. 1 \in 1..Len(inflight)
    BY <1>1, InflightTail
  <2>. QED BY <1>1, <2>1, HandlerType, InflightTail
<1>3. Unsent' = Unsent
  BY UnsentSame DEF WriteBack
<1>4. Queued(queue)' = Queued(queue) /\ OnItsWay' = OnItsWay
  BY <1>1, <1>3 DEF Queued, OnItsWay
<1>5. Later(1) = Handling'
  <2>1. Later(1) \subseteq Handling'
    <3> SUFFICES ASSUME NEW j \in (1 + 1)..Len(inflight)
                 PROVE  inflight[j].event.id \in Handling'
      BY DEF Later
    <3>1. j - 1 \in 1..Len(inflight') /\ inflight'[j - 1] = inflight[j]
      BY <1>1, InflightTail
    <3>. QED BY <3>1 DEF Handling
  <2>2. Handling' \subseteq Later(1)
    <3> SUFFICES ASSUME NEW j \in 1..Len(inflight')
                 PROVE  inflight'[j].event.id \in Later(1)
      BY DEF Handling
    <3>1. j + 1 \in (1 + 1)..Len(inflight) /\ inflight'[j] = inflight[j + 1]
      BY <1>1, InflightTail
    <3>. QED BY <3>1 DEF Later
  <2>. QED BY <2>1, <2>2
<1>6. /\ h.event.id \notin OnItsWay \cup Later(1) => h.event.data = rows[h.event.id]
      /\ \A id \in Of(g) \ (OnItsWay \cup Handling) : Agrees(h.seen, id)
  BY <1>2 DEF HandlersInStep
<1> HIDE DEF h
<1>7. CoherentUnlessLost'
  <2> SUFFICES ASSUME NEW id \in Responses, Settled(id)'
               PROVE  Cached(cache'[GuildOf[id]], id) = AsTrigger(id, rows[id])
    BY <1>1 DEF CoherentUnlessLost
  <2>1. id \notin OnItsWay \cup Handling'
    BY <1>4 DEF Settled
  <2>2. g \in Guilds /\ GuildOf[id] \in Guilds
    BY <1>2, GuildOfAssumption
  <2>3. CASE id = h.event.id
    <3>1. h.event.data = rows[id]
      BY <1>5, <1>6, <2>1, <2>3
    <3>. QED BY <1>1, <1>2, <2>2, <2>3, <3>1, NextTriggersCached DEF TypeOK
  <2>4. CASE id # h.event.id /\ GuildOf[id] = g
    <3>1. Agrees(h.seen, id)
      BY <1>2, <1>6, <2>1, <2>4 DEF Of
    <3>2. Cached(NextTriggers(h.seen, h.event), id) = Cached(h.seen, id)
      BY <1>2, <2>4, NextTriggersCached
    <3>. QED BY <1>1, <2>2, <2>4, <3>1, <3>2 DEF TypeOK, Agrees
  <2>5. CASE GuildOf[id] # g
    <3>1. Settled(id)
      BY <1>2, <2>1, <2>5 DEF Settled
    <3>. QED BY <1>1, <2>2, <2>5, <3>1 DEF TypeOK, CoherentUnlessLost
  <2>. QED BY <2>3, <2>4, <2>5
<1>8. QueueInStep'
  BY <1>1, <1>3 DEF QueueInStep, LastOf
<1>9. HandlersInStep'
  BY <1>1, <1>4, HandlersLeft
<1>10. SnapshotInStep'
  BY <1>1, <1>3, <1>4 DEF SnapshotInStep, Agrees, Of
<1>11. svc' # "listening" => inflight' = <<>>
  BY <1>1
<1>. QED BY <1>1, <1>7, <1>8, <1>9, <1>10, <1>11

\* A handler dies: its response is lost unless more is to come for it.
LEMMA HandlerFailsSteps ==
    ASSUME CoherenceInv, TypeOK, HandlerFails
    PROVE  CoherenceInv'
<1> USE DEF CoherenceInv, PendingInStep
<1> DEFINE id0 == inflight[1].event.id
<1>1. /\ UNCHANGED <<rows, queue, cache, svc, snapshot>>
      /\ inflight # <<>> /\ inflight' = Tail(inflight) /\ Handling = {id0} \cup Handling'
      /\ Lose({id0}, queue)
  <2>1. inflight # <<>> /\ inflight' = Tail(inflight)
    BY DEF HandlerFails
  <2>. QED BY <2>1, InflightTail DEF HandlerFails, api, proc
<1>2. Unsent' = Unsent
  BY UnsentSame DEF HandlerFails
<1>3. Queued(queue)' = Queued(queue)
  BY <1>1 DEF Queued
<1> HIDE DEF id0
<1>4. /\ lost \subseteq lost' /\ missed \subseteq missed' /\ missed' \subseteq lost'
      /\ id0 \in OnItsWay' /\ OnItsWay \subseteq OnItsWay'
  BY <1>1, <1>2, <1>3 DEF Lose, OnItsWay
<1>5. CoherentUnlessLost'
  BY <1>1, <1>4 DEF CoherentUnlessLost, Settled
<1>6. QueueInStep'
  BY <1>1, <1>2, <1>4 DEF QueueInStep, LastOf
<1>7. HandlersInStep'
  BY <1>1, <1>4, HandlersLeft
<1>8. SnapshotInStep'
  BY <1>1, <1>2, <1>3, <1>4 DEF SnapshotInStep, Agrees, Of
<1>. QED BY <1>1, <1>4, <1>5, <1>6, <1>7, <1>8

\* A crash loses the handlers and a prefix of the queue: the responses with
\* nothing left on the way are lost, the others are still brought up to date.
LEMMA CrashSteps ==
    ASSUME CoherenceInv, TypeOK, NEW n \in 0..Len(queue), Crash(n)
    PROVE  CoherenceInv'
<1> USE DEF CoherenceInv, PendingInStep
<1> DEFINE left == SubSeq(queue, n + 1, Len(queue))
           gone == Queued(SubSeq(queue, 1, n))
<1>1. /\ UNCHANGED <<rows, cache>> /\ svc' = "down" /\ inflight' = <<>>
      /\ queue' = left /\ Lose(Handling \cup gone, left)
  BY DEF Crash, api
<1>2. Unsent' = Unsent
  BY UnsentSame DEF Crash
<1>3. Queued(queue) = gone \cup Queued(left) /\ Handling' = {}
  BY <1>1, QueuedSplit DEF TypeOK, Handling
<1>4. /\ Len(left) = Len(queue) - n /\ Len(queue) \in Nat
      /\ \A i \in 1..Len(left) : left[i] = queue[n + i]
  <2>1. queue \in Seq(Event)
    BY DEF TypeOK
  <2>. QED BY <2>1
<1> HIDE DEF left, gone
<1>5. /\ lost \subseteq lost' /\ missed' \subseteq lost'
      /\ Handling \cup gone \subseteq lost' \cup Unsent \cup Queued(left)
  BY <1>1 DEF Lose
<1>6. OnItsWay \cup Handling \subseteq OnItsWay'
  <2>1. Queued(queue)' = Queued(left)
    BY <1>1 DEF Queued
  <2>. QED BY <1>2, <1>3, <1>5, <2>1 DEF OnItsWay
<1>7. CoherentUnlessLost'
  BY <1>1, <1>6 DEF CoherentUnlessLost, Settled
<1>8. QueueInStep'
  <2> SUFFICES ASSUME NEW id \in Responses \ (lost' \cup Unsent'), NEW i \in 1..Len(queue'),
                      LastOf(id, i)'
               PROVE  queue'[i].data = rows'[id]
    BY DEF QueueInStep
  <2>1. n + i \in 1..Len(queue) /\ queue'[i] = queue[n + i]
    BY <1>1, <1>4
  <2>2. LastOf(id, n + i)
    <3>1. queue[n + i].id = id
      BY <2>1 DEF LastOf
    <3>2. ASSUME NEW j \in (n + i + 1)..Len(queue)
          PROVE  queue[j].id # id
      <4>1. j - n \in (i + 1)..Len(queue') /\ queue'[j - n] = queue[j]
        BY <1>1, <1>4
      <4>. QED BY <4>1 DEF LastOf
    <3>. QED BY <3>1, <3>2 DEF LastOf
  <2>. QED BY <1>1, <1>2, <1>5, <2>1, <2>2 DEF QueueInStep
<1>9. HandlersInStep'
  <2>1. 1..Len(inflight') = {}
    BY <1>1
  <2>. QED BY <2>1 DEF HandlersInStep
<1>10. SnapshotInStep'
  BY <1>1 DEF SnapshotInStep
<1>. QED BY <1>1, <1>5, <1>7, <1>8, <1>9, <1>10

\* An eviction loses what was cached and is not about to be written again.
LEMMA EvictSteps ==
    ASSUME CoherenceInv, TypeOK, NEW g \in Guilds, Evict(g)
    PROVE  CoherenceInv'
<1> USE DEF CoherenceInv, PendingInStep
<1> DEFINE held == {t.responseId : t \in cache[g]}
<1>1. /\ UNCHANGED <<rows, queue, inflight, svc, snapshot, missed>>
      /\ cache' = [cache EXCEPT ![g] = {}]
      /\ lost' = lost \cup (held \ (Queued(queue) \cup Unsent))
  BY DEF Evict, api, proc
<1>2. Unsent' = Unsent
  BY UnsentSame DEF Evict
<1>3. Queued(queue)' = Queued(queue) /\ Handling' = Handling
  BY <1>1 DEF Queued, Handling
<1>4. OnItsWay' = OnItsWay \cup held
  BY <1>1, <1>2, <1>3 DEF OnItsWay
<1>5. CoherentUnlessLost'
  <2> SUFFICES ASSUME NEW id \in Responses, Settled(id)'
               PROVE  Cached(cache'[GuildOf[id]], id) = AsTrigger(id, rows[id])
    BY <1>1 DEF CoherentUnlessLost
  <2>1. Settled(id) /\ id \notin held
    BY <1>3, <1>4 DEF Settled
  <2>2. Cached(cache[GuildOf[id]], id) = AsTrigger(id, rows[id])
    BY <2>1 DEF CoherentUnlessLost
  <2>3. CASE GuildOf[id] = g
    <3>1. Cached(cache[g], id) = {}
      BY <2>1 DEF Cached
    <3>2. Cached(cache'[g], id) = {}
      BY <1>1 DEF Cached, TypeOK
    <3>. QED BY <2>2, <2>3, <3>1, <3>2
  <2>4. CASE GuildOf[id] # g
    BY <1>1, <2>2, <2>4, GuildOfAssumption DEF TypeOK
  <2>. QED BY <2>3, <2>4
<1> HIDE DEF held
<1>6. QueueInStep'
  BY <1>1, <1>2 DEF QueueInStep, LastOf
<1>7. HandlersInStep'
  BY <1>1, <1>3, <1>4 DEF HandlersInStep, Agrees, Of, Later
<1>8. SnapshotInStep'
  BY <1>1, <1>2, <1>3 DEF SnapshotInStep, Agrees, Of
<1>. QED BY <1>1, <1>5, <1>6, <1>7, <1>8

------------------------------------------------------------------------------
(***************************************************************************)
(* The theorem, from one lemma per kind of step.                           *)
(***************************************************************************)

LEMMA CacheInitially ==
    ASSUME Init
    PROVE  CoherenceInv
<1>1. CoherentUnlessLost
  <2> SUFFICES ASSUME NEW id \in Responses, Settled(id)
               PROVE  Cached(cache[GuildOf[id]], id) = AsTrigger(id, rows[id])
    BY DEF CoherentUnlessLost
  <2>1. cache[GuildOf[id]] = {} /\ rows[id] = NoRow
    BY GuildOfAssumption DEF Init, NoTriggers, Settled, OnItsWay
  <2>. QED BY <2>1 DEF Cached, AsTrigger
<1>2. QueueInStep /\ HandlersInStep
  <2>1. 1..Len(queue) = {} /\ 1..Len(inflight) = {}
    BY DEF Init
  <2>. QED BY <2>1 DEF QueueInStep, HandlersInStep
<1>. QED BY <1>1, <1>2 DEF Init, CoherenceInv, PendingInStep, SnapshotInStep

LEMMA RequestSteps ==
    ASSUME CoherenceInv, TypeOK, NEW r \in Requests, RequestStep(r)
    PROVE  CoherenceInv'
<1>1. CASE SaveUpdate(r) \/ Destroy(r)
  <2>1. edit[r].id \in Responses
    BY <1>1 DEF SaveUpdate, Destroy, TypeOK, Active, Edit
  <2>2. Unsent' = Unsent \cup {edit[r].id}
    <3>1. Committed' = Committed \cup {r} /\ UNCHANGED edit
      BY <1>1 DEF SaveUpdate, Destroy, Saved, Committed, TypeOK
    <3>. QED BY <3>1 DEF Unsent
  <2>3. \A i \in Responses \ {edit[r].id} : rows'[i] = rows[i]
    BY <1>1, <2>1 DEF SaveUpdate, Destroy, TypeOK
  <2>4. UNCHANGED <<queue, inflight, cache, snapshot, svc, lost, missed>>
    BY <1>1 DEF SaveUpdate, Destroy, Saved, proc
  <2>. QED BY <2>1, <2>2, <2>3, <2>4, SaveSteps
<1>2. CASE Reject(r) \/ Record(r)
  <2>1. Unsent' = Unsent
    <3>1. CASE Reject(r)
      <4>1. Committed' = Committed /\ \A s \in Committed : edit'[s] = edit[s]
        BY <3>1 DEF Reject, Finished, Committed, TypeOK
      <4>. QED BY <4>1 DEF Unsent
    <3>2. CASE Record(r)
      <4>1. Committed' = Committed /\ UNCHANGED edit
        BY <3>2 DEF Record, Committed, TypeOK
      <4>. QED BY <4>1 DEF Unsent
    <3>. QED BY <1>2, <3>1, <3>2
  <2>2. UNCHANGED <<rows, queue, inflight, cache, lost, missed, svc, snapshot>>
    BY <1>2 DEF Reject, Record, proc
  <2>. QED BY <2>1, <2>2, QuietSteps DEF CoherenceInv, PendingInStep
<1>3. CASE Publish(r) /\ ~bound
  <2>1. UNCHANGED <<rows, queue, inflight, cache, svc, snapshot>> /\ r \in Committed
    BY <1>3 DEF Publish, Committed, proc
  <2>2. /\ lost \cup Unsent \subseteq lost' \cup Unsent'
        /\ missed \cup Unsent \subseteq missed' \cup Unsent' /\ missed' \subseteq lost'
    <3>1. Finished(r) /\ Told(r, edit[r].id, bound /\ edit[r].view = rows[edit[r].id])
      BY <1>3 DEF Publish
    <3>. QED BY <1>3, <2>1, <3>1, ToldSteps DEF CoherenceInv, PendingInStep
  <2>. QED BY <2>1, <2>2, QuietSteps DEF CoherenceInv, PendingInStep
<1>. QED BY <1>1, <1>2, <1>3, PublishSteps DEF RequestStep

LEMMA CoherenceStays ==
    ASSUME CoherenceInv, TypeOK, [Next]_vars
    PROVE  CoherenceInv'
<1>1. ASSUME NEW r \in Requests, NEW id \in Responses, NEW view \in View, Create(r, id, view)
      PROVE  CoherenceInv'
  <2>1. Unsent' = Unsent \cup {id}
    <3>1. Committed' = Committed \cup {r} /\ r \notin Committed /\ edit'[r].id = id
          /\ \A s \in Committed : edit'[s] = edit[s]
      BY <1>1 DEF Create, Saved, Committed, TypeOK
    <3>. QED BY <3>1 DEF Unsent
  <2>2. /\ UNCHANGED <<queue, inflight, cache, snapshot, svc, lost, missed>>
        /\ \A i \in Responses \ {id} : rows'[i] = rows[i]
    BY <1>1 DEF Create, Saved, proc, TypeOK
  <2>. QED BY <2>1, <2>2, SaveSteps
<1>2. ASSUME NEW r \in Requests, NEW id \in Responses, NEW view \in Row,
             NEW action \in {"UPDATE", "DELETE"}, Load(r, id, action, view)
      PROVE  CoherenceInv'
  <2>1. Unsent' = Unsent
    <3>1. Committed' = Committed /\ \A s \in Committed : edit'[s] = edit[s]
      BY <1>2 DEF Load, Committed, TypeOK
    <3>. QED BY <3>1 DEF Unsent
  <2>2. UNCHANGED <<rows, queue, inflight, cache, lost, missed, svc, snapshot>>
    BY <1>2 DEF Load, proc
  <2>. QED BY <2>1, <2>2, QuietSteps DEF CoherenceInv, PendingInStep
<1>3. ASSUME NEW r \in Requests, RequestFails(r)
      PROVE  CoherenceInv'
  <2>1. UNCHANGED <<rows, queue, inflight, cache, svc, snapshot>> /\ r \in Committed
    BY <1>3 DEF RequestFails, Committed, proc
  <2>2. /\ lost \cup Unsent \subseteq lost' \cup Unsent'
        /\ missed \cup Unsent \subseteq missed' \cup Unsent' /\ missed' \subseteq lost'
    <3>1. Finished(r) /\ Told(r, edit[r].id, FALSE)
      BY <1>3 DEF RequestFails
    <3>. QED BY <2>1, <3>1, ToldSteps DEF CoherenceInv, PendingInStep
  <2>. QED BY <2>1, <2>2, QuietSteps DEF CoherenceInv, PendingInStep
<1>4. CASE Boot \/ Hydrated \/ HydrationFails \/ Listen
  <2>1. /\ UNCHANGED <<rows, queue, inflight, cache, lost, missed>> /\ inflight = <<>>
        /\ svc' # "filling"
    BY <1>4 DEF Boot, Hydrated, HydrationFails, Listen, api, CoherenceInv, PendingInStep
  <2>2. Unsent' = Unsent
    BY <1>4, UnsentSame DEF Boot, Hydrated, HydrationFails, Listen
  <2>. QED BY <2>1, <2>2, QuietSteps DEF CoherenceInv, PendingInStep
<1>5. CASE UNCHANGED vars
  <2>1. UNCHANGED <<rows, queue, inflight, cache, lost, missed, svc, snapshot>> /\ Unsent' = Unsent
    BY <1>5 DEF vars, Unsent, Committed
  <2>. QED BY <2>1, QuietSteps DEF CoherenceInv, PendingInStep
<1>. QED
  BY <1>1, <1>2, <1>3, <1>4, <1>5, RequestSteps, FetchSteps, FillSteps, ReceiveSteps,
     WriteBackSteps, HandlerFailsSteps, CrashSteps, EvictSteps
     DEF Next, ServiceStep, Environment

\* The cache, the queue, the handlers and the snapshot agree with the table on
\* every response whose changes were not lost, through every overlap of
\* requests and of handlers, and every fault.
THEOREM Coherence == Spec => []CoherenceInv
BY CacheInitially, CoherenceStays, TypeCorrect, PTL DEF Spec

\* In particular the cache says of a settled response what the table says.
THEOREM Coherent == Spec => []CoherentUnlessLost
<1>1. CoherenceInv => CoherentUnlessLost
  BY DEF CoherenceInv
<1>. QED BY <1>1, Coherence, PTL

------------------------------------------------------------------------------
(***************************************************************************)
(* A deleted row does not come back.                                       *)
(***************************************************************************)

\* No step, and in particular no update that loaded the row before it was
\* deleted, brings a deleted row back.
THEOREM DeletedStays == Spec => DeletedStaysDeleted
<1>1. TypeOK /\ [Next]_vars =>
        [\A id \in created : rows[id] = NoRow => rows'[id] = NoRow]_vars
  <2> SUFFICES ASSUME TypeOK, [Next]_vars, NEW id \in created, rows[id] = NoRow
               PROVE  rows'[id] = NoRow
    OBVIOUS
  <2>1. CASE UNCHANGED rows
    BY <2>1
  <2>2. ASSUME NEW r \in Requests, NEW i \in Responses, NEW view \in View, Create(r, i, view)
        PROVE  rows'[id] = NoRow
    BY <2>2 DEF Create, TypeOK
  <2>3. ASSUME NEW r \in Requests, SaveUpdate(r)
        PROVE  rows'[id] = NoRow
    BY <2>3 DEF SaveUpdate, UpdateRow, TypeOK
  <2>4. ASSUME NEW r \in Requests, Destroy(r)
        PROVE  rows'[id] = NoRow
    BY <2>4 DEF Destroy, TypeOK
  <2>. QED
    BY <2>1, <2>2, <2>3, <2>4
       DEF Next, RequestStep, ServiceStep, Environment, Load, Reject, Record,
           Publish, RequestFails, Boot, FetchSnapshot, FillGuild, Hydrated,
           HydrationFails, Listen, Receive, WriteBack, HandlerFails, Crash,
           Evict, api, vars
<1>. QED BY <1>1, TypeCorrect, PTL DEF Spec, DeletedStaysDeleted

------------------------------------------------------------------------------
(***************************************************************************)
(* The audit log.                                                          *)
(***************************************************************************)

\* Steps that leave the requests alone leave the trail alone.
LEMMA TrailSame ==
    ASSUME AuditInv, UNCHANGED api
    PROVE  AuditInv'
BY DEF AuditInv, TrailInStep, AuditChain, PriorEntries, LastEntry, Saving, Editing,
       Active, Committed, api

\* The requests and the log have their types.
LEMMA RequestType ==
    ASSUME TypeOK
    PROVE  /\ Len(history) \in Nat /\ history \in Seq(Entry)
           /\ \A r \in Active : r \in Requests /\ edit[r] \in Edit /\ edit[r].id \in Responses
           /\ Committed \subseteq Active
<1>1. \A r \in Active : r \in Requests /\ edit[r] \in Edit
  BY DEF TypeOK, Active
<1>. QED BY <1>1 DEF TypeOK, Edit, Active, Committed

\* A request that is over, or dies, leaves the log as it is; if it dies before
\* it has recorded its save, its response is torn.
LEMMA FinishSteps ==
    ASSUME AuditInv, TypeOK, NEW r \in Active, Finished(r),
           UNCHANGED <<rows, created, history>>, torn \subseteq torn',
           pc[r] = "saved" => edit[r].id \in torn'
    PROVE  AuditInv'
<1> USE DEF AuditInv
<1>1. Active' = Active \ {r} /\ Committed' = Committed \ {r}
  BY DEF Finished, Active, Committed, TypeOK
<1>2. \A s \in Active' : edit'[s] = edit[s] /\ pc'[s] = pc[s]
  BY <1>1 DEF Finished, Active, TypeOK
<1>3. Editing' \subseteq Editing
  BY <1>1, <1>2 DEF Editing
<1>4. \A id \in Responses \ torn' : Saving(id)' = Saving(id)
  <2> SUFFICES ASSUME NEW id \in Responses \ torn', NEW s \in Requests
               PROVE  s \in Saving(id)' <=> s \in Saving(id)
    BY DEF Saving
  <2>1. CASE s = r
    BY <2>1, RequestType DEF Saving, Finished, TypeOK
  <2>2. CASE s # r
    BY <2>2 DEF Saving, Finished, TypeOK
  <2>. QED BY <2>1, <2>2
<1>5. \A id \in Responses \ torn' : \A s \in Saving(id) : edit'[s] = edit[s]
  BY <1>2, <1>4 DEF Saving, Active
<1>6. AuditChain'
  BY DEF AuditChain, PriorEntries
<1>7. \A i \in 1..Len(history) : \A id : LastEntry(id, i)' <=> LastEntry(id, i)
  BY DEF LastEntry
<1>8. \A i \in 1..Len(history') : \A id \in Responses \ torn' :
        LastEntry(id, i)' =>
            /\ Saving(id)' = {} => history'[i].after = rows'[id]
            /\ \A s \in Saving(id)' : history'[i].after = edit'[s].loaded
  BY <1>4, <1>5, <1>7 DEF TrailInStep
<1>. QED BY <1>1, <1>2, <1>3, <1>6, <1>8 DEF TrailInStep

LEMMA CreateTrail ==
    ASSUME AuditInv, TypeOK, NEW r \in Requests, NEW id \in Responses, NEW view \in View,
           Create(r, id, view)
    PROVE  AuditInv'
<1> USE DEF AuditInv
<1>1. Active' = Active \cup {r} /\ r \notin Active /\ Committed' = Committed \cup {r}
  BY DEF Create, Saved, Active, Committed, TypeOK
<1>2. /\ edit'[r].id = id /\ edit'[r].view = view /\ rows'[id] = view
      /\ \A s \in Active : edit'[s] = edit[s] /\ pc'[s] = pc[s] /\ edit[s].id # id
      /\ \A i \in Responses \ {id} : rows'[i] = rows[i]
      /\ pc'[r] = "saved" /\ created' = created \cup {id} /\ id \notin created
      /\ UNCHANGED <<history, torn>>
  BY <1>1 DEF Create, Saved, TypeOK, Editing, Active, TrailInStep
<1>3. AuditChain'
  BY <1>2 DEF AuditChain, PriorEntries
<1>4. \A i \in 1..Len(history) : history[i].id # id
  BY <1>2 DEF TrailInStep
<1>5. ASSUME NEW i \in 1..Len(history), NEW o \in Responses \ torn, LastEntry(o, i)
      PROVE  /\ Saving(o)' = {} => history[i].after = rows'[o]
             /\ \A s \in Saving(o)' : history[i].after = edit'[s].loaded
  <2>1. o # id
    BY <1>4, <1>5 DEF LastEntry
  <2>2. Saving(o)' = Saving(o)
    BY <1>2, <2>1 DEF Saving, Create, Saved, TypeOK
  <2>3. \A s \in Saving(o) : edit'[s] = edit[s]
    BY <1>2 DEF Saving, Active
  <2>. QED BY <1>2, <1>5, <2>1, <2>2, <2>3 DEF TrailInStep
<1>6. \A i \in 1..Len(history') : \A o \in Responses \ torn' :
        LastEntry(o, i)' =>
            /\ Saving(o)' = {} => history'[i].after = rows'[o]
            /\ \A s \in Saving(o)' : history'[i].after = edit'[s].loaded
  BY <1>2, <1>5 DEF LastEntry
<1>7. Editing' \subseteq Editing \cup {id}
  BY <1>1, <1>2 DEF Editing
<1>8. \A s \in Active : edit[s].id \in Responses
  BY RequestType
<1>. QED BY <1>1, <1>2, <1>3, <1>6, <1>7, <1>8 DEF TrailInStep

\* A request that joins another on a response tears its story.
LEMMA LoadTrail ==
    ASSUME AuditInv, TypeOK, NEW r \in Requests, NEW id \in Responses, NEW view \in Row,
           NEW action \in {"UPDATE", "DELETE"}, Load(r, id, action, view)
    PROVE  AuditInv'
<1> USE DEF AuditInv
<1>1. Active' = Active \cup {r} /\ r \notin Active /\ Committed' = Committed
  BY DEF Load, Active, Committed, TypeOK
<1>2. /\ edit'[r].id = id /\ edit'[r].loaded = rows[id] /\ rows[id] # NoRow
      /\ \A s \in Active : edit'[s] = edit[s] /\ pc'[s] = pc[s]
      /\ \A s \in Active : edit[s].id = id => id \in torn'
      /\ pc'[r] = "loaded" /\ id \in created /\ torn \subseteq torn'
      /\ UNCHANGED <<history, rows, created>>
  <2>1. id \in Editing => id \in torn'
    BY DEF Load
  <2>. QED BY <1>1, <2>1 DEF Load, TypeOK, Editing, Active, TrailInStep
<1>3. AuditChain'
  BY <1>2 DEF AuditChain, PriorEntries
<1>4. \A o \in Responses : Saving(o)' = Saving(o) /\ \A s \in Saving(o) : edit'[s] = edit[s]
  BY <1>1, <1>2 DEF Saving, Active, Load, TypeOK
<1>5. \A i \in 1..Len(history') : \A o \in Responses \ torn' :
        LastEntry(o, i)' =>
            /\ Saving(o)' = {} => history'[i].after = rows'[o]
            /\ \A s \in Saving(o)' : history'[i].after = edit'[s].loaded
  BY <1>2, <1>4 DEF LastEntry, TrailInStep
<1>6. Editing' \subseteq Editing \cup {id}
  BY <1>1, <1>2 DEF Editing
<1>7. r \notin Committed
  BY <1>1, RequestType
<1>. QED BY <1>1, <1>2, <1>3, <1>5, <1>6, <1>7 DEF TrailInStep

LEMMA SaveTrail ==
    ASSUME AuditInv, TypeOK, NEW r \in Requests, SaveUpdate(r) \/ Destroy(r)
    PROVE  AuditInv'
<1> USE DEF AuditInv
<1> DEFINE id == edit[r].id
<1>1. r \in Active /\ pc[r] = "loaded" /\ edit[r] \in Edit /\ id \in Responses
  BY RequestType DEF SaveUpdate, Destroy, Active
<1>2. Active' = Active /\ Committed' = Committed \cup {r}
  BY DEF SaveUpdate, Destroy, Saved, Active, Committed, TypeOK
<1>3. id \notin torn => rows'[id] = edit[r].view /\ edit[r].loaded = rows[id]
  <2> SUFFICES ASSUME id \notin torn
               PROVE  rows'[id] = edit[r].view /\ edit[r].loaded = rows[id]
    OBVIOUS
  <2>1. edit[r].loaded = rows[id] /\ rows[id] # NoRow
    BY <1>1 DEF TrailInStep
  <2>2. CASE SaveUpdate(r)
    <3>1. edit[r].view \in View /\ rows[id] \in View
      BY <1>1, <2>1, <2>2 DEF SaveUpdate, Edit, Row, TypeOK
    <3>. QED BY <1>1, <2>1, <2>2, <3>1 DEF SaveUpdate, UpdateRow, WriteColumns, TypeOK, View, Edit
  <2>3. CASE Destroy(r)
    BY <1>1, <2>1, <2>3 DEF Destroy, TypeOK, Edit
  <2>. QED BY <2>1, <2>2, <2>3
<1>4. /\ UNCHANGED <<edit, created, history, torn>>
      /\ \A i \in Responses \ {id} : rows'[i] = rows[i]
      /\ \A s \in Active \ {r} : pc'[s] = pc[s]
      /\ pc'[r] = "saved" /\ id \in created
  BY <1>1 DEF SaveUpdate, Destroy, Saved, TypeOK, Active, Editing, TrailInStep
<1>5. AuditChain'
  BY <1>4 DEF AuditChain, PriorEntries
<1>6. ASSUME NEW i \in 1..Len(history), NEW o \in Responses \ torn, LastEntry(o, i)
      PROVE  /\ Saving(o)' = {} => history[i].after = rows'[o]
             /\ \A s \in Saving(o)' : history[i].after = edit[s].loaded
  <2>1. CASE o = id
    <3>1. Saving(o) = {}
      <4> SUFFICES ASSUME NEW s \in Saving(o)
                   PROVE  FALSE
        OBVIOUS
      <4>1. s \in Active /\ s # r /\ edit[s].id = id
        BY <1>1, <2>1 DEF Saving, Active
      <4>. QED BY <1>1, <1>6, <2>1, <4>1 DEF TrailInStep
    <3>2. Saving(o)' = {r}
      <4>1. \A s \in Requests : s \in Saving(o)' <=> s = r
        BY <1>1, <1>4, <2>1, <3>1 DEF Saving, SaveUpdate, Destroy, Saved, TypeOK
      <4>. QED BY <4>1 DEF Saving
    <3>3. history[i].after = rows[id]
      BY <1>6, <2>1, <3>1 DEF TrailInStep
    <3>. QED BY <1>3, <1>6, <2>1, <3>2, <3>3
  <2>2. CASE o # id
    <3>1. Saving(o)' = Saving(o)
      BY <1>4, <2>2 DEF Saving, SaveUpdate, Destroy, Saved, TypeOK
    <3>. QED BY <1>4, <1>6, <2>2, <3>1 DEF TrailInStep
  <2>. QED BY <2>1, <2>2
<1>7. \A i \in 1..Len(history') : \A o \in Responses \ torn' :
        LastEntry(o, i)' =>
            /\ Saving(o)' = {} => history'[i].after = rows'[o]
            /\ \A s \in Saving(o)' : history'[i].after = edit'[s].loaded
  BY <1>4, <1>6 DEF LastEntry
<1>8. Editing' = Editing
  BY <1>2, <1>4 DEF Editing
<1>9. \A s \in Active \ {r} : edit[s].id \notin torn => edit[s].id # id /\ edit[s].id \in Responses
  BY <1>1, RequestType DEF TrailInStep
<1>10. \A s \in Active' : edit'[s].id \notin torn' =>
        /\ pc'[s] = "loaded" => edit'[s].loaded = rows'[edit'[s].id] /\ rows'[edit'[s].id] # NoRow
        /\ s \in Committed'  => edit'[s].view = rows'[edit'[s].id]
  <2> SUFFICES ASSUME NEW s \in Active, edit[s].id \notin torn
               PROVE  /\ pc'[s] = "loaded" => edit[s].loaded = rows'[edit[s].id] /\ rows'[edit[s].id] # NoRow
                      /\ s \in Committed'  => edit[s].view = rows'[edit[s].id]
    BY <1>2, <1>4
  <2>1. CASE s = r
    BY <1>3, <1>4, <2>1
  <2>2. CASE s # r
    BY <1>2, <1>4, <1>9, <2>2 DEF TrailInStep
  <2>. QED BY <2>1, <2>2
<1>11. \A o \in Responses \ created' : rows'[o] = NoRow
  BY <1>4 DEF TrailInStep
<1>12. \A s, t \in Active' : s # t /\ edit'[s].id = edit'[t].id => edit'[s].id \in torn'
  BY <1>2, <1>4 DEF TrailInStep
<1>. QED BY <1>4, <1>5, <1>7, <1>8, <1>10, <1>11, <1>12 DEF TrailInStep

\* An entry takes up the story where the last one of its response left it.
LEMMA RecordTrail ==
    ASSUME AuditInv, TypeOK, NEW r \in Requests, Record(r)
    PROVE  AuditInv'
<1> USE DEF AuditInv
<1> DEFINE id == edit[r].id
           n  == Len(history)
           e  == EntryOf(edit[r])
<1>1. r \in Active /\ r \in Committed /\ id \in Responses /\ r \in Saving(id)
  BY RequestType DEF Record, Active, Committed, Saving
<1>2. Active' = Active /\ Committed' = Committed
  BY DEF Record, Active, Committed, TypeOK
<1>3. /\ UNCHANGED <<edit, rows, created, torn>>
      /\ \A s \in Active : pc'[s] = "loaded" => pc[s] = "loaded"
      /\ history' = Append(history, e)
  BY DEF Record, Active, TypeOK
<1>4. e.id = id /\ e.before = edit[r].loaded /\ e.after = edit[r].view
  BY DEF EntryOf
<1>5. /\ n \in Nat /\ Len(history') = n + 1 /\ history'[n + 1] = e
      /\ \A i \in 1..n : history'[i] = history[i]
  BY <1>3, RequestType
<1> HIDE DEF e, n, id
<1>6. id \notin torn => Saving(id) = {r}
  <2>1. \A s \in Saving(id) : s \in Active /\ edit[s].id = id
    BY DEF Saving, Active
  <2>. QED BY <1>1, <2>1 DEF TrailInStep, id
<1>7. \A o \in Responses : Saving(o)' = Saving(o) \ {r}
  BY DEF Record, Saving, TypeOK
<1>8. AuditChain'
  <2> SUFFICES ASSUME NEW i \in 1..(n + 1), history'[i].id \notin torn, NEW j \in PriorEntries(i)',
                      \A k \in PriorEntries(i)' : k <= j
               PROVE  history'[i].before = history'[j].after
    BY <1>3, <1>5 DEF AuditChain
  <2>1. j \in 1..(i - 1) /\ j \in 1..n /\ history'[j] = history[j] /\ history'[j].id = history'[i].id
    BY <1>5 DEF PriorEntries
  <2>2. CASE i \in 1..n
    <3>1. PriorEntries(i)' = PriorEntries(i)
      <4>1. \A k \in 1..i : history'[k] = history[k]
        BY <1>5, <2>2
      <4>. QED BY <1>5, <2>2, <4>1 DEF PriorEntries
    <3>2. history'[i] = history[i]
      BY <1>5, <2>2
    <3>. QED BY <2>1, <2>2, <3>1, <3>2 DEF AuditChain, n
  <2>3. CASE i = n + 1
    <3>1. history'[i] = e
      BY <1>5, <2>3
    <3>2. LastEntry(id, j)
      <4>1. history[j].id = id
        BY <1>4, <2>1, <3>1
      <4>2. ASSUME NEW k \in (j + 1)..n, history[k].id = id
            PROVE  FALSE
        <5>1. k \in 1..(i - 1) /\ history'[k].id = history'[i].id /\ ~(k <= j)
          BY <1>4, <1>5, <2>1, <2>3, <3>1, <4>2
        <5>. QED BY <5>1 DEF PriorEntries
      <4>. QED BY <4>1, <4>2 DEF LastEntry, n
    <3>3. id \in Responses \ torn
      BY <1>1, <1>4, <3>1
    <3>4. history[j].after = edit[r].loaded
      BY <1>1, <2>1, <3>2, <3>3 DEF TrailInStep, n
    <3>. QED BY <1>4, <2>1, <3>1, <3>4
  <2>. QED BY <1>5, <2>2, <2>3
<1>9. ASSUME NEW i \in 1..(n + 1), NEW o \in Responses \ torn, LastEntry(o, i)'
      PROVE  /\ Saving(o)' = {} => history'[i].after = rows[o]
             /\ \A s \in Saving(o)' : history'[i].after = edit[s].loaded
  <2>1. CASE i = n + 1
    <3>1. o = id
      BY <1>4, <1>5, <1>9, <2>1 DEF LastEntry
    <3>2. Saving(o)' = {}
      BY <1>6, <1>7, <1>9, <3>1
    <3>3. edit[r].view = rows[id]
      BY <1>1, <1>9, <3>1 DEF TrailInStep, id
    <3>. QED BY <1>4, <1>5, <2>1, <3>1, <3>2, <3>3
  <2>2. CASE i \in 1..n
    <3>1. o # id
      BY <1>4, <1>5, <1>9, <2>2 DEF LastEntry
    <3>2. LastEntry(o, i)
      BY <1>5, <1>9, <2>2 DEF LastEntry, n
    <3>3. Saving(o)' = Saving(o)
      <4>1. r \notin Saving(o)
        BY <3>1 DEF Saving, id
      <4>. QED BY <1>7, <4>1
    <3>. QED BY <1>5, <1>9, <2>2, <3>2, <3>3 DEF TrailInStep, n
  <2>. QED BY <1>5, <2>1, <2>2
<1>10. {history'[i].id : i \in 1..Len(history')} \subseteq created
  <2>1. id \in created
    BY <1>1 DEF TrailInStep, Editing, id
  <2>2. \A i \in 1..n : history[i].id \in created
    BY DEF TrailInStep, n
  <2>. QED BY <1>4, <1>5, <2>1, <2>2
<1>11. Editing' = Editing
  BY <1>2, <1>3 DEF Editing
<1>. QED BY <1>2, <1>3, <1>5, <1>8, <1>9, <1>10, <1>11 DEF TrailInStep

LEMMA AuditStays ==
    ASSUME AuditInv, TypeOK, [Next]_vars
    PROVE  AuditInv'
<1>1. ASSUME NEW r \in Requests, Reject(r) \/ Publish(r) \/ RequestFails(r)
      PROVE  AuditInv'
  <2>1. /\ r \in Active /\ Finished(r) /\ UNCHANGED <<rows, created, history>>
        /\ torn \subseteq torn' /\ (pc[r] = "saved" => edit[r].id \in torn')
    BY <1>1 DEF Reject, Publish, RequestFails, Active
  <2>. QED BY <2>1, FinishSteps
<1>2. CASE UNCHANGED vars
  BY <1>2, TrailSame DEF vars, api
<1>. QED
  BY <1>1, <1>2, TrailSame, CreateTrail, LoadTrail, SaveTrail, RecordTrail
     DEF Next, RequestStep, ServiceStep, Environment, Boot, FetchSnapshot, FillGuild,
         Hydrated, HydrationFails, Listen, Receive, WriteBack, HandlerFails, Crash, Evict

\* The trail of a response that nobody tore is unbroken, step by step.
THEOREM Trail == Spec => []AuditInv
<1>1. ASSUME Init
      PROVE  AuditInv
  <2>1. Active = {} /\ 1..Len(history) = {}
    BY <1>1 DEF Init, Active
  <2>. QED BY <1>1, <2>1 DEF Init, AuditInv, TrailInStep, AuditChain, Editing
<1>. QED BY <1>1, AuditStays, TypeCorrect, PTL DEF Spec

\* The audit log tells the story of every response without gaps, unless its
\* edits overlapped or one died between the save and the entry.
THEOREM Audited == Spec => []AuditChain
<1>1. AuditInv => AuditChain
  BY DEF AuditInv
<1>. QED BY <1>1, Trail, PTL

\* A request whose response nobody else edits announces what it saved, and a
\* handler's change is undone only by one that overtook it.
LEMMA LossesExplained ==
    ASSUME TypeOK, AuditInv, [Next]_vars, NEW id \in lost' \ lost
    PROVE  faults' < faults \/ ~bound \/ id \in torn \/ Overtaking(id)'
<1>1. CASE Fault
  BY <1>1 DEF Fault, TypeOK
<1>2. ASSUME NEW r \in Requests, Publish(r)
      PROVE  ~bound \/ id \in torn
  <2> SUFFICES ASSUME bound, id \notin torn
               PROVE  FALSE
    OBVIOUS
  <2>1. r \in Active /\ r \in Committed
    BY <1>2 DEF Publish, Active, Committed
  <2>2. id = edit[r].id /\ edit[r].view # rows[edit[r].id]
    BY <1>2 DEF Publish, Told
  <2>. QED BY <2>1, <2>2 DEF AuditInv, TrailInStep
<1>3. CASE Receive
  <2> DEFINE e == Head(queue)
  <2>1. e \in Event /\ Len(inflight) \in Nat /\ inflight \in Seq(Handler)
    BY <1>3 DEF Receive, TypeOK
  <2>2. inflight' = Append(inflight, [event |-> e, seen |-> cache[GuildOf[e.id]]])
    BY <1>3 DEF Receive
  <2>3. id \in Overtaken(e)
    BY <1>3 DEF Receive, Lose
  <2>4. PICK i \in 1..Len(inflight) :
              inflight[i].event.id = id /\ id # e.id /\ GuildOf[id] = GuildOf[e.id]
    BY <2>3 DEF Overtaken, Of
  <2> DEFINE j == Len(inflight) + 1
  <2>5. /\ i \in 1..Len(inflight') /\ j \in 1..Len(inflight') /\ i < j
        /\ inflight'[i] = inflight[i] /\ inflight'[j].event = e
    BY <2>1, <2>2
  <2>. QED BY <2>4, <2>5 DEF Overtaking
<1>4. lost' \subseteq lost \/ Fault \/ (\E r \in Requests : Publish(r)) \/ Receive
  BY DEF Next, RequestStep, ServiceStep, Environment, Create, Load, Saved, SaveUpdate,
         Destroy, Reject, Record, RequestFails, Boot, FetchSnapshot, FillGuild,
         Hydrated, HydrationFails, Listen, WriteBack, HandlerFails, Crash, Evict, vars
<1>. QED BY <1>1, <1>2, <1>3, <1>4

\* As long as nothing fails and the queue exists, only overlapping edits of a
\* response and handlers of its guild that overtake its own cost it a change.
THEOREM Losses == Spec => LostForAReason
<1>1. TypeOK /\ AuditInv /\ [Next]_vars =>
        [\A id \in lost' \ lost :
            \/ faults' < faults
            \/ ~bound
            \/ id \in torn
            \/ Overtaking(id)']_vars
  BY LossesExplained
<1>. QED BY <1>1, TypeCorrect, Trail, PTL DEF Spec, LostForAReason

------------------------------------------------------------------------------
(***************************************************************************)
(* The refinement of EventualCache.                                        *)
(***************************************************************************)

\* Each response has one entry in the table and one in the cache.
LEMMA OneEntry ==
    ASSUME NEW id \in Responses, NEW row \in Row,
           NEW list \in SUBSET Trigger, ProperList(GuildOf[id], list)
    PROVE  /\ AsTrigger(id, row) \in {{}} \cup {{t} : t \in Trigger}
           /\ Cached(list, id) \in {{}} \cup {{t} : t \in Trigger}
<1>1. AsTrigger(id, row) \in {{}} \cup {{t} : t \in Trigger}
  <2>1. row # NoRow => [responseId |-> id, view |-> row] \in Trigger
    BY DEF Trigger, Row
  <2>. QED BY <2>1 DEF AsTrigger
<1>2. Cached(list, id) \in {{}} \cup {{t} : t \in Trigger}
  <2> DEFINE entry == Cached(list, id)
  <2>1. entry \in SUBSET Trigger /\ \A t, u \in entry : t = u
    BY DEF Cached, ProperList
  <2> HIDE DEF entry
  <2>2. CASE entry # {}
    <3>1. PICK t \in entry : TRUE
      BY <2>2
    <3>2. entry = {t} /\ t \in Trigger
      BY <2>1, <3>1
    <3>. QED BY <3>2 DEF entry
  <2>. QED BY <2>2 DEF entry
<1>. QED BY <1>1, <1>2

\* So it is after any step.
LEMMA OneEntryNext ==
    ASSUME TypeOK', ListsInv', NEW id \in Responses
    PROVE  /\ AsTrigger(id, rows'[id]) \in {{}} \cup {{t} : t \in Trigger}
           /\ Cached(cache'[GuildOf[id]], id) \in {{}} \cup {{t} : t \in Trigger}
<1>1. /\ rows'[id] \in Row /\ GuildOf[id] \in Guilds
      /\ cache'[GuildOf[id]] \in SUBSET Trigger
  BY GuildOfAssumption DEF TypeOK
<1>2. ProperList(GuildOf[id], cache'[GuildOf[id]])
  BY <1>1 DEF ListsInv, ProperLists, ProperList
<1>. QED BY <1>1, <1>2, OneEntry

\* A step that leaves the table alone and no response behind that was not so
\* before is the cache following the table: what was and stays settled is
\* cached as the table has it before and after, and so is what is caught up.
LEMMA CatchesUp ==
    ASSUME TypeOK', ListsInv', CoherentUnlessLost, CoherentUnlessLost',
           UNCHANGED <<rows, faults>>, svc' = "listening" <=> svc = "listening",
           \A id \in Responses : Settled(id) => Settled(id)'
    PROVE  EC!Follow
<1>1. \A id \in Responses :
        Cached(cache'[GuildOf[id]], id) \in {{}} \cup {{t} : t \in Trigger}
  BY OneEntryNext
<1>2. \A id \in Responses : Settled(id)' =>
        Cached(cache'[GuildOf[id]], id) = AsTrigger(id, rows[id])
  BY DEF CoherentUnlessLost
<1>3. \A id \in Responses : Settled(id) =>
        Cached(cache'[GuildOf[id]], id) = Cached(cache[GuildOf[id]], id)
  BY <1>2 DEF CoherentUnlessLost
<1>. QED BY <1>1, <1>2, <1>3 DEF EC!Follow, EC!OthersKept

\* A step of a fault that settles no response is a fault of the cache.
LEMMA FallsBehind ==
    ASSUME TypeOK, TypeOK', ListsInv', CoherentUnlessLost, CoherentUnlessLost',
           Fault, UNCHANGED rows, svc' = "listening" => svc = "listening",
           \A id \in Responses : Settled(id)' => Settled(id)
    PROVE  EC!Fault
<1>1. \A id \in Responses :
        Cached(cache'[GuildOf[id]], id) \in {{}} \cup {{t} : t \in Trigger}
  BY OneEntryNext
<1>2. \A id \in Responses : Settled(id)' =>
        Cached(cache'[GuildOf[id]], id) = Cached(cache[GuildOf[id]], id)
  BY DEF CoherentUnlessLost
<1>. QED BY <1>1, <1>2 DEF EC!Fault, Fault

\* A save changes one entry of the table and leaves it to be announced.
LEMMA ChangesOne ==
    ASSUME TypeOK, TypeOK', ListsInv', NEW id \in Responses, NEW row \in Row,
           rows' = [rows EXCEPT ![id] = row], Unsent' = Unsent \cup {id},
           UNCHANGED <<queue, inflight, cache, faults, svc, lost>>
    PROVE  EC!Change(id)
<1>1. \A i \in Responses : Settled(i)' <=> Settled(i) /\ i # id
  <2>1. Queued(queue)' = Queued(queue) /\ Handling' = Handling
    BY DEF Queued, Handling
  <2>. QED BY <2>1 DEF Settled, OnItsWay
<1>2. AsTrigger(id, rows'[id]) \in {{}} \cup {{t} : t \in Trigger}
  BY OneEntryNext
<1>3. [i \in Responses |-> AsTrigger(i, rows'[i])]
        = [[i \in Responses |-> AsTrigger(i, rows[i])] EXCEPT ![id] = AsTrigger(id, rows'[id])]
  BY DEF TypeOK
<1>. QED BY <1>1, <1>2, <1>3 DEF EC!Change

\* The steps of a request: a save is a change, and the rest leaves what is
\* behind as it was: what was to be announced is announced, or is lost.
LEMMA RequestsFollow ==
    ASSUME TypeOK, TypeOK', ListsInv', CoherenceInv, CoherenceInv',
           NEW r \in Requests, RequestStep(r)
    PROVE  EC!Next
<1> USE DEF CoherenceInv, PendingInStep
<1>1. CASE SaveUpdate(r) \/ Destroy(r)
  <2>1. edit[r] \in Edit /\ edit[r].id \in Responses
    BY <1>1 DEF SaveUpdate, Destroy, TypeOK, Active, Edit
  <2>2. Unsent' = Unsent \cup {edit[r].id}
    <3>1. Committed' = Committed \cup {r} /\ UNCHANGED edit
      BY <1>1 DEF SaveUpdate, Destroy, Saved, Committed, TypeOK
    <3>. QED BY <3>1 DEF Unsent
  <2>3. PICK row : rows' = [rows EXCEPT ![edit[r].id] = row]
    BY <1>1 DEF SaveUpdate, Destroy
  <2>4. row \in Row
    BY <2>1, <2>3 DEF TypeOK
  <2>5. UNCHANGED <<queue, inflight, cache, faults, svc, lost>>
    BY <1>1 DEF SaveUpdate, Destroy, Saved, proc
  <2>. QED BY <2>1, <2>2, <2>3, <2>4, <2>5, ChangesOne DEF EC!Next
<1>2. CASE Reject(r) \/ Record(r)
  <2>1. Unsent' = Unsent
    <3>1. Committed' = Committed /\ \A s \in Committed : edit'[s] = edit[s]
      BY <1>2 DEF Reject, Record, Finished, Committed, TypeOK
    <3>. QED BY <3>1 DEF Unsent
  <2>2. UNCHANGED <<rows, queue, inflight, cache, faults, svc, lost>>
    BY <1>2 DEF Reject, Record, proc
  <2>3. \A id \in Responses : Settled(id) => Settled(id)'
    BY <2>1, <2>2 DEF Settled, OnItsWay, Queued, Handling
  <2>. QED BY <2>2, <2>3, CatchesUp DEF EC!Next
<1>3. CASE Publish(r)
  <2>1. /\ r \in Committed /\ edit[r].id \in Unsent /\ edit[r] \in Edit
        /\ UNCHANGED <<rows, inflight, faults, svc>>
    BY <1>3 DEF Publish, Committed, Active, Unsent, TypeOK, proc
  <2>2. /\ lost' \subseteq lost \cup {edit[r].id}
        /\ Unsent' \subseteq Unsent
    <3>1. Committed' = Committed \ {r} /\ \A s \in Committed \ {r} : edit'[s] = edit[s]
      BY <1>3 DEF Publish, Finished, Committed, TypeOK
    <3>2. lost' \in {lost, lost \ {edit[r].id}, lost \cup {edit[r].id}}
      BY <1>3 DEF Publish, Told
    <3>. QED BY <3>1, <3>2 DEF Unsent
  <2>3. Queued(queue)' \subseteq Queued(queue) \cup {edit[r].id}
    <3>1. EventOf(edit[r]) \in Event /\ EventOf(edit[r]).id = edit[r].id
      BY <2>1 DEF EventOf, Edit, Event
    <3>2. queue' \in {queue, Append(queue, EventOf(edit[r]))}
      BY <1>3 DEF Publish
    <3>. QED BY <3>1, <3>2, QueuedAppend DEF TypeOK
  <2>4. \A id \in Responses : Settled(id) => Settled(id)'
    BY <2>1, <2>2, <2>3 DEF Settled, OnItsWay, Handling
  <2>. QED BY <2>1, <2>4, CatchesUp DEF EC!Next
<1>. QED BY <1>1, <1>2, <1>3 DEF RequestStep

\* The steps of the service: none puts a response behind.
LEMMA ServiceFollows ==
    ASSUME TypeOK, TypeOK', ListsInv', CoherenceInv, CoherenceInv', ServiceStep
    PROVE  EC!Next
<1> USE DEF CoherenceInv, PendingInStep
<1>1. CASE Listen
  <2>1. UNCHANGED <<rows, pc, edit, queue, inflight, cache, faults, lost>>
    BY <1>1 DEF Listen, api
  <2>2. \A id \in Responses : Settled(id)' <=> Settled(id)
    BY <2>1 DEF Settled, OnItsWay, Queued, Handling, Unsent, Committed
  <2>. QED BY <1>1, <2>1, <2>2 DEF Listen, EC!Listen, EC!Next
<1>2. CASE ~Listen
  <2>1. UNCHANGED <<rows, faults>> /\ (svc' = "listening" <=> svc = "listening")
    BY <1>2 DEF ServiceStep, Boot, FetchSnapshot, FillGuild, Hydrated, Receive, WriteBack,
                api, proc
  <2>2. Unsent' = Unsent
    BY <1>2, UnsentSame DEF ServiceStep, Boot, FetchSnapshot, FillGuild, Hydrated, Receive,
                WriteBack
  <2>3. CASE Boot \/ FetchSnapshot \/ Hydrated \/ \E g \in Guilds : FillGuild(g)
    <3>1. lost' \subseteq lost /\ UNCHANGED <<queue, inflight>>
      BY <2>3 DEF Boot, FetchSnapshot, Hydrated, FillGuild
    <3>2. \A id \in Responses : Settled(id) => Settled(id)'
      BY <2>2, <3>1 DEF Settled, OnItsWay, Queued, Handling
    <3>. QED BY <2>1, <3>2, CatchesUp DEF EC!Next
  <2>4. CASE Receive
    <3> DEFINE e == Head(queue)
               h == [event |-> e, seen |-> cache[GuildOf[e.id]]]
    <3>1. /\ queue \in Seq(Event) /\ queue # <<>> /\ queue' = Tail(queue)
          /\ Lose(Overtaken(e), Tail(queue))
      BY <2>4 DEF Receive, TypeOK
    <3>2. Queued(queue) = {e.id} \cup Queued(queue')
      BY <3>1, QueuedTail
    <3>3. Handling' \subseteq Handling \cup {e.id}
      <4>1. /\ inflight \in Seq(Handler) /\ inflight' = Append(inflight, h)
            /\ inflight' \in Seq(Handler)
        BY <2>4 DEF Receive, TypeOK
      <4>2. ASSUME NEW i \in 1..Len(inflight')
            PROVE  inflight'[i] = h \/ (i \in 1..Len(inflight) /\ inflight'[i] = inflight[i])
        <5>1. i \in 1..Len(inflight) \/ i = Len(inflight) + 1
          BY <4>1
        <5>. QED BY <4>1, <5>1
      <4>3. h.event.id = e.id
        OBVIOUS
      <4> HIDE DEF h
      <4>. QED BY <4>2, <4>3 DEF Handling
    <3>4. lost' \subseteq lost \cup Handling
      <4>1. Overtaken(e) \subseteq Handling
        BY DEF Overtaken, Handling
      <4>. QED BY <3>1, <4>1 DEF Lose
    <3>5. \A id \in Responses : Settled(id) => Settled(id)'
      BY <2>2, <3>2, <3>3, <3>4 DEF Settled, OnItsWay
    <3>. QED BY <2>1, <3>5, CatchesUp DEF EC!Next
  <2>5. CASE WriteBack
    <3>1. UNCHANGED <<queue, lost>> /\ Handling' \subseteq Handling
      BY <2>5, InflightTail DEF WriteBack
    <3>2. \A id \in Responses : Settled(id) => Settled(id)'
      BY <2>2, <3>1 DEF Settled, OnItsWay, Queued
    <3>. QED BY <2>1, <3>2, CatchesUp DEF EC!Next
  <2>. QED BY <1>2, <2>3, <2>4, <2>5 DEF ServiceStep
<1>. QED BY <1>1, <1>2

\* Losses and evictions, the faults: they leave more behind, never less.
LEMMA FaultsFollow ==
    ASSUME TypeOK, TypeOK', ListsInv', CoherenceInv, CoherenceInv',
           \/ \E r \in Requests : RequestFails(r)
           \/ HydrationFails \/ HandlerFails
           \/ \E n \in 0..Len(queue) : Crash(n)
           \/ \E g \in Guilds : Evict(g)
    PROVE  EC!Next
<1> USE DEF CoherenceInv, PendingInStep
<1>1. ASSUME NEW r \in Requests, RequestFails(r)
      PROVE  \A id \in Responses : Settled(id)' => Settled(id)
  <2>1. /\ r \in Committed /\ Finished(r) /\ Told(r, edit[r].id, FALSE)
        /\ UNCHANGED <<queue, inflight>>
    BY <1>1 DEF RequestFails, Committed
  <2>2. /\ lost \cup Unsent \subseteq lost' \cup Unsent' \cup {edit[r].id}
        /\ edit[r].id \in lost' \cup Unsent'
    BY <2>1, ToldSteps
  <2>. QED BY <2>1, <2>2 DEF Settled, OnItsWay, Queued, Handling
<1>2. ASSUME HydrationFails
      PROVE  \A id \in Responses : Settled(id)' => Settled(id)
  <2>1. Unsent' = Unsent /\ UNCHANGED <<lost, queue, inflight>>
    BY <1>2, UnsentSame DEF HydrationFails
  <2>. QED BY <2>1 DEF Settled, OnItsWay, Queued, Handling
<1>3. ASSUME HandlerFails
      PROVE  \A id \in Responses : Settled(id)' => Settled(id)
  <2>1. /\ inflight # <<>> /\ inflight' = Tail(inflight) /\ UNCHANGED queue
        /\ Lose({Head(inflight).event.id}, queue) /\ Unsent' = Unsent
    BY <1>3, UnsentSame DEF HandlerFails
  <2>2. Handling \subseteq {Head(inflight).event.id} \cup Handling'
    BY <2>1, InflightTail
  <2>. QED BY <2>1, <2>2 DEF Settled, OnItsWay, Queued, Lose
<1>4. ASSUME NEW n \in 0..Len(queue), Crash(n)
      PROVE  \A id \in Responses : Settled(id)' => Settled(id)
  <2> DEFINE left == SubSeq(queue, n + 1, Len(queue))
             cut  == SubSeq(queue, 1, n)
  <2>1. /\ queue' = left /\ Lose(Handling \cup Queued(cut), left) /\ Unsent' = Unsent
    BY <1>4, UnsentSame DEF Crash
  <2>2. Queued(queue) = Queued(cut) \cup Queued(left)
    BY QueuedSplit DEF TypeOK
  <2> HIDE DEF left, cut
  <2>. QED BY <2>1, <2>2 DEF Settled, OnItsWay, Lose
<1>5. ASSUME NEW g \in Guilds, Evict(g)
      PROVE  \A id \in Responses : Settled(id)' => Settled(id)
  <2>1. Unsent' = Unsent /\ UNCHANGED <<queue, inflight>> /\ lost \subseteq lost'
    BY <1>5, UnsentSame DEF Evict
  <2>. QED BY <2>1 DEF Settled, OnItsWay, Queued, Handling
<1>6. Fault /\ UNCHANGED rows /\ (svc' = "listening" => svc = "listening")
  BY DEF RequestFails, HydrationFails, HandlerFails, Crash, Evict, api, proc
<1>7. \A id \in Responses : Settled(id)' => Settled(id)
  BY <1>1, <1>2, <1>3, <1>4, <1>5
<1>. QED BY <1>6, <1>7, FallsBehind DEF EC!Next

\* Every step of the system is one of the abstract cache.
LEMMA StepFollows ==
    ASSUME TypeOK, TypeOK', ListsInv', CoherenceInv, CoherenceInv', [Next]_vars
    PROVE  [EC!Next]_EC!vars
<1> USE DEF CoherenceInv, PendingInStep
<1>1. ASSUME NEW r \in Requests, NEW id \in Responses, NEW view \in View, Create(r, id, view)
      PROVE  EC!Next
  <2>1. Unsent' = Unsent \cup {id}
    <3>1. Committed' = Committed \cup {r} /\ r \notin Committed /\ edit'[r].id = id
          /\ \A s \in Committed : edit'[s] = edit[s]
      BY <1>1 DEF Create, Saved, Committed, TypeOK
    <3>. QED BY <3>1 DEF Unsent
  <2>2. /\ UNCHANGED <<queue, inflight, cache, faults, svc, lost>>
        /\ rows' = [rows EXCEPT ![id] = view] /\ view \in Row
    BY <1>1 DEF Create, Saved, proc, Row
  <2>. QED BY <2>1, <2>2, ChangesOne DEF EC!Next
<1>2. ASSUME NEW r \in Requests, NEW id \in Responses, NEW view \in Row,
             NEW action \in {"UPDATE", "DELETE"}, Load(r, id, action, view)
      PROVE  EC!Next
  <2>1. Unsent' = Unsent
    <3>1. Committed' = Committed /\ \A s \in Committed : edit'[s] = edit[s]
      BY <1>2 DEF Load, Committed, TypeOK
    <3>. QED BY <3>1 DEF Unsent
  <2>2. UNCHANGED <<rows, queue, inflight, cache, faults, svc, lost>>
    BY <1>2 DEF Load, proc
  <2>3. \A i \in Responses : Settled(i) => Settled(i)'
    BY <2>1, <2>2 DEF Settled, OnItsWay, Queued, Handling
  <2>. QED BY <2>2, <2>3, CatchesUp DEF EC!Next
<1>3. CASE UNCHANGED vars
  <2>1. \A id \in Responses : Settled(id)' <=> Settled(id)
    BY <1>3 DEF vars, Settled, OnItsWay, Queued, Handling, Unsent, Committed
  <2>. QED BY <1>3, <2>1 DEF vars, EC!vars
<1>. QED BY <1>1, <1>2, <1>3, RequestsFollow, ServiceFollows, FaultsFollow DEF Next, Environment

\* The trigger cache is an EventualCache: a response's entry is right unless a
\* change of its own or a fault has left it behind, and no late or overtaken
\* handler, no other response of the guild and no hydration undoes it.
THEOREM Implements == Spec => FollowsTheTable
<1>1. ASSUME Init, TypeOK, ListsInv, CoherenceInv
      PROVE  EC!Init
  <2>1. \A id \in Responses :
            /\ AsTrigger(id, rows[id]) \in {{}} \cup {{t} : t \in Trigger}
            /\ Cached(cache[GuildOf[id]], id) \in {{}} \cup {{t} : t \in Trigger}
    BY <1>1, OneEntry, GuildOfAssumption DEF TypeOK, ListsInv, ProperLists
  <2>2. \A id \in Responses :
            Settled(id) => Cached(cache[GuildOf[id]], id) = AsTrigger(id, rows[id])
    BY <1>1 DEF CoherenceInv, CoherentUnlessLost
  <2>3. svc # "listening" /\ faults \in Nat
    BY <1>1, BoundsAssumption DEF Init
  <2>. QED BY <2>1, <2>2, <2>3 DEF EC!Init, EC!UpToDate
<1>. QED BY <1>1, StepFollows, TypeCorrect, ListsProper, Coherence, PTL
         DEF Spec, FollowsTheTable, EC!Spec
==============================================================================
