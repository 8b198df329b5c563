------------------------ MODULE GuildSettings_proofs ------------------------
(***************************************************************************)
(* Proofs about GuildSettings, for every number of guilds, requests,       *)
(* handlers, attempts and faults.                                          *)
(***************************************************************************)
EXTENDS GuildSettings, SequenceTheorems, TLAPS

------------------------------------------------------------------------------
(***************************************************************************)
(* Lemmas about the operators.                                             *)
(***************************************************************************)

\* What Lose does to the ghosts, as sets.
LEMMA LoseType ==
    ASSUME NEW gs \in SUBSET Guilds, NEW q, NEW h, TypeOK, Lose(gs, q, h)
    PROVE  lost' \in SUBSET Guilds /\ missed' \in SUBSET Guilds
BY DEF Lose, TypeOK

\* What is saved are settings.
LEMMA SavedRowType ==
    ASSUME NEW row \in Row, NEW e \in Edit, e.view # Invalid,
           e.loaded = NoRow \/ row # NoRow
    PROVE  SavedRow(row, e) \in Settings
BY DEF SavedRow, Row, Edit, Settings

\* Appending, removing the head and splitting a queue, as sets of guilds.
LEMMA QueuedAppend ==
    ASSUME NEW q \in Seq(Event), NEW e \in Event
    PROVE  Queued(Append(q, e)) = Queued(q) \cup {e.guild}
BY DEF Queued

LEMMA QueuedTail ==
    ASSUME NEW q \in Seq(Event), q # <<>>
    PROVE  Queued(q) = {Head(q).guild} \cup Queued(Tail(q))
<1>1. ASSUME NEW i \in 1..Len(q)
      PROVE  q[i].guild \in {Head(q).guild} \cup Queued(Tail(q))
  <2>1. CASE i = 1
    BY <2>1
  <2>2. CASE i # 1
    <3>1. i - 1 \in 1..Len(Tail(q)) /\ Tail(q)[i - 1] = q[i]
      BY <2>2
    <3>. QED BY <3>1 DEF Queued
  <2>. QED BY <2>1, <2>2
<1>2. Head(q).guild \in Queued(q)
  <2>1. 1 \in 1..Len(q) /\ Head(q) = q[1]
    OBVIOUS
  <2>. QED BY <2>1 DEF Queued
<1>3. ASSUME NEW i \in 1..Len(Tail(q))
      PROVE  Tail(q)[i].guild \in Queued(q)
  <2>1. i + 1 \in 1..Len(q) /\ Tail(q)[i] = q[i + 1]
    OBVIOUS
  <2>. QED BY <2>1 DEF Queued
<1>. QED BY <1>1, <1>2, <1>3 DEF Queued

\* The part of a queue that a crash leaves, and the part it takes.
LEMMA QueuedSplit ==
    ASSUME NEW q \in Seq(Event), NEW n \in 0..Len(q)
    PROVE  /\ SubSeq(q, n + 1, Len(q)) \in Seq(Event)
           /\ Queued(q) = Queued(SubSeq(q, 1, n)) \cup Queued(SubSeq(q, n + 1, Len(q)))
<1> DEFINE left == SubSeq(q, n + 1, Len(q))
           cut  == SubSeq(q, 1, n)
<1>1. /\ left \in Seq(Event) /\ Len(left) = Len(q) - n
      /\ \A i \in 1..Len(left) : left[i] = q[n + i]
  OBVIOUS
<1>2. /\ Len(cut) = n
      /\ \A i \in 1..n : cut[i] = q[i]
  OBVIOUS
<1>3. ASSUME NEW i \in 1..Len(q)
      PROVE  q[i].guild \in Queued(cut) \cup Queued(left)
  <2>1. CASE i <= n
    <3>1. i \in 1..Len(cut) /\ cut[i] = q[i]
      BY <1>2, <2>1
    <3>. QED BY <3>1 DEF Queued
  <2>2. CASE ~(i <= n)
    <3>1. i - n \in 1..Len(left) /\ left[i - n] = q[i]
      BY <1>1, <2>2
    <3>. QED BY <3>1 DEF Queued
  <2>. QED BY <2>1, <2>2
<1>4. ASSUME NEW i \in 1..Len(cut)
      PROVE  cut[i].guild \in Queued(q)
  <2>1. i \in 1..Len(q) /\ cut[i] = q[i]
    BY <1>2
  <2>. QED BY <2>1 DEF Queued
<1>5. ASSUME NEW i \in 1..Len(left)
      PROVE  left[i].guild \in Queued(q)
  <2>1. n + i \in 1..Len(q) /\ left[i] = q[n + i]
    BY <1>1
  <2>. QED BY <2>1 DEF Queued
<1>. HIDE DEF left, cut
<1>6. Queued(q) = Queued(cut) \cup Queued(left)
  BY <1>3, <1>4, <1>5 DEF Queued
<1>. QED BY <1>1, <1>6 DEF left, cut

\* Removing a handler: the older ones keep their places, the younger move up.
LEMMA WithoutSeq ==
    ASSUME TypeOK, NEW i \in 1..Len(inflight)
    PROVE  /\ Without(i) \in Seq(Handler)
           /\ Len(Without(i)) = Len(inflight) - 1
           /\ \A k \in 1..Len(Without(i)) :
                  Without(i)[k] = IF k < i THEN inflight[k] ELSE inflight[k + 1]
<1> DEFINE older   == SubSeq(inflight, 1, i - 1)
           younger == SubSeq(inflight, i + 1, Len(inflight))
<1>1. inflight \in Seq(Handler)
  BY DEF TypeOK
<1>2. /\ older \in Seq(Handler) /\ Len(older) = i - 1
      /\ \A k \in 1..(i - 1) : older[k] = inflight[k]
  BY <1>1
<1>3. /\ younger \in Seq(Handler) /\ Len(younger) = Len(inflight) - i
      /\ \A k \in 1..(Len(inflight) - i) : younger[k] = inflight[i + k]
  BY <1>1
<1>. HIDE DEF older, younger
<1>4. Without(i) = older \o younger
  BY DEF Without, older, younger
<1>5. /\ older \o younger \in Seq(Handler)
      /\ Len(older \o younger) = Len(older) + Len(younger)
      /\ \A k \in 1..Len(older) + Len(younger) :
             (older \o younger)[k] = IF k <= Len(older) THEN older[k]
                                    ELSE younger[k - Len(older)]
  <2>1. older \in Seq(Handler) /\ younger \in Seq(Handler)
    BY <1>2, <1>3
  <2>. HIDE DEF Handler
  <2>. QED BY <2>1, ConcatProperties, Zenon
<1>6. Len(inflight) \in Nat /\ Len(older) + Len(younger) = Len(inflight) - 1
  BY <1>1, <1>2, <1>3
<1>7. ASSUME NEW k \in 1..(Len(inflight) - 1)
      PROVE  (older \o younger)[k] = IF k < i THEN inflight[k] ELSE inflight[k + 1]
  <2>1. (older \o younger)[k] = IF k <= i - 1 THEN older[k] ELSE younger[k - (i - 1)]
    BY <1>2, <1>5, <1>6
  <2>2. CASE k < i
    BY <1>2, <1>6, <2>1, <2>2
  <2>3. CASE ~(k < i)
    <3>1. k - (i - 1) \in 1..(Len(inflight) - i) /\ i + (k - (i - 1)) = k + 1
      BY <1>6, <2>3
    <3>2. younger[k - (i - 1)] = inflight[k + 1]
      BY <1>3, <3>1
    <3>. QED BY <1>6, <2>1, <2>3, <3>2
  <2>. QED BY <2>2, <2>3
<1>. QED BY <1>4, <1>5, <1>6, <1>7

\* What a request that is being handled holds.
LEMMA EditOf ==
    ASSUME TypeOK, NEW r \in Active
    PROVE  /\ edit[r] \in Edit
           /\ edit[r].guild \in Guilds /\ edit[r].loaded \in Row
           /\ edit[r].view \in Settings \cup {Invalid}
           /\ r \in Committed => edit[r].view \in Settings
           /\ edit[r].loaded # NoRow => rows[edit[r].guild] # NoRow
<1>1. r \in Requests
  BY DEF Active
<1>2. edit \in [Requests -> Edit \cup {NoEdit}] /\ edit[r] # NoEdit
  <2>1. \A s \in Active : edit[s] # NoEdit
    BY DEF TypeOK
  <2>. QED BY <2>1 DEF TypeOK
<1>3. edit[r] \in Edit
  BY <1>1, <1>2
<1>4. /\ r \in Committed => edit[r].view # Invalid
      /\ edit[r].loaded # NoRow => rows[edit[r].guild] # NoRow
  <2>1. /\ \A s \in Committed : edit[s].view # Invalid
        /\ \A s \in Active : edit[s].loaded # NoRow => rows[edit[s].guild] # NoRow
    BY DEF TypeOK
  <2>. QED BY <2>1
<1>. QED BY <1>3, <1>4 DEF Edit

\* Guilds of events and handlers are guilds.
LEMMA GuildsOf ==
    ASSUME TypeOK
    PROVE  /\ Queued(queue) \subseteq Guilds
           /\ Handling(inflight) \subseteq Guilds
           /\ Unsent \subseteq Guilds
           /\ Hydrating \subseteq Guilds
<1>1. ASSUME NEW i \in 1..Len(queue)
      PROVE  queue[i].guild \in Guilds
  <2>1. queue[i] \in Event
    BY DEF TypeOK
  <2>. QED BY <2>1 DEF Event
<1>2. ASSUME NEW i \in 1..Len(inflight)
      PROVE  inflight[i].event.guild \in Guilds
  <2>1. inflight[i] \in Handler
    BY DEF TypeOK
  <2>. QED BY <2>1 DEF Handler, Event
<1>3. Unsent \subseteq Guilds
  BY EditOf DEF Unsent, Committed, Active
<1>4. ASSUME NEW k \in todo
      PROVE  k[1] \in Guilds
  BY DEF TypeOK
<1>5. Queued(queue) \subseteq Guilds
  BY <1>1 DEF Queued
<1>6. Handling(inflight) \subseteq Guilds
  BY <1>2 DEF Handling
<1>7. Hydrating \subseteq Guilds
  BY <1>4 DEF Hydrating
<1>. QED BY <1>3, <1>5, <1>6, <1>7

\* What the two writes of a handler do to the cache.
LEMMA WritePrefixCache ==
    ASSUME TypeOK, NEW i \in 1..Len(inflight), WritePrefix(i),
           NEW e \in Event, e = inflight[i].event
    PROVE  /\ cache' \in [Guilds -> Settings]
           /\ cache'[e.guild].prefix = e.data.prefix
           /\ \A g \in Guilds : /\ cache'[g].isRankingEnabled = cache[g].isRankingEnabled
                                /\ g # e.guild => cache'[g] = cache[g]
<1>1. /\ cache \in [Guilds -> Settings]
      /\ cache' = [cache EXCEPT ![e.guild] = [cache[e.guild] EXCEPT !.prefix = e.data.prefix]]
  BY DEF WritePrefix, PrefixAfter, TypeOK
<1>2. /\ e.guild \in Guilds
      /\ [cache[e.guild] EXCEPT !.prefix = e.data.prefix] \in Settings
      /\ [cache[e.guild] EXCEPT !.prefix = e.data.prefix].prefix = e.data.prefix
      /\ [cache[e.guild] EXCEPT !.prefix = e.data.prefix].isRankingEnabled
             = cache[e.guild].isRankingEnabled
  BY <1>1 DEF Event, Settings
<1>. QED BY <1>1, <1>2

LEMMA WriteRankingCache ==
    ASSUME TypeOK, WriteRanking, NEW e \in Event, e = Head(inflight).event
    PROVE  /\ cache' \in [Guilds -> Settings]
           /\ cache'[e.guild].isRankingEnabled = e.data.isRankingEnabled
           /\ \A g \in Guilds : /\ cache'[g].prefix = cache[g].prefix
                                /\ g # e.guild => cache'[g] = cache[g]
<1>1. /\ cache \in [Guilds -> Settings]
      /\ cache' = [cache EXCEPT ![e.guild] =
                       [cache[e.guild] EXCEPT !.isRankingEnabled = e.data.isRankingEnabled]]
  BY DEF WriteRanking, RankingAfter, TypeOK
<1> DEFINE s == [cache[e.guild] EXCEPT !.isRankingEnabled = e.data.isRankingEnabled]
<1>2. /\ e.guild \in Guilds
      /\ s \in Settings
      /\ s.isRankingEnabled = e.data.isRankingEnabled
      /\ s.prefix = cache[e.guild].prefix
  BY <1>1 DEF Event, Settings
<1>. QED BY <1>1, <1>2

------------------------------------------------------------------------------
(***************************************************************************)
(* Type correctness.                                                       *)
(***************************************************************************)

\* Every variable keeps its type, whatever interleaves and fails: no event
\* announces a missing row, and a row once there stays.
THEOREM TypeCorrect == Spec => []TypeOK
<1> USE BoundsAssumption, NoRowAssumption, NoEditAssumption
<1>1. ASSUME Init PROVE TypeOK
  <2>1. Default \in Settings
    BY DEF Default, Settings
  <2>2. Active = {} /\ Committed = {}
    BY <1>1 DEF Init, Active, Committed
  <2>3. /\ history \in Seq(Entry) /\ queue \in Seq(Event)
        /\ inflight \in Seq(Handler) /\ Len(inflight) <= MaxInFlight
        /\ attempt \in 1..MaxAttempts /\ faults \in 0..MaxFaults
    BY <1>1 DEF Init
  <2>. QED BY <1>1, <2>1, <2>2, <2>3 DEF Init, TypeOK, Row
<1>2. TypeOK /\ [Next]_vars => TypeOK'
  <2> SUFFICES ASSUME TypeOK, [Next]_vars
               PROVE  TypeOK'
    OBVIOUS
  <2>1. ASSUME NEW r \in Requests, NEW g \in Guilds,
               NEW view \in Settings \cup {Invalid}, Load(r, g, view)
        PROVE  TypeOK'
    <3>1. edit'[r] \in Edit
      BY <2>1 DEF Load, TypeOK, Edit
    <3>. QED BY <2>1, <3>1 DEF Load, TypeOK, Active, Committed, proc
  <2>2. ASSUME NEW r \in Requests, RequestStep(r)
        PROVE  TypeOK'
    <3>1. CASE Save(r)
      <4>1. /\ edit[r] \in Edit
            /\ edit[r].loaded # NoRow => rows[edit[r].guild] # NoRow
        BY <3>1, EditOf DEF Save, Active
      <4>2. SavedRow(rows[edit[r].guild], edit[r]) \in Settings
        <5>1. edit[r].loaded = NoRow \/ rows[edit[r].guild] # NoRow
          BY <4>1
        <5>2. rows[edit[r].guild] \in Row
          BY <4>1 DEF TypeOK, Edit
        <5>. QED BY <3>1, <4>1, <5>1, <5>2, SavedRowType DEF Save
      <4>3. /\ rows' \in [Guilds -> Row]
            /\ \A g \in Guilds : rows[g] # NoRow => rows'[g] # NoRow
        BY <3>1, <4>1, <4>2 DEF Save, TypeOK, Row, Edit
      <4>. QED BY <3>1, <4>1, <4>3 DEF Save, TypeOK, Active, Committed, Edit, proc
    <3>2. CASE Reject(r)
      BY <3>2 DEF Reject, Finished, TypeOK, Active, Committed, proc
    <3>3. CASE Record(r)
      <4>1. edit[r] \in Edit /\ edit[r].view \in Settings
        BY <3>3, EditOf DEF Record, Active, Committed
      <4>2. EntryOf(edit[r]) \in Entry
        BY <4>1 DEF EntryOf, Edit, Entry
      <4>. QED BY <3>3, <4>1, <4>2 DEF Record, TypeOK, Active, Committed, proc
    <3>4. CASE Publish(r)
      <4>1. edit[r] \in Edit /\ edit[r].view \in Settings
        BY <3>4, EditOf DEF Publish, Active, Committed
      <4>2. EventOf(edit[r]) \in Event /\ edit[r].guild \in Guilds
        BY <4>1 DEF EventOf, Edit, Event
      <4>3. Append(queue, EventOf(edit[r])) \in Seq(Event)
        BY <4>2 DEF TypeOK
      <4>4. /\ queue' \in Seq(Event)
            /\ lost' \in SUBSET Guilds
            /\ missed' \in SUBSET Guilds
        BY <3>4, <4>2, <4>3 DEF Publish, TypeOK
      <4>. QED BY <3>4, <4>4 DEF Publish, Finished, TypeOK, Active, Committed, proc
    <3>. QED BY <2>2, <3>1, <3>2, <3>3, <3>4 DEF RequestStep
  <2>3. ASSUME NEW r \in Requests, RequestFails(r)
        PROVE  TypeOK'
    <3>1. edit[r].guild \in Guilds
      BY <2>3, EditOf DEF RequestFails, Active
    <3>. QED BY <2>3, <3>1 DEF RequestFails, Finished, Fault, TypeOK, Active, Committed, proc
  <2>4. CASE Boot
    BY <2>4 DEF Boot, TypeOK, Active, Committed, api
  <2>5. CASE FetchSnapshot
    <3>1. \A g \in Guilds : Shown(rows[g]) \in Settings
      BY DEF TypeOK, Shown, Row, Default, Settings
    <3>. QED BY <2>5, <3>1 DEF FetchSnapshot, TypeOK, Active, Committed, api
  <2>6. CASE Clear
    BY <2>6 DEF Clear, Cleared, Default, Settings, KeysOf, TypeOK, Active, Committed, api
  <2>7. ASSUME NEW g \in Guilds, FillPrefix(g)
        PROVE  TypeOK'
    BY <2>7 DEF FillPrefix, Settings, TypeOK, Active, Committed, api
  <2>8. ASSUME NEW g \in Guilds, FillRanking(g)
        PROVE  TypeOK'
    BY <2>8 DEF FillRanking, Settings, TypeOK, Active, Committed, api
  <2>9. CASE Hydrated
    BY <2>9 DEF Hydrated, TypeOK, Active, Committed, api
  <2>10. CASE HydrationFails
    <3>1. lost' \in SUBSET Guilds /\ missed' \in SUBSET Guilds
      BY <2>10, LoseType, GuildsOf DEF HydrationFails
    <3>. QED BY <2>10, <3>1 DEF HydrationFails, Fault, TypeOK, Active, Committed, api
  <2>11. CASE Listen
    BY <2>11 DEF Listen, TypeOK, Active, Committed, api
  <2>12. CASE Receive
    <3>1. Head(queue) \in Event /\ Tail(queue) \in Seq(Event)
      BY <2>12 DEF Receive, TypeOK
    <3>2. [event |-> Head(queue), step |-> "prefix"] \in Handler
      BY <3>1 DEF Handler
    <3>. QED BY <2>12, <3>1, <3>2 DEF Receive, TypeOK, Active, Committed, api, proc
  <2>13. ASSUME NEW i \in 1..Len(inflight), WritePrefix(i)
         PROVE  TypeOK'
    <3>1. inflight[i] \in Handler
      BY DEF TypeOK
    <3>2. inflight' \in Seq(Handler) /\ Len(inflight') = Len(inflight)
      <4>1. [inflight[i] EXCEPT !.step = "ranking"] \in Handler
        BY <3>1 DEF Handler
      <4>2. inflight \in Seq(Handler) /\ inflight' = [inflight EXCEPT ![i] = [inflight[i] EXCEPT !.step = "ranking"]]
        BY <2>13 DEF WritePrefix, TypeOK
      <4>. QED BY <4>1, <4>2
    <3>3. cache' \in [Guilds -> Settings]
      BY <2>13, <3>1, WritePrefixCache DEF Handler
    <3>. QED BY <2>13, <3>2, <3>3 DEF WritePrefix, TypeOK, Active, Committed, api, proc
  <2>14. CASE WriteRanking
    <3>1. Head(inflight) \in Handler /\ Tail(inflight) \in Seq(Handler)
          /\ Len(Tail(inflight)) <= MaxInFlight
      BY <2>14 DEF WriteRanking, TypeOK
    <3>2. cache' \in [Guilds -> Settings]
      BY <2>14, <3>1, WriteRankingCache DEF Handler
    <3>. QED BY <2>14, <3>1, <3>2 DEF WriteRanking, TypeOK, Active, Committed, api, proc
  <2>15. ASSUME NEW i \in 1..Len(inflight), HandlerFails(i)
         PROVE  TypeOK'
    <3>1. inflight[i] \in Handler
      BY DEF TypeOK
    <3>2. {inflight[i].event.guild} \in SUBSET Guilds
      BY <3>1 DEF Handler, Event
    <3>3. lost' \in SUBSET Guilds /\ missed' \in SUBSET Guilds
      BY <2>15, <3>2, LoseType DEF HandlerFails
    <3>4. Without(i) \in Seq(Handler) /\ Len(Without(i)) <= MaxInFlight
      BY WithoutSeq DEF TypeOK
    <3>. QED BY <2>15, <3>3, <3>4 DEF HandlerFails, Fault, TypeOK, Active, Committed, api, proc
  <2>16. ASSUME NEW n \in 0..Len(queue), Crash(n)
         PROVE  TypeOK'
    <3>1. /\ SubSeq(queue, n + 1, Len(queue)) \in Seq(Event)
          /\ Queued(SubSeq(queue, 1, n)) \subseteq Queued(queue)
      BY QueuedSplit DEF TypeOK
    <3>2. Hydrating \cup Handling(inflight) \cup Queued(SubSeq(queue, 1, n)) \in SUBSET Guilds
      BY <3>1, GuildsOf
    <3>3. lost' \in SUBSET Guilds /\ missed' \in SUBSET Guilds
      BY <2>16, <3>2, LoseType DEF Crash
    <3>. QED BY <2>16, <3>1, <3>3 DEF Crash, Fault, TypeOK, Active, Committed, api
  <2>17. ASSUME NEW g \in Guilds, NEW evicted \in Settings, EvictKey(g, evicted)
         PROVE  TypeOK'
    <3>1. lost' \in SUBSET Guilds /\ missed' \in SUBSET Guilds
      <4>1. Lose({g}, queue, <<>>) /\ {g} \in SUBSET Guilds
        BY <2>17 DEF EvictKey
      <4>. QED BY <4>1, LoseType
    <3>. QED BY <2>17, <3>1 DEF EvictKey, Fault, TypeOK, Active, Committed, api, proc
  <2>18. CASE UNCHANGED vars
    BY <2>18 DEF vars, TypeOK, Active, Committed
  <2>. QED
    BY <2>1, <2>2, <2>3, <2>4, <2>5, <2>6, <2>7, <2>8, <2>9, <2>10, <2>11, <2>12,
       <2>13, <2>14, <2>15, <2>16, <2>17, <2>18 DEF Next, ServiceStep, Environment
<1>. QED BY <1>1, <1>2, PTL DEF Spec

------------------------------------------------------------------------------
(***************************************************************************)
(* One creation.                                                           *)
(***************************************************************************)

\* An appended entry is a creation of its guild if it says so, and the other
\* creations stay.
LEMMA CreationsAppend ==
    ASSUME history \in Seq(Entry), NEW e \in Entry, history' = Append(history, e),
           NEW g \in Guilds
    PROVE  /\ e.action = "CREATE" /\ e.guild = g =>
                  Creations(g)' = Creations(g) \cup {Len(history) + 1}
           /\ ~(e.action = "CREATE" /\ e.guild = g) => Creations(g)' = Creations(g)
<1>1. /\ Len(history') = Len(history) + 1 /\ Len(history) \in Nat
      /\ \A i \in 1..Len(history) : history'[i] = history[i]
      /\ history'[Len(history) + 1] = e
  OBVIOUS
<1>2. \A i : i \in 1..Len(history') <=> i \in 1..Len(history) \/ i = Len(history) + 1
  BY <1>1
<1>3. Len(history) + 1 \notin 1..Len(history)
  BY <1>1
<1>4. \A i : i \in Creations(g)' <=>
             \/ i \in Creations(g)
             \/ i = Len(history) + 1 /\ e.action = "CREATE" /\ e.guild = g
  <2>1. \A i : i \in Creations(g)' <=>
               i \in 1..Len(history') /\ history'[i].action = "CREATE" /\ history'[i].guild = g
    BY DEF Creations
  <2>2. \A i : i \in Creations(g) <=>
               i \in 1..Len(history) /\ history[i].action = "CREATE" /\ history[i].guild = g
    BY DEF Creations
  <2>. QED BY <1>1, <1>2, <1>3, <2>1, <2>2
<1>. QED BY <1>4

\* A step that neither saves nor records leaves the creations alone.
LEMMA NoCreation ==
    ASSUME CreationInv, UNCHANGED <<rows, history>>,
           \A g \in Guilds : Creating(g)' \subseteq Creating(g)
    PROVE  CreationInv'
BY DEF CreationInv, Creations

\* Of two first PATCHes for a guild the primary key lets one through, and it
\* alone records a creation: until it has, the row is there and no other
\* request that found none can save (CreationInv).
THEOREM Creates == Spec => []OneCreation
<1>1. Init => CreationInv
  BY DEF Init, CreationInv, Creating, Creations
<1>2. TypeOK /\ CreationInv /\ [Next]_vars => CreationInv'
  <2> SUFFICES ASSUME TypeOK, CreationInv, [Next]_vars
               PROVE  CreationInv'
    OBVIOUS
  <2>1. ASSUME NEW r \in Requests, NEW g \in Guilds,
               NEW view \in Settings \cup {Invalid}, Load(r, g, view)
        PROVE  CreationInv'
    <3>1. \A x \in Guilds : Creating(x)' \subseteq Creating(x)
      BY <2>1 DEF Load, Creating, TypeOK
    <3>. QED BY <2>1, <3>1, NoCreation DEF Load
  <2>2. ASSUME NEW r \in Requests, Save(r)
        PROVE  CreationInv'
    <3>. PICK h \in Guilds : h = edit[r].guild
      BY <2>2, EditOf DEF Save, Active
    <3>1. /\ edit[r] \in Edit /\ h \in Guilds
          /\ rows' = [rows EXCEPT ![h] = SavedRow(rows[h], edit[r])]
          /\ rows'[h] # NoRow
      <4>1. /\ edit[r] \in Edit /\ h \in Guilds
            /\ edit[r].loaded # NoRow => rows[h] # NoRow
        BY <2>2, EditOf DEF Save, Active
      <4>2. SavedRow(rows[h], edit[r]) \in Settings
        BY <2>2, <4>1, SavedRowType DEF Save, TypeOK
      <4>. QED BY <2>2, <4>1, <4>2, NoRowAssumption DEF Save, TypeOK
    <3>2. /\ edit' = edit /\ pc' = [pc EXCEPT ![r] = "saved"] /\ history' = history
          /\ pc \in [Requests -> {"new", "loaded", "saved", "recorded", "done"}]
      BY <2>2 DEF Save, TypeOK
    <3>3. \A g \in Guilds : Creations(g)' = Creations(g)
      BY <3>2 DEF Creations
    <3>4. ASSUME NEW g \in Guilds, g # h
          PROVE  rows'[g] = rows[g] /\ Creating(g)' = Creating(g)
      BY <3>1, <3>2, <3>4, <2>2 DEF Creating, Save, TypeOK
    <3>5. CASE edit[r].loaded # NoRow
      <4>1. \A g \in Guilds : Creating(g)' = Creating(g)
        BY <2>2, <3>2, <3>5 DEF Creating, Save
      <4>2. rows[h] # NoRow
        BY <2>2, <3>5, EditOf DEF Save, Active
      <4>. QED BY <3>1, <3>3, <3>4, <4>1, <4>2 DEF CreationInv
    <3>6. CASE edit[r].loaded = NoRow
      <4>1. rows[h] = NoRow
        BY <2>2, <3>6 DEF Save, Conflicts
      <4>2. Creating(h)' \subseteq {r} /\ Creations(h) = {}
        BY <3>1, <3>2, <4>1 DEF CreationInv, Creating
      <4>3. /\ \A i, j \in Creations(h)' : i = j
            /\ \A p, q \in Creating(h)' : p = q
            /\ Creations(h)' = {}
        BY <3>1, <3>3, <4>2
      <4>4. ASSUME NEW g \in Guilds
            PROVE  /\ rows'[g] = NoRow => Creating(g)' = {}
                   /\ rows'[g] = NoRow \/ Creating(g)' # {} => Creations(g)' = {}
                   /\ \A p, q \in Creating(g)' : p = q
                   /\ \A i, j \in Creations(g)' : i = j
        <5>1. CASE g = h
          BY <3>1, <4>3, <5>1
        <5>2. CASE g # h
          BY <3>3, <3>4, <5>2 DEF CreationInv
        <5>. QED BY <5>1, <5>2
      <4>. QED BY <4>4 DEF CreationInv
    <3>. QED BY <3>5, <3>6
  <2>3. ASSUME NEW r \in Requests, Record(r)
        PROVE  CreationInv'
    <3> DEFINE e == EntryOf(edit[r])
    <3>1. /\ edit[r] \in Edit /\ e \in Entry /\ r \in Requests /\ e.guild = edit[r].guild
          /\ e.action = "CREATE" <=> edit[r].loaded = NoRow
      <4>1. edit[r] \in Edit /\ edit[r].view \in Settings
        BY <2>3, EditOf DEF Record, Active, Committed
      <4>. QED BY <4>1 DEF EntryOf, Edit, Entry
    <3>2. /\ UNCHANGED <<rows, edit>> /\ pc[r] = "saved"
          /\ pc' = [pc EXCEPT ![r] = "recorded"]
          /\ pc \in [Requests -> {"new", "loaded", "saved", "recorded", "done"}]
          /\ history \in Seq(Entry) /\ history' = Append(history, e)
      BY <2>3 DEF Record, TypeOK
    <3>. HIDE DEF e
    <3>3. ASSUME NEW g \in Guilds
          PROVE  /\ rows'[g] = NoRow \/ Creating(g)' # {} => Creations(g)' = {}
                 /\ \A i, j \in Creations(g)' : i = j
                 /\ rows'[g] = NoRow => Creating(g)' = {}
                 /\ \A p, q \in Creating(g)' : p = q
      <4>1. Creating(g)' = Creating(g) \ {r}
        BY <3>2 DEF Creating
      <4>2. CASE e.action = "CREATE" /\ e.guild = g
        <5>1. r \in Creating(g)
          BY <3>1, <3>2, <4>2 DEF Creating
        <5>2. Creations(g) = {} /\ Creating(g)' = {} /\ rows[g] # NoRow
          BY <4>1, <5>1 DEF CreationInv
        <5>3. Creations(g)' = {Len(history) + 1}
          BY <3>1, <3>2, <4>2, <5>2, CreationsAppend
        <5>. QED BY <3>2, <5>2, <5>3
      <4>3. CASE ~(e.action = "CREATE" /\ e.guild = g)
        <5>1. Creations(g)' = Creations(g)
          BY <3>1, <3>2, <4>3, CreationsAppend
        <5>. QED BY <3>2, <4>1, <5>1 DEF CreationInv
      <4>. QED BY <4>2, <4>3
    <3>. QED BY <3>3 DEF CreationInv
  <2>4. ASSUME NEW r \in Requests, Reject(r) \/ Publish(r) \/ RequestFails(r)
        PROVE  CreationInv'
    <3>1. UNCHANGED <<rows, history>> /\ Finished(r)
      BY <2>4 DEF Reject, Publish, RequestFails
    <3>2. \A g \in Guilds : Creating(g)' \subseteq Creating(g)
      BY <3>1 DEF Creating, Finished, TypeOK
    <3>. QED BY <3>1, <3>2, NoCreation
  <2>5. CASE UNCHANGED api
    <3>1. UNCHANGED <<rows, history>> /\ \A g \in Guilds : Creating(g)' \subseteq Creating(g)
      BY <2>5 DEF api, Creating
    <3>. QED BY <3>1, NoCreation
  <2>6. Environment \/ ServiceStep =>
            \/ UNCHANGED api
            \/ \E r \in Requests : RequestFails(r)
            \/ \E r \in Requests, g \in Guilds, view \in Settings \cup {Invalid} :
                   Load(r, g, view)
    BY DEF Environment, ServiceStep, Boot, FetchSnapshot, Clear, Hydrated, Listen,
           Receive, WriteRanking, WritePrefix, FillPrefix, FillRanking,
           HydrationFails, HandlerFails, Crash, EvictKey
  <2>7. UNCHANGED vars => UNCHANGED api
    BY DEF vars, api
  <2>. QED BY <2>1, <2>2, <2>3, <2>4, <2>5, <2>6, <2>7 DEF Next, RequestStep
<1>3. CreationInv => OneCreation
  BY DEF CreationInv, OneCreation
<1>. QED BY <1>1, <1>2, <1>3, TypeCorrect, PTL DEF Spec

------------------------------------------------------------------------------
(***************************************************************************)
(* Coherence.                                                              *)
(***************************************************************************)

\* Settings are told apart by their two keys; settings are shown as they are.
LEMMA SettingsEqual ==
    ASSUME NEW s \in Settings, NEW t \in Settings,
           s.prefix = t.prefix, s.isRankingEnabled = t.isRankingEnabled
    PROVE  s = t
BY DEF Settings

LEMMA ShownSettings ==
    ASSUME NEW s \in Settings
    PROVE  Shown(s) = s
BY NoRowAssumption DEF Shown

\* Handlers, as sets of guilds.
LEMMA HandlingAppend ==
    ASSUME NEW h \in Seq(Handler), NEW x \in Handler
    PROVE  Handling(Append(h, x)) = Handling(h) \cup {x.event.guild}
BY DEF Handling

LEMMA HandlingTail ==
    ASSUME NEW h \in Seq(Handler), h # <<>>
    PROVE  Handling(h) \subseteq {Head(h).event.guild} \cup Handling(Tail(h))
<1>1. ASSUME NEW i \in 1..Len(h)
      PROVE  h[i].event.guild \in {Head(h).event.guild} \cup Handling(Tail(h))
  <2>1. CASE i = 1
    BY <2>1
  <2>2. CASE i # 1
    <3>1. i - 1 \in 1..Len(Tail(h)) /\ Tail(h)[i - 1] = h[i]
      BY <2>2
    <3>. QED BY <3>1 DEF Handling
  <2>. QED BY <2>1, <2>2
<1>. QED BY <1>1 DEF Handling

\* While hydration fills the cache, coherence follows from what it has
\* written and what it has still to write.
LEMMA FilledNext ==
    ASSUME TypeOK', svc' = "filling", SnapshotInStep', FillInStep'
    PROVE  CoherentUnlessLost'
<1> SUFFICES ASSUME NEW g \in Guilds \ raced', Settled(g)'
             PROVE  cache'[g] = Shown(rows[g])'
  BY DEF CoherentUnlessLost
<1>1. <<g, "prefix">> \notin todo' /\ <<g, "ranking">> \notin todo'
  <2>1. \A k \in todo' : k[1] # g
    BY DEF Settled, Hydrating
  <2>. QED BY <2>1
<1>2. g \notin raced' \cup missed' \cup lost' \cup Unsent' \cup Queued(queue)'
  BY DEF Settled, SnapshotInStep
<1>3. snapshot'[g] = Shown(rows[g])'
  BY <1>2 DEF SnapshotInStep
<1>4. /\ cache'[g].prefix = snapshot'[g].prefix
      /\ cache'[g].isRankingEnabled = snapshot'[g].isRankingEnabled
  BY <1>1, <1>2 DEF FillInStep
<1>5. cache'[g] \in Settings /\ snapshot'[g] \in Settings
  BY DEF TypeOK
<1>. QED BY <1>3, <1>4, <1>5, SettingsEqual

\* Steps of the API that send nothing: a guild that becomes exempt in none
\* of the three ways has kept its row.
LEMMA QuietSteps ==
    ASSUME TypeOK, CoherenceInv, raced \subseteq raced', missed' \subseteq lost',
           UNCHANGED <<queue, inflight, svc, snapshot, todo, cache>>,
           \A g \in Guilds : g \notin lost' \cup Unsent' =>
                                g \notin lost \cup Unsent /\ rows'[g] = rows[g],
           \A g \in Guilds : g \notin missed' \cup Unsent' =>
                                g \notin missed \cup Unsent /\ rows'[g] = rows[g],
           EditsInStep'
    PROVE  CoherenceInv'
<1>1. QueueInStep'
  <2>1. \A i \in 1..Len(queue) : queue[i].guild \in Guilds
    BY GuildsOf DEF Queued
  <2>. QED BY <2>1 DEF QueueInStep, CoherenceInv
<1>2. HandlersInStep'
  <2>1. \A i \in 1..Len(inflight) : inflight[i].event.guild \in Guilds
    BY GuildsOf DEF Handling
  <2>2. Queued(queue)' = Queued(queue)
    BY DEF Queued
  <2>. QED BY <2>1, <2>2 DEF HandlersInStep, CoherenceInv
<1>3. SnapshotInStep'
  BY DEF SnapshotInStep, CoherenceInv, Queued, Shown
<1>4. FillInStep'
  BY DEF FillInStep, CoherenceInv, Queued, KeysOf
<1>5. CoherentUnlessLost'
  BY DEF CoherentUnlessLost, CoherenceInv, Settled, Queued, Handling, Hydrating, Shown
<1>. QED BY <1>1, <1>2, <1>3, <1>4, <1>5 DEF CoherenceInv

LEMMA LoadStep ==
    ASSUME TypeOK, CoherenceInv, NEW r \in Requests, NEW g \in Guilds,
           NEW view \in Settings \cup {Invalid}, Load(r, g, view)
    PROVE  CoherenceInv'
<1>1. /\ Active' = Active \cup {r} /\ r \notin Active /\ Committed' = Committed
      /\ r \notin Committed /\ pc'[r] = "loaded"
      /\ edit'[r] = [guild |-> g, loaded |-> rows[g], view |-> view]
      /\ \A s \in Requests : s # r => edit'[s] = edit[s] /\ pc'[s] = pc[s]
  BY DEF Load, TypeOK, Active, Committed
<1>2. Unsent' = Unsent
  BY <1>1 DEF Unsent, Committed
<1>3. EditsInStep'
  <2> SUFFICES ASSUME NEW s \in Active', edit'[s].guild \notin raced'
               PROVE  /\ \A t \in Active' : edit'[t].guild = edit'[s].guild => t = s
                      /\ IF pc'[s] = "loaded" THEN edit'[s].loaded = rows'[edit'[s].guild]
                                              ELSE edit'[s].view = rows'[edit'[s].guild]
    BY DEF EditsInStep
  <2>1. raced' = (IF g \in Editing THEN raced \cup {g} ELSE raced) /\ rows' = rows
    BY DEF Load
  <2>2. CASE s = r
    <3>1. \A t \in Active : edit[t].guild # g
      BY <1>1, <2>1, <2>2 DEF Editing
    <3>. QED BY <1>1, <2>1, <2>2, <3>1 DEF Active
  <2>3. CASE s # r
    <3>1. s \in Active /\ edit[s].guild \notin raced
      BY <1>1, <2>1, <2>3 DEF Active
    <3>2. edit[s].guild # g
      BY <1>1, <2>1, <2>3, <3>1 DEF Editing, Active
    <3>. QED BY <1>1, <2>1, <2>3, <3>1, <3>2 DEF EditsInStep, CoherenceInv, Active
  <2>. QED BY <2>2, <2>3
<1>4. missed' \subseteq lost' /\ UNCHANGED <<lost, missed, rows>> /\ raced \subseteq raced'
  BY DEF Load, CoherenceInv, SnapshotInStep
<1>. QED BY <1>2, <1>3, <1>4, QuietSteps DEF Load, proc

\* What saving a record that nobody else has touched leaves in the table is
\* what the request announces.
LEMMA SavedAsViewed ==
    ASSUME NEW e \in Edit, e.view \in Settings, ~Conflicts(e), e.loaded = rows[e.guild]
    PROVE  SavedRow(rows[e.guild], e) = e.view
<1>1. CASE e.loaded = NoRow
  BY <1>1 DEF SavedRow
<1>2. CASE e.loaded # NoRow
  <2>1. e.loaded \in Settings
    BY <1>2 DEF Edit, Row
  <2>2. SavedRow(rows[e.guild], e) = [prefix |-> e.view.prefix,
                                      isRankingEnabled |-> e.view.isRankingEnabled]
    BY <1>2 DEF SavedRow
  <2>. QED BY <2>1, <2>2 DEF Settings
<1>. QED BY <1>1, <1>2

LEMMA SaveStep ==
    ASSUME TypeOK, CoherenceInv, NEW r \in Requests, Save(r)
    PROVE  CoherenceInv'
<1>. PICK g \in Guilds : g = edit[r].guild
  BY EditOf DEF Save, Active
<1>1. /\ r \in Active /\ Active' = Active /\ edit' = edit /\ pc[r] = "loaded"
      /\ Committed' = Committed \cup {r} /\ pc'[r] = "saved"
      /\ \A s \in Requests : s # r => pc'[s] = pc[s]
      /\ edit[r] \in Edit /\ edit[r].view \in Settings
  BY EditOf DEF Save, TypeOK, Active, Committed
<1>2. /\ rows'[g] = SavedRow(rows[g], edit[r])
      /\ \A x \in Guilds : x # g => rows'[x] = rows[x]
      /\ lost' = lost \ {g} /\ missed' = missed \ {g} /\ raced' = raced
  BY DEF Save, TypeOK
<1>3. Unsent' = Unsent \cup {g}
  BY <1>1 DEF Unsent
<1>4. EditsInStep'
  <2> SUFFICES ASSUME NEW s \in Active, edit[s].guild \notin raced
               PROVE  /\ \A t \in Active : edit[t].guild = edit[s].guild => t = s
                      /\ IF pc'[s] = "loaded" THEN edit[s].loaded = rows'[edit[s].guild]
                                              ELSE edit[s].view = rows'[edit[s].guild]
    BY <1>1, <1>2 DEF EditsInStep
  <2>1. \A t \in Active : edit[t].guild = edit[s].guild => t = s
    BY DEF EditsInStep, CoherenceInv
  <2>2. CASE s = r
    <3>1. edit[r].loaded = rows[g]
      BY <1>1, <2>2 DEF EditsInStep, CoherenceInv
    <3>2. rows'[g] = edit[r].view
      BY <1>1, <1>2, <3>1, SavedAsViewed DEF Save
    <3>. QED BY <1>1, <2>1, <2>2, <3>2
  <2>3. CASE s # r
    <3>1. edit[s].guild # g /\ edit[s].guild \in Guilds
      BY <1>1, <2>1, <2>3, EditOf
    <3>. QED BY <1>1, <1>2, <2>1, <2>3, <3>1 DEF EditsInStep, CoherenceInv, Active
  <2>. QED BY <2>2, <2>3
<1>5. missed' \subseteq lost'
  BY <1>2 DEF CoherenceInv, SnapshotInStep
<1>. QED BY <1>2, <1>3, <1>4, <1>5, QuietSteps DEF Save, proc

\* A request that is over takes its edit with it; what others hold stays.
LEMMA FinishedEdits ==
    ASSUME TypeOK, CoherenceInv, NEW r \in Active, NEW g \in Guilds, g = edit[r].guild,
           Finished(r), UNCHANGED <<rows, raced>>
    PROVE  EditsInStep' /\ Unsent \subseteq Unsent' \cup {g}
<1>1. /\ r \in Requests /\ Active' = Active \ {r} /\ Committed' = Committed \ {r}
      /\ \A s \in Requests : s # r => edit'[s] = edit[s] /\ pc'[s] = pc[s]
  BY DEF Finished, TypeOK, Active, Committed
<1>2. EditsInStep'
  BY <1>1 DEF EditsInStep, CoherenceInv, Active
<1>3. Unsent \subseteq Unsent' \cup {g}
  BY <1>1 DEF Unsent, Committed
<1>. QED BY <1>2, <1>3

LEMMA RejectStep ==
    ASSUME TypeOK, CoherenceInv, NEW r \in Requests, Reject(r)
    PROVE  CoherenceInv'
<1>. PICK g \in Guilds : g = edit[r].guild
  BY EditOf DEF Reject, Active
<1>1. EditsInStep'
  BY FinishedEdits DEF Reject, Active
<1>2. Committed' = Committed /\ r \notin Committed
      /\ \A s \in Requests : s # r => edit'[s] = edit[s]
  BY DEF Reject, Finished, Committed, TypeOK
<1>3. Unsent' = Unsent
  BY <1>2 DEF Unsent, Committed
<1>4. missed' \subseteq lost' /\ UNCHANGED <<lost, missed, rows, raced>>
  BY DEF Reject, CoherenceInv, SnapshotInStep
<1>. QED BY <1>1, <1>3, <1>4, QuietSteps DEF Reject, proc

LEMMA RecordStep ==
    ASSUME TypeOK, CoherenceInv, NEW r \in Requests, Record(r)
    PROVE  CoherenceInv'
<1>1. /\ Active' = Active /\ Committed' = Committed /\ edit' = edit
      /\ pc[r] = "saved" /\ pc'[r] = "recorded"
      /\ \A s \in Requests : s # r => pc'[s] = pc[s]
  BY DEF Record, TypeOK, Active, Committed
<1>2. EditsInStep'
  <2>1. UNCHANGED <<rows, raced>>
    BY DEF Record
  <2>. QED BY <1>1, <2>1 DEF EditsInStep, CoherenceInv, Active
<1>3. Unsent' = Unsent
  BY <1>1 DEF Unsent
<1>4. missed' \subseteq lost' /\ UNCHANGED <<lost, missed, rows, raced>>
  BY DEF Record, CoherenceInv, SnapshotInStep
<1>. QED BY <1>2, <1>3, <1>4, QuietSteps DEF Record, proc

\* The change is lost for the cache, until a hydration that reads the table.
LEMMA UnannouncedStep ==
    ASSUME TypeOK, CoherenceInv, NEW r \in Requests,
           RequestFails(r) \/ (Publish(r) /\ ~bound)
    PROVE  CoherenceInv'
<1>. PICK g \in Guilds : g = edit[r].guild
  BY EditOf DEF RequestFails, Publish, Active
<1>1. /\ Finished(r) /\ r \in Active
      /\ lost' = lost \cup {g} /\ missed' = missed \cup {g}
      /\ UNCHANGED <<rows, raced, queue, proc, inflight, cache>>
  BY DEF RequestFails, Publish, Active
<1>2. EditsInStep' /\ Unsent \subseteq Unsent' \cup {g}
  BY <1>1, FinishedEdits
<1>3. missed' \subseteq lost'
  BY <1>1 DEF CoherenceInv, SnapshotInStep
<1>. QED BY <1>1, <1>2, <1>3, QuietSteps DEF proc

LEMMA PublishStep ==
    ASSUME TypeOK, CoherenceInv, NEW r \in Requests, Publish(r), bound
    PROVE  CoherenceInv'
<1>. PICK g \in Guilds : g = edit[r].guild
  BY EditOf DEF Publish, Active
<1>. PICK e \in Event : e = EventOf(edit[r])
  <2>1. edit[r] \in Edit /\ edit[r].view \in Settings
    BY EditOf DEF Publish, Active, Committed
  <2>. QED BY <2>1 DEF EventOf, Edit, Event
<1>1. /\ Finished(r) /\ r \in Active
      /\ queue \in Seq(Event) /\ queue' = Append(queue, e)
      /\ e.guild = g /\ e.data = edit[r].view
      /\ UNCHANGED <<rows, raced, lost, missed, svc, snapshot, todo, inflight, cache>>
  BY DEF Publish, Active, EventOf, TypeOK, proc
<1>2. EditsInStep' /\ Unsent \subseteq Unsent' \cup {g}
  BY <1>1, FinishedEdits
<1>3. Queued(queue)' = Queued(queue) \cup {g}
  BY <1>1, QueuedAppend
<1>4. QueueInStep'
  <2> SUFFICES ASSUME NEW i \in 1..Len(queue'),
                      queue'[i].guild \notin raced \cup lost \cup Unsent',
                      \A j \in (i + 1)..Len(queue') : queue'[j].guild # queue'[i].guild
               PROVE  queue'[i].data = rows[queue'[i].guild]
    BY <1>1 DEF QueueInStep
  <2>1. /\ Len(queue') = Len(queue) + 1 /\ queue'[Len(queue) + 1] = e
        /\ \A j \in 1..Len(queue) : queue'[j] = queue[j]
    BY <1>1
  <2>2. CASE i = Len(queue) + 1
    <3>1. g \notin raced /\ pc[r] = "recorded"
      BY <1>1, <2>1, <2>2 DEF Publish
    <3>2. edit[r].view = rows[g]
      BY <1>1, <3>1 DEF EditsInStep, CoherenceInv
    <3>. QED BY <1>1, <2>1, <2>2, <3>2
  <2>3. CASE i # Len(queue) + 1
    <3>1. i \in 1..Len(queue) /\ Len(queue) + 1 \in (i + 1)..Len(queue')
      BY <1>1, <2>1, <2>3
    <3>2. queue[i].guild # g
      BY <1>1, <2>1, <3>1
    <3>3. queue[i].guild \notin raced \cup lost \cup Unsent
      BY <1>2, <2>1, <3>1, <3>2
    <3>4. \A j \in (i + 1)..Len(queue) : queue[j].guild # queue[i].guild
      BY <1>1, <2>1, <3>1
    <3>. QED BY <2>1, <3>1, <3>3, <3>4 DEF QueueInStep, CoherenceInv
  <2>. QED BY <2>2, <2>3
<1>5. HandlersInStep'
  BY <1>1, <1>2, <1>3 DEF HandlersInStep, CoherenceInv
<1>6. SnapshotInStep'
  BY <1>1, <1>2, <1>3 DEF SnapshotInStep, CoherenceInv, Shown
<1>7. FillInStep'
  BY <1>1, <1>2, <1>3 DEF FillInStep, CoherenceInv, KeysOf
<1>8. CoherentUnlessLost'
  BY <1>1, <1>2, <1>3 DEF CoherentUnlessLost, CoherenceInv, Settled, Handling, Hydrating, Shown
<1>. QED BY <1>2, <1>4, <1>5, <1>6, <1>7, <1>8 DEF CoherenceInv

\* The ghosts of the API are the API's.
LEMMA ApiUnchanged ==
    ASSUME UNCHANGED api, CoherenceInv
    PROVE  EditsInStep' /\ Unsent' = Unsent
BY DEF api, CoherenceInv, EditsInStep, Active, Unsent, Committed

\* Steps of the worker that write nothing to the cache.
LEMMA WorkerSteps ==
    ASSUME TypeOK, CoherenceInv, Boot \/ FetchSnapshot \/ Hydrated \/ Listen
    PROVE  CoherenceInv'
<1>1. /\ EditsInStep' /\ Unsent' = Unsent
      /\ UNCHANGED <<rows, raced, queue, inflight, todo, cache, lost>>
  BY ApiUnchanged DEF Boot, FetchSnapshot, Hydrated, Listen, api
<1>2. /\ svc # "listening" /\ svc' # "filling"
      /\ svc' \in {"clearing", "filling"} => FetchSnapshot
      /\ missed' \subseteq missed
  BY DEF Boot, FetchSnapshot, Hydrated, Listen
<1>3. inflight = <<>> /\ missed' \subseteq lost'
  BY <1>1, <1>2 DEF CoherenceInv, HandlersInStep, SnapshotInStep
<1>4. QueueInStep'
  BY <1>1 DEF QueueInStep, CoherenceInv
<1>5. HandlersInStep'
  BY <1>1, <1>3 DEF HandlersInStep
<1>6. SnapshotInStep'
  <2>1. FetchSnapshot => \A g \in Guilds : snapshot'[g] = Shown(rows'[g])
    BY <1>1 DEF FetchSnapshot
  <2>. QED BY <1>2, <1>3, <2>1 DEF SnapshotInStep, Shown
<1>7. FillInStep'
  <2>1. todo = {}
    <3>1. CASE Hydrated
      BY <3>1 DEF Hydrated
    <3>2. CASE ~Hydrated
      <4>1. svc # "filling"
        BY <3>2 DEF Boot, FetchSnapshot, Listen
      <4>. QED BY <4>1 DEF CoherenceInv, FillInStep
    <3>. QED BY <3>1, <3>2
  <2>. QED BY <1>1, <1>2, <2>1 DEF FillInStep
<1>8. CoherentUnlessLost'
  BY <1>1 DEF CoherentUnlessLost, CoherenceInv, Settled, Queued, Handling, Hydrating, Shown
<1>. QED BY <1>1, <1>4, <1>5, <1>6, <1>7, <1>8 DEF CoherenceInv

\* Clearing: what was missed stays lost, the rest is as the snapshot.
LEMMA ClearStep ==
    ASSUME TypeOK, TypeOK', CoherenceInv, Clear
    PROVE  CoherenceInv'
<1>1. /\ EditsInStep' /\ Unsent' = Unsent
      /\ UNCHANGED <<rows, raced, queue, inflight, snapshot, missed>>
      /\ todo' = KeysOf(snapshot) /\ svc = "clearing" /\ svc' = "filling"
      /\ lost' = {g \in lost : g \in missed \cup Queued(queue)}
      /\ cache' = [g \in Guilds |-> Default]
  BY ApiUnchanged DEF Clear, Cleared, api
<1>2. inflight = <<>> /\ missed' \subseteq lost'
  BY <1>1 DEF CoherenceInv, HandlersInStep, SnapshotInStep
<1>3. QueueInStep'
  <2>1. \A i \in 1..Len(queue) : queue[i].guild \in Queued(queue)
    BY DEF Queued
  <2>. QED BY <1>1, <2>1 DEF QueueInStep, CoherenceInv
<1>4. HandlersInStep'
  BY <1>1, <1>2 DEF HandlersInStep
<1>5. SnapshotInStep'
  BY <1>1, <1>2 DEF SnapshotInStep, CoherenceInv, Queued, Shown
<1>6. FillInStep'
  <2>1. \A g \in Guilds :
           /\ <<g, "prefix">> \notin KeysOf(snapshot) => snapshot[g].prefix = NoPrefix
           /\ <<g, "ranking">> \notin KeysOf(snapshot) => snapshot[g].isRankingEnabled = FALSE
    BY DEF KeysOf, TypeOK, Settings
  <2>2. \A g \in Guilds : cache'[g].prefix = NoPrefix /\ cache'[g].isRankingEnabled = FALSE
    BY <1>1 DEF Default
  <2>. QED BY <1>1, <2>1, <2>2 DEF FillInStep, KeysOf
<1>7. CoherentUnlessLost'
  BY <1>1, <1>5, <1>6, FilledNext
<1>. QED BY <1>1, <1>3, <1>4, <1>5, <1>6, <1>7 DEF CoherenceInv

\* Writing one key of the snapshot.
LEMMA FillSteps ==
    ASSUME TypeOK, TypeOK', CoherenceInv, NEW g \in Guilds, FillPrefix(g) \/ FillRanking(g)
    PROVE  CoherenceInv'
<1>1. /\ EditsInStep' /\ Unsent' = Unsent
      /\ UNCHANGED <<rows, raced, queue, inflight, snapshot, missed, lost>>
      /\ svc = "filling" /\ svc' = "filling"
  BY ApiUnchanged DEF FillPrefix, FillRanking, api
<1>2. inflight = <<>> /\ missed' \subseteq lost'
  BY <1>1 DEF CoherenceInv, HandlersInStep, SnapshotInStep
<1>3. QueueInStep'
  BY <1>1 DEF QueueInStep, CoherenceInv
<1>4. HandlersInStep'
  BY <1>1, <1>2 DEF HandlersInStep
<1>5. SnapshotInStep'
  BY <1>1, <1>2 DEF SnapshotInStep, CoherenceInv, Queued, Shown
<1>6. FillInStep'
  <2>1. /\ todo \subseteq KeysOf(snapshot) /\ todo' \subseteq todo
        /\ \A x \in Guilds : x # g => cache'[x] = cache[x]
        /\ \A k \in todo : k[1] # g => k \in todo'
        /\ Queued(queue)' = Queued(queue) /\ KeysOf(snapshot)' = KeysOf(snapshot)
    BY <1>1 DEF FillPrefix, FillRanking, CoherenceInv, FillInStep, TypeOK, Queued, KeysOf
  <2>2. CASE FillPrefix(g)
    <3>1. /\ todo' = todo \ {<<g, "prefix">>}
          /\ cache'[g].prefix = snapshot[g].prefix
          /\ cache'[g].isRankingEnabled = cache[g].isRankingEnabled
      BY <2>2 DEF FillPrefix, TypeOK, Settings
    <3>2. \A x \in Guilds : /\ <<x, "ranking">> \in todo' <=> <<x, "ranking">> \in todo
                            /\ x # g => (<<x, "prefix">> \in todo' <=> <<x, "prefix">> \in todo)
      BY <3>1
    <3>. QED BY <1>1, <2>1, <3>1, <3>2 DEF FillInStep, CoherenceInv
  <2>3. CASE FillRanking(g)
    <3>1. /\ todo' = todo \ {<<g, "ranking">>} /\ <<g, "ranking">> \in todo
          /\ cache'[g].prefix = cache[g].prefix
          /\ cache'[g].isRankingEnabled = TRUE
      BY <2>3 DEF FillRanking, TypeOK, Settings
    <3>2. \A x \in Guilds : /\ <<x, "prefix">> \in todo' <=> <<x, "prefix">> \in todo
                            /\ x # g => (<<x, "ranking">> \in todo' <=> <<x, "ranking">> \in todo)
      BY <3>1
    <3>3. snapshot[g].isRankingEnabled = TRUE
      <4>1. <<g, "ranking">> \in KeysOf(snapshot)
        BY <2>1, <3>1
      <4>2. snapshot[g].isRankingEnabled
        BY <4>1 DEF KeysOf
      <4>. QED BY <4>2 DEF TypeOK, Settings
    <3>. QED BY <1>1, <2>1, <3>1, <3>2, <3>3 DEF FillInStep, CoherenceInv
  <2>. QED BY <2>2, <2>3
<1>7. CoherentUnlessLost'
  BY <1>1, <1>5, <1>6, FilledNext
<1>. QED BY <1>1, <1>3, <1>4, <1>5, <1>6, <1>7 DEF CoherenceInv

\* Hydration that fails half way loses what it had still to write.
LEMMA HydrationFailsStep ==
    ASSUME TypeOK, CoherenceInv, HydrationFails
    PROVE  CoherenceInv'
<1>1. /\ EditsInStep' /\ Unsent' = Unsent
      /\ UNCHANGED <<rows, raced, queue, inflight, cache>>
      /\ svc # "listening" /\ svc' \notin {"clearing", "filling"} /\ todo' = {}
  BY ApiUnchanged DEF HydrationFails, api
<1>2. /\ inflight = <<>> /\ missed' \subseteq lost' /\ lost \subseteq lost'
      /\ Handling(inflight) = {}
      /\ lost' = lost \cup (Hydrating \ (Queued(queue) \cup Unsent \cup Handling(inflight)))
  BY <1>1 DEF HydrationFails, Lose, CoherenceInv, HandlersInStep, SnapshotInStep, Handling
<1>3. QueueInStep'
  BY <1>1, <1>2 DEF QueueInStep, CoherenceInv
<1>4. HandlersInStep'
  BY <1>1, <1>2 DEF HandlersInStep
<1>5. SnapshotInStep' /\ FillInStep'
  BY <1>1, <1>2 DEF SnapshotInStep, FillInStep
<1>6. CoherentUnlessLost'
  <2> SUFFICES ASSUME NEW g \in Guilds \ raced, Settled(g)'
               PROVE  cache[g] = Shown(rows[g])
    BY <1>1 DEF CoherentUnlessLost, Shown
  <2>1. g \notin lost' \cup Unsent \cup Queued(queue)
    BY <1>1 DEF Settled, Queued
  <2>2. Settled(g)
    BY <1>2, <2>1 DEF Settled
  <2>. QED BY <2>2 DEF CoherentUnlessLost, CoherenceInv
<1>. QED BY <1>1, <1>3, <1>4, <1>5, <1>6 DEF CoherenceInv

\* The consumer takes the oldest event: if no younger one of its guild is
\* queued, its handler carries the row.
LEMMA ReceiveStep ==
    ASSUME TypeOK, CoherenceInv, Receive
    PROVE  CoherenceInv'
<1>. PICK e \in Event : e = Head(queue)
  BY DEF Receive, TypeOK
<1>1. /\ EditsInStep' /\ Unsent' = Unsent
      /\ UNCHANGED <<rows, raced, cache, lost, missed, svc, todo, snapshot>>
      /\ svc = "listening"
      /\ queue \in Seq(Event) /\ queue # <<>> /\ queue' = Tail(queue)
      /\ inflight \in Seq(Handler)
      /\ inflight' = Append(inflight, [event |-> e, step |-> "prefix"])
  BY ApiUnchanged DEF Receive, api, proc, TypeOK
<1>2. /\ Queued(queue) = {e.guild} \cup Queued(queue)'
      /\ Handling(inflight)' = Handling(inflight) \cup {e.guild}
  <2>1. Queued(queue') = Queued(queue)' /\ Handling(inflight') = Handling(inflight)'
    BY DEF Queued, Handling
  <2>2. Queued(queue) = {e.guild} \cup Queued(queue')
    BY <1>1, QueuedTail
  <2>3. Handling(inflight') = Handling(inflight) \cup {e.guild}
    <3>1. [event |-> e, step |-> "prefix"] \in Handler
      BY DEF Handler
    <3>. QED BY <1>1, <3>1, HandlingAppend
  <2>. QED BY <2>1, <2>2, <2>3
<1>3. /\ Len(queue) \in Nat /\ Len(queue') = Len(queue) - 1 /\ queue[1] = e /\ Len(queue) > 0
      /\ \A i \in 1..Len(queue') : queue'[i] = queue[i + 1] /\ i + 1 \in 1..Len(queue)
  BY <1>1
<1>4. QueueInStep'
  <2> SUFFICES ASSUME NEW i \in 1..Len(queue'),
                      queue'[i].guild \notin raced \cup lost \cup Unsent,
                      \A j \in (i + 1)..Len(queue') : queue'[j].guild # queue'[i].guild
               PROVE  queue'[i].data = rows[queue'[i].guild]
    BY <1>1 DEF QueueInStep
  <2>1. ASSUME NEW j \in (i + 2)..Len(queue)
        PROVE  queue[j].guild # queue[i + 1].guild
    <3>1. j - 1 \in (i + 1)..Len(queue') /\ (j - 1) + 1 = j
      BY <1>3
    <3>. QED BY <1>3, <3>1
  <2>2. \A j \in ((i + 1) + 1)..Len(queue) : queue[j].guild # queue[i + 1].guild
    BY <2>1
  <2>. QED BY <1>3, <2>2 DEF QueueInStep, CoherenceInv
<1>5. HandlersInStep'
  <2>1. /\ Len(inflight) \in Nat /\ Len(inflight') = Len(inflight) + 1
        /\ \A i \in 1..Len(inflight) : inflight'[i] = inflight[i]
        /\ inflight'[Len(inflight) + 1] = [event |-> e, step |-> "prefix"]
    BY <1>1
  <2>2. \A i, j \in 1..Len(inflight') :
            i < j /\ inflight'[j].step = "ranking" => inflight'[i].step = "ranking"
    <3> SUFFICES ASSUME NEW i \in 1..Len(inflight'), NEW j \in 1..Len(inflight'),
                        i < j, inflight'[j].step = "ranking"
                 PROVE  inflight'[i].step = "ranking"
      OBVIOUS
    <3>1. i \in 1..Len(inflight) /\ j \in 1..Len(inflight)
      BY <2>1
    <3>. QED BY <2>1, <3>1 DEF HandlersInStep, CoherenceInv
  <2>3. ASSUME NEW i \in 1..Len(inflight'),
               inflight'[i].event.guild \notin raced \cup lost \cup Unsent \cup Queued(queue)',
               \A j \in (i + 1)..Len(inflight') :
                   inflight'[j].event.guild # inflight'[i].event.guild
        PROVE  /\ inflight'[i].event.data = rows[inflight'[i].event.guild]
               /\ inflight'[i].step = "ranking" =>
                      cache[inflight'[i].event.guild].prefix = rows[inflight'[i].event.guild].prefix
    <3>1. CASE i = Len(inflight) + 1
      <4>1. e.guild \notin Queued(queue)' /\ e.guild \notin raced \cup lost \cup Unsent
        BY <2>1, <2>3, <3>1
      <4>2. ASSUME NEW j \in 2..Len(queue)
            PROVE  queue[j].guild # e.guild
        <5>1. j - 1 \in 1..Len(queue') /\ queue'[j - 1] = queue[j]
          BY <1>3
        <5>. QED BY <4>1, <5>1 DEF Queued
      <4>3. 1 \in 1..Len(queue) /\ \A j \in (1 + 1)..Len(queue) : queue[j].guild # queue[1].guild
        BY <1>3, <4>2
      <4>4. e.data = rows[e.guild]
        BY <1>3, <4>1, <4>3 DEF QueueInStep, CoherenceInv
      <4>. QED BY <2>1, <3>1, <4>4
    <3>2. CASE i # Len(inflight) + 1
      <4>1. i \in 1..Len(inflight) /\ Len(inflight) + 1 \in (i + 1)..Len(inflight')
        BY <2>1, <3>2
      <4>2. inflight[i].event.guild # e.guild
        BY <2>1, <2>3, <4>1
      <4>3. /\ inflight[i].event.guild \notin raced \cup lost \cup Unsent \cup Queued(queue)
            /\ \A j \in (i + 1)..Len(inflight) :
                   inflight[j].event.guild # inflight[i].event.guild
        BY <1>2, <2>1, <2>3, <4>1, <4>2
      <4>. QED BY <2>1, <4>1, <4>3 DEF HandlersInStep, CoherenceInv
    <3>. QED BY <3>1, <3>2
  <2>. QED BY <1>1, <2>2, <2>3 DEF HandlersInStep
<1>6. SnapshotInStep' /\ FillInStep'
  BY <1>1 DEF SnapshotInStep, FillInStep, CoherenceInv
<1>7. CoherentUnlessLost'
  <2> SUFFICES ASSUME NEW g \in Guilds \ raced, Settled(g)'
               PROVE  cache[g] = Shown(rows[g])
    BY <1>1 DEF CoherentUnlessLost, Shown
  <2>1. Hydrating' = Hydrating
    BY <1>1 DEF Hydrating
  <2>2. Settled(g)
    BY <1>1, <1>2, <2>1 DEF Settled
  <2>. QED BY <2>2 DEF CoherentUnlessLost, CoherenceInv
<1>. QED BY <1>1, <1>4, <1>5, <1>6, <1>7 DEF CoherenceInv

\* What is left alone when only handlers and their keys change while the
\* consumer listens.
LEMMA ListeningSteps ==
    ASSUME CoherenceInv, svc = "listening", UNCHANGED <<api, queue, svc, todo>>,
           lost \subseteq lost', missed' \subseteq lost'
    PROVE  EditsInStep' /\ QueueInStep' /\ SnapshotInStep' /\ FillInStep'
<1>1. EditsInStep' /\ Unsent' = Unsent /\ UNCHANGED <<rows, raced>>
  BY ApiUnchanged DEF api
<1>2. QueueInStep'
  BY <1>1 DEF QueueInStep, CoherenceInv
<1>. QED BY <1>1, <1>2 DEF SnapshotInStep, FillInStep, CoherenceInv

\* The prefix of a guild's youngest handler is the row's.
LEMMA WritePrefixStep ==
    ASSUME TypeOK, CoherenceInv, NEW i \in 1..Len(inflight), WritePrefix(i)
    PROVE  CoherenceInv'
<1>. PICK e \in Event : e = inflight[i].event
  <2>1. inflight[i] \in Handler
    BY DEF TypeOK
  <2>. QED BY <2>1 DEF Handler
<1>1. /\ inflight \in Seq(Handler) /\ inflight[i].step = "prefix"
      /\ Len(inflight') = Len(inflight) /\ Len(inflight) \in Nat
      /\ \A k \in 1..Len(inflight) : k # i => inflight'[k] = inflight[k]
      /\ inflight'[i].event = e /\ inflight'[i].step = "ranking"
      /\ \A k \in 1..(i - 1) : inflight[k].step # "prefix"
  BY DEF WritePrefix, Turn, TypeOK, Handler
<1>2. /\ UNCHANGED <<api, queue, svc, todo, lost, missed>> /\ svc = "listening"
      /\ missed' \subseteq lost' /\ UNCHANGED <<rows, raced>> /\ Unsent' = Unsent
      /\ Queued(queue)' = Queued(queue)
  <2>1. UNCHANGED <<api, queue, svc, todo, lost, missed>> /\ missed \subseteq lost
    BY DEF WritePrefix, proc, CoherenceInv, SnapshotInStep
  <2>2. inflight # <<>>
    BY <1>1
  <2>3. svc = "listening"
    BY <2>2 DEF CoherenceInv, HandlersInStep
  <2>4. UNCHANGED <<rows, raced>> /\ Unsent' = Unsent
    BY <2>1, ApiUnchanged DEF api
  <2>. QED BY <2>1, <2>3, <2>4 DEF Queued
<1>3. /\ cache'[e.guild].prefix = e.data.prefix /\ e.guild \in Guilds
      /\ \A g \in Guilds : g # e.guild => cache'[g] = cache[g]
  <2>1. e.guild \in Guilds
    BY DEF Event
  <2>. QED BY <2>1, WritePrefixCache
<1>4. EditsInStep' /\ QueueInStep' /\ SnapshotInStep' /\ FillInStep'
  BY <1>2, ListeningSteps
<1>5. /\ \A k \in 1..Len(inflight) : inflight'[k].event = inflight[k].event
      /\ Handling(inflight)' = Handling(inflight)
  <2>1. \A k \in 1..Len(inflight) : inflight'[k].event = inflight[k].event
    BY <1>1
  <2>. QED BY <1>1, <2>1 DEF Handling
<1>6. HandlersInStep'
  <2>1. ASSUME NEW j \in 1..Len(inflight), NEW k \in 1..Len(inflight),
               j < k, inflight'[k].step = "ranking"
        PROVE  inflight'[j].step = "ranking"
    <3>1. CASE j = i
      BY <1>1, <3>1
    <3>2. CASE j # i /\ k = i
      <4>1. j \in 1..(i - 1) /\ inflight[j] \in Handler
        BY <1>1, <2>1, <3>2
      <4>2. inflight[j].step = "ranking"
        BY <1>1, <4>1 DEF Handler
      <4>. QED BY <1>1, <3>2, <4>2
    <3>3. CASE j # i /\ k # i
      BY <1>1, <2>1, <3>3 DEF HandlersInStep, CoherenceInv
    <3>. QED BY <3>1, <3>2, <3>3
  <2>2. ASSUME NEW k \in 1..Len(inflight),
               inflight[k].event.guild \notin raced \cup lost \cup Unsent \cup Queued(queue),
               \A j \in (k + 1)..Len(inflight) :
                   inflight[j].event.guild # inflight[k].event.guild
        PROVE  /\ inflight[k].event.data = rows[inflight[k].event.guild]
               /\ inflight'[k].step = "ranking" =>
                      cache'[inflight[k].event.guild].prefix = rows[inflight[k].event.guild].prefix
    <3>1. /\ inflight[k].event.data = rows[inflight[k].event.guild]
          /\ inflight[k].step = "ranking" =>
                 cache[inflight[k].event.guild].prefix = rows[inflight[k].event.guild].prefix
      BY <2>2 DEF HandlersInStep, CoherenceInv
    <3>2. CASE k = i
      BY <1>3, <3>1, <3>2
    <3>3. CASE k # i /\ inflight[k].event.guild = e.guild
      <4>1. i < k
        <5>1. ~(k < i)
          BY <2>2, <3>3
        <5>. QED BY <3>3, <5>1
      <4>2. inflight[k].step # "ranking"
        BY <1>1, <4>1 DEF HandlersInStep, CoherenceInv
      <4>. QED BY <1>1, <3>1, <3>3, <4>2
    <3>4. CASE k # i /\ inflight[k].event.guild # e.guild
      <4>1. inflight[k].event.guild \in Guilds
        BY GuildsOf DEF Handling
      <4>. QED BY <1>1, <1>3, <3>1, <3>4, <4>1
    <3>. QED BY <3>2, <3>3, <3>4
  <2>. QED BY <1>1, <1>2, <1>5, <2>1, <2>2 DEF HandlersInStep
<1>7. CoherentUnlessLost'
  <2> SUFFICES ASSUME NEW g \in Guilds \ raced, Settled(g)'
               PROVE  cache'[g] = Shown(rows[g])
    BY <1>2 DEF CoherentUnlessLost, Shown
  <2>1. Settled(g) /\ g \notin Handling(inflight)
    BY <1>2, <1>5 DEF Settled, Hydrating
  <2>2. g # e.guild
    BY <2>1 DEF Handling
  <2>. QED BY <1>3, <2>1, <2>2 DEF CoherentUnlessLost, CoherenceInv
<1>. QED BY <1>4, <1>6, <1>7 DEF CoherenceInv

\* The flag of the oldest handler: if no younger one has its guild, both keys
\* are now the row's.
LEMMA WriteRankingStep ==
    ASSUME TypeOK, TypeOK', CoherenceInv, WriteRanking
    PROVE  CoherenceInv'
<1>. PICK e \in Event : e = Head(inflight).event
  <2>1. Head(inflight) \in Handler
    BY DEF TypeOK, WriteRanking
  <2>. QED BY <2>1 DEF Handler
<1>1. /\ inflight \in Seq(Handler) /\ inflight # <<>> /\ inflight' = Tail(inflight)
      /\ Len(inflight) \in Nat /\ Len(inflight) > 0 /\ Len(inflight') = Len(inflight) - 1
      /\ inflight[1].event = e /\ inflight[1].step = "ranking"
      /\ \A k \in 1..Len(inflight') : inflight'[k] = inflight[k + 1] /\ k + 1 \in 1..Len(inflight)
  BY DEF WriteRanking, Turn, TypeOK
<1>2. /\ UNCHANGED <<api, queue, svc, todo, lost, missed>> /\ svc = "listening"
      /\ missed' \subseteq lost' /\ UNCHANGED <<rows, raced>> /\ Unsent' = Unsent
      /\ Queued(queue)' = Queued(queue)
  <2>1. UNCHANGED <<api, queue, svc, todo, lost, missed>> /\ missed \subseteq lost
    BY DEF WriteRanking, proc, CoherenceInv, SnapshotInStep
  <2>2. svc = "listening"
    BY <1>1 DEF CoherenceInv, HandlersInStep
  <2>3. UNCHANGED <<rows, raced>> /\ Unsent' = Unsent
    BY <2>1, ApiUnchanged DEF api
  <2>. QED BY <2>1, <2>2, <2>3 DEF Queued
<1>3. /\ cache'[e.guild].isRankingEnabled = e.data.isRankingEnabled /\ e.guild \in Guilds
      /\ \A g \in Guilds : /\ cache'[g].prefix = cache[g].prefix
                           /\ g # e.guild => cache'[g] = cache[g]
  <2>1. e.guild \in Guilds
    BY DEF Event
  <2>. QED BY <2>1, WriteRankingCache
<1>4. EditsInStep' /\ QueueInStep' /\ SnapshotInStep' /\ FillInStep'
  BY <1>2, ListeningSteps
<1>5. HandlersInStep'
  <2>1. ASSUME NEW j \in 1..Len(inflight'), NEW k \in 1..Len(inflight'),
               j < k, inflight'[k].step = "ranking"
        PROVE  inflight'[j].step = "ranking"
    <3>1. j + 1 < k + 1 /\ inflight[k + 1].step = "ranking"
      BY <1>1, <2>1
    <3>2. inflight[j + 1].step = "ranking"
      BY <1>1, <3>1 DEF HandlersInStep, CoherenceInv
    <3>. QED BY <1>1, <3>2
  <2>2. ASSUME NEW k \in 1..Len(inflight'),
               inflight'[k].event.guild \notin raced \cup lost \cup Unsent \cup Queued(queue),
               \A j \in (k + 1)..Len(inflight') :
                   inflight'[j].event.guild # inflight'[k].event.guild
        PROVE  /\ inflight'[k].event.data = rows[inflight'[k].event.guild]
               /\ inflight'[k].step = "ranking" =>
                      cache'[inflight'[k].event.guild].prefix = rows[inflight'[k].event.guild].prefix
    <3>1. ASSUME NEW j \in ((k + 1) + 1)..Len(inflight)
          PROVE  inflight[j].event.guild # inflight[k + 1].event.guild
      <4>1. j - 1 \in (k + 1)..Len(inflight') /\ (j - 1) + 1 = j
        BY <1>1
      <4>. QED BY <1>1, <2>2, <4>1
    <3>2. /\ k + 1 \in 1..Len(inflight)
          /\ inflight[k + 1].event.guild \notin raced \cup lost \cup Unsent \cup Queued(queue)
      BY <1>1, <2>2
    <3>3. /\ inflight[k + 1].event.data = rows[inflight[k + 1].event.guild]
          /\ inflight[k + 1].step = "ranking" =>
                 cache[inflight[k + 1].event.guild].prefix = rows[inflight[k + 1].event.guild].prefix
      BY <3>1, <3>2 DEF HandlersInStep, CoherenceInv
    <3>4. inflight[k + 1].event.guild \in Guilds
      BY <3>2, GuildsOf DEF Handling
    <3>. QED BY <1>1, <1>3, <3>3, <3>4
  <2>. QED BY <1>2, <2>1, <2>2 DEF HandlersInStep
<1>6. CoherentUnlessLost'
  <2> SUFFICES ASSUME NEW g \in Guilds \ raced, Settled(g)'
               PROVE  cache'[g] = Shown(rows[g])
    BY <1>2 DEF CoherentUnlessLost, Shown
  <2>1. /\ g \notin lost \cup Unsent \cup Queued(queue) \cup Hydrating
        /\ g \notin Handling(inflight')
    BY <1>2 DEF Settled, Hydrating, Handling
  <2>2. CASE g # e.guild
    <3>1. g \notin Handling(inflight)
      BY <1>1, <2>1, <2>2, HandlingTail
    <3>2. Settled(g)
      BY <2>1, <3>1 DEF Settled
    <3>. QED BY <1>3, <2>2, <3>2 DEF CoherentUnlessLost, CoherenceInv
  <2>3. CASE g = e.guild
    <3>1. ASSUME NEW j \in (1 + 1)..Len(inflight)
          PROVE  inflight[j].event.guild # g
      <4>1. j - 1 \in 1..Len(inflight') /\ inflight'[j - 1] = inflight[j]
        BY <1>1
      <4>. QED BY <2>1, <4>1 DEF Handling
    <3>2. e.data = rows[g] /\ cache[g].prefix = rows[g].prefix
      <4>1. 1 \in 1..Len(inflight) /\ inflight[1].event.guild = g
        BY <1>1, <2>3
      <4>. QED BY <1>1, <2>1, <3>1, <4>1 DEF HandlersInStep, CoherenceInv
    <3>3. cache'[g] \in Settings /\ e.data \in Settings
      BY DEF TypeOK, Event
    <3>4. cache'[g] = e.data
      BY <1>3, <2>3, <3>2, <3>3, SettingsEqual
    <3>. QED BY <3>2, <3>3, <3>4, ShownSettings
  <2>. QED BY <2>2, <2>3
<1>. QED BY <1>4, <1>5, <1>6 DEF CoherenceInv

\* A handler that fails loses its change, unless a younger one makes up for it.
LEMMA HandlerFailsStep ==
    ASSUME TypeOK, CoherenceInv, NEW i \in 1..Len(inflight), HandlerFails(i)
    PROVE  CoherenceInv'
<1>. PICK f \in Guilds : f = inflight[i].event.guild
  BY GuildsOf DEF Handling
<1> DEFINE younger == Handling(SubSeq(inflight, i + 1, Len(inflight)))
<1>1. /\ inflight' \in Seq(Handler) /\ Len(inflight') = Len(inflight) - 1
      /\ Len(inflight) \in Nat
      /\ \A k \in 1..Len(inflight') :
             inflight'[k] = IF k < i THEN inflight[k] ELSE inflight[k + 1]
  BY WithoutSeq DEF HandlerFails, TypeOK
<1>2. /\ UNCHANGED <<api, queue, svc, todo, cache>> /\ svc = "listening"
      /\ UNCHANGED <<rows, raced>> /\ Unsent' = Unsent /\ Queued(queue)' = Queued(queue)
  <2>1. UNCHANGED <<api, queue, svc, todo, cache>>
    BY DEF HandlerFails, proc
  <2>2. inflight # <<>>
    BY <1>1
  <2>3. svc = "listening"
    BY <2>2 DEF CoherenceInv, HandlersInStep
  <2>4. UNCHANGED <<rows, raced>> /\ Unsent' = Unsent
    BY <2>1, ApiUnchanged DEF api
  <2>. QED BY <2>1, <2>3, <2>4 DEF Queued
<1>3. /\ lost \subseteq lost' /\ missed' \subseteq lost'
      /\ f \in lost' \cup Queued(queue) \cup Unsent \cup younger
  BY DEF HandlerFails, Lose, CoherenceInv, SnapshotInStep
<1>4. younger \subseteq {inflight[j].event.guild : j \in (i + 1)..Len(inflight)}
  <2>1. inflight \in Seq(Handler)
    BY DEF TypeOK
  <2> DEFINE late == SubSeq(inflight, i + 1, Len(inflight))
  <2>2. /\ Len(late) = Len(inflight) - i
        /\ \A k \in 1..(Len(inflight) - i) : late[k] = inflight[i + k]
    BY <2>1
  <2>. HIDE DEF late
  <2>3. ASSUME NEW k \in 1..Len(late)
        PROVE  late[k].event.guild \in {inflight[j].event.guild : j \in (i + 1)..Len(inflight)}
    <3>1. i + k \in (i + 1)..Len(inflight) /\ late[k] = inflight[i + k]
      BY <1>1, <2>2
    <3>. QED BY <3>1
  <2>4. Handling(late) \subseteq {inflight[j].event.guild : j \in (i + 1)..Len(inflight)}
    BY <2>3 DEF Handling
  <2>. QED BY <2>4 DEF late
<1>. HIDE DEF younger
<1>5. ASSUME NEW j \in (i + 1)..Len(inflight)
      PROVE  j - 1 \in 1..Len(inflight') /\ inflight'[j - 1] = inflight[j] /\ ~(j - 1 < i)
  BY <1>1
<1>6. EditsInStep' /\ QueueInStep' /\ SnapshotInStep' /\ FillInStep'
  BY <1>2, <1>3, ListeningSteps
<1>7. HandlersInStep'
  <2> DEFINE old(k) == IF k < i THEN k ELSE k + 1
  <2>1. \A k \in 1..Len(inflight') :
            /\ old(k) \in 1..Len(inflight) /\ old(k) # i
            /\ inflight'[k] = inflight[old(k)]
            /\ \A l \in 1..Len(inflight') : k < l => old(k) < old(l)
    BY <1>1
  <2>2. \A l \in 1..Len(inflight) : l # i => \E k \in 1..Len(inflight') : old(k) = l
    <3>. TAKE l \in 1..Len(inflight)
    <3>. HAVE l # i
    <3>1. CASE l < i
      <4>1. l \in 1..Len(inflight') /\ old(l) = l
        BY <1>1, <3>1
      <4>. QED BY <4>1
    <3>2. CASE ~(l < i)
      <4>1. l - 1 \in 1..Len(inflight') /\ old(l - 1) = l
        BY <1>1, <3>2
      <4>. QED BY <4>1
    <3>. QED BY <3>1, <3>2
  <2>3. \A k, l \in 1..Len(inflight') : old(k) < old(l) => k < l
    BY <1>1
  <2>. HIDE DEF old
  <2>4. \A j, k \in 1..Len(inflight') :
            j < k /\ inflight'[k].step = "ranking" => inflight'[j].step = "ranking"
    BY <2>1 DEF HandlersInStep, CoherenceInv
  <2>5. ASSUME NEW k \in 1..Len(inflight'),
               inflight'[k].event.guild \notin raced \cup lost' \cup Unsent \cup Queued(queue),
               \A j \in (k + 1)..Len(inflight') :
                   inflight'[j].event.guild # inflight'[k].event.guild
        PROVE  /\ inflight'[k].event.data = rows[inflight'[k].event.guild]
               /\ inflight'[k].step = "ranking" =>
                      cache[inflight'[k].event.guild].prefix = rows[inflight'[k].event.guild].prefix
    <3>. PICK o \in 1..Len(inflight) : o = old(k)
      BY <2>1
    <3>1. inflight'[k] = inflight[o] /\ o # i
      BY <2>1
    <3>2. ASSUME NEW j \in (o + 1)..Len(inflight), j # i
          PROVE  inflight[j].event.guild # inflight[o].event.guild
      <4>. PICK l \in 1..Len(inflight') : old(l) = j
        BY <2>2, <3>2
      <4>1. k < l
        BY <2>3
      <4>2. l \in (k + 1)..Len(inflight') /\ inflight'[l] = inflight[j]
        BY <1>1, <2>1, <4>1
      <4>. QED BY <2>5, <3>1, <4>2
    <3>3. ASSUME i \in (o + 1)..Len(inflight), f = inflight[o].event.guild
          PROVE  FALSE
      <4>1. f \in younger
        BY <1>3, <2>5, <3>1, <3>3
      <4>2. PICK j \in (i + 1)..Len(inflight) : inflight[j].event.guild = f
        BY <1>4, <4>1
      <4>3. j \in (o + 1)..Len(inflight) /\ j # i
        BY <3>3
      <4>. QED BY <3>2, <3>3, <4>2, <4>3
    <3>4. \A j \in (o + 1)..Len(inflight) : inflight[j].event.guild # inflight[o].event.guild
      BY <3>2, <3>3
    <3>5. inflight[o].event.guild \notin raced \cup lost \cup Unsent \cup Queued(queue)
      BY <1>3, <2>5, <3>1
    <3>. QED BY <3>1, <3>4, <3>5 DEF HandlersInStep, CoherenceInv
  <2>. QED BY <1>2, <2>4, <2>5 DEF HandlersInStep
<1>8. CoherentUnlessLost'
  <2> SUFFICES ASSUME NEW g \in Guilds \ raced, Settled(g)'
               PROVE  cache[g] = Shown(rows[g])
    BY <1>2 DEF CoherentUnlessLost, Shown
  <2>1. g \notin lost' \cup Unsent \cup Queued(queue) \cup Hydrating
    BY <1>2 DEF Settled, Hydrating
  <2>2. \A k \in 1..Len(inflight') : inflight'[k].event.guild # g
    BY DEF Settled, Handling
  <2>3. \A j \in (i + 1)..Len(inflight) : inflight[j].event.guild # g
    BY <1>5, <2>2
  <2>4. g # f
    <3>1. f \in lost' \cup Queued(queue) \cup Unsent
          \/ \E j \in (i + 1)..Len(inflight) : inflight[j].event.guild = f
      BY <1>3, <1>4
    <3>. QED BY <2>1, <2>3, <3>1
  <2>5. ASSUME NEW j \in 1..Len(inflight)
        PROVE  inflight[j].event.guild # g
    <3>1. CASE j < i
      <4>1. j \in 1..Len(inflight') /\ inflight'[j] = inflight[j]
        BY <1>1, <3>1
      <4>. QED BY <2>2, <4>1
    <3>2. CASE j = i
      BY <2>4, <3>2
    <3>3. CASE i < j
      BY <2>3, <3>3
    <3>. QED BY <3>1, <3>2, <3>3
  <2>6. Settled(g)
    BY <1>3, <2>1, <2>5 DEF Settled, Handling
  <2>. QED BY <2>6 DEF CoherentUnlessLost, CoherenceInv
<1>. QED BY <1>6, <1>7, <1>8 DEF CoherenceInv

\* A crash loses what only the process had: keys, handlers and the events
\* that had been pushed to it.
LEMMA CrashStep ==
    ASSUME TypeOK, CoherenceInv, NEW n \in 0..Len(queue), Crash(n)
    PROVE  CoherenceInv'
<1> DEFINE cut  == SubSeq(queue, 1, n)
           left == SubSeq(queue, n + 1, Len(queue))
<1>1. /\ EditsInStep' /\ Unsent' = Unsent
      /\ UNCHANGED <<rows, raced, cache>>
      /\ svc' = "down" /\ todo' = {} /\ inflight' = <<>> /\ queue' = left
      /\ Lose(Hydrating \cup Handling(inflight) \cup Queued(cut), left, <<>>)
  BY ApiUnchanged DEF Crash, api
<1>2. Handling(<<>>) = {}
  BY DEF Handling
<1>3. /\ lost \subseteq lost' /\ missed' \subseteq lost'
      /\ Hydrating \cup Handling(inflight) \cup Queued(cut)
             \subseteq lost' \cup Queued(left) \cup Unsent
  BY <1>1, <1>2 DEF Lose, CoherenceInv, SnapshotInStep
<1>4. Queued(queue) = Queued(cut) \cup Queued(left)
  BY QueuedSplit DEF TypeOK
<1>5. /\ Len(left) = Len(queue) - n /\ Len(queue) \in Nat /\ n \in 0..Len(queue)
      /\ \A i \in 1..Len(left) : left[i] = queue[n + i]
  <2>1. queue \in Seq(Event)
    BY DEF TypeOK
  <2>. QED BY <2>1
<1>. HIDE DEF cut, left
<1>6. QueueInStep'
  <2> SUFFICES ASSUME NEW i \in 1..Len(queue'),
                      queue'[i].guild \notin raced \cup lost' \cup Unsent,
                      \A j \in (i + 1)..Len(queue') : queue'[j].guild # queue'[i].guild
               PROVE  queue'[i].data = rows[queue'[i].guild]
    BY <1>1 DEF QueueInStep
  <2>1. /\ n + i \in 1..Len(queue) /\ queue'[i] = queue[n + i]
        /\ Len(queue') = Len(queue) - n
    BY <1>1, <1>5
  <2>2. ASSUME NEW j \in ((n + i) + 1)..Len(queue)
        PROVE  queue[j].guild # queue[n + i].guild
    <3>1. j - n \in (i + 1)..Len(queue') /\ n + (j - n) = j /\ j - n \in 1..Len(queue')
      BY <1>5, <2>1
    <3>. QED BY <1>1, <1>5, <2>1, <3>1
  <2>. QED BY <1>3, <2>1, <2>2 DEF QueueInStep, CoherenceInv
<1>7. HandlersInStep' /\ SnapshotInStep' /\ FillInStep'
  BY <1>1, <1>3 DEF HandlersInStep, SnapshotInStep, FillInStep
<1>8. CoherentUnlessLost'
  <2> SUFFICES ASSUME NEW g \in Guilds \ raced, Settled(g)'
               PROVE  cache[g] = Shown(rows[g])
    BY <1>1 DEF CoherentUnlessLost, Shown
  <2>1. Queued(queue)' = Queued(left)
    BY <1>1 DEF Queued
  <2>2. g \notin lost' \cup Unsent \cup Queued(left)
    BY <1>1, <2>1 DEF Settled
  <2>3. Settled(g)
    BY <1>3, <1>4, <2>2 DEF Settled
  <2>. QED BY <2>3 DEF CoherentUnlessLost, CoherenceInv
<1>. QED BY <1>1, <1>6, <1>7, <1>8 DEF CoherenceInv

LEMMA EvictStep ==
    ASSUME TypeOK, CoherenceInv, NEW g \in Guilds, NEW evicted \in Settings,
           EvictKey(g, evicted)
    PROVE  CoherenceInv'
<1>1. /\ EditsInStep' /\ Unsent' = Unsent
      /\ UNCHANGED <<rows, raced, queue, inflight, svc, todo, snapshot>>
      /\ \A x \in Guilds : x # g => cache'[x] = cache[x]
  BY ApiUnchanged DEF EvictKey, api, proc, TypeOK
<1>2. /\ lost \subseteq lost' /\ missed \subseteq missed' /\ missed' \subseteq lost'
      /\ g \in lost' \cup Queued(queue) \cup Unsent
  <2>1. Handling(<<>>) = {}
    BY DEF Handling
  <2>. QED BY <2>1 DEF EvictKey, Lose, CoherenceInv, SnapshotInStep
<1>3. Queued(queue)' = Queued(queue)
  BY <1>1 DEF Queued
<1>4. QueueInStep'
  BY <1>1, <1>2 DEF QueueInStep, CoherenceInv
<1>5. HandlersInStep'
  <2>1. \A i \in 1..Len(inflight) : inflight[i].event.guild \in Guilds
    BY GuildsOf DEF Handling
  <2>. QED BY <1>1, <1>2, <1>3, <2>1 DEF HandlersInStep, CoherenceInv
<1>6. SnapshotInStep'
  BY <1>1, <1>2, <1>3 DEF SnapshotInStep, CoherenceInv, Shown
<1>7. FillInStep'
  BY <1>1, <1>2, <1>3 DEF FillInStep, CoherenceInv, KeysOf
<1>8. CoherentUnlessLost'
  <2> SUFFICES ASSUME NEW x \in Guilds \ raced, Settled(x)'
               PROVE  cache'[x] = Shown(rows[x])
    BY <1>1 DEF CoherentUnlessLost, Shown
  <2>1. Settled(x) /\ x # g
    BY <1>1, <1>2, <1>3 DEF Settled, Handling, Hydrating
  <2>. QED BY <1>1, <2>1 DEF CoherentUnlessLost, CoherenceInv
<1>. QED BY <1>1, <1>4, <1>5, <1>6, <1>7, <1>8 DEF CoherenceInv

LEMMA CoherenceStays ==
    ASSUME TypeOK, TypeOK', CoherenceInv, [Next]_vars
    PROVE  CoherenceInv'
<1>1. ASSUME NEW r \in Requests, RequestStep(r)
      PROVE  CoherenceInv'
  BY <1>1, SaveStep, RejectStep, RecordStep, PublishStep, UnannouncedStep DEF RequestStep
<1>2. CASE ServiceStep
  BY <1>2, WorkerSteps, ClearStep, FillSteps, ReceiveStep, WritePrefixStep,
     WriteRankingStep DEF ServiceStep
<1>3. CASE Environment
  BY <1>3, LoadStep, UnannouncedStep, HydrationFailsStep, HandlerFailsStep, CrashStep,
     EvictStep DEF Environment
<1>4. CASE UNCHANGED vars
  <2>1. EditsInStep' /\ Unsent' = Unsent
    BY <1>4, ApiUnchanged DEF vars, api
  <2>2. missed' \subseteq lost'
    BY <1>4 DEF vars, CoherenceInv, SnapshotInStep
  <2>. QED BY <1>4, <2>1, <2>2, QuietSteps DEF vars
<1>. QED BY <1>1, <1>2, <1>3, <1>4 DEF Next

\* What is queued, handled and still to be filled in agrees with the table,
\* for every guild nobody raced for and no fault has lost.
THEOREM Coherence == Spec => []CoherenceInv
<1>1. Init => CoherenceInv
  <2> SUFFICES ASSUME Init PROVE CoherenceInv
    OBVIOUS
  <2>1. Active = {} /\ queue = <<>> /\ inflight = <<>> /\ svc = "down" /\ todo = {}
        /\ missed = {} /\ \A g \in Guilds : cache[g] = Shown(rows[g])
    BY DEF Init, Active, Shown
  <2>. QED BY <2>1 DEF CoherenceInv, EditsInStep, QueueInStep, HandlersInStep,
                       SnapshotInStep, FillInStep, CoherentUnlessLost
<1>. QED BY <1>1, CoherenceStays, TypeCorrect, PTL DEF Spec

\* However many handlers interleave their two writes, whatever crashes, fails
\* or is evicted, and wherever hydration stands: a guild that nothing is on
\* its way for, that no fault has lost and no two requests have raced for is
\* cached as the table has it, prefix and flag.
THEOREM Coherent == Spec => []CoherentUnlessLost
<1>1. CoherenceInv => CoherentUnlessLost
  BY DEF CoherenceInv
<1>. QED BY <1>1, Coherence, PTL

------------------------------------------------------------------------------
(***************************************************************************)
(* The refinement of EventualCache.                                        *)
(***************************************************************************)

\* What a row shows are settings.
LEMMA ShownType ==
    ASSUME NEW row \in Row
    PROVE  Shown(row) \in Settings
BY DEF Shown, Row, Settings, Default

\* A step that leaves the table alone and no guild behind that was not so
\* before is the cache following the table.
LEMMA CatchesUp ==
    ASSUME TypeOK', CoherentUnlessLost, CoherentUnlessLost',
           UNCHANGED <<rows, raced, faults>>, svc' = "listening" <=> svc = "listening",
           \A g \in Guilds \ raced : Settled(g) => Settled(g)'
    PROVE  EC!Follow
<1>1. cache' \in [Guilds -> Settings]
  BY DEF TypeOK
<1>2. \A g \in Guilds \ raced : Settled(g)' => cache'[g] = Shown(rows[g])
  BY DEF CoherentUnlessLost, Shown
<1>3. \A g \in Guilds \ raced : Settled(g) => cache'[g] = cache[g]
  BY <1>2 DEF CoherentUnlessLost
<1>4. \A g \in Guilds : g \notin {x \in Guilds : ~Settled(x)}' => Settled(g)'
  OBVIOUS
<1>. QED BY <1>1, <1>2, <1>3, <1>4 DEF EC!Follow, EC!OthersKept, Shown

\* A fault that settles no guild is a fault of the cache.
LEMMA FallsBehind ==
    ASSUME TypeOK, TypeOK', CoherentUnlessLost, CoherentUnlessLost',
           Fault, UNCHANGED <<rows, raced>>, svc' = "listening" => svc = "listening",
           \A g \in Guilds : Settled(g)' => Settled(g)
    PROVE  EC!Fault
<1>1. cache' \in [Guilds -> Settings] /\ raced \in SUBSET Guilds
  BY DEF TypeOK
<1>2. \A g \in Guilds \ raced : Settled(g)' => cache'[g] = cache[g]
  BY DEF CoherentUnlessLost, Shown
<1>. QED BY <1>1, <1>2 DEF EC!Fault, Fault, Shown

\* A guild that is saved, or raced for, is behind from then on.
LEMMA ChangesOne ==
    ASSUME TypeOK, TypeOK', NEW g \in Guilds,
           \A x \in Guilds \ {g} : rows'[x] = rows[x],
           \A x \in Guilds : Settled(x)' /\ x \notin raced'
                                 <=> Settled(x) /\ x \notin raced /\ x # g,
           UNCHANGED <<cache, faults, svc>>
    PROVE  EC!Change(g)
<1>1. Shown(rows'[g]) \in Settings
  BY ShownType DEF TypeOK
<1>2. [x \in Guilds |-> Shown(rows'[x])]
        = [[x \in Guilds |-> Shown(rows[x])] EXCEPT ![g] = Shown(rows'[g])]
  OBVIOUS
<1>3. raced \in SUBSET Guilds /\ raced' \in SUBSET Guilds
  BY DEF TypeOK
<1>4. ({x \in Guilds : ~Settled(x)} \cup raced)'
        = ({x \in Guilds : ~Settled(x)} \cup raced) \cup {g}
  BY <1>3
<1>5. [x \in Guilds |-> Shown(rows[x])]' = [x \in Guilds |-> Shown(rows'[x])]
  BY DEF Shown
<1>. QED BY <1>1, <1>2, <1>4, <1>5 DEF EC!Change

\* The steps of a request.
LEMMA RequestsFollow ==
    ASSUME TypeOK, TypeOK', CoherenceInv, CoherenceInv', NEW r \in Requests, RequestStep(r)
    PROVE  EC!Next
<1> USE DEF CoherenceInv
<1> PICK g \in Guilds : g = edit[r].guild
  BY EditOf DEF RequestStep, Save, Reject, Record, Publish, Active
<1>1. CASE Save(r)
  <2>1. Unsent' = Unsent \cup {g}
    <3>1. Committed' = Committed \cup {r} /\ UNCHANGED edit
      BY <1>1 DEF Save, Committed, TypeOK
    <3>. QED BY <3>1 DEF Unsent
  <2>2. /\ lost' = lost \ {g} /\ \A x \in Guilds \ {g} : rows'[x] = rows[x]
        /\ UNCHANGED <<queue, inflight, todo, raced, cache, faults, svc>>
    BY <1>1 DEF Save, TypeOK, proc
  <2>3. \A x \in Guilds : Settled(x)' <=> Settled(x) /\ x # g
    BY <2>1, <2>2 DEF Settled, Queued, Handling, Hydrating
  <2>. QED BY <2>2, <2>3, ChangesOne DEF EC!Next
<1>2. CASE Reject(r) \/ Record(r)
  <2>1. Unsent' = Unsent
    <3>1. Committed' = Committed /\ \A s \in Committed : edit'[s] = edit[s]
      BY <1>2 DEF Reject, Record, Finished, Committed, TypeOK
    <3>. QED BY <3>1 DEF Unsent
  <2>2. UNCHANGED <<rows, raced, queue, inflight, todo, cache, faults, svc, lost>>
    BY <1>2 DEF Reject, Record, proc
  <2>3. \A x \in Guilds : Settled(x) => Settled(x)'
    BY <2>1, <2>2 DEF Settled, Queued, Handling, Hydrating
  <2>. QED BY <2>2, <2>3, CatchesUp DEF EC!Next
<1>3. CASE Publish(r)
  <2>1. /\ r \in Committed /\ g \in Unsent
        /\ UNCHANGED <<rows, raced, inflight, todo, faults, svc>>
    BY <1>3 DEF Publish, Committed, Unsent, proc
  <2>2. lost' \subseteq lost \cup {g} /\ Unsent' \subseteq Unsent
    <3>1. Committed' = Committed \ {r} /\ \A s \in Committed \ {r} : edit'[s] = edit[s]
      BY <1>3 DEF Publish, Finished, Committed, TypeOK
    <3>2. lost' \in {lost, lost \cup {g}}
      BY <1>3 DEF Publish
    <3>. QED BY <3>1, <3>2 DEF Unsent
  <2>3. Queued(queue)' \subseteq Queued(queue) \cup {g}
    <3>1. EventOf(edit[r]) \in Event /\ EventOf(edit[r]).guild = g
      <4>1. edit[r] \in Edit /\ edit[r].view \in Settings
        BY <2>1, EditOf DEF Active, Committed
      <4>. QED BY <4>1 DEF EventOf, Edit, Event
    <3>2. queue' \in {queue, Append(queue, EventOf(edit[r]))}
      BY <1>3 DEF Publish
    <3>. QED BY <3>1, <3>2, QueuedAppend DEF TypeOK
  <2>4. \A x \in Guilds : Settled(x) => Settled(x)'
    BY <2>1, <2>2, <2>3 DEF Settled, Handling, Hydrating
  <2>. QED BY <2>1, <2>4, CatchesUp DEF EC!Next
<1>. QED BY <1>1, <1>2, <1>3 DEF RequestStep

\* The steps of the worker: but for the clear, none puts a guild behind.
LEMMA WorkerFollows ==
    ASSUME TypeOK, TypeOK', CoherenceInv, CoherenceInv', ServiceStep
    PROVE  EC!Next
<1> USE DEF CoherenceInv
<1>1. UNCHANGED <<rows, raced, faults>> /\ Unsent' = Unsent
  <2>1. UNCHANGED api /\ UNCHANGED faults
    BY DEF ServiceStep, Boot, FetchSnapshot, Clear, Hydrated, Listen, Receive, WriteRanking,
           WritePrefix, FillPrefix, FillRanking
  <2>. QED BY <2>1, ApiUnchanged DEF api
<1>2. CASE Listen
  <2>1. UNCHANGED <<queue, inflight, todo, cache, lost>>
    BY <1>2 DEF Listen
  <2>2. \A x \in Guilds : Settled(x)' <=> Settled(x)
    BY <1>1, <2>1 DEF Settled, Queued, Handling, Hydrating
  <2>. QED BY <1>1, <1>2, <2>1, <2>2 DEF Listen, Shown, EC!Listen, EC!Next
<1>3. CASE Clear
  <2>1. svc # "listening" /\ svc' # "listening" /\ cache' \in [Guilds -> Settings]
    BY <1>3 DEF Clear, TypeOK
  <2>2. raced \in SUBSET Guilds
    BY DEF TypeOK
  <2>3. \A g \in Guilds \ raced : Settled(g)' => cache'[g] = Shown(rows[g])
    BY <1>1 DEF CoherentUnlessLost, Shown
  <2>. QED BY <1>1, <2>1, <2>2, <2>3 DEF Shown, EC!Rebuild, EC!Next
<1>4. CASE ~Listen /\ ~Clear
  <2>1. svc' = "listening" <=> svc = "listening"
    BY <1>4 DEF ServiceStep, Boot, FetchSnapshot, Hydrated, Receive, WriteRanking,
                WritePrefix, FillPrefix, FillRanking, proc
  <2>2. UNCHANGED lost
    BY <1>4 DEF ServiceStep, Boot, FetchSnapshot, Hydrated, Receive, WriteRanking,
                WritePrefix, FillPrefix, FillRanking
  <2>3. todo' \subseteq todo
    BY <1>4 DEF ServiceStep, Boot, FetchSnapshot, Hydrated, Receive, WriteRanking,
                WritePrefix, FillPrefix, FillRanking, proc
  <2>4. Queued(queue)' \cup Handling(inflight)' \subseteq Queued(queue) \cup Handling(inflight)
    <3>1. CASE Receive
      <4>1. /\ queue \in Seq(Event) /\ queue # <<>> /\ queue' = Tail(queue)
            /\ inflight \in Seq(Handler)
            /\ inflight' = Append(inflight, [event |-> Head(queue), step |-> "prefix"])
        BY <3>1 DEF Receive, TypeOK
      <4>2. Queued(queue) = {Head(queue).guild} \cup Queued(queue')
        BY <4>1, QueuedTail
      <4>3. [event |-> Head(queue), step |-> "prefix"] \in Handler
        BY <4>1 DEF Handler
      <4>4. Handling(inflight') = Handling(inflight) \cup {Head(queue).guild}
        BY <4>1, <4>3, HandlingAppend
      <4>. QED BY <4>2, <4>4 DEF Queued, Handling
    <3>2. CASE WriteRanking
      <4>1. /\ inflight \in Seq(Handler) /\ inflight # <<>> /\ inflight' = Tail(inflight)
            /\ UNCHANGED queue
        BY <3>2 DEF WriteRanking, TypeOK
      <4>2. \A k \in 1..Len(inflight') : inflight'[k] = inflight[k + 1] /\ k + 1 \in 1..Len(inflight)
        BY <4>1
      <4>. QED BY <4>1, <4>2 DEF Queued, Handling
    <3>3. ASSUME NEW i \in 1..Len(inflight), WritePrefix(i)
          PROVE  UNCHANGED queue /\ Handling(inflight)' = Handling(inflight)
      <4>1. UNCHANGED queue /\ Len(inflight') = Len(inflight)
            /\ \A k \in 1..Len(inflight) : inflight'[k].event = inflight[k].event
        <5>1. inflight \in Seq(Handler)
          BY DEF TypeOK
        <5>. QED BY <3>3, <5>1 DEF WritePrefix, Handler
      <4>. QED BY <4>1 DEF Handling
    <3>4. CASE ~Receive /\ ~WriteRanking /\ ~\E i \in 1..Len(inflight) : WritePrefix(i)
      <4>1. UNCHANGED <<queue, inflight>>
        BY <1>4, <3>4 DEF ServiceStep, Boot, FetchSnapshot, Hydrated, FillPrefix, FillRanking
      <4>. QED BY <4>1 DEF Queued, Handling
    <3>. QED BY <3>1, <3>2, <3>3, <3>4 DEF Queued
  <2>5. \A x \in Guilds : Settled(x) => Settled(x)'
    BY <1>1, <2>2, <2>3, <2>4 DEF Settled, Hydrating
  <2>. QED BY <1>1, <2>1, <2>5, CatchesUp DEF EC!Next
<1>. QED BY <1>2, <1>3, <1>4

\* Losses and evictions, the faults: they leave more behind, never less.
LEMMA FaultsFollow ==
    ASSUME TypeOK, TypeOK', CoherenceInv, CoherenceInv',
           \/ \E r \in Requests : RequestFails(r)
           \/ HydrationFails
           \/ \E i \in 1..Len(inflight) : HandlerFails(i)
           \/ \E n \in 0..Len(queue) : Crash(n)
           \/ \E g \in Guilds, evicted \in Settings : EvictKey(g, evicted)
    PROVE  EC!Next
<1> USE DEF CoherenceInv
<1>1. ASSUME NEW r \in Requests, RequestFails(r)
      PROVE  \A x \in Guilds : Settled(x)' => Settled(x)
  <2>1. /\ lost' = lost \cup {edit[r].guild}
        /\ UNCHANGED <<queue, inflight, todo>>
    BY <1>1 DEF RequestFails, proc
  <2>2. Unsent \subseteq Unsent' \cup {edit[r].guild}
    <3>1. \A s \in Committed \ {r} : s \in Committed' /\ edit'[s] = edit[s]
      BY <1>1 DEF RequestFails, Finished, Committed, TypeOK
    <3>. QED BY <3>1 DEF Unsent
  <2>. QED BY <2>1, <2>2 DEF Settled, Queued, Handling, Hydrating
<1>2. ASSUME HydrationFails
      PROVE  \A x \in Guilds : Settled(x)' => Settled(x)
  <2>1. UNCHANGED <<queue, inflight>> /\ Lose(Hydrating, queue, inflight) /\ Unsent' = Unsent
    BY <1>2, ApiUnchanged DEF HydrationFails
  <2>. QED BY <2>1 DEF Settled, Lose, Queued, Handling
<1>3. ASSUME NEW i \in 1..Len(inflight), HandlerFails(i)
      PROVE  \A x \in Guilds : Settled(x)' => Settled(x)
  <2> DEFINE f == inflight[i].event.guild
             late == SubSeq(inflight, i + 1, Len(inflight))
  <2>1. /\ UNCHANGED <<queue, todo>> /\ Lose({f}, queue, late) /\ Unsent' = Unsent
        /\ inflight' = Without(i) /\ inflight \in Seq(Handler) /\ Len(inflight) \in Nat
    BY <1>3, ApiUnchanged DEF HandlerFails, proc, TypeOK
  <2>2. ASSUME NEW j \in 1..Len(inflight), j # i
        PROVE  inflight[j].event.guild \in Handling(inflight)'
    <3>1. /\ Len(inflight') = Len(inflight) - 1
          /\ \A k \in 1..Len(inflight') :
                 inflight'[k] = IF k < i THEN inflight[k] ELSE inflight[k + 1]
      BY <2>1, WithoutSeq
    <3>2. CASE j < i
      <4>1. j \in 1..Len(inflight') /\ inflight'[j] = inflight[j]
        BY <2>1, <3>1, <3>2
      <4>. QED BY <4>1 DEF Handling
    <3>3. CASE ~(j < i)
      <4>1. /\ j - 1 \in 1..Len(inflight') /\ ~(j - 1 < i) /\ (j - 1) + 1 = j
        BY <2>1, <2>2, <3>1, <3>3
      <4>2. inflight'[j - 1] = inflight[j]
        BY <3>1, <4>1
      <4>. QED BY <4>1, <4>2 DEF Handling
    <3>. QED BY <3>2, <3>3
  <2>3. Handling(late) \subseteq Handling(inflight)'
    <3>1. ASSUME NEW k \in 1..Len(late)
          PROVE  late[k].event.guild \in Handling(inflight)'
      <4>1. i + k \in 1..Len(inflight) /\ i + k # i /\ late[k] = inflight[i + k]
        BY <2>1
      <4>. QED BY <2>2, <4>1
    <3>. QED BY <3>1 DEF Handling
  <2>4. Handling(inflight) \subseteq Handling(inflight)' \cup {f}
    BY <2>2 DEF Handling
  <2>5. f \in lost' \cup Queued(queue) \cup Unsent \cup Handling(inflight)' /\ lost \subseteq lost'
    BY <2>1, <2>3 DEF Lose
  <2> HIDE DEF f, late
  <2>6. Queued(queue)' = Queued(queue) /\ Hydrating' = Hydrating
    BY <2>1 DEF Queued, Hydrating
  <2>. QED BY <2>1, <2>4, <2>5, <2>6 DEF Settled
<1>4. ASSUME NEW n \in 0..Len(queue), Crash(n)
      PROVE  \A x \in Guilds : Settled(x)' => Settled(x)
  <2> DEFINE left == SubSeq(queue, n + 1, Len(queue))
             cut  == SubSeq(queue, 1, n)
  <2>1. /\ queue' = left /\ Unsent' = Unsent
        /\ Lose(Hydrating \cup Handling(inflight) \cup Queued(cut), left, <<>>)
    BY <1>4, ApiUnchanged DEF Crash
  <2>2. Queued(queue) = Queued(cut) \cup Queued(left)
    BY QueuedSplit DEF TypeOK
  <2>3. Handling(<<>>) = {} /\ Queued(queue)' = Queued(left)
    BY <2>1 DEF Handling, Queued
  <2> HIDE DEF left, cut
  <2>. QED BY <2>1, <2>2, <2>3 DEF Settled, Lose
<1>5. ASSUME NEW g \in Guilds, NEW evicted \in Settings, EvictKey(g, evicted)
      PROVE  \A x \in Guilds : Settled(x)' => Settled(x)
  <2>1. UNCHANGED <<queue, inflight, todo>> /\ lost \subseteq lost' /\ Unsent' = Unsent
    BY <1>5, ApiUnchanged DEF EvictKey, Lose, proc
  <2>. QED BY <2>1 DEF Settled, Queued, Handling, Hydrating
<1>6. Fault /\ UNCHANGED <<rows, raced>> /\ (svc' = "listening" => svc = "listening")
  BY DEF RequestFails, HydrationFails, HandlerFails, Crash, EvictKey, api, proc
<1>7. \A x \in Guilds : Settled(x)' => Settled(x)
  BY <1>1, <1>2, <1>3, <1>4, <1>5
<1>. QED BY <1>6, <1>7, FallsBehind DEF EC!Next

\* Every step of the system is one of the abstract cache.  A PATCH that races
\* with another counts as a change, although it has still to save.
LEMMA StepFollows ==
    ASSUME TypeOK, TypeOK', CoherenceInv, CoherenceInv', [Next]_vars
    PROVE  [EC!Next]_EC!vars
<1> USE DEF CoherenceInv
<1>1. ASSUME NEW r \in Requests, NEW g \in Guilds, NEW view \in Settings \cup {Invalid},
             Load(r, g, view)
      PROVE  EC!Next
  <2>1. Unsent' = Unsent
    <3>1. Committed' = Committed /\ \A s \in Committed : edit'[s] = edit[s]
      BY <1>1 DEF Load, Committed, TypeOK
    <3>. QED BY <3>1 DEF Unsent
  <2>2. UNCHANGED <<rows, queue, inflight, todo, cache, faults, svc, lost>>
    BY <1>1 DEF Load, proc
  <2>3. \A x \in Guilds : Settled(x)' <=> Settled(x)
    BY <2>1, <2>2 DEF Settled, Queued, Handling, Hydrating
  <2>4. CASE raced' = raced
    BY <2>2, <2>3, <2>4, CatchesUp DEF EC!Next
  <2>5. CASE raced' = raced \cup {g}
    BY <2>2, <2>3, <2>5, ChangesOne DEF EC!Next
  <2>. QED BY <1>1, <2>4, <2>5 DEF Load
<1>2. CASE UNCHANGED vars
  <2>1. \A x \in Guilds : Settled(x)' <=> Settled(x)
    BY <1>2 DEF vars, Settled, Queued, Handling, Hydrating, Unsent, Committed
  <2>. QED BY <1>2, <2>1 DEF vars, EC!vars, Shown
<1>. QED BY <1>1, <1>2, RequestsFollow, WorkerFollows, FaultsFollow DEF Next, Environment

\* The worker's settings cache is an EventualCache: a guild's entry is right
\* unless an edit of its own, a race for it or a fault has left it behind, and
\* neither late handlers nor those of other guilds undo it.
THEOREM Implements == Spec => FollowsTheTable
<1>1. ASSUME Init, TypeOK, CoherenceInv
      PROVE  EC!Init
  <2>1. /\ \A g \in Guilds : Shown(rows[g]) \in Settings
        /\ cache \in [Guilds -> Settings] /\ raced \in SUBSET Guilds
    BY <1>1, ShownType DEF TypeOK
  <2>2. \A g \in Guilds \ raced : Settled(g) => cache[g] = Shown(rows[g])
    BY <1>1 DEF CoherenceInv, CoherentUnlessLost
  <2>3. svc # "listening" /\ faults \in Nat
    BY <1>1, BoundsAssumption DEF Init
  <2>. QED BY <2>1, <2>2, <2>3 DEF EC!Init, EC!UpToDate
<1>. QED BY <1>1, StepFollows, TypeCorrect, Coherence, PTL
         DEF Spec, FollowsTheTable, EC!Spec
==============================================================================
