---------------------------- MODULE GuildSettings ----------------------------
(***************************************************************************)
(* Guild settings from the dashboard's PATCH to the worker's cache.        *)
(*                                                                         *)
(*   api       GuildSettingsController#update loads the guild's row or     *)
(*             builds a new one, saves it, writes an audit row and         *)
(*             publishes the settings, as separate steps;                  *)
(*   RabbitMQ  the worker's durable queue, declared by its first listen(); *)
(*   worker    bootstrap() clears and refills two Redis namespaces from a  *)
(*             snapshot and then listens; CacheSyncController writes a     *)
(*             guild's prefix and then its ranking flag, two commands with *)
(*             an await between them, and other handlers run meanwhile;    *)
(*   Redis     two keys per guild, each evictable.                         *)
(*                                                                         *)
(* An absent prefix key reads as no prefix, an absent ranking key as       *)
(* ranking disabled.  The audit-log channel is not cached and left out.    *)
(***************************************************************************)
EXTENDS Naturals, Sequences, FiniteSets

CONSTANTS
    Guilds,
    Prefixes,     \* command prefixes a guild may choose
    NoPrefix,     \* a null prefix
    NoRow,        \* no such row
    Requests,     \* PATCH requests, each handled once
    Invalid,      \* a body save() refuses: a prefix too long, no ranking flag
    NoEdit,       \* the state of a request that is not being handled
    MaxInFlight,  \* handlers the consumer interleaves (noAck: no limit)
    MaxAttempts,  \* GUILD_SETTINGS_HYDRATION_MAX_ATTEMPTS
    MaxFaults     \* failures, crashes and evictions a behaviour may have

ASSUME BoundsAssumption ==
    /\ MaxInFlight \in Nat \ {0}
    /\ MaxAttempts \in Nat \ {0}
    /\ MaxFaults \in Nat

Settings == [prefix : Prefixes \cup {NoPrefix}, isRankingEnabled : BOOLEAN]
Default  == [prefix |-> NoPrefix, isRankingEnabled |-> FALSE]

ASSUME NoRowAssumption == NoRow \notin Settings

Row   == Settings \cup {NoRow}
Edit  == [guild : Guilds, loaded : Row, view : Settings \cup {Invalid}]
Entry == [action : {"CREATE", "UPDATE"}, guild : Guilds, before : Row, after : Settings]
Event == [guild : Guilds, data : Settings]
\* A handler awaits its first write, of the prefix, or its second.
Handler == [event : Event, step : {"prefix", "ranking"}]

ASSUME NoEditAssumption == NoEdit \notin Edit /\ Invalid \notin Settings

VARIABLES
    rows,      \* the guild_settings table
    pc, edit,  \* where each request is, and what it holds in memory
    history,   \* the audit table, in insertion order
    raced,     \* ghost: guilds that two requests have edited at a time
    queue,     \* worker.queue, as far as dashboard.settings.updated goes
    bound,     \* whether that queue has been declared and bound
    svc,       \* where the worker process is
    attempt,   \* hydrate()'s attempt counter
    snapshot,  \* the settings hydrate() fetched
    todo,      \* the keys of the snapshot it has still to write
    inflight,  \* handlers that await Redis, oldest first
    cache,     \* Redis: the two keys of each guild
    faults,    \* how many faults are left
    lost,      \* ghost: guilds whose latest change no event will bring, or
               \*   whose cached keys were dropped
    missed     \* ghost: those of them lost since the snapshot was read

api  == <<rows, pc, edit, history, raced>>
proc == <<svc, attempt, snapshot, todo>>
vars == <<rows, pc, edit, history, raced, queue, bound, svc, attempt, snapshot, todo,
          inflight, cache, faults, lost, missed>>

------------------------------------------------------------------------------
(***************************************************************************)
(* What is on its way for a guild.                                         *)
(***************************************************************************)

Active    == {r \in Requests : pc[r] \in {"loaded", "saved", "recorded"}}
Committed == {r \in Requests : pc[r] \in {"saved", "recorded"}}

Editing     == {edit[r].guild : r \in Active}
Unsent      == {edit[r].guild : r \in Committed}
Queued(q)   == {q[i].guild : i \in 1..Len(q)}
Handling(h) == {h[i].event.guild : i \in 1..Len(h)}
Hydrating   == {k[1] : k \in todo}

\* A fault dropped what was on its way for gs.  An event that is still to be
\* handled makes up for it: every event carries all the settings.
Lose(gs, q, h) ==
    LET gone == gs \ (Queued(q) \cup Unsent \cup Handling(h)) IN
    /\ lost' = lost \cup gone
    /\ missed' = missed \cup gone

Fault == faults > 0 /\ faults' = faults - 1

------------------------------------------------------------------------------
(***************************************************************************)
(* The API: GuildSettingsController#update.                                *)
(***************************************************************************)

\* settings_record || GuildSetting.new, and the assigned attributes.
Load(r, g, view) ==
    /\ pc[r] = "new"
    /\ raced' = IF g \in Editing THEN raced \cup {g} ELSE raced
    /\ pc' = [pc EXCEPT ![r] = "loaded"]
    /\ edit' = [edit EXCEPT ![r] = [guild |-> g, loaded |-> rows[g], view |-> view]]
    /\ UNCHANGED <<rows, history, queue, bound, proc, inflight, cache, faults,
                   lost, missed>>

\* MUTANT of Conflicts: the insert becomes an upsert.
NeverConflicts(e) == FALSE
\* Both of two first PATCHes found no row; the second INSERT meets the
\* primary key.
Conflicts(e) == e.loaded = NoRow /\ rows[e.guild] # NoRow

\* A new record is inserted whole; of a loaded one only the columns that
\* differ from what was loaded are written.
SavedRow(row, e) ==
    IF e.loaded = NoRow THEN e.view
    ELSE [prefix |->
              IF e.view.prefix = e.loaded.prefix THEN row.prefix ELSE e.view.prefix,
          isRankingEnabled |->
              IF e.view.isRankingEnabled = e.loaded.isRankingEnabled
              THEN row.isRankingEnabled ELSE e.view.isRankingEnabled]

Save(r) ==
    LET e == edit[r] IN
    /\ pc[r] = "loaded"
    /\ e.view # Invalid
    /\ ~Conflicts(e)
    /\ rows' = [rows EXCEPT ![e.guild] = SavedRow(@, e)]
    /\ pc' = [pc EXCEPT ![r] = "saved"]
    /\ lost' = lost \ {e.guild}
    /\ missed' = missed \ {e.guild}
    /\ UNCHANGED <<edit, history, raced, queue, bound, proc, inflight, cache, faults>>

\* The request is over and its memory gone.
Finished(r) ==
    /\ pc' = [pc EXCEPT ![r] = "done"]
    /\ edit' = [edit EXCEPT ![r] = NoEdit]

\* 422, or the 500 of a violated constraint: nothing is saved or announced.
Reject(r) ==
    /\ pc[r] = "loaded"
    /\ edit[r].view = Invalid \/ Conflicts(edit[r])
    /\ Finished(r)
    /\ UNCHANGED <<rows, history, raced, queue, bound, proc, inflight, cache,
                   faults, lost, missed>>

EntryOf(e) == [action |-> IF e.loaded = NoRow THEN "CREATE" ELSE "UPDATE",
               guild |-> e.guild, before |-> e.loaded, after |-> e.view]

Record(r) ==
    /\ pc[r] = "saved"
    /\ history' = Append(history, EntryOf(edit[r]))
    /\ pc' = [pc EXCEPT ![r] = "recorded"]
    /\ UNCHANGED <<rows, edit, raced, queue, bound, proc, inflight, cache,
                   faults, lost, missed>>

\* MUTANT of EventOf: the settings as loaded are announced.
EventTakenEarly(e) == [guild |-> e.guild, data |-> e.loaded]
EventOf(e) == [guild |-> e.guild, data |-> e.view]

\* The exchange drops what no queue is bound for.
Publish(r) ==
    LET g == edit[r].guild IN
    /\ pc[r] = "recorded"
    /\ Finished(r)
    /\ IF bound THEN /\ queue' = Append(queue, EventOf(edit[r]))
                     /\ UNCHANGED <<lost, missed>>
                ELSE /\ lost' = lost \cup {g}
                     /\ missed' = missed \cup {g}
                     /\ UNCHANGED queue
    /\ UNCHANGED <<rows, history, raced, bound, proc, inflight, cache, faults>>

\* history.create! or the publisher raises, or Puma dies: the change stays
\* saved and is never announced.
RequestFails(r) ==
    /\ pc[r] \in {"saved", "recorded"}
    /\ Fault
    /\ Finished(r)
    /\ lost' = lost \cup {edit[r].guild}
    /\ missed' = missed \cup {edit[r].guild}
    /\ UNCHANGED <<rows, history, raced, queue, bound, proc, inflight, cache>>

------------------------------------------------------------------------------
(***************************************************************************)
(* bootstrap() of the worker: hydrate(), then listen().                    *)
(***************************************************************************)

Shown(row) == IF row = NoRow THEN Default ELSE row

Boot ==
    /\ svc = "down"
    /\ svc' = "fetching"
    /\ attempt' = 1
    /\ UNCHANGED <<api, queue, bound, snapshot, todo, inflight, cache, faults,
                   lost, missed>>

\* GET /internal/guild-settings/cache-snapshot.  A guild without a row is
\* not in it, which reads as the default.
FetchSnapshot ==
    /\ svc = "fetching"
    /\ snapshot' = [g \in Guilds |-> Shown(rows[g])]
    /\ svc' = "clearing"
    /\ missed' = {}
    /\ UNCHANGED <<api, queue, bound, attempt, todo, inflight, cache, faults, lost>>

\* What hydrate() writes after the clear: the prefixes that are not null and
\* the ranking flags that are set.
KeysOf(snap) ==
    {<<g, "prefix">>  : g \in {x \in Guilds : snap[x].prefix # NoPrefix}} \cup
    {<<g, "ranking">> : g \in {x \in Guilds : snap[x].isRankingEnabled}}

Cleared(c) == [g \in Guilds |-> Default]

\* clearGuildSettingsCache: KEYS of both namespaces and one DEL.  Nobody else
\* writes them, so keys cannot appear in between.  Ghost: what was lost
\* before the snapshot is repaired once all keys are written, unless an
\* older event is still queued and will be replayed over it.
Clear ==
    /\ svc = "clearing"
    /\ cache' = Cleared(cache)
    /\ todo' = KeysOf(snapshot)
    /\ svc' = "filling"
    /\ lost' = {g \in lost : g \in missed \cup Queued(queue)}
    /\ UNCHANGED <<api, queue, bound, attempt, snapshot, inflight, faults, missed>>

\* setPrefix and setRankingEnabled, guild by guild, the prefix first.
FillPrefix(g) ==
    /\ svc = "filling"
    /\ <<g, "prefix">> \in todo
    /\ cache' = [cache EXCEPT ![g].prefix = snapshot[g].prefix]
    /\ todo' = todo \ {<<g, "prefix">>}
    /\ UNCHANGED <<api, queue, bound, svc, attempt, snapshot, inflight, faults,
                   lost, missed>>

FillRanking(g) ==
    /\ svc = "filling"
    /\ <<g, "ranking">> \in todo /\ <<g, "prefix">> \notin todo
    /\ cache' = [cache EXCEPT ![g].isRankingEnabled = TRUE]
    /\ todo' = todo \ {<<g, "ranking">>}
    /\ UNCHANGED <<api, queue, bound, svc, attempt, snapshot, inflight, faults,
                   lost, missed>>

Hydrated ==
    /\ svc = "filling"
    /\ todo = {}
    /\ svc' = "ready"
    /\ UNCHANGED <<api, queue, bound, attempt, snapshot, todo, inflight, cache,
                   faults, lost, missed>>

\* fetch, the parser or Redis throws: again from the fetch, or listen with
\* what the cache holds.  Guilds that were cleared and not yet refilled have
\* lost their settings, unless an event will bring them.
HydrationFails ==
    /\ svc \in {"fetching", "clearing", "filling"}
    /\ Fault
    /\ IF attempt < MaxAttempts THEN svc' = "fetching" /\ attempt' = attempt + 1
                                ELSE svc' = "ready" /\ UNCHANGED attempt
    /\ Lose(Hydrating, queue, inflight)
    /\ todo' = {}
    /\ UNCHANGED <<api, queue, bound, snapshot, inflight, cache>>

\* The first listen() declares and binds the durable queue.
Listen ==
    /\ svc = "ready"
    /\ svc' = "listening"
    /\ bound' = TRUE
    /\ UNCHANGED <<api, queue, attempt, snapshot, todo, inflight, cache, faults,
                   lost, missed>>

------------------------------------------------------------------------------
(***************************************************************************)
(* CacheSyncController#syncGuildSettings.  One Redis connection executes   *)
(* the commands in the order they were sent: all handlers send the prefix  *)
(* when they start and the flag when the prefix was answered.              *)
(***************************************************************************)

Receive ==
    /\ svc = "listening"
    /\ queue # <<>>
    /\ Len(inflight) < MaxInFlight
    /\ queue' = Tail(queue)
    /\ inflight' = Append(inflight, [event |-> Head(queue), step |-> "prefix"])
    /\ UNCHANGED <<api, bound, proc, cache, faults, lost, missed>>

\* The write of handler i is the next of its kind Redis executes.
Turn(i, step) ==
    /\ inflight[i].step = step
    /\ \A j \in 1..(i - 1) : inflight[j].step # step

\* MUTANT of PrefixAfter: a null prefix is not deleted.
PrefixKept(old, data) == IF data.prefix = NoPrefix THEN old ELSE data.prefix
\* deletePrefix of a null prefix, setPrefix of any other.
PrefixAfter(old, data) == data.prefix

\* MUTANT of RankingAfter: the flag is only ever set.
RankingKept(old, data) == old \/ data.isRankingEnabled
\* setRankingEnabled or deleteRankingEnabled.
RankingAfter(old, data) == data.isRankingEnabled

WritePrefix(i) ==
    LET e == inflight[i].event IN
    /\ Turn(i, "prefix")
    /\ cache' = [cache EXCEPT ![e.guild].prefix = PrefixAfter(@, e.data)]
    /\ inflight' = [inflight EXCEPT ![i].step = "ranking"]
    /\ UNCHANGED <<api, queue, bound, proc, faults, lost, missed>>

\* The flag of the oldest handler is the oldest flag sent; its answer ends
\* the handler.
WriteRanking ==
    LET e == Head(inflight).event IN
    /\ inflight # <<>>
    /\ Turn(1, "ranking")
    /\ cache' = [cache EXCEPT ![e.guild].isRankingEnabled = RankingAfter(@, e.data)]
    /\ inflight' = Tail(inflight)
    /\ UNCHANGED <<api, queue, bound, proc, faults, lost, missed>>

Without(i) == SubSeq(inflight, 1, i - 1) \o SubSeq(inflight, i + 1, Len(inflight))

\* Redis refuses a handler's command: a failed prefix write skips the flag.
\* The event was acknowledged on delivery.
HandlerFails(i) ==
    /\ \E step \in {"prefix", "ranking"} : Turn(i, step)
    /\ Fault
    /\ inflight' = Without(i)
    /\ Lose({inflight[i].event.guild}, queue, SubSeq(inflight, i + 1, Len(inflight)))
    /\ UNCHANGED <<api, queue, bound, proc, cache>>

------------------------------------------------------------------------------
(***************************************************************************)
(* The process dies, with the handlers in flight, the keys it had yet to   *)
(* refill and, under noAck, the n messages the broker had already pushed.  *)
(***************************************************************************)
Crash(n) ==
    LET left == SubSeq(queue, n + 1, Len(queue)) IN
    /\ svc # "down"
    /\ svc # "listening" => n = 0
    /\ Fault
    /\ svc' = "down"
    /\ todo' = {}
    /\ inflight' = <<>>
    /\ queue' = left
    /\ Lose(Hydrating \cup Handling(inflight) \cup Queued(SubSeq(queue, 1, n)), left, <<>>)
    /\ UNCHANGED <<api, bound, attempt, snapshot, cache>>

\* Redis at its memory limit drops a key of a guild.
EvictKey(g, evicted) ==
    /\ evicted # cache[g]
    /\ evicted \in {[cache[g] EXCEPT !.prefix = NoPrefix],
                    [cache[g] EXCEPT !.isRankingEnabled = FALSE]}
    /\ Fault
    /\ cache' = [cache EXCEPT ![g] = evicted]
    /\ Lose({g}, queue, <<>>)
    /\ UNCHANGED <<api, queue, bound, proc, inflight>>

------------------------------------------------------------------------------
Init ==
    /\ rows = [g \in Guilds |-> NoRow]
    /\ pc = [r \in Requests |-> "new"]
    /\ edit = [r \in Requests |-> NoEdit]
    /\ history = <<>>
    /\ raced = {}
    /\ queue = <<>>
    /\ bound = FALSE
    /\ svc = "down"
    /\ attempt = 1
    /\ snapshot = [g \in Guilds |-> Default]
    /\ todo = {}
    /\ inflight = <<>>
    /\ cache = [g \in Guilds |-> Default]
    /\ faults = MaxFaults
    /\ lost = {}
    /\ missed = {}

RequestStep(r) == Save(r) \/ Reject(r) \/ Record(r) \/ Publish(r)

ServiceStep ==
    \/ Boot \/ FetchSnapshot \/ Clear \/ Hydrated \/ Listen
    \/ Receive \/ WriteRanking
    \/ \E i \in 1..Len(inflight) : WritePrefix(i)
    \/ \E g \in Guilds : FillPrefix(g) \/ FillRanking(g)

Environment ==
    \/ \E r \in Requests, g \in Guilds, view \in Settings \cup {Invalid} : Load(r, g, view)
    \/ \E r \in Requests : RequestFails(r)
    \/ HydrationFails
    \/ \E i \in 1..Len(inflight) : HandlerFails(i)
    \/ \E n \in 0..Len(queue) : Crash(n)
    \/ \E g \in Guilds, evicted \in Settings : EvictKey(g, evicted)

Next == (\E r \in Requests : RequestStep(r)) \/ ServiceStep \/ Environment

Spec == Init /\ [][Next]_vars

\* A request that was begun is carried through, and a container that is down
\* is restarted and its event loop runs; edits and faults need never happen.
Fairness == (\A r \in Requests : WF_vars(RequestStep(r))) /\ WF_vars(ServiceStep)

FairSpec == Spec /\ Fairness

------------------------------------------------------------------------------
(***************************************************************************)
(* Properties.                                                             *)
(***************************************************************************)

\* Every variable has its type; in particular no event announces a missing
\* row, no request is handled without the record it loaded, and a row that
\* was loaded is still there.
TypeOK ==
    /\ rows \in [Guilds -> Row]
    /\ pc \in [Requests -> {"new", "loaded", "saved", "recorded", "done"}]
    /\ edit \in [Requests -> Edit \cup {NoEdit}]
    /\ \A r \in Active : /\ edit[r] # NoEdit
                         /\ edit[r].loaded # NoRow => rows[edit[r].guild] # NoRow
    /\ \A r \in Committed : edit[r].view # Invalid
    /\ history \in Seq(Entry)
    /\ raced \in SUBSET Guilds
    /\ queue \in Seq(Event)
    /\ bound \in BOOLEAN
    /\ svc \in {"down", "fetching", "clearing", "filling", "ready", "listening"}
    /\ attempt \in 1..MaxAttempts
    /\ snapshot \in [Guilds -> Settings]
    /\ todo \in SUBSET (Guilds \X {"prefix", "ranking"})
    /\ inflight \in Seq(Handler)
    /\ Len(inflight) <= MaxInFlight
    /\ cache \in [Guilds -> Settings]
    /\ faults \in 0..MaxFaults
    /\ lost \in SUBSET Guilds
    /\ missed \in SUBSET Guilds

Creations(g) == {i \in 1..Len(history) : history[i].action = "CREATE" /\ history[i].guild = g}

\* Of several racing first PATCHes for a guild one wins: its settings are
\* recorded as created at most once.
OneCreation ==
    \A g \in Guilds : \A i, j \in Creations(g) : i = j

Settled(g) == g \notin lost \cup Unsent \cup Queued(queue) \cup Handling(inflight)
                       \cup Hydrating

\* The cache says of a guild exactly what the table says, both keys, unless
\* a change is on its way, hydration is at it, or a fault no later hydration
\* repaired lost it.  However many handlers interleave their two writes, no
\* guild is left with the prefix of one update and the flag of another.
\* Guilds two requests have edited at a time are left out: the API saves in
\* one order and may announce in the other.
CoherentUnlessLost ==
    \A g \in Guilds \ raced : Settled(g) => cache[g] = Shown(rows[g])

EC == INSTANCE EventualCache WITH
          Keys   <- Guilds,
          Values <- Settings,
          table  <- [g \in Guilds |-> Shown(rows[g])],
          behind <- {g \in Guilds : ~Settled(g)} \cup raced,
          up     <- svc = "listening"

\* A guild's cached settings fall behind the table only when that guild is
\* edited or something fails, and but for the clear that starts a hydration
\* no write of the worker touches settings that are right.
FollowsTheTable == EC!Spec

\* Once the edits stop, every guild whose changes neither raced nor were lost
\* is cached as the table has it, and stays so.
EventuallyCoherent ==
    <>[](\A g \in Guilds \ (lost \cup raced) : cache[g] = Shown(rows[g]))

------------------------------------------------------------------------------
(***************************************************************************)
(* Why they hold: invariants the proofs are made from.                     *)
(***************************************************************************)

\* The requests that have inserted a guild's row and not yet recorded it.
Creating(g) == {r \in Requests : pc[r] = "saved" /\ edit[r].guild = g /\ edit[r].loaded = NoRow}

\* A guild's creation is done by one request, first in the table and then in
\* the audit log.
CreationInv ==
    \A g \in Guilds :
        /\ rows[g] = NoRow => Creating(g) = {}
        /\ \A r, s \in Creating(g) : r = s
        /\ rows[g] = NoRow \/ Creating(g) # {} => Creations(g) = {}
        /\ \A i, j \in Creations(g) : i = j

\* One request at a time edits a guild that was never raced for, and knows
\* its row: as loaded, and once saved as announced.
EditsInStep ==
    \A r \in Active : edit[r].guild \notin raced =>
        /\ \A s \in Active : edit[s].guild = edit[r].guild => s = r
        /\ IF pc[r] = "loaded" THEN edit[r].loaded = rows[edit[r].guild]
                               ELSE edit[r].view = rows[edit[r].guild]

\* The last queued event of a guild says what the table says.
QueueInStep ==
    \A i \in 1..Len(queue) :
        LET g == queue[i].guild IN
        /\ g \notin raced \cup lost \cup Unsent
        /\ \A j \in (i + 1)..Len(queue) : queue[j].guild # g
        => queue[i].data = rows[g]

\* So does the youngest handler of a guild, and the prefix it has written.
\* Handlers reach their second write in the order they started.
HandlersInStep ==
    /\ svc # "listening" => inflight = <<>>
    /\ \A i, j \in 1..Len(inflight) :
           i < j /\ inflight[j].step = "ranking" => inflight[i].step = "ranking"
    /\ \A i \in 1..Len(inflight) :
           LET h == inflight[i]
               g == h.event.guild
           IN  /\ g \notin raced \cup lost \cup Unsent \cup Queued(queue)
               /\ \A j \in (i + 1)..Len(inflight) : inflight[j].event.guild # g
               => /\ h.event.data = rows[g]
                  /\ h.step = "ranking" => cache[g].prefix = rows[g].prefix

\* A snapshot still to be written is right but for what was lost or
\* announced since it was read.
SnapshotInStep ==
    /\ missed \subseteq lost
    /\ svc \in {"clearing", "filling"} =>
           \A g \in Guilds \ (raced \cup missed \cup Unsent \cup Queued(queue)) :
               snapshot[g] = Shown(rows[g])

\* The keys hydration need not write any more are as in its snapshot.
FillInStep ==
    /\ todo \subseteq IF svc = "filling" THEN KeysOf(snapshot) ELSE {}
    /\ svc = "filling" =>
           \A g \in Guilds \ (lost \cup Unsent \cup Queued(queue)) :
               /\ <<g, "prefix">> \notin todo => cache[g].prefix = snapshot[g].prefix
               /\ <<g, "ranking">> \notin todo =>
                      cache[g].isRankingEnabled = snapshot[g].isRankingEnabled

CoherenceInv == EditsInStep /\ QueueInStep /\ HandlersInStep /\ SnapshotInStep
                    /\ FillInStep /\ CoherentUnlessLost
==============================================================================
