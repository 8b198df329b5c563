---------------------------- MODULE TriggerCache ----------------------------
(***************************************************************************)
(* Auto-responses from the dashboard's edit to the trigger cache:          *)
(*                                                                         *)
(*   api            AutoResponsesController: every request loads its row,  *)
(*                  saves it, writes an audit row and publishes an event,  *)
(*                  as separate steps with no transaction around them;     *)
(*   RabbitMQ       the durable queue of the auto-response service, which  *)
(*                  does not exist before the service's first listen();    *)
(*   auto-response  bootstrap() hydrates the Redis cache from a snapshot   *)
(*                  of the table and then listens; CacheSyncController     *)
(*                  reads a guild's trigger list, edits it and writes it   *)
(*                  back, and other handlers run while it awaits Redis;    *)
(*   Redis          one key per guild, evictable (allkeys-lru).            *)
(*                                                                         *)
(* A row is abstracted to two fields, name and content: partial writes     *)
(* tell them apart.  A guild's list is the set of its triggers, and an     *)
(* absent key is the empty set: neither writer of the cache stores an      *)
(* empty list (deleteTriggers and the hydration's `continue` see to it).   *)
(***************************************************************************)
EXTENDS Naturals, Sequences, FiniteSets

CONSTANTS
    Guilds,       \* Discord servers
    Responses,    \* the UUIDs the auto_responses table may hand out
    GuildOf,      \* the guild column, fixed when the row is created
    Start,        \* the rows that existed before the service's first start
    Names, Contents,
    Requests,     \* mutating HTTP requests, each handled once
    NoRow,        \* no such row; also the `data` a DELETE event lacks
    NoEdit,       \* the state of a request that is not being handled
    MaxInFlight,  \* handlers the consumer interleaves (noAck: no limit)
    MaxAttempts,  \* TRIGGER_HYDRATION_MAX_ATTEMPTS
    MaxFaults     \* failures, crashes and evictions a behaviour may have

ASSUME GuildOfAssumption == GuildOf \in [Responses -> Guilds]
ASSUME NamesAssumption   == Names # {} /\ Contents # {}
ASSUME BoundsAssumption  ==
    /\ MaxInFlight \in Nat \ {0}
    /\ MaxAttempts \in Nat \ {0}
    /\ MaxFaults \in Nat

View    == [name : Names, content : Contents]
Trigger == [responseId : Responses, view : View]

ASSUME NoRowAssumption == NoRow \notin View

Action == {"CREATE", "UPDATE", "DELETE"}
Row    == View \cup {NoRow}

ASSUME StartAssumption == Start \in [Responses -> Row]

Entry  == [action : Action, id : Responses, before : Row, after : Row]

\* A CREATE or UPDATE has its data, a DELETE none (validate_response_data!).
Edit   == {e \in [action : Action, id : Responses, loaded : Row, view : Row] :
            e.action = "DELETE" <=> e.view = NoRow}
Event  == {e \in [action : Action, id : Responses, data : Row] :
            e.action = "DELETE" <=> e.data = NoRow}

ASSUME NoEditAssumption == NoEdit \notin Edit

VARIABLES
    rows,      \* the auto_responses table
    created,   \* the ids it has handed out
    pc, edit,  \* where each request is, and what it holds in memory
    history,   \* the audit table, in insertion order
    queue,     \* auto-response.queue
    bound,     \* whether that queue has been declared and bound
    svc,       \* where the auto-response process is
    attempt,   \* hydrate()'s attempt counter
    snapshot,  \* the part of the snapshot hydrate() has still to write
    inflight,  \* handlers between getTriggers and setTriggers, oldest first
    cache,     \* Redis: the triggers of each guild
    faults,    \* how many faults are left
    lost,      \* ghost: responses of which no event will bring what the
               \*   table says, or whose cached trigger was evicted
    missed,    \* ghost: those of them lost since the snapshot was read
    torn       \* ghost: responses whose edits overlapped or were cut short

api  == <<rows, created, pc, edit, history, torn>>
proc == <<svc, attempt, snapshot>>
vars == <<rows, created, pc, edit, history, queue, bound, svc, attempt,
          snapshot, inflight, cache, faults, lost, missed, torn>>

------------------------------------------------------------------------------
(***************************************************************************)
(* What is on its way for a response.                                      *)
(***************************************************************************)

Of(g) == {id \in Responses : GuildOf[id] = g}

\* Requests that hold a row in memory, and those that have saved it.
Active    == {r \in Requests : pc[r] \in {"loaded", "saved", "recorded"}}
Committed == {r \in Requests : pc[r] \in {"saved", "recorded"}}

Editing   == {edit[r].id : r \in Active}
Unsent    == {edit[r].id : r \in Committed}
Queued(q) == {q[i].id : i \in 1..Len(q)}
Handling  == {inflight[i].event.id : i \in 1..Len(inflight)}

\* What was on its way for ids came to nothing.  An event still to come
\* makes up for the ones before it: every event carries the whole view.
Lose(ids, q) ==
    LET gone == ids \ (Queued(q) \cup Unsent) IN
    /\ lost' = lost \cup gone
    /\ missed' = missed \cup gone

\* r leaves what it saved to the queue, or dies with it.  The last of the
\* requests that have saved id decides: if the queue takes its event, and the
\* event says what the table says, the change is on its way; otherwise no
\* event brings it.
Told(r, id, ok) ==
    LET last == \A s \in Committed \ {r} : edit[s].id # id IN
    /\ lost'   = IF ~last THEN lost   ELSE IF ok THEN lost   \ {id} ELSE lost   \cup {id}
    /\ missed' = IF ~last THEN missed ELSE IF ok THEN missed \ {id} ELSE missed \cup {id}

Fault == faults > 0 /\ faults' = faults - 1

------------------------------------------------------------------------------
(***************************************************************************)
(* The API: AutoResponsesController.                                       *)
(***************************************************************************)

\* validates :name, uniqueness: { scope: :guild }, and the UNIQUE (guild,
\* name) constraint behind it.
NameTaken(id, view) ==
    \E other \in Of(GuildOf[id]) \ {id} :
        rows[other] # NoRow /\ rows[other].name = view.name

\* MUTANT of WriteColumns: the name is not among the permitted parameters.
WriteContent(row, loaded, view) ==
    [row EXCEPT !.content = IF view.content = loaded.content THEN @ ELSE view.content]
\* ActiveRecord writes the columns that differ from what was loaded.
WriteColumns(row, loaded, view) ==
    [name    |-> IF view.name = loaded.name THEN row.name ELSE view.name,
     content |-> IF view.content = loaded.content THEN row.content
                                                  ELSE view.content]

\* MUTANT of UpdateRow: saving upserts.
UpsertRow(row, loaded, view) ==
    IF row = NoRow THEN view ELSE WriteColumns(row, loaded, view)
\* UPDATE ... WHERE id affects no row when the row is gone; update still
\* returns true.
UpdateRow(row, loaded, view) ==
    IF row = NoRow THEN NoRow ELSE WriteColumns(row, loaded, view)

\* A change is saved: from here on it is up to r to tell of it.
Saved(r) ==
    /\ pc' = [pc EXCEPT ![r] = "saved"]
    /\ UNCHANGED <<history, queue, bound, proc, inflight, cache, faults, lost, missed, torn>>

Create(r, id, view) ==
    /\ pc[r] = "new"
    /\ id \notin created
    /\ ~NameTaken(id, view)
    /\ rows' = [rows EXCEPT ![id] = view]
    /\ created' = created \cup {id}
    /\ edit' = [edit EXCEPT ![r] = [action |-> "CREATE", id |-> id,
                                    loaded |-> NoRow, view |-> view]]
    /\ Saved(r)

\* set_auto_response!; a request that finds no row answers 404 and is over.
Load(r, id, action, view) ==
    /\ pc[r] = "new"
    /\ rows[id] # NoRow
    /\ action = "DELETE" <=> view = NoRow
    /\ pc' = [pc EXCEPT ![r] = "loaded"]
    /\ edit' = [edit EXCEPT ![r] = [action |-> action, id |-> id,
                                    loaded |-> rows[id], view |-> view]]
    /\ torn' = torn \cup ({id} \cap Editing)
    /\ UNCHANGED <<rows, created, history, queue, bound, proc, inflight,
                   cache, faults, lost, missed>>

SaveUpdate(r) ==
    LET e == edit[r] IN
    /\ pc[r] = "loaded" /\ e.action = "UPDATE"
    /\ ~NameTaken(e.id, e.view)
    /\ rows' = [rows EXCEPT ![e.id] = UpdateRow(@, e.loaded, e.view)]
    /\ Saved(r)
    /\ UNCHANGED <<created, edit>>

\* destroy! of a row that is already gone deletes nothing and succeeds.
Destroy(r) ==
    LET e == edit[r] IN
    /\ pc[r] = "loaded" /\ e.action = "DELETE"
    /\ rows' = [rows EXCEPT ![e.id] = NoRow]
    /\ Saved(r)
    /\ UNCHANGED <<created, edit>>

\* The request is over and its memory gone.
Finished(r) ==
    /\ pc' = [pc EXCEPT ![r] = "done"]
    /\ edit' = [edit EXCEPT ![r] = NoEdit]

\* 422 (or the unique index's 500): nothing was saved, nothing is said.
Reject(r) ==
    /\ pc[r] = "loaded" /\ edit[r].action = "UPDATE"
    /\ NameTaken(edit[r].id, edit[r].view)
    /\ Finished(r)
    /\ UNCHANGED <<rows, created, history, queue, bound, proc, inflight,
                   cache, faults, lost, missed, torn>>

\* MUTANT of EntryOf: before_state is taken after the update.
EntryTakenLate(e) == [action |-> e.action, id |-> e.id, before |-> e.view, after |-> e.view]
EntryOf(e) == [action |-> e.action, id |-> e.id, before |-> e.loaded, after |-> e.view]

Record(r) ==
    /\ pc[r] = "saved"
    /\ history' = Append(history, EntryOf(edit[r]))
    /\ pc' = [pc EXCEPT ![r] = "recorded"]
    /\ UNCHANGED <<rows, created, edit, queue, bound, proc, inflight, cache,
                   faults, lost, missed, torn>>

\* MUTANT of EventOf: the row as loaded is announced.
EventTakenEarly(e) == [action |-> e.action, id |-> e.id,
                       data |-> IF e.action = "UPDATE" THEN e.loaded ELSE e.view]
EventOf(e) == [action |-> e.action, id |-> e.id, data |-> e.view]

\* The exchange drops what no queue is bound for.
Publish(r) ==
    LET e == EventOf(edit[r]) IN
    /\ pc[r] = "recorded"
    /\ Finished(r)
    /\ queue' = IF bound THEN Append(queue, e) ELSE queue
    /\ Told(r, edit[r].id, bound /\ edit[r].view = rows[edit[r].id])
    /\ UNCHANGED <<rows, created, history, bound, proc, inflight, cache, faults, torn>>

\* history.create! or the publisher raises, or Puma dies: the change stays
\* saved and is never announced.
RequestFails(r) ==
    /\ pc[r] \in {"saved", "recorded"}
    /\ Fault
    /\ Finished(r)
    /\ Told(r, edit[r].id, FALSE)
    /\ torn' = torn \cup (IF pc[r] = "saved" THEN {edit[r].id} ELSE {})
    /\ UNCHANGED <<rows, created, history, queue, bound, proc, inflight, cache>>

------------------------------------------------------------------------------
(***************************************************************************)
(* bootstrap() of the auto-response service: hydrate(), then listen().     *)
(***************************************************************************)

\* MUTANT of TriggersOf: the rows are not grouped.
TriggersOfAll(g) ==
    {[responseId |-> id, view |-> rows[id]] : id \in {i \in Responses : rows[i] # NoRow}}
\* GET /internal/auto_responses: one query, grouped by guild.
TriggersOf(g) ==
    {[responseId |-> id, view |-> rows[id]] : id \in {i \in Of(g) : rows[i] # NoRow}}

NoTriggers == [g \in Guilds |-> {}]

Boot ==
    /\ svc = "down"
    /\ svc' = "fetching"
    /\ attempt' = 1
    /\ UNCHANGED <<api, queue, bound, snapshot, inflight, cache, faults, lost, missed>>

FetchSnapshot ==
    /\ svc = "fetching"
    /\ snapshot' = [g \in Guilds |-> TriggersOf(g)]
    /\ svc' = "filling"
    /\ missed' = {}
    /\ UNCHANGED <<api, queue, bound, attempt, inflight, cache, faults, lost>>

\* A guild's list is replaced; guilds the snapshot does not name are not
\* touched.  Ghost: what was lost before the snapshot is repaired, unless an
\* older event is still queued and will be replayed over it.
FillGuild(g) ==
    /\ svc = "filling"
    /\ snapshot[g] # {}
    /\ cache' = [cache EXCEPT ![g] = snapshot[g]]
    /\ snapshot' = [snapshot EXCEPT ![g] = {}]
    /\ lost' = {id \in lost : \/ GuildOf[id] # g
                              \/ id \in missed
                              \/ id \in Queued(queue)}
    /\ UNCHANGED <<api, queue, bound, svc, attempt, inflight, faults, missed>>

Hydrated ==
    /\ svc = "filling"
    /\ snapshot = NoTriggers
    /\ svc' = "ready"
    /\ UNCHANGED <<api, queue, bound, attempt, snapshot, inflight, cache,
                   faults, lost, missed>>

\* fetch, the parser or Redis throws: try again from the fetch, or give up
\* and listen with whatever the cache holds.
HydrationFails ==
    /\ svc \in {"fetching", "filling"}
    /\ Fault
    /\ IF attempt < MaxAttempts THEN svc' = "fetching" /\ attempt' = attempt + 1
                                ELSE svc' = "ready" /\ UNCHANGED attempt
    /\ snapshot' = NoTriggers
    /\ UNCHANGED <<api, queue, bound, inflight, cache, lost, missed>>

\* The first listen() declares and binds the durable queue.
Listen ==
    /\ svc = "ready"
    /\ svc' = "listening"
    /\ bound' = TRUE
    /\ UNCHANGED <<api, queue, attempt, snapshot, inflight, cache, faults, lost, missed>>

------------------------------------------------------------------------------
(***************************************************************************)
(* CacheSyncController.  One Redis connection answers in the order it was  *)
(* asked, so handlers resume, and write, in the order they were started.   *)
(***************************************************************************)

\* Handlers of e's guild that are under way: what they write will be undone by
\* e's handler, which reads the list before they have written it.
Overtaken(e) ==
    {h.event.id : h \in {inflight[i] : i \in 1..Len(inflight)}}
        \cap (Of(GuildOf[e.id]) \ {e.id})

\* syncGuildTriggers up to its first await.
Receive ==
    LET e == Head(queue) IN
    /\ svc = "listening"
    /\ queue # <<>>
    /\ Len(inflight) < MaxInFlight
    /\ queue' = Tail(queue)
    /\ inflight' = Append(inflight, [event |-> e, seen |-> cache[GuildOf[e.id]]])
    /\ Lose(Overtaken(e), Tail(queue))
    /\ UNCHANGED <<api, bound, proc, cache, faults>>

\* MUTANT of NextTriggers: push without the filter.
PushOnly(seen, e) ==
    IF e.action = "DELETE" THEN {t \in seen : t.responseId # e.id}
                           ELSE seen \cup {[responseId |-> e.id, view |-> e.data]}
\* MUTANT of NextTriggers: no branch for DELETE.
PushAlways(seen, e) ==
    {t \in seen : t.responseId # e.id} \cup {[responseId |-> e.id, view |-> e.data]}
\* The list to write back: DELETE filters, CREATE and UPDATE filter and push.
NextTriggers(seen, e) ==
    {t \in seen : t.responseId # e.id} \cup
    (IF e.action = "DELETE" THEN {} ELSE {[responseId |-> e.id, view |-> e.data]})

\* The rest of the handler: setTriggers, or deleteTriggers of an empty list.
WriteBack ==
    LET h == Head(inflight)
        g == GuildOf[h.event.id] IN
    /\ inflight # <<>>
    /\ inflight' = Tail(inflight)
    /\ cache' = [cache EXCEPT ![g] = NextTriggers(h.seen, h.event)]
    /\ UNCHANGED <<api, queue, bound, proc, faults, lost, missed>>

\* Redis fails the read or the write; the event was acknowledged on delivery.
HandlerFails ==
    /\ inflight # <<>>
    /\ Fault
    /\ inflight' = Tail(inflight)
    /\ Lose({Head(inflight).event.id}, queue)
    /\ UNCHANGED <<api, queue, bound, proc, cache>>

------------------------------------------------------------------------------
(***************************************************************************)
(* The process dies, with the handlers in flight and, under noAck, the n   *)
(* messages the broker had already pushed to it.                           *)
(***************************************************************************)
Crash(n) ==
    LET left == SubSeq(queue, n + 1, Len(queue)) IN
    /\ svc # "down"
    /\ svc # "listening" => n = 0
    /\ Fault
    /\ svc' = "down"
    /\ snapshot' = NoTriggers
    /\ inflight' = <<>>
    /\ queue' = left
    /\ Lose(Handling \cup Queued(SubSeq(queue, 1, n)), left)
    /\ UNCHANGED <<api, bound, attempt, cache>>

\* Redis at its memory limit drops a guild's key.
Evict(g) ==
    /\ cache[g] # {}
    /\ Fault
    /\ cache' = [cache EXCEPT ![g] = {}]
    /\ lost' = lost \cup
               ({t.responseId : t \in cache[g]} \ (Queued(queue) \cup Unsent))
    /\ UNCHANGED <<api, queue, bound, proc, inflight, missed>>

------------------------------------------------------------------------------
Init ==
    /\ rows = Start
    /\ created = {id \in Responses : Start[id] # NoRow}
    /\ pc = [r \in Requests |-> "new"]
    /\ edit = [r \in Requests |-> NoEdit]
    /\ history = <<>>
    /\ queue = <<>>
    /\ bound = FALSE
    /\ svc = "down"
    /\ attempt = 1
    /\ snapshot = NoTriggers
    /\ inflight = <<>>
    /\ cache = NoTriggers
    /\ faults = MaxFaults
    /\ lost = created
    /\ missed = created
    /\ torn = {}

RequestStep(r) ==
    \/ SaveUpdate(r) \/ Destroy(r) \/ Reject(r)
    \/ Record(r) \/ Publish(r)

ServiceStep ==
    \/ Boot \/ FetchSnapshot \/ Hydrated \/ Listen \/ Receive \/ WriteBack
    \/ \E g \in Guilds : FillGuild(g)

Environment ==
    \/ \E r \in Requests, id \in Responses :
        \/ \E view \in View : Create(r, id, view)
        \/ \E view \in Row : \E action \in {"UPDATE", "DELETE"} : Load(r, id, action, view)
    \/ \E r \in Requests : RequestFails(r)
    \/ HydrationFails
    \/ HandlerFails
    \/ \E n \in 0..Len(queue) : Crash(n)
    \/ \E g \in Guilds : Evict(g)

Next == (\E r \in Requests : RequestStep(r)) \/ ServiceStep \/ Environment

Spec == Init /\ [][Next]_vars

\* A request that was begun is carried through, and a container that is down
\* is restarted and its event loop runs; edits and faults need never happen.
Fairness == (\A r \in Requests : WF_vars(RequestStep(r))) /\ WF_vars(ServiceStep)

FairSpec == Spec /\ Fairness

------------------------------------------------------------------------------
(***************************************************************************)
(* Properties.                                                             *)
(***************************************************************************)

Handler == [event : Event, seen : SUBSET Trigger]

\* Every variable has its type; in particular no list in flight or in Redis
\* holds a trigger without content, and no request in progress lost its row.
TypeOK ==
    /\ rows \in [Responses -> Row]
    /\ created \in SUBSET Responses
    /\ pc \in [Requests -> {"new", "loaded", "saved", "recorded", "done"}]
    /\ edit \in [Requests -> Edit \cup {NoEdit}]
    /\ \A r \in Active : edit[r] # NoEdit
    /\ history \in Seq(Entry)
    /\ queue \in Seq(Event)
    /\ bound \in BOOLEAN
    /\ svc \in {"down", "fetching", "filling", "ready", "listening"}
    /\ attempt \in 1..MaxAttempts
    /\ snapshot \in [Guilds -> SUBSET Trigger]
    /\ inflight \in Seq(Handler)
    /\ Len(inflight) <= MaxInFlight
    /\ cache \in [Guilds -> SUBSET Trigger]
    /\ faults \in 0..MaxFaults
    /\ lost \in SUBSET Responses
    /\ missed \in SUBSET Responses
    /\ torn \in SUBSET Responses

\* A list of g's own triggers, one for each response.
ProperList(g, triggers) ==
    /\ \A t \in triggers : GuildOf[t.responseId] = g
    /\ \A t, u \in triggers : t.responseId = u.responseId => t = u

\* However handlers interleave and hydration and events race, a guild's list
\* never holds another guild's trigger, nor two triggers of one response: an
\* edited response never answers with its old content as well.
ProperLists == \A g \in Guilds : ProperList(g, cache[g])

Cached(triggers, id) == {t \in triggers : t.responseId = id}
AsTrigger(id, row)   == IF row = NoRow THEN {} ELSE {[responseId |-> id, view |-> row]}

OnItsWay == lost \cup Unsent \cup Queued(queue)
Settled(id) == id \notin OnItsWay \cup Handling

\* The cache says of a response exactly what the table says, however requests
\* and handlers overlap, unless a change to it is on its way or came to
\* nothing: a fault took it, the last to announce it announced something else
\* than what was saved, or the handler of a later event had already read the
\* guild's list; and no later snapshot of its guild repaired it.
CoherentUnlessLost ==
    \A id \in Responses :
        Settled(id) => Cached(cache[GuildOf[id]], id) = AsTrigger(id, rows[id])

\* One entry per response: none, or its one trigger.
EC == INSTANCE EventualCache WITH
          Keys   <- Responses,
          Values <- {{}} \cup {{t} : t \in Trigger},
          table  <- [id \in Responses |-> AsTrigger(id, rows[id])],
          cache  <- [id \in Responses |-> Cached(cache[GuildOf[id]], id)],
          behind <- {id \in Responses : ~Settled(id)},
          up     <- svc = "listening"

\* A response's cached trigger falls behind the table only when that response
\* is changed or something fails: handlers of other responses of the guild,
\* which write the whole list, never undo it, nor does a hydration, and what
\* the service catches up with is right at once.
FollowsTheTable == EC!Spec

\* A deleted response stays deleted in the table: an update that loaded it
\* before the DELETE does not bring it back.
DeletedStaysDeleted ==
    [][\A id \in created : rows[id] = NoRow => rows'[id] = NoRow]_vars

\* Handlers of a guild that have read its list before an older handler of
\* another response has written it: that response's change will be undone.
Overtaking(id) ==
    \E i, j \in 1..Len(inflight) :
        /\ i < j /\ inflight[i].event.id = id
        /\ inflight[j].event.id # id /\ GuildOf[inflight[j].event.id] = GuildOf[id]

\* Nothing else costs a response its change: as long as nothing fails, the
\* queue exists, edits of the response do not overlap and no handler of its
\* guild overtakes it, what is announced is what was saved and gets there.
LostForAReason ==
    [][\A id \in lost' \ lost :
         \/ faults' < faults
         \/ ~bound
         \/ id \in torn
         \/ Overtaking(id)']_vars

PriorEntries(i) == {j \in 1..(i - 1) : history[j].id = history[i].id}

\* The audit log tells a response's story without gaps, an entry's `before`
\* being what the entry before it left, whatever else fails, as long as its
\* edits do not overlap and none dies between the save and the entry.
AuditChain ==
    \A i \in 1..Len(history) : history[i].id \notin torn =>
        \A j \in PriorEntries(i) :
            (\A k \in PriorEntries(i) : k <= j) => history[i].before = history[j].after

\* Once the edits stop, every response whose changes were not lost is cached
\* as the table has it, and stays so.
EventuallyCoherent ==
    <>[](\A id \in Responses \ lost :
            Cached(cache[GuildOf[id]], id) = AsTrigger(id, rows[id]))

\* shared/events.ts: a CREATE or UPDATE event carries the new state, that is,
\* the row as the request's save left it.
AnnouncesTheNewState ==
    [][\A r \in Requests :
        SaveUpdate(r) => rows'[edit[r].id] = edit[r].view]_vars

\* cache-sync.controller.spec: a DELETE event removes only the deleted
\* trigger when others remain.
RemovesOnlyTheDeleted ==
    [][inflight # <<>> /\ Head(inflight).event.action = "DELETE" =>
        \A g \in Guilds : \A t \in cache[g] :
            t.responseId # Head(inflight).event.id /\ WriteBack => t \in cache'[g]]_vars

------------------------------------------------------------------------------
(***************************************************************************)
(* The inductive invariants behind the two cache properties.               *)
(***************************************************************************)

\* A cached list, and every list a handler read or hydration is about to write,
\* holds triggers of its own guild only and at most one per response: two
\* handlers that interleave can lose a change, never mix guilds or double one.
ListsInv ==
    /\ ProperLists
    /\ \A g \in Guilds : ProperList(g, snapshot[g])
    /\ \A i \in 1..Len(inflight) : ProperList(GuildOf[inflight[i].event.id], inflight[i].seen)

LastOf(id, i) ==
    /\ queue[i].id = id
    /\ \A j \in (i + 1)..Len(queue) : queue[j].id # id

Agrees(triggers, id) == Cached(triggers, id) = AsTrigger(id, rows[id])

\* The last event queued for a response carries what the table has.
QueueInStep ==
    \A id \in Responses \ (lost \cup Unsent) : \A i \in 1..Len(queue) :
        LastOf(id, i) => queue[i].data = rows[id]

Later(i) == {inflight[j].event.id : j \in (i + 1)..Len(inflight)}

\* So does an event being handled, if it is the last; the list it will be put
\* into is right about the guild's other responses, but for those of the
\* handlers before it, which are lost unless more is to come for them.
HandlersInStep ==
    \A i \in 1..Len(inflight) :
        LET h == inflight[i] IN
        /\ h.event.id \notin OnItsWay \cup Later(i) => h.event.data = rows[h.event.id]
        /\ \A id \in Of(GuildOf[h.event.id]) \ (OnItsWay \cup Handling) : Agrees(h.seen, id)
        /\ \A j \in 1..(i - 1) :
            LET id == inflight[j].event.id IN
            GuildOf[id] = GuildOf[h.event.id] /\ id # h.event.id => id \in OnItsWay \cup Later(i)

\* A snapshot still to be written is right but for what happened since.
SnapshotInStep ==
    \A g \in Guilds : svc = "filling" /\ snapshot[g] # {} =>
        \A id \in Of(g) \ (missed \cup Unsent \cup Queued(queue)) : Agrees(snapshot[g], id)

PendingInStep ==
    /\ QueueInStep
    /\ HandlersInStep
    /\ SnapshotInStep
    /\ svc # "listening" => inflight = <<>>
    /\ missed \subseteq lost

CoherenceInv == PendingInStep /\ CoherentUnlessLost

\* What the log, and the requests that have still to write to it, know of a
\* response whose edits neither overlap nor are cut short.
LastEntry(id, i) ==
    /\ history[i].id = id
    /\ \A k \in (i + 1)..Len(history) : history[k].id # id

Saving(id) == {r \in Requests : pc[r] = "saved" /\ edit[r].id = id}

\* One request at a time, with what it loaded, and then what it saved, in the
\* table; and the last entry says what the table says, or said before a save
\* that is still to be recorded.
TrailInStep ==
    /\ \A id \in Responses \ created : rows[id] = NoRow
    /\ Editing \cup {history[i].id : i \in 1..Len(history)} \subseteq created
    /\ \A r, s \in Active :
        r # s /\ edit[r].id = edit[s].id => edit[r].id \in torn
    /\ \A r \in Active : edit[r].id \notin torn =>
        /\ pc[r] = "loaded" => edit[r].loaded = rows[edit[r].id] /\ rows[edit[r].id] # NoRow
        /\ r \in Committed  => edit[r].view = rows[edit[r].id]
    /\ \A i \in 1..Len(history) : \A id \in Responses \ torn :
        LastEntry(id, i) =>
            /\ Saving(id) = {} => history[i].after = rows[id]
            /\ \A r \in Saving(id) : history[i].after = edit[r].loaded

AuditInv == TrailInStep /\ AuditChain
==============================================================================
