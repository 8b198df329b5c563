# A verification development of Robotman

Robotman is a Discord bot with a web dashboard: five services (`api`,
`auto-response`, `worker`, `gateway`, `dashboard`) around PostgreSQL, Redis and
RabbitMQ. This directory holds TLA+ models of the services and of what happens
between them, the TLC configurations that check the models on small instances,
and TLAPS proofs of the theorems that hold for every instance.

Every definition is translated from the source; `PROJECT.json` ("map") names
the lines each one stands for. Definitions keep the source's names where TLA+
allows. What the models assume of a library or a service is marked external.

    tlasany M.tla                       parse a module
    tlc -workers 2 -config X.cfg MCM    check a run of PROJECT.json
    tlapm M_proofs.tla                  check the proofs

## 1. The system

    Discord --dispatch--> gateway --robotman.events--> worker, auto-response
    Discord <----post---- gateway <--gateway.queue---- worker, auto-response
    browser --HTTP--> api --SQL--> PostgreSQL
                       api --robotman.events--> worker, auto-response --> Redis
    worker, auto-response --GET snapshot at startup--> api
    worker --SQL--> PostgreSQL (ranks)

| component | state | operations | hard behaviour | what makes it correct |
|---|---|---|---|---|
| API: auto-responses | `auto_responses`, `histories` | index, show, create, update, destroy | four steps per request (load, save, record, publish) with no transaction; requests overlap; any step may fail | a deleted row stays deleted; the audit log has no gaps where edits do not overlap |
| API: guild settings | `guild_settings`, `histories` | show, update | the same, and two first PATCHes both find no row | one creation |
| API: event publisher | a RabbitMQ connection per request | publish | raises after the row is saved; nobody closes the connection | - |
| API: audit log listing | none | index with filters and pages | COUNT and page are two queries, paging by offset | no promised page is empty; paging on skips nothing |
| API: sessions, CSRF, OAuth | the browser's cookie | start, create, failure, show, destroy, CSRF token | all tabs share one cookie and answers replace it in any order | a login returns to where it started; no half session; logout ends it |
| API: guild access | `Rails.cache`, one mutex | `current_dashboard_guilds`, `ensure_guild_access!` | cached rights outlive the rights; a sleeping holder of the mutex | bounded staleness; one call to Discord at a time; every request answered |
| auto-response: cache sync | Redis, one list per guild | CREATE, UPDATE, DELETE events | read, await, write back, with other handlers in between | the cache agrees with the table |
| auto-response: hydration | an attempt counter | fetch the snapshot, replace lists, listen | retries, giving up, snapshot before subscription | the cache agrees with the table after a restart |
| auto-response: scanner | none | answer a message | the bot's own messages come back | the bot does not answer itself |
| worker: settings cache sync | Redis, two keys per guild | settings events | two awaited writes per event | no half updates |
| worker: hydration | as above | clear, fill, listen | fails after it cleared the cache | as above |
| worker: ranking | `ranks` | track a message, page, summary, setcolor | messages out of order around a cooldown, racing inserts, two queries per answer | the cooldown holds; scores are explained by messages; an answer is not contradictory |
| worker: command controllers, parser, registry | none | message and interaction commands | tracking runs beside the command and is not awaited | one answer per command, none for bots |
| gateway: Discord in | publisher channel | map, publish | a channel nobody reopens, uncaught errors logged | each service sees each event at most once |
| gateway: outbound consumer | deliveries not yet settled | post, ack, nack | post done and ack lost; nack throwing; no reconnect | nothing queued is lost; duplicates only after faults |
| dashboard: auto-response pages | the cached list, the editor's form, the table's filter and page, saves and deletes under way | visit, filter, turn, type, save, delete, refocus | a save runs on when its page is gone; answers arrive late; others edit; a row vanishes under the editor | what counts as fresh shows the tab's own changes; typing survives; nobody waits for a request that is not under way |
| dashboard: settings page | the cached settings, what the page was rendered with, the form, its saves | visit, change, save, reset, refocus | Reset enables Save while a save is under way: several at once, whose answers come in any order | "synced" is true of the form that says so; a draft is its user's; what is not typed in is what the page shows |
| dashboard: audit explorer | every page seen, the page and filters, the page on the screen | filter, turn, refocus | the page on the screen belongs to another filter; the log grows between requests | never beyond the end of the log |
| dashboard: login, logout | the tabs | log in, log out | several tabs, one cookie | logout ends the session |
| deployment | containers, volumes | restart `unless-stopped` | Redis `allkeys-lru`, no volume; durable RabbitMQ queues | - |

How they interact: the dashboard calls the API over HTTP with a cookie session.
The API calls PostgreSQL, Discord and RabbitMQ. The API's events and the
gateway's go through the topic exchange `robotman.events` into one durable queue
per service, which is declared by the service's first `listen()`. Worker and
auto-response consume with `noAck`: an event is gone for the broker when it is
delivered, and handlers do not wait for one another (`prefetch` has no effect
without acknowledgements). The gateway's outbound consumer is the only manual
acknowledger. The hazards that follow from this are listed, at their lines, in
`PROJECT.json` ("hazards").

## 2. The modules

### TriggerCache (core)

`auto_responses_controller.rb`, `auto_response.rb`, `history_writer.rb`,
`cache-sync.controller.ts`, `cache.service.ts`, `trigger-hydration.service.ts`,
`main.ts` and `rabbitmq.options.ts` of the auto-response service.

State: the table (`rows`), the requests in progress (`pc`, `edit`), the audit
table (`history`), the queue and whether it is bound, the service (`svc`,
`attempt`, `snapshot`), its handlers between their read and their write
(`inflight`), the Redis lists (`cache`). `Start` is the table before the
service first starts. Requests may overlap in every way, and so may handlers;
what that costs is named by three ghosts, never excluded by an assumption:
`lost` are the responses of which no event still to come says what the table
says (a fault took it; or the last of overlapping requests to publish announced
something else than the table has; or a handler read the list before another
wrote it; or the list was evicted; or they are older than the queue), `missed`
those of them lost since the last snapshot was read, and `torn` the responses
whose edits overlapped or died before their audit row.

| action | code |
|---|---|
| `Create`, `Load`, `SaveUpdate`, `Destroy`, `Reject` | `create`, `update`, `destroy` up to the save; the uniqueness validation and the unique index; ActiveRecord writes the changed columns only |
| `Record`, `Publish`, `RequestFails` | `HistoryWriter`, `DashboardEventPublisher`, and either raising |
| `Boot`, `FetchSnapshot`, `FillGuild`, `Hydrated`, `HydrationFails`, `Listen` | `bootstrap()`, `hydrate()`, `GET /internal/auto_responses` |
| `Receive`, `WriteBack`, `HandlerFails` | `syncGuildTriggers` to its first `await`, and from there |
| `Crash`, `Evict` | a restart with what noAck loses; Redis `allkeys-lru` |

A list is a set of triggers: the order of a list is not modelled, the order of
writes is. A row has two fields, enough to tell a partial write from a whole
one. Handlers resume in the order they were started because one Redis
connection answers in order.

### GuildSettings

`guild_settings_controller.rb` and the worker's `cache-sync.controller.ts`,
`cache.service.ts`, `guild-settings-hydration.service.ts`. The same pipeline
with other hazards: the row may not exist yet, and the cache has two keys per
guild, written by two awaited commands (`WritePrefix`, `WriteRanking`) which
interleave with other handlers' commands, and cleared as a whole before a
refill (`Clear`, `FillPrefix`, `FillRanking`). The ghost `raced` holds guilds
that two requests have edited at a time; it only grows, so that what a later
hydration does for such a guild is not expressed. `audit_log_channel_id` is
cached nowhere and left out.

### EventualCache

What both caches promise, whatever their keys and the way of their events are:
an abstract specification, and the property `FollowsTheTable` of `TriggerCache`
and of `GuildSettings` is that they implement it. There is a table, a cache,
and a set `behind` of keys whose entry need not be right. `Change` is the API
changing one key, which is then behind; `Follow` the service writing entries
that are behind, each of which is right if it is no longer behind afterwards;
`Rebuild` a refill before it listens; `Listen` its `listen()`; `Fault` whatever
loses changes or entries. So an entry that is right stays right until its own
key changes or something fails, which is what a handler that writes a whole
list it read some time ago, or a hydration from an old snapshot, might break.

| of `EventualCache` | in `TriggerCache` | in `GuildSettings` |
|---|---|---|
| a key and its value | a response; its one trigger, or none | a guild; its settings |
| `behind` | the responses that are not `Settled`: a change to them is on its way, or came to nothing (`lost`) | the guilds that are not settled or whose edits have `raced` |
| `Change` | saves of a response, whatever is saved | saves of a guild's settings; a `Load` that makes it `raced` |
| `Follow` | what requests and the service do besides, above all `Publish`, `WriteBack` and `FillGuild` | likewise `Publish`, `WritePrefix`, `WriteRanking` and the fills |
| `Rebuild`, `Listen` | none, `Listen` | `Clear`, `Listen` |
| `Fault` | `RequestFails`, `HydrationFails`, `HandlerFails`, `Crash`, `Evict` | the same, with `EvictKey` |

### Ranking

`ranking.service.ts`, `ranking.repository.ts`, the two message controllers, the
leaderboard and setcolor commands. A delivery is tracked (`ReadFlag`,
`RecordMessage`, `TrackFails`) beside its command (`SetColor`, `CheckFlag`,
`ReadPage`, `ReadSummary`, `CommandFails`), as in the code, where tracking is
started and not awaited. Each SQL statement is one action, an upsert included.
`credits` is a ghost: the messages that earned each member's experience. What
`=setcolor` makes of its argument is in `ColorArgument`.

### ColorArgument

`color-utils.ts` as pure operators: `parseInt`, `padStart`, `toString` and the
32-bit shift of JavaScript by what they do to sequences of digits,
`resolveColor`, `parseLeaderboardColorArgument`, `formatHexColor`. The bases (16
and 10), the width of a color and the size of a channel are parameters, so that
all colors of a small system (base 4 and 3, three digits) can be tried;
`Ranking` extends the module, and `MCRanking` gives the members' commands colors
that the parser read. What is computed character by character is a recursive
function over positions (`Value` is Horner's rule, `Quotients` what is left
when digits are taken off), not an operator, so that it can be proved about.
Left out: `#`, commas and parentheses, which are stripped first, the `0x`
prefix, RANDOM and DEFAULT, and channels above the range of one, which nothing
printed has. That no name in `colors.json` looks like a hexadecimal color of
full width is an assumption (`NamesAssumption`): "DC" is the only one made of
hexadecimal digits.

### Outbound

The gateway's `rabbitmq-consumer.ts` and `discord-outbound-service.ts`, with
RabbitMQ's redelivery and Discord. `handler` is where `handleMessage` is with
each message; `Break`, `BrokerRestarts`, `Crash` and `LoseAnswer` are the
faults, and `FaultElsewhere` those of a system around it. `stop()` has no
caller.

### MessagePipeline

Composes `Outbound` (`Out == INSTANCE Outbound WITH Msgs <- Answers`) with the
gateway's way in and both services: a post the consumer gets accepted is, in
the same step, a message Discord will dispatch to the gateway. Whether a
person's message fires a trigger or names a command is left open, since the
caches decide it. `Outbound` is also its abstract specification: the composed
system implements it (`Implements`, below), so what is proved of the way out
holds of the answers in the round trip.

### GuildAccess

`application_controller.rb` 66-91, `oauth_client.rb`,
`guild_summary_builder.rb`: the threads of Puma, each with one request, at
`Rails.cache.fetch`, at the mutex, in the call to Discord, in the sleep after a
429, at the write `fetch` makes after its block, at `ensure_guild_access!`.
Time is discrete and passes while threads wait for something. An answer of
Discord is as of the tick in which it arrives.

### Sessions

`sessions_controller.rb`, `csrf_controller.rb`, `redirect_target_resolver.rb`,
`session_payload_builder.rb` and the dashboard's `login.tsx`, `auth.ts`,
`dashboard-shell.tsx`. `jar` is the cookie. A request carries the session as the
cookie had it when it left; the API's answer replaces the cookie. Since the API
has no other session state, the API's step and the arrival of its answer are one
action. `CreateFails` is what `create` rescues, `CreateRaises` what it does not:
an error without a cookie. `started` is a ghost: the page each login was started
from.

### ClientState, ResponsesPages, SettingsPage, AuditLogPage, Dashboard

A browser tab in one guild. `ClientState` says what the client library keeps, as
operators on records: a query (its data, whether they count as fresh, the
request on its way) and a form (values, default values, touched). Of
@tanstack/react-query it says that requests of one key are shared; that
`invalidateQueries` asks anew only for a query some page watches, throwing the
older request away, and marks the others, that it does not throw when the
request fails, and that who waited for the older request waits for the new one;
that a request outlives its page. Of @tanstack/react-form: a form nobody has
touched follows changed default values when its component is rendered,
`form.reset` clears `touched` and `isSubmitting`. Of @tanstack/react-table: the
page index is reset when rows or filters change. The options `onSuccess` of a
mutation run when its page is gone.

| module | code | state and actions |
|---|---|---|
| `ResponsesPages` | `auto-response-table.tsx`, `auto-response-editor.tsx`, their three routes, `queries.ts`, `api.ts` | `page`, `view`, `form`, `saving`, the query `list`, this tab's mutations `write`; `GoTo*`, `FilterList`, `Turn`, `Type`, `SubmitResponse`, `Delete`; `ApplyWrite`, `RefuseWrite`, `OthersWrite`, `ReadList` for the API; `WriteSucceeds`, `ListArrives`, `ListFails`, `Saved` when answers arrive |
| `SettingsPage` | `guild-settings-form.tsx`, `settings.tsx` | `place`, `initialSettings`, `draft`, `busy`, `mine`, `settings`, `save`; `SetField`, `SubmitSettings`, `ResetForm`; `SaveSucceeds`, `SettingsArrive`, `RenderSettings`, `FinishSave` |
| `AuditLogPage` | `audit-log-explorer.tsx`, `audit-log.tsx`, `audit_logs_controller.rb` | `log`, `pages` by key, `explorer`, `shown`; `SetFilter`, `TurnPage`; `CountLog` and `ReadLog` are the two queries of `index`, with `Grow` in between |
| `Dashboard` | the tab | one of the three sections at a time; they share the faults |

`asOf` in an answer says which of the tab's own changes the API had carried out
when it read the table. `applied`, `completed`, `overtaken` and their
counterparts in `SettingsPage` are ghosts. `initialSettings` is the prop the
settings form was last rendered with. The page is rendered when the query has
other data (`RenderSettings`), the form besides when its `isSubmitting` changes
or the last of its mutations does: `useMutation` no longer observes the older
ones (`Renders`). So `form.reset` to the answer of an older save that finishes
last is followed by no render, and the form keeps that answer, untouched, while
the page and the query have the newer one; Reset, which lets saves overlap, is
what it takes. Pressing Save then writes the older values again.
`FormFollowsSettings` names this state as its only exception. A page that waits
for its first answer counts as left if that fails. The sections read nothing of
each other's, so that a behaviour stays in one. Audit rows are dated as they are
inserted, and the log only grows: a page is determined by how long the log was
when it was counted and when it was read.

## 3. The runs

| run | instance | what it shows |
|---|---|---|
| `trigger` | 2 guilds, 3 responses of which 2 exist, 2 requests, 2 handlers, 2 attempts, 2 faults | the cache is an `EventualCache`: a response that is settled and not lost is cached as the table has it, nothing undoes that, and under fairness it ends so; a change is lost for the reasons named only; no list mixes guilds or holds a response twice; a DELETE is never undone; the audit log of a response nobody tore has no gaps |
| `trigger_lostupdate` | violation | two interleaved handlers: a DELETE removes more than what was deleted |
| `trigger_partialwrite` | violation | overlapping updates: the event announces a state the table never had |
| `settings` | 1 guild, 2 overlapping requests, 2 interleaved handlers, 2 attempts, 2 faults | one creation; the cache is an `EventualCache`; no half updates; convergence |
| `ranking` | 2 members, 3 deliveries at times around the cooldown, a page of one line, 1 fault; two of the 64 colors of three digits to base 4, one that looks decimal | the cooldown, scores explained by messages, answers that agree with themselves; a color the table has, printed and typed in again, is that color |
| `outbound` | 3 messages, 3 faults | nothing lost, duplicates bounded by faults, everything settled unless the connection broke |
| `pipeline` | 1 message or 1 slash command, 3 posts, 1 fault | no echo, each event seen at most once, conversations end |
| `access` | 2 threads, 2 users, 1 guild, a TTL of 2, 1 change of role, 1 restart | bounded staleness, every request answered |
| `sessions` | 2 tabs, 2 pages and a foreign origin, 2 accounts, 4 random values, 1 fault | logins return to where they started; sessions are whole |
| `sessions_logout` | violation | the dashboard's logout leaves the session |
| `dashboard` | 2 responses, 2 payloads, pages of one row, 2 writes; 1 field with 3 values, 2 saves; a log of 3 rows, 2 filters, 3 moves; 1 outside change or failed request | fresh data show the tab's own changes; typing survives; a form nobody typed in shows what its page was rendered with, overlapping saves apart; waits end; paging finds entries and skips nothing |
| `dashboard_byaction` | violation | the audit log filtered by action shows other actions too |

Bounds, and why they are enough. A race in the controllers or in the cache sync
needs two requests or two handlers. Two guilds are there to see a list take
another guild's trigger; three responses so that one guild has two and the other
one; two of them exist from the start, so that both requests may be edits of one
row, which is what a lost update and a torn audit log take. One fault drops what
the rest of a run then has to live with, a second one hits hydration after the
first was an eviction or a failed write; two attempts are one retry and one
giving up. The violation runs have a third request: one creates the row or the
list the other two disagree about. What several faults do together is left to
the proofs, which have no bounds. The deliveries of `ranking` carry timestamps
before, at and after the cooldown, for two members; base 4 with base 3 is the
smallest pair in which a color may be all decimal digits and still need another.
`MaxPosts = 3` in `pipeline` is all the bot can post there: an answer of each
service and one duplicate. In `access` a second thread is what staleness beyond
a TTL takes, and `MaxAge` is tight: with one tick less TLC finds a violation.
Four random values in `sessions` are two logins in two tabs with a CSRF secret
each. In `dashboard` two writes or two saves are what overlaps, and three values
tell what the API had from what each save sends; a second field would be saved
with the first, since a save sends them all; pages of one row make every other
row the next page's; a log of three rows has a page in the middle; three moves
open the log, filter it and turn a page, or turn two. One outside change is a
row deleted under the editor, or a request that fails. `MaxFaults`,
`MaxAttempts`, `MaxInFlight`, `MaxPosts`, `MaxWritten`, `MaxTime`, `MaxChanges`,
`MaxRestarts`, `MaxRandom`, `MaxOutside`, `MaxWrites`, `MaxSaves`, `MaxLog` and
`MaxMoves` bound the behaviours in guards of the actions they count. Symmetry is
used in `sessions` only (tabs and accounts); it has no liveness property.

Deadlock is not checked: in every model requests, messages and time are
finite, and a system with nothing left to do stops.

Fairness. Requests that were begun are carried through by Puma, and the event
loops of the services run: weak fairness of `RequestStep(r)` and of
`ServiceStep`. Containers that died are started again (`restart:
unless-stopped`), so `Boot` and `Connect` are part of it. Nothing mends a
broken connection of the gateway, and there is no fairness for it: the
properties name that state as their exception. Edits, messages and faults need
never happen. In `GuildAccess` a thread that proceeds gets there (weak
fairness), and a thread that finds the mutex free again and again gets it
(strong fairness, of `Lock` only): a Ruby mutex hands itself to waiters in the
order of arrival.

## 4. The proofs

Proofs are in `*_proofs.tla` and are of the same modules the runs check, for
every value of the constants that satisfies the modules' assumptions.

* `TriggerCache_proofs`: `TypeCorrect`; `ListsProper` (`ListsInv`, hence
  `ProperLists`); `DeletedStays` (an action property); `Coherent`
  (`CoherentUnlessLost`); `Audited` (`AuditChain`): all for overlapping
  requests, any number of interleaved handlers and any faults, without further
  hypotheses. `ProperLists` is not inductive: a list that is about to be written
  comes from a snapshot or from a handler's memory, so `ListsInv` says the same
  of those. `CoherentUnlessLost` needs more (`CoherenceInv`): the last queued
  event of a response that is not lost carries its row (`QueueInStep`); so does
  the last of its handlers, the list a handler has read is right about the
  responses nobody else is handling, and a handler that started before another
  of the same guild is lost or will be followed by an event (`HandlersInStep`);
  and a snapshot still to be written is right but for what was missed or
  announced since (`SnapshotInStep`). `AuditChain` rests on `TrailInStep`: what
  a request of a response that is not torn has loaded, and then saved, is what
  the table has, and the last audit row says what the table says, or said before
  a save that is still to be recorded. From the same invariant `Losses`
  (`LostForAReason`): a request whose response nobody else edits announces what
  the table has, so the ghost `lost` grows only by faults, before the queue
  exists, by overlapping edits and by handlers overtaken in their guild.
  `Implements` (`FollowsTheTable`): the coherence before a step and after it
  makes right whatever the step writes of a response that is settled, so each
  step of the system is one of `EventualCache` as soon as it is known how the
  set of settled responses changes: not at all or growing (`CatchesUp`), losing
  the one response a request saves (`ChangesOne`), shrinking with a fault
  (`FallsBehind`).
* `GuildSettings_proofs`: `TypeCorrect`; `Creates` (`OneCreation`), from
  `CreationInv`: between the insert and its audit row there is one request that
  found no row, and the row is there; `Coherent` (`CoherentUnlessLost`, a part
  of `Coherence`, its invariant), for any number of handlers in flight and
  without an assumption on the edits, since the ghost `raced` names the guilds
  where they overlapped. Its `CoherenceInv` is that of `TriggerCache` with two
  differences. An event carries the whole settings, so handlers may interleave:
  `HandlersInStep` says that they reach their second write in the order they
  started, that the youngest of a guild carries its row, and that a prefix it
  has written is the row's. And hydration refills key by key after a clear:
  `FillInStep` says that a key not in `todo` is as in the snapshot, which
  `SnapshotInStep` compares with the table. `Implements` (`FollowsTheTable`) is
  proved as for `TriggerCache`; here a hydration does touch entries that were
  right, but only in `Clear`, which is `Rebuild`.
* `Ranking_proofs`: `TypeCorrect`, `Cooldowns`, `Scores`, `Answers`, from
  `RankingInv`: the row's `last` is the time of the last message that earned
  (`LastCredit`), so the statement's own comparison is enough, and a page in
  memory is never ahead of the table (`PagesBehind`), since scores only grow.
  `ColorsReadBack` (`ColorReadsBack`), for every width and base: the digits of a
  number are what its quotients leave (`WrittenDigits`), so Horner's rule gives
  the quotients back one by one, padded with zeros or not (`ReadsAgain`); a
  smaller number has smaller quotients (`QuotientsGrow`), so no color is wider
  than the largest; a channel never reaches the sign of a 32-bit word
  (`ShiftedChannel`); and the channels are the color's digits to the base of a
  channel (`ChannelsOfColor`). The library's induction theorems take an operator
  for a parameter and cannot be used; `Inductive` says the same of sets, and
  follows from the library's theorem that the strict subsets of a finite set are
  well-founded, since numbers are ordered as their intervals `1..n` are.
* `Outbound_proofs`: `TypeCorrect`, `NoLoss`, `Duplicates`, `Remembered`, from
  `OutboundInv`: handlers and unsettled deliveries go together while the
  consumer listens (`HandlersInStep`), and the posts made and those that may
  still come without a fault are at most one more than the faults
  (`PostsInStep`).
* `MessagePipeline_proofs`: `Implements`: every behaviour of the round trip is
  one of `Outbound` (with a fault elsewhere as `FaultElsewhere`, and steps that
  leave the way out alone as stuttering), so that `AnswersKept` follows from
  `NoLoss` by instantiation; `TypeCorrect`, which takes the types of the way out
  from the refinement; `Answered` (`NoEcho`) and `Once` (`SeenOnce`), from
  `PipelineInv`: what Discord has still to dispatch has not been dispatched
  (`FeedNew`), no event is in two places of a service (`EventsApart`), and what
  was answered was handled (`AnswersDone`).
* `GuildAccess_proofs`: `TypeCorrect`, `OneCalls` (`OneCaller`), `Fresh`
  (`AccessFresh`, whose bound depends on the number of threads and on `TTL`
  alone), from `AccessInv`. While an entry lives nobody new misses it, and each
  thread that had missed it already may prolong it once: what is left of the
  bound (`Slack`) grows by at most `TTL - 1` each time a thread leaves `Missed`,
  so the age of an answer never exceeds `MaxAge`.
* `Sessions_proofs`: `TypeCorrect`, `Returns` (`ReturnsWhereItStarted`),
  `Wholes` (`WholeOrNothing`), from `SessionsInv`: the state and the page to
  return to are set together in whichever copy of the session one looks at
  (`Paired`), in the store or in a request's hands (`LoginsInStep`).

* `Dashboard_proofs`: `TypeCorrect`; of the responses' pages `OwnChanges`,
  `RowsOnPages`, `Waits`, `TypingSurvives` and `EditorFollows`; of the settings
  `Synced`, `OwnSaves`, `FormFollows` and `DraftKept`; of the audit log `Within`
  (`PageWithinLog`), `Promised` (`PromisedPagesHaveEntries`) and
  `NothingSkipped` (`NothingBetweenPages`). Each section has its inductive
  invariant, and a lemma that another section's step keeps it. What counts as
  fresh came from an answer, so an answer on its way has what is asked of fresh
  data (`ListsOnTheirWay`, `SettingsOnTheirWay`); a save that has succeeded has
  been carried out, and whatever is read after it has seen it (`SavesInStep`);
  an editor's default values are the query's data (`EditorInStep`), and a
  settings form nobody has touched shows its own, whatever they are
  (`FormInStep`); the table is at its top whenever it is not shown
  (`TableInStep`); a page counted no more than there is of the log, and a
  selection of an earlier log has no more pages than the whole of a later one
  (`PagesAreOfTheLog`, `PagesGrow`). That a page has entries, and that two pages
  leave none out, is about ranks: they map a selection one to one into the
  numbers below its size, so every such number is the rank of an entry, and a
  selection only grows between count and read (`CountedFirst`). `EditorFollows`,
  `OwnSaves` and `Within` prove `EditorFollowsList`, `SettingsShowOwnSaves` and
  `PageWithinLog`, which no run checks; `FormFollows` proves
  `FormFollowsSettings`.

Assumptions. Each module's `ASSUME`s say that bounds are natural numbers, that
the sets that are counted are finite, and that the values standing for "none"
are none of the data; TLC evaluates them in the runs.

The runs of the two caches check `FollowsTheTable` and not `CoherentUnlessLost`,
which is `EventualCache`'s `UpToDate`, a part of it.

Only model-checked: the liveness properties (`EventuallyCoherent`,
`EventuallySettled`, `EventuallyQuiet`, `EveryRequestAnswered`), which are out
of the prover's reach. Every invariant and every action property of the passing
runs is proved.

## 5. Findings

1. A DELETE event may remove a trigger that was added meanwhile
   (`trigger_lostupdate`): the handler writes back a list it read before
   another handler of the guild wrote its own
   (`cache-sync.controller.ts:36`). The spec file promises the opposite for one
   event at a time (`cache-sync.controller.spec.ts:79`).
2. An update's event announces the row as the request sees it
   (`auto_responses_controller.rb:42`), while the table merged two requests'
   columns (`trigger_partialwrite`): the state `shared/events.ts:96` calls the
   new one was never in the table.
3. The dashboard's logout (`dashboard-shell.tsx:71`) sends no `X-CSRF-Token`,
   the API refuses it, and the page goes to `/login` with the session still in
   the cookie (`sessions_logout`); `sessions_spec.rb:75` says DELETE "clears the
   session".
4. The audit log's filter by action filters nothing (`dashboard_byaction`):
   `audit_logs_controller.rb:39` reads `params[:action]`, which is the name of
   the routed action; `audit_logs_spec.rb:115` says the log "filters by action",
   and the explorer has a select for it.

## 6. Not modelled

* The dispatch of raw packets inside Nest's RabbitMQ transport, Redis, RabbitMQ,
  PostgreSQL and Discord are modelled from how the services use them.
* Hydration with no API address configured is skipped; for the cache that is a
  hydration that failed.
* The window between the uniqueness validation and the write: the index turns
  it into a 500, which is `Reject` like the 422.
* What hydration does for a guild whose edits raced (`raced` only grows): for
  responses the same repair is expressed, by `lost` and `missed`.
* The order of a trigger list; scores beyond PostgreSQL's 32-bit integer;
  malformed events, which no publisher of the repository sends.
* Nest emits outbound messages non-persistent: a broker restart drops those
  queued (`BrokerRestarts` in `Outbound`). Events Discord dispatched while the
  gateway was away are missed and counted as dropped.
* The pruning of the API's memory store, and the age of an answer of Discord in
  transit. A tab that leaves while its request is under way, and a callback
  replayed through the browser's history.
* The threads that are let through by the mutex one after another and each call
  Discord, since `fetch` writes only after the mutex is released: the
  interleaving is in `GuildAccess`, and listed as a hazard no property covers.
* The command parser: it is a pure function over the argument stream of
  @sapphire/lexure, whose source is not part of the repository; the models keep
  its outcome, a command or none. Which trigger matches a text, likewise.
* Of the dashboard: the guild list and home pages, the text search of the audit
  log and of the table, sorting, the preview and details panels, loaders that
  wait for more than one query, and the CSRF promise that `api.ts:22` keeps
  across sessions (a mutation with an old token is refused, which is
  `RefuseWrite`). `routeTree.gen.ts` is generated.
* The default case of `handleEvent`, which logs an event of an unknown type and
  acknowledges it: `gateway.queue` is bound to the two outbound types only
  (`gateway/src/index.ts:36`), and both services publish under the type.
* An answer that is published before `gateway.queue` is bound is dropped; the
  model has it, as a message that is gone, and no property speaks of it.
* The publisher's connections, which nobody closes: resource use outside the
  models.
* Image rendering, ping, health checks and dependency wiring: no state worth a
  model.

## 7. Plan

Done: `TriggerCache`, `GuildSettings` and the `EventualCache` they implement,
`Ranking` with `ColorArgument`,
`Outbound`, `MessagePipeline`, `GuildAccess`, `Sessions`, and `Dashboard` with
its sections; the proofs of all of them.

What would come next, in this order:

1. The CSRF promise: `Dashboard`'s writes composed with `Sessions`, and what a
   tab can still save after another tab's login failed and reset the session.
2. The command parser, once the argument stream it reads has a specification.
