----------------------------- MODULE AuditLogPage -----------------------------
(***************************************************************************)
(* The audit log: AuditLogsController#index, which answers a page of it    *)
(* with two queries, and the dashboard's AuditLogExplorer, which keeps     *)
(* every page it has seen under its number and filters, shows the last     *)
(* page it had while another is loading, and pages by what that one said   *)
(* of the totals.                                                          *)
(*                                                                         *)
(* The log only grows, so what a query saw of it is its length then, and a *)
(* page is determined by that.  Rows are dated as they are inserted.  The  *)
(* text search is like the resource filter and is left out.                *)
(***************************************************************************)
EXTENDS Sequences, FiniteSets, ClientState

CONSTANTS
    Actions, Resources,  \* AUDIT_LOG_ACTIONS, AUDIT_LOG_RESOURCE_TYPES
    Filters,             \* what the two selects are set to
    LogPageSize,         \* DEFAULT_PAGE_SIZE: 25
    MaxLog,              \* rows the log comes to have
    MaxMoves             \* what the user does

Entry  == [action : Actions, resource : Resources]
Filter == [action : Actions \cup {All}, resource : Resources \cup {All}]
NoFilter == [action |-> All, resource |-> All]

ASSUME FiltersAssumption ==
    Filters \subseteq Filter /\ NoFilter \in Filters /\ All \notin Actions \cup Resources
ASSUME LogAssumption == LogPageSize \in Nat \ {0} /\ MaxLog \in Nat /\ MaxMoves \in Nat

Lengths == 0..MaxLog
\* ["audit-log", guildId, params]
Key  == [page : 1..(MaxLog + 1), filter : Filters]
\* A page as it was answered: the log when it was counted and when it was read.
Page == [counted : Lengths, read : Lengths]

VARIABLES
    log,       \* the history table, oldest row first
    pages,     \* the queries
    failed,    \* those whose last request failed
    explorer,  \* the explorer's page and filters, if it is mounted
    shown,     \* the page it has on the screen, and its key
    moves

logVars == <<log, pages, failed, explorer, shown, moves, outside>>

------------------------------------------------------------------------------
(***************************************************************************)
(* AuditLogsController.                                                    *)
(***************************************************************************)

\* filtered_where_sql.  params[:action] is the name of the controller's
\* action, "index", whatever the query string says: it never selects.
Selects(filter, entry) == filter.resource \in {All, entry.resource}

Selection(filter, length) == {i \in 1..length : Selects(filter, log[i])}

\* ORDER BY created_at DESC: how many rows of the selection come before i.
Rank(filter, length, i) == Cardinality({j \in Selection(filter, length) : j > i})

\* MUTANT of Entries: the page is cut out of the log and filtered afterwards.
EntriesFilteredLate(key, length) ==
    {i \in Selection(key.filter, length) :
        length - i \in ((key.page - 1) * LogPageSize)..(key.page * LogPageSize - 1)}
\* LIMIT and OFFSET
Entries(key, length) ==
    {i \in Selection(key.filter, length) :
        Rank(key.filter, length, i) \in ((key.page - 1) * LogPageSize)..(key.page * LogPageSize - 1)}

Total(filter, length) == Cardinality(Selection(filter, length))

\* [1, (total.to_f / page_size).ceil].max
TotalPages(filter, length) ==
    LET total == Total(filter, length) IN
    IF total = 0 THEN 1 ELSE (total + LogPageSize - 1) \div LogPageSize

------------------------------------------------------------------------------
(***************************************************************************)
(* AuditLogExplorer.                                                       *)
(***************************************************************************)

Move == moves < MaxMoves /\ moves' = moves + 1

At1(filter) == [page |-> 1, filter |-> filter]

\* The explorer uses the queries of keys; failed ones are asked for again.
Use(keys) ==
    /\ pages' = [k \in Key |-> IF k \in keys THEN Watched(pages[k]) ELSE pages[k]]
    /\ failed' = failed \ {k \in keys : pages[k].data = None}

\* keepPreviousData: the page on the screen stays until there is another.
Turned(key) ==
    IF pages[key].data = None THEN shown ELSE [key |-> key, data |-> pages[key].data]

\* The route's loader, and the explorer when it mounts.
OpenLog ==
    /\ explorer = None
    /\ Move
    /\ Use({At1(NoFilter)})
    /\ explorer' = At1(NoFilter)
    /\ shown' = Turned(At1(NoFilter))
    /\ UNCHANGED <<log, outside>>

CloseLog ==
    /\ explorer # None
    /\ explorer' = None
    /\ shown' = None
    /\ UNCHANGED <<log, pages, failed, moves, outside>>

\* A select is changed: the explorer renders with the page it was on and the
\* new filter, and only then does the effect turn to the first page.
SetFilter(filter) ==
    /\ explorer # None
    /\ filter # explorer.filter
    /\ Move
    /\ Use({[explorer EXCEPT !.filter = filter], At1(filter)})
    /\ explorer' = At1(filter)
    /\ shown' = Turned(At1(filter))
    /\ UNCHANGED <<log, outside>>

\* The table and its buttons: no error, and something to show.
Usable == explorer # None /\ shown # None /\ explorer \notin failed

\* page >= (data?.totalPages ?? 1) disables Next.
CanNext == explorer.page < TotalPages(shown.key.filter, shown.data.counted)

TurnPage(number) ==
    /\ Usable
    /\ \/ number = explorer.page + 1 /\ CanNext
       \/ number + 1 = explorer.page
    /\ number \in 1..(MaxLog + 1)
    /\ Move
    /\ LET key == [explorer EXCEPT !.page = number] IN
        /\ Use({key})
        /\ explorer' = key
        /\ shown' = Turned(key)
    /\ UNCHANGED <<log, outside>>

RefocusLog ==
    /\ explorer # None
    /\ ~pages[explorer].fresh /\ pages[explorer].fetch = "idle"
    /\ Move
    /\ Use({explorer})
    /\ UNCHANGED <<log, explorer, shown, outside>>

------------------------------------------------------------------------------
(***************************************************************************)
(* Answers, and everybody else.                                            *)
(***************************************************************************)

\* AuditLog::HistoryWriter, for whoever changes something in the guild.
Grow(entry) ==
    /\ Len(log) < MaxLog
    /\ log' = Append(log, entry)
    /\ UNCHANGED <<pages, failed, explorer, shown, moves, outside>>

\* SELECT COUNT(*)
CountLog(k) ==
    /\ pages[k].fetch = "asked"
    /\ pages' = [pages EXCEPT ![k].fetch = "counted", ![k].answer = [counted |-> Len(log), read |-> 0]]
    /\ UNCHANGED <<log, failed, explorer, shown, moves, outside>>

\* MUTANT of ReadAt: the rows are read before they are counted.
ReadBefore(answer) == [counted |-> Len(log), read |-> answer.counted]
ReadAt(answer) == [answer EXCEPT !.read = Len(log)]

\* SELECT ... LIMIT ... OFFSET
ReadLog(k) ==
    /\ pages[k].fetch = "counted"
    /\ pages' = [pages EXCEPT ![k] = Answered(@, ReadAt(@.answer))]
    /\ UNCHANGED <<log, failed, explorer, shown, moves, outside>>

PageArrives(k) ==
    /\ pages[k].fetch = "answered"
    /\ pages' = [pages EXCEPT ![k] = Arrived(@)]
    /\ failed' = failed \ {k}
    /\ shown' = IF k = explorer THEN [key |-> k, data |-> pages[k].answer] ELSE shown
    /\ UNCHANGED <<log, explorer, moves, outside>>

\* retry: false.  The error takes the place of the table and its buttons.
PageFails(k) ==
    /\ pages[k].fetch # "idle"
    /\ Outside
    /\ pages' = [pages EXCEPT ![k] = Failed(@)]
    /\ failed' = failed \cup {k}
    /\ UNCHANGED <<log, explorer, shown, moves>>

\* Thirty seconds have passed since a page arrived.  No change to the guild
\* makes it stale before: nobody calls invalidateAuditLog.
PageExpires(k) ==
    /\ pages[k].fresh
    /\ pages' = [pages EXCEPT ![k] = Expired(@)]
    /\ UNCHANGED <<log, failed, explorer, shown, moves, outside>>

------------------------------------------------------------------------------
LogInit ==
    /\ log = <<>>
    /\ pages = [k \in Key |-> NoQuery]
    /\ failed = {}
    /\ explorer = None
    /\ shown = None
    /\ moves = 0

LogUser ==
    \/ OpenLog \/ CloseLog \/ RefocusLog
    \/ \E filter \in Filters : SetFilter(filter)
    \/ \E number \in 1..(MaxLog + 1) : TurnPage(number)

LogEnvironment ==
    \/ \E entry \in Entry : Grow(entry)
    \/ \E k \in Key : CountLog(k) \/ ReadLog(k) \/ PageArrives(k) \/ PageFails(k) \/ PageExpires(k)

LogNext == LogUser \/ LogEnvironment

LogSpec == LogInit /\ outside = 0 /\ [][LogNext]_logVars

------------------------------------------------------------------------------
(***************************************************************************)
(* Properties.                                                             *)
(***************************************************************************)

PageQuery == [data : Page \cup {None}, fresh : BOOLEAN,
              fetch : {"idle", "asked", "counted", "answered"}, answer : Page \cup {None}]

LogTypeOK ==
    /\ log \in Seq(Entry) /\ Len(log) <= MaxLog
    /\ pages \in [Key -> PageQuery]
    /\ failed \in SUBSET Key
    /\ explorer \in Key \cup {None}
    /\ shown \in [key : Key, data : Page] \cup {None}
    /\ moves \in 0..MaxMoves
    /\ outside \in 0..MaxOutside

Cached(key) == pages[key].data # None

\* A page that its own answer counts among the pages has entries: rows that
\* are recorded between the COUNT and the page move others to later pages,
\* but never empty a page that was promised.
PromisedPagesHaveEntries ==
    \A k \in Key : Cached(k) =>
        LET d == pages[k].data IN
        k.page <= TotalPages(k.filter, d.counted) /\ Total(k.filter, d.counted) > 0
            => Entries(k, d.read) # {}

\* Paging on skips nothing: whatever was recorded between the requests, no
\* entry is older than a page and newer than the next, as long as the next
\* was not read before it.  Offsets shift, so entries may show up twice.
NothingBetweenPages ==
    \A k, next \in Key :
        /\ next.filter = k.filter /\ next.page = k.page + 1
        /\ Cached(k) /\ Cached(next) /\ pages[k].data.read <= pages[next].data.read
        => LET here  == Entries(k, pages[k].data.read)
               there == Entries(next, pages[next].data.read) IN
           \A i \in Selection(k.filter, pages[k].data.read) :
               here # {} /\ (\A h \in here : i < h) => \E t \in there : i <= t

\* Next never leads past the end of the whole log, though it may lead past
\* the end of the filtered one: the totals on the screen may still be those of
\* another filter, never those of a log that never was.
PageWithinLog ==
    explorer # None => explorer.page <= TotalPages(NoFilter, Len(log))

\* audit_logs_spec: the log "filters by action, resource type, and text query".
FiltersByAction ==
    \A k \in Key : Cached(k) /\ k.filter.action # All =>
        \A i \in Entries(k, pages[k].data.read) : log[i].action = k.filter.action
==============================================================================
