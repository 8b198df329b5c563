---------------------------- MODULE ResponsesPages ----------------------------
(***************************************************************************)
(* The dashboard's auto-response pages in one browser tab: the list with   *)
(* its table and its Delete buttons, the editor of a new or an existing    *)
(* response, and the query ["auto-responses", guildId] behind them.        *)
(*                                                                         *)
(* Saving and deleting are requests that run on while the user goes        *)
(* elsewhere; when one succeeds the query is invalidated, and only after   *)
(* the list has been fetched again does a saved editor return to it.       *)
(* Others edit the same table.                                             *)
(*                                                                         *)
(* A response is abstracted to the payload the editor sends, which the API *)
(* keeps or replaces as a whole; what it does within a request is module   *)
(* TriggerCache's.  A page that waits for its first list counts as left.   *)
(***************************************************************************)
EXTENDS FiniteSets, ClientState

CONSTANTS
    Ids,        \* the UUIDs the auto_responses table may hand out
    Payloads,   \* what UpsertAutoResponseSchema accepts
    Invalid,    \* what it does not, an empty form included
    PageSize,   \* rows on a page of the table: 6
    StartRows,  \* the auto_responses table to begin with
    MaxWrites   \* requests this tab makes to save and to delete

Writes == 1..MaxWrites
Table  == [Ids -> Payloads \cup {None}]
Values == Payloads \cup {Invalid}

ASSUME PayloadsAssumption ==
    None \notin Payloads \cup {Invalid} /\ Invalid \notin Payloads /\ All \notin Payloads
ASSUME IdsAssumption    == None \notin Ids /\ IsFiniteSet(Ids)
ASSUME BoundsAssumption == PageSize \in Nat \ {0} /\ MaxWrites \in Nat
ASSUME StartAssumption  == StartRows \in Table

\* A list as the API read it, and the writes of this tab it had seen by then.
List == [rows : Table, asOf : SUBSET Writes]

\* Neither a list nor a form is the lack of one.
ASSUME NoListAssumption == None \notin List \cup Form(Values)

\* A request of this tab; what no longer matters of it is None.
Write == [op : {"create", "update", "delete", None}, id : Ids \cup {None},
          payload : Payloads \cup {None},
          step : {"unsent", "sent", "applied", "refetching", "refetched", "over"}]

VARIABLES
    rows,       \* the auto_responses table, for the guild
    born,       \* the ids it has handed out
    list,       \* the query
    page,       \* the route: where the tab is, and the response it edits
    form,       \* the editor's form, if one is open
    saving,     \* the write the open form waits for
    view,       \* the list's filter and page index
    write,      \* this tab's mutations
    applied,    \* ghost: the writes the API has carried out
    completed,  \* ghost: those whose success the tab knows of
    overtaken   \* ghost: those of them that found an older request for the
                \*   list on its way while no page watched it

server        == <<rows, born, applied>>
tab           == <<page, form, saving, view>>
known         == <<completed, overtaken>>
responsesVars == <<server, list, tab, write, known, outside>>

At(place, id) == [at |-> place, id |-> id]
Elsewhere     == At("away", None)

\* The routes that useSuspenseQuery the list.
ListWatched == page.at \in {"list", "edit"}

TopOfTable == [filter |-> All, index |-> 0]

------------------------------------------------------------------------------
(***************************************************************************)
(* The list: AutoResponsesPage and AutoResponseTable.                      *)
(***************************************************************************)

Matches(table, filter) ==
    {id \in Ids : table[id] # None /\ (filter = All \/ table[id] = filter)}

Rows  == list.data.rows
Shown == Matches(Rows, view.filter)

\* The route's loader, and the page when it mounts.
ListOpens ==
    /\ page' = At(IF list.data = None THEN "loading" ELSE "list", None)
    /\ list' = Watched(list)
    /\ view' = TopOfTable
    /\ form' = None /\ saving' = None

\* A NavLink, or the editor's Cancel.
GoToList ==
    /\ page.at \notin {"list", "loading"}
    /\ ListOpens
    /\ UNCHANGED <<server, write, known, outside>>

\* The tab goes to a page where the list is not.
GoTo(place, opened) ==
    /\ page' = place
    /\ view' = TopOfTable
    /\ form' = opened /\ saving' = None

LeaveResponses ==
    /\ page # Elsewhere
    /\ GoTo(Elsewhere, None)
    /\ UNCHANGED <<server, list, write, known, outside>>

\* The filters take effect, and the table turns back to its first page.
FilterList(f) ==
    /\ page.at = "list"
    /\ f # view.filter
    /\ view' = [filter |-> f, index |-> 0]
    /\ UNCHANGED <<server, list, page, form, saving, write, known, outside>>

\* getCanNextPage and getCanPreviousPage disable the buttons.
Turn(index) ==
    /\ page.at = "list"
    /\ \/ index = view.index + 1 /\ index * PageSize < Cardinality(Shown)
       \/ index + 1 = view.index
    /\ view' = [view EXCEPT !.index = index]
    /\ UNCHANGED <<server, list, page, form, saving, write, known, outside>>

\* MUTANT of Refiltered: autoResetPageIndex: false.
RefilteredInPlace(v, old, new) == v
\* The table's rows change: its page index is reset.
Refiltered(v, old, new) == IF old = new THEN v ELSE [v EXCEPT !.index = 0]

------------------------------------------------------------------------------
(***************************************************************************)
(* The editor.                                                             *)
(***************************************************************************)

\* getDefaultValues
GoToNew ==
    /\ page.at # "new"
    /\ GoTo(At("new", None), Opened(Invalid))
    /\ UNCHANGED <<server, list, write, known, outside>>

GoToEditor(id) ==
    /\ page.at = "list"
    /\ id \in Shown
    /\ GoTo(At("edit", id), Opened(Rows[id]))
    /\ list' = Watched(list)
    /\ UNCHANGED <<server, write, known, outside>>

\* handleChange of any field; v is what the form then has.
Type(v) ==
    /\ form # None
    /\ form' = Changed(form, v)
    /\ UNCHANGED <<server, list, page, saving, view, write, known, outside>>

Unsent == [op |-> None, id |-> None, payload |-> None, step |-> "unsent"]

\* A request leaves the tab.
Send(n, op, id, payload) ==
    /\ write[n] = Unsent
    /\ \A m \in Writes : m < n => write[m] # Unsent
    /\ write' = [write EXCEPT ![n] = [op |-> op, id |-> id, payload |-> payload, step |-> "sent"]]

\* handleSubmit, which touches every field.  The button is disabled while the
\* form is invalid or waits for its last submission.
SubmitResponse(n) ==
    /\ form # None /\ saving = None
    /\ form.values \in Payloads
    /\ Send(n, IF page.at = "new" THEN "create" ELSE "update", page.id, form.values)
    /\ form' = Changed(form, form.values)
    /\ saving' = n
    /\ UNCHANGED <<server, list, page, view, known, outside>>

\* The Delete button of a row is never disabled.
Delete(n, id) ==
    /\ page.at = "list"
    /\ id \in Shown
    /\ Send(n, "delete", id, None)
    /\ UNCHANGED <<server, list, tab, known, outside>>

------------------------------------------------------------------------------
(***************************************************************************)
(* The API and the others who use it.                                      *)
(***************************************************************************)

\* What write n has come to.
Become(n, op, step) ==
    write' = [write EXCEPT ![n] = [op |-> op, id |-> None, payload |-> None, step |-> step]]

Finding(n) == IF write[n].op = "create" THEN born # Ids ELSE rows[write[n].id] # None

ApplyWrite(n) ==
    /\ write[n].step = "sent"
    /\ Finding(n)
    /\ \E id \in IF write[n].op = "create" THEN Ids \ born ELSE {write[n].id} :
        /\ rows' = [rows EXCEPT ![id] = write[n].payload]
        /\ born' = born \cup {id}
    /\ Become(n, write[n].op, "applied")
    /\ applied' = applied \cup {n}
    /\ UNCHANGED <<list, tab, known, outside>>

\* 404; or any other refusal, or an answer that never comes, in which case the
\* request may have been carried out.  mutation.error is shown, and the form
\* may be submitted again.
RefuseWrite(n) ==
    /\ \/ write[n].step = "sent" /\ ~Finding(n) /\ UNCHANGED outside
       \/ write[n].step \in {"sent", "applied"} /\ Outside
    /\ Become(n, None, "over")
    /\ saving' = IF saving = n THEN None ELSE saving
    /\ UNCHANGED <<server, list, page, form, view, known>>

OthersWrite(id, payload) ==
    /\ Outside
    /\ IF id \in born THEN rows[id] # None ELSE payload # None
    /\ payload # rows[id]
    /\ rows' = [rows EXCEPT ![id] = payload]
    /\ born' = born \cup {id}
    /\ UNCHANGED <<list, tab, write, applied, known>>

\* AutoResponsesController#index
ReadList ==
    /\ list.fetch = "asked"
    /\ list' = Answered(list, [rows |-> rows, asOf |-> applied])
    /\ UNCHANGED <<server, tab, write, known, outside>>

------------------------------------------------------------------------------
(***************************************************************************)
(* The tab when answers arrive.                                            *)
(***************************************************************************)

\* What follows the wait for the list: onSaved, or nothing.
AfterWait(op) == [Unsent EXCEPT !.op = IF op = "delete" THEN None ELSE op,
                                !.step = IF op = "delete" THEN "over" ELSE "refetched"]

\* MUTANT of OnSuccess: the list is not invalidated.
OnSuccessOnly(q) == q
\* onSuccess: await invalidateAutoResponses(queryClient, guildId)
OnSuccess(q) == Invalidated(q, ListWatched)

\* Nothing is waited for when no page watches the list.
WriteSucceeds(n) ==
    /\ write[n].step = "applied"
    /\ IF ListWatched THEN Become(n, write[n].op, "refetching")
                      ELSE write' = [write EXCEPT ![n] = AfterWait(@.op)]
    /\ list' = OnSuccess(list)
    /\ completed' = completed \cup {n}
    /\ overtaken' = IF ~ListWatched /\ list.fetch # "idle" THEN overtaken \cup {n} ELSE overtaken
    /\ UNCHANGED <<server, tab, outside>>

\* MUTANT of Released: nobody is told of a request that is over.
StillWaiting == write
\* A request for the list is over, and so is the wait for it.  Who waited for
\* a request that was cancelled waits for the one made instead.
Released == [n \in Writes |-> IF write[n].step = "refetching" THEN AfterWait(write[n].op)
                                                             ELSE write[n]]

\* onSaved: wherever the tab is by now, it goes to the list; a list that is
\* there already stays as it is.
Saved(n) ==
    /\ write[n].step = "refetched"
    /\ Become(n, None, "over")
    /\ IF page.at \in {"list", "loading"} THEN UNCHANGED <<list, tab>> ELSE ListOpens
    /\ UNCHANGED <<server, known, outside>>

\* EditAutoResponsePage: the editor is there as long as its response is.
Rerendered(row) ==
    IF row = None THEN None
    ELSE IF form = None THEN Opened(row) ELSE Rendered(form, row)

ListArrives ==
    LET new == list.answer.rows IN
    /\ list.fetch = "answered"
    /\ list' = Arrived(list)
    /\ write' = Released
    /\ page' = IF page.at = "loading" THEN At("list", None) ELSE page
    /\ IF page.at = "edit"
       THEN /\ form' = Rerendered(new[page.id])
            /\ saving' = IF new[page.id] = None THEN None ELSE saving
       ELSE UNCHANGED <<form, saving>>
    /\ view' = IF page.at = "list" THEN Refiltered(view, Rows, new) ELSE view
    /\ UNCHANGED <<server, known, outside>>

\* The list's request fails; a loader that needs it shows the error page.
ListFails ==
    /\ list.fetch # "idle"
    /\ Outside
    /\ list' = Failed(list)
    /\ write' = Released
    /\ page' = IF page.at = "loading" THEN Elsewhere ELSE page
    /\ UNCHANGED <<server, form, saving, view, known>>

\* Five minutes have passed.
ListExpires ==
    /\ list.fresh
    /\ list' = Expired(list)
    /\ UNCHANGED <<server, tab, write, known, outside>>

\* The window gets the focus.
RefocusList ==
    /\ ListWatched
    /\ ~list.fresh
    /\ list.fetch = "idle"
    /\ list' = Watched(list)
    /\ UNCHANGED <<server, tab, write, known, outside>>

------------------------------------------------------------------------------
ResponsesInit ==
    /\ rows = StartRows
    /\ born = {id \in Ids : StartRows[id] # None}
    /\ list = NoQuery
    /\ page = Elsewhere
    /\ form = None
    /\ saving = None
    /\ view = TopOfTable
    /\ write = [n \in Writes |-> Unsent]
    /\ applied = {} /\ completed = {} /\ overtaken = {}

ResponsesUser ==
    \/ GoToList \/ LeaveResponses \/ GoToNew \/ RefocusList
    \/ \E f \in Payloads \cup {All} : FilterList(f)
    \/ \E index \in 0..Cardinality(Ids) : Turn(index)
    \/ \E id \in Ids : GoToEditor(id) \/ \E n \in Writes : Delete(n, id)
    \/ \E v \in Payloads : Type(v)
    \/ \E n \in Writes : SubmitResponse(n)

ResponsesEnvironment ==
    \/ ReadList \/ ListArrives \/ ListFails \/ ListExpires
    \/ \E n \in Writes : ApplyWrite(n) \/ RefuseWrite(n) \/ WriteSucceeds(n) \/ Saved(n)
    \/ \E id \in Ids, payload \in Payloads \cup {None} : OthersWrite(id, payload)

ResponsesNext == ResponsesUser \/ ResponsesEnvironment

ResponsesSpec == ResponsesInit /\ outside = 0 /\ [][ResponsesNext]_responsesVars

------------------------------------------------------------------------------
(***************************************************************************)
(* Properties.                                                             *)
(***************************************************************************)

\* Every variable has its type, and a page that shows the list has one.
ResponsesTypeOK ==
    /\ rows \in Table
    /\ born \in SUBSET Ids
    /\ list \in Query(List)
    /\ page \in [at : {"away", "loading", "list", "new", "edit"}, id : Ids \cup {None}]
    /\ page.at = "edit" <=> page.id # None
    /\ ListWatched \/ list.fresh => list.data # None
    /\ list.fetch = "answered" <=> list.answer # None
    /\ form \in Form(Values) \cup {None}
    /\ saving \in Writes \cup {None}
    /\ view \in [filter : Payloads \cup {All}, index : Nat]
    /\ write \in [Writes -> Write]
    /\ applied \in SUBSET Writes
    /\ completed \in SUBSET applied
    /\ overtaken \in SUBSET completed
    /\ outside \in 0..MaxOutside

\* A list that counts as fresh shows every change of this tab that has been
\* reported a success: no answer to an earlier request may replace it, in
\* whatever order answers arrive and wherever the user goes meanwhile.  What
\* the code does not prevent is that an older request, which nobody watches
\* while the change is saved, is answered late.
ListShowsOwnChanges == list.fresh => completed \subseteq list.data.asOf \cup overtaken

\* The table never stands on a page beyond its last row, whoever deletes rows
\* and whatever is filtered: "Showing a to b of n" has a <= b <= n.
PageHasRows ==
    page.at = "list" => view.index = 0 \/ view.index * PageSize < Cardinality(Shown)

\* An editor nobody has typed in shows the response as the list has it, and
\* an editor is open exactly as long as the list has its response.
EditorFollowsList ==
    page.at = "edit" =>
        /\ form = None <=> Rows[page.id] = None
        /\ form # None /\ ~form.touched => form.values = Rows[page.id]

\* What was typed is neither changed nor closed by an answer to anybody's
\* request for the list, unless the response itself is gone.
TypingSurvivesRefetch ==
    [][ListArrives /\ form # None /\ form.touched =>
        IF form' = None THEN page.at = "edit" /\ list'.data.rows[page.id] = None
                        ELSE form'.values = form.values]_responsesVars

\* Who waits for the list waits for a request that is on its way: a save never
\* says "Saving..." for good because the request it awaited failed, was
\* cancelled by another save's success or lost its page.
WaitsForAFetch ==
    \A n \in Writes : write[n].step = "refetching" => list.fetch # "idle"
==============================================================================
