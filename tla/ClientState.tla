----------------------------- MODULE ClientState -----------------------------
(***************************************************************************)
(* What the dashboard's pages keep in the browser, as operators:           *)
(*                                                                         *)
(*   a query of lib/queries.ts: the data it has cached, whether they still *)
(*     count as fresh, and the request that is on its way for it.  It has  *)
(*     been answered once the API has read the tables for it; the answer   *)
(*     may then take its time to arrive;                                   *)
(*   a form of useForm: its values, whether the user has touched them, and *)
(*     the default values it was last rendered with.                       *)
(*                                                                         *)
(* Queries and forms are @tanstack/react-query's and @tanstack/react-      *)
(* form's; the operators say what the calls made in src/ amount to.        *)
(***************************************************************************)
EXTENDS Naturals

CONSTANTS
    None,       \* no data, no form, no row
    All,        \* a filter that lets everything through
    MaxOutside  \* how many things happen that no page controls

ASSUME OutsideAssumption == MaxOutside \in Nat

VARIABLE outside  \* changes other people made, and requests that failed

Outside == outside < MaxOutside /\ outside' = outside + 1

------------------------------------------------------------------------------

Query(D) == [data : D \cup {None}, fresh : BOOLEAN,
             fetch : {"idle", "asked", "answered"}, answer : D \cup {None}]

NoQuery == [data |-> None, fresh |-> FALSE, fetch |-> "idle", answer |-> None]

\* A request that is on its way is shared by all who ask.
Asked(q) == IF q.fetch = "idle" THEN [q EXCEPT !.fetch = "asked"] ELSE q

\* A page that uses the query mounts, or the window gets the focus: data that
\* are not fresh are shown, and asked for again.
Watched(q) == IF q.fresh THEN q ELSE Asked(q)

\* The API answers a request with d.
Answered(q, d) == [q EXCEPT !.fetch = "answered", !.answer = d]

Arrived(q) == [data |-> q.answer, fresh |-> TRUE, fetch |-> "idle", answer |-> None]

\* MUTANT of Failed: what was cached is dropped.
FailedAndForgotten(q) == NoQuery
\* retry: false.  What was cached stays, as fresh as it was.
Failed(q) == [q EXCEPT !.fetch = "idle", !.answer = None]

\* The staleTime is over.
Expired(q) == [q EXCEPT !.fresh = FALSE]

\* MUTANT of Invalidated: a request that is on its way will do.
InvalidatedShared(q, watched) == IF watched THEN Asked(Expired(q)) ELSE Expired(q)
\* invalidateQueries: a query some page watches is asked for anew, and the
\* answer to a request made before is thrown away.  A query nobody watches is
\* only marked, and an answer on its way to it will take the mark off.
Invalidated(q, watched) ==
    IF watched THEN [q EXCEPT !.fresh = FALSE, !.fetch = "asked", !.answer = None]
               ELSE Expired(q)

------------------------------------------------------------------------------
Form(V) == [values : V, defaults : V, touched : BOOLEAN]

\* useForm with default values d; also form.reset(d).
Opened(d) == [values |-> d, defaults |-> d, touched |-> FALSE]

\* handleChange
Changed(form, v) == [form EXCEPT !.values = v, !.touched = TRUE]

\* MUTANT of Rendered: the form follows its default values, typed in or not.
RenderedAnew(form, d) ==
    [form EXCEPT !.values = IF d = form.defaults THEN @ ELSE d, !.defaults = d]
\* MUTANT of Rendered: the default values are those the form was made with.
RenderedOnce(form, d) == form
\* The component renders with default values d: a form nobody touched follows
\* them when they are not those it was last rendered with.
Rendered(form, d) ==
    [form EXCEPT !.values = IF d = form.defaults \/ form.touched THEN @ ELSE d,
                 !.defaults = d]
==============================================================================
