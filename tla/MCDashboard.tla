----------------------------- MODULE MCDashboard -----------------------------
(* Dashboard on small instances, for TLC. *)
EXTENDS Dashboard, TLC

CONSTANTS a, b, p1, v1, create, autoResponse

\* There is one response, and room for another.
OneResponse == [id \in Ids |-> IF id = a THEN p1 ELSE None]
AllSetTo1   == [f \in Fields |-> v1]

ByResource == {NoFilter, [action |-> All, resource |-> autoResponse]}
ByAction   == {NoFilter, [action |-> create, resource |-> All]}
==============================================================================
