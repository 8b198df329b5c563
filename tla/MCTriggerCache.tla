--------------------------- MODULE MCTriggerCache ---------------------------
(* TriggerCache on small instances, for TLC. *)
EXTENDS TriggerCache

CONSTANTS g1, g2, a, b, c, n1, c1

\* Two responses of g1, the third, where there is one, of g2.
TwoGuilds == [id \in Responses |-> IF id = c THEN g2 ELSE g1]

\* The table is empty, or holds a first response of each guild.
NoneYet   == [id \in Responses |-> NoRow]
OneOfEach == [id \in Responses |-> IF id = b THEN NoRow ELSE [name |-> n1, content |-> c1]]
==============================================================================
