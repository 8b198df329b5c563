----------------------------- MODULE MCSessions -----------------------------
(* Sessions on small instances, for TLC. *)
EXTENDS Sessions, TLC

Symmetry == Permutations(Tabs) \cup Permutations(Users)
==============================================================================
