----------------------------- MODULE MCSessions -----------------------------
(***************************************************************************)
(* Sessions for TLC: tabs, requests and calls are interchangeable.         *)
(***************************************************************************)
EXTENDS Sessions, TLC

Symmetry == Permutations(Tabs) \cup Permutations(Requests) \cup Permutations(Calls)

=============================================================================
