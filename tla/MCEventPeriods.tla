--------------------------- MODULE MCEventPeriods ---------------------------
(***************************************************************************)
(* EventPeriods for TLC: period identities and requests are                *)
(* interchangeable.                                                        *)
(***************************************************************************)
EXTENDS EventPeriods, TLC

Symmetry == Permutations(Periods) \cup Permutations(Requests)

=============================================================================
