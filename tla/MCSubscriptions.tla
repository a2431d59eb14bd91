--------------------------- MODULE MCSubscriptions ---------------------------
(***************************************************************************)
(* Subscriptions for TLC: deliveries are interchangeable, and so are the   *)
(* ids of subscriptions.  No symmetry in runs with a liveness property.    *)
(***************************************************************************)
EXTENDS Subscriptions, TLC

Symmetry == Permutations(Handlers) \cup Permutations(Subs)

=============================================================================
