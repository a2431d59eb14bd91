----------------------------- MODULE MCResources -----------------------------
(***************************************************************************)
(* Resources for TLC: small limits, and interchangeable ids and requests.  *)
(***************************************************************************)
EXTENDS Resources, TLC

SmallLimit == [t \in Tiers |-> CASE t = "FREE" -> 1 [] t = "PRO" -> 2 [] t = "PREMIUM" -> -1]

CONSTANTS k1, k2, g1, g2, g3, s1, d1

SmallIds == [categories |-> {k1, k2}, chapters |-> {g1, g2, g3}, dayStates |-> {s1}, days |-> {d1}]

Symmetry ==
    Permutations(SmallIds.categories) \cup Permutations(SmallIds.chapters)
        \cup Permutations(Requests)

=============================================================================
