----------------------------- MODULE MCTimeline -----------------------------
(***************************************************************************)
(* Timeline for TLC: two weeks and some days, zones either side of UTC.    *)
(***************************************************************************)
EXTENDS Timeline

EastAndWest == {-2, -1, 0, 1, 2}

=============================================================================
