----------------------------- MODULE MCDayMedia -----------------------------
(***************************************************************************)
(* DayMedia for TLC: two days, two pictures, a video, three requests at a  *)
(* time.                                                                   *)
(***************************************************************************)
EXTENDS DayMedia, TLC

CONSTANTS d1, d2, p1, p2, v1, s1, s2, s3

TwoDays == {d1, d2}
TwoPictures == {p1, p2}
AndVideo == TwoPictures \cup {v1}
ThreeSlots == {s1, s2, s3}
Symmetry == Permutations(TwoDays) \cup Permutations(TwoPictures) \cup Permutations(ThreeSlots)

=============================================================================
