------------------------------ MODULE MCDayPage ------------------------------
(***************************************************************************)
(* DayPage for TLC.                                                        *)
(***************************************************************************)
EXTENDS DayPage

UploadSlots == {"upload"}
UploadAndRemove == UploadSlots \cup {"remove"}

=============================================================================
