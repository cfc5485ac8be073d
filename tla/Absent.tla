------------------------------- MODULE Absent -------------------------------
(***************************************************************************)
(* The value of what is not there: an option that is none, a field that a  *)
(* record lacks.  It equals no other value.                                *)
(***************************************************************************)
CONSTANT None
=============================================================================
