------------------------------- MODULE Absent -------------------------------
(* nil, NULL, a missing Redis key: no value of the others.                 *)
CONSTANT None
=============================================================================
