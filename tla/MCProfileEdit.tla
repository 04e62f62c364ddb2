--------------------------- MODULE MCProfileEdit ---------------------------
(* The name a profile has at the start is one of the names. *)
EXTENDS ProfileEdit

CONSTANT n1
============================================================================
