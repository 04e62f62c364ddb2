---------------------------- MODULE MCComments ----------------------------
(* One of the users owns the post. *)
EXTENDS Comments

CONSTANT b
============================================================================
