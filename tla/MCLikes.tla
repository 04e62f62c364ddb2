------------------------------ MODULE MCLikes ------------------------------
(* Every post belongs to b. *)
EXTENDS Likes

CONSTANT b

MCOwner == [p \in Posts |-> b]
============================================================================
