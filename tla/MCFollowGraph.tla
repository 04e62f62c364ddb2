--------------------------- MODULE MCFollowGraph ---------------------------
(* Device a looks at the profile of b, who owns both posts: one that is *)
(* old and one that b may publish meanwhile.                            *)
EXTENDS FollowGraph

CONSTANT b

MCOwner == [p \in Posts |-> b]
============================================================================
