--------------------------- MODULE MCTwoLegWrite ---------------------------
(* Devices share nothing but the two collections, and write different     *)
(* documents there: a second one adds interleavings, not behaviour.        *)
EXTENDS TwoLegWrite
============================================================================
