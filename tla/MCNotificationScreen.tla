------------------------ MODULE MCNotificationScreen ------------------------
(* Two notifications, of one user or of two.  Nothing tells the cells or   *)
(* the users apart.                                                        *)
EXTENDS NotificationScreen

CONSTANTS n1, n2

MCLatest == <<n1, n2>>
MCSymmetry == Permutations(Cells) \cup Permutations(Senders)
============================================================================
