----------------------------- MODULE Selection -----------------------------
(***************************************************************************)
(* Lists out of lists: Swift's filter, what a query returns of a           *)
(* collection, and what a refinement mapping keeps of a queue.  The        *)
(* definitions recurse over the positions of the list, which is what the   *)
(* proofs about them argue by.                                             *)
(***************************************************************************)
EXTENDS Naturals, Sequences

(* What f makes of the elements of s it is defined for, in the order of s. *)
CompactMap(s, f) ==
  LET r[i \in 0 .. Len(s)] ==
        IF i = 0 THEN <<>>
        ELSE IF s[i] \in DOMAIN f THEN Append(r[i - 1], f[s[i]]) ELSE r[i - 1]
  IN  r[Len(s)]

(* The elements of s that are in S, in the order of s. *)
Filter(s, S) == CompactMap(s, [x \in S |-> x])
============================================================================
