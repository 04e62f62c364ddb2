----------------------------- MODULE WriteQueue -----------------------------
(***************************************************************************)
(* What the Firestore client promises to the code that writes through it,  *)
(* and what the modules of the application assume of their outboxes: the   *)
(* writes of an account take effect one after the other in the order they  *)
(* were issued, each is told its outcome at most once, in that order, and  *)
(* a restart of the process loses the completions but none of the writes.  *)
(* A write is known by its number, the order in which it was issued.       *)
(***************************************************************************)
EXTENDS Naturals, Sequences

CONSTANTS Users,    \* accounts, each with a queue of its own
          Docs,     \* documents
          MaxWrites \* bound on the writes issued

VARIABLES queue,    \* per account, the writes that are not settled yet
          waiting,  \* the writes whose completion is still to be called
          done,     \* the completions called, in order
          docs,     \* per document, the last write that was settled with success
          issued    \* writes issued so far

vars == <<queue, waiting, done, docs, issued>>

Entry == [n : 1 .. MaxWrites, doc : Docs, valid : BOOLEAN]

Init ==
  /\ queue = [u \in Users |-> <<>>]
  /\ waiting = {}
  /\ done = <<>>
  /\ docs = [d \in Docs |-> 0]
  /\ issued = 0

Issue(u, d, valid) ==
  /\ issued < MaxWrites
  /\ issued' = issued + 1
  /\ queue' = [queue EXCEPT ![u] =
                 Append(@, [n |-> issued + 1, doc |-> d, valid |-> valid])]
  /\ waiting' = waiting \cup {issued + 1}
  /\ UNCHANGED <<done, docs>>

(* The oldest write of the account is applied, or refused for good. *)
Settle(u) ==
  /\ queue[u] # <<>>
  /\ LET w == Head(queue[u])
     IN  /\ docs' = IF w.valid THEN [docs EXCEPT ![w.doc] = w.n] ELSE docs
         /\ done' = IF w.n \in waiting
                      THEN Append(done, [n |-> w.n, ok |-> w.valid]) ELSE done
         /\ waiting' = waiting \ {w.n}
  /\ queue' = [queue EXCEPT ![u] = Tail(@)]
  /\ UNCHANGED issued

Restart ==
  /\ waiting' = {}
  /\ UNCHANGED <<queue, done, docs, issued>>

Next ==
  \/ \E u \in Users, d \in Docs, valid \in BOOLEAN : Issue(u, d, valid)
  \/ \E u \in Users : Settle(u)
  \/ Restart

Spec == Init /\ [][Next]_vars
============================================================================
