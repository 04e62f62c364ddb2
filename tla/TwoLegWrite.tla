---------------------------- MODULE TwoLegWrite ----------------------------
(***************************************************************************)
(* The two-leg write that UserService.follow / unFollow and                *)
(* PostService.likePost / unlikePost share: one relation is kept twice, as *)
(* a primary document and as a mirror document.  The primary is written    *)
(* first; the completion handler of that write issues the same operation   *)
(* on the mirror.  Neither handler looks at its error argument.            *)
(*                                                                         *)
(* All the writes of a client go through the Firestore client's write      *)
(* pipeline, a FIFO whose front is committed or refused by the backend and *)
(* which survives the death of the app, while completion handlers do not.  *)
(***************************************************************************)
EXTENDS Naturals, Sequences

CONSTANTS Clients,     \* signed-in devices, one per account
          Keys,        \* what the relation's documents are named after
          MaxPending   \* bound on the unfinished two-leg writes of a client

ASSUME MaxPendingAssumption == MaxPending \in Nat

VARIABLES primary,     \* <<client, key>> pairs with a primary document
          mirror,      \* <<client, key>> pairs with a mirror document
          outbox,      \* per client, the write pipeline
          handlers,    \* per client, completion handlers waiting to run
          skewed       \* auxiliary: pairs one of whose legs was lost

vars == <<primary, mirror, outbox, handlers, skewed>>

Ops == {"set", "delete"}

(***************************************************************************)
(* A "first" write has its completion handler attached, a "bare" one was   *)
(* restored from disk without it, a "second" one is the mirror's.          *)
(***************************************************************************)
Write == [leg : {"first", "bare", "second"}, op : Ops, key : Keys]
Handler == [op : Ops, key : Keys]

HasKey(s, k) == \E i \in DOMAIN s : s[i].key = k
HasLeg(s, leg, k) == \E i \in DOMAIN s : s[i].leg = leg /\ s[i].key = k

(* What one setData([:]) or delete() does to a collection. *)
Apply(docs, c, w) ==
  IF w.op = "set" THEN docs \cup {<<c, w.key>>} ELSE docs \ {<<c, w.key>>}

Init ==
  /\ primary = {}
  /\ mirror = {}
  /\ outbox = [c \in Clients |-> <<>>]
  /\ handlers = [c \in Clients |-> <<>>]
  /\ skewed = {}

(* The call: the write of the primary document enters the pipeline. *)
Start(c, op, k) ==
  /\ Len(outbox[c]) + Len(handlers[c]) < MaxPending
  /\ outbox' = [outbox EXCEPT ![c] =
                  Append(@, [leg |-> "first", op |-> op, key |-> k])]
  /\ skewed' = skewed \ {<<c, k>>}
  /\ UNCHANGED <<primary, mirror, handlers>>

(* The handler of an acknowledged (or refused) write w becomes runnable. *)
Notify(c, w) ==
  handlers' = IF w.leg = "first"
                THEN [handlers EXCEPT ![c] =
                        Append(@, [op |-> w.op, key |-> w.key])]
                ELSE handlers

(* The backend applies the front of the pipeline and acknowledges it. *)
Commit(c) ==
  /\ outbox[c] # <<>>
  /\ LET w == Head(outbox[c])
     IN /\ primary' = IF w.leg = "second" THEN primary ELSE Apply(primary, c, w)
        /\ mirror' = IF w.leg = "second" THEN Apply(mirror, c, w) ELSE mirror
        /\ Notify(c, w)
  /\ outbox' = [outbox EXCEPT ![c] = Tail(@)]
  /\ UNCHANGED skewed

(* A later write of the same key will restate what the lost write w said. *)
Superseded(c, w) ==
  \/ HasLeg(Tail(outbox[c]), "first", w.key)
  \/ /\ w.leg = "second"
     /\ \/ HasKey(handlers[c], w.key)
        \/ HasLeg(Tail(outbox[c]), "second", w.key)

(* The backend refuses the front of the pipeline; its handler runs anyway. *)
Refuse(c) ==
  /\ outbox[c] # <<>>
  /\ LET w == Head(outbox[c])
     IN /\ Notify(c, w)
        /\ skewed' = IF Superseded(c, w) THEN skewed
                                         ELSE skewed \cup {<<c, w.key>>}
  /\ outbox' = [outbox EXCEPT ![c] = Tail(@)]
  /\ UNCHANGED <<primary, mirror>>

(* Mutant: the handler of a deletion was copied from that of a creation. *)
HandleSets(c) ==
  /\ handlers[c] # <<>>
  /\ outbox' = [outbox EXCEPT ![c] =
       Append(@, [leg |-> "second", op |-> "set", key |-> Head(handlers[c]).key])]
  /\ handlers' = [handlers EXCEPT ![c] = Tail(@)]
  /\ UNCHANGED <<primary, mirror, skewed>>

(* Mutant: the handler may run again. *)
HandleAgain(c) ==
  /\ handlers[c] # <<>>
  /\ LET h == Head(handlers[c])
     IN outbox' = [outbox EXCEPT ![c] =
                     Append(@, [leg |-> "second", op |-> h.op, key |-> h.key])]
  /\ UNCHANGED <<primary, mirror, handlers, skewed>>

(* Mutant: the handlers run youngest first. *)
HandleYoungest(c) ==
  /\ handlers[c] # <<>>
  /\ LET h == handlers[c][Len(handlers[c])]
     IN outbox' = [outbox EXCEPT ![c] =
                     Append(@, [leg |-> "second", op |-> h.op, key |-> h.key])]
  /\ handlers' = [handlers EXCEPT ![c] = SubSeq(@, 1, Len(@) - 1)]
  /\ UNCHANGED <<primary, mirror, skewed>>

(* The completion handler of the first write issues the second one. *)
Handle(c) ==
  /\ handlers[c] # <<>>
  /\ LET h == Head(handlers[c])
     IN outbox' = [outbox EXCEPT ![c] =
                     Append(@, [leg |-> "second", op |-> h.op, key |-> h.key])]
  /\ handlers' = [handlers EXCEPT ![c] = Tail(@)]
  /\ UNCHANGED <<primary, mirror, skewed>>

(* A write whose completion handler died with the process. *)
Orphan(w) == IF w.leg = "first" THEN [w EXCEPT !.leg = "bare"] ELSE w

(* The app dies and is started again: the pipeline is restored from disk, *)
(* the completion handlers are not.                                       *)
Kill(c) ==
  /\ skewed' = skewed \cup
       {<<c, k>> : k \in {k \in Keys : \/ HasLeg(outbox[c], "first", k)
                                       \/ HasKey(handlers[c], k)}}
  /\ outbox' = [outbox EXCEPT ![c] =
                  [i \in DOMAIN outbox[c] |-> Orphan(outbox[c][i])]]
  /\ handlers' = [handlers EXCEPT ![c] = <<>>]
  /\ UNCHANGED <<primary, mirror>>

Next ==
  \E c \in Clients :
    \/ \E op \in Ops, k \in Keys : Start(c, op, k)
    \/ Commit(c)
    \/ Refuse(c)
    \/ Handle(c)
    \/ Kill(c)

Spec == Init /\ [][Next]_vars
----------------------------------------------------------------------------
(* Every variable stays in its type and no client exceeds its bound. *)
TypeOK ==
  /\ primary \in SUBSET (Clients \X Keys)
  /\ mirror \in SUBSET (Clients \X Keys)
  /\ outbox \in [Clients -> Seq(Write)]
  /\ handlers \in [Clients -> Seq(Handler)]
  /\ skewed \in SUBSET (Clients \X Keys)
  /\ \A c \in Clients : Len(outbox[c]) + Len(handlers[c]) <= MaxPending

(* Nothing of client c about key k is still on its way. *)
Rest(c, k) == ~HasKey(outbox[c], k) /\ ~HasKey(handlers[c], k)

(* The two copies of the relation agree once all the writes of a key are   *)
(* done, whatever calls overlapped, unless a write was refused or the app  *)
(* died half-way and no later call restated the key.                       *)
MirrorAtRest ==
  \A c \in Clients, k \in Keys :
    Rest(c, k) /\ <<c, k>> \notin skewed
      => (<<c, k>> \in primary <=> <<c, k>> \in mirror)

(* The last entry of s about key k carries operation op. *)
LastIs(s, k, op) ==
  \E i \in DOMAIN s : /\ s[i].key = k
                      /\ s[i].op = op
                      /\ \A j \in DOMAIN s : j > i => s[j].key # k

(* The operation that would leave the primary document of k as it is. *)
Says(c, k) == IF <<c, k>> \in primary THEN "set" ELSE "delete"

(* Writes restored from disk lie before the calls made since. *)
BareBeforeFirst ==
  \A c \in Clients : \A i, j \in DOMAIN outbox[c] :
    i < j /\ outbox[c][i].leg = "first" => outbox[c][j].leg # "bare"

(* Once no first leg of k is left, the youngest thing that is still to      *)
(* reach the mirror says what the primary says: the waiting handlers are    *)
(* younger than the second legs in the pipeline.                            *)
YoungestAgrees ==
  \A c \in Clients, k \in Keys :
    <<c, k>> \notin skewed /\ ~HasLeg(outbox[c], "first", k)
      => /\ ~HasLeg(outbox[c], "bare", k)
         /\ HasKey(handlers[c], k) => LastIs(handlers[c], k, Says(c, k))
         /\ ~HasKey(handlers[c], k) /\ HasKey(outbox[c], k)
              => LastIs(outbox[c], k, Says(c, k))
         /\ Rest(c, k) => (<<c, k>> \in primary <=> <<c, k>> \in mirror)

(* The inductive invariant behind MirrorAtRest. *)
IInv == TypeOK /\ BareBeforeFirst /\ YoungestAgrees
============================================================================
