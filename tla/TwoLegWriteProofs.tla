------------------------- MODULE TwoLegWriteProofs -------------------------
(***************************************************************************)
(* Proofs that the two copies of a relation kept by a two-leg write agree  *)
(* at rest, for every set of clients and keys and every bound; and that    *)
(* the list of notifications, whose follow buttons start such writes and   *)
(* toggle what the tapped cell shows when they are done, tells at rest who *)
(* is followed.                                                            *)
(***************************************************************************)
EXTENDS TwoLegWrite, NotificationScreen, SequenceLemmas

----------------------------------------------------------------------------
(* The tests on a sequence of writes after one more entry was queued. *)
LEMMA QueryAppend ==
  ASSUME NEW T, NEW s \in Seq(T), NEW x \in T, NEW k
  PROVE  /\ HasKey(Append(s, x), k) <=> HasKey(s, k) \/ x.key = k
         /\ \A leg : HasLeg(Append(s, x), leg, k)
                       <=> HasLeg(s, leg, k) \/ (x.leg = leg /\ x.key = k)
<1>1. /\ Append(s, x) \in Seq(T)
      /\ Len(Append(s, x)) = Len(s) + 1
      /\ \A i \in 1 .. Len(s) : Append(s, x)[i] = s[i]
      /\ Append(s, x)[Len(s) + 1] = x
  OBVIOUS
<1>2. DOMAIN s = 1 .. Len(s) /\ DOMAIN Append(s, x) = 1 .. Len(s) + 1
  OBVIOUS
<1>3. Len(s) \in Nat
  OBVIOUS
<1> QED
  BY <1>1, <1>2, <1>3 DEF HasKey, HasLeg

(* The last entry of a key after one more entry was queued. *)
LEMMA LastIsAppend ==
  ASSUME NEW T, NEW s \in Seq(T), NEW x \in T, NEW k, NEW op
  PROVE  /\ x.key = k /\ x.op = op => LastIs(Append(s, x), k, op)
         /\ x.key # k /\ LastIs(s, k, op) => LastIs(Append(s, x), k, op)
<1>1. /\ \A i \in 1 .. Len(s) : Append(s, x)[i] = s[i]
      /\ Append(s, x)[Len(s) + 1] = x
  OBVIOUS
<1>2. DOMAIN s = 1 .. Len(s) /\ DOMAIN Append(s, x) = 1 .. Len(s) + 1
  OBVIOUS
<1>3. Len(s) \in Nat
  OBVIOUS
<1> QED
  BY <1>1, <1>2, <1>3 DEF LastIs

(* The tests on a sequence of writes whose front left. *)
LEMMA QueryTail ==
  ASSUME NEW T, NEW s \in Seq(T), s # <<>>, NEW k
  PROVE  /\ HasKey(s, k) <=> HasKey(Tail(s), k) \/ Head(s).key = k
         /\ \A leg : HasLeg(s, leg, k)
              <=> HasLeg(Tail(s), leg, k) \/ (Head(s).leg = leg /\ Head(s).key = k)
<1>1. /\ Len(s) \in Nat \ {0}
      /\ DOMAIN s = 1 .. Len(s)
      /\ DOMAIN Tail(s) = 1 .. Len(s) - 1
      /\ Head(s) = s[1]
      /\ \A i \in 1 .. Len(s) - 1 : Tail(s)[i] = s[i + 1]
  OBVIOUS
<1>2. \A i \in DOMAIN s : i = 1 \/ (i - 1 \in DOMAIN Tail(s) /\ Tail(s)[i - 1] = s[i])
  BY <1>1
<1>3. \A i \in DOMAIN Tail(s) : i + 1 \in DOMAIN s /\ Tail(s)[i] = s[i + 1]
  BY <1>1
<1>4. 1 \in DOMAIN s
  BY <1>1
<1> QED
  BY <1>1, <1>2, <1>3, <1>4, ZenonT(60) DEF HasKey, HasLeg

(* The last entry of a key when the front leaves: it stays the last one, *)
(* or it was the front itself.                                           *)
LEMMA LastIsTail ==
  ASSUME NEW T, NEW s \in Seq(T), s # <<>>, NEW k, NEW op, LastIs(s, k, op)
  PROVE  /\ HasKey(Tail(s), k) => LastIs(Tail(s), k, op)
         /\ ~HasKey(Tail(s), k) => Head(s).key = k /\ Head(s).op = op
<1>1. /\ Len(s) \in Nat \ {0}
      /\ DOMAIN s = 1 .. Len(s)
      /\ DOMAIN Tail(s) = 1 .. Len(s) - 1
      /\ Head(s) = s[1]
      /\ \A i \in 1 .. Len(s) - 1 : Tail(s)[i] = s[i + 1]
  OBVIOUS
<1>2. PICK i \in DOMAIN s : /\ s[i].key = k
                            /\ s[i].op = op
                            /\ \A j \in DOMAIN s : j > i => s[j].key # k
  BY DEF LastIs
<1>3. CASE i = 1
  <2>1. ~HasKey(Tail(s), k)
    BY <1>1, <1>2, <1>3 DEF HasKey
  <2> QED
    BY <2>1, <1>1, <1>2, <1>3
<1>4. CASE i # 1
  <2>1. i - 1 \in DOMAIN Tail(s) /\ Tail(s)[i - 1] = s[i]
    BY <1>1, <1>4
  <2>2. \A j \in DOMAIN Tail(s) : j > i - 1 => Tail(s)[j].key # k
    BY <1>1, <1>2
  <2>3. HasKey(Tail(s), k) /\ LastIs(Tail(s), k, op)
    BY <1>2, <2>1, <2>2 DEF HasKey, LastIs
  <2> QED
    BY <2>3
<1> QED
  BY <1>3, <1>4

(* A restart changes neither keys nor operations, and leaves no first leg. *)
LEMMA OrphanTypes ==
  \A w \in Write : /\ Orphan(w) \in Write
                   /\ Orphan(w).key = w.key
                   /\ Orphan(w).op = w.op
                   /\ Orphan(w).leg # "first"
                   /\ w.leg # "first" => Orphan(w) = w
BY DEF Orphan, Write

----------------------------------------------------------------------------
(* Every step of every action keeps the variables in their types and the *)
(* clients within their bound.                                           *)
LEMMA TypeStep == TypeOK /\ [Next]_vars => TypeOK'
<1> SUFFICES ASSUME TypeOK, [Next]_vars PROVE TypeOK'
  OBVIOUS
<1> USE MaxPendingAssumption
<1>1. ASSUME NEW c \in Clients, NEW op \in Ops, NEW k \in Keys, Start(c, op, k)
      PROVE  TypeOK'
  <2>1. [leg |-> "first", op |-> op, key |-> k] \in Write
    BY DEF Write
  <2>2. /\ outbox' \in [Clients -> Seq(Write)]
        /\ Len(outbox'[c]) = Len(outbox[c]) + 1
        /\ \A d \in Clients : d # c => outbox'[d] = outbox[d]
    BY <1>1, <2>1 DEF TypeOK, Start
  <2> QED
    BY <1>1, <2>2 DEF TypeOK, Start
<1>2. ASSUME NEW c \in Clients, outbox[c] # <<>>, Notify(c, Head(outbox[c])),
             outbox' = [outbox EXCEPT ![c] = Tail(@)]
      PROVE  /\ outbox' \in [Clients -> Seq(Write)]
             /\ handlers' \in [Clients -> Seq(Handler)]
             /\ \A d \in Clients : Len(outbox'[d]) + Len(handlers'[d]) <= MaxPending
             /\ Head(outbox[c]) \in Write
  <2> DEFINE w == Head(outbox[c])
  <2>1. w \in Write
    BY <1>2 DEF TypeOK
  <2>2. [op |-> w.op, key |-> w.key] \in Handler
    BY <2>1 DEF Write, Handler
  <2>3. /\ outbox' \in [Clients -> Seq(Write)]
        /\ Len(outbox'[c]) = Len(outbox[c]) - 1
        /\ \A d \in Clients : d # c => outbox'[d] = outbox[d]
    BY <1>2 DEF TypeOK
  <2>4. /\ handlers' \in [Clients -> Seq(Handler)]
        /\ Len(handlers'[c]) <= Len(handlers[c]) + 1
        /\ \A d \in Clients : d # c => handlers'[d] = handlers[d]
    <3>1. CASE w.leg = "first"
      BY <1>2, <2>2, <3>1 DEF TypeOK, Notify
    <3>2. CASE w.leg # "first"
      BY <1>2, <3>2 DEF TypeOK, Notify
    <3> QED
      BY <3>1, <3>2
  <2>5. /\ Len(outbox[c]) \in Nat /\ Len(handlers[c]) \in Nat
        /\ Len(outbox'[c]) \in Nat /\ Len(handlers'[c]) \in Nat
    BY <2>3, <2>4 DEF TypeOK
  <2>6. Len(outbox[c]) + Len(handlers[c]) <= MaxPending
    BY DEF TypeOK
  <2>7. Len(outbox'[c]) + Len(handlers'[c]) <= MaxPending
    <3>1. /\ Len(outbox'[c]) = Len(outbox[c]) - 1
          /\ Len(handlers'[c]) <= Len(handlers[c]) + 1
      BY <2>3, <2>4
    <3>2. \A a, b, x, y, m \in Nat :
             a + b <= m /\ x = a - 1 /\ y <= b + 1 => x + y <= m
      OBVIOUS
    <3> QED
      BY <3>1, <3>2, <2>5, <2>6
  <2>8. \A d \in Clients : Len(outbox'[d]) + Len(handlers'[d]) <= MaxPending
    BY <2>3, <2>4, <2>7 DEF TypeOK
  <2> QED
    BY <2>1, <2>3, <2>4, <2>8
<1>3. ASSUME NEW c \in Clients, Commit(c) PROVE TypeOK'
  <2>1. /\ outbox' \in [Clients -> Seq(Write)]
        /\ handlers' \in [Clients -> Seq(Handler)]
        /\ \A d \in Clients : Len(outbox'[d]) + Len(handlers'[d]) <= MaxPending
        /\ Head(outbox[c]) \in Write
    BY <1>2, <1>3 DEF Commit
  <2>2. /\ primary' \in SUBSET (Clients \X Keys)
        /\ mirror' \in SUBSET (Clients \X Keys)
    <3> DEFINE w == Head(outbox[c])
    <3>1. <<c, w.key>> \in Clients \X Keys
      BY <2>1 DEF Write
    <3>2. \A docs \in SUBSET (Clients \X Keys) :
             Apply(docs, c, w) \in SUBSET (Clients \X Keys)
      BY <3>1 DEF Apply
    <3> QED
      BY <1>3, <3>2 DEF TypeOK, Commit
  <2> QED
    BY <1>3, <2>1, <2>2 DEF TypeOK, Commit
<1>4. ASSUME NEW c \in Clients, Refuse(c) PROVE TypeOK'
  <2>1. /\ outbox' \in [Clients -> Seq(Write)]
        /\ handlers' \in [Clients -> Seq(Handler)]
        /\ \A d \in Clients : Len(outbox'[d]) + Len(handlers'[d]) <= MaxPending
        /\ Head(outbox[c]) \in Write
    BY <1>2, <1>4 DEF Refuse
  <2>2. skewed' \in SUBSET (Clients \X Keys)
    BY <1>4, <2>1 DEF TypeOK, Refuse, Write
  <2> QED
    BY <1>4, <2>1, <2>2 DEF TypeOK, Refuse
<1>5. ASSUME NEW c \in Clients, Handle(c) PROVE TypeOK'
  <2> DEFINE h == Head(handlers[c])
  <2>1. h \in Handler
    BY <1>5 DEF TypeOK, Handle
  <2>2. [leg |-> "second", op |-> h.op, key |-> h.key] \in Write
    BY <2>1 DEF Write, Handler
  <2>3. /\ outbox' \in [Clients -> Seq(Write)]
        /\ Len(outbox'[c]) = Len(outbox[c]) + 1
        /\ \A d \in Clients : d # c => outbox'[d] = outbox[d]
    BY <1>5, <2>2 DEF TypeOK, Handle
  <2>4. /\ handlers' \in [Clients -> Seq(Handler)]
        /\ Len(handlers'[c]) = Len(handlers[c]) - 1
        /\ \A d \in Clients : d # c => handlers'[d] = handlers[d]
    BY <1>5 DEF TypeOK, Handle
  <2>5. /\ Len(outbox[c]) \in Nat
        /\ Len(handlers[c]) \in Nat
    BY DEF TypeOK
  <2> QED
    BY <1>5, <2>3, <2>4, <2>5 DEF TypeOK, Handle
<1>6. ASSUME NEW c \in Clients, Kill(c) PROVE TypeOK'
  <2>1. /\ outbox'[c] \in Seq(Write)
        /\ Len(outbox'[c]) = Len(outbox[c])
        /\ outbox' \in [Clients -> Seq(Write)]
        /\ \A d \in Clients : d # c => outbox'[d] = outbox[d]
    <3>1. /\ outbox[c] \in Seq(Write)
          /\ DOMAIN outbox[c] = 1 .. Len(outbox[c])
          /\ \A i \in DOMAIN outbox[c] : Orphan(outbox[c][i]) \in Write
      BY OrphanTypes DEF TypeOK
    <3> DEFINE q == [i \in DOMAIN outbox[c] |-> Orphan(outbox[c][i])]
    <3>2. q \in Seq(Write) /\ Len(q) = Len(outbox[c])
      BY <3>1
    <3> QED
      BY <1>6, <3>2 DEF TypeOK, Kill
  <2>2. /\ handlers' \in [Clients -> Seq(Handler)]
        /\ handlers'[c] = <<>>
        /\ \A d \in Clients : d # c => handlers'[d] = handlers[d]
    BY <1>6 DEF TypeOK, Kill
  <2>3. skewed' \in SUBSET (Clients \X Keys)
    BY <1>6 DEF TypeOK, Kill
  <2>4. \A d \in Clients : Len(outbox'[d]) + Len(handlers'[d]) <= MaxPending
    <3>1. /\ Len(outbox[c]) \in Nat
          /\ Len(handlers[c]) \in Nat
          /\ Len(handlers'[c]) = 0
      BY <2>2 DEF TypeOK
    <3> QED
      BY <2>1, <2>2, <3>1 DEF TypeOK
  <2> QED
    BY <1>6, <2>1, <2>2, <2>3, <2>4 DEF TypeOK, Kill
<1>7. CASE UNCHANGED vars
  BY <1>7 DEF TypeOK, vars
<1> QED
  BY <1>1, <1>3, <1>4, <1>5, <1>6, <1>7 DEF Next

(* TypeOK holds in every behaviour of follow, unFollow, likePost and       *)
(* unlikePost over the write pipeline: no step takes a variable out of its *)
(* type, and no completion handler makes a client exceed its bound.        *)
THEOREM TypeCorrect == Spec => []TypeOK
<1>1. Init => TypeOK
  BY MaxPendingAssumption DEF Init, TypeOK
<1> QED
  BY <1>1, TypeStep, PTL DEF Spec

----------------------------------------------------------------------------
(* No write restored from disk comes to lie behind a call made since: new *)
(* entries are never bare, and a restart leaves no first leg at all.      *)
LEMMA BareStep ==
  TypeOK /\ BareBeforeFirst /\ [Next]_vars => BareBeforeFirst'
<1> DEFINE Good(s) == \A i, j \in DOMAIN s :
                        i < j /\ s[i].leg = "first" => s[j].leg # "bare"
<1> SUFFICES ASSUME TypeOK, BareBeforeFirst, [Next]_vars, NEW d \in Clients
             PROVE  Good(outbox'[d])
  BY DEF BareBeforeFirst
<1>1. outbox[d] \in Seq(Write) /\ Good(outbox[d])
  BY DEF TypeOK, BareBeforeFirst
<1>2. ASSUME NEW s \in Seq(Write), Good(s), NEW x \in Write, x.leg # "bare"
      PROVE  Good(Append(s, x))
  <2>1. /\ DOMAIN s = 1 .. Len(s)
        /\ DOMAIN Append(s, x) = 1 .. Len(s) + 1
        /\ \A i \in 1 .. Len(s) : Append(s, x)[i] = s[i]
        /\ Append(s, x)[Len(s) + 1] = x
        /\ Len(s) \in Nat
    OBVIOUS
  <2> QED
    BY <1>2, <2>1
<1>3. ASSUME NEW s \in Seq(Write), Good(s), s # <<>>
      PROVE  Good(Tail(s))
  <2>1. /\ Len(s) \in Nat \ {0}
        /\ DOMAIN s = 1 .. Len(s)
        /\ DOMAIN Tail(s) = 1 .. Len(s) - 1
        /\ \A i \in 1 .. Len(s) - 1 : Tail(s)[i] = s[i + 1]
    BY <1>3
  <2> QED
    BY <1>3, <2>1
<1>4. ASSUME NEW c \in Clients, NEW op \in Ops, NEW k \in Keys, Start(c, op, k)
      PROVE  Good(outbox'[d])
  <2>1. [leg |-> "first", op |-> op, key |-> k] \in Write
    BY DEF Write
  <2>2. Good(Append(outbox[d], [leg |-> "first", op |-> op, key |-> k]))
    BY <1>1, <1>2, <2>1
  <2>3. \/ outbox'[d] = outbox[d]
        \/ outbox'[d] = Append(outbox[d], [leg |-> "first", op |-> op, key |-> k])
    BY <1>4 DEF Start, TypeOK
  <2> QED
    BY <1>1, <2>2, <2>3
<1>5. ASSUME NEW c \in Clients, Commit(c) \/ Refuse(c)
      PROVE  Good(outbox'[d])
  <2>1. \/ outbox'[d] = outbox[d]
        \/ outbox[d] # <<>> /\ outbox'[d] = Tail(outbox[d])
    BY <1>5 DEF Commit, Refuse, TypeOK
  <2> QED
    BY <1>1, <1>3, <2>1
<1>6. ASSUME NEW c \in Clients, Handle(c)
      PROVE  Good(outbox'[d])
  <2> DEFINE h == Head(handlers[c])
             w == [leg |-> "second", op |-> h.op, key |-> h.key]
  <2>1. h \in Handler
    BY <1>6 DEF Handle, TypeOK
  <2>2. w \in Write /\ w.leg = "second"
    BY <2>1 DEF Write, Handler
  <2>3. Good(Append(outbox[d], w))
    BY <1>1, <1>2, <2>2
  <2>4. outbox'[d] = outbox[d] \/ outbox'[d] = Append(outbox[d], w)
    BY <1>6 DEF Handle, TypeOK
  <2> QED
    BY <1>1, <2>3, <2>4
<1>7. ASSUME NEW c \in Clients, Kill(c)
      PROVE  Good(outbox'[d])
  <2>1. \/ outbox'[d] = outbox[d]
        \/ outbox'[d] = [i \in DOMAIN outbox[d] |-> Orphan(outbox[d][i])]
    BY <1>7 DEF Kill, TypeOK
  <2>2. CASE outbox'[d] = [i \in DOMAIN outbox[d] |-> Orphan(outbox[d][i])]
    <3>1. \A i \in DOMAIN outbox'[d] : outbox'[d][i].leg # "first"
      BY <1>1, <2>2, OrphanTypes
    <3> QED
      BY <3>1
  <2> QED
    BY <1>1, <2>1, <2>2
<1>8. CASE UNCHANGED vars
  BY <1>1, <1>8 DEF vars
<1> QED
  BY <1>4, <1>5, <1>6, <1>7, <1>8 DEF Next

(* YoungestAgrees, for one client and one key. *)
Agrees(c, k) ==
  <<c, k>> \notin skewed /\ ~HasLeg(outbox[c], "first", k)
    => /\ ~HasLeg(outbox[c], "bare", k)
       /\ HasKey(handlers[c], k) => LastIs(handlers[c], k, Says(c, k))
       /\ ~HasKey(handlers[c], k) /\ HasKey(outbox[c], k)
            => LastIs(outbox[c], k, Says(c, k))
       /\ Rest(c, k) => (<<c, k>> \in primary <=> <<c, k>> \in mirror)

(* A call: the key of the new first leg is excused, the others see nothing. *)
LEMMA AgreesStart ==
  ASSUME TypeOK, YoungestAgrees, NEW c \in Clients, NEW k \in Keys,
         NEW op \in Ops, NEW j \in Keys, Start(c, op, j)
  PROVE  Agrees(c, k)'
<1> DEFINE x == [leg |-> "first", op |-> op, key |-> j]
<1>1. /\ x \in Write
      /\ x.leg = "first" /\ x.key = j /\ x.op = op
  BY DEF Write
<1>2. /\ outbox[c] \in Seq(Write)
      /\ outbox'[c] = Append(outbox[c], x)
      /\ UNCHANGED <<primary, mirror, handlers>>
      /\ skewed' = skewed \ {<<c, j>>}
  BY DEF TypeOK, Start
<1>3. /\ HasKey(outbox'[c], k) <=> HasKey(outbox[c], k) \/ j = k
      /\ HasLeg(outbox'[c], "first", k) <=> HasLeg(outbox[c], "first", k) \/ j = k
      /\ HasLeg(outbox'[c], "bare", k) <=> HasLeg(outbox[c], "bare", k)
  <2> HIDE DEF x
  <2>1. \A leg : HasLeg(Append(outbox[c], x), leg, k)
                   <=> HasLeg(outbox[c], leg, k) \/ (x.leg = leg /\ x.key = k)
    BY <1>1, <1>2, QueryAppend
  <2>2. HasKey(Append(outbox[c], x), k) <=> HasKey(outbox[c], k) \/ x.key = k
    BY <1>1, <1>2, QueryAppend
  <2> QED
    BY <1>1, <1>2, <2>1, <2>2
<1>4. CASE j = k
  BY <1>3, <1>4 DEF Agrees
<1>5. CASE j # k
  <2>1. Agrees(c, k) /\ Says(c, k)' = Says(c, k)
    BY <1>2 DEF YoungestAgrees, Agrees, Says
  <2>2. LastIs(outbox[c], k, Says(c, k)) => LastIs(outbox'[c], k, Says(c, k))
    BY <1>1, <1>2, <1>5, LastIsAppend
  <2>3. <<c, k>> \in skewed' <=> <<c, k>> \in skewed
    BY <1>2, <1>5
  <2> QED
    BY <1>2, <1>3, <1>5, <2>1, <2>2, <2>3 DEF Agrees, Rest
<1> QED
  BY <1>4, <1>5

(* What the departure of the front write w of client c means for a key k. *)
LEMMA Departure ==
  ASSUME TypeOK, NEW c \in Clients, NEW k \in Keys, NEW w, outbox[c] # <<>>,
         w = Head(outbox[c]), Notify(c, w),
         outbox' = [outbox EXCEPT ![c] = Tail(@)]
  PROVE  /\ w \in Write
         /\ HasKey(outbox[c], k) <=> HasKey(outbox'[c], k) \/ w.key = k
         /\ \A leg : HasLeg(outbox[c], leg, k)
                       <=> HasLeg(outbox'[c], leg, k) \/ (w.leg = leg /\ w.key = k)
         /\ \A op : LastIs(outbox[c], k, op) =>
              /\ HasKey(outbox'[c], k) => LastIs(outbox'[c], k, op)
              /\ ~HasKey(outbox'[c], k) => w.key = k /\ w.op = op
         /\ w.leg # "first" => handlers' = handlers
         /\ w.key # k => /\ HasKey(handlers'[c], k) <=> HasKey(handlers[c], k)
                         /\ \A op : LastIs(handlers[c], k, op)
                                      => LastIs(handlers'[c], k, op)
         /\ w.leg = "first" /\ w.key = k => /\ HasKey(handlers'[c], k)
                                            /\ LastIs(handlers'[c], k, w.op)
<1>1. outbox[c] \in Seq(Write) /\ w \in Write /\ outbox'[c] = Tail(outbox[c])
  BY DEF TypeOK
<1>2. HasKey(outbox[c], k) <=> HasKey(outbox'[c], k) \/ w.key = k
  BY <1>1, QueryTail
<1>3. \A leg : HasLeg(outbox[c], leg, k)
                 <=> HasLeg(outbox'[c], leg, k) \/ (w.leg = leg /\ w.key = k)
  <2> DEFINE s == outbox[c]
  <2>1. s \in Seq(Write) /\ s # <<>> /\ w = Head(s) /\ outbox'[c] = Tail(s)
    BY <1>1
  <2> HIDE DEF s
  <2>2. \A leg : HasLeg(s, leg, k)
           <=> HasLeg(Tail(s), leg, k) \/ (Head(s).leg = leg /\ Head(s).key = k)
    BY <2>1, QueryTail
  <2> QED
    BY <2>1, <2>2 DEF s
<1>4. \A op : LastIs(outbox[c], k, op) =>
         /\ HasKey(outbox'[c], k) => LastIs(outbox'[c], k, op)
         /\ ~HasKey(outbox'[c], k) => w.key = k /\ w.op = op
  BY <1>1, LastIsTail
<1>5. CASE w.leg = "first"
  <2> DEFINE h == [op |-> w.op, key |-> w.key]
  <2>1. h \in Handler /\ h.key = w.key /\ h.op = w.op
    BY <1>1 DEF Handler, Write
  <2>2. handlers[c] \in Seq(Handler) /\ handlers'[c] = Append(handlers[c], h)
    BY <1>5 DEF TypeOK, Notify
  <2> HIDE DEF h
  <2>3. HasKey(handlers'[c], k) <=> HasKey(handlers[c], k) \/ h.key = k
    BY <2>1, <2>2, QueryAppend
  <2>4. \A op : /\ h.key = k /\ h.op = op => LastIs(handlers'[c], k, op)
                /\ h.key # k /\ LastIs(handlers[c], k, op)
                     => LastIs(handlers'[c], k, op)
    BY <2>1, <2>2, LastIsAppend
  <2> QED
    BY <1>1, <1>2, <1>3, <1>4, <1>5, <2>1, <2>3, <2>4
<1>6. CASE w.leg # "first"
  <2>1. handlers' = handlers
    BY <1>6 DEF Notify
  <2> QED
    BY <1>1, <1>2, <1>3, <1>4, <1>6, <2>1
<1> QED
  BY <1>5, <1>6

(* A commit: a first leg makes the primary say what its handler will tell  *)
(* the mirror; the last second leg makes the mirror say what the primary   *)
(* says; a restored first leg only occurs for a key that is excused.       *)
LEMMA AgreesCommit ==
  ASSUME IInv, NEW c \in Clients, NEW k \in Keys, Commit(c)
  PROVE  Agrees(c, k)'
<1> DEFINE w == Head(outbox[c])
<1>1. /\ outbox[c] # <<>> /\ Notify(c, w)
      /\ outbox' = [outbox EXCEPT ![c] = Tail(@)]
      /\ primary' = IF w.leg = "second" THEN primary ELSE Apply(primary, c, w)
      /\ mirror' = IF w.leg = "second" THEN Apply(mirror, c, w) ELSE mirror
      /\ skewed' = skewed
  BY DEF Commit
<1>2. TypeOK /\ Agrees(c, k)
  BY DEF IInv, YoungestAgrees, Agrees
<1> HIDE DEF w
<1>3. /\ w \in Write
      /\ HasKey(outbox[c], k) <=> HasKey(outbox'[c], k) \/ w.key = k
      /\ \A leg : HasLeg(outbox[c], leg, k)
                    <=> HasLeg(outbox'[c], leg, k) \/ (w.leg = leg /\ w.key = k)
      /\ \A op : LastIs(outbox[c], k, op) =>
           /\ HasKey(outbox'[c], k) => LastIs(outbox'[c], k, op)
           /\ ~HasKey(outbox'[c], k) => w.key = k /\ w.op = op
      /\ w.leg # "first" => handlers' = handlers
      /\ w.key # k => /\ HasKey(handlers'[c], k) <=> HasKey(handlers[c], k)
                      /\ \A op : LastIs(handlers[c], k, op)
                                   => LastIs(handlers'[c], k, op)
      /\ w.leg = "first" /\ w.key = k => /\ HasKey(handlers'[c], k)
                                         /\ LastIs(handlers'[c], k, w.op)
  BY <1>1, <1>2, Departure DEF w
<1>4. w.leg \in {"first", "bare", "second"} /\ w.op \in {"set", "delete"}
  BY <1>3 DEF Write, Ops
<1>5. CASE w.key # k
  <2>1. /\ <<c, k>> \in primary' <=> <<c, k>> \in primary
        /\ <<c, k>> \in mirror' <=> <<c, k>> \in mirror
    BY <1>1, <1>5 DEF Apply
  <2>2. Says(c, k)' = Says(c, k)
    BY <2>1 DEF Says
  <2> QED
    BY <1>1, <1>2, <1>3, <1>5, <2>1, <2>2 DEF Agrees, Rest
<1>6. CASE w.key = k /\ w.leg = "first"
  <2>1. Says(c, k)' = w.op
    BY <1>1, <1>4, <1>6 DEF Says, Apply
  <2>2. ~HasLeg(outbox'[c], "bare", k)
    <3>1. /\ outbox[c] \in Seq(Write)
          /\ Head(outbox[c]) = outbox[c][1]
          /\ Len(outbox[c]) \in Nat \ {0}
          /\ DOMAIN outbox[c] = 1 .. Len(outbox[c])
          /\ outbox'[c] = Tail(outbox[c])
          /\ DOMAIN Tail(outbox[c]) = 1 .. Len(outbox[c]) - 1
          /\ \A i \in 1 .. Len(outbox[c]) - 1 : Tail(outbox[c])[i] = outbox[c][i + 1]
      BY <1>1, <1>2 DEF TypeOK
    <3>2. \A j \in DOMAIN outbox[c] : 1 < j => outbox[c][j].leg # "bare"
      BY <1>6, <3>1 DEF IInv, BareBeforeFirst, w
    <3> QED
      BY <3>1, <3>2 DEF HasLeg
  <2> QED
    BY <1>3, <1>6, <2>1, <2>2 DEF Agrees, Rest
<1>7. CASE w.key = k /\ w.leg = "bare"
  BY <1>1, <1>2, <1>3, <1>7 DEF Agrees
<1>8. CASE w.key = k /\ w.leg = "second"
  <2>1. primary' = primary /\ Says(c, k)' = Says(c, k)
    BY <1>1, <1>8 DEF Says
  <2>2. <<c, k>> \in mirror' <=> w.op = "set"
    BY <1>1, <1>4, <1>8 DEF Apply
  <2>3. w.op = Says(c, k) => (<<c, k>> \in primary <=> <<c, k>> \in mirror')
    BY <2>2 DEF Says
  <2> QED
    BY <1>1, <1>2, <1>3, <1>8, <2>1, <2>3 DEF Agrees, Rest
<1> QED
  BY <1>4, <1>5, <1>6, <1>7, <1>8

(* A refusal: the key is excused unless something later restates it, and   *)
(* then the youngest entry is still in place.                              *)
LEMMA AgreesRefuse ==
  ASSUME IInv, NEW c \in Clients, NEW k \in Keys, Refuse(c)
  PROVE  Agrees(c, k)'
<1> DEFINE w == Head(outbox[c])
<1>1. /\ outbox[c] # <<>> /\ Notify(c, w)
      /\ outbox' = [outbox EXCEPT ![c] = Tail(@)]
      /\ UNCHANGED <<primary, mirror>>
      /\ skewed' = IF Superseded(c, w) THEN skewed ELSE skewed \cup {<<c, w.key>>}
  BY DEF Refuse
<1>2. /\ TypeOK /\ Agrees(c, k)
      /\ Says(c, k)' = Says(c, k)
      /\ outbox'[c] = Tail(outbox[c])
  BY <1>1 DEF IInv, YoungestAgrees, Agrees, Says, TypeOK
<1> HIDE DEF w
<1>3. /\ HasKey(outbox[c], k) <=> HasKey(outbox'[c], k) \/ w.key = k
      /\ \A leg : HasLeg(outbox[c], leg, k)
                    <=> HasLeg(outbox'[c], leg, k) \/ (w.leg = leg /\ w.key = k)
      /\ \A op : LastIs(outbox[c], k, op) =>
           /\ HasKey(outbox'[c], k) => LastIs(outbox'[c], k, op)
           /\ ~HasKey(outbox'[c], k) => w.key = k /\ w.op = op
      /\ w.leg # "first" => handlers' = handlers
      /\ w.key # k => /\ HasKey(handlers'[c], k) <=> HasKey(handlers[c], k)
                      /\ \A op : LastIs(handlers[c], k, op)
                                   => LastIs(handlers'[c], k, op)
  BY <1>1, <1>2, Departure, ZenonT(60) DEF w
<1>4. CASE w.key # k
  <2>1. <<c, k>> \in skewed' <=> <<c, k>> \in skewed
    BY <1>1, <1>4
  <2> QED
    BY <1>1, <1>2, <1>3, <1>4, <2>1 DEF Agrees, Rest
<1>5. CASE w.key = k
  <2> SUFFICES ASSUME <<c, k>> \notin skewed', ~HasLeg(outbox'[c], "first", k)
               PROVE  Agrees(c, k)'
    BY DEF Agrees
  <2>1. Superseded(c, w) /\ <<c, k>> \notin skewed
    BY <1>1, <1>5
  <2>2. /\ w.leg = "second"
        /\ HasKey(handlers[c], k) \/ HasLeg(outbox'[c], "second", k)
    BY <1>2, <1>5, <2>1 DEF Superseded
  <2>3. HasLeg(outbox'[c], "second", k) => HasKey(outbox'[c], k)
    BY DEF HasLeg, HasKey
  <2>4. handlers' = handlers
    BY <1>3, <2>2
  <2> QED
    BY <1>1, <1>2, <1>3, <1>5, <2>1, <2>2, <2>3, <2>4 DEF Agrees, Rest
<1> QED
  BY <1>4, <1>5

(* A completion handler: the operation it held moves to the end of the *)
(* pipeline, behind every older second leg of its key.                 *)
LEMMA AgreesHandle ==
  ASSUME IInv, NEW c \in Clients, NEW k \in Keys, Handle(c)
  PROVE  Agrees(c, k)'
<1> DEFINE s == handlers[c]
           h == Head(s)
           x == [leg |-> "second", op |-> h.op, key |-> h.key]
<1>1. /\ s \in Seq(Handler) /\ s # <<>>
      /\ handlers'[c] = Tail(s)
      /\ outbox[c] \in Seq(Write)
      /\ outbox'[c] = Append(outbox[c], x)
      /\ UNCHANGED <<primary, mirror, skewed>>
  BY DEF IInv, TypeOK, Handle
<1>2. /\ Agrees(c, k)
      /\ Says(c, k)' = Says(c, k)
  BY <1>1 DEF IInv, YoungestAgrees, Agrees, Says
<1>3. h \in Handler
  BY <1>1
<1>4. x \in Write /\ x.leg = "second" /\ x.op = h.op /\ x.key = h.key
  BY <1>3 DEF Write, Handler
<1> HIDE DEF x, h, s
<1>5. /\ HasKey(outbox'[c], k) <=> HasKey(outbox[c], k) \/ h.key = k
      /\ HasLeg(outbox'[c], "first", k) <=> HasLeg(outbox[c], "first", k)
      /\ HasLeg(outbox'[c], "bare", k) <=> HasLeg(outbox[c], "bare", k)
  <2>0. outbox[c] \in Seq(Write) /\ x \in Write
    BY <1>1, <1>4
  <2>1. \A leg : HasLeg(Append(outbox[c], x), leg, k)
                   <=> HasLeg(outbox[c], leg, k) \/ (x.leg = leg /\ x.key = k)
    BY <2>0, QueryAppend
  <2>2. HasKey(Append(outbox[c], x), k) <=> HasKey(outbox[c], k) \/ x.key = k
    BY <1>1, <1>4, QueryAppend
  <2> QED
    BY <1>1, <1>4, <2>1, <2>2
<1>6. \A op : /\ h.key = k /\ h.op = op => LastIs(outbox'[c], k, op)
              /\ h.key # k /\ LastIs(outbox[c], k, op) => LastIs(outbox'[c], k, op)
  BY <1>1, <1>4, LastIsAppend
<1>7. HasKey(s, k) <=> HasKey(Tail(s), k) \/ h.key = k
  BY <1>1, QueryTail DEF h
<1>8. \A op : LastIs(s, k, op) =>
         /\ HasKey(Tail(s), k) => LastIs(Tail(s), k, op)
         /\ ~HasKey(Tail(s), k) => h.key = k /\ h.op = op
  BY <1>1, LastIsTail DEF h
<1>9. /\ HasKey(handlers[c], k) <=> HasKey(s, k)
      /\ \A op : LastIs(handlers[c], k, op) <=> LastIs(s, k, op)
  BY DEF s
<1>10. CASE h.key = k
  BY <1>1, <1>2, <1>5, <1>6, <1>7, <1>8, <1>9, <1>10 DEF Agrees, Rest
<1>11. CASE h.key # k
  BY <1>1, <1>2, <1>5, <1>6, <1>7, <1>8, <1>9, <1>11 DEF Agrees, Rest
<1> QED
  BY <1>10, <1>11

(* A restart: every key that loses a handler is excused, and the others *)
(* have no first leg and no handler, so nothing about them changes.     *)
LEMMA AgreesKill ==
  ASSUME IInv, NEW c \in Clients, NEW k \in Keys, Kill(c)
  PROVE  Agrees(c, k)'
<1> DEFINE s == outbox[c]
           t == [i \in DOMAIN s |-> Orphan(s[i])]
<1>1. /\ s \in Seq(Write)
      /\ outbox'[c] = t
      /\ handlers'[c] = <<>>
      /\ UNCHANGED <<primary, mirror>>
      /\ <<c, k>> \notin skewed' => /\ <<c, k>> \notin skewed
                                    /\ ~HasLeg(s, "first", k)
                                    /\ ~HasKey(handlers[c], k)
  BY DEF IInv, TypeOK, Kill
<1>2. Agrees(c, k) /\ Says(c, k)' = Says(c, k)
  BY <1>1 DEF IInv, YoungestAgrees, Agrees, Says
<1> SUFFICES ASSUME <<c, k>> \notin skewed'
             PROVE  Agrees(c, k)'
  BY DEF Agrees
<1>3. /\ DOMAIN t = DOMAIN s
      /\ \A i \in DOMAIN s : /\ t[i].key = s[i].key
                             /\ t[i].op = s[i].op
                             /\ s[i].leg # "first" => t[i].leg = s[i].leg
                             /\ s[i].leg = "first" => s[i].key # k
  BY <1>1, OrphanTypes DEF HasLeg
<1> HIDE DEF t
<1>4. HasKey(t, k) <=> HasKey(s, k)
  BY <1>3 DEF HasKey
<1>5. HasLeg(t, "bare", k) => HasLeg(s, "bare", k)
  BY <1>3 DEF HasLeg
<1>6. \A op : LastIs(s, k, op) => LastIs(t, k, op)
  BY <1>3 DEF LastIs
<1>7. ~HasKey(handlers'[c], k)
  BY <1>1 DEF HasKey
<1> QED
  BY <1>1, <1>2, <1>4, <1>5, <1>6, <1>7 DEF Agrees, Rest

----------------------------------------------------------------------------
(* Every step keeps the inductive invariant. *)
LEMMA InductiveStep == IInv /\ [Next]_vars => IInv'
<1> SUFFICES ASSUME IInv, [Next]_vars PROVE IInv'
  OBVIOUS
<1>1. TypeOK' /\ BareBeforeFirst'
  BY TypeStep, BareStep DEF IInv
<1>2. ASSUME NEW d \in Clients, NEW k \in Keys PROVE Agrees(d, k)'
  <2>1. TypeOK /\ YoungestAgrees /\ Agrees(d, k)
    BY DEF IInv, YoungestAgrees, Agrees
  <2>2. ASSUME outbox'[d] = outbox[d], handlers'[d] = handlers[d],
               <<d, k>> \in primary' <=> <<d, k>> \in primary,
               <<d, k>> \in mirror' <=> <<d, k>> \in mirror,
               <<d, k>> \in skewed' <=> <<d, k>> \in skewed
        PROVE  Agrees(d, k)'
    <3>1. Says(d, k)' = Says(d, k)
      BY <2>2 DEF Says
    <3> QED
      BY <2>1, <2>2, <3>1 DEF Agrees, Rest
  <2>3. ASSUME NEW c \in Clients, NEW op \in Ops, NEW j \in Keys, Start(c, op, j)
        PROVE  Agrees(d, k)'
    <3>1. CASE c = d
      BY <2>1, <2>3, <3>1, AgreesStart
    <3>2. CASE c # d
      BY <2>1, <2>2, <2>3, <3>2 DEF Start, TypeOK
    <3> QED
      BY <3>1, <3>2
  <2>4. ASSUME NEW c \in Clients, Commit(c) PROVE Agrees(d, k)'
    <3>1. CASE c = d
      BY <2>4, <3>1, AgreesCommit
    <3>2. CASE c # d
      BY <2>1, <2>2, <2>4, <3>2 DEF Commit, Notify, Apply, TypeOK
    <3> QED
      BY <3>1, <3>2
  <2>5. ASSUME NEW c \in Clients, Refuse(c) PROVE Agrees(d, k)'
    <3>1. CASE c = d
      BY <2>5, <3>1, AgreesRefuse
    <3>2. CASE c # d
      BY <2>1, <2>2, <2>5, <3>2 DEF Refuse, Notify, TypeOK
    <3> QED
      BY <3>1, <3>2
  <2>6. ASSUME NEW c \in Clients, Handle(c) PROVE Agrees(d, k)'
    <3>1. CASE c = d
      BY <2>6, <3>1, AgreesHandle
    <3>2. CASE c # d
      BY <2>1, <2>2, <2>6, <3>2 DEF Handle, TypeOK
    <3> QED
      BY <3>1, <3>2
  <2>7. ASSUME NEW c \in Clients, Kill(c) PROVE Agrees(d, k)'
    <3>1. CASE c = d
      BY <2>7, <3>1, AgreesKill
    <3>2. CASE c # d
      BY <2>1, <2>2, <2>7, <3>2 DEF Kill, TypeOK
    <3> QED
      BY <3>1, <3>2
  <2>8. CASE UNCHANGED vars
    BY <2>2, <2>8 DEF vars
  <2> QED
    BY <2>3, <2>4, <2>5, <2>6, <2>7, <2>8 DEF Next
<1>3. YoungestAgrees'
  BY <1>2 DEF YoungestAgrees, Agrees
<1> QED
  BY <1>1, <1>3 DEF IInv

(* IInv holds in every behaviour: once no first leg of a key is queued, the *)
(* youngest thing on its way to the mirror says what the primary says.      *)
THEOREM Inductive == Spec => []IInv
<1>1. Init => IInv
  <2> SUFFICES ASSUME Init PROVE IInv
    OBVIOUS
  <2>1. TypeOK
    BY MaxPendingAssumption DEF Init, TypeOK
  <2>2. \A c \in Clients : outbox[c] = <<>> /\ handlers[c] = <<>>
    BY DEF Init
  <2>3. BareBeforeFirst
    BY <2>2 DEF BareBeforeFirst
  <2>4. YoungestAgrees
    BY <2>2 DEF Init, YoungestAgrees, HasKey, HasLeg
  <2> QED
    BY <2>1, <2>3, <2>4 DEF IInv
<1> QED
  BY <1>1, InductiveStep, PTL DEF Spec

(* MirrorAtRest for every number of clients, keys and pending writes: when  *)
(* all the writes of a key are done, Following and Follower (or the likes   *)
(* of the post and of the user) agree on it, whatever follow and unFollow   *)
(* calls overlapped, unless one of its legs was lost to a refusal or a      *)
(* restart and no later call restated it.                                   *)
THEOREM CopiesAgree == Spec => []MirrorAtRest
<1>1. IInv => MirrorAtRest
  <2> SUFFICES ASSUME IInv, NEW c \in Clients, NEW k \in Keys,
                      Rest(c, k), <<c, k>> \notin skewed
               PROVE  <<c, k>> \in primary <=> <<c, k>> \in mirror
    BY DEF MirrorAtRest
  <2>1. ~HasLeg(outbox[c], "first", k)
    BY DEF Rest, HasKey, HasLeg
  <2> QED
    BY <2>1 DEF IInv, YoungestAgrees
<1> QED
  BY <1>1, Inductive, PTL

----------------------------------------------------------------------------
(***************************************************************************)
(* The list of notifications (module NotificationScreen), whose buttons    *)
(* start two-leg writes of their own.                                      *)
(***************************************************************************)

(* A step of a follow chain, the answer of isUserFollowed, a list without    *)
(* repetition and the answer of fetchNotifications.                          *)
Chain == [kind : {"first", "second"}, op : {"set", "delete"}, uid : Senders, cell : Cells]
Check == [kind : {"check"}, n : Notifications, followed : BOOLEAN]
Row == Notifications \X BOOLEAN
Table == {r \in Seq(Row) : \A i, j \in DOMAIN r : r[i][1] = r[j][1] => i = j}
Answer == [kind : {"list"}, list : Table]
Done == Chain \cup Check \cup Answer

(* Those about a user, those that write Following, those that follow, and   *)
(* the answers about a notification.                                         *)
Concerning(u) == {m \in Chain : m.uid = u}
Firsts(u) == {m \in Chain : m.uid = u /\ m.kind = "first"}
Sets == {m \in Chain : m.op = "set"}
CheckOf(n) == {m \in Check : m.n = n}

(* Every row has a cell of its own that shows it. *)
ScreenTypes ==
  /\ rows \in Table
  /\ cells \in [Cells -> Row \cup {<<>>}]
  /\ place \in [DOMAIN rows -> Cells]
  /\ \A i, j \in DOMAIN rows : place[i] = place[j] => i = j
  /\ \A i \in DOMAIN rows : cells[place[i]] \in Row /\ cells[place[i]][1] = rows[i][1]

NoteTypes ==
  /\ sender \in [Notifications -> Senders]
  /\ checks \in [Notifications -> Nat]
  /\ pipeline \in Seq(Chain)
  /\ completions \in Seq(Done)
  /\ ScreenTypes

(* Whether u is followed once the pipeline is empty. *)
Truth(u) == IF Has(pipeline, Firsts(u)) THEN LastIn(pipeline, Firsts(u), Sets)
                                        ELSE u \in following

(* The answers that tell it. *)
Right(n) == {m \in Check : m.followed <=> Truth(sender[n])}

(* A chain about u is under way; there is one step of one chain. *)
Under(u) == Has(pipeline, Concerning(u)) \/ Has(completions, Concerning(u))
Lone(u) == LoneIn(pipeline, completions, Concerning(u))
StepsIn(s, t) == ToSet(s) \cup (ToSet(t) \cap Chain)
Steps == StepsIn(pipeline, completions)

(* When n was not tapped since it was checked, the last answer about it that *)
(* is still to come, or else its row, tells whether its sender is followed.  *)
RowCurrent(n) ==
  n \notin touched /\ checks[n] = 0 =>
    IF Has(completions, CheckOf(n))
      THEN LastIn(completions, CheckOf(n), Right(n))
      ELSE \A i \in DOMAIN rows : rows[i][1] = n => (rows[i][2] <=> Truth(sender[n]))

(* The button of n that is vouched for has no chain, or it was tapped. *)
TappedOrIdle(n) == n \notin blurred /\ n \notin touched => ~Under(sender[n])

(* What it shows in row i: nobody else's chain is to toggle it, and it tells *)
(* the truth, or the one step of its own chain is to toggle it to the truth. *)
ButtonRight(n, i) ==
  /\ \A m \in Steps : m.cell = place[i] => m.uid = sender[n]
  /\ ~Under(sender[n]) => (cells[place[i]][2] <=> Truth(sender[n]))
  /\ Under(sender[n]) =>
       /\ Lone(sender[n])
       /\ \A m \in Steps : m.uid = sender[n] =>
            /\ m.cell = place[i]
            /\ cells[place[i]][2] <=> m.op = "delete"
            /\ Truth(sender[n]) <=> m.op = "set"

ButtonCurrent(n) ==
  n \notin blurred /\ checks[n] = 0 /\ ~Has(completions, CheckOf(n)) =>
    \A i \in DOMAIN rows : rows[i][1] = n => ButtonRight(n, i)

(* The inductive invariant behind RowsTruthful and ButtonTruthful. *)
NoteInv ==
  /\ NoteTypes
  /\ \A n \in Notifications : RowCurrent(n) /\ TappedOrIdle(n) /\ ButtonCurrent(n)

(* The kinds of completions are told apart by their names. *)
LEMMA DoneKinds ==
  ASSUME NEW m \in Done
  PROVE  /\ m.kind \in {"first", "second"} <=> m \in Chain
         /\ m.kind = "check" <=> m \in Check
         /\ m.kind = "list" <=> m \in Answer
         /\ m \in Chain => m \notin Check
BY DEF Done, Chain, Check, Answer

(* The steps of chains in two queues. *)
LEMMA StepsOf ==
  ASSUME NEW s \in Seq(Chain), NEW t \in Seq(Done)
  PROVE  /\ StepsIn(s, t) \subseteq Chain
         /\ \A u : Has(s, Concerning(u)) \/ Has(t, Concerning(u))
                     <=> \E m \in StepsIn(s, t) : m.uid = u
<1>1. ToSet(s) \subseteq Chain
  BY ToSetType
<1>2. \A u : Has(s, Concerning(u)) <=> \E m \in ToSet(s) : m \in Concerning(u)
  BY HasElement
<1>3. \A u : Has(t, Concerning(u)) <=> \E m \in ToSet(t) : m \in Concerning(u)
  BY HasElement
<1> QED
  BY <1>1, <1>2, <1>3 DEF Concerning, StepsIn

(* The steps under way, before and after. *)
LEMMA StepsAre ==
  ASSUME NoteTypes, NoteTypes'
  PROVE  /\ Steps \subseteq Chain /\ Steps' \subseteq Chain
         /\ \A u : Under(u) <=> \E m \in Steps : m.uid = u
         /\ \A u : Under(u)' <=> \E m \in Steps' : m.uid = u
<1>1. pipeline \in Seq(Chain) /\ pipeline' \in Seq(Chain)
  BY DEF NoteTypes
<1>2. completions \in Seq(Done) /\ completions' \in Seq(Done)
  BY DEF NoteTypes
<1>3. /\ StepsIn(pipeline, completions) \subseteq Chain
      /\ \A u : Has(pipeline, Concerning(u)) \/ Has(completions, Concerning(u))
                  <=> \E m \in StepsIn(pipeline, completions) : m.uid = u
  BY <1>1, <1>2, StepsOf
<1>4. /\ StepsIn(pipeline', completions') \subseteq Chain
      /\ \A u : Has(pipeline', Concerning(u)) \/ Has(completions', Concerning(u))
                  <=> \E m \in StepsIn(pipeline', completions') : m.uid = u
  BY <1>1, <1>2, StepsOf
<1>5. Steps' = StepsIn(pipeline', completions')
  BY DEF Steps
<1> QED
  BY <1>3, <1>4, <1>5 DEF Under, Steps

(* The chains NotificationScreen sees. *)
LEMMA ChainedIs ==
  ASSUME NoteTypes, NEW u
  PROVE  Chained(u) <=> Under(u)
<1>1. pipeline \in Seq(Chain) /\ completions \in Seq(Done)
  BY DEF NoteTypes
<1>2. \A i \in DOMAIN pipeline : pipeline[i] \in Chain
  BY <1>1, SeqFacts
<1>3. \A i \in DOMAIN completions : completions[i] \in Done
  BY <1>1, SeqFacts
<1>4. \A i \in DOMAIN completions :
        completions[i].kind \in {"first", "second"} <=> completions[i] \in Chain
  BY <1>3, DoneKinds
<1>5. Has(pipeline, Concerning(u)) <=> \E i \in DOMAIN pipeline : pipeline[i].uid = u
  BY <1>2 DEF Has, Concerning
<1>6. Has(completions, Concerning(u))
        <=> \E i \in DOMAIN completions : /\ completions[i].kind \in {"first", "second"}
                                          /\ completions[i].uid = u
  BY <1>4 DEF Has, Concerning
<1> QED
  BY <1>5, <1>6 DEF Chained, Under

(* What isUserFollowed answers is what the pipeline will make of Following. *)
LEMMA ReadIs ==
  ASSUME NoteTypes, NEW u
  PROVE  LocallyFollows(u) <=> Truth(u)
<1> DEFINE pending == {i \in DOMAIN pipeline : pipeline[i].kind = "first" /\ pipeline[i].uid = u}
           k == Max(pending)
<1>1. pipeline \in Seq(Chain)
  BY DEF NoteTypes
<1>2. \A i \in DOMAIN pipeline : pipeline[i] \in Chain /\ i \in Nat
  BY <1>1
<1>3. \A i \in DOMAIN pipeline : i \in pending <=> pipeline[i] \in Firsts(u)
  BY <1>2 DEF Firsts
<1>4. LocallyFollows(u) <=> IF pending = {} THEN u \in following
                                                  ELSE pipeline[k].op = "set"
  BY DEF LocallyFollows, Max
<1>5. pending \in SUBSET DOMAIN pipeline
  OBVIOUS
<1> HIDE DEF pending, k
<1>6. CASE pending = {}
  <2>1. ~Has(pipeline, Firsts(u))
    BY <1>3, <1>6 DEF Has
  <2> QED
    BY <1>4, <1>6, <2>1 DEF Truth
<1>7. CASE pending # {}
  <2>1. k \in pending /\ \A i \in pending : i <= k
    BY <1>1, <1>5, <1>7, LastPosition DEF k
  <2>2. k \in DOMAIN pipeline /\ pipeline[k] \in Firsts(u)
    BY <1>3, <1>5, <2>1
  <2>3. \A i \in DOMAIN pipeline : i > k => pipeline[i] \notin Firsts(u)
    BY <1>2, <1>3, <2>1, <2>2
  <2>4. \A i \in DOMAIN pipeline :
          /\ pipeline[i] \in Firsts(u)
          /\ \A j \in DOMAIN pipeline : j > i => pipeline[j] \notin Firsts(u)
          => i = k
    <3>1. SUFFICES ASSUME NEW i \in DOMAIN pipeline, pipeline[i] \in Firsts(u),
                          \A j \in DOMAIN pipeline : j > i => pipeline[j] \notin Firsts(u)
                   PROVE  i = k
      OBVIOUS
    <3>2. ~(k > i) /\ i <= k
      BY <1>3, <2>1, <2>2, <3>1
    <3> QED
      BY <1>2, <2>2, <3>2
  <2>5. LastIn(pipeline, Firsts(u), Sets) <=> pipeline[k] \in Sets
    BY <2>2, <2>3, <2>4 DEF LastIn
  <2>6. pipeline[k] \in Sets <=> pipeline[k].op = "set"
    BY <1>2, <2>2 DEF Sets
  <2>7. Has(pipeline, Firsts(u))
    BY <2>2 DEF Has
  <2> QED
    BY <1>4, <1>7, <2>5, <2>6, <2>7 DEF Truth
<1> QED
  BY <1>6, <1>7

(* A write that joins the pipeline decides only what it is about. *)
LEMMA TruthGained ==
  ASSUME NoteTypes, NEW x \in Chain, Gained(pipeline, pipeline', x), following' = following, NEW u
  PROVE  /\ x \notin Firsts(u) => (Truth(u)' <=> Truth(u))
         /\ x \in Firsts(u) => (Truth(u)' <=> x.op = "set")
<1>1. pipeline \in Seq(Chain)
  BY DEF NoteTypes
<1>2. /\ Has(pipeline', Firsts(u)) <=> Has(pipeline, Firsts(u)) \/ x \in Firsts(u)
      /\ x \in Firsts(u) => (LastIn(pipeline', Firsts(u), Sets) <=> x \in Sets)
      /\ x \notin Firsts(u) =>
           (LastIn(pipeline', Firsts(u), Sets) <=> LastIn(pipeline, Firsts(u), Sets))
  BY <1>1, GainedFacts
<1>3. x \in Sets <=> x.op = "set"
  BY DEF Sets
<1> QED
  BY <1>2, <1>3 DEF Truth

(* So does one that leaves it without effect. *)
LEMMA TruthLost ==
  ASSUME NoteTypes, NEW w, Lost(pipeline, pipeline', w), following' = following, NEW u,
         w \notin Firsts(u)
  PROVE  Truth(u)' <=> Truth(u)
<1>1. pipeline \in Seq(Chain)
  BY DEF NoteTypes
<1>2. /\ Has(pipeline, Firsts(u)) <=> Has(pipeline', Firsts(u)) \/ w \in Firsts(u)
      /\ LastIn(pipeline', Firsts(u), Sets) <=> LastIn(pipeline, Firsts(u), Sets)
  BY <1>1, LostFacts
<1> QED
  BY <1>2 DEF Truth

(* A write that takes effect leaves the truth as it is. *)
LEMMA TruthCommitted ==
  ASSUME NoteTypes, NEW w, Lost(pipeline, pipeline', w), NEW u,
         following' = IF w.kind = "first" THEN ApplyOp(following, w.op, w.uid) ELSE following
  PROVE  Truth(u)' <=> Truth(u)
<1>1. pipeline \in Seq(Chain)
  BY DEF NoteTypes
<1>2. w \in Chain
  BY <1>1, LostFacts
<1>3. u \in following' <=> IF w \in Firsts(u) THEN w \in Sets ELSE u \in following
  BY <1>2 DEF Firsts, Sets, ApplyOp, Chain
<1>4. PICK s, t, X, Y : s = pipeline /\ t = pipeline' /\ X = Firsts(u) /\ Y = Sets
  OBVIOUS
<1>5. s \in Seq(Chain) /\ s # <<>> /\ t = Tail(s) /\ w = Head(s)
  BY <1>1, <1>4 DEF Lost
<1>6. /\ Has(s, X) <=> Has(t, X) \/ w \in X
      /\ LastIn(s, X, Y) => LastIn(t, X, Y)
      /\ LastIn(s, X, Y) /\ w \in X /\ ~Has(t, X) => w \in Y
      /\ w \notin X /\ LastIn(t, X, Y) => LastIn(s, X, Y)
      /\ Has(t, X) /\ LastIn(t, X, Y) => LastIn(s, X, Y)
      /\ ~Has(t, X) /\ w \in Y => LastIn(s, X, Y)
  BY <1>5, LastTail
<1>7. /\ Truth(u) <=> IF Has(s, X) THEN LastIn(s, X, Y) ELSE u \in following
      /\ Truth(u)' <=> IF Has(t, X) THEN LastIn(t, X, Y) ELSE u \in following'
  BY <1>4 DEF Truth
<1>8. u \in following' <=> IF w \in X THEN w \in Y ELSE u \in following
  BY <1>3, <1>4
<1> QED
  BY <1>6, <1>7, <1>8

(* Reloading the table shows the rows, each in a cell of its own. *)
LEMMA ReloadIs ==
  ASSUME NEW new \in Table, Reload(new)
  PROVE  /\ rows' = new
         /\ ScreenTypes'
         /\ \A i \in DOMAIN new : cells'[place'[i]] = new[i]
<1>1. /\ rows' = new
      /\ place' \in [DOMAIN new -> Cells]
      /\ \A i, j \in DOMAIN new : place'[i] = place'[j] => i = j
  BY DEF Reload, Places, IsInjective
<1>2. cells' = [c \in Cells |-> IF \E i \in DOMAIN new : place'[i] = c
                                  THEN new[CHOOSE i \in DOMAIN new : place'[i] = c]
                                  ELSE <<>>]
  BY DEF Reload
<1>3. \A i \in DOMAIN new : new[i] \in Row
  BY SeqFacts DEF Table
<1>4. ASSUME NEW i \in DOMAIN new
      PROVE  cells'[place'[i]] = new[i]
  <2>1. PICK c : c = place'[i]
    OBVIOUS
  <2>2. c \in Cells
    BY <1>1, <2>1
  <2>3. PICK k : k = CHOOSE j \in DOMAIN new : place'[j] = c
    OBVIOUS
  <2>4. k \in DOMAIN new /\ place'[k] = c
    BY <2>1, <2>3
  <2>5. k = i
    BY <1>1, <2>1, <2>4
  <2>6. cells'[c] = new[k]
    BY <1>2, <2>1, <2>2, <2>3
  <2> QED
    BY <2>1, <2>5, <2>6
<1>5. cells' \in [Cells -> Row \cup {<<>>}]
  <2>1. ASSUME NEW c \in Cells
        PROVE  cells'[c] \in Row \cup {<<>>}
    <3>1. CASE \E i \in DOMAIN new : place'[i] = c
      BY <1>3, <1>4, <3>1
    <3>2. CASE ~\E i \in DOMAIN new : place'[i] = c
      BY <1>2, <3>2
    <3> QED
      BY <3>1, <3>2
  <2>2. cells' = [c \in Cells |-> cells'[c]]
    BY <1>2
  <2> QED
    BY <2>1, <2>2
<1>6. ScreenTypes'
  BY <1>1, <1>3, <1>4, <1>5 DEF ScreenTypes
<1> QED
  BY <1>1, <1>4, <1>6

(* fetchNotifications lists no notification twice. *)
LEMMA ListedIs == Listed \in Table
<1> DEFINE l == Filter(Latest, arrived)
           t == [i \in DOMAIN l |-> <<l[Len(l) + 1 - i], FALSE>>]
<1>2. Latest \in Seq(Notifications) /\ IsInjective(Latest)
  BY NotificationAssumption
<1>3. l \in Seq(Notifications) /\ IsInjective(l)
  BY <1>2, FilterElements, FilterInjective
<1>4. Listed = t
  BY DEF Listed
<1> HIDE DEF l
<1>5. Len(l) \in Nat /\ DOMAIN l = 1 .. Len(l) /\ \A i \in DOMAIN l : l[i] \in Notifications
  BY <1>3, SeqFacts
<1>6. \A i \in DOMAIN l : Len(l) + 1 - i \in DOMAIN l
  BY <1>5
<1>7. \A i \in DOMAIN l : t[i] \in Row /\ t[i][1] = l[Len(l) + 1 - i]
  BY <1>5, <1>6 DEF Row
<1>8. t = [i \in DOMAIN l |-> t[i]]
  OBVIOUS
<1> HIDE DEF t
<1>9. t \in Seq(Row) /\ DOMAIN t = DOMAIN l
  BY <1>3, <1>7, <1>8, Replaced
<1>10. \A i, j \in DOMAIN l : l[Len(l) + 1 - i] = l[Len(l) + 1 - j] => i = j
  <2>1. SUFFICES ASSUME NEW i \in DOMAIN l, NEW j \in DOMAIN l,
                        l[Len(l) + 1 - i] = l[Len(l) + 1 - j]
                 PROVE  i = j
    OBVIOUS
  <2>2. Len(l) + 1 - i = Len(l) + 1 - j
    BY <1>3, <1>6, <2>1 DEF IsInjective
  <2> QED
    BY <1>5, <2>2
<1> QED
  BY <1>4, <1>7, <1>9, <1>10 DEF Table

(* An answer for n changes its row and no other. *)
LEMMA RowsWithIs ==
  ASSUME ScreenTypes, NEW n \in Notifications, NEW b \in BOOLEAN
  PROVE  /\ RowsWith(n, b) \in Table
         /\ DOMAIN RowsWith(n, b) = DOMAIN rows
         /\ \A i \in DOMAIN rows :
              RowsWith(n, b)[i] = IF rows[i][1] = n THEN <<n, b>> ELSE rows[i]
<1> DEFINE t == RowsWith(n, b)
<1>1. /\ t = [i \in DOMAIN rows |-> t[i]] /\ DOMAIN t = DOMAIN rows
      /\ \A i \in DOMAIN rows : t[i] = IF rows[i][1] = n THEN <<n, b>> ELSE rows[i]
  BY DEF RowsWith
<1> HIDE DEF t
<1>2. rows \in Seq(Row) /\ \A i, j \in DOMAIN rows : rows[i][1] = rows[j][1] => i = j
  BY DEF ScreenTypes, Table
<1>3. \A i \in DOMAIN rows : rows[i] \in Row
  BY <1>2, SeqFacts
<1>4. \A i \in DOMAIN rows : t[i] \in Row /\ t[i][1] = rows[i][1]
  BY <1>1, <1>3 DEF Row
<1>5. t \in Seq(Row)
  BY <1>1, <1>2, <1>4, Replaced
<1>6. t \in Table
  BY <1>1, <1>2, <1>4, <1>5 DEF Table
<1> QED
  BY <1>1, <1>6 DEF t

(* The completion that is handled leaves the main queue. *)
LEMMA HandleIs ==
  ASSUME NoteTypes, NEW k, HandleKind(k)
  PROVE  /\ Lost(completions, completions', Head(completions))
         /\ completions' \in Seq(Done)
         /\ Head(completions) \in Done /\ Head(completions).kind = k
<1>1. completions \in Seq(Done)
  BY DEF NoteTypes
<1>2. Lost(completions, completions', Head(completions)) /\ Head(completions).kind = k
  BY DEF HandleKind, Lost
<1> QED
  BY <1>1, <1>2, LostFacts

(* A write that leaves the pipeline becomes a completion. *)
LEMMA DepartIs ==
  ASSUME NoteTypes, Depart
  PROVE  /\ Lost(pipeline, pipeline', Head(pipeline))
         /\ Gained(completions, completions', Head(pipeline))
         /\ Head(pipeline) \in Chain
         /\ pipeline' \in Seq(Chain) /\ completions' \in Seq(Done)
<1>1. pipeline \in Seq(Chain) /\ completions \in Seq(Done)
  BY DEF NoteTypes
<1>2. Lost(pipeline, pipeline', Head(pipeline)) /\ Gained(completions, completions', Head(pipeline))
  BY DEF Depart, Lost, Gained
<1>3. Head(pipeline) \in Chain /\ pipeline' \in Seq(Chain)
  BY <1>1, <1>2, LostFacts
<1>4. Head(pipeline) \in Done
  BY <1>3 DEF Done
<1>5. completions' \in Seq(Done)
  BY <1>1, <1>2, <1>4, GainedFacts
<1> QED
  BY <1>2, <1>3, <1>5

(* The answer of isUserFollowed joins the main queue. *)
LEMMA AnswerIs ==
  ASSUME NoteTypes, NEW n \in Notifications, CheckAnswer(n)
  PROVE  \E x \in Check : /\ x.n = n
                          /\ x.followed <=> Truth(sender[n])
                          /\ Gained(completions, completions', x)
                          /\ completions' \in Seq(Done)
<1> DEFINE x == [kind |-> "check", n |-> n, followed |-> LocallyFollows(sender[n])]
<1>1. completions \in Seq(Done)
  BY DEF NoteTypes
<1>2. LocallyFollows(sender[n]) <=> Truth(sender[n])
  BY ReadIs
<1>3. LocallyFollows(sender[n]) \in BOOLEAN
  <2> DEFINE pending == {j \in DOMAIN pipeline : /\ pipeline[j].kind = "first"
                                                 /\ pipeline[j].uid = sender[n]}
  <2>1. LocallyFollows(sender[n])
          = IF pending = {} THEN sender[n] \in following ELSE pipeline[Max(pending)].op = "set"
    BY DEF LocallyFollows
  <2>2. CASE pending = {}
    BY <2>1, <2>2
  <2>3. CASE pending # {}
    BY <2>1, <2>3
  <2> QED
    BY <2>2, <2>3
<1>4. Gained(completions, completions', x)
  BY DEF CheckAnswer, Gained
<1>5. x \in Check /\ x.n = n /\ (x.followed <=> Truth(sender[n]))
  BY <1>2, <1>3 DEF Check
<1> HIDE DEF x
<1>6. x \in Done
  BY <1>5 DEF Done
<1>7. completions' \in Seq(Done)
  BY <1>1, <1>4, <1>6, GainedFacts
<1> QED
  BY <1>4, <1>5, <1>7

(* A tap sends the first write of a chain. *)
LEMMA TapIs ==
  ASSUME NoteTypes, NEW i \in DOMAIN rows, Tap(i)
  PROVE  \E x \in Chain : /\ x.kind = "first" /\ x.cell = place[i]
                          /\ x.uid = sender[rows[i][1]]
                          /\ x.op = OpOf(cells[place[i]][2])
                          /\ Gained(pipeline, pipeline', x)
                          /\ pipeline' \in Seq(Chain)
<1> DEFINE x == [kind |-> "first", op |-> OpOf(cells[place[i]][2]),
                 uid |-> sender[cells[place[i]][1]], cell |-> place[i]]
<1>1. pipeline \in Seq(Chain) /\ sender \in [Notifications -> Senders]
  BY DEF NoteTypes
<1>2. /\ place[i] \in Cells /\ rows[i][1] \in Notifications
      /\ cells[place[i]][1] = rows[i][1]
  BY SeqFacts DEF NoteTypes, ScreenTypes, Row, Table
<1>3. Gained(pipeline, pipeline', x)
  BY DEF Tap, Gained
<1>4. OpOf(cells[place[i]][2]) \in {"set", "delete"}
  BY DEF OpOf
<1>5. /\ x \in Chain /\ x.kind = "first" /\ x.cell = place[i] /\ x.uid = sender[rows[i][1]]
      /\ x.op = OpOf(cells[place[i]][2])
  BY <1>1, <1>2, <1>4 DEF Chain
<1> HIDE DEF x
<1>6. pipeline' \in Seq(Chain)
  BY <1>1, <1>3, <1>5, GainedFacts
<1> QED
  BY <1>3, <1>5, <1>6

(* The completion of a first write sends the second. *)
LEMMA SecondIs ==
  ASSUME NoteTypes, HandleFirst
  PROVE  \E x \in Chain : /\ x.kind = "second" /\ x.cell = Head(completions).cell
                          /\ x.uid = Head(completions).uid /\ x.op = Head(completions).op
                          /\ Head(completions) \in Chain
                          /\ Gained(pipeline, pipeline', x)
                          /\ pipeline' \in Seq(Chain)
<1> DEFINE x == [Head(completions) EXCEPT !.kind = "second"]
<1>1. pipeline \in Seq(Chain)
  BY DEF NoteTypes
<1>2. HandleKind("first") /\ Gained(pipeline, pipeline', x)
  BY DEF HandleFirst, Gained
<1>3. Head(completions) \in Chain
  BY <1>2, HandleIs, DoneKinds
<1>4. /\ x \in Chain /\ x.kind = "second" /\ x.cell = Head(completions).cell
      /\ x.uid = Head(completions).uid /\ x.op = Head(completions).op
  BY <1>3 DEF Chain
<1> HIDE DEF x
<1>5. pipeline' \in Seq(Chain)
  BY <1>1, <1>2, <1>4, GainedFacts
<1> QED
  BY <1>2, <1>3, <1>4, <1>5

(* What a toggle leaves. *)
LEMMA ToggleIs ==
  ASSUME NoteTypes, HandleSecond
  PROVE  /\ Head(completions) \in Chain
         /\ ScreenTypes'
         /\ \A i \in DOMAIN rows :
              cells'[place[i]] = IF place[i] = Head(completions).cell
                                   THEN <<cells[place[i]][1], ~cells[place[i]][2]>>
                                   ELSE cells[place[i]]
<1> DEFINE c == Head(completions).cell
<1>1. HandleKind("second") /\ rows' = rows /\ place' = place
  BY DEF HandleSecond
<1>2. Head(completions) \in Chain
  BY <1>1, HandleIs, DoneKinds
<1>3. c \in Cells
  BY <1>2 DEF Chain
<1>4. /\ cells \in [Cells -> Row \cup {<<>>}] /\ place \in [DOMAIN rows -> Cells]
      /\ \A i \in DOMAIN rows : cells[place[i]] \in Row /\ cells[place[i]][1] = rows[i][1]
  BY DEF NoteTypes, ScreenTypes
<1>5. cells' = [cells EXCEPT ![c] = IF @ = <<>> THEN @ ELSE <<@[1], ~@[2]>>]
  BY DEF HandleSecond
<1> HIDE DEF c
<1>6. <<>> \notin Row
  BY DEF Row
<1>7. cells' = [d \in Cells |-> IF d # c \/ cells[d] = <<>> THEN cells[d]
                                ELSE <<cells[d][1], ~cells[d][2]>>]
  BY <1>3, <1>4, <1>5
<1>8. \A r \in Row : <<r[1], ~r[2]>> \in Row
  BY DEF Row
<1>9. cells' \in [Cells -> Row \cup {<<>>}]
  BY <1>4, <1>7, <1>8
<1>10. \A i \in DOMAIN rows :
         cells'[place[i]] = IF place[i] = c THEN <<cells[place[i]][1], ~cells[place[i]][2]>>
                                            ELSE cells[place[i]]
  BY <1>4, <1>6, <1>7
<1>11. \A i \in DOMAIN rows : cells'[place[i]] \in Row /\ cells'[place[i]][1] = rows[i][1]
  <2>1. \A r \in Row : <<r[1], ~r[2]>>[1] = r[1]
    OBVIOUS
  <2> SUFFICES ASSUME NEW i \in DOMAIN rows
               PROVE  cells'[place[i]] \in Row /\ cells'[place[i]][1] = rows[i][1]
    OBVIOUS
  <2>2. PICK r \in Row : r = cells[place[i]]
    BY <1>4
  <2>3. r[1] = rows[i][1]
    BY <1>4, <2>2
  <2>4. cells'[place[i]] = r \/ cells'[place[i]] = <<r[1], ~r[2]>>
    BY <1>10, <2>2
  <2> QED
    BY <1>8, <2>1, <2>3, <2>4
<1>12. ScreenTypes'
  BY <1>1, <1>9, <1>11 DEF ScreenTypes, NoteTypes
<1> QED
  BY <1>2, <1>10, <1>12 DEF c

(* Every step keeps the types. *)
LEMMA NoteTypesStep ==
  ASSUME NoteTypes, [NoteNext]_noteVars
  PROVE  NoteTypes'
<1>1. /\ sender \in [Notifications -> Senders] /\ checks \in [Notifications -> Nat]
      /\ pipeline \in Seq(Chain) /\ completions \in Seq(Done) /\ ScreenTypes
  BY DEF NoteTypes
<1>2. ASSUME UNCHANGED screen PROVE ScreenTypes'
  <2>1. rows' = rows /\ cells' = cells /\ place' = place
    BY <1>2 DEF screen
  <2> QED
    BY <1>1, <2>1 DEF ScreenTypes
<1>3. CASE UNCHANGED noteVars
  <2>1. /\ sender' = sender /\ checks' = checks /\ pipeline' = pipeline
        /\ completions' = completions /\ UNCHANGED screen
    BY <1>3 DEF noteVars, backend, reads
  <2> QED
    BY <1>1, <1>2, <2>1 DEF NoteTypes
<1>4. CASE Arrive
  <2>1. /\ sender' = sender /\ checks' = checks /\ pipeline' = pipeline
        /\ completions' = completions /\ UNCHANGED screen
    BY <1>4 DEF Arrive, reads
  <2> QED
    BY <1>1, <1>2, <2>1 DEF NoteTypes
<1>5. CASE OnRefresh
  <2>1. /\ sender' = sender /\ checks' = checks /\ pipeline' = pipeline
        /\ completions' = completions /\ Reload(<<>>)
    BY <1>5 DEF OnRefresh, backend
  <2>2. <<>> \in Table
    BY DEF Table
  <2>3. ScreenTypes'
    BY <2>1, <2>2, ReloadIs
  <2> QED
    BY <1>1, <2>1, <2>3 DEF NoteTypes
<1>6. CASE QueryAnswer
  <2> DEFINE x == [kind |-> "list", list |-> Listed]
  <2>1. /\ sender' = sender /\ checks' = checks /\ pipeline' = pipeline
        /\ Gained(completions, completions', x) /\ UNCHANGED screen
    BY <1>6 DEF QueryAnswer, backend, Gained
  <2>2. x \in Done
    BY ListedIs DEF Done, Answer
  <2> HIDE DEF x
  <2>3. completions' \in Seq(Done)
    BY <1>1, <2>1, <2>2, GainedFacts
  <2> QED
    BY <1>1, <1>2, <2>1, <2>3 DEF NoteTypes
<1>7. CASE QueryFails
  <2>1. /\ sender' = sender /\ checks' = checks /\ pipeline' = pipeline
        /\ completions' = completions /\ UNCHANGED screen
    BY <1>7 DEF QueryFails, backend
  <2> QED
    BY <1>1, <1>2, <2>1 DEF NoteTypes
<1>8. ASSUME NEW n \in Notifications, CheckAnswer(n)
      PROVE  NoteTypes'
  <2>1. /\ sender' = sender /\ pipeline' = pipeline /\ UNCHANGED screen
        /\ checks[n] > 0 /\ checks' = [checks EXCEPT ![n] = @ - 1]
    BY <1>8 DEF CheckAnswer, backend
  <2>2. checks' \in [Notifications -> Nat]
    BY <1>1, <2>1
  <2>3. completions' \in Seq(Done)
    BY <1>8, AnswerIs
  <2> QED
    BY <1>1, <1>2, <2>1, <2>2, <2>3 DEF NoteTypes
<1>9. ASSUME NEW n \in Notifications, CheckFails(n)
      PROVE  NoteTypes'
  <2>1. /\ sender' = sender /\ pipeline' = pipeline /\ UNCHANGED screen
        /\ checks[n] > 0 /\ checks' = [checks EXCEPT ![n] = @ - 1] /\ completions' = completions
    BY <1>9 DEF CheckFails, backend
  <2>2. checks' \in [Notifications -> Nat]
    BY <1>1, <2>1
  <2> QED
    BY <1>1, <1>2, <2>1, <2>2 DEF NoteTypes
<1>10. CASE Scroll
  <2>1. /\ sender' = sender /\ checks' = checks /\ pipeline' = pipeline
        /\ completions' = completions /\ Reload(rows)
    BY <1>10 DEF Scroll, backend, reads
  <2>2. ScreenTypes'
    BY <1>1, <2>1, ReloadIs DEF ScreenTypes
  <2> QED
    BY <1>1, <2>1, <2>2 DEF NoteTypes
<1>11. ASSUME NEW i \in DOMAIN rows, Tap(i)
       PROVE  NoteTypes'
  <2>1. /\ sender' = sender /\ checks' = checks /\ completions' = completions
        /\ UNCHANGED screen
    BY <1>11 DEF Tap, backend, reads
  <2>2. pipeline' \in Seq(Chain)
    BY <1>11, TapIs
  <2> QED
    BY <1>1, <1>2, <2>1, <2>2 DEF NoteTypes
<1>12. CASE CommitWrite \/ RefuseWrite
  <2>1. /\ sender' = sender /\ checks' = checks /\ Depart /\ UNCHANGED screen
    BY <1>12 DEF CommitWrite, RefuseWrite, backend, reads
  <2>2. pipeline' \in Seq(Chain) /\ completions' \in Seq(Done)
    BY <2>1, DepartIs
  <2> QED
    BY <1>1, <1>2, <2>1, <2>2 DEF NoteTypes
<1>13. CASE HandleList
  <2>1. /\ sender' = sender /\ pipeline' = pipeline /\ HandleKind("list")
        /\ Reload(Head(completions).list)
        /\ CheckIfUserIsFollowed(Head(completions).list)
    BY <1>13 DEF HandleList, backend
  <2>2. completions' \in Seq(Done) /\ Head(completions) \in Done /\ Head(completions).kind = "list"
    BY <2>1, HandleIs
  <2>3. PICK new : new = Head(completions).list
    OBVIOUS
  <2>4. new \in Table
    BY <2>2, <2>3, DoneKinds DEF Answer
  <2>5. ScreenTypes'
    BY <2>1, <2>3, <2>4, ReloadIs
  <2>6. checks' \in [Notifications -> Nat]
    BY <1>1, <2>1 DEF CheckIfUserIsFollowed
  <2> QED
    BY <1>1, <2>1, <2>2, <2>5, <2>6 DEF NoteTypes
<1>14. CASE HandleCheck
  <2> DEFINE h == Head(completions)
  <2>1. /\ sender' = sender /\ checks' = checks /\ pipeline' = pipeline /\ HandleKind("check")
        /\ IF \E i \in DOMAIN rows : rows[i][1] = h.n
             THEN Reload(RowsWith(h.n, h.followed)) ELSE UNCHANGED screen
    BY <1>14 DEF HandleCheck, backend, reads
  <2>2. completions' \in Seq(Done) /\ h \in Done /\ h.kind = "check"
    BY <2>1, HandleIs
  <2>3. h.n \in Notifications /\ h.followed \in BOOLEAN
    BY <2>2, DoneKinds DEF Check
  <2> HIDE DEF h
  <2>4. RowsWith(h.n, h.followed) \in Table
    BY <1>1, <2>3, RowsWithIs
  <2>5. ScreenTypes'
    BY <1>2, <2>1, <2>4, ReloadIs
  <2> QED
    BY <1>1, <2>1, <2>2, <2>5 DEF NoteTypes
<1>15. CASE HandleFirst
  <2>1. /\ sender' = sender /\ checks' = checks /\ HandleKind("first")
        /\ UNCHANGED screen
    BY <1>15 DEF HandleFirst, backend, reads
  <2>2. pipeline' \in Seq(Chain) /\ completions' \in Seq(Done)
    BY <1>15, <2>1, SecondIs, HandleIs
  <2> QED
    BY <1>1, <1>2, <2>1, <2>2 DEF NoteTypes
<1>16. CASE HandleSecond
  <2>1. /\ sender' = sender /\ checks' = checks /\ HandleKind("second") /\ pipeline' = pipeline
    BY <1>16 DEF HandleSecond, backend, reads
  <2>2. ScreenTypes' /\ completions' \in Seq(Done)
    BY <1>16, <2>1, ToggleIs, HandleIs
  <2> QED
    BY <1>1, <2>1, <2>2 DEF NoteTypes
<1> QED
  BY <1>3, <1>4, <1>5, <1>6, <1>7, <1>8, <1>9, <1>10, <1>11, <1>12, <1>13, <1>14, <1>15, <1>16
     DEF NoteNext, HandleNext

(* A step that keeps what is known of n and its sender u; that leaves its    *)
(* rows; that shows them as before; that starts no step which concerns them. *)
Quiet(n, u) ==
  /\ u = sender[n] /\ sender' = sender
  /\ n \in touched => n \in touched'
  /\ n \in blurred => n \in blurred'
  /\ checks'[n] = checks[n]
  /\ Truth(u)' <=> Truth(u)

Listing(n) == \A i \in DOMAIN rows' : rows'[i][1] = n => \E j \in DOMAIN rows : rows[j] = rows'[i]

Showing(n) ==
  /\ rows' = rows /\ place' = place
  /\ \A i \in DOMAIN rows : rows[i][1] = n => (cells'[place[i]][2] <=> cells[place[i]][2])

Passing(n, u) ==
  /\ Under(u)' <=> Under(u)
  /\ Lone(u) => Lone(u)'
  /\ \A x \in Steps' :
       \/ \E m \in Steps : m.uid = x.uid /\ m.cell = x.cell /\ m.op = x.op
       \/ x.uid # u /\ \A i \in DOMAIN rows : rows[i][1] = n => x.cell # place[i]

(* Such a step keeps the row of n true. *)
LEMMA RowKept ==
  ASSUME NEW n, NEW u, RowCurrent(n), Quiet(n, u), Listing(n),
         Alike(completions, completions', CheckOf(n))
  PROVE  RowCurrent(n)'
<1>1. /\ u = sender[n] /\ sender' = sender /\ (n \in touched => n \in touched')
      /\ checks'[n] = checks[n] /\ (Truth(u)' <=> Truth(u))
  BY DEF Quiet
<1>2. PICK R : R = Right(n)
  OBVIOUS
<1>3. Right(n)' = R
  BY <1>1, <1>2 DEF Right, Truth
<1>4. /\ Has(completions', CheckOf(n)) <=> Has(completions, CheckOf(n))
      /\ LastIn(completions', CheckOf(n), R) <=> LastIn(completions, CheckOf(n), R)
  BY DEF Alike
<1>5. Truth(sender[n])' <=> Truth(u)
  BY <1>1 DEF Truth
<1>6. SUFFICES ASSUME n \notin touched', checks'[n] = 0
               PROVE  IF Has(completions', CheckOf(n))
                        THEN LastIn(completions', CheckOf(n), Right(n)')
                        ELSE \A i \in DOMAIN rows' :
                               rows'[i][1] = n => (rows'[i][2] <=> Truth(sender[n])')
  BY DEF RowCurrent
<1>7. IF Has(completions, CheckOf(n))
        THEN LastIn(completions, CheckOf(n), R)
        ELSE \A i \in DOMAIN rows : rows[i][1] = n => (rows[i][2] <=> Truth(u))
  BY <1>1, <1>2, <1>6 DEF RowCurrent
<1>8. CASE Has(completions, CheckOf(n))
  BY <1>3, <1>4, <1>7, <1>8
<1>9. CASE ~Has(completions, CheckOf(n))
  <2>1. \A i \in DOMAIN rows' : rows'[i][1] = n => (rows'[i][2] <=> Truth(u))
    BY <1>7, <1>9 DEF Listing
  <2> QED
    BY <1>4, <1>5, <1>9, <2>1
<1> QED
  BY <1>8, <1>9

(* Such a step leaves the chains of its sender alone. *)
LEMMA IdleKept ==
  ASSUME NEW n, NEW u, TappedOrIdle(n), Quiet(n, u), Passing(n, u)
  PROVE  TappedOrIdle(n)'
<1>1. /\ u = sender[n] /\ sender' = sender
      /\ (n \in touched => n \in touched') /\ (n \in blurred => n \in blurred')
  BY DEF Quiet
<1>2. Under(u)' <=> Under(u)
  BY DEF Passing
<1>3. Under(sender[n])' <=> Under(u)'
  BY <1>1 DEF Under
<1> QED
  BY <1>1, <1>2, <1>3 DEF TappedOrIdle

(* Such a step keeps the button of n true. *)
LEMMA ButtonKept ==
  ASSUME NEW n, NEW u, ButtonCurrent(n), Quiet(n, u), Showing(n), Passing(n, u),
         Has(completions', CheckOf(n)) <=> Has(completions, CheckOf(n))
  PROVE  ButtonCurrent(n)'
<1>1. /\ u = sender[n] /\ sender' = sender /\ (n \in blurred => n \in blurred')
      /\ checks'[n] = checks[n] /\ (Truth(u)' <=> Truth(u))
  BY DEF Quiet
<1>2. /\ rows' = rows /\ place' = place
      /\ \A i \in DOMAIN rows : rows[i][1] = n => (cells'[place[i]][2] <=> cells[place[i]][2])
  BY DEF Showing
<1>3. /\ Truth(sender[n])' <=> Truth(u)
      /\ Under(sender[n])' <=> Under(u)'
      /\ Lone(sender[n])' <=> Lone(u)'
  BY <1>1 DEF Truth, Under, Lone
<1>4. /\ Under(u)' <=> Under(u)
      /\ Lone(u) => Lone(u)'
      /\ \A x \in Steps' :
           \/ \E m \in Steps : m.uid = x.uid /\ m.cell = x.cell /\ m.op = x.op
           \/ x.uid # u /\ \A i \in DOMAIN rows : rows[i][1] = n => x.cell # place[i]
  BY DEF Passing
<1>5. SUFFICES ASSUME n \notin blurred', checks'[n] = 0, ~Has(completions', CheckOf(n)),
                      NEW i \in DOMAIN rows, rows[i][1] = n
               PROVE  ButtonRight(n, i)'
  BY <1>2 DEF ButtonCurrent
<1>6. ButtonRight(n, i)
  BY <1>1, <1>5 DEF ButtonCurrent
<1>7. PICK c : c = place[i]
  OBVIOUS
<1>8. /\ \A m \in Steps : m.cell = c => m.uid = u
      /\ ~Under(u) => (cells[c][2] <=> Truth(u))
      /\ Under(u) => /\ Lone(u)
                     /\ \A m \in Steps : m.uid = u =>
                          /\ m.cell = c
                          /\ cells[c][2] <=> m.op = "delete"
                          /\ Truth(u) <=> m.op = "set"
  BY <1>1, <1>6, <1>7 DEF ButtonRight
<1>9. cells'[c][2] <=> cells[c][2]
  BY <1>2, <1>5, <1>7
<1>10. \A x \in Steps' : x.uid = u \/ x.cell = c =>
         \E m \in Steps : m.uid = x.uid /\ m.cell = x.cell /\ m.op = x.op
  BY <1>4, <1>5, <1>7
<1>11. /\ \A m \in Steps' : m.cell = c => m.uid = u
       /\ ~Under(u)' => (cells'[c][2] <=> Truth(u)')
       /\ Under(u)' => /\ Lone(u)'
                      /\ \A m \in Steps' : m.uid = u =>
                           /\ m.cell = c
                           /\ cells'[c][2] <=> m.op = "delete"
                           /\ Truth(u)' <=> m.op = "set"
  <2>1. \A m \in Steps' : m.cell = c => m.uid = u
    BY <1>8, <1>10
  <2>2. ~Under(u)' => (cells'[c][2] <=> Truth(u)')
    BY <1>1, <1>4, <1>8, <1>9
  <2>3. ASSUME Under(u)', NEW m \in Steps', m.uid = u
        PROVE  m.cell = c /\ (cells'[c][2] <=> m.op = "delete") /\ (Truth(u)' <=> m.op = "set")
    <3>1. PICK y \in Steps : y.uid = m.uid /\ y.cell = m.cell /\ y.op = m.op
      BY <1>10, <2>3
    <3>2. y.cell = c /\ (cells[c][2] <=> y.op = "delete") /\ (Truth(u) <=> y.op = "set")
      BY <1>4, <1>8, <2>3, <3>1
    <3> QED
      BY <1>1, <1>9, <3>1, <3>2
  <2> QED
    BY <1>4, <1>8, <2>1, <2>2, <2>3
<1>12. place'[i] = c /\ sender'[n] = u
  BY <1>1, <1>2, <1>7
<1> QED
  BY <1>3, <1>11, <1>12 DEF ButtonRight

(* While the queues stay, so do the chains. *)
LEMMA PassingSame ==
  ASSUME pipeline' = pipeline, completions' = completions, NEW n, NEW u
  PROVE  Passing(n, u)
<1>1. Steps' = Steps
  BY DEF Steps
<1> QED
  BY <1>1 DEF Passing, Under, Lone

(* Answers come and go without a step of a chain. *)
LEMMA PassingRead ==
  ASSUME NoteTypes, pipeline' = pipeline, NEW x \in Done, x \notin Chain,
         Gained(completions, completions', x) \/ Lost(completions, completions', x),
         NEW n, NEW u
  PROVE  Passing(n, u) /\ Steps' = Steps
<1>1. completions \in Seq(Done)
  BY DEF NoteTypes
<1>2. x \notin Concerning(u)
  BY DEF Concerning
<1>3. /\ ToSet(completions') \cap Chain = ToSet(completions) \cap Chain
      /\ Has(completions', Concerning(u)) <=> Has(completions, Concerning(u))
      /\ Single(completions, Concerning(u)) => Single(completions', Concerning(u))
  <2>1. CASE Gained(completions, completions', x)
    <3>1. /\ ToSet(completions') = ToSet(completions) \cup {x}
          /\ Has(completions', Concerning(u)) <=> Has(completions, Concerning(u)) \/ x \in Concerning(u)
      BY <1>1, <2>1, GainedFacts
    <3>2. Single(completions, Concerning(u)) => Single(completions', Concerning(u))
      BY <1>1, <1>2, <2>1, LoneGained
    <3> QED
      BY <1>2, <3>1, <3>2
  <2>2. CASE Lost(completions, completions', x)
    <3>1. /\ ToSet(completions) = {x} \cup ToSet(completions')
          /\ Has(completions, Concerning(u)) <=> Has(completions', Concerning(u)) \/ x \in Concerning(u)
      BY <1>1, <2>2, LostFacts
    <3>2. Single(completions, Concerning(u)) => Single(completions', Concerning(u))
      BY <1>1, <2>2, LoneLost
    <3> QED
      BY <1>2, <3>1, <3>2
  <2> QED
    BY <2>1, <2>2
<1>4. Steps' = Steps
  BY <1>3 DEF Steps, StepsIn
<1>5. (Under(u)' <=> Under(u)) /\ (Lone(u) => Lone(u)')
  BY <1>3 DEF Under, Lone, LoneIn
<1> QED
  BY <1>4, <1>5 DEF Passing

(* A write that leaves the pipeline goes on as its completion. *)
LEMMA PassingDepart ==
  ASSUME NoteTypes, Depart, NEW n, NEW u
  PROVE  Passing(n, u)
<1>1. pipeline \in Seq(Chain) /\ completions \in Seq(Done)
  BY DEF NoteTypes
<1>2. PICK w : w = Head(pipeline)
  OBVIOUS
<1>3. /\ Lost(pipeline, pipeline', w) /\ Gained(completions, completions', w) /\ w \in Chain
  BY <1>2, DepartIs
<1>4. w \in Done
  BY <1>3 DEF Done
<1>5. PICK X : X = Concerning(u)
  OBVIOUS
<1>6. /\ Has(pipeline', X) \/ Has(completions', X) <=> Has(pipeline, X) \/ Has(completions, X)
      /\ LoneIn(pipeline, completions, X) => LoneIn(pipeline', completions', X)
  BY <1>1, <1>3, <1>4, LoneMoved
<1>7. ToSet(pipeline) = {w} \cup ToSet(pipeline') /\ ToSet(completions') = ToSet(completions) \cup {w}
  BY <1>1, <1>3, <1>4, LostFacts, GainedFacts
<1>8. Steps' \subseteq Steps
  BY <1>7 DEF Steps, StepsIn
<1>9. (Under(u)' <=> Under(u)) /\ (Lone(u) => Lone(u)')
  BY <1>5, <1>6 DEF Under, Lone
<1> QED
  BY <1>8, <1>9 DEF Passing

(* The first write's completion goes on as the second write. *)
LEMMA PassingFirst ==
  ASSUME NoteTypes, HandleFirst, NEW n, NEW u
  PROVE  Passing(n, u)
<1>1. pipeline \in Seq(Chain) /\ completions \in Seq(Done)
  BY DEF NoteTypes
<1>2. PICK h : h = Head(completions)
  OBVIOUS
<1>3. Lost(completions, completions', h)
  BY <1>2, HandleIs DEF HandleFirst
<1>4. PICK x \in Chain : /\ x.cell = h.cell /\ x.uid = h.uid /\ x.op = h.op
                         /\ h \in Chain /\ Gained(pipeline, pipeline', x)
  BY <1>2, SecondIs
<1>5. PICK X : X = Concerning(u)
  OBVIOUS
<1>6. h \in X <=> x \in X
  BY <1>4, <1>5 DEF Concerning
<1>7. /\ Has(completions', X) \/ Has(pipeline', X) <=> Has(completions, X) \/ Has(pipeline, X)
      /\ LoneIn(completions, pipeline, X) => LoneIn(completions', pipeline', X)
  BY <1>1, <1>3, <1>4, <1>6, LoneMoved
<1>8. ToSet(completions) = {h} \cup ToSet(completions') /\ ToSet(pipeline') = ToSet(pipeline) \cup {x}
  BY <1>1, <1>3, <1>4, LostFacts, GainedFacts
<1>9. h \in Steps /\ \A y \in Steps' : y \in Steps \/ y = x
  BY <1>4, <1>8 DEF Steps, StepsIn
<1>10. (Under(u)' <=> Under(u)) /\ (Lone(u) => Lone(u)')
  BY <1>5, <1>7 DEF Under, Lone, LoneIn
<1> QED
  BY <1>4, <1>9, <1>10 DEF Passing

(* A chain that somebody else's button starts in a cell of its own. *)
LEMMA PassingTap ==
  ASSUME NoteTypes, completions' = completions, NEW x \in Chain, Gained(pipeline, pipeline', x),
         NEW n, NEW u, x.uid # u, \A i \in DOMAIN rows : rows[i][1] = n => x.cell # place[i]
  PROVE  Passing(n, u)
<1>1. pipeline \in Seq(Chain)
  BY DEF NoteTypes
<1>2. x \notin Concerning(u)
  BY DEF Concerning
<1>3. /\ ToSet(pipeline') = ToSet(pipeline) \cup {x}
      /\ Has(pipeline', Concerning(u)) <=> Has(pipeline, Concerning(u)) \/ x \in Concerning(u)
  BY <1>1, GainedFacts
<1>4. Single(pipeline, Concerning(u)) => Single(pipeline', Concerning(u))
  BY <1>1, <1>2, LoneGained
<1>5. \A y \in Steps' : y \in Steps \/ y = x
  BY <1>3 DEF Steps, StepsIn
<1>6. (Under(u)' <=> Under(u)) /\ (Lone(u) => Lone(u)')
  BY <1>2, <1>3, <1>4 DEF Under, Lone, LoneIn
<1> QED
  BY <1>5, <1>6 DEF Passing

(* A chain that ends and is about somebody else. *)
LEMMA PassingSecond ==
  ASSUME NoteTypes, pipeline' = pipeline, NEW h \in Chain, Lost(completions, completions', h),
         NEW n, NEW u, h.uid # u
  PROVE  Passing(n, u)
<1>1. completions \in Seq(Done)
  BY DEF NoteTypes
<1>2. h \notin Concerning(u)
  BY DEF Concerning
<1>3. /\ ToSet(completions) = {h} \cup ToSet(completions')
      /\ Has(completions, Concerning(u)) <=> Has(completions', Concerning(u)) \/ h \in Concerning(u)
  BY <1>1, LostFacts
<1>4. Single(completions, Concerning(u)) => Single(completions', Concerning(u))
  BY <1>1, LoneLost
<1>5. Steps' \subseteq Steps
  BY <1>3 DEF Steps, StepsIn
<1>6. (Under(u)' <=> Under(u)) /\ (Lone(u) => Lone(u)')
  BY <1>2, <1>3, <1>4 DEF Under, Lone, LoneIn
<1> QED
  BY <1>5, <1>6 DEF Passing

(* What the invariant says of one notification. *)
NoteAt(n) == RowCurrent(n) /\ TappedOrIdle(n) /\ ButtonCurrent(n)

(* All of it is kept by a step that does not concern n. *)
LEMMA AllKept ==
  ASSUME NEW n, NEW u, NoteAt(n), Quiet(n, u), Showing(n), Passing(n, u),
         Alike(completions, completions', CheckOf(n))
  PROVE  NoteAt(n)'
<1>1. RowCurrent(n) /\ TappedOrIdle(n) /\ ButtonCurrent(n)
  BY DEF NoteAt
<1>2. Listing(n)
  BY DEF Showing, Listing
<1>3. RowCurrent(n)'
  BY <1>1, <1>2, RowKept
<1>4. TappedOrIdle(n)'
  BY <1>1, IdleKept
<1>5. Has(completions', CheckOf(n)) <=> Has(completions, CheckOf(n))
  BY DEF Alike
<1>6. ButtonCurrent(n)'
  BY <1>1, <1>5, ButtonKept
<1> QED
  BY <1>3, <1>4, <1>6 DEF NoteAt

(* A reloaded table shows what its rows say. *)
LEMMA ReloadShows ==
  ASSUME NoteTypes, NoteTypes', NEW new \in Table, Reload(new), BlurTouched,
         touched' = touched, Steps' = Steps, sender' = sender,
         NEW n \in Notifications, RowCurrent(n)'
  PROVE  NoteAt(n)'
<1>1. CASE \E u \in Senders : Chained(u)
  <2>1. n \in blurred'
    BY <1>1 DEF BlurTouched
  <2> QED
    BY <2>1 DEF NoteAt, TappedOrIdle, ButtonCurrent
<1>2. CASE ~\E u \in Senders : Chained(u)
  <2>1. blurred' = blurred \cup touched
    BY <1>2 DEF BlurTouched
  <2>2. \A u \in Senders : ~Under(u)
    BY <1>2, ChainedIs
  <2>3. /\ Steps \subseteq Chain
        /\ \A u : Under(u) <=> \E m \in Steps : m.uid = u
        /\ \A u : Under(u)' <=> \E m \in Steps' : m.uid = u
    BY StepsAre
  <2>4. Steps = {}
    BY <2>2, <2>3 DEF Chain
  <2>5. \A u : ~Under(u)'
    BY <2>3, <2>4
  <2>6. ~Under(sender[n])'
    <3>1. PICK u : u = sender[n]
      OBVIOUS
    <3>2. Under(sender[n])' <=> Under(u)'
      BY <3>1 DEF Under
    <3> QED
      BY <2>5, <3>2
  <2>7. rows' = new /\ \A i \in DOMAIN new : cells'[place'[i]] = new[i]
    BY ReloadIs
  <2>8. ASSUME n \notin blurred', checks'[n] = 0, ~Has(completions', CheckOf(n)),
               NEW i \in DOMAIN rows', rows'[i][1] = n
        PROVE  ButtonRight(n, i)'
    <3>1. n \notin touched'
      BY <2>1, <2>8
    <3>2. rows'[i][2] <=> Truth(sender[n])'
      BY <2>8, <3>1 DEF RowCurrent
    <3>3. cells'[place'[i]][2] <=> Truth(sender[n])'
      BY <2>7, <2>8, <3>2
    <3>4. Steps' = {}
      BY <2>4
    <3> QED
      BY <2>6, <3>3, <3>4 DEF ButtonRight
  <2>9. ButtonCurrent(n)'
    BY <2>8 DEF ButtonCurrent
  <2>10. TappedOrIdle(n)'
    BY <2>6 DEF TappedOrIdle
  <2> QED
    BY <2>9, <2>10 DEF NoteAt
<1> QED
  BY <1>1, <1>2

(* While the pipeline and Following stay, so does the truth. *)
LEMMA TruthSame ==
  ASSUME pipeline' = pipeline, following' = following, NEW u
  PROVE  Truth(u)' <=> Truth(u)
BY DEF Truth

(* Steps of chains are no answers about n. *)
LEMMA NoCheck ==
  ASSUME NEW n
  PROVE  /\ \A x \in Chain : x \notin CheckOf(n)
         /\ \A x \in Answer : x \notin CheckOf(n)
         /\ \A x \in Check : x \in CheckOf(n) <=> x.n = n
         /\ \A x \in Check : x \notin Chain
         /\ \A x \in Answer : x \notin Chain
BY DEF Chain, Answer, Check, CheckOf

(* A step that only reads, or only counts, keeps it. *)
LEMMA NoteIdle ==
  ASSUME NoteTypes, UNCHANGED noteVars \/ Arrive \/ QueryFails,
         NEW n \in Notifications, NoteAt(n)
  PROVE  NoteAt(n)'
<1>1. /\ sender' = sender /\ following' = following /\ pipeline' = pipeline
      /\ completions' = completions /\ checks' = checks /\ UNCHANGED screen
      /\ touched' = touched /\ blurred' = blurred
  BY DEF noteVars, Arrive, QueryFails, backend, reads, aux
<1>2. PICK u : u = sender[n]
  OBVIOUS
<1>3. Truth(u)' <=> Truth(u)
  BY <1>1, TruthSame
<1>4. Quiet(n, u)
  BY <1>1, <1>2, <1>3 DEF Quiet
<1>5. Showing(n)
  BY <1>1 DEF Showing, screen
<1>6. Passing(n, u)
  BY <1>1, PassingSame
<1>7. Alike(completions, completions', CheckOf(n))
  BY <1>1, AlikeSame
<1> QED
  BY <1>4, <1>5, <1>6, <1>7, AllKept

(* A refresh leaves no row to be wrong. *)
LEMMA NoteRefresh ==
  ASSUME NoteTypes, NoteTypes', OnRefresh, NEW n \in Notifications, NoteAt(n)
  PROVE  NoteAt(n)'
<1>1. /\ sender' = sender /\ following' = following /\ pipeline' = pipeline
      /\ completions' = completions /\ checks' = checks /\ Reload(<<>>)
      /\ touched' = touched /\ blurred' = blurred
  BY DEF OnRefresh, backend, aux
<1>2. PICK u : u = sender[n]
  OBVIOUS
<1>3. Truth(u)' <=> Truth(u)
  BY <1>1, TruthSame
<1>4. Quiet(n, u)
  BY <1>1, <1>2, <1>3 DEF Quiet
<1>5. rows' = <<>>
  BY <1>1 DEF Reload
<1>6. DOMAIN rows' = {}
  BY <1>5
<1>7. Listing(n)
  BY <1>6 DEF Listing
<1>8. Passing(n, u)
  BY <1>1, PassingSame
<1>9. Alike(completions, completions', CheckOf(n))
  BY <1>1, AlikeSame
<1>10. RowCurrent(n)'
  BY <1>4, <1>7, <1>9, RowKept DEF NoteAt
<1>11. TappedOrIdle(n)'
  BY <1>4, <1>8, IdleKept DEF NoteAt
<1>12. ButtonCurrent(n)'
  BY <1>6 DEF ButtonCurrent
<1> QED
  BY <1>10, <1>11, <1>12 DEF NoteAt

(* The answer of fetchNotifications is on its way. *)
LEMMA NoteQueryAnswer ==
  ASSUME NoteTypes, QueryAnswer, NEW n \in Notifications, NoteAt(n)
  PROVE  NoteAt(n)'
<1> DEFINE x == [kind |-> "list", list |-> Listed]
<1>1. /\ sender' = sender /\ following' = following /\ pipeline' = pipeline
      /\ checks' = checks /\ UNCHANGED screen
      /\ touched' = touched /\ blurred' = blurred
      /\ Gained(completions, completions', x)
  BY DEF QueryAnswer, backend, aux, Gained
<1>2. x \in Answer
  BY ListedIs DEF Answer
<1> HIDE DEF x
<1>3. x \in Done /\ x \notin Chain /\ x \notin CheckOf(n)
  BY <1>2, NoCheck DEF Done
<1>4. PICK u : u = sender[n]
  OBVIOUS
<1>5. Truth(u)' <=> Truth(u)
  BY <1>1, TruthSame
<1>6. Quiet(n, u)
  BY <1>1, <1>4, <1>5 DEF Quiet
<1>7. Showing(n)
  BY <1>1 DEF Showing, screen
<1>8. Passing(n, u)
  BY <1>1, <1>3, PassingRead
<1>9. completions \in Seq(Done)
  BY DEF NoteTypes
<1>10. Alike(completions, completions', CheckOf(n))
  BY <1>1, <1>3, <1>9, AlikeGained
<1> QED
  BY <1>6, <1>7, <1>8, <1>10, AllKept

(* The answer of isUserFollowed is current, and unblurs an idle button. *)
LEMMA NoteCheckAnswer ==
  ASSUME NoteTypes, NEW m \in Notifications, CheckAnswer(m),
         NEW n \in Notifications, NoteAt(n)
  PROVE  NoteAt(n)'
<1>1. /\ sender' = sender /\ following' = following /\ pipeline' = pipeline
      /\ checks' = [checks EXCEPT ![m] = @ - 1] /\ UNCHANGED screen
      /\ touched' = touched \ {m}
      /\ blurred' = IF Chained(sender[m]) THEN blurred \cup {m} ELSE blurred \ {m}
  BY DEF CheckAnswer, backend
<1>2. PICK x \in Check : /\ x.n = m
                         /\ x.followed <=> Truth(sender[m])
                         /\ Gained(completions, completions', x)
  BY AnswerIs
<1>3. x \in Done /\ x \notin Chain /\ (x \in CheckOf(n) <=> n = m)
  BY <1>2, NoCheck DEF Done
<1>4. completions \in Seq(Done) /\ checks \in [Notifications -> Nat]
  BY DEF NoteTypes
<1>5. PICK u : u = sender[n]
  OBVIOUS
<1>6. Truth(u)' <=> Truth(u)
  BY <1>1, TruthSame
<1>7. Passing(n, u)
  BY <1>1, <1>2, <1>3, PassingRead
<1>8. CASE n # m
  <2>1. checks'[n] = checks[n]
    BY <1>1, <1>4, <1>8
  <2>2. Quiet(n, u)
    BY <1>1, <1>5, <1>6, <1>8, <2>1 DEF Quiet
  <2>3. Showing(n)
    BY <1>1 DEF Showing, screen
  <2>4. Alike(completions, completions', CheckOf(n))
    BY <1>2, <1>3, <1>4, <1>8, AlikeGained
  <2> QED
    BY <1>7, <2>2, <2>3, <2>4, AllKept
<1>9. CASE n = m
  <2>1. /\ Has(completions', CheckOf(n))
        /\ \A R : LastIn(completions', CheckOf(n), R) <=> x \in R
    BY <1>2, <1>3, <1>4, <1>9, GainedFacts
  <2>2. Truth(sender[n])' <=> Truth(u)'
    BY <1>1, <1>5 DEF Truth
  <2>3. x.followed <=> Truth(sender[n])'
    BY <1>2, <1>5, <1>6, <1>9, <2>2
  <2>4. x \in Right(n)'
    BY <1>2, <2>3 DEF Right
  <2>5. RowCurrent(n)'
    BY <2>1, <2>4 DEF RowCurrent
  <2>6. ButtonCurrent(n)'
    BY <2>1 DEF ButtonCurrent
  <2>7. ASSUME n \notin blurred'
        PROVE  ~Under(sender[n])'
    <3>1. ~Under(u)
      BY <1>1, <1>5, <1>9, <2>7, ChainedIs
    <3>2. ~Under(u)'
      BY <1>7, <3>1 DEF Passing
    <3> QED
      BY <1>1, <1>5, <3>2 DEF Under
  <2>8. TappedOrIdle(n)'
    BY <2>7 DEF TappedOrIdle
  <2> QED
    BY <2>5, <2>6, <2>8 DEF NoteAt
<1> QED
  BY <1>8, <1>9

(* A failed isUserFollowed leaves the row and the button to nobody. *)
LEMMA NoteCheckFails ==
  ASSUME NoteTypes, NEW m \in Notifications, CheckFails(m),
         NEW n \in Notifications, NoteAt(n)
  PROVE  NoteAt(n)'
<1>1. /\ sender' = sender /\ following' = following /\ pipeline' = pipeline
      /\ completions' = completions
      /\ checks' = [checks EXCEPT ![m] = @ - 1] /\ UNCHANGED screen
      /\ touched' = touched \cup {m} /\ blurred' = blurred \cup {m}
  BY DEF CheckFails, backend
<1>2. CASE n # m
  <2>1. checks \in [Notifications -> Nat]
    BY DEF NoteTypes
  <2>2. checks'[n] = checks[n]
    BY <1>1, <1>2, <2>1
  <2>3. PICK u : u = sender[n]
    OBVIOUS
  <2>4. Truth(u)' <=> Truth(u)
    BY <1>1, TruthSame
  <2>5. Quiet(n, u)
    BY <1>1, <2>2, <2>3, <2>4 DEF Quiet
  <2>6. Showing(n)
    BY <1>1 DEF Showing, screen
  <2>7. Passing(n, u) /\ Alike(completions, completions', CheckOf(n))
    BY <1>1, PassingSame, AlikeSame
  <2> QED
    BY <2>5, <2>6, <2>7, AllKept
<1>3. CASE n = m
  <2>1. n \in touched' /\ n \in blurred'
    BY <1>1, <1>3
  <2> QED
    BY <2>1 DEF NoteAt, RowCurrent, TappedOrIdle, ButtonCurrent
<1> QED
  BY <1>2, <1>3

(* Writes that the backend has applied. *)
LEMMA NoteCommit ==
  ASSUME NoteTypes, CommitWrite, NEW n \in Notifications, NoteAt(n)
  PROVE  NoteAt(n)'
<1>1. PICK w : w = Head(pipeline)
  OBVIOUS
<1>2. /\ sender' = sender /\ checks' = checks /\ UNCHANGED screen
      /\ touched' = touched /\ blurred' = blurred /\ Depart
      /\ following' = IF w.kind = "first" THEN ApplyOp(following, w.op, w.uid) ELSE following
  BY <1>1 DEF CommitWrite, reads, aux
<1>3. Lost(pipeline, pipeline', w) /\ Gained(completions, completions', w) /\ w \in Chain
  BY <1>1, <1>2, DepartIs
<1>4. PICK u : u = sender[n]
  OBVIOUS
<1>5. Truth(u)' <=> Truth(u)
  BY <1>2, <1>3, TruthCommitted
<1>6. Quiet(n, u)
  BY <1>2, <1>4, <1>5 DEF Quiet
<1>7. Showing(n)
  BY <1>2 DEF Showing, screen
<1>8. Passing(n, u)
  BY <1>2, PassingDepart
<1>9. completions \in Seq(Done) /\ w \in Done /\ w \notin CheckOf(n)
  BY <1>3, NoCheck DEF NoteTypes, Done
<1>10. Alike(completions, completions', CheckOf(n))
  BY <1>3, <1>9, AlikeGained
<1> QED
  BY <1>6, <1>7, <1>8, <1>10, AllKept

(* Writes that the backend has refused concern the notifications of one sender. *)
LEMMA NoteRefuse ==
  ASSUME NoteTypes, RefuseWrite, NEW n \in Notifications, NoteAt(n)
  PROVE  NoteAt(n)'
<1>1. PICK w : w = Head(pipeline)
  OBVIOUS
<1>2. /\ sender' = sender /\ following' = following /\ checks' = checks /\ UNCHANGED screen
      /\ touched' = touched \cup From(w.uid) /\ blurred' = blurred \cup From(w.uid)
      /\ Depart
  BY <1>1 DEF RefuseWrite, reads, backend
<1>3. Lost(pipeline, pipeline', w) /\ Gained(completions, completions', w) /\ w \in Chain
  BY <1>1, <1>2, DepartIs
<1>4. PICK u : u = sender[n]
  OBVIOUS
<1>5. CASE w.uid = u
  <2>1. n \in touched' /\ n \in blurred'
    BY <1>2, <1>4, <1>5 DEF From
  <2> QED
    BY <2>1 DEF NoteAt, RowCurrent, TappedOrIdle, ButtonCurrent
<1>6. CASE w.uid # u
  <2>1. w \notin Firsts(u)
    BY <1>6 DEF Firsts
  <2>2. Truth(u)' <=> Truth(u)
    BY <1>2, <1>3, <2>1, TruthLost
  <2>3. Quiet(n, u)
    BY <1>2, <1>4, <2>2 DEF Quiet
  <2>4. Showing(n)
    BY <1>2 DEF Showing, screen
  <2>5. Passing(n, u)
    BY <1>2, PassingDepart
  <2>6. completions \in Seq(Done) /\ w \in Done /\ w \notin CheckOf(n)
    BY <1>3, NoCheck DEF NoteTypes, Done
  <2>7. Alike(completions, completions', CheckOf(n))
    BY <1>3, <2>6, AlikeGained
  <2> QED
    BY <2>3, <2>4, <2>5, <2>7, AllKept
<1> QED
  BY <1>5, <1>6

(* The second write of a chain decides nothing about Following. *)
LEMMA NoteFirst ==
  ASSUME NoteTypes, HandleFirst, NEW n \in Notifications, NoteAt(n)
  PROVE  NoteAt(n)'
<1>1. PICK h : h = Head(completions)
  OBVIOUS
<1>2. /\ sender' = sender /\ following' = following /\ checks' = checks /\ UNCHANGED screen
      /\ touched' = touched /\ blurred' = blurred /\ HandleKind("first")
  BY DEF HandleFirst, reads, backend, aux
<1>3. PICK x \in Chain : x.kind = "second" /\ h \in Chain /\ Gained(pipeline, pipeline', x)
  BY <1>1, SecondIs
<1>4. Lost(completions, completions', h)
  BY <1>1, <1>2, HandleIs
<1>5. PICK u : u = sender[n]
  OBVIOUS
<1>6. x \notin Firsts(u)
  BY <1>3 DEF Firsts
<1>7. Truth(u)' <=> Truth(u)
  BY <1>2, <1>3, <1>6, TruthGained
<1>8. Quiet(n, u)
  BY <1>2, <1>5, <1>7 DEF Quiet
<1>9. Showing(n)
  BY <1>2 DEF Showing, screen
<1>10. Passing(n, u)
  BY PassingFirst
<1>11. completions \in Seq(Done) /\ h \notin CheckOf(n)
  BY <1>3, NoCheck DEF NoteTypes
<1>12. Alike(completions, completions', CheckOf(n))
  BY <1>4, <1>11, AlikeLost
<1> QED
  BY <1>8, <1>9, <1>10, <1>12, AllKept

(* A reload vouches for fewer buttons, never for more. *)
LEMMA BlurGrows ==
  ASSUME BlurTouched, NEW n \in Notifications, n \in blurred
  PROVE  n \in blurred'
BY DEF BlurTouched

(* Scrolling shows the rows again. *)
LEMMA NoteScroll ==
  ASSUME NoteTypes, NoteTypes', Scroll, NEW n \in Notifications, NoteAt(n)
  PROVE  NoteAt(n)'
<1>1. /\ sender' = sender /\ following' = following /\ pipeline' = pipeline
      /\ completions' = completions /\ checks' = checks /\ touched' = touched
      /\ Reload(rows) /\ BlurTouched
  BY DEF Scroll, backend, reads
<1>2. PICK u : u = sender[n]
  OBVIOUS
<1>3. Truth(u)' <=> Truth(u)
  BY <1>1, TruthSame
<1>4. Quiet(n, u)
  BY <1>1, <1>2, <1>3, BlurGrows DEF Quiet
<1>5. Listing(n)
  BY <1>1 DEF Listing, Reload
<1>6. Alike(completions, completions', CheckOf(n))
  BY <1>1, AlikeSame
<1>7. RowCurrent(n)'
  BY <1>4, <1>5, <1>6, RowKept DEF NoteAt
<1>8. Steps' = Steps
  BY <1>1 DEF Steps
<1>9. rows \in Table
  BY DEF NoteTypes, ScreenTypes
<1> QED
  BY <1>1, <1>7, <1>8, <1>9, ReloadShows

(* A new list asks for every row in it. *)
LEMMA NoteList ==
  ASSUME NoteTypes, NoteTypes', HandleList, NEW n \in Notifications, NoteAt(n)
  PROVE  NoteAt(n)'
<1>1. PICK h, new : h = Head(completions) /\ new = h.list
  OBVIOUS
<1>2. /\ sender' = sender /\ following' = following /\ pipeline' = pipeline /\ touched' = touched
      /\ HandleKind("list") /\ Reload(new) /\ CheckIfUserIsFollowed(new)
      /\ BlurTouched
  BY <1>1 DEF HandleList, backend
<1>3. Lost(completions, completions', h) /\ h \in Done /\ h.kind = "list"
  BY <1>1, <1>2, HandleIs
<1>4. h \in Answer
  BY <1>3, DoneKinds
<1>5. new \in Table /\ h \notin Chain /\ h \notin CheckOf(n)
  BY <1>1, <1>4, NoCheck DEF Answer
<1>6. PICK u : u = sender[n]
  OBVIOUS
<1>7. Truth(u)' <=> Truth(u)
  BY <1>2, TruthSame
<1>8. rows' = new
  BY <1>2 DEF Reload
<1>9. checks \in [Notifications -> Nat] /\ completions \in Seq(Done)
  BY DEF NoteTypes
<1>10. CASE \E i \in DOMAIN new : new[i][1] = n
  <2>1. checks'[n] = checks[n] + 1
    BY <1>2, <1>10 DEF CheckIfUserIsFollowed
  <2>2. checks'[n] # 0
    BY <1>9, <2>1
  <2>3. RowCurrent(n)'
    BY <2>2 DEF RowCurrent
  <2>4. Steps' = Steps
    BY <1>2, <1>3, <1>5, PassingRead
  <2> QED
    BY <1>2, <1>5, <2>3, <2>4, ReloadShows
<1>11. CASE ~\E i \in DOMAIN new : new[i][1] = n
  <2>1. checks'[n] = checks[n]
    BY <1>2, <1>11 DEF CheckIfUserIsFollowed
  <2>2. Quiet(n, u)
    BY <1>2, <1>6, <1>7, <2>1, BlurGrows DEF Quiet
  <2>3. Listing(n)
    BY <1>8, <1>11 DEF Listing
  <2>4. Alike(completions, completions', CheckOf(n))
    BY <1>3, <1>5, <1>9, AlikeLost
  <2>5. RowCurrent(n)'
    BY <2>2, <2>3, <2>4, RowKept DEF NoteAt
  <2>6. Steps' = Steps
    BY <1>2, <1>3, <1>5, PassingRead
  <2> QED
    BY <1>2, <1>5, <2>5, <2>6, ReloadShows
<1> QED
  BY <1>10, <1>11

(* The answer for n that is handled is in its row, the last one at the end. *)
LEMMA RowAnswered ==
  ASSUME NoteTypes, NEW n \in Notifications, NEW u, NEW h \in Check, h.n = n,
         Lost(completions, completions', h), RowCurrent(n), Quiet(n, u), touched' = touched,
         \A i \in DOMAIN rows' : rows'[i][1] = n => rows'[i][2] = h.followed
  PROVE  RowCurrent(n)'
<1>1. u = sender[n] /\ sender' = sender /\ checks'[n] = checks[n] /\ (Truth(u)' <=> Truth(u))
  BY DEF Quiet
<1>2. completions \in Seq(Done) /\ h \in CheckOf(n)
  BY NoCheck DEF NoteTypes
<1>3. PICK R : R = Right(n)
  OBVIOUS
<1>4. Right(n)' = R
  BY <1>1, <1>3 DEF Right, Truth
<1>5. /\ Has(completions, CheckOf(n))
      /\ LastIn(completions, CheckOf(n), R) => LastIn(completions', CheckOf(n), R)
      /\ LastIn(completions, CheckOf(n), R) /\ ~Has(completions', CheckOf(n)) => h \in R
  BY <1>2, LostFacts
<1>6. Truth(sender[n])' <=> Truth(u)
  BY <1>1 DEF Truth
<1>7. SUFFICES ASSUME n \notin touched', checks'[n] = 0
               PROVE  IF Has(completions', CheckOf(n))
                        THEN LastIn(completions', CheckOf(n), Right(n)')
                        ELSE \A i \in DOMAIN rows' :
                               rows'[i][1] = n => (rows'[i][2] <=> Truth(sender[n])')
  BY DEF RowCurrent
<1>8. LastIn(completions, CheckOf(n), R)
  BY <1>1, <1>3, <1>5, <1>7 DEF RowCurrent
<1>9. CASE Has(completions', CheckOf(n))
  BY <1>4, <1>5, <1>8, <1>9
<1>10. CASE ~Has(completions', CheckOf(n))
  <2>1. h \in R
    BY <1>5, <1>8, <1>10
  <2>2. h.followed <=> Truth(u)
    BY <1>1, <1>3, <2>1 DEF Right
  <2> QED
    BY <1>6, <1>10, <2>2
<1> QED
  BY <1>9, <1>10

(* The answer of isUserFollowed is stored and shown. *)
LEMMA NoteCheck ==
  ASSUME NoteTypes, NoteTypes', HandleCheck, NEW n \in Notifications, NoteAt(n)
  PROVE  NoteAt(n)'
<1>1. PICK h : h = Head(completions)
  OBVIOUS
<1>2. /\ sender' = sender /\ following' = following /\ pipeline' = pipeline /\ checks' = checks
      /\ touched' = touched /\ HandleKind("check")
      /\ IF \E i \in DOMAIN rows : rows[i][1] = h.n
           THEN Reload(RowsWith(h.n, h.followed)) /\ BlurTouched
           ELSE UNCHANGED screen /\ blurred' = blurred
  BY <1>1 DEF HandleCheck, backend, reads
<1>3. Lost(completions, completions', h) /\ h \in Done /\ h.kind = "check"
  BY <1>1, <1>2, HandleIs
<1>4. h \in Check
  BY <1>3, DoneKinds
<1>5. h.n \in Notifications /\ h.followed \in BOOLEAN /\ h \notin Chain /\ (h \in CheckOf(n) <=> h.n = n)
  BY <1>4, NoCheck DEF Check
<1>6. PICK u : u = sender[n]
  OBVIOUS
<1>7. Truth(u)' <=> Truth(u)
  BY <1>2, TruthSame
<1>8. completions \in Seq(Done)
  BY DEF NoteTypes
<1>9. n \in blurred => n \in blurred'
  BY <1>2, BlurGrows
<1>10. Quiet(n, u)
  BY <1>2, <1>6, <1>7, <1>9 DEF Quiet
<1>11. Passing(n, u) /\ Steps' = Steps
  BY <1>2, <1>3, <1>5, PassingRead
<1>12. ASSUME h.n # n PROVE Alike(completions, completions', CheckOf(n))
  BY <1>3, <1>5, <1>8, <1>12, AlikeLost
<1>13. CASE \E i \in DOMAIN rows : rows[i][1] = h.n
  <2>1. PICK new : new = RowsWith(h.n, h.followed)
    OBVIOUS
  <2>2. /\ new \in Table /\ DOMAIN new = DOMAIN rows
        /\ \A i \in DOMAIN rows : new[i] = IF rows[i][1] = h.n THEN <<h.n, h.followed>> ELSE rows[i]
    BY <1>5, <2>1, RowsWithIs DEF NoteTypes
  <2>3. Reload(new) /\ BlurTouched
    BY <1>2, <1>13, <2>1
  <2>4. rows' = new
    BY <2>3 DEF Reload
  <2>5. RowCurrent(n)'
    <3>1. CASE h.n = n
      <4>1. \A i \in DOMAIN rows' : rows'[i][1] = n => rows'[i][2] = h.followed
        BY <2>2, <2>4, <3>1
      <4> QED
        BY <1>2, <1>3, <1>4, <1>10, <3>1, <4>1, RowAnswered DEF NoteAt
    <3>2. CASE h.n # n
      <4>1. Listing(n)
        BY <2>2, <2>4, <3>2 DEF Listing
      <4> QED
        BY <1>10, <1>12, <3>2, <4>1, RowKept DEF NoteAt
    <3> QED
      BY <3>1, <3>2
  <2> QED
    BY <1>2, <1>11, <2>2, <2>3, <2>5, ReloadShows
<1>14. CASE ~\E i \in DOMAIN rows : rows[i][1] = h.n
  <2>1. rows' = rows /\ place' = place /\ cells' = cells
    BY <1>2, <1>14 DEF screen
  <2>2. CASE h.n = n
    <3>1. \A i \in DOMAIN rows' : rows'[i][1] # n
      BY <1>14, <2>1, <2>2
    <3>2. RowCurrent(n)'
      BY <1>2, <1>3, <1>4, <1>10, <2>2, <3>1, RowAnswered DEF NoteAt
    <3>3. TappedOrIdle(n)'
      BY <1>10, <1>11, IdleKept DEF NoteAt
    <3>4. ButtonCurrent(n)'
      BY <3>1 DEF ButtonCurrent
    <3> QED
      BY <3>2, <3>3, <3>4 DEF NoteAt
  <2>3. CASE h.n # n
    <3>1. Showing(n)
      BY <2>1 DEF Showing
    <3> QED
      BY <1>10, <1>11, <1>12, <2>3, <3>1, AllKept
  <2> QED
    BY <2>2, <2>3
<1> QED
  BY <1>13, <1>14

(* The tap on n's own button: its chain is the only one, and will toggle it. *)
LEMMA OwnTap ==
  ASSUME NoteTypes, NoteTypes', NEW i \in DOMAIN rows, NEW n, rows[i][1] = n, NEW u, u = sender[n],
         NEW x \in Chain, x.kind = "first", x.cell = place[i], x.uid = u,
         x.op = OpOf(cells[place[i]][2]), Gained(pipeline, pipeline', x),
         completions' = completions, following' = following, sender' = sender,
         rows' = rows, place' = place, cells' = cells,
         ~Under(u), ButtonRight(n, i)
  PROVE  ButtonRight(n, i)'
<1>1. pipeline \in Seq(Chain) /\ cells[place[i]] \in Row
  BY DEF NoteTypes, ScreenTypes
<1>2. PICK c : c = place[i]
  OBVIOUS
<1>3. /\ ToSet(pipeline') = ToSet(pipeline) \cup {x}
      /\ \A X : Has(pipeline', X) <=> Has(pipeline, X) \/ x \in X
  BY <1>1, GainedFacts
<1>4. \A y \in Steps' : y \in Steps \/ y = x
  BY <1>3 DEF Steps, StepsIn
<1>5. ~Has(pipeline, Concerning(u)) /\ ~Has(completions, Concerning(u))
  BY DEF Under
<1>6. Single(pipeline, Concerning(u)) /\ Single(completions, Concerning(u))
  BY <1>5 DEF Has, Single
<1>7. Single(pipeline', Concerning(u))
  BY <1>1, <1>5, <1>6, LoneGained
<1>8. Lone(u)'
  BY <1>5, <1>6, <1>7 DEF Lone, LoneIn
<1>9. x \in Firsts(u)
  BY DEF Firsts
<1>10. Truth(u)' <=> x.op = "set"
  BY <1>9, TruthGained
<1>11. cells[c][2] <=> x.op = "delete"
  BY <1>1, <1>2 DEF OpOf, Row
<1>12. \A m \in Steps : m.uid # u
  BY StepsAre
<1>13. \A m \in Steps : m.cell = c => m.uid = u
  BY <1>2 DEF ButtonRight
<1>14. x \in Concerning(u)
  BY DEF Concerning
<1>15. Under(u)'
  BY <1>3, <1>14 DEF Under
<1>16. /\ Truth(sender[n])' <=> Truth(u)'
       /\ Under(sender[n])' <=> Under(u)'
       /\ Lone(sender[n])' <=> Lone(u)'
  BY DEF Truth, Under, Lone
<1>17. place'[i] = c /\ cells' = cells /\ sender'[n] = u
  BY <1>2
<1>18. /\ \A m \in Steps' : m.cell = c => m.uid = u
       /\ \A m \in Steps' : m.uid = u => m = x
  BY <1>4, <1>12, <1>13
<1>19. \A m \in Steps' : m.uid = u =>
         /\ m.cell = c
         /\ cells'[c][2] <=> m.op = "delete"
         /\ Truth(u)' <=> m.op = "set"
  BY <1>2, <1>10, <1>11, <1>18
<1> QED
  BY <1>8, <1>15, <1>16, <1>17, <1>18, <1>19 DEF ButtonRight

(* A tap: on the button of n, on another of its sender, or on a stranger's. *)
LEMMA NoteTap ==
  ASSUME NoteTypes, NoteTypes', NEW k \in DOMAIN rows, Tap(k),
         NEW n \in Notifications, NoteAt(n)
  PROVE  NoteAt(n)'
<1>1. PICK x \in Chain : /\ x.kind = "first" /\ x.cell = place[k]
                         /\ x.uid = sender[rows[k][1]]
                         /\ x.op = OpOf(cells[place[k]][2])
                         /\ Gained(pipeline, pipeline', x)
  BY TapIs
<1>2. /\ rows \in Table /\ \A i, j \in DOMAIN rows : place[i] = place[j] => i = j
      /\ cells[place[k]][1] = rows[k][1]
  BY DEF NoteTypes, ScreenTypes
<1>3. /\ sender' = sender /\ following' = following /\ completions' = completions
      /\ checks' = checks /\ rows' = rows /\ place' = place /\ cells' = cells
      /\ touched' = touched \cup From(x.uid)
      /\ blurred' = blurred \cup (IF Chained(x.uid) THEN From(x.uid)
                                  ELSE From(x.uid) \ {rows[k][1]})
  BY <1>1, <1>2 DEF Tap, backend, reads, screen
<1>4. PICK u : u = sender[n]
  OBVIOUS
<1>5. CASE x.uid = u
  <2>1. n \in From(x.uid)
    BY <1>4, <1>5 DEF From
  <2>2. n \in touched'
    BY <1>3, <2>1
  <2>3. RowCurrent(n)' /\ TappedOrIdle(n)'
    BY <2>2 DEF RowCurrent, TappedOrIdle
  <2>4. CASE n \in blurred'
    BY <2>3, <2>4 DEF NoteAt, ButtonCurrent
  <2>5. CASE n \notin blurred'
    <3>1. n = rows[k][1] /\ ~Chained(u) /\ n \notin blurred
      BY <1>3, <1>5, <2>1, <2>5
    <3>2. ~Under(u)
      BY <3>1, ChainedIs
    <3>3. ASSUME checks'[n] = 0, ~Has(completions', CheckOf(n)),
                 NEW i \in DOMAIN rows, rows[i][1] = n
          PROVE  ButtonRight(n, i)'
      <4>1. i = k
        BY <1>2, <3>1, <3>3 DEF Table
      <4>2. ButtonRight(n, i)
        BY <1>3, <3>1, <3>3 DEF NoteAt, ButtonCurrent
      <4>3. x.cell = place[i] /\ x.op = OpOf(cells[place[i]][2])
        BY <1>1, <4>1
      <4> QED
        BY <1>1, <1>3, <1>4, <1>5, <3>2, <3>3, <4>2, <4>3, OwnTap
    <3>4. ButtonCurrent(n)'
      BY <1>3, <3>3 DEF ButtonCurrent
    <3> QED
      BY <2>3, <3>4 DEF NoteAt
  <2> QED
    BY <2>4, <2>5
<1>6. CASE x.uid # u
  <2>1. x \notin Firsts(u)
    BY <1>6 DEF Firsts
  <2>2. Truth(u)' <=> Truth(u)
    BY <1>1, <1>3, <2>1, TruthGained
  <2>3. Quiet(n, u)
    BY <1>3, <1>4, <2>2 DEF Quiet
  <2>4. Showing(n)
    BY <1>3 DEF Showing
  <2>5. \A i \in DOMAIN rows : rows[i][1] = n => x.cell # place[i]
    BY <1>1, <1>2, <1>4, <1>6
  <2>6. Passing(n, u)
    BY <1>1, <1>3, <1>6, <2>5, PassingTap
  <2>7. Alike(completions, completions', CheckOf(n))
    BY <1>3, AlikeSame
  <2> QED
    BY <2>3, <2>4, <2>6, <2>7, AllKept
<1> QED
  BY <1>5, <1>6

(* The end of n's own chain: the toggle makes its button true. *)
LEMMA OwnToggle ==
  ASSUME NoteTypes, NoteTypes', NEW i \in DOMAIN rows, NEW n, NEW u, u = sender[n],
         NEW h \in Chain, h.uid = u, Lost(completions, completions', h),
         pipeline' = pipeline, following' = following, sender' = sender, place' = place,
         place[i] = h.cell => (cells'[place[i]][2] <=> ~cells[place[i]][2]),
         ButtonRight(n, i)
  PROVE  ButtonRight(n, i)'
<1>1. completions \in Seq(Done)
  BY DEF NoteTypes
<1>2. PICK c, X : c = place[i] /\ X = Concerning(u)
  OBVIOUS
<1>3. h \in X
  BY <1>2 DEF Concerning
<1>4. /\ ToSet(completions) = {h} \cup ToSet(completions')
      /\ Has(completions, X) <=> Has(completions', X) \/ h \in X
  BY <1>1, LostFacts
<1>5. Steps' \subseteq Steps /\ h \in Steps
  BY <1>4 DEF Steps, StepsIn
<1>6. Under(u)
  BY <1>2, <1>3, <1>4 DEF Under
<1>7. /\ \A m \in Steps : m.cell = c => m.uid = u
      /\ Lone(u)
      /\ h.cell = c /\ (cells[c][2] <=> h.op = "delete") /\ (Truth(u) <=> h.op = "set")
  BY <1>2, <1>5, <1>6 DEF ButtonRight
<1>8. Single(completions, X) /\ ~Has(pipeline, X)
  BY <1>2, <1>3, <1>4, <1>7 DEF Lone, LoneIn
<1>9. ~Has(completions', X)
  BY <1>1, <1>3, <1>8, LoneLost
<1>10. ~Under(u)'
  BY <1>2, <1>8, <1>9 DEF Under
<1>11. Truth(u)' <=> Truth(u)
  BY TruthSame
<1>12. h.op = "set" <=> h.op # "delete"
  BY DEF Chain
<1>13. cells'[c][2] <=> Truth(u)'
  BY <1>2, <1>7, <1>11, <1>12
<1>14. (Truth(sender[n])' <=> Truth(u)') /\ (Under(sender[n])' <=> Under(u)')
  BY DEF Truth, Under
<1>15. place'[i] = c /\ sender'[n] = u
  BY <1>2
<1> QED
  BY <1>5, <1>7, <1>10, <1>13, <1>14, <1>15 DEF ButtonRight

(* The completion of a chain toggles the cell that was tapped. *)
LEMMA NoteSecond ==
  ASSUME NoteTypes, NoteTypes', HandleSecond, NEW n \in Notifications, NoteAt(n)
  PROVE  NoteAt(n)'
<1>1. PICK h : h = Head(completions)
  OBVIOUS
<1>2. /\ sender' = sender /\ following' = following /\ pipeline' = pipeline /\ checks' = checks
      /\ rows' = rows /\ place' = place /\ touched' = touched /\ blurred' = blurred
      /\ HandleKind("second")
  BY DEF HandleSecond, backend, reads, aux
<1>3. Lost(completions, completions', h)
  BY <1>1, <1>2, HandleIs
<1>4. /\ h \in Chain
      /\ \A i \in DOMAIN rows :
           cells'[place[i]] = IF place[i] = h.cell THEN <<cells[place[i]][1], ~cells[place[i]][2]>>
                                                   ELSE cells[place[i]]
  BY <1>1, ToggleIs
<1>5. PICK u : u = sender[n]
  OBVIOUS
<1>6. Truth(u)' <=> Truth(u)
  BY <1>2, TruthSame
<1>7. Quiet(n, u)
  BY <1>2, <1>5, <1>6 DEF Quiet
<1>8. completions \in Seq(Done) /\ h \notin CheckOf(n)
  BY <1>4, NoCheck DEF NoteTypes
<1>9. Alike(completions, completions', CheckOf(n))
  BY <1>3, <1>8, AlikeLost
<1>10. Listing(n)
  BY <1>2 DEF Listing
<1>11. RowCurrent(n)'
  BY <1>7, <1>9, <1>10, RowKept DEF NoteAt
<1>12. Has(completions', CheckOf(n)) <=> Has(completions, CheckOf(n))
  BY <1>9 DEF Alike
<1>13. ToSet(completions) = {h} \cup ToSet(completions')
  BY <1>3, <1>8, LostFacts
<1>14. h \in Steps
  BY <1>4, <1>13 DEF Steps, StepsIn
<1>15. CASE h.uid = u
  <2>1. Under(u)
    BY <1>14, <1>15, StepsAre
  <2>2. TappedOrIdle(n)'
    BY <1>2, <1>5, <2>1 DEF NoteAt, TappedOrIdle
  <2>3. ASSUME n \notin blurred', checks'[n] = 0, ~Has(completions', CheckOf(n)),
               NEW i \in DOMAIN rows, rows[i][1] = n
        PROVE  ButtonRight(n, i)'
    <3>1. ButtonRight(n, i)
      BY <1>2, <1>12, <2>3 DEF NoteAt, ButtonCurrent
    <3>2. place[i] = h.cell => (cells'[place[i]][2] <=> ~cells[place[i]][2])
      <4>1. PICK r, b : r = cells[place[i]] /\ b = ~r[2]
        OBVIOUS
      <4>2. place[i] = h.cell => cells'[place[i]] = <<r[1], b>>
        BY <1>4, <4>1
      <4>3. <<r[1], b>>[2] = b
        OBVIOUS
      <4>4. place[i] = h.cell => cells'[place[i]][2] = b
        BY <4>2, <4>3
      <4> QED
        BY <4>1, <4>4
    <3> QED
      BY <1>2, <1>3, <1>4, <1>5, <1>15, <3>1, <3>2, OwnToggle
  <2>4. ButtonCurrent(n)'
    BY <1>2, <2>3 DEF ButtonCurrent
  <2> QED
    BY <1>11, <2>2, <2>4 DEF NoteAt
<1>16. CASE h.uid # u
  <2>1. Passing(n, u)
    BY <1>2, <1>3, <1>4, <1>16, PassingSecond
  <2>2. TappedOrIdle(n)'
    BY <1>7, <2>1, IdleKept DEF NoteAt
  <2>3. CASE n \notin blurred /\ checks[n] = 0 /\ ~Has(completions, CheckOf(n))
    <3>1. \A i \in DOMAIN rows : rows[i][1] = n => place[i] # h.cell
      BY <1>5, <1>14, <1>16, <2>3 DEF NoteAt, ButtonCurrent, ButtonRight
    <3>2. Showing(n)
      BY <1>2, <1>4, <3>1 DEF Showing
    <3>3. ButtonCurrent(n)'
      BY <1>7, <1>12, <2>1, <3>2, ButtonKept DEF NoteAt
    <3> QED
      BY <1>11, <2>2, <3>3 DEF NoteAt
  <2>4. CASE ~(n \notin blurred /\ checks[n] = 0 /\ ~Has(completions, CheckOf(n)))
    <3>1. ButtonCurrent(n)'
      BY <1>2, <1>12, <2>4 DEF ButtonCurrent
    <3> QED
      BY <1>11, <2>2, <3>1 DEF NoteAt
  <2> QED
    BY <2>3, <2>4
<1> QED
  BY <1>15, <1>16

(* NoteInv holds at first. *)
LEMMA NoteStarts ==
  ASSUME NoteInit
  PROVE  NoteInv
<1>1. /\ sender \in [Notifications -> Senders]
      /\ rows = <<>> /\ cells = [c \in Cells |-> <<>>] /\ place = <<>>
      /\ checks = [n \in Notifications |-> 0] /\ pipeline = <<>> /\ completions = <<>>
      /\ touched = {} /\ blurred = {}
  BY DEF NoteInit
<1>2. DOMAIN rows = {} /\ DOMAIN place = {} /\ rows \in Table
  BY <1>1 DEF Table
<1>3. ScreenTypes
  BY <1>1, <1>2 DEF ScreenTypes
<1>4. NoteTypes
  BY <1>1, <1>3 DEF NoteTypes
<1>5. \A X : ~Has(pipeline, X) /\ ~Has(completions, X)
  BY <1>1 DEF Has
<1>6. \A n \in Notifications : RowCurrent(n) /\ TappedOrIdle(n) /\ ButtonCurrent(n)
  BY <1>2, <1>5 DEF RowCurrent, TappedOrIdle, ButtonCurrent, Under
<1> QED
  BY <1>4, <1>6 DEF NoteInv

(* Every step keeps it. *)
LEMMA NoteStep ==
  ASSUME NoteInv, [NoteNext]_noteVars
  PROVE  NoteInv'
<1>1. NoteTypes /\ NoteTypes'
  BY NoteTypesStep DEF NoteInv
<1>2. SUFFICES ASSUME NEW n \in Notifications PROVE NoteAt(n)'
  BY <1>1 DEF NoteInv, NoteAt
<1>3. NoteAt(n)
  BY DEF NoteInv, NoteAt
<1>4. CASE UNCHANGED noteVars \/ Arrive \/ QueryFails
  BY <1>1, <1>3, <1>4, NoteIdle
<1>5. CASE OnRefresh
  BY <1>1, <1>3, <1>5, NoteRefresh
<1>6. CASE QueryAnswer
  BY <1>1, <1>3, <1>6, NoteQueryAnswer
<1>7. ASSUME NEW m \in Notifications, CheckAnswer(m) PROVE NoteAt(n)'
  BY <1>1, <1>3, <1>7, NoteCheckAnswer
<1>8. ASSUME NEW m \in Notifications, CheckFails(m) PROVE NoteAt(n)'
  BY <1>1, <1>3, <1>8, NoteCheckFails
<1>9. CASE Scroll
  BY <1>1, <1>3, <1>9, NoteScroll
<1>10. ASSUME NEW k \in DOMAIN rows, Tap(k) PROVE NoteAt(n)'
  BY <1>1, <1>3, <1>10, NoteTap
<1>11. CASE CommitWrite
  BY <1>1, <1>3, <1>11, NoteCommit
<1>12. CASE RefuseWrite
  BY <1>1, <1>3, <1>12, NoteRefuse
<1>13. CASE HandleList
  BY <1>1, <1>3, <1>13, NoteList
<1>14. CASE HandleCheck
  BY <1>1, <1>3, <1>14, NoteCheck
<1>15. CASE HandleFirst
  BY <1>1, <1>3, <1>15, NoteFirst
<1>16. CASE HandleSecond
  BY <1>1, <1>3, <1>16, NoteSecond
<1> QED
  BY <1>4, <1>5, <1>6, <1>7, <1>8, <1>9, <1>10, <1>11, <1>12, <1>13, <1>14, <1>15, <1>16
     DEF NoteNext, HandleNext

(* At rest the truth is what the backend holds, and it is on the screen. *)
LEMMA NoteTruth ==
  ASSUME NoteInv
  PROVE  RowsTruthful /\ ButtonTruthful
<1>1. SUFFICES ASSUME AtRest, NEW i \in DOMAIN rows
               PROVE  /\ rows[i][1] \notin touched =>
                           (rows[i][2] <=> sender[rows[i][1]] \in following)
                      /\ cells[place[i]][1] \notin blurred =>
                           (cells[place[i]][2] <=> sender[cells[place[i]][1]] \in following)
  BY DEF RowsTruthful, ButtonTruthful
<1>2. PICK n : n = rows[i][1]
  OBVIOUS
<1>3. NoteTypes
  BY DEF NoteInv
<1>4. n \in Notifications /\ cells[place[i]][1] = n
  BY <1>2, <1>3, SeqFacts DEF NoteTypes, ScreenTypes, Row, Table
<1>5. RowCurrent(n) /\ ButtonCurrent(n)
  BY <1>4 DEF NoteInv
<1>6. checks[n] = 0 /\ pipeline = <<>> /\ completions = <<>>
  BY <1>1, <1>4 DEF AtRest
<1>7. \A X : ~Has(pipeline, X) /\ ~Has(completions, X)
  BY <1>6 DEF Has
<1>8. Truth(sender[n]) <=> sender[n] \in following
  BY <1>7 DEF Truth
<1>9. n \notin touched => (rows[i][2] <=> Truth(sender[n]))
  BY <1>2, <1>5, <1>6, <1>7 DEF RowCurrent
<1>10. n \notin blurred => (cells[place[i]][2] <=> Truth(sender[n]))
  BY <1>2, <1>5, <1>6, <1>7 DEF ButtonCurrent, ButtonRight, Under
<1> QED
  BY <1>2, <1>4, <1>8, <1>9, <1>10

(* The inductive invariant of the list of notifications. *)
THEOREM NoteInvAlways == NoteSpec => []NoteInv
<1>1. NoteInit => NoteInv
  BY NoteStarts
<1>2. NoteInv /\ [NoteNext]_noteVars => NoteInv'
  BY NoteStep
<1> QED
  BY <1>1, <1>2, PTL DEF NoteSpec

(* Whatever refreshes, arrivals, answers, taps and failures come in between, *)
(* at rest a row of the list of notifications that was not tapped since it   *)
(* was checked says whether its sender is followed.                          *)
THEOREM RowsTruthfulAlways == NoteSpec => []RowsTruthful
<1>1. NoteInv => RowsTruthful
  BY NoteTruth
<1> QED
  BY <1>1, NoteInvAlways, PTL

(* A follow button of the list tells the truth at rest, after a tap too,     *)
(* although the completion of follow and unFollow only toggles what the cell *)
(* shows by then: as long as nothing blurred it.                             *)
THEOREM ButtonTruthfulAlways == NoteSpec => []ButtonTruthful
<1>1. NoteInv => ButtonTruthful
  BY NoteTruth
<1> QED
  BY <1>1, NoteInvAlways, PTL
=============================================================================
