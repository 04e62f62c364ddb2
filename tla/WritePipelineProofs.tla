------------------------ MODULE WritePipelineProofs ------------------------
(***************************************************************************)
(* Proofs that the write pipeline sends what is queued, takes every        *)
(* response for the write it answers and implements the queue the          *)
(* application relies on, for any accounts, documents, room in the         *)
(* pipeline, number of writes and number of faults.                        *)
(***************************************************************************)
EXTENDS WritePipeline, SequenceLemmas

----------------------------------------------------------------------------
(* The ids of a queue, oldest first, grow. *)
Ordered(q) == \A i, j \in DOMAIN q : i < j => q[i].id < q[j].id

(* How much of a queue the pipeline has room for. *)
Room(q) == IF MaxPendingWrites <= Len(q) THEN MaxPendingWrites ELSE Len(q)

(* The front of a queue that the pipeline has room for. *)
Fitting(q) == SubSeq(q, 1, Room(q))

(* FillWritePipeline tops the front of a queue up to all it has room for. *)
LEMMA FillFront ==
  ASSUME NEW q \in Seq(Batch), Ordered(q),
         NEW k \in 0 .. Len(q), k <= MaxPendingWrites
  PROVE  /\ Room(q) \in k .. Len(q)
         /\ Room(q) <= MaxPendingWrites
         /\ Fill(SubSeq(q, 1, k), q) = Fitting(q)
         /\ Len(SubSeq(q, 1, k)) = k
         /\ Len(Fitting(q)) = Room(q)
         /\ SubSeq(Fitting(q), k + 1, Room(q)) = SubSeq(q, k + 1, Room(q))
<1> DEFINE p == SubSeq(q, 1, k)
           last == IF p = <<>> THEN 0 ELSE Last(p).id
           old == Max({0} \cup {i \in DOMAIN q : q[i].id <= last})
<1> USE PipelineAssumption
<1>1. /\ Len(q) \in Nat
      /\ DOMAIN q = 1 .. Len(q)
      /\ \A i \in 1 .. Len(q) : q[i] \in Batch
      /\ k \in Nat
  OBVIOUS
<1>2. \A i \in 1 .. Len(q) : q[i].id \in Nat /\ q[i].id > 0
  BY <1>1 DEF Batch
<1>3. /\ p \in Seq(Batch) /\ Len(p) = k
      /\ \A i \in 1 .. k : p[i] = q[i]
  BY FrontOf
<1>4. Room(q) \in k .. Len(q) /\ Room(q) <= MaxPendingWrites /\ Room(q) \in 0 .. Len(q)
  BY <1>1 DEF Room
<1>5. old = k
  <2>1. CASE k = 0
    <3>1. p = <<>>
      BY <1>3, <2>1
    <3>2. {i \in DOMAIN q : q[i].id <= last} = {}
      BY <1>1, <1>2, <3>1
    <3>3. {0} \cup {i \in DOMAIN q : q[i].id <= last} = {0}
      BY <3>2
    <3>4. Max({0}) = 0
      <4>1. {0} \in SUBSET Nat /\ 0 \in {0} /\ \A x \in {0} : x <= 0
        OBVIOUS
      <4> QED
        BY <4>1, MaxIs
    <3> QED
      BY <2>1, <3>3, <3>4
  <2>2. CASE k # 0
    <3>1. k \in DOMAIN q /\ k \in 1 .. k
      BY <1>1, <2>2
    <3>2. p # <<>> /\ last = q[k].id
      BY <1>3, <2>2, <3>1 DEF Last
    <3> DEFINE S == {0} \cup {i \in DOMAIN q : q[i].id <= last}
    <3>3. S \in SUBSET Nat
      BY <1>1
    <3>4. k \in S
      BY <1>1, <1>2, <3>1, <3>2
    <3>5. \A i \in S : i <= k
      BY <1>1, <1>2, <3>1, <3>2 DEF Ordered
    <3> HIDE DEF S
    <3>6. Max(S) = k
      BY <3>3, <3>4, <3>5, MaxIs
    <3> QED
      BY <3>6 DEF S
  <2> QED
    BY <2>1, <2>2
<1>6. Min({Len(q), old + MaxPendingWrites - Len(p)}) = Room(q)
  <2>1. old + MaxPendingWrites - Len(p) = MaxPendingWrites
    BY <1>1, <1>3, <1>5
  <2>2. Min({Len(q), MaxPendingWrites})
          = IF Len(q) <= MaxPendingWrites THEN Len(q) ELSE MaxPendingWrites
    BY <1>1, MinOfTwo
  <2>3. Room(q) = IF Len(q) <= MaxPendingWrites THEN Len(q) ELSE MaxPendingWrites
    BY <1>1 DEF Room
  <2> HIDE DEF p, old
  <2> QED
    BY <2>1, <2>2, <2>3
<1>7. Fill(p, q) = p \o SubSeq(q, k + 1, Room(q))
  BY <1>5, <1>6 DEF Fill
<1>8. p \o SubSeq(q, k + 1, Room(q)) = Fitting(q)
  BY <1>4, FrontAndRest DEF Fitting
<1>9. Len(Fitting(q)) = Room(q)
  BY <1>4, FrontOf DEF Fitting
<1>10. SubSeq(Fitting(q), k + 1, Room(q)) = SubSeq(q, k + 1, Room(q))
  <2>1. /\ Fitting(q) \in Seq(Batch)
        /\ \A i \in 1 .. Room(q) : Fitting(q)[i] = q[i]
    BY <1>4, FrontOf DEF Fitting
  <2>2. /\ SubSeq(q, k + 1, Room(q)) \in Seq(Batch)
        /\ Len(SubSeq(q, k + 1, Room(q))) = Room(q) - k
        /\ \A i \in 1 .. Room(q) - k : SubSeq(q, k + 1, Room(q))[i] = q[k + i]
    BY <1>4, PartOf
  <2>3. k \in 0 .. Len(Fitting(q)) /\ Room(q) \in k .. Len(Fitting(q))
    BY <1>1, <1>4, <1>9
  <2>4. /\ SubSeq(Fitting(q), k + 1, Room(q)) \in Seq(Batch)
        /\ Len(SubSeq(Fitting(q), k + 1, Room(q))) = Room(q) - k
        /\ \A i \in 1 .. Room(q) - k : SubSeq(Fitting(q), k + 1, Room(q))[i] = Fitting(q)[k + i]
    BY <2>1, <2>3, PartOf
  <2>5. \A i \in 1 .. Room(q) - k : k + i \in 1 .. Room(q)
    BY <1>1, <1>4
  <2>6. \A i \in 1 .. Room(q) - k :
          SubSeq(Fitting(q), k + 1, Room(q))[i] = SubSeq(q, k + 1, Room(q))[i]
    BY <2>1, <2>2, <2>4, <2>5
  <2> QED
    BY <2>2, <2>4, <2>6, SameSequence
<1> QED
  BY <1>3, <1>4, <1>7, <1>8, <1>9, <1>10

(* What FillWritePipeline does to a pipeline that is the front of a queue. *)
LEMMA FillEffect ==
  ASSUME NEW q \in Seq(Batch), Ordered(q),
         NEW k \in 0 .. Len(q), k <= MaxPendingWrites,
         NEW st, NEW timer, NEW sent,
         FillWritePipeline(SubSeq(q, 1, k), q, st, timer, sent)
  PROVE  /\ pipeline' = Fitting(q)
         /\ wire' = IF st = "ready" THEN sent \o SubSeq(q, k + 1, Room(q)) ELSE sent
         /\ stream' = IF Room(q) # 0 /\ st = "off" THEN "starting" ELSE st
         /\ idle' = IF Room(q) = 0
                       THEN timer \/ st \in {"open", "ready"}
                       ELSE timer /\ ~(st = "ready" /\ k # Room(q))
<1>1. /\ Room(q) \in k .. Len(q)
      /\ Fill(SubSeq(q, 1, k), q) = Fitting(q)
      /\ Len(SubSeq(q, 1, k)) = k
      /\ Len(Fitting(q)) = Room(q)
      /\ SubSeq(Fitting(q), k + 1, Room(q)) = SubSeq(q, k + 1, Room(q))
  BY FillFront
<1>2. Room(q) \in 0 .. Len(q)
  BY <1>1
<1>3. Fitting(q) = <<>> <=> Room(q) = 0
  <2>1. Fitting(q) \in Seq(Batch)
    BY <1>2, FrontOf DEF Fitting
  <2> QED
    BY <1>1, <2>1
<1>4. SubSeq(q, k + 1, Room(q)) # <<>> <=> k # Room(q)
  <2>1. /\ SubSeq(q, k + 1, Room(q)) \in Seq(Batch)
        /\ Len(SubSeq(q, k + 1, Room(q))) = Room(q) - k
    BY <1>1, PartOf
  <2>2. Room(q) - k = 0 <=> k = Room(q)
    BY <1>1
  <2>3. \A x \in Seq(Batch) : x = <<>> <=> Len(x) = 0
    OBVIOUS
  <2> QED
    BY <2>1, <2>2, <2>3
<1> HIDE DEF Room, Fitting
<1> QED
  BY <1>1, <1>3, <1>4 DEF FillWritePipeline, Started

(* What was sent on the stream, topped up with what the pipeline gained. *)
LEMMA WireFill ==
  ASSUME NEW q \in Seq(Batch), NEW k \in 0 .. Room(q), NEW w \in Seq(Batch),
         NEW a \in Nat, a + Len(w) = k, \A i \in 1 .. Len(w) : w[i] = q[a + i]
  PROVE  /\ a + Len(w \o SubSeq(q, k + 1, Room(q))) = Room(q)
         /\ \A i \in 1 .. Len(w \o SubSeq(q, k + 1, Room(q))) :
              (w \o SubSeq(q, k + 1, Room(q)))[i] = q[a + i]
<1> DEFINE z == SubSeq(q, k + 1, Room(q))
<1>1. Len(q) \in Nat /\ Len(w) \in Nat
  OBVIOUS
<1>2. Room(q) \in Nat /\ Room(q) <= Len(q)
  BY <1>1, PipelineAssumption DEF Room
<1>3. k \in 0 .. Len(q) /\ Room(q) \in k .. Len(q)
  BY <1>1, <1>2
<1>4. /\ z \in Seq(Batch)
      /\ Len(z) = Room(q) - k
      /\ \A i \in 1 .. Room(q) - k : z[i] = q[k + i]
  BY <1>3, PartOf
<1> HIDE DEF z
<1>5. /\ Len(w \o z) = Len(w) + Len(z)
      /\ \A i \in 1 .. Len(w) + Len(z) :
           (w \o z)[i] = IF i <= Len(w) THEN w[i] ELSE z[i - Len(w)]
  BY <1>4, ConcatProperties
<1>6. a + Len(w \o z) = Room(q)
  BY <1>1, <1>2, <1>4, <1>5
<1>7. \A i \in 1 .. Len(w \o z) : (w \o z)[i] = q[a + i]
  <2>1. SUFFICES ASSUME NEW i \in 1 .. Len(w) + Len(z) PROVE (w \o z)[i] = q[a + i]
    BY <1>5
  <2>2. CASE i <= Len(w)
    BY <1>1, <1>5, <2>1, <2>2
  <2>3. CASE ~(i <= Len(w))
    <3>1. \A x, y, z1, m \in Nat :
            x + y = m /\ i \in 1 .. y + z1 /\ ~(i <= y)
              => i - y \in 1 .. z1 /\ m + (i - y) = x + i
      BY <2>1
    <3>2. Len(z) \in Nat
      BY <1>4
    <3>3. i - Len(w) \in 1 .. Len(z) /\ k + (i - Len(w)) = a + i
      BY <1>1, <2>1, <2>3, <3>1, <3>2
    <3> QED
      BY <1>4, <1>5, <2>1, <2>3, <3>3
  <2> QED
    BY <2>2, <2>3
<1> QED
  BY <1>6, <1>7 DEF z

(* A queue with one more batch, whose id is larger than the others'. *)
LEMMA QueueAppend ==
  ASSUME NEW q \in Seq(Batch), NEW b \in Batch, Ordered(q),
         \A i \in DOMAIN q : q[i].id < b.id
  PROVE  /\ Append(q, b) \in Seq(Batch)
         /\ Len(q) \in Nat
         /\ Len(Append(q, b)) = Len(q) + 1
         /\ DOMAIN q = 1 .. Len(q)
         /\ DOMAIN Append(q, b) = 1 .. Len(q) + 1
         /\ \A i \in 1 .. Len(q) : Append(q, b)[i] = q[i]
         /\ Append(q, b)[Len(q) + 1] = b
         /\ Ordered(Append(q, b))
         /\ Room(q) \in 0 .. Len(q) /\ Room(q) <= MaxPendingWrites
         /\ Room(Append(q, b)) \in Room(q) .. Len(q) + 1
         /\ Room(Append(q, b)) # 0
         /\ Room(q) = 0 => q = <<>>
         /\ Fitting(q) = SubSeq(Append(q, b), 1, Room(q))
<1> DEFINE r == Append(q, b)
<1>1. /\ r \in Seq(Batch)
      /\ Len(q) \in Nat
      /\ Len(r) = Len(q) + 1
      /\ DOMAIN q = 1 .. Len(q)
      /\ DOMAIN r = 1 .. Len(q) + 1
      /\ \A i \in 1 .. Len(q) : r[i] = q[i]
      /\ r[Len(q) + 1] = b
  OBVIOUS
<1> HIDE DEF r
<1>2. Ordered(r)
  BY <1>1 DEF Ordered
<1>3. /\ Room(q) \in 0 .. Len(q) /\ Room(q) <= MaxPendingWrites
      /\ Room(r) \in Room(q) .. Len(q) + 1
      /\ Room(r) # 0
      /\ Room(q) = 0 => Len(q) = 0
  BY <1>1, PipelineAssumption DEF Room
<1>4. Fitting(q) = SubSeq(r, 1, Room(q))
  <2>1. Room(q) \in 0 .. Len(r)
    BY <1>1, <1>3
  <2>2. /\ Fitting(q) \in Seq(Batch) /\ Len(Fitting(q)) = Room(q)
        /\ \A i \in 1 .. Room(q) : Fitting(q)[i] = q[i]
    BY <1>3, FrontOf DEF Fitting
  <2>3. /\ SubSeq(r, 1, Room(q)) \in Seq(Batch) /\ Len(SubSeq(r, 1, Room(q))) = Room(q)
        /\ \A i \in 1 .. Room(q) : SubSeq(r, 1, Room(q))[i] = r[i]
    BY <1>1, <2>1, FrontOf
  <2>4. \A i \in 1 .. Room(q) : r[i] = q[i]
    BY <1>1, <1>3
  <2>5. \A i \in 1 .. Room(q) : Fitting(q)[i] = SubSeq(r, 1, Room(q))[i]
    BY <2>2, <2>3, <2>4
  <2> QED
    BY <2>2, <2>3, <2>5, SameSequence
<1> QED
  BY <1>1, <1>2, <1>3, <1>4 DEF r

(* A queue whose oldest batch is removed by its id. *)
LEMMA QueueTail ==
  ASSUME NEW q \in Seq(Batch), Ordered(q), Room(q) # 0
  PROVE  /\ Len(q) \in Nat \ {0}
         /\ q # <<>>
         /\ q[1] \in Batch
         /\ Head(q) = q[1]
         /\ DOMAIN q = 1 .. Len(q)
         /\ Tail(q) \in Seq(Batch)
         /\ Len(Tail(q)) = Len(q) - 1
         /\ DOMAIN Tail(q) = 1 .. Len(q) - 1
         /\ \A i \in 1 .. Len(q) - 1 : Tail(q)[i] = q[i + 1]
         /\ Ordered(Tail(q))
         /\ WithoutBatch(q, q[1]) = Tail(q)
         /\ Room(q) \in 1 .. Len(q) /\ Room(q) <= MaxPendingWrites
         /\ Room(q) - 1 \in 0 .. Room(Tail(q))
         /\ Fitting(q) # <<>> /\ Head(Fitting(q)) = q[1]
         /\ Tail(Fitting(q)) = SubSeq(Tail(q), 1, Room(q) - 1)
<1> DEFINE t == Tail(q)
<1>1. Len(q) \in Nat
  OBVIOUS
<1>2. Len(q) # 0 /\ Room(q) \in 1 .. Len(q) /\ Room(q) <= MaxPendingWrites
  BY <1>1, PipelineAssumption DEF Room
<1>3. q # <<>>
  BY <1>2
<1>4. /\ q[1] \in Batch
      /\ Head(q) = q[1]
      /\ DOMAIN q = 1 .. Len(q)
      /\ t \in Seq(Batch)
      /\ Len(t) = Len(q) - 1
      /\ DOMAIN t = 1 .. Len(q) - 1
      /\ \A i \in 1 .. Len(q) - 1 : t[i] = q[i + 1]
  BY <1>1, <1>2, <1>3
<1>5. t = SubSeq(q, 2, Len(q))
  BY <1>3, TailIsSubSeq
<1> HIDE DEF t
<1>6. \A i \in DOMAIN q : q[i].id \in Nat
  <2>1. \A i \in DOMAIN q : q[i] \in Batch
    BY <1>4
  <2> QED
    BY <2>1 DEF Batch
<1>7. Ordered(t)
  <2>1. \A i, j \in DOMAIN t : i < j => /\ i + 1 \in DOMAIN q /\ j + 1 \in DOMAIN q
                                       /\ i + 1 < j + 1
                                       /\ t[i] = q[i + 1] /\ t[j] = q[j + 1]
    BY <1>1, <1>4
  <2> QED
    BY <2>1 DEF Ordered
<1>8. WithoutBatch(q, q[1]) = t
  <2>1. 1 \in DOMAIN q
    BY <1>1, <1>2, <1>4
  <2>2. \A i \in DOMAIN q : q[i].id = q[1].id => i = 1
    BY <1>1, <1>4, <1>6, <2>1 DEF Ordered
  <2>3. (CHOOSE i \in DOMAIN q : q[i].id = q[1].id) = 1
    BY <2>1, <2>2
  <2>4. WithoutBatch(q, q[1]) = SubSeq(q, 1, 0) \o SubSeq(q, 2, Len(q))
    <3>1. 1 - 1 = 0 /\ 1 + 1 = 2
      OBVIOUS
    <3> QED
      BY <2>3, <3>1 DEF WithoutBatch, RemoveAt
  <2>5. SubSeq(q, 1, 0) = <<>>
    BY SubSeqEmpty
  <2>6. <<>> \o t = t
    BY <1>4, ConcatEmptySeq
  <2> QED
    BY <1>5, <2>4, <2>5, <2>6
<1>9. Room(q) - 1 \in 0 .. Room(t) /\ Room(q) - 1 \in 0 .. Len(t)
  BY <1>1, <1>2, <1>4, PipelineAssumption DEF Room
<1>10. /\ Fitting(q) \in Seq(Batch) /\ Len(Fitting(q)) = Room(q)
       /\ \A i \in 1 .. Room(q) : Fitting(q)[i] = q[i]
  BY <1>1, <1>2, FrontOf DEF Fitting
<1>11. Fitting(q) # <<>> /\ Head(Fitting(q)) = q[1]
  BY <1>1, <1>2, <1>10
<1>12. Tail(Fitting(q)) = SubSeq(t, 1, Room(q) - 1)
  <2>1. /\ Tail(Fitting(q)) \in Seq(Batch)
        /\ Len(Tail(Fitting(q))) = Room(q) - 1
        /\ \A i \in 1 .. Room(q) - 1 : Tail(Fitting(q))[i] = Fitting(q)[i + 1]
    BY <1>10, <1>11, HeadTailProperties
  <2>2. /\ SubSeq(t, 1, Room(q) - 1) \in Seq(Batch)
        /\ Len(SubSeq(t, 1, Room(q) - 1)) = Room(q) - 1
        /\ \A i \in 1 .. Room(q) - 1 : SubSeq(t, 1, Room(q) - 1)[i] = t[i]
    BY <1>4, <1>9, FrontOf
  <2>3. \A i \in 1 .. Room(q) - 1 : Fitting(q)[i + 1] = t[i]
    <3>1. \A i \in 1 .. Room(q) - 1 : i + 1 \in 1 .. Room(q) /\ i \in 1 .. Len(q) - 1
      BY <1>1, <1>2
    <3> QED
      BY <1>4, <1>10, <3>1
  <2>4. \A i \in 1 .. Room(q) - 1 :
          Tail(Fitting(q))[i] = SubSeq(t, 1, Room(q) - 1)[i]
    BY <2>1, <2>2, <2>3
  <2> QED
    BY <2>1, <2>2, <2>4, SameSequence
<1> QED
  BY <1>1, <1>2, <1>3, <1>4, <1>7, <1>8, <1>9, <1>11, <1>12 DEF t

----------------------------------------------------------------------------
(* The inductive invariant.                                                *)

(* Batch ids grow along every queue, none is used twice on disk, and the   *)
(* next one is larger than all of them and no larger than the writes allow.*)
IdsFresh ==
  /\ \A u \in Users : Ordered(queue[u])
  /\ \A u \in Users : \A i \in DOMAIN queue[u] : queue[u][i].id < nextId
  /\ \A u, v \in Users : \A i \in DOMAIN queue[u], j \in DOMAIN queue[v] :
       queue[u][i].id = queue[v][j].id => u = v
  /\ nextId <= issued + 1

(* No two writes on disk have the same number. *)
NumbersDistinct ==
  /\ \A u \in Users : \A i \in DOMAIN queue[u] : queue[u][i].n <= issued
  /\ \A u, v \in Users : \A i \in DOMAIN queue[u], j \in DOMAIN queue[v] :
       queue[u][i].n = queue[v][j].n => u = v /\ i = j

(* Every completion in memory is the one of a write on disk. *)
CallbacksQueued ==
  \A u \in Users : \A c \in callbacks[u] :
    \E i \in DOMAIN queue[u] : c = <<queue[u][i].id, queue[u][i].n>>

(* The pipeline is the front of the queue, a stream is up or on its way    *)
(* when there is something to send, a stream that is not ready yet was     *)
(* started for a reason, and only a ready one with nothing to do is idle.  *)
StreamNeeded ==
  /\ pipeline = Fitting(queue[user])
  /\ stream \in {"starting", "open"} => Room(queue[user]) # 0
  /\ Room(queue[user]) # 0 => stream # "off" /\ ~idle
  /\ idle => stream = "ready"

(* What is under way on the stream, told by its place in the queue: the    *)
(* acknowledged writes, all of them valid, then the ones the backend has   *)
(* not read, or the one it refused.                                        *)
OnTheWay ==
  LET q == queue[user]
  IN  /\ stream # "ready" => acks = <<>> /\ wire = <<>> /\ verdict = 0
      /\ Len(acks) <= Room(q)
      /\ \A i \in 1 .. Len(acks) : acks[i] = q[i].n /\ q[i].valid
      /\ stream = "ready" /\ verdict = 0 =>
           /\ Len(acks) + Len(wire) = Room(q)
           /\ \A i \in 1 .. Len(wire) : wire[i] = q[Len(acks) + i]
      /\ verdict # 0 =>
           /\ Len(acks) < Room(q)
           /\ verdict = q[Len(acks) + 1].n
           /\ ~q[Len(acks) + 1].valid

(* Under the queues qs, the account who and the documents held, what the     *)
(* document d holds is a valid write that is still on disk, on that of who   *)
(* not before the place i.                                                   *)
HeldIn(qs, who, held, d, i) ==
  \E u \in Users : \E k \in DOMAIN qs[u] :
    /\ qs[u][k].doc = d
    /\ qs[u][k].n = held[d]
    /\ qs[u][k].valid
    /\ u = who => i <= k

HeldFrom(d, i) == HeldIn(queue, user, docs, d, i)

(* A document whose acknowledged write the client has not heard of holds    *)
(* that write, a later one or one that will be sent again, unless it was    *)
(* written late.                                                            *)
AckedHeld ==
  \A i \in 1 .. Len(acks) :
    queue[user][i].doc \in tardy \/ HeldFrom(queue[user][i].doc, i)

(* A document holds what the client was told, or a valid write that is      *)
(* still on disk, unless it was written late.                               *)
ValidHeld ==
  \A d \in Docs : docs[d] = settled[d] \/ d \in tardy \/ HeldFrom(d, 0)

Explained == AckedHeld /\ ValidHeld

PipelineInv ==
  /\ TypeOK
  /\ IdsFresh
  /\ NumbersDistinct
  /\ CallbacksQueued
  /\ StreamNeeded
  /\ OnTheWay
  /\ Explained

----------------------------------------------------------------------------
(* What the invariant says of the queue of an account and of its front. *)
LEMMA QueueFacts ==
  ASSUME TypeOK, IdsFresh, NEW u \in Users
  PROVE  /\ queue[u] \in Seq(Batch)
         /\ Ordered(queue[u])
         /\ Len(queue[u]) \in Nat
         /\ DOMAIN queue[u] = 1 .. Len(queue[u])
         /\ \A i \in 1 .. Len(queue[u]) : queue[u][i] \in Batch
         /\ Room(queue[u]) \in 0 .. Len(queue[u])
         /\ Room(queue[u]) <= MaxPendingWrites
         /\ Fitting(queue[u]) \in Seq(Batch)
         /\ Len(Fitting(queue[u])) = Room(queue[u])
         /\ \A i \in 1 .. Room(queue[u]) : Fitting(queue[u])[i] = queue[u][i]
<1>1. queue[u] \in Seq(Batch) /\ Ordered(queue[u])
  BY DEF TypeOK, IdsFresh
<1>2. /\ Len(queue[u]) \in Nat
      /\ DOMAIN queue[u] = 1 .. Len(queue[u])
      /\ \A i \in 1 .. Len(queue[u]) : queue[u][i] \in Batch
  BY <1>1
<1>3. Room(queue[u]) \in 0 .. Len(queue[u]) /\ Room(queue[u]) <= MaxPendingWrites
  BY <1>2, PipelineAssumption DEF Room
<1> QED
  BY <1>1, <1>2, <1>3, FrontOf DEF Fitting

(* The initial state satisfies the invariant. *)
LEMMA InitInv == Init => PipelineInv
<1> SUFFICES ASSUME Init PROVE PipelineInv
  OBVIOUS
<1> USE PipelineAssumption
<1>1. \A u \in Users : queue[u] = <<>>
  BY DEF Init
<1>2. /\ <<>> \in Seq(Batch) /\ Len(<<>>) = 0 /\ DOMAIN <<>> = {}
      /\ <<>> \in Seq(1 .. MaxWrites)
      /\ <<>> \in Seq([n : 1 .. MaxWrites, ok : BOOLEAN])
  OBVIOUS
<1>3. user \in Users
  BY DEF Init
<1>4. queue \in [Users -> Seq(Batch)]
  BY <1>2 DEF Init
<1>5. TypeOK
  <2>1. callbacks \in [Users -> SUBSET ((1 .. MaxWrites) \X (1 .. MaxWrites))]
    BY DEF Init
  <2>2. docs \in [Docs -> 0 .. MaxWrites] /\ settled \in [Docs -> 0 .. MaxWrites]
    BY DEF Init
  <2>3. idle \in BOOLEAN
    BY DEF Init
  <2>4. /\ nextId \in 1 .. MaxWrites + 1 /\ issued \in 0 .. MaxWrites
        /\ faults \in 0 .. MaxFaults /\ verdict \in 0 .. MaxWrites
        /\ Len(pipeline) <= MaxPendingWrites
        /\ stray \in Seq(Seq(Batch)) /\ tardy \in SUBSET Docs
    BY <1>2 DEF Init
  <2> QED
    BY <1>2, <1>3, <1>4, <2>1, <2>2, <2>3, <2>4 DEF Init, TypeOK
<1>6. Room(queue[user]) = 0
  BY <1>1, <1>2, <1>3 DEF Room
<1>7. Fitting(queue[user]) = <<>>
  BY <1>6, SubSeqEmpty DEF Fitting
<1>8. IdsFresh /\ NumbersDistinct /\ CallbacksQueued
  <2>1. nextId <= issued + 1
    BY DEF Init
  <2>2. \A u \in Users : DOMAIN queue[u] = {}
    BY <1>1, <1>2
  <2>3. \A u \in Users : callbacks[u] = {}
    BY DEF Init
  <2> QED
    BY <2>1, <2>2, <2>3 DEF IdsFresh, NumbersDistinct, CallbacksQueued, Ordered
<1>9. StreamNeeded
  BY <1>6, <1>7 DEF Init, StreamNeeded
<1>10. OnTheWay
  <2>1. Len(acks) = 0
    BY <1>2 DEF Init
  <2> QED
    BY <1>6, <2>1 DEF Init, OnTheWay
<1>11. Explained
  <2>1. 1 .. Len(acks) = {}
    BY <1>2 DEF Init
  <2>2. \A d \in Docs : docs[d] = settled[d]
    BY DEF Init
  <2> QED
    BY <2>1, <2>2 DEF Explained, AckedHeld, ValidHeld
<1> QED
  BY <1>5, <1>8, <1>9, <1>10, <1>11 DEF PipelineInv

(* A step that leaves the disk and the completions alone keeps what the  *)
(* invariant says of them.                                               *)
LEMMA DiskUnchanged ==
  ASSUME IdsFresh, NumbersDistinct, CallbacksQueued,
         UNCHANGED <<queue, nextId, callbacks, issued>>
  PROVE  IdsFresh' /\ NumbersDistinct' /\ CallbacksQueued'
BY DEF IdsFresh, NumbersDistinct, CallbacksQueued

(* The wire of a stream that ends joins those of the earlier ones. *)
LEMMA DropTypes ==
  ASSUME TypeOK, DropStream
  PROVE  /\ acks' = <<>> /\ verdict' = 0
         /\ stray' \in Seq(Seq(Batch))
<1>1. wire \in Seq(Batch) /\ stray \in Seq(Seq(Batch))
  BY DEF TypeOK
<1>2. PICK S : S = Seq(Batch)
  OBVIOUS
<1>3. Append(stray, wire) \in Seq(S)
  BY <1>1, <1>2
<1> QED
  BY <1>1, <1>2, <1>3 DEF DropStream

(* What is held stays held while the disk, the account and the documents stay. *)
LEMMA HeldKept ==
  ASSUME UNCHANGED <<queue, user, docs>>, NEW d, NEW i
  PROVE  HeldIn(queue', user', docs', d, i) <=> HeldFrom(d, i)
BY DEF HeldFrom, HeldIn

(* When nothing is acknowledged any more, only the disk counts. *)
LEMMA HeldWithoutAcks ==
  ASSUME TypeOK, Explained, UNCHANGED <<queue, docs, tardy, settled>>, acks' = <<>>
  PROVE  Explained'
<1>1. Len(<<>>) = 0
  OBVIOUS
<1>2. AckedHeld'
  BY <1>1 DEF AckedHeld, HeldFrom
<1>3. \A d : HeldFrom(d, 0) => HeldIn(queue', user', docs', d, 0)
  <2>1. ASSUME NEW d, HeldFrom(d, 0) PROVE HeldIn(queue', user', docs', d, 0)
    <3>1. PICK u \in Users : \E k \in DOMAIN queue[u] :
            queue[u][k].doc = d /\ queue[u][k].n = docs[d] /\ queue[u][k].valid
      BY <2>1 DEF HeldFrom, HeldIn
    <3>2. PICK k \in DOMAIN queue[u] :
            queue[u][k].doc = d /\ queue[u][k].n = docs[d] /\ queue[u][k].valid
      BY <3>1
    <3>3. queue[u] \in Seq(Batch)
      BY DEF TypeOK
    <3>4. 0 <= k
      BY <3>2, <3>3
    <3> QED
      BY <3>2, <3>4 DEF HeldFrom, HeldIn
  <2> QED
    BY <2>1
<1>4. ValidHeld'
  BY <1>3 DEF Explained, ValidHeld, HeldFrom
<1> QED
  BY <1>2, <1>4 DEF Explained

(* A step that opens the stream, completes its handshake, breaks it or    *)
(* stops it keeps the invariant: a broken stream takes the responses with *)
(* it, and a new one is sent the pipeline from its front.                 *)
LEMMA StreamStep ==
  ASSUME PipelineInv,
         OnStreamOpen \/ OnHandshakeComplete \/ OnBreak \/ OnIdle
  PROVE  PipelineInv'
<1> DEFINE q == queue[user]
<1> USE PipelineAssumption
<1>1. /\ TypeOK /\ IdsFresh /\ NumbersDistinct /\ CallbacksQueued
      /\ StreamNeeded /\ OnTheWay /\ Explained
  BY DEF PipelineInv
<1>2. user \in Users
  BY <1>1 DEF TypeOK
<1>3. /\ q \in Seq(Batch)
      /\ Len(q) \in Nat
      /\ Room(q) \in 0 .. Len(q)
      /\ Room(q) <= MaxPendingWrites
      /\ Fitting(q) \in Seq(Batch)
      /\ Len(Fitting(q)) = Room(q)
      /\ \A i \in 1 .. Room(q) : Fitting(q)[i] = q[i]
  BY <1>1, <1>2, QueueFacts
<1>4. /\ queue' = queue /\ user' = user /\ pipeline' = pipeline /\ docs' = docs
      /\ tardy' = tardy /\ settled' = settled
      /\ UNCHANGED <<nextId, callbacks, issued, done>>
  BY DEF OnStreamOpen, OnHandshakeComplete, OnBreak, OnIdle, disk, history, backend, bounds
<1>5. IdsFresh' /\ NumbersDistinct' /\ CallbacksQueued'
  BY <1>1, <1>4, DiskUnchanged
<1>6. pipeline = Fitting(q) /\ (pipeline = <<>> <=> Room(q) = 0)
  BY <1>1, <1>3 DEF StreamNeeded
<1>7. <<>> \in Seq(Batch) /\ <<>> \in Seq(1 .. MaxWrites) /\ Len(<<>>) = 0
  OBVIOUS
<1>8. CASE OnStreamOpen
  <2>1. TypeOK'
    BY <1>1, <1>8 DEF TypeOK, OnStreamOpen, disk, history, backend, bounds
  <2>2. StreamNeeded'
    BY <1>1, <1>4, <1>8 DEF StreamNeeded, OnStreamOpen
  <2>3. OnTheWay' /\ Explained'
    <3>1. acks' = acks /\ OnTheWay'
      BY <1>1, <1>4, <1>8 DEF OnTheWay, OnStreamOpen
    <3> QED
      BY <1>1, <1>4, <3>1, HeldKept DEF Explained, AckedHeld, ValidHeld, HeldFrom
  <2> QED
    BY <1>5, <2>1, <2>2, <2>3 DEF PipelineInv
<1>9. CASE OnHandshakeComplete
  <2>1. acks = <<>> /\ wire = <<>> /\ verdict = 0
    BY <1>1, <1>9 DEF OnTheWay, OnHandshakeComplete
  <2>2. wire' = Fitting(q)
    BY <1>3, <1>6, <1>9, <2>1, ConcatEmptySeq DEF OnHandshakeComplete
  <2>3. TypeOK'
    BY <1>1, <1>3, <1>9, <2>2 DEF TypeOK, OnHandshakeComplete, disk, history, backend, bounds
  <2>4. StreamNeeded'
    BY <1>1, <1>4, <1>6, <1>9 DEF StreamNeeded, OnHandshakeComplete
  <2>5. acks' = <<>> /\ verdict' = 0 /\ stream' = "ready"
    BY <1>9, <2>1 DEF OnHandshakeComplete
  <2>6. OnTheWay'
    <3>1. 0 + Room(q) = Room(q) /\ \A i \in 1 .. Room(q) : 0 + i = i
      BY <1>3
    <3> HIDE DEF q
    <3>2. queue'[user'] = q
      BY <1>4 DEF q
    <3> QED
      BY <1>3, <1>7, <2>2, <2>5, <3>1, <3>2 DEF OnTheWay
  <2>7. Explained'
    BY <1>1, <1>4, <2>5, HeldWithoutAcks
  <2> QED
    BY <1>5, <2>3, <2>4, <2>6, <2>7 DEF PipelineInv
<1>10. CASE OnBreak \/ OnIdle
  <2>1. /\ acks' = <<>> /\ verdict' = 0 /\ wire' = <<>> /\ idle' = FALSE
        /\ stray' \in Seq(Seq(Batch))
    BY <1>1, <1>10, DropTypes DEF OnBreak, OnIdle
  <2>2. stream' = IF Room(q) = 0 THEN "off" ELSE "starting"
    BY <1>1, <1>6, <1>10 DEF OnBreak, OnIdle, StreamNeeded
  <2>3. faults' \in 0 .. MaxFaults
    BY <1>1, <1>10 DEF OnBreak, OnIdle, TypeOK, bounds
  <2>4. TypeOK'
    <3>1. idle' \in BOOLEAN
      BY <2>1
    <3>2. stream' \in {"off", "starting", "open", "ready"}
      BY <2>2
    <3>3. verdict' \in 0 .. MaxWrites
      BY <2>1
    <3> QED
      BY <1>1, <1>4, <1>7, <2>1, <2>3, <3>1, <3>2, <3>3 DEF TypeOK
  <2>5. StreamNeeded'
    BY <1>1, <1>4, <2>1, <2>2 DEF StreamNeeded
  <2>6. OnTheWay'
    BY <1>3, <1>4, <1>7, <2>1, <2>2 DEF OnTheWay
  <2>7. Explained'
    BY <1>1, <1>4, <2>1, HeldWithoutAcks
  <2> QED
    BY <1>5, <2>4, <2>5, <2>6, <2>7 DEF PipelineInv
<1> QED
  BY <1>8, <1>9, <1>10

(* A step of the backend keeps the invariant: the next write it reads is the *)
(* one after the acknowledged ones, whose answer is the next response.       *)
LEMMA ServeStep ==
  ASSUME PipelineInv, Serve
  PROVE  PipelineInv'
<1> DEFINE q == queue[user]
           a == Len(acks)
           w == Head(wire)
<1> USE PipelineAssumption
<1>1. /\ TypeOK /\ IdsFresh /\ NumbersDistinct /\ CallbacksQueued
      /\ StreamNeeded /\ OnTheWay /\ Explained
  BY DEF PipelineInv
<1>2. user \in Users /\ wire \in Seq(Batch) /\ acks \in Seq(1 .. MaxWrites)
  BY <1>1 DEF TypeOK
<1>3. /\ q \in Seq(Batch)
      /\ Len(q) \in Nat
      /\ DOMAIN q = 1 .. Len(q)
      /\ \A i \in 1 .. Len(q) : q[i] \in Batch
      /\ Room(q) \in 0 .. Len(q)
  BY <1>1, <1>2, QueueFacts
<1>4. /\ queue' = queue /\ user' = user /\ pipeline' = pipeline
      /\ stream' = stream /\ idle' = idle
      /\ settled' = settled /\ stray' = stray
      /\ UNCHANGED <<nextId, callbacks, issued, done, faults>>
  BY DEF Serve, ServerApply, ServerReject, disk, history, bounds
<1>5. IdsFresh' /\ NumbersDistinct' /\ CallbacksQueued'
  BY <1>1, <1>4, DiskUnchanged
<1>6. StreamNeeded'
  BY <1>1, <1>4 DEF StreamNeeded
<1>7. verdict = 0 /\ wire # <<>>
  BY DEF Serve, ServerApply, ServerReject
<1>8. stream = "ready"
  BY <1>1, <1>7 DEF OnTheWay
<1>9. /\ a \in Nat /\ Len(wire) \in Nat \ {0}
      /\ a + Len(wire) = Room(q)
      /\ \A i \in 1 .. Len(wire) : wire[i] = q[a + i]
      /\ \A i \in 1 .. a : acks[i] = q[i].n /\ q[i].valid
  <2>1. a \in Nat /\ Len(wire) \in Nat \ {0}
    BY <1>2, <1>7
  <2> QED
    BY <1>1, <1>7, <1>8, <2>1 DEF OnTheWay
<1>10. a + 1 \in 1 .. Room(q) /\ a + 1 \in 1 .. Len(q) /\ a < Room(q)
  BY <1>3, <1>9
<1>11. w = q[a + 1] /\ q[a + 1] \in Batch
  <2>1. w = wire[1] /\ 1 \in 1 .. Len(wire)
    BY <1>2, <1>7, <1>9
  <2> QED
    BY <1>3, <1>9, <1>10, <2>1
<1>12. q[a + 1].n \in 1 .. MaxWrites /\ q[a + 1].doc \in Docs
  BY <1>11 DEF Batch
<1>13. CASE ServerApply
  <2>1. /\ q[a + 1].valid
        /\ docs' = [docs EXCEPT ![q[a + 1].doc] = q[a + 1].n]
        /\ acks' = Append(acks, q[a + 1].n)
        /\ wire' = Tail(wire)
        /\ verdict' = 0
        /\ tardy' = tardy \ {q[a + 1].doc}
    BY <1>7, <1>11, <1>13 DEF ServerApply
  <2>2. /\ acks' \in Seq(1 .. MaxWrites)
        /\ Len(acks') = a + 1
        /\ \A i \in 1 .. a : acks'[i] = acks[i]
        /\ acks'[a + 1] = q[a + 1].n
    BY <1>2, <1>12, <2>1, AppendProperties
  <2>3. /\ wire' \in Seq(Batch)
        /\ Len(wire') = Len(wire) - 1
        /\ \A i \in 1 .. Len(wire) - 1 : wire'[i] = wire[i + 1]
    BY <1>2, <1>7, <2>1, HeadTailProperties
  <2>4. docs \in [Docs -> 0 .. MaxWrites]
    BY <1>1 DEF TypeOK
  <2>5. /\ docs' \in [Docs -> 0 .. MaxWrites]
        /\ docs'[q[a + 1].doc] = q[a + 1].n
        /\ \A d \in Docs : d # q[a + 1].doc => docs'[d] = docs[d]
    BY <1>12, <2>1, <2>4
  <2>6. TypeOK'
    BY <1>1, <1>4, <2>1, <2>2, <2>3, <2>5 DEF TypeOK
  <2> HIDE DEF q, a, w
  <2>7. queue'[user'] = q
    BY <1>4 DEF q
  <2>8. OnTheWay'
    <3>1. \A i \in 1 .. a + 1 : acks'[i] = q[i].n /\ q[i].valid
      BY <1>9, <2>1, <2>2
    <3>2. (a + 1) + Len(wire') = Room(q)
      BY <1>9, <2>3
    <3>3. \A i \in 1 .. Len(wire') : wire'[i] = q[(a + 1) + i]
      <4>1. \A i \in 1 .. Len(wire') : i + 1 \in 1 .. Len(wire) /\ a + (i + 1) = (a + 1) + i
        BY <1>9, <2>3
      <4> QED
        BY <1>9, <2>3, <4>1
    <3>4. a + 1 <= Room(q)
      BY <1>3, <1>9, <1>10
    <3> QED
      BY <1>4, <1>8, <2>1, <2>2, <2>7, <3>1, <3>2, <3>3, <3>4 DEF OnTheWay
  <2>9. Explained'
    <3>1. ASSUME NEW i \in 0 .. a + 1 PROVE HeldIn(queue', user', docs', q[a + 1].doc, i)
      <4>1. a + 1 \in DOMAIN queue'[user]
        BY <1>3, <1>4, <1>10 DEF q
      <4>2. /\ queue'[user][a + 1].doc = q[a + 1].doc
            /\ queue'[user][a + 1].n = docs'[q[a + 1].doc]
            /\ queue'[user][a + 1].valid
            /\ i <= a + 1
        BY <1>4, <1>9, <2>1, <2>5, <3>1 DEF q
      <4> QED
        BY <1>2, <4>1, <4>2 DEF HeldFrom, HeldIn
    <3>2. ASSUME NEW d \in Docs, d # q[a + 1].doc, NEW i
          PROVE  /\ HeldFrom(d, i) => HeldIn(queue', user', docs', d, i)
                 /\ d \in tardy => d \in tardy'
      <4>1. docs'[d] = docs[d]
        BY <2>5, <3>2
      <4> QED
        BY <1>4, <2>1, <3>2, <4>1 DEF HeldFrom, HeldIn
    <3>3. ASSUME NEW i \in 1 .. a + 1
          PROVE  q[i].doc \in tardy' \/ HeldIn(queue', user', docs', q[i].doc, i)
      <4>1. CASE q[i].doc = q[a + 1].doc
        <5>1. i \in 0 .. a + 1
          BY <1>9, <3>3
        <5> QED
          BY <3>1, <4>1, <5>1
      <4>2. CASE q[i].doc # q[a + 1].doc
        <5>1. i \in 1 .. a /\ i \in 1 .. Len(q)
          BY <1>3, <1>9, <1>10, <3>3, <4>2
        <5>2. q[i].doc \in tardy \/ HeldFrom(q[i].doc, i)
          BY <1>1, <5>1 DEF Explained, AckedHeld, q, a
        <5>3. q[i].doc \in Docs
          BY <1>3, <5>1 DEF Batch
        <5> QED
          BY <3>2, <4>2, <5>2, <5>3
      <4> QED
        BY <4>1, <4>2
    <3>4. AckedHeld'
      BY <2>2, <2>7, <3>3 DEF AckedHeld, HeldFrom
    <3>5. ASSUME NEW d \in Docs
          PROVE  docs'[d] = settled'[d] \/ d \in tardy' \/ HeldIn(queue', user', docs', d, 0)
      <4>1. CASE d = q[a + 1].doc
        <5>1. 0 \in 0 .. a + 1
          BY <1>9
        <5> QED
          BY <3>1, <4>1, <5>1
      <4>2. CASE d # q[a + 1].doc
        BY <1>1, <1>4, <2>5, <3>2, <4>2 DEF Explained, ValidHeld
      <4> QED
        BY <4>1, <4>2
    <3>6. ValidHeld'
      BY <3>5 DEF ValidHeld, HeldFrom
    <3> QED
      BY <3>4, <3>6 DEF Explained
  <2> QED
    BY <1>5, <1>6, <2>6, <2>8, <2>9 DEF PipelineInv
<1>14. CASE ServerReject
  <2>1. /\ ~q[a + 1].valid
        /\ verdict' = q[a + 1].n
        /\ docs' = docs /\ tardy' = tardy /\ acks' = acks
        /\ wire' = <<>>
    BY <1>7, <1>11, <1>14 DEF ServerReject, backend
  <2>2. <<>> \in Seq(Batch) /\ verdict' \in 0 .. MaxWrites /\ verdict' # 0
    BY <1>12, <2>1
  <2>3. TypeOK'
    BY <1>1, <1>4, <2>1, <2>2 DEF TypeOK
  <2>4. Explained'
    BY <1>1, <1>4, <2>1, HeldKept DEF Explained, AckedHeld, ValidHeld, HeldFrom
  <2>5. OnTheWay'
    <3>1. Len(acks) <= Room(q) /\ queue'[user'] = q /\ Len(acks') = a
      BY <1>3, <1>4, <1>9, <2>1
    <3> HIDE DEF q, a, w
    <3> QED
      BY <1>4, <1>8, <1>9, <1>10, <2>1, <2>2, <3>1 DEF OnTheWay
  <2> QED
    BY <1>5, <1>6, <2>3, <2>4, <2>5 DEF PipelineInv
<1> QED
  BY <1>13, <1>14 DEF Serve

(* A write that is read late keeps the invariant: it is still on disk and    *)
(* will be answered, or the document counts as written late.                 *)
LEMMA StrayStep ==
  ASSUME PipelineInv, NEW m \in DOMAIN stray, ServerApplyStray(m)
  PROVE  PipelineInv'
<1> DEFINE b == Head(stray[m])
<1>1. /\ TypeOK /\ IdsFresh /\ NumbersDistinct /\ CallbacksQueued
      /\ StreamNeeded /\ OnTheWay /\ Explained
  BY DEF PipelineInv
<1>2. /\ stray[m] # <<>> /\ b.valid
      /\ docs' = [docs EXCEPT ![b.doc] = b.n]
      /\ stray' = [stray EXCEPT ![m] = Tail(stray[m])]
      /\ tardy' = IF Unanswered(b) THEN tardy \ {b.doc} ELSE tardy \cup {b.doc}
      /\ UNCHANGED <<queue, nextId, callbacks, issued, user, pipeline, stream, idle, wire,
                     acks, verdict, settled, done, faults>>
  BY DEF ServerApplyStray, disk, network, history, bounds
<1>3. stray[m] \in Seq(Batch) /\ stray' \in Seq(Seq(Batch))
  <2>1. PICK S : S = Seq(Batch)
    OBVIOUS
  <2>2. stray \in Seq(S) /\ stray[m] \in S
    BY <1>1, <2>1 DEF TypeOK
  <2>3. Tail(stray[m]) \in S
    BY <1>2, <2>1, <2>2
  <2>4. [stray EXCEPT ![m] = Tail(stray[m])] \in Seq(S)
    BY <2>2, <2>3
  <2> QED
    BY <1>2, <2>1, <2>2, <2>4
<1>4. b \in Batch
  BY <1>2, <1>3
<1> HIDE DEF b
<1>5. b.doc \in Docs /\ b.n \in 0 .. MaxWrites
  BY <1>4, PipelineAssumption DEF Batch
<1>6. /\ docs' \in [Docs -> 0 .. MaxWrites]
      /\ docs'[b.doc] = b.n
      /\ \A d \in Docs : d # b.doc => docs'[d] = docs[d]
  BY <1>1, <1>2, <1>5 DEF TypeOK
<1>7. TypeOK'
  BY <1>1, <1>2, <1>3, <1>5, <1>6 DEF TypeOK
<1>8. IdsFresh' /\ NumbersDistinct' /\ CallbacksQueued'
  BY <1>1, <1>2, DiskUnchanged
<1>9. StreamNeeded' /\ OnTheWay'
  BY <1>1, <1>2 DEF StreamNeeded, OnTheWay
<1>10. ASSUME NEW d \in Docs, d # b.doc, NEW i
       PROVE  /\ HeldFrom(d, i) => HeldIn(queue', user', docs', d, i)
              /\ d \in tardy => d \in tardy'
  <2>1. docs'[d] = docs[d]
    BY <1>6, <1>10
  <2> QED
    BY <1>2, <1>10, <2>1 DEF HeldFrom, HeldIn
<1>11. ASSUME NEW i \in 0 .. Len(acks)
       PROVE  b.doc \in tardy' \/ HeldIn(queue', user', docs', b.doc, i)
  <2>1. CASE ~Unanswered(b)
    BY <1>2, <2>1
  <2>2. CASE Unanswered(b)
    <3>1. PICK u \in Users : b \in ToSet(queue[u])
      BY <2>2 DEF Unanswered
    <3>2. PICK k \in DOMAIN queue[u] : queue[u][k] = b
      BY <3>1 DEF ToSet
    <3>3. queue[u] \in Seq(Batch) /\ acks \in Seq(1 .. MaxWrites)
      BY <1>1 DEF TypeOK
    <3>4. k \in Nat /\ k # 0 /\ Len(acks) \in Nat
      BY <3>2, <3>3
    <3>5. u = user => i <= k
      <4>1. SUFFICES ASSUME u = user, k \in 1 .. Len(acks) PROVE FALSE
        BY <3>4
      <4>2. acks[k] = b.n
        BY <1>1, <3>2, <4>1 DEF OnTheWay
      <4>3. b.n \in ToSet(acks)
        BY <3>3, <4>1, <4>2 DEF ToSet
      <4> QED
        BY <2>2, <4>3 DEF Unanswered
    <3> QED
      BY <1>2, <1>6, <3>2, <3>5 DEF HeldFrom, HeldIn
  <2> QED
    BY <2>1, <2>2
<1>12. AckedHeld'
  <2>1. SUFFICES ASSUME NEW i \in 1 .. Len(acks)
                 PROVE  queue[user][i].doc \in tardy' \/ HeldIn(queue', user', docs', queue[user][i].doc, i)
    BY <1>2 DEF AckedHeld, HeldFrom
  <2>2. queue[user][i].doc \in Docs
    <3>1. user \in Users /\ Len(acks) \in Nat
      BY <1>1 DEF TypeOK
    <3>2. Len(acks) <= Room(queue[user]) /\ Room(queue[user]) \in 0 .. Len(queue[user])
      BY <1>1, <3>1, QueueFacts DEF OnTheWay
    <3>3. i \in 1 .. Len(queue[user]) /\ queue[user][i] \in Batch
      BY <1>1, <2>1, <3>1, <3>2, QueueFacts
    <3> QED
      BY <3>3 DEF Batch
  <2>3. CASE queue[user][i].doc = b.doc
    <3>1. i \in 0 .. Len(acks)
      BY <2>1
    <3> QED
      BY <1>11, <2>3, <3>1
  <2>4. CASE queue[user][i].doc # b.doc
    BY <1>1, <1>10, <2>1, <2>2, <2>4 DEF Explained, AckedHeld
  <2> QED
    BY <2>3, <2>4
<1>13. ValidHeld'
  <2>1. SUFFICES ASSUME NEW d \in Docs
                 PROVE  docs'[d] = settled[d] \/ d \in tardy' \/ HeldIn(queue', user', docs', d, 0)
    BY <1>2 DEF ValidHeld, HeldFrom
  <2>2. CASE d = b.doc
    <3>1. 0 \in 0 .. Len(acks)
      <4>1. Len(acks) \in Nat
        BY <1>1 DEF TypeOK
      <4> QED
        BY <4>1
    <3> QED
      BY <1>11, <2>2, <3>1
  <2>3. CASE d # b.doc
    BY <1>1, <1>6, <1>10, <2>1, <2>3 DEF Explained, ValidHeld
  <2> QED
    BY <2>2, <2>3
<1> QED
  BY <1>7, <1>8, <1>9, <1>12, <1>13 DEF PipelineInv, Explained

(* Ids chosen anew are larger than those on disk, and no larger than before. *)
LEMMA LoadedIdFresh ==
  ASSUME TypeOK, IdsFresh
  PROVE  /\ LoadNextBatchId(queue) \in 1 .. nextId
         /\ \A u \in Users : \A i \in DOMAIN queue[u] :
              queue[u][i].id < LoadNextBatchId(queue)
<1> DEFINE S == {0} \cup UNION {{queue[u][i].id : i \in DOMAIN queue[u]} : u \in Users}
<1> USE PipelineAssumption
<1>1. nextId \in Nat /\ nextId >= 1
  BY DEF TypeOK
<1>2. \A u \in Users : \A i \in DOMAIN queue[u] :
        queue[u][i].id \in Nat /\ queue[u][i].id < nextId
  <2>1. SUFFICES ASSUME NEW u \in Users, NEW i \in DOMAIN queue[u]
                 PROVE  queue[u][i].id \in Nat /\ queue[u][i].id < nextId
    OBVIOUS
  <2>2. queue[u][i] \in Batch
    BY <2>1, QueueFacts
  <2> QED
    BY <2>1, <2>2 DEF Batch, IdsFresh
<1>3. \A x \in S : x \in Nat /\ x <= nextId - 1
  BY <1>1, <1>2
<1>4. \A u \in Users : \A i \in DOMAIN queue[u] : queue[u][i].id \in S
  OBVIOUS
<1>5. 0 \in S /\ LoadNextBatchId(queue) = Max(S) + 1
  BY DEF LoadNextBatchId
<1> HIDE DEF S
<1>6. S \in SUBSET Nat /\ S # {} /\ nextId - 1 \in Nat
  BY <1>1, <1>3, <1>5
<1>7. Max(S) \in S /\ \A x \in S : x <= Max(S)
  BY <1>3, <1>6, MaxExists
<1>8. Max(S) \in Nat /\ Max(S) <= nextId - 1
  BY <1>3, <1>7
<1>9. \A u \in Users : \A i \in DOMAIN queue[u] : queue[u][i].id <= Max(S)
  BY <1>4, <1>7
<1> QED
  BY <1>1, <1>2, <1>5, <1>8, <1>9

(* RestartNetwork leaves nothing under way, and a stream on its way when the *)
(* queue of the account is not empty.                                        *)
LEMMA RestartEffect ==
  ASSUME TypeOK, IdsFresh, NEW u \in Users, RestartNetwork(u)
  PROVE  /\ pipeline' = Fitting(queue[u])
         /\ wire' = <<>> /\ acks' = <<>> /\ verdict' = 0
         /\ stream' = IF Room(queue[u]) # 0 THEN "starting" ELSE "off"
         /\ idle' \in BOOLEAN /\ ~idle'
         /\ stray' \in Seq(Seq(Batch))
<1> DEFINE q == queue[u]
<1>1. q \in Seq(Batch) /\ Ordered(q) /\ Len(q) \in Nat /\ Room(q) \in Nat
  BY QueueFacts
<1>2. SubSeq(q, 1, 0) = <<>>
  BY SubSeqEmpty
<1>3. 0 \in 0 .. Len(q) /\ 0 <= MaxPendingWrites
  BY <1>1, PipelineAssumption
<1>4. FillWritePipeline(SubSeq(q, 1, 0), q, "off", FALSE, <<>>)
  BY <1>2 DEF RestartNetwork
<1>5. /\ pipeline' = Fitting(q)
      /\ wire' = IF "off" = "ready" THEN <<>> \o SubSeq(q, 0 + 1, Room(q)) ELSE <<>>
      /\ stream' = IF Room(q) # 0 /\ "off" = "off" THEN "starting" ELSE "off"
      /\ idle' = IF Room(q) = 0
                    THEN FALSE \/ "off" \in {"open", "ready"}
                    ELSE FALSE /\ ~("off" = "ready" /\ 0 # Room(q))
  <2> HIDE DEF q
  <2> QED
    BY <1>1, <1>3, <1>4, FillEffect
<1>6. idle' = FALSE
  BY <1>5
<1>7. acks' = <<>> /\ verdict' = 0 /\ stray' \in Seq(Seq(Batch))
  BY DropTypes DEF RestartNetwork
<1> QED
  BY <1>5, <1>6, <1>7

(* A restart of the network, for the account that is signed in or another *)
(* one, with the ids loaded again and the completions lost or not, keeps  *)
(* the invariant.                                                         *)
LEMMA RestartStep ==
  ASSUME PipelineInv,
         OnConnectivity \/ Kill \/ \E v \in Users : HandleCredentialChange(v)
  PROVE  PipelineInv'
<1> USE PipelineAssumption
<1>1. /\ TypeOK /\ IdsFresh /\ NumbersDistinct /\ CallbacksQueued
      /\ StreamNeeded /\ OnTheWay /\ Explained
  BY DEF PipelineInv
<1>2. PICK u \in Users : user' = u /\ RestartNetwork(u)
  BY <1>1 DEF OnConnectivity, Kill, HandleCredentialChange, TypeOK, disk
<1>3. /\ queue' = queue /\ docs' = docs /\ tardy' = tardy /\ settled' = settled
      /\ done' = done /\ issued' = issued
  BY DEF OnConnectivity, Kill, HandleCredentialChange, disk, history, backend
<1>4. nextId' = nextId \/ nextId' = LoadNextBatchId(queue)
  BY DEF OnConnectivity, Kill, HandleCredentialChange, disk
<1>5. callbacks' = callbacks \/ callbacks' = [v \in Users |-> {}]
  BY DEF OnConnectivity, Kill, HandleCredentialChange
<1>6. faults' \in 0 .. MaxFaults
  BY <1>1 DEF OnConnectivity, Kill, HandleCredentialChange, TypeOK
<1>7. /\ pipeline' = Fitting(queue[u])
      /\ wire' = <<>> /\ acks' = <<>> /\ verdict' = 0
      /\ stream' = IF Room(queue[u]) # 0 THEN "starting" ELSE "off"
      /\ idle' \in BOOLEAN /\ ~idle'
      /\ stray' \in Seq(Seq(Batch))
  BY <1>1, <1>2, RestartEffect
<1>8. /\ Room(queue[u]) \in 0 .. Len(queue[u])
      /\ Len(queue[u]) \in Nat
      /\ Room(queue[u]) <= MaxPendingWrites
      /\ Fitting(queue[u]) \in Seq(Batch)
      /\ Len(Fitting(queue[u])) = Room(queue[u])
  BY <1>1, QueueFacts
<1>9. /\ nextId' \in 1 .. nextId
      /\ \A v \in Users : \A i \in DOMAIN queue[v] : queue[v][i].id < nextId'
  <2>1. nextId \in 1 .. nextId
    BY <1>1 DEF TypeOK
  <2>2. \A v \in Users : \A i \in DOMAIN queue[v] : queue[v][i].id < nextId
    BY <1>1 DEF IdsFresh
  <2> QED
    BY <1>1, <1>4, <2>1, <2>2, LoadedIdFresh
<1>10. nextId' \in 1 .. MaxWrites + 1 /\ nextId' <= issued' + 1
  BY <1>1, <1>3, <1>9 DEF TypeOK, IdsFresh
<1>11. <<>> \in Seq(Batch) /\ <<>> \in Seq(1 .. MaxWrites) /\ Len(<<>>) = 0
  OBVIOUS
<1>12. TypeOK'
  <2>1. callbacks' \in [Users -> SUBSET ((1 .. MaxWrites) \X (1 .. MaxWrites))]
    BY <1>1, <1>5 DEF TypeOK
  <2>2. /\ stream' \in {"off", "starting", "open", "ready"}
        /\ verdict' \in 0 .. MaxWrites
    BY <1>7
  <2>3. pipeline' \in Seq(Batch) /\ Len(pipeline') <= MaxPendingWrites
    BY <1>7, <1>8
  <2> QED
    BY <1>1, <1>2, <1>3, <1>6, <1>7, <1>10, <1>11, <2>1, <2>2, <2>3 DEF TypeOK
<1>13. IdsFresh'
  BY <1>1, <1>3, <1>9, <1>10 DEF IdsFresh
<1>14. NumbersDistinct'
  BY <1>1, <1>3 DEF NumbersDistinct
<1>15. CallbacksQueued'
  BY <1>1, <1>3, <1>5 DEF CallbacksQueued
<1>16. queue'[user'] = queue[u]
  BY <1>2, <1>3
<1>17. StreamNeeded'
  BY <1>7, <1>16 DEF StreamNeeded
<1>18. OnTheWay'
  BY <1>7, <1>8, <1>11, <1>16 DEF OnTheWay
<1>19. Explained'
  BY <1>1, <1>3, <1>7, HeldWithoutAcks
<1> QED
  BY <1>12, <1>13, <1>14, <1>15, <1>17, <1>18, <1>19 DEF PipelineInv

(* NotifyUser calls and drops the completion of the write it is about, if *)
(* that completion is still in memory, and no other.                      *)
LEMMA NotifyEffect ==
  ASSUME TypeOK, IdsFresh, CallbacksQueued, NEW ok \in BOOLEAN,
         Room(queue[user]) # 0, NotifyUser(queue[user][1], ok)
  PROVE  LET b == queue[user][1]
             c == <<b.id, b.n>>
         IN  /\ callbacks' = [callbacks EXCEPT ![user] = @ \ {c}]
             /\ done' = IF c \in callbacks[user]
                          THEN Append(done, [n |-> b.n, ok |-> ok]) ELSE done
<1> DEFINE q == queue[user]
           b == q[1]
           c == <<b.id, b.n>>
           found == {x \in callbacks[user] : x[1] = b.id}
<1>1. user \in Users /\ q \in Seq(Batch) /\ Ordered(q)
  BY QueueFacts DEF TypeOK
<1>2. Len(q) \in Nat \ {0} /\ DOMAIN q = 1 .. Len(q) /\ \A i \in 1 .. Len(q) : q[i] \in Batch
  BY <1>1, QueueTail
<1>3. 1 \in DOMAIN q /\ \A i \in DOMAIN q : q[i].id \in Nat
  BY <1>2 DEF Batch
<1>4. \A i \in DOMAIN q : q[i].id = b.id => i = 1
  BY <1>1, <1>2, <1>3 DEF Ordered
<1>5. \A x \in callbacks[user] : x[1] = b.id => x = c
  <2>1. SUFFICES ASSUME NEW x \in callbacks[user], x[1] = b.id PROVE x = c
    OBVIOUS
  <2>2. PICK i \in DOMAIN q : x = <<q[i].id, q[i].n>>
    BY <1>1, <2>1 DEF CallbacksQueued
  <2>3. q[i].id = b.id
    BY <2>1, <2>2
  <2>4. i = 1
    BY <1>4, <2>2, <2>3
  <2> QED
    BY <2>2, <2>4
<1>6. c[1] = b.id /\ c[2] = b.n
  OBVIOUS
<1>7. /\ done' = IF found = {} THEN done
                    ELSE Append(done, [n |-> (CHOOSE x \in found : TRUE)[2], ok |-> ok])
      /\ callbacks' = [callbacks EXCEPT ![user] = @ \ found]
  BY DEF NotifyUser
<1> HIDE DEF b, c
<1>8. CASE c \in callbacks[user]
  <2>1. found = {c}
    BY <1>5, <1>6, <1>8
  <2>2. (CHOOSE x \in found : TRUE) = c
    BY <2>1
  <2> HIDE DEF found
  <2>3. (CHOOSE x \in found : TRUE)[2] = b.n
    BY <1>6, <2>2
  <2> QED
    BY <1>7, <1>8, <2>1, <2>3 DEF b, c, q
<1>9. CASE c \notin callbacks[user]
  <2>1. found = {}
    BY <1>5, <1>9
  <2>2. callbacks[user] \ found = callbacks[user] \ {c}
    BY <1>9, <2>1
  <2> HIDE DEF found
  <2>3. callbacks' = [callbacks EXCEPT ![user] = @ \ {c}]
    BY <1>7, <2>2
  <2> QED
    BY <1>7, <1>9, <2>1, <2>3 DEF b, c, q
<1> QED
  BY <1>8, <1>9

(* What WriteMutations does to the queue of the account, its completions *)
(* and the pipeline.  The id is new, so that no completion is in the way. *)
LEMMA WriteEffect ==
  ASSUME PipelineInv, NEW d \in Docs, NEW valid \in BOOLEAN, WriteMutations(d, valid)
  PROVE  LET b == [id |-> nextId, n |-> issued + 1, doc |-> d, valid |-> valid]
             q == queue[user]
             r == Append(q, b)
         IN  /\ b \in Batch
             /\ queue' = [queue EXCEPT ![user] = r]
             /\ callbacks' = [callbacks EXCEPT ![user] = @ \cup {<<b.id, b.n>>}]
             /\ pipeline' = Fitting(r)
             /\ wire' = IF stream = "ready"
                           THEN wire \o SubSeq(r, Room(q) + 1, Room(r)) ELSE wire
             /\ stream' = IF stream = "off" THEN "starting" ELSE stream
             /\ idle' = (idle /\ ~(stream = "ready" /\ Room(q) # Room(r)))
<1> DEFINE b == [id |-> nextId, n |-> issued + 1, doc |-> d, valid |-> valid]
           q == queue[user]
           r == Append(q, b)
<1> USE PipelineAssumption
<1>1. TypeOK /\ IdsFresh /\ CallbacksQueued /\ StreamNeeded
  BY DEF PipelineInv
<1>2. user \in Users /\ q \in Seq(Batch) /\ Ordered(q)
  BY <1>1, QueueFacts DEF TypeOK
<1>3. issued \in Nat /\ issued < MaxWrites /\ nextId \in 1 .. MaxWrites + 1 /\ nextId <= issued + 1
  BY <1>1 DEF TypeOK, IdsFresh, WriteMutations
<1>4. b \in Batch
  BY <1>3 DEF Batch
<1>5. \A i \in DOMAIN q : q[i].id < b.id
  BY <1>1, <1>2 DEF IdsFresh
<1>6. queue' = [queue EXCEPT ![user] = r]
  BY DEF WriteMutations
<1>7. callbacks' = [callbacks EXCEPT ![user] = @ \cup {<<b.id, b.n>>}]
  <2>1. ASSUME NEW c \in callbacks[user] PROVE c[1] # b.id
    <3>1. PICK i \in DOMAIN q : c = <<q[i].id, q[i].n>>
      BY <1>1, <1>2, <2>1 DEF CallbacksQueued
    <3>2. q[i] \in Batch
      BY <1>2, <3>1
    <3>3. q[i].id < b.id /\ q[i].id \in Nat /\ b.id \in Nat
      BY <1>4, <1>5, <3>1, <3>2 DEF Batch
    <3> QED
      BY <3>1, <3>3
  <2> QED
    BY <2>1 DEF WriteMutations
<1>8. queue'[user] = r
  BY <1>1, <1>2, <1>6 DEF TypeOK
<1> HIDE DEF b
<1>9. /\ r \in Seq(Batch) /\ Ordered(r)
      /\ Room(q) \in 0 .. Len(r) /\ Room(q) <= MaxPendingWrites
      /\ Room(r) # 0
      /\ Fitting(q) = SubSeq(r, 1, Room(q))
  <2>1. /\ r \in Seq(Batch) /\ Ordered(r)
        /\ Len(q) \in Nat /\ Len(r) = Len(q) + 1
        /\ Room(q) \in 0 .. Len(q) /\ Room(q) <= MaxPendingWrites
        /\ Room(r) # 0
        /\ Fitting(q) = SubSeq(r, 1, Room(q))
    BY <1>2, <1>4, <1>5, QueueAppend
  <2> HIDE DEF q, r
  <2> QED
    BY <2>1
<1> HIDE DEF q, r
<1>10. FillWritePipeline(SubSeq(r, 1, Room(q)), r, stream, idle, wire)
  <2>1. pipeline = SubSeq(r, 1, Room(q))
    BY <1>1, <1>9 DEF StreamNeeded, q
  <2> QED
    BY <1>8, <2>1 DEF WriteMutations
<1>11. /\ pipeline' = Fitting(r)
       /\ wire' = IF stream = "ready" THEN wire \o SubSeq(r, Room(q) + 1, Room(r)) ELSE wire
       /\ stream' = IF Room(r) # 0 /\ stream = "off" THEN "starting" ELSE stream
       /\ idle' = IF Room(r) = 0
                     THEN idle \/ stream \in {"open", "ready"}
                     ELSE idle /\ ~(stream = "ready" /\ Room(q) # Room(r))
  BY <1>9, <1>10, FillEffect
<1>12. idle' = (idle /\ ~(stream = "ready" /\ Room(q) # Room(r)))
  BY <1>9, <1>11
<1>13. stream' = IF stream = "off" THEN "starting" ELSE stream
  BY <1>9, <1>11
<1> QED
  BY <1>4, <1>6, <1>7, <1>11, <1>12, <1>13 DEF b, q, r

(* A write keeps the invariant. *)
LEMMA WriteStep ==
  ASSUME PipelineInv, NEW d \in Docs, NEW valid \in BOOLEAN, WriteMutations(d, valid)
  PROVE  PipelineInv'
<1> DEFINE b == [id |-> nextId, n |-> issued + 1, doc |-> d, valid |-> valid]
           q == queue[user]
           r == Append(q, b)
<1> USE PipelineAssumption
<1>1. /\ TypeOK /\ IdsFresh /\ NumbersDistinct /\ CallbacksQueued
      /\ StreamNeeded /\ OnTheWay /\ Explained
  BY DEF PipelineInv
<1>2. user \in Users /\ q \in Seq(Batch) /\ Ordered(q)
  BY <1>1, QueueFacts DEF TypeOK
<1>3. /\ b \in Batch
      /\ queue' = [queue EXCEPT ![user] = r]
      /\ callbacks' = [callbacks EXCEPT ![user] = @ \cup {<<b.id, b.n>>}]
      /\ pipeline' = Fitting(r)
      /\ wire' = IF stream = "ready" THEN wire \o SubSeq(r, Room(q) + 1, Room(r)) ELSE wire
      /\ stream' = IF stream = "off" THEN "starting" ELSE stream
      /\ idle' = (idle /\ ~(stream = "ready" /\ Room(q) # Room(r)))
  BY WriteEffect
<1>4. /\ nextId' = nextId + 1 /\ issued' = issued + 1 /\ issued < MaxWrites
      /\ user' = user /\ acks' = acks /\ verdict' = verdict /\ docs' = docs
      /\ settled' = settled /\ done' = done /\ faults' = faults
      /\ stray' = stray /\ tardy' = tardy
  BY DEF WriteMutations, history, backend
<1>5. b.id = nextId /\ b.n = issued + 1
  OBVIOUS
<1>6. \A i \in DOMAIN q : q[i].id < b.id
  BY <1>1, <1>2 DEF IdsFresh
<1> HIDE DEF b
<1>7. /\ r \in Seq(Batch)
      /\ Len(q) \in Nat
      /\ Len(r) = Len(q) + 1
      /\ DOMAIN q = 1 .. Len(q)
      /\ DOMAIN r = 1 .. Len(q) + 1
      /\ \A i \in 1 .. Len(q) : r[i] = q[i]
      /\ r[Len(q) + 1] = b
      /\ Ordered(r)
      /\ Room(q) \in 0 .. Len(q) /\ Room(q) <= MaxPendingWrites
      /\ Room(r) \in Room(q) .. Len(q) + 1
      /\ Room(r) # 0
  BY <1>2, <1>3, <1>6, QueueAppend
<1> HIDE DEF r
<1>8. /\ queue'[user] = r
      /\ \A v \in Users : v # user => queue'[v] = queue[v]
      /\ queue' \in [Users -> Seq(Batch)]
  BY <1>1, <1>2, <1>3, <1>7 DEF TypeOK
<1>9. nextId \in Nat /\ issued \in Nat /\ nextId <= issued + 1
  BY <1>1 DEF TypeOK, IdsFresh
<1>10. /\ b.id \in 1 .. MaxWrites /\ b.n \in 1 .. MaxWrites
  BY <1>3 DEF Batch
<1>11. TypeOK'
  <2>1. callbacks' \in [Users -> SUBSET ((1 .. MaxWrites) \X (1 .. MaxWrites))]
    <3>1. <<b.id, b.n>> \in (1 .. MaxWrites) \X (1 .. MaxWrites)
      BY <1>10
    <3> QED
      BY <1>1, <1>2, <1>3, <3>1 DEF TypeOK
  <2>2. pipeline' \in Seq(Batch) /\ Len(pipeline') <= MaxPendingWrites
    <3>1. Room(r) \in 0 .. Len(r) /\ Room(r) <= MaxPendingWrites
      BY <1>7 DEF Room
    <3>2. Fitting(r) \in Seq(Batch) /\ Len(Fitting(r)) = Room(r)
      BY <1>7, <3>1, FrontOf DEF Fitting
    <3> QED
      BY <1>3, <3>1, <3>2
  <2>3. wire' \in Seq(Batch)
    <3>1. Room(q) \in 0 .. Len(r) /\ Room(r) \in Room(q) .. Len(r)
      BY <1>7
    <3>2. SubSeq(r, Room(q) + 1, Room(r)) \in Seq(Batch)
      BY <1>7, <3>1, PartOf
    <3>3. wire \in Seq(Batch)
      BY <1>1 DEF TypeOK
    <3> QED
      BY <1>3, <3>2, <3>3, ConcatProperties
  <2>4. stream' \in {"off", "starting", "open", "ready"}
    BY <1>1, <1>3 DEF TypeOK
  <2>5. idle' \in BOOLEAN
    BY <1>3
  <2>6. nextId' \in 1 .. MaxWrites + 1 /\ issued' \in 0 .. MaxWrites
    BY <1>4, <1>5, <1>9, <1>10
  <2> QED
    BY <1>1, <1>4, <1>8, <2>1, <2>2, <2>3, <2>4, <2>5, <2>6 DEF TypeOK
<1>12. IdsFresh'
  <2>1. \A v \in Users : Ordered(queue'[v])
    BY <1>1, <1>7, <1>8 DEF IdsFresh
  <2>2. \A v \in Users : \A i \in DOMAIN queue[v] :
          queue[v][i].id \in Nat /\ queue[v][i].id < nextId
    <3>1. SUFFICES ASSUME NEW v \in Users, NEW i \in DOMAIN queue[v]
                   PROVE  queue[v][i].id \in Nat /\ queue[v][i].id < nextId
      OBVIOUS
    <3>2. queue[v][i] \in Batch
      BY <1>1, <3>1, QueueFacts
    <3> QED
      BY <1>1, <3>1, <3>2 DEF IdsFresh, Batch
  <2>3. \A i \in DOMAIN r : \/ i \in DOMAIN q /\ r[i] = q[i]
                            \/ i = Len(q) + 1 /\ r[i] = b
    BY <1>7
  <2>4. \A v \in Users : \A i \in DOMAIN queue'[v] :
          \/ i \in DOMAIN queue[v] /\ queue'[v][i] = queue[v][i]
          \/ v = user /\ queue'[v][i].id = nextId
    BY <1>5, <1>8, <2>3 DEF q
  <2>5. \A v \in Users : \A i \in DOMAIN queue'[v] : queue'[v][i].id < nextId + 1
    BY <1>9, <2>2, <2>4
  <2>6. ASSUME NEW u \in Users, NEW v \in Users, NEW i \in DOMAIN queue'[u],
               NEW j \in DOMAIN queue'[v], queue'[u][i].id = queue'[v][j].id
        PROVE  u = v
    <3>1. CASE i \in DOMAIN queue[u] /\ queue'[u][i] = queue[u][i]
      <4>1. queue[u][i].id < nextId /\ queue[u][i].id \in Nat
        BY <2>2, <3>1
      <4>2. queue'[v][j].id # nextId
        BY <1>9, <2>6, <3>1, <4>1
      <4>3. j \in DOMAIN queue[v] /\ queue'[v][j] = queue[v][j]
        BY <2>4, <2>6, <4>2
      <4> QED
        BY <1>1, <2>6, <3>1, <4>3 DEF IdsFresh
    <3>2. CASE u = user /\ queue'[u][i].id = nextId
      <4>1. ~(j \in DOMAIN queue[v] /\ queue'[v][j] = queue[v][j])
        BY <1>9, <2>2, <2>6, <3>2
      <4> QED
        BY <2>4, <2>6, <3>2, <4>1
    <3> QED
      BY <2>4, <2>6, <3>1, <3>2
  <2>7. nextId' <= issued' + 1
    BY <1>4, <1>9
  <2> QED
    BY <1>4, <2>1, <2>5, <2>6, <2>7 DEF IdsFresh
<1>13. NumbersDistinct'
  <2>1. \A v \in Users : \A i \in DOMAIN queue[v] :
          queue[v][i].n \in Nat /\ queue[v][i].n <= issued
    <3>1. SUFFICES ASSUME NEW v \in Users, NEW i \in DOMAIN queue[v]
                   PROVE  queue[v][i].n \in Nat /\ queue[v][i].n <= issued
      OBVIOUS
    <3>2. queue[v][i] \in Batch
      BY <1>1, <3>1, QueueFacts
    <3> QED
      BY <1>1, <3>1, <3>2 DEF NumbersDistinct, Batch
  <2>2. \A i \in DOMAIN r : \/ i \in DOMAIN q /\ r[i] = q[i]
                            \/ i = Len(q) + 1 /\ r[i] = b
    BY <1>7
  <2>3. \A v \in Users : \A i \in DOMAIN queue'[v] :
          \/ i \in DOMAIN queue[v] /\ queue'[v][i] = queue[v][i]
          \/ v = user /\ i = Len(q) + 1 /\ queue'[v][i].n = issued + 1
    BY <1>5, <1>8, <2>2 DEF q
  <2>4. \A v \in Users : \A i \in DOMAIN queue'[v] : queue'[v][i].n <= issued + 1
    BY <1>9, <2>1, <2>3
  <2>5. ASSUME NEW u \in Users, NEW v \in Users, NEW i \in DOMAIN queue'[u],
               NEW j \in DOMAIN queue'[v], queue'[u][i].n = queue'[v][j].n
        PROVE  u = v /\ i = j
    <3>1. CASE i \in DOMAIN queue[u] /\ queue'[u][i] = queue[u][i]
      <4>1. queue[u][i].n <= issued /\ queue[u][i].n \in Nat
        BY <2>1, <3>1
      <4>2. queue'[v][j].n # issued + 1
        BY <1>9, <2>5, <3>1, <4>1
      <4>3. j \in DOMAIN queue[v] /\ queue'[v][j] = queue[v][j]
        BY <2>3, <2>5, <4>2
      <4> QED
        BY <1>1, <2>5, <3>1, <4>3 DEF NumbersDistinct
    <3>2. CASE u = user /\ i = Len(q) + 1 /\ queue'[u][i].n = issued + 1
      <4>1. ~(j \in DOMAIN queue[v] /\ queue'[v][j] = queue[v][j])
        BY <1>9, <2>1, <2>5, <3>2
      <4> QED
        BY <2>3, <2>5, <3>2, <4>1
    <3> QED
      BY <2>3, <2>5, <3>1, <3>2
  <2> QED
    BY <1>4, <2>4, <2>5 DEF NumbersDistinct
<1>14. CallbacksQueued'
  <2>1. SUFFICES ASSUME NEW u \in Users, NEW c \in callbacks'[u]
                 PROVE  \E i \in DOMAIN queue'[u] : c = <<queue'[u][i].id, queue'[u][i].n>>
    BY DEF CallbacksQueued
  <2>2. callbacks \in [Users -> SUBSET ((1 .. MaxWrites) \X (1 .. MaxWrites))]
    BY <1>1 DEF TypeOK
  <2>3. CASE u = user /\ c = <<b.id, b.n>>
    <3>1. Len(q) + 1 \in DOMAIN queue'[u] /\ queue'[u][Len(q) + 1] = b
      BY <1>7, <1>8, <2>3
    <3> QED
      BY <2>3, <3>1
  <2>4. CASE c \in callbacks[u]
    <3>1. PICK i \in DOMAIN queue[u] : c = <<queue[u][i].id, queue[u][i].n>>
      BY <1>1, <2>1, <2>4 DEF CallbacksQueued
    <3>2. i \in DOMAIN queue'[u] /\ queue'[u][i] = queue[u][i]
      <4>1. CASE u = user
        <5>1. \A k \in DOMAIN q : k \in DOMAIN r /\ r[k] = q[k]
          BY <1>7
        <5> QED
          BY <1>8, <3>1, <4>1, <5>1
      <4>2. CASE u # user
        BY <1>8, <3>1, <4>2
      <4> QED
        BY <4>1, <4>2
    <3> QED
      BY <3>1, <3>2
  <2> QED
    BY <1>2, <1>3, <2>1, <2>2, <2>3, <2>4
<1>15. Room(q) = 0 \/ ~idle
  BY <1>1 DEF StreamNeeded
<1>16. queue'[user'] = r
  BY <1>4, <1>8
<1>17. StreamNeeded'
  <2>1. ~idle'
    <3>1. CASE idle
      <4>1. stream = "ready" /\ Room(q) = 0
        BY <1>1, <1>15, <3>1 DEF StreamNeeded
      <4> QED
        BY <1>3, <1>7, <4>1
    <3>2. CASE ~idle
      BY <1>3, <3>2
    <3> QED
      BY <3>1, <3>2
  <2>2. stream' # "off"
    BY <1>3
  <2> QED
    BY <1>3, <1>7, <1>16, <2>1, <2>2 DEF StreamNeeded
<1>18. /\ acks \in Seq(1 .. MaxWrites) /\ Len(acks) \in Nat
       /\ wire \in Seq(Batch) /\ Len(wire) \in Nat
       /\ Len(acks) <= Room(q)
  BY <1>1 DEF TypeOK, OnTheWay, q
<1>19. \A i \in 1 .. Room(q) : r[i] = q[i]
  BY <1>7
<1>20. OnTheWay'
  <2>1. stream' # "ready" => acks' = <<>> /\ wire' = <<>> /\ verdict' = 0
    BY <1>1, <1>3, <1>4 DEF OnTheWay
  <2>2. Len(acks') <= Room(r)
    BY <1>4, <1>7, <1>18
  <2>3. \A i \in 1 .. Len(acks) : acks[i] = r[i].n /\ r[i].valid
    <3>1. \A i \in 1 .. Len(acks) : i \in 1 .. Room(q)
      BY <1>7, <1>18
    <3>2. \A i \in 1 .. Len(acks) : acks[i] = q[i].n /\ q[i].valid
      BY <1>1 DEF OnTheWay, q
    <3> QED
      BY <1>19, <3>1, <3>2
  <2>4. ASSUME stream' = "ready", verdict' = 0
        PROVE  Len(acks) + Len(wire') = Room(r) /\ \A i \in 1 .. Len(wire') : wire'[i] = r[Len(acks) + i]
    <3>1. stream = "ready" /\ verdict = 0
      BY <1>3, <1>4, <2>4
    <3>2. Len(acks) + Len(wire) = Room(q) /\ \A i \in 1 .. Len(wire) : wire[i] = q[Len(acks) + i]
      BY <1>1, <3>1 DEF OnTheWay, q
    <3>3. \A i \in 1 .. Len(wire) : Len(acks) + i \in 1 .. Room(q)
      BY <1>18, <3>2
    <3>4. \A i \in 1 .. Len(wire) : wire[i] = r[Len(acks) + i]
      BY <1>19, <3>2, <3>3
    <3>5. Room(q) \in 0 .. Room(r)
      BY <1>7
    <3>6. wire' = wire \o SubSeq(r, Room(q) + 1, Room(r))
      BY <1>3, <3>1
    <3> DEFINE k == Room(q)
               a == Len(acks)
               v == wire \o SubSeq(r, k + 1, Room(r))
    <3>7. r \in Seq(Batch) /\ wire \in Seq(Batch) /\ k \in 0 .. Room(r) /\ a \in Nat
      BY <1>7, <1>18, <3>5
    <3>8. a + Len(wire) = k /\ \A i \in 1 .. Len(wire) : wire[i] = r[a + i]
      BY <3>2, <3>4
    <3> HIDE DEF q, k, a
    <3>9. a + Len(v) = Room(r) /\ \A i \in 1 .. Len(v) : v[i] = r[a + i]
      BY <3>7, <3>8, WireFill
    <3> QED
      BY <3>6, <3>9 DEF k, a
  <2>5. ASSUME verdict' # 0
        PROVE  Len(acks) < Room(r) /\ verdict' = r[Len(acks) + 1].n /\ ~r[Len(acks) + 1].valid
    <3>1. Len(acks) < Room(q) /\ verdict = q[Len(acks) + 1].n /\ ~q[Len(acks) + 1].valid
      BY <1>1, <1>4, <2>5 DEF OnTheWay, q
    <3>2. Len(acks) + 1 \in 1 .. Room(q) /\ Len(acks) < Room(r)
      BY <1>7, <1>18, <3>1
    <3> QED
      BY <1>4, <1>19, <3>1, <3>2
  <2> QED
    BY <1>4, <1>16, <2>1, <2>2, <2>3, <2>4, <2>5 DEF OnTheWay
<1>21. Explained'
  <2>1. \A u \in Users : \A i \in DOMAIN queue[u] :
          i \in DOMAIN queue'[u] /\ queue'[u][i] = queue[u][i]
    <3>1. \A i \in DOMAIN q : i \in DOMAIN r /\ r[i] = q[i]
      BY <1>7
    <3> QED
      BY <1>8, <3>1 DEF q
  <2>2. ASSUME NEW e, NEW i PROVE HeldFrom(e, i) => HeldIn(queue', user', docs', e, i)
    BY <1>4, <2>1 DEF HeldFrom, HeldIn
  <2>3. AckedHeld'
    <3>1. ASSUME NEW i \in 1 .. Len(acks)
          PROVE  r[i].doc \in tardy \/ HeldIn(queue', user', docs', r[i].doc, i)
      <4>1. q[i].doc \in tardy \/ HeldFrom(q[i].doc, i)
        BY <1>1, <3>1 DEF Explained, AckedHeld, q
      <4>2. r[i] = q[i]
        BY <1>7, <1>18, <1>19, <3>1, SMTT(30)
      <4> QED
        BY <2>2, <4>1, <4>2
    <3> QED
      BY <1>4, <1>16, <3>1 DEF AckedHeld, HeldFrom
  <2>4. ValidHeld'
    BY <1>1, <1>4, <2>2 DEF Explained, ValidHeld, HeldFrom
  <2> QED
    BY <2>3, <2>4 DEF Explained
<1> QED
  BY <1>11, <1>12, <1>13, <1>14, <1>17, <1>20, <1>21 DEF PipelineInv

(* What a response and a refusal do to the disk: the write they are taken *)
(* for is the oldest of the account, and it leaves the queue.             *)
LEMMA RemoveEffect ==
  ASSUME PipelineInv, OnMutationResult \/ OnRejected
  PROVE  LET q == queue[user]
         IN  /\ user \in Users /\ q \in Seq(Batch) /\ Ordered(q)
             /\ Room(q) # 0
             /\ queue' = [queue EXCEPT ![user] = Tail(@)]
             /\ OnMutationResult => NotifyUser(q[1], TRUE)
             /\ OnMutationResult => settled' = [settled EXCEPT ![q[1].doc] = q[1].n]
             /\ OnMutationResult =>
                  FillWritePipeline(SubSeq(Tail(q), 1, Room(q) - 1), Tail(q), stream, idle, wire)
             /\ OnRejected => NotifyUser(q[1], FALSE)
             /\ OnRejected =>
                  FillWritePipeline(SubSeq(Tail(q), 1, Room(q) - 1), Tail(q), "off", FALSE, <<>>)
<1> DEFINE q == queue[user]
<1> USE PipelineAssumption
<1>1. TypeOK /\ IdsFresh /\ StreamNeeded /\ OnTheWay
  BY DEF PipelineInv
<1>2. user \in Users /\ q \in Seq(Batch) /\ Ordered(q) /\ Room(q) \in Nat
  <2>1. user \in Users
    BY <1>1 DEF TypeOK
  <2>2. q \in Seq(Batch) /\ Ordered(q) /\ Len(q) \in Nat /\ Room(q) \in 0 .. Len(q)
    BY <1>1, <2>1, QueueFacts
  <2> QED
    BY <2>1, <2>2
<1>3. Room(q) # 0
  <2>1. acks \in Seq(1 .. MaxWrites) /\ Len(acks) \in Nat
    BY <1>1 DEF TypeOK
  <2>2. CASE OnMutationResult
    <3>1. Len(acks) # 0 /\ Len(acks) <= Room(q)
      BY <1>1, <2>1, <2>2 DEF OnMutationResult, OnTheWay
    <3> QED
      BY <1>2, <2>1, <3>1
  <2>3. CASE OnRejected
    <3>1. Len(acks) < Room(q)
      BY <1>1, <2>3 DEF OnRejected, OnTheWay
    <3> QED
      BY <1>2, <2>1, <3>1
  <2> QED
    BY <2>2, <2>3
<1>4. /\ WithoutBatch(q, q[1]) = Tail(q)
      /\ Head(Fitting(q)) = q[1]
      /\ Tail(Fitting(q)) = SubSeq(Tail(q), 1, Room(q) - 1)
  BY <1>2, <1>3, QueueTail
<1>5. Head(pipeline) = q[1] /\ Tail(pipeline) = SubSeq(Tail(q), 1, Room(q) - 1)
  BY <1>1, <1>4 DEF StreamNeeded
<1>6. queue' = [queue EXCEPT ![user] = Tail(@)]
  BY <1>4, <1>5 DEF OnMutationResult, OnRejected
<1>7. queue'[user] = Tail(q)
  BY <1>1, <1>2, <1>6 DEF TypeOK
<1>8. CASE OnMutationResult
  <2>1. FillWritePipeline(Tail(pipeline), queue'[user], stream, idle, wire)
    BY <1>8 DEF OnMutationResult
  <2>2. NotifyUser(q[1], TRUE) /\ settled' = [settled EXCEPT ![q[1].doc] = q[1].n]
    BY <1>5, <1>8 DEF OnMutationResult
  <2>3. stream = "ready" /\ acks # <<>>
    BY <1>8 DEF OnMutationResult
  <2>4. ~OnRejected
    BY <2>3 DEF OnRejected
  <2>5. FillWritePipeline(SubSeq(Tail(q), 1, Room(q) - 1), Tail(q), stream, idle, wire)
    BY <1>5, <1>7, <2>1
  <2> QED
    BY <1>2, <1>3, <1>6, <2>2, <2>4, <2>5
<1>9. CASE OnRejected
  <2>1. FillWritePipeline(Tail(pipeline), queue'[user], "off", FALSE, <<>>)
    BY <1>9 DEF OnRejected
  <2>2. NotifyUser(q[1], FALSE)
    BY <1>5, <1>9 DEF OnRejected
  <2>3. ~OnMutationResult
    BY <1>9 DEF OnMutationResult, OnRejected
  <2>4. FillWritePipeline(SubSeq(Tail(q), 1, Room(q) - 1), Tail(q), "off", FALSE, <<>>)
    BY <1>5, <1>7, <2>1
  <2> QED
    BY <1>2, <1>3, <1>6, <2>2, <2>3, <2>4
<1> QED
  BY <1>8, <1>9

(* Taking the oldest write of the account off the disk, with its completion, *)
(* keeps what the invariant says of the disk and of the completions.         *)
LEMMA RemoveDisk ==
  ASSUME TypeOK, IdsFresh, NumbersDistinct, CallbacksQueued, NEW ok \in BOOLEAN,
         Room(queue[user]) # 0, NotifyUser(queue[user][1], ok),
         queue' = [queue EXCEPT ![user] = Tail(@)],
         nextId' = nextId, issued' = issued
  PROVE  /\ queue' \in [Users -> Seq(Batch)]
         /\ callbacks' \in [Users -> SUBSET ((1 .. MaxWrites) \X (1 .. MaxWrites))]
         /\ done' \in Seq([n : 1 .. MaxWrites, ok : BOOLEAN])
         /\ IdsFresh' /\ NumbersDistinct' /\ CallbacksQueued'
<1> DEFINE q == queue[user]
           t == Tail(q)
           c0 == <<q[1].id, q[1].n>>
<1>1. user \in Users /\ q \in Seq(Batch) /\ Ordered(q)
  BY QueueFacts DEF TypeOK
<1>2. /\ Len(q) \in Nat \ {0}
      /\ q[1] \in Batch
      /\ DOMAIN q = 1 .. Len(q)
      /\ t \in Seq(Batch)
      /\ DOMAIN t = 1 .. Len(q) - 1
      /\ \A i \in 1 .. Len(q) - 1 : t[i] = q[i + 1]
      /\ Ordered(t)
  BY <1>1, QueueTail
<1>3. /\ callbacks' = [callbacks EXCEPT ![user] = @ \ {c0}]
      /\ done' = IF c0 \in callbacks[user]
                   THEN Append(done, [n |-> q[1].n, ok |-> ok]) ELSE done
  BY NotifyEffect
<1>4. queue \in [Users -> Seq(Batch)]
  BY DEF TypeOK
<1> HIDE DEF c0, t
<1>5. queue'[user] = t /\ \A u \in Users : u # user => queue'[u] = queue[u]
  BY <1>1, <1>4 DEF t
<1>6. queue' \in [Users -> Seq(Batch)]
  BY <1>1, <1>2, <1>4 DEF t
<1>7. callbacks \in [Users -> SUBSET ((1 .. MaxWrites) \X (1 .. MaxWrites))]
  BY DEF TypeOK
<1>8. /\ callbacks' \in [Users -> SUBSET ((1 .. MaxWrites) \X (1 .. MaxWrites))]
      /\ callbacks'[user] = callbacks[user] \ {c0}
      /\ \A u \in Users : u # user => callbacks'[u] = callbacks[u]
  BY <1>1, <1>3, <1>7
<1>9. done' \in Seq([n : 1 .. MaxWrites, ok : BOOLEAN])
  <2>1. [n |-> q[1].n, ok |-> ok] \in [n : 1 .. MaxWrites, ok : BOOLEAN]
    BY <1>2 DEF Batch
  <2>2. done \in Seq([n : 1 .. MaxWrites, ok : BOOLEAN])
    BY DEF TypeOK
  <2> QED
    BY <1>3, <2>1, <2>2, AppendProperties
<1>10. \A i \in DOMAIN t : i + 1 \in DOMAIN q /\ t[i] = q[i + 1]
  BY <1>2
<1>11. \A i \in DOMAIN q : i # 1 => i - 1 \in DOMAIN t /\ t[i - 1] = q[i]
  BY <1>2
<1>12. \A u \in Users : \A i \in DOMAIN queue'[u] :
         \E k \in DOMAIN queue[u] : /\ queue'[u][i] = queue[u][k]
                                    /\ k = IF u = user THEN i + 1 ELSE i
  <2>1. SUFFICES ASSUME NEW u \in Users, NEW i \in DOMAIN queue'[u]
                 PROVE  \E k \in DOMAIN queue[u] : /\ queue'[u][i] = queue[u][k]
                                                   /\ k = IF u = user THEN i + 1 ELSE i
    OBVIOUS
  <2>2. CASE u = user
    BY <1>5, <1>10, <2>1, <2>2
  <2>3. CASE u # user
    BY <1>5, <2>1, <2>3
  <2> QED
    BY <2>2, <2>3
<1>13. IdsFresh'
  <2>1. \A u \in Users : Ordered(queue'[u])
    BY <1>2, <1>5 DEF IdsFresh
  <2>2. \A u \in Users : \A i \in DOMAIN queue'[u] : queue'[u][i].id < nextId
    BY <1>12 DEF IdsFresh
  <2>3. \A u, v \in Users : \A i \in DOMAIN queue'[u], j \in DOMAIN queue'[v] :
          queue'[u][i].id = queue'[v][j].id => u = v
    BY <1>12 DEF IdsFresh
  <2>4. nextId <= issued + 1
    BY DEF IdsFresh
  <2> QED
    BY <2>1, <2>2, <2>3, <2>4 DEF IdsFresh
<1>14. NumbersDistinct'
  <2>1. \A u \in Users : \A i \in DOMAIN queue'[u] : queue'[u][i].n <= issued
    BY <1>12 DEF NumbersDistinct
  <2>2. ASSUME NEW u \in Users, NEW v \in Users, NEW i \in DOMAIN queue'[u],
               NEW j \in DOMAIN queue'[v], queue'[u][i].n = queue'[v][j].n
        PROVE  u = v /\ i = j
    <3>1. PICK k \in DOMAIN queue[u] : /\ queue'[u][i] = queue[u][k]
                                      /\ k = IF u = user THEN i + 1 ELSE i
      BY <1>12, <2>2
    <3>2. PICK m \in DOMAIN queue[v] : /\ queue'[v][j] = queue[v][m]
                                      /\ m = IF v = user THEN j + 1 ELSE j
      BY <1>12, <2>2
    <3>3. u = v /\ k = m
      BY <2>2, <3>1, <3>2 DEF NumbersDistinct
    <3>4. i \in Int /\ j \in Int
      <4>1. \A w \in Users : queue'[w] \in Seq(Batch)
        BY <1>6
      <4>2. DOMAIN queue'[u] = 1 .. Len(queue'[u]) /\ DOMAIN queue'[v] = 1 .. Len(queue'[v])
        BY <2>2, <4>1
      <4> QED
        BY <2>2, <4>2
    <3> QED
      BY <3>1, <3>2, <3>3, <3>4
  <2> QED
    BY <2>1, <2>2 DEF NumbersDistinct
<1>15. CallbacksQueued'
  <2>1. SUFFICES ASSUME NEW u \in Users, NEW c \in callbacks'[u]
                 PROVE  \E i \in DOMAIN queue'[u] : c = <<queue'[u][i].id, queue'[u][i].n>>
    BY DEF CallbacksQueued
  <2>2. c \in callbacks[u]
    BY <1>8, <2>1
  <2>3. PICK i \in DOMAIN queue[u] : c = <<queue[u][i].id, queue[u][i].n>>
    BY <2>1, <2>2 DEF CallbacksQueued
  <2>4. CASE u = user
    <3>1. c # c0
      BY <1>8, <2>1, <2>4
    <3>2. i # 1
      BY <2>3, <2>4, <3>1 DEF c0
    <3>3. i - 1 \in DOMAIN t /\ t[i - 1] = q[i]
      BY <1>11, <2>3, <2>4, <3>2
    <3> QED
      BY <1>5, <2>3, <2>4, <3>3
  <2>5. CASE u # user
    BY <1>5, <2>1, <2>3, <2>5
  <2> QED
    BY <2>4, <2>5
<1> QED
  BY <1>6, <1>8, <1>9, <1>13, <1>14, <1>15

(* A response keeps the invariant: it is taken for the oldest write, the one *)
(* it acknowledges, and the pipeline moves on.                               *)
LEMMA ResultStep ==
  ASSUME PipelineInv, OnMutationResult
  PROVE  PipelineInv'
<1> DEFINE q == queue[user]
           t == Tail(q)
           k == Room(q) - 1
           a == Len(acks)
<1> USE PipelineAssumption
<1>1. /\ TypeOK /\ IdsFresh /\ NumbersDistinct /\ CallbacksQueued
      /\ StreamNeeded /\ OnTheWay /\ Explained
  BY DEF PipelineInv
<1>2. /\ user \in Users /\ q \in Seq(Batch) /\ Ordered(q)
      /\ Room(q) # 0
      /\ queue' = [queue EXCEPT ![user] = Tail(@)]
      /\ NotifyUser(q[1], TRUE)
      /\ settled' = [settled EXCEPT ![q[1].doc] = q[1].n]
      /\ FillWritePipeline(SubSeq(t, 1, k), t, stream, idle, wire)
  BY RemoveEffect
<1>3. /\ stream = "ready" /\ acks # <<>> /\ acks' = Tail(acks)
      /\ user' = user /\ nextId' = nextId /\ verdict' = verdict /\ docs' = docs
      /\ stray' = stray /\ tardy' = tardy /\ issued' = issued /\ faults' = faults
  BY DEF OnMutationResult, backend, bounds
<1>4. /\ Len(q) \in Nat \ {0}
      /\ q[1] \in Batch
      /\ DOMAIN q = 1 .. Len(q)
      /\ t \in Seq(Batch)
      /\ Len(t) = Len(q) - 1
      /\ DOMAIN t = 1 .. Len(q) - 1
      /\ \A i \in 1 .. Len(q) - 1 : t[i] = q[i + 1]
      /\ Ordered(t)
      /\ Room(q) \in 1 .. Len(q) /\ Room(q) <= MaxPendingWrites
      /\ k \in 0 .. Room(t)
  BY <1>2, QueueTail
<1>5. /\ queue' \in [Users -> Seq(Batch)]
      /\ callbacks' \in [Users -> SUBSET ((1 .. MaxWrites) \X (1 .. MaxWrites))]
      /\ done' \in Seq([n : 1 .. MaxWrites, ok : BOOLEAN])
      /\ IdsFresh' /\ NumbersDistinct' /\ CallbacksQueued'
  BY <1>1, <1>2, <1>3, RemoveDisk
<1>6. /\ queue'[user'] = t
      /\ \A u \in Users : u # user => queue'[u] = queue[u]
  BY <1>1, <1>2, <1>3 DEF TypeOK
<1>7. acks \in Seq(1 .. MaxWrites) /\ a \in Nat /\ wire \in Seq(Batch) /\ Len(wire) \in Nat
  BY <1>1 DEF TypeOK
<1>8. /\ acks' \in Seq(1 .. MaxWrites) /\ Len(acks') = a - 1 /\ a # 0
      /\ \A i \in 1 .. a - 1 : acks'[i] = acks[i + 1]
  BY <1>3, <1>7
<1>9. a <= Room(q) /\ \A i \in 1 .. a : acks[i] = q[i].n /\ q[i].valid
  BY <1>1 DEF OnTheWay
<1>10. ~idle
  BY <1>1, <1>2 DEF StreamNeeded
<1> HIDE DEF q, t, a
<1>11. Room(t) \in 0 .. Len(t) /\ Room(t) <= MaxPendingWrites
  BY <1>4 DEF Room
<1>12. k \in 0 .. Len(t) /\ k <= MaxPendingWrites /\ Room(t) \in k .. Len(t)
  BY <1>4, <1>11
<1>13. /\ pipeline' = Fitting(t)
       /\ wire' = wire \o SubSeq(t, k + 1, Room(t))
       /\ stream' = "ready"
       /\ idle' = (Room(t) = 0)
  <2> HIDE DEF k
  <2>1. /\ pipeline' = Fitting(t)
        /\ wire' = IF stream = "ready" THEN wire \o SubSeq(t, k + 1, Room(t)) ELSE wire
        /\ stream' = IF Room(t) # 0 /\ stream = "off" THEN "starting" ELSE stream
        /\ idle' = IF Room(t) = 0
                      THEN idle \/ stream \in {"open", "ready"}
                      ELSE idle /\ ~(stream = "ready" /\ k # Room(t))
    BY <1>2, <1>4, <1>12, FillEffect
  <2>2. idle' = (Room(t) = 0)
    BY <1>3, <1>10, <2>1
  <2> QED
    BY <1>3, <2>1, <2>2
<1>14. TypeOK'
  <2>1. pipeline' \in Seq(Batch) /\ Len(pipeline') <= MaxPendingWrites
    <3>1. Fitting(t) \in Seq(Batch) /\ Len(Fitting(t)) = Room(t)
      BY <1>4, <1>11, FrontOf DEF Fitting
    <3> QED
      BY <1>11, <1>13, <3>1
  <2>2. wire' \in Seq(Batch)
    <3> HIDE DEF k
    <3>1. SubSeq(t, k + 1, Room(t)) \in Seq(Batch)
      BY <1>4, <1>12, PartOf
    <3> QED
      BY <1>7, <1>13, <3>1, ConcatProperties
  <2>3. idle' \in BOOLEAN
    BY <1>13
  <2>4. settled' \in [Docs -> 0 .. MaxWrites]
    <3>1. q[1].doc \in Docs /\ q[1].n \in 0 .. MaxWrites
      BY <1>4 DEF Batch
    <3> QED
      BY <1>1, <1>2, <3>1 DEF TypeOK
  <2>5. stream' \in {"off", "starting", "open", "ready"}
    BY <1>13
  <2> QED
    BY <1>1, <1>3, <1>5, <1>8, <2>1, <2>2, <2>3, <2>4, <2>5 DEF TypeOK
<1>15. StreamNeeded'
  BY <1>6, <1>13 DEF StreamNeeded
<1>16. \A i \in 1 .. Room(q) - 1 : t[i] = q[i + 1]
  BY <1>4
<1>17. OnTheWay'
  <2>1. a - 1 \in Nat /\ a - 1 <= Room(t)
    BY <1>4, <1>7, <1>8, <1>9, <1>11, <1>12
  <2>2. \A i \in 1 .. a - 1 : acks'[i] = t[i].n /\ t[i].valid
    <3>1. \A i \in 1 .. a - 1 : i + 1 \in 1 .. a /\ i \in 1 .. Room(q) - 1
      BY <1>4, <1>7, <1>9
    <3> QED
      BY <1>8, <1>9, <1>16, <3>1
  <2>3. ASSUME verdict' = 0
        PROVE  /\ (a - 1) + Len(wire') = Room(t)
               /\ \A i \in 1 .. Len(wire') : wire'[i] = t[(a - 1) + i]
    <3>1. a + Len(wire) = Room(q) /\ \A i \in 1 .. Len(wire) : wire[i] = q[a + i]
      BY <1>1, <1>3, <2>3 DEF OnTheWay, q, a
    <3> DEFINE c == a - 1
    <3>2. c \in Nat /\ c + Len(wire) = k
      BY <1>4, <1>7, <2>1, <3>1
    <3>3. \A i \in 1 .. Len(wire) : c + i \in 1 .. Room(q) - 1 /\ (c + i) + 1 = a + i
      BY <1>4, <1>7, <2>1, <3>1
    <3>4. \A i \in 1 .. Len(wire) : wire[i] = t[c + i]
      BY <1>16, <3>1, <3>3
    <3> HIDE DEF c, k
    <3>5. /\ c + Len(wire \o SubSeq(t, k + 1, Room(t))) = Room(t)
          /\ \A i \in 1 .. Len(wire \o SubSeq(t, k + 1, Room(t))) :
               (wire \o SubSeq(t, k + 1, Room(t)))[i] = t[c + i]
      BY <1>4, <1>7, <3>2, <3>4, WireFill, ZenonT(60)
    <3> QED
      BY <1>13, <3>5 DEF c
  <2>4. ASSUME verdict' # 0
        PROVE  /\ a - 1 < Room(t)
               /\ verdict' = t[(a - 1) + 1].n
               /\ ~t[(a - 1) + 1].valid
    <3>1. a < Room(q) /\ verdict = q[a + 1].n /\ ~q[a + 1].valid
      BY <1>1, <1>3, <2>4 DEF OnTheWay, q, a
    <3>2. a \in 1 .. Room(q) - 1 /\ (a - 1) + 1 = a /\ a - 1 < Room(t)
      BY <1>4, <1>7, <1>8, <1>11, <1>12, <3>1
    <3> QED
      BY <1>3, <1>16, <3>1, <3>2
  <2> QED
    BY <1>6, <1>8, <1>13, <2>1, <2>2, <2>3, <2>4 DEF OnTheWay
<1>18. ASSUME NEW d, NEW i \in Nat, HeldFrom(d, i + 1)
       PROVE  \/ docs[d] = q[1].n /\ d = q[1].doc /\ i = 0
              \/ HeldIn(queue', user', docs', d, i)
  <2>1. PICK u \in Users : \E m \in DOMAIN queue[u] :
          /\ queue[u][m].doc = d /\ queue[u][m].n = docs[d] /\ queue[u][m].valid
          /\ u = user => i + 1 <= m
    BY <1>18 DEF HeldFrom, HeldIn
  <2>2. PICK j \in DOMAIN queue[u] :
          /\ queue[u][j].doc = d /\ queue[u][j].n = docs[d] /\ queue[u][j].valid
          /\ u = user => i + 1 <= j
    BY <2>1
  <2>3. CASE u # user
    BY <1>3, <1>6, <2>2, <2>3 DEF HeldFrom, HeldIn
  <2>4. CASE u = user
    <3>1. queue[u] = q
      BY <2>4 DEF q
    <3>2. /\ j \in 1 .. Len(q) /\ i + 1 <= j
          /\ q[j].doc = d /\ q[j].n = docs[d] /\ q[j].valid
      BY <1>4, <2>2, <2>4, <3>1
    <3>3. CASE j = 1
      BY <1>18, <3>2, <3>3
    <3>4. CASE j # 1
      <4>1. j - 1 \in 1 .. Len(q) - 1 /\ i <= j - 1 /\ (j - 1) + 1 = j
        BY <1>4, <1>18, <3>2, <3>4
      <4>2. j - 1 \in DOMAIN t /\ t[j - 1] = q[j]
        BY <1>4, <4>1
      <4>3. j - 1 \in DOMAIN queue'[user] /\ queue'[user][j - 1] = q[j]
        BY <1>3, <1>6, <4>2
      <4> QED
        BY <1>2, <1>3, <3>2, <4>1, <4>3 DEF HeldFrom, HeldIn
    <3> QED
      BY <3>3, <3>4
  <2> QED
    BY <2>3, <2>4
<1>19. AckedHeld'
  <2>1. ASSUME NEW i \in 1 .. a - 1
        PROVE  t[i].doc \in tardy \/ HeldIn(queue', user', docs', t[i].doc, i)
    <3>1. i + 1 \in 1 .. a /\ i \in 1 .. Room(q) - 1 /\ i \in Nat /\ i # 0
      BY <1>4, <1>7, <1>9, <2>1
    <3>2. q[i + 1].doc \in tardy \/ HeldFrom(q[i + 1].doc, i + 1)
      BY <1>1, <3>1 DEF Explained, AckedHeld, q, a
    <3>3. t[i] = q[i + 1]
      BY <1>16, <3>1
    <3> QED
      BY <1>18, <3>1, <3>2, <3>3
  <2> QED
    BY <1>3, <1>6, <1>8, <2>1, ZenonT(60) DEF AckedHeld, HeldFrom
<1>20. ValidHeld'
  <2>1. SUFFICES ASSUME NEW d \in Docs, docs[d] # settled'[d], d \notin tardy
                 PROVE  HeldIn(queue', user', docs', d, 0)
    BY <1>3 DEF ValidHeld, HeldFrom
  <2>2. settled'[d] = IF d = q[1].doc THEN q[1].n ELSE settled[d]
    BY <1>1, <1>2 DEF TypeOK
  <2>3. HeldFrom(d, 1)
    <3>1. CASE d = q[1].doc
      <4>1. 1 \in 1 .. a
        BY <1>7, <1>8
      <4> QED
        BY <1>1, <2>1, <3>1, <4>1 DEF Explained, AckedHeld, q, a
    <3>2. CASE d # q[1].doc
      <4>1. HeldFrom(d, 0)
        BY <1>1, <2>1, <2>2, <3>2 DEF Explained, ValidHeld
      <4>2. \A u \in Users : \A m \in DOMAIN queue[u] : 1 <= m
        BY <1>1, QueueFacts
      <4> QED
        BY <4>1, <4>2 DEF HeldFrom, HeldIn
    <3> QED
      BY <3>1, <3>2
  <2>4. 0 \in Nat /\ 0 + 1 = 1
    OBVIOUS
  <2> QED
    BY <1>18, <2>1, <2>2, <2>3, <2>4
<1> QED
  BY <1>5, <1>14, <1>15, <1>17, <1>19, <1>20 DEF PipelineInv, Explained

(* A refusal keeps the invariant: the write it is taken for is the one that *)
(* was refused, so that no document holds it.                               *)
LEMMA RejectStep ==
  ASSUME PipelineInv, OnRejected
  PROVE  PipelineInv'
<1> DEFINE q == queue[user]
           t == Tail(q)
           k == Room(q) - 1
<1> USE PipelineAssumption
<1>1. /\ TypeOK /\ IdsFresh /\ NumbersDistinct /\ CallbacksQueued
      /\ StreamNeeded /\ OnTheWay /\ Explained
  BY DEF PipelineInv
<1>2. /\ user \in Users /\ q \in Seq(Batch) /\ Ordered(q)
      /\ Room(q) # 0
      /\ queue' = [queue EXCEPT ![user] = Tail(@)]
      /\ NotifyUser(q[1], FALSE)
      /\ FillWritePipeline(SubSeq(t, 1, k), t, "off", FALSE, <<>>)
  BY RemoveEffect
<1>3. /\ acks' = <<>> /\ verdict' = 0 /\ stray' \in Seq(Seq(Batch))
      /\ user' = user /\ nextId' = nextId /\ docs' = docs /\ settled' = settled
      /\ tardy' = tardy /\ issued' = issued /\ faults' = faults
  BY <1>1, DropTypes DEF OnRejected, backend, bounds
<1>4. /\ Len(q) \in Nat \ {0}
      /\ DOMAIN q = 1 .. Len(q)
      /\ t \in Seq(Batch)
      /\ Len(t) = Len(q) - 1
      /\ DOMAIN t = 1 .. Len(q) - 1
      /\ \A i \in 1 .. Len(q) - 1 : t[i] = q[i + 1]
      /\ Ordered(t)
      /\ Room(q) \in 1 .. Len(q) /\ Room(q) <= MaxPendingWrites
      /\ k \in 0 .. Room(t)
  BY <1>2, QueueTail
<1>5. /\ queue' \in [Users -> Seq(Batch)]
      /\ callbacks' \in [Users -> SUBSET ((1 .. MaxWrites) \X (1 .. MaxWrites))]
      /\ done' \in Seq([n : 1 .. MaxWrites, ok : BOOLEAN])
      /\ IdsFresh' /\ NumbersDistinct' /\ CallbacksQueued'
  BY <1>1, <1>2, <1>3, RemoveDisk
<1>6. /\ queue'[user'] = t
      /\ \A u \in Users : u # user => queue'[u] = queue[u]
  BY <1>1, <1>2, <1>3 DEF TypeOK
<1>7. ~q[1].valid
  <2>1. Len(acks) = 0 /\ 0 + 1 = 1 /\ verdict # 0
    BY DEF OnRejected
  <2> QED
    BY <1>1, <2>1 DEF OnTheWay
<1> HIDE DEF q, t
<1>8. Room(t) \in 0 .. Len(t) /\ Room(t) <= MaxPendingWrites
  BY <1>4 DEF Room
<1>9. k \in 0 .. Len(t) /\ k <= MaxPendingWrites
  BY <1>4, <1>8
<1>10. /\ pipeline' = Fitting(t)
       /\ wire' = <<>>
       /\ stream' = IF Room(t) # 0 THEN "starting" ELSE "off"
       /\ idle' = FALSE
  <2> HIDE DEF k
  <2>1. /\ pipeline' = Fitting(t)
        /\ wire' = IF "off" = "ready" THEN <<>> \o SubSeq(t, k + 1, Room(t)) ELSE <<>>
        /\ stream' = IF Room(t) # 0 /\ "off" = "off" THEN "starting" ELSE "off"
        /\ idle' = IF Room(t) = 0
                      THEN FALSE \/ "off" \in {"open", "ready"}
                      ELSE FALSE /\ ~("off" = "ready" /\ k # Room(t))
    BY <1>2, <1>4, <1>9, FillEffect
  <2>2. idle' = FALSE
    BY <2>1
  <2> QED
    BY <2>1, <2>2
<1>11. <<>> \in Seq(Batch) /\ <<>> \in Seq(1 .. MaxWrites) /\ Len(<<>>) = 0
  OBVIOUS
<1>12. TypeOK'
  <2>1. pipeline' \in Seq(Batch) /\ Len(pipeline') <= MaxPendingWrites
    <3>1. Fitting(t) \in Seq(Batch) /\ Len(Fitting(t)) = Room(t)
      BY <1>4, <1>8, FrontOf DEF Fitting
    <3> QED
      BY <1>8, <1>10, <3>1
  <2>2. idle' \in BOOLEAN
    BY <1>10
  <2>3. stream' \in {"off", "starting", "open", "ready"}
    BY <1>10
  <2>4. verdict' \in 0 .. MaxWrites
    BY <1>3
  <2> QED
    BY <1>1, <1>3, <1>5, <1>10, <1>11, <2>1, <2>2, <2>3, <2>4 DEF TypeOK
<1>13. StreamNeeded'
  BY <1>6, <1>10 DEF StreamNeeded
<1>14. OnTheWay'
  BY <1>3, <1>4, <1>6, <1>8, <1>10, <1>11 DEF OnTheWay
<1>15. AckedHeld'
  BY <1>3, <1>11 DEF AckedHeld, HeldFrom
<1>16. ValidHeld'
  <2>1. SUFFICES ASSUME NEW d \in Docs, HeldFrom(d, 0) PROVE HeldIn(queue', user', docs', d, 0)
    BY <1>1, <1>3 DEF Explained, ValidHeld, HeldFrom
  <2>2. PICK u \in Users : \E m \in DOMAIN queue[u] :
          queue[u][m].doc = d /\ queue[u][m].n = docs[d] /\ queue[u][m].valid
    BY <2>1 DEF HeldFrom, HeldIn
  <2>3. PICK m \in DOMAIN queue[u] :
          queue[u][m].doc = d /\ queue[u][m].n = docs[d] /\ queue[u][m].valid
    BY <2>2
  <2>4. CASE u # user
    BY <1>3, <1>6, <2>3, <2>4 DEF HeldFrom, HeldIn
  <2>5. CASE u = user
    <3>1. m # 1 /\ m \in DOMAIN q
      BY <1>7, <2>3, <2>5 DEF q
    <3>2. m - 1 \in DOMAIN t /\ t[m - 1] = q[m] /\ 0 <= m - 1
      BY <1>4, <3>1
    <3>3. m - 1 \in DOMAIN queue'[user] /\ queue'[user][m - 1] = queue[user][m]
      BY <1>3, <1>6, <3>2 DEF q
    <3> QED
      BY <1>2, <1>3, <2>3, <2>5, <3>2, <3>3 DEF HeldFrom, HeldIn
  <2> QED
    BY <2>4, <2>5
<1> QED
  BY <1>5, <1>12, <1>13, <1>14, <1>15, <1>16 DEF PipelineInv, Explained

(* The invariant is inductive. *)
LEMMA InvStep == PipelineInv /\ [Next]_vars => PipelineInv'
<1> SUFFICES ASSUME PipelineInv, [Next]_vars PROVE PipelineInv'
  OBVIOUS
<1>1. CASE UNCHANGED vars
  <2>1. UNCHANGED <<disk, callbacks, user, pipeline, stream, idle, wire, stray, acks,
                    verdict, docs, tardy, settled, done, issued, faults>>
    BY <1>1 DEF vars, network, history, backend, bounds
  <2>2. UNCHANGED <<queue, nextId>>
    BY <2>1 DEF disk
  <2>3. Explained'
    BY <2>1, <2>2, HeldKept DEF PipelineInv, Explained, AckedHeld, ValidHeld, HeldFrom
  <2> QED
    BY <2>1, <2>2, <2>3 DEF PipelineInv, TypeOK, IdsFresh, NumbersDistinct,
       CallbacksQueued, StreamNeeded, OnTheWay
<1>2. CASE Next
  BY <1>2, WriteStep, StreamStep, ServeStep, StrayStep, ResultStep, RejectStep, RestartStep
     DEF Next
<1> QED
  BY <1>1, <1>2

(* The invariant holds in every state of every behaviour. *)
LEMMA InvAlways == Spec => []PipelineInv
BY InitInv, InvStep, PTL DEF Spec

(* The numbers of a sequence of batches, element by element. *)
LEMMA NumbersOf ==
  ASSUME NEW s \in Seq(Batch)
  PROVE  /\ Numbers(s) \in Seq(1 .. MaxWrites)
         /\ Len(Numbers(s)) = Len(s)
         /\ \A i \in 1 .. Len(s) : Numbers(s)[i] = s[i].n
<1>1. Len(s) \in Nat /\ DOMAIN s = 1 .. Len(s) /\ \A i \in 1 .. Len(s) : s[i] \in Batch
  OBVIOUS
<1>2. \A i \in 1 .. Len(s) : s[i].n \in 1 .. MaxWrites
  BY <1>1 DEF Batch
<1>3. Numbers(s) = [i \in 1 .. Len(s) |-> s[i].n]
  BY <1>1 DEF Numbers
<1>4. Numbers(s) \in [1 .. Len(s) -> 1 .. MaxWrites]
  BY <1>2, <1>3
<1>5. Numbers(s) \in Seq(1 .. MaxWrites)
  <2>1. Numbers(s) \in UNION {[1 .. n -> 1 .. MaxWrites] : n \in Nat}
    BY <1>1, <1>4, Zenon
  <2> QED
    BY <2>1, SeqDef, Zenon
<1>6. DOMAIN Numbers(s) = 1 .. Len(s)
  BY <1>3
<1>7. Len(Numbers(s)) = Len(s)
  BY <1>1, <1>5, <1>6, LenProperties
<1> QED
  BY <1>3, <1>5, <1>7

(* The responses under way are those of the front of the pipeline. *)
LEMMA InvResponses == PipelineInv => ResponsesMatch
<1> SUFFICES ASSUME PipelineInv PROVE ResponsesMatch
  OBVIOUS
<1> DEFINE q == queue[user]
           p == Numbers(pipeline)
<1>1. TypeOK /\ IdsFresh /\ StreamNeeded /\ OnTheWay
  BY DEF PipelineInv
<1>2. /\ user \in Users /\ wire \in Seq(Batch) /\ acks \in Seq(1 .. MaxWrites)
      /\ pipeline \in Seq(Batch) /\ verdict \in 0 .. MaxWrites
  BY <1>1 DEF TypeOK
<1>3. /\ Len(q) \in Nat /\ Room(q) \in 0 .. Len(q)
      /\ Len(Fitting(q)) = Room(q)
      /\ \A i \in 1 .. Room(q) : Fitting(q)[i] = q[i]
  BY <1>1, <1>2, QueueFacts
<1>4. Len(pipeline) = Room(q) /\ \A i \in 1 .. Room(q) : pipeline[i] = q[i]
  BY <1>1, <1>3 DEF StreamNeeded
<1>5. /\ p \in Seq(1 .. MaxWrites)
      /\ Len(p) = Room(q)
      /\ \A i \in 1 .. Room(q) : p[i] = q[i].n
  <2>1. /\ p \in Seq(1 .. MaxWrites)
        /\ Len(p) = Len(pipeline)
        /\ \A i \in 1 .. Len(pipeline) : p[i] = pipeline[i].n
    BY <1>2, NumbersOf
  <2> HIDE DEF p
  <2> QED
    BY <1>4, <2>1
<1>6. /\ Numbers(wire) \in Seq(1 .. MaxWrites)
      /\ Len(Numbers(wire)) = Len(wire)
      /\ \A i \in 1 .. Len(wire) : Numbers(wire)[i] = wire[i].n
  BY <1>2, NumbersOf
<1>7. Len(acks) \in Nat /\ Len(wire) \in Nat
  BY <1>2
<1>8. /\ Len(acks) <= Room(q)
      /\ \A i \in 1 .. Len(acks) : acks[i] = q[i].n
  BY <1>1 DEF OnTheWay
<1>9. CASE stream = "ready" /\ verdict = 0
  <2> DEFINE x == acks \o Numbers(wire)
  <2>1. /\ Len(acks) + Len(wire) = Room(q)
        /\ \A i \in 1 .. Len(wire) : wire[i] = q[Len(acks) + i]
    BY <1>1, <1>9 DEF OnTheWay
  <2>2. /\ x \in Seq(1 .. MaxWrites)
        /\ Len(x) = Room(q)
        /\ \A i \in 1 .. Room(q) :
             x[i] = IF i <= Len(acks) THEN acks[i] ELSE Numbers(wire)[i - Len(acks)]
    <3> DEFINE y == Numbers(wire)
    <3>1. y \in Seq(1 .. MaxWrites) /\ Len(acks) + Len(y) = Room(q)
      BY <1>6, <2>1
    <3> HIDE DEF y
    <3>2. /\ acks \o y \in Seq(1 .. MaxWrites)
          /\ Len(acks \o y) = Len(acks) + Len(y)
          /\ \A i \in 1 .. Len(acks) + Len(y) :
               (acks \o y)[i] = IF i <= Len(acks) THEN acks[i] ELSE y[i - Len(acks)]
      BY <1>2, <3>1, ConcatProperties
    <3> QED
      BY <3>1, <3>2 DEF y
  <2> HIDE DEF q, p, x
  <2>3. \A i \in 1 .. Room(q) : x[i] = p[i]
    <3>1. SUFFICES ASSUME NEW i \in 1 .. Room(q) PROVE x[i] = q[i].n
      BY <1>5
    <3>2. CASE i <= Len(acks)
      BY <1>7, <1>8, <2>2, <3>1, <3>2
    <3>3. CASE ~(i <= Len(acks))
      <4>1. i - Len(acks) \in 1 .. Len(wire) /\ Len(acks) + (i - Len(acks)) = i
        BY <1>3, <1>7, <2>1, <3>1, <3>3
      <4> QED
        BY <1>6, <2>1, <2>2, <3>1, <3>3, <4>1
    <3> QED
      BY <3>2, <3>3
  <2>4. x = p
    BY <1>5, <2>2, <2>3, SameSequence
  <2> QED
    BY <1>9, <2>4 DEF ResponsesMatch, x, p
<1>10. CASE stream = "ready" /\ verdict # 0
  <2> DEFINE x == Append(acks, verdict)
             m == Len(acks) + 1
  <2>1. Len(acks) < Room(q) /\ verdict = q[m].n
    BY <1>1, <1>10 DEF OnTheWay
  <2>2. verdict \in 1 .. MaxWrites
    BY <1>2, <1>10
  <2>3. /\ x \in Seq(1 .. MaxWrites)
        /\ Len(x) = m
        /\ \A i \in 1 .. Len(acks) : x[i] = acks[i]
        /\ x[m] = verdict
    BY <1>2, <2>2, AppendProperties
  <2> HIDE DEF q, p, x
  <2>4. m \in 0 .. Room(q) /\ m \in 0 .. Len(p) /\ m \in 1 .. m
    BY <1>3, <1>5, <1>7, <2>1
  <2>5. \A i \in 1 .. m : x[i] = p[i]
    <3>1. SUFFICES ASSUME NEW i \in 1 .. m PROVE x[i] = q[i].n
      BY <1>3, <1>5, <2>4
    <3>2. i \in 1 .. Len(acks) \/ i = m
      BY <1>7, <3>1
    <3> QED
      BY <1>8, <2>1, <2>3, <3>2
  <2> HIDE DEF m
  <2>6. /\ SubSeq(p, 1, m) \in Seq(1 .. MaxWrites)
        /\ Len(SubSeq(p, 1, m)) = m
        /\ \A i \in 1 .. m : SubSeq(p, 1, m)[i] = p[i]
    BY <1>5, <2>4, FrontOf
  <2>7. SubSeq(p, 1, m) = x
    <3>1. \A i \in 1 .. m : SubSeq(p, 1, m)[i] = x[i]
      BY <2>5, <2>6
    <3> QED
      BY <2>3, <2>6, <3>1, SameSequence
  <2>8. SubSeq(x, 1, m) = x
    BY <2>3, SubSeqFull
  <2>9. IsPrefix(x, p)
    BY <1>5, <2>3, <2>4, <2>7, <2>8 DEF IsPrefix
  <2> QED
    BY <1>10, <2>9 DEF ResponsesMatch, x, p
<1>11. CASE stream # "ready"
  <2>1. acks = <<>> /\ wire = <<>> /\ verdict = 0
    BY <1>1, <1>11 DEF OnTheWay
  <2>2. Numbers(wire) = <<>>
    BY <1>6, <2>1
  <2>3. acks \o Numbers(wire) = <<>>
    BY <2>1, <2>2
  <2> QED
    BY <1>11, <2>1, <2>3 DEF ResponsesMatch
<1> QED
  BY <1>9, <1>10, <1>11

(* Every variable of the pipeline stays in its type, and the pipeline within *)
(* kMaxPendingWrites, whatever happens to the stream and to the accounts.    *)
THEOREM PipelineTypeCorrect == Spec => []TypeOK
<1>1. PipelineInv => TypeOK
  BY DEF PipelineInv
<1> QED
  BY <1>1, InvAlways, PTL

(* FillWritePipeline always leaves the front of the queue of the signed-in   *)
(* account in the pipeline, with a stream that will send it.                 *)
THEOREM PipelineFrontCorrect == Spec => []PipelineIsFront
<1>1. PipelineInv => PipelineIsFront
  <2> SUFFICES ASSUME PipelineInv PROVE PipelineIsFront
    OBVIOUS
  <2> DEFINE q == queue[user]
  <2>1. TypeOK /\ IdsFresh /\ StreamNeeded
    BY DEF PipelineInv
  <2>2. user \in Users
    BY <2>1 DEF TypeOK
  <2>3. /\ Len(q) \in Nat
        /\ Room(q) \in 0 .. Len(q)
        /\ Fitting(q) \in Seq(Batch)
        /\ Len(Fitting(q)) = Room(q)
    BY <2>1, <2>2, QueueFacts
  <2>4. Min({MaxPendingWrites, Len(q)}) = Room(q)
    BY <2>3, MinOfTwo, PipelineAssumption DEF Room
  <2>5. pipeline # <<>> => Room(q) # 0
    BY <2>1, <2>3 DEF StreamNeeded
  <2> QED
    BY <2>1, <2>4, <2>5 DEF StreamNeeded, PipelineIsFront, Fitting, Started
<1> QED
  BY <1>1, InvAlways, PTL

(* OnWriteStreamMutationResult takes every response for the write that it    *)
(* answers, although the response does not name it.                          *)
THEOREM ResponsesCorrect == Spec => []ResponsesMatch
BY InvResponses, InvAlways, PTL

(* NotifyUser finds the completion of the write and no other one, although   *)
(* batch ids are used again after a change of account or a restart.          *)
THEOREM CallbacksCorrect == Spec => []CallbacksMatch
<1>1. PipelineInv => CallbacksMatch
  <2> SUFFICES ASSUME PipelineInv PROVE CallbacksMatch
    OBVIOUS
  <2>1. TypeOK /\ IdsFresh /\ CallbacksQueued
    BY DEF PipelineInv
  <2>2. ASSUME NEW u \in Users, NEW v \in Users, NEW i \in DOMAIN queue[u],
               NEW j \in DOMAIN queue[v], queue[u][i].id = queue[v][j].id
        PROVE  u = v /\ i = j
    <3>1. u = v
      BY <2>1, <2>2 DEF IdsFresh
    <3>2. /\ Ordered(queue[u]) /\ Len(queue[u]) \in Nat
          /\ DOMAIN queue[u] = 1 .. Len(queue[u])
          /\ \A k \in 1 .. Len(queue[u]) : queue[u][k] \in Batch
      BY <2>1, QueueFacts
    <3>3. queue[u][i].id \in Nat /\ queue[u][j].id \in Nat /\ i \in Nat /\ j \in Nat
      BY <2>2, <3>1, <3>2 DEF Batch
    <3>4. ~(i < j) /\ ~(j < i)
      BY <2>2, <3>1, <3>2, <3>3 DEF Ordered
    <3> QED
      BY <3>1, <3>3, <3>4
  <2> QED
    BY <2>1, <2>2 DEF CallbacksQueued, CallbacksMatch
<1> QED
  BY <1>1, InvAlways, PTL

(* What the backend holds is what the client was told of or will be sent     *)
(* again: a write that was applied twice is not the last word, unless the    *)
(* backend read it from an old stream after having answered it on a later    *)
(* one.                                                                      *)
THEOREM DocsCorrect == Spec => []DocsExplained
<1>1. PipelineInv => DocsExplained
  BY DEF PipelineInv, Explained, ValidHeld, HeldFrom, HeldIn, DocsExplained
<1> QED
  BY <1>1, InvAlways, PTL

----------------------------------------------------------------------------
(* The refinement: what the application sees of a queue of batches.        *)
PlainSeq(s) == [i \in DOMAIN s |-> Plain(s[i])]

PlainQueue == [u \in Users |-> PlainSeq(queue[u])]

Waiting == UNION {{c[2] : c \in callbacks[u]} : u \in Users}

(* A queue without its ids is a sequence of the same length. *)
LEMMA PlainOf ==
  ASSUME NEW s \in Seq(Batch)
  PROVE  /\ PlainSeq(s) \in Seq(Abstract!Entry)
         /\ Len(PlainSeq(s)) = Len(s)
         /\ \A i \in 1 .. Len(s) : PlainSeq(s)[i] = Plain(s[i])
<1>1. Len(s) \in Nat /\ DOMAIN s = 1 .. Len(s) /\ \A i \in 1 .. Len(s) : s[i] \in Batch
  OBVIOUS
<1>2. \A i \in 1 .. Len(s) : Plain(s[i]) \in Abstract!Entry
  BY <1>1 DEF Batch, Plain, Abstract!Entry
<1>3. PlainSeq(s) = [i \in 1 .. Len(s) |-> Plain(s[i])]
  BY <1>1 DEF PlainSeq
<1>4. PlainSeq(s) \in [1 .. Len(s) -> Abstract!Entry]
  BY <1>2, <1>3
<1>5. PlainSeq(s) \in Seq(Abstract!Entry)
  <2>1. PlainSeq(s) \in UNION {[1 .. n -> Abstract!Entry] : n \in Nat}
    BY <1>1, <1>4, Zenon
  <2> QED
    BY <2>1, SeqDef, Zenon
<1>6. DOMAIN PlainSeq(s) = 1 .. Len(s)
  BY <1>3
<1>7. Len(PlainSeq(s)) = Len(s)
  BY <1>1, <1>5, <1>6, LenProperties
<1> QED
  BY <1>3, <1>5, <1>7

(* Queueing a batch queues the write it carries. *)
LEMMA PlainAppend ==
  ASSUME NEW s \in Seq(Batch), NEW b \in Batch
  PROVE  PlainSeq(Append(s, b)) = Append(PlainSeq(s), Plain(b))
<1> DEFINE r == Append(s, b)
           x == PlainSeq(s)
           y == PlainSeq(r)
<1>1. /\ r \in Seq(Batch) /\ Len(s) \in Nat
      /\ Len(r) = Len(s) + 1
      /\ \A i \in 1 .. Len(s) : r[i] = s[i]
      /\ r[Len(s) + 1] = b
  OBVIOUS
<1> HIDE DEF r
<1>2. /\ x \in Seq(Abstract!Entry) /\ Len(x) = Len(s)
      /\ \A i \in 1 .. Len(s) : x[i] = Plain(s[i])
  BY PlainOf
<1>3. /\ y \in Seq(Abstract!Entry) /\ Len(y) = Len(r)
      /\ \A i \in 1 .. Len(r) : y[i] = Plain(r[i])
  BY <1>1, PlainOf
<1>4. Plain(b) \in Abstract!Entry
  BY DEF Batch, Plain, Abstract!Entry
<1> HIDE DEF x, y
<1> DEFINE z == Append(x, Plain(b))
<1>5. /\ z \in Seq(Abstract!Entry) /\ Len(z) = Len(s) + 1
      /\ \A i \in 1 .. Len(s) : z[i] = x[i]
      /\ z[Len(s) + 1] = Plain(b)
  BY <1>2, <1>4, AppendProperties
<1> HIDE DEF z
<1>6. \A i \in 1 .. Len(s) + 1 : y[i] = z[i]
  <2>1. SUFFICES ASSUME NEW i \in 1 .. Len(s) + 1 PROVE y[i] = z[i]
    OBVIOUS
  <2>2. y[i] = Plain(r[i])
    BY <1>1, <1>3, <2>1
  <2>3. CASE i \in 1 .. Len(s)
    BY <1>1, <1>2, <1>5, <2>2, <2>3
  <2>4. CASE i = Len(s) + 1
    BY <1>1, <1>5, <2>2, <2>4
  <2> QED
    BY <1>1, <2>1, <2>3, <2>4
<1>7. y = z
  BY <1>1, <1>3, <1>5, <1>6, SameSequence
<1> QED
  BY <1>7 DEF x, y, z, r

(* Taking the oldest batch off takes the write it carries off. *)
LEMMA PlainTail ==
  ASSUME NEW s \in Seq(Batch), s # <<>>
  PROVE  /\ PlainSeq(s) # <<>>
         /\ Head(PlainSeq(s)) = Plain(s[1])
         /\ PlainSeq(Tail(s)) = Tail(PlainSeq(s))
<1> DEFINE t == Tail(s)
           x == PlainSeq(s)
           y == PlainSeq(t)
           z == Tail(x)
<1>1. /\ t \in Seq(Batch) /\ Len(s) \in Nat \ {0}
      /\ Len(t) = Len(s) - 1
      /\ \A i \in 1 .. Len(s) - 1 : t[i] = s[i + 1]
  OBVIOUS
<1> HIDE DEF t
<1>2. /\ x \in Seq(Abstract!Entry) /\ Len(x) = Len(s)
      /\ \A i \in 1 .. Len(s) : x[i] = Plain(s[i])
  BY PlainOf
<1>3. /\ y \in Seq(Abstract!Entry) /\ Len(y) = Len(t)
      /\ \A i \in 1 .. Len(t) : y[i] = Plain(t[i])
  BY <1>1, PlainOf
<1> HIDE DEF x, y
<1>4. x # <<>> /\ Head(x) = x[1] /\ 1 \in 1 .. Len(s)
  BY <1>1, <1>2
<1>5. /\ z \in Seq(Abstract!Entry) /\ Len(z) = Len(s) - 1
      /\ \A i \in 1 .. Len(s) - 1 : z[i] = x[i + 1]
  BY <1>2, <1>4, HeadTailProperties
<1> HIDE DEF z
<1>6. \A i \in 1 .. Len(s) - 1 : y[i] = z[i]
  <2>1. \A i \in 1 .. Len(s) - 1 : i + 1 \in 1 .. Len(s)
    BY <1>1
  <2> QED
    BY <1>1, <1>2, <1>3, <1>5, <2>1
<1>7. y = z
  BY <1>1, <1>3, <1>5, <1>6, SameSequence
<1> QED
  BY <1>2, <1>4, <1>7 DEF x, y, z, t

(* The initial state is one of the abstract queue. *)
LEMMA RefineInit == Init => Abstract!Init
<1> SUFFICES ASSUME Init PROVE Abstract!Init
  OBVIOUS
<1>1. PlainQueue = [u \in Users |-> <<>>]
  <2>1. \A u \in Users : PlainSeq(queue[u]) = <<>>
    <3>1. <<>> \in Seq(Batch) /\ Len(<<>>) = 0
      OBVIOUS
    <3>2. PlainSeq(<<>>) \in Seq(Abstract!Entry) /\ Len(PlainSeq(<<>>)) = 0
      BY <3>1, PlainOf
    <3>3. PlainSeq(<<>>) = <<>>
      BY <3>2
    <3> QED
      BY <3>3 DEF Init
  <2> QED
    BY <2>1 DEF PlainQueue
<1>2. Waiting = {}
  BY DEF Init, Waiting
<1> QED
  BY <1>1, <1>2 DEF Init, Abstract!Init, PlainQueue, PlainSeq, Waiting

(* A write of the client is a write of the abstract queue. *)
LEMMA RefineWrite ==
  ASSUME PipelineInv, NEW d \in Docs, NEW valid \in BOOLEAN, WriteMutations(d, valid)
  PROVE  Abstract!Issue(user, d, valid)
<1> DEFINE b == [id |-> nextId, n |-> issued + 1, doc |-> d, valid |-> valid]
           q == queue[user]
           e == [n |-> issued + 1, doc |-> d, valid |-> valid]
<1>1. TypeOK /\ IdsFresh
  BY DEF PipelineInv
<1>2. user \in Users /\ q \in Seq(Batch) /\ queue \in [Users -> Seq(Batch)]
  BY <1>1 DEF TypeOK
<1>3. /\ b \in Batch
      /\ queue' = [queue EXCEPT ![user] = Append(q, b)]
      /\ callbacks' = [callbacks EXCEPT ![user] = @ \cup {<<b.id, b.n>>}]
  BY WriteEffect
<1>4. Plain(b) = e /\ b.n = issued + 1
  BY DEF Plain
<1>5. PlainQueue' = [PlainQueue EXCEPT ![user] = Append(@, e)]
  <2> HIDE DEF b, e
  <2>1. PlainSeq(Append(q, b)) = Append(PlainSeq(q), e)
    BY <1>2, <1>3, <1>4, PlainAppend
  <2>2. \A u \in Users : queue'[u] = IF u = user THEN Append(q, b) ELSE queue[u]
    BY <1>2, <1>3
  <2>3. PlainQueue' = [u \in Users |-> PlainSeq(queue'[u])]
    BY DEF PlainQueue, PlainSeq
  <2>4. \A u \in Users : PlainSeq(queue'[u]) = IF u = user THEN Append(PlainSeq(q), e) ELSE PlainSeq(queue[u])
    BY <2>1, <2>2
  <2> HIDE DEF q
  <2>5. PlainQueue[user] = PlainSeq(q)
    BY <1>2 DEF PlainQueue, q
  <2> QED
    BY <1>2, <2>3, <2>4, <2>5 DEF PlainQueue
<1>6. Waiting' = Waiting \cup {issued + 1}
  <2> HIDE DEF b
  <2>1. callbacks \in [Users -> SUBSET ((1 .. MaxWrites) \X (1 .. MaxWrites))]
    BY <1>1 DEF TypeOK
  <2>2. /\ callbacks'[user] = callbacks[user] \cup {<<b.id, b.n>>}
        /\ \A u \in Users : u # user => callbacks'[u] = callbacks[u]
    BY <1>2, <1>3, <2>1
  <2>3. <<b.id, b.n>>[2] = issued + 1
    BY <1>4
  <2>4. ASSUME NEW x
        PROVE  x \in Waiting' <=> x \in Waiting \/ x = issued + 1
    <3>1. x \in Waiting' <=> \E u \in Users : \E c \in callbacks'[u] : x = c[2]
      BY DEF Waiting
    <3>2. x \in Waiting <=> \E u \in Users : \E c \in callbacks[u] : x = c[2]
      BY DEF Waiting
    <3> QED
      BY <1>2, <2>2, <2>3, <3>1, <3>2
  <2> QED
    BY <2>4
<1>7. issued < MaxWrites /\ issued' = issued + 1 /\ settled' = settled /\ done' = done
  BY DEF WriteMutations, history
<1> QED
  BY <1>5, <1>6, <1>7 DEF Abstract!Issue, PlainQueue, PlainSeq, Waiting

(* Taking a response or a refusal settles the oldest write of the account. *)
LEMMA RefineSettle ==
  ASSUME PipelineInv, OnMutationResult \/ OnRejected
  PROVE  \E u \in Users : Abstract!Settle(u)
<1> DEFINE q == queue[user]
           c0 == <<q[1].id, q[1].n>>
           w == Plain(q[1])
<1>1. TypeOK /\ IdsFresh /\ NumbersDistinct /\ CallbacksQueued /\ OnTheWay
  BY DEF PipelineInv
<1>2. /\ user \in Users /\ q \in Seq(Batch) /\ Ordered(q) /\ Room(q) # 0
      /\ queue' = [queue EXCEPT ![user] = Tail(@)]
      /\ OnMutationResult => NotifyUser(q[1], TRUE)
      /\ OnMutationResult => settled' = [settled EXCEPT ![q[1].doc] = q[1].n]
      /\ OnRejected => NotifyUser(q[1], FALSE)
  BY RemoveEffect
<1>3. /\ Len(q) \in Nat \ {0} /\ q # <<>> /\ q[1] \in Batch
      /\ DOMAIN q = 1 .. Len(q) /\ Room(q) \in 1 .. Len(q)
  BY <1>2, QueueTail
<1>4. q[1].valid \in BOOLEAN /\ w.n = q[1].n /\ w.doc = q[1].doc /\ w.valid = q[1].valid
  BY <1>3 DEF Batch, Plain
<1>5. OnMutationResult => q[1].valid
  <2>1. SUFFICES ASSUME OnMutationResult PROVE q[1].valid
    OBVIOUS
  <2>2. acks \in Seq(1 .. MaxWrites) /\ acks # <<>>
    BY <1>1, <2>1 DEF TypeOK, OnMutationResult
  <2>3. 1 \in 1 .. Len(acks)
    BY <2>2
  <2> QED
    BY <1>1, <2>3 DEF OnTheWay
<1>6. OnRejected => ~q[1].valid
  <2>1. SUFFICES ASSUME OnRejected PROVE ~q[1].valid
    OBVIOUS
  <2>2. Len(acks) = 0 /\ 0 + 1 = 1 /\ verdict # 0
    BY <2>1 DEF OnRejected
  <2> QED
    BY <1>1, <2>2 DEF OnTheWay
<1>7. NotifyUser(q[1], q[1].valid)
  <2>1. CASE OnMutationResult
    <3>1. q[1].valid = TRUE
      BY <1>4, <1>5, <2>1
    <3> QED
      BY <1>2, <2>1, <3>1
  <2>2. CASE OnRejected
    <3>1. q[1].valid = FALSE
      BY <1>4, <1>6, <2>2
    <3> QED
      BY <1>2, <2>2, <3>1
  <2> QED
    BY <2>1, <2>2
<1>8. settled' = IF w.valid THEN [settled EXCEPT ![w.doc] = w.n] ELSE settled
  <2>1. CASE OnMutationResult
    BY <1>2, <1>4, <1>5, <2>1
  <2>2. CASE OnRejected
    BY <1>4, <1>6, <2>2 DEF OnRejected
  <2> QED
    BY <2>1, <2>2
<1>9. issued' = issued
  BY DEF OnMutationResult, OnRejected, bounds
<1>10. /\ callbacks' = [callbacks EXCEPT ![user] = @ \ {c0}]
       /\ done' = IF c0 \in callbacks[user]
                    THEN Append(done, [n |-> q[1].n, ok |-> q[1].valid]) ELSE done
  BY <1>1, <1>2, <1>4, <1>7, NotifyEffect
<1>11. callbacks \in [Users -> SUBSET ((1 .. MaxWrites) \X (1 .. MaxWrites))]
  BY <1>1 DEF TypeOK
<1>12. /\ callbacks'[user] = callbacks[user] \ {c0}
       /\ \A u \in Users : u # user => callbacks'[u] = callbacks[u]
  BY <1>2, <1>10, <1>11
<1>13. c0[2] = q[1].n
  OBVIOUS
<1>14. ASSUME NEW u \in Users, NEW c \in callbacks[u], c[2] = q[1].n
       PROVE  u = user /\ c = c0
  <2>1. PICK i \in DOMAIN queue[u] : c = <<queue[u][i].id, queue[u][i].n>>
    BY <1>1, <1>14 DEF CallbacksQueued
  <2>2. queue[u][i].n = queue[user][1].n
    BY <1>14, <2>1
  <2>3. 1 \in DOMAIN queue[user]
    BY <1>3
  <2>4. u = user /\ i = 1
    BY <1>1, <1>2, <2>1, <2>2, <2>3 DEF NumbersDistinct
  <2> QED
    BY <2>1, <2>4
<1> HIDE DEF c0
<1>15. q[1].n \in Waiting <=> c0 \in callbacks[user]
  <2>1. q[1].n \in Waiting <=> \E u \in Users : \E c \in callbacks[u] : q[1].n = c[2]
    BY DEF Waiting
  <2> HIDE DEF q
  <2> QED
    BY <1>2, <1>13, <1>14, <2>1
<1>16. Waiting' = Waiting \ {q[1].n}
  <2>1. ASSUME NEW x
        PROVE  x \in Waiting' <=> x \in Waiting /\ x # q[1].n
    <3>1. x \in Waiting' <=> \E u \in Users : \E c \in callbacks'[u] : x = c[2]
      BY DEF Waiting
    <3>2. x \in Waiting <=> \E u \in Users : \E c \in callbacks[u] : x = c[2]
      BY DEF Waiting
    <3> HIDE DEF q
    <3>3. ASSUME x \in Waiting' PROVE x \in Waiting /\ x # q[1].n
      <4>1. PICK u \in Users : \E c \in callbacks'[u] : x = c[2]
        BY <3>1, <3>3
      <4>2. PICK c \in callbacks'[u] : x = c[2]
        BY <4>1
      <4>3. c \in callbacks[u] /\ ~(u = user /\ c = c0)
        BY <1>12, <4>1, <4>2
      <4> QED
        BY <1>14, <3>2, <4>1, <4>2, <4>3
    <3>4. ASSUME x \in Waiting, x # q[1].n PROVE x \in Waiting'
      <4>1. PICK u \in Users : \E c \in callbacks[u] : x = c[2]
        BY <3>2, <3>4
      <4>2. PICK c \in callbacks[u] : x = c[2]
        BY <4>1
      <4>3. c \in callbacks'[u]
        BY <1>12, <1>13, <3>4, <4>1, <4>2
      <4> QED
        BY <3>1, <4>1, <4>2, <4>3
    <3> QED
      BY <3>3, <3>4
  <2> QED
    BY <2>1
<1>17. queue \in [Users -> Seq(Batch)]
  BY <1>1 DEF TypeOK
<1>18. /\ PlainQueue[user] # <<>>
       /\ Head(PlainQueue[user]) = w
       /\ PlainQueue' = [PlainQueue EXCEPT ![user] = Tail(@)]
  <2>1. /\ PlainSeq(q) # <<>>
        /\ Head(PlainSeq(q)) = w
        /\ PlainSeq(Tail(q)) = Tail(PlainSeq(q))
    BY <1>2, <1>3, PlainTail
  <2>2. PlainQueue[user] = PlainSeq(q)
    BY <1>2 DEF PlainQueue
  <2>3. PlainQueue' = [u \in Users |-> PlainSeq(queue'[u])]
    BY DEF PlainQueue, PlainSeq
  <2>4. \A u \in Users : queue'[u] = IF u = user THEN Tail(q) ELSE queue[u]
    BY <1>2, <1>17
  <2>5. \A u \in Users : PlainSeq(queue'[u]) = IF u = user THEN Tail(PlainSeq(q)) ELSE PlainSeq(queue[u])
    BY <2>1, <2>4
  <2> HIDE DEF q, w
  <2>6. PlainQueue' = [PlainQueue EXCEPT ![user] = Tail(@)]
    BY <1>2, <2>2, <2>3, <2>5 DEF PlainQueue
  <2> QED
    BY <2>1, <2>2, <2>6
<1>19. done' = IF w.n \in Waiting THEN Append(done, [n |-> w.n, ok |-> w.valid]) ELSE done
  BY <1>4, <1>10, <1>15
<1>20. Waiting' = Waiting \ {w.n}
  BY <1>4, <1>16
<1> HIDE DEF w, q
<1>21. LET head == Head(PlainQueue[user])
       IN  /\ settled' = IF head.valid THEN [settled EXCEPT ![head.doc] = head.n] ELSE settled
           /\ done' = IF head.n \in Waiting
                        THEN Append(done, [n |-> head.n, ok |-> head.valid]) ELSE done
           /\ Waiting' = Waiting \ {head.n}
  BY <1>8, <1>18, <1>19, <1>20
<1>22. PICK u \in Users : u = user
  BY <1>2
<1>23. Abstract!Settle(u)
  BY <1>9, <1>18, <1>21, <1>22 DEF Abstract!Settle, PlainQueue, PlainSeq, Waiting
<1> QED
  BY <1>23

(* Every step of the client is a step of the abstract queue, or none that *)
(* the application can see.                                               *)
LEMMA RefineStep == PipelineInv /\ [Next]_vars => [Abstract!Next]_(Abstract!vars)
<1> SUFFICES ASSUME PipelineInv, [Next]_vars
             PROVE  Abstract!Next \/ UNCHANGED Abstract!vars
  OBVIOUS
<1>1. ASSUME UNCHANGED <<queue, callbacks, settled, done, issued>>
      PROVE  UNCHANGED Abstract!vars
  BY <1>1 DEF Abstract!vars
<1>2. CASE UNCHANGED vars
  BY <1>1, <1>2 DEF vars, disk, history, bounds
<1>3. ASSUME NEW d \in Docs, NEW valid \in BOOLEAN, WriteMutations(d, valid)
      PROVE  Abstract!Next
  <2>1. user \in Users
    BY DEF PipelineInv, TypeOK
  <2> QED
    BY <1>3, <2>1, RefineWrite DEF Abstract!Next
<1>4. CASE \/ OnStreamOpen \/ OnHandshakeComplete \/ OnBreak \/ OnIdle
           \/ OnConnectivity \/ \E m \in DOMAIN stray : ServerApplyStray(m)
  BY <1>1, <1>4 DEF OnStreamOpen, OnHandshakeComplete, OnBreak, OnIdle, OnConnectivity,
                    ServerApplyStray, disk, history, bounds
<1>5. CASE Serve
  BY <1>1, <1>5 DEF Serve, ServerApply, ServerReject, disk, history, bounds
<1>6. CASE OnMutationResult \/ OnRejected
  BY <1>6, RefineSettle DEF Abstract!Next
<1>7. ASSUME NEW u \in Users, HandleCredentialChange(u)
      PROVE  UNCHANGED Abstract!vars
  BY <1>1, <1>7 DEF HandleCredentialChange, history
<1>8. CASE Kill
  <2>1. /\ queue' = queue /\ settled' = settled /\ done' = done /\ issued' = issued
        /\ callbacks' = [u \in Users |-> {}]
    BY <1>8 DEF Kill, history
  <2>2. Waiting' = {}
    BY <2>1 DEF Waiting
  <2>3. Abstract!Restart
    BY <2>1, <2>2 DEF Abstract!Restart, Waiting
  <2> QED
    BY <2>3 DEF Abstract!Next
<1> QED
  BY <1>2, <1>3, <1>4, <1>5, <1>6, <1>7, <1>8 DEF Next

(* The client implements the queue the application's modules assume: writes  *)
(* of an account settle in the order they were issued, each is told its      *)
(* outcome at most once, and a restart loses completions but no write.       *)
THEOREM PipelineImplementsQueue == Spec => ImplementsWriteQueue
<1>1. Spec => [][Abstract!Next]_(Abstract!vars)
  BY InvAlways, RefineStep, PTL DEF Spec
<1> QED
  BY <1>1, RefineInit, PTL DEF Spec, ImplementsWriteQueue, Abstract!Spec
============================================================================
