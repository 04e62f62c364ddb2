--------------------------- MODULE SequenceLemmas ---------------------------
(***************************************************************************)
(* Facts about sequences, their elements and the largest of a set of       *)
(* numbers that the proofs about the components share: pipelines, queues   *)
(* of completions and lists are all sequences that grow at one end and     *)
(* shrink at the other.  The laws of Selection are here too.               *)
(***************************************************************************)
EXTENDS Naturals, Sequences, FiniteSets, SequencesExt, Selection,
        SequenceTheorems, FiniteSetTheorems, WellFoundedInduction, TLAPS

----------------------------------------------------------------------------
(* The smaller of two numbers. *)
LEMMA MinOfTwo ==
  ASSUME NEW a \in Nat, NEW b \in Nat
  PROVE  Min({a, b}) = IF a <= b THEN a ELSE b
BY SMT DEF Min

(* The largest element of a set of numbers that has one. *)
LEMMA MaxIs ==
  ASSUME NEW S \in SUBSET Nat, NEW m \in S, \A x \in S : x <= m
  PROVE  Max(S) = m
<1>1. m \in S /\ \A y \in S : m >= y
  OBVIOUS
<1>2. \A x \in S : (\A y \in S : x >= y) => x = m
  OBVIOUS
<1> QED
  BY <1>1, <1>2 DEF Max

(* A set of numbers that is not empty and has a bound has a largest element. *)
LEMMA MaxExists ==
  ASSUME NEW S \in SUBSET Nat, S # {}, NEW n \in Nat, \A x \in S : x <= n
  PROVE  Max(S) \in S /\ \A x \in S : x <= Max(S)
<1> DEFINE T == {y \in Nat : \E x \in S : y = n - x}
<1>1. T \subseteq Nat /\ T # {}
  <2>1. PICK x \in S : TRUE
    OBVIOUS
  <2>2. n - x \in Nat
    BY <2>1
  <2>3. n - x \in T
    BY <2>1, <2>2
  <2> QED
    BY <2>3
<1>2. PICK y \in T : \A z \in T : ~(<<z, y>> \in OpToRel(<, Nat))
  <2> HIDE DEF T
  <2> QED
    BY <1>1, NatLessThanWellFounded, WFMin
<1>3. \A z \in T : y <= z
  <2>1. \A z \in Nat : z < y => <<z, y>> \in OpToRel(<, Nat)
    BY <1>1 DEF OpToRel
  <2>2. \A z \in T : ~(z < y)
    BY <1>1, <1>2, <2>1, Zenon
  <2> HIDE DEF T
  <2> QED
    BY <1>1, <2>2
<1>4. PICK m \in S : y = n - m
  BY <1>2
<1>5. \A x \in S : x <= m
  <2>1. SUFFICES ASSUME NEW x \in S PROVE x <= m
    OBVIOUS
  <2>2. n - x \in T
    BY <2>1
  <2>3. n - m <= n - x
    BY <1>3, <1>4, <2>2
  <2> QED
    BY <1>4, <2>1, <2>3
<1> HIDE DEF T
<1> QED
  BY <1>4, <1>5, MaxIs

(* A set of numbers that is not empty has a smallest element. *)
LEMMA Smallest ==
  ASSUME NEW S \in SUBSET Nat, S # {}
  PROVE  \E m \in S : \A x \in S : m <= x
<1>1. PICK m \in S : \A z \in S : ~(<<z, m>> \in OpToRel(<, Nat))
  BY NatLessThanWellFounded, WFMin
<1>2. \A z \in Nat : z < m => <<z, m>> \in OpToRel(<, Nat)
  BY DEF OpToRel
<1>3. \A z \in S : ~(z < m)
  BY <1>1, <1>2, Zenon
<1>4. \A z \in S : m \in Nat /\ z \in Nat
  BY <1>1
<1>5. \A z \in S : m <= z
  BY <1>3, <1>4
<1> QED
  BY <1>5

(* Induction up to n: a set that has 0, and with every number the next one, *)
(* has them all.                                                            *)
LEMMA UpTo ==
  ASSUME NEW n \in Nat, NEW N, 0 \in N,
         \A i \in 0 .. n : i \in N /\ i < n => i + 1 \in N
  PROVE  \A i \in 0 .. n : i \in N
<1> DEFINE M == {i \in 0 .. n : i \notin N}
<1>1. SUFFICES ASSUME M # {} PROVE FALSE
  OBVIOUS
<1>2. M \in SUBSET Nat
  OBVIOUS
<1>3. PICK m \in M : \A x \in M : m <= x
  BY <1>1, <1>2, Smallest
<1>4. m \in 1 .. n /\ m - 1 \in 0 .. n /\ m - 1 < n /\ ~(m <= m - 1)
  BY <1>3
<1>5. m - 1 \in N
  BY <1>3, <1>4
<1>6. (m - 1) + 1 \in N
  BY <1>4, <1>5
<1> QED
  BY <1>3, <1>4, <1>6

(* A part of a sequence, element by element. *)
LEMMA PartOf ==
  ASSUME NEW T, NEW s \in Seq(T), NEW k \in 0 .. Len(s), NEW m \in k .. Len(s)
  PROVE  /\ SubSeq(s, k + 1, m) \in Seq(T)
         /\ Len(SubSeq(s, k + 1, m)) = m - k
         /\ \A i \in 1 .. m - k : SubSeq(s, k + 1, m)[i] = s[k + i]
<1>1. Len(s) \in Nat /\ k \in Nat /\ m \in Nat
  OBVIOUS
<1>2. \A i \in k + 1 .. m : s[i] \in T
  BY <1>1
<1>3. k + 1 \in Int /\ m \in Int
  BY <1>1
<1> QED
  BY <1>1, <1>2, <1>3, SubSeqProperties

(* The first k elements of a sequence. *)
LEMMA FrontOf ==
  ASSUME NEW T, NEW s \in Seq(T), NEW k \in 0 .. Len(s)
  PROVE  /\ SubSeq(s, 1, k) \in Seq(T)
         /\ Len(SubSeq(s, 1, k)) = k
         /\ \A i \in 1 .. k : SubSeq(s, 1, k)[i] = s[i]
<1>1. Len(s) \in Nat /\ k \in Nat /\ 0 \in 0 .. Len(s) /\ k \in 0 .. Len(s)
  OBVIOUS
<1>2. 0 + 1 = 1 /\ k - 0 = k /\ \A i \in 1 .. k : 0 + i = i
  BY <1>1
<1> QED
  BY <1>1, <1>2, PartOf

(* Two sequences that agree element by element are the same sequence. *)
LEMMA SameSequence ==
  ASSUME NEW T, NEW s \in Seq(T), NEW t \in Seq(T), Len(s) = Len(t),
         \A i \in 1 .. Len(s) : s[i] = t[i]
  PROVE  s = t
BY SeqEqual

(* The front of a sequence, followed by what comes next. *)
LEMMA FrontAndRest ==
  ASSUME NEW T, NEW s \in Seq(T), NEW k \in 0 .. Len(s), NEW m \in k .. Len(s)
  PROVE  SubSeq(s, 1, k) \o SubSeq(s, k + 1, m) = SubSeq(s, 1, m)
<1>1. Len(s) \in Nat /\ k \in Nat /\ m \in Nat
  OBVIOUS
<1>2. 1 \in 1 .. Len(s) + 1 /\ k \in 1 - 1 .. Len(s) /\ m \in k .. Len(s)
  BY <1>1
<1> QED
  BY <1>2, ConcatAdjacentSubSeq

----------------------------------------------------------------------------
(* A sequence and its positions. *)
LEMMA SeqFacts ==
  ASSUME NEW T, NEW s \in Seq(T)
  PROVE  /\ Len(s) \in Nat
         /\ DOMAIN s = 1 .. Len(s)
         /\ \A i \in DOMAIN s : s[i] \in T
         /\ s # <<>> <=> Len(s) > 0
OBVIOUS

(* The elements of a sequence are of its type. *)
LEMMA ToSetType ==
  ASSUME NEW T, NEW s \in Seq(T)
  PROVE  /\ ToSet(s) \subseteq T
         /\ \A i \in DOMAIN s : s[i] \in ToSet(s)
BY SeqFacts DEF ToSet

(* The empty sequence has no elements. *)
LEMMA ToSetEmpty == ToSet(<<>>) = {}
BY DEF ToSet

(* A sequence without elements is empty. *)
LEMMA ToSetNone ==
  ASSUME NEW T, NEW s \in Seq(T), ToSet(s) = {}
  PROVE  s = <<>>
<1>1. Len(s) \in Nat /\ DOMAIN s = 1 .. Len(s)
  OBVIOUS
<1>2. DOMAIN s = {}
  BY DEF ToSet
<1>3. Len(s) = 0
  BY <1>1, <1>2
<1> QED
  BY <1>3

(* The elements after one more was appended. *)
LEMMA ToSetAppend ==
  ASSUME NEW T, NEW s \in Seq(T), NEW x \in T
  PROVE  /\ Append(s, x) \in Seq(T)
         /\ ToSet(Append(s, x)) = ToSet(s) \cup {x}
<1>1. /\ Append(s, x) \in Seq(T)
      /\ \A i \in 1 .. Len(s) : Append(s, x)[i] = s[i]
      /\ Append(s, x)[Len(s) + 1] = x
  OBVIOUS
<1>2. DOMAIN s = 1 .. Len(s) /\ DOMAIN Append(s, x) = 1 .. Len(s) + 1 /\ Len(s) \in Nat
  OBVIOUS
<1>3. 1 .. Len(s) + 1 = (1 .. Len(s)) \cup {Len(s) + 1}
  BY <1>2
<1> QED
  BY <1>1, <1>2, <1>3 DEF ToSet

(* The elements before and after the first has left. *)
LEMMA ToSetTail ==
  ASSUME NEW T, NEW s \in Seq(T), s # <<>>
  PROVE  /\ Head(s) \in T
         /\ Tail(s) \in Seq(T)
         /\ ToSet(s) = {Head(s)} \cup ToSet(Tail(s))
<1>1. /\ Len(s) \in Nat \ {0}
      /\ DOMAIN s = 1 .. Len(s)
      /\ DOMAIN Tail(s) = 1 .. Len(s) - 1
      /\ Head(s) = s[1]
      /\ Head(s) \in T
      /\ Tail(s) \in Seq(T)
      /\ \A i \in 1 .. Len(s) - 1 : Tail(s)[i] = s[i + 1]
  OBVIOUS
<1>2. \A i \in DOMAIN s : i = 1 \/ (i - 1 \in DOMAIN Tail(s) /\ Tail(s)[i - 1] = s[i])
  BY <1>1
<1>3. \A i \in DOMAIN Tail(s) : i + 1 \in DOMAIN s /\ Tail(s)[i] = s[i + 1]
  BY <1>1
<1>4. 1 \in DOMAIN s
  BY <1>1
<1>5. ToSet(s) \subseteq {Head(s)} \cup ToSet(Tail(s))
  <2>1. SUFFICES ASSUME NEW i \in DOMAIN s
                 PROVE  s[i] \in {Head(s)} \cup ToSet(Tail(s))
    BY DEF ToSet
  <2>2. i = 1 \/ (i - 1 \in DOMAIN Tail(s) /\ Tail(s)[i - 1] = s[i])
    BY <1>2
  <2> QED
    BY <1>1, <2>2 DEF ToSet
<1>6. {Head(s)} \cup ToSet(Tail(s)) \subseteq ToSet(s)
  BY <1>1, <1>3, <1>4 DEF ToSet
<1> QED
  BY <1>1, <1>5, <1>6

(* The elements of two sequences, one after the other. *)
LEMMA ToSetConcat ==
  ASSUME NEW T, NEW s \in Seq(T), NEW t \in Seq(T)
  PROVE  /\ s \o t \in Seq(T)
         /\ ToSet(s \o t) = ToSet(s) \cup ToSet(t)
<1>1. /\ Len(s) \in Nat /\ Len(t) \in Nat
      /\ DOMAIN s = 1 .. Len(s) /\ DOMAIN t = 1 .. Len(t)
      /\ s \o t \in Seq(T)
      /\ DOMAIN (s \o t) = 1 .. Len(s) + Len(t)
      /\ \A i \in 1 .. Len(s) + Len(t) :
           (s \o t)[i] = IF i <= Len(s) THEN s[i] ELSE t[i - Len(s)]
  OBVIOUS
<1> DEFINE c == s \o t  m == Len(s)  n == Len(t)
<1>2. /\ m \in Nat /\ n \in Nat /\ DOMAIN s = 1 .. m /\ DOMAIN t = 1 .. n
      /\ DOMAIN c = 1 .. m + n
      /\ \A i \in 1 .. m + n : c[i] = IF i <= m THEN s[i] ELSE t[i - m]
  BY <1>1
<1> HIDE DEF c, m, n
<1>3. \A i \in DOMAIN s : i \in DOMAIN c /\ c[i] = s[i]
  BY <1>2
<1>4. \A i \in DOMAIN t : m + i \in DOMAIN c /\ c[m + i] = t[i]
  BY <1>2
<1>5. \A i \in DOMAIN c : \/ (i \in DOMAIN s /\ c[i] = s[i])
                         \/ (i - m \in DOMAIN t /\ c[i] = t[i - m])
  BY <1>2
<1>6. ToSet(c) \subseteq ToSet(s) \cup ToSet(t)
  BY <1>5 DEF ToSet
<1>7. ToSet(s) \cup ToSet(t) \subseteq ToSet(c)
  BY <1>3, <1>4 DEF ToSet
<1> QED
  BY <1>1, <1>6, <1>7 DEF c

(* A sequence whose elements were replaced one by one. *)
LEMMA Replaced ==
  ASSUME NEW T, NEW s \in Seq(T), NEW U, NEW t,
         t = [i \in DOMAIN s |-> t[i]], \A i \in DOMAIN s : t[i] \in U
  PROVE  /\ t \in Seq(U)
         /\ Len(t) = Len(s)
         /\ DOMAIN t = DOMAIN s
<1>1. Len(s) \in Nat /\ DOMAIN s = 1 .. Len(s)
  OBVIOUS
<1>2. t \in [1 .. Len(s) -> U]
  BY <1>1
<1>3. t \in UNION {[1 .. n -> U] : n \in Nat}
  BY <1>1, <1>2, Zenon
<1>4. t \in Seq(U)
  BY <1>3, SeqDef, Zenon
<1>5. DOMAIN t = 1 .. Len(s)
  BY <1>2
<1>6. Len(t) = Len(s)
  BY <1>1, <1>4, <1>5, LenProperties
<1> QED
  BY <1>1, <1>4, <1>5, <1>6

(* The last of the positions of a sequence that a set picks out. *)
LEMMA LastPosition ==
  ASSUME NEW T, NEW s \in Seq(T), NEW S \in SUBSET DOMAIN s, S # {}
  PROVE  Max(S) \in S /\ \A i \in S : i <= Max(S)
<1>1. Len(s) \in Nat /\ DOMAIN s = 1 .. Len(s)
  OBVIOUS
<1>2. S \in SUBSET Nat /\ \A x \in S : x <= Len(s)
  BY <1>1
<1> QED
  BY <1>1, <1>2, MaxExists

----------------------------------------------------------------------------
(* One queue for each d in D. *)
Queues(D, T) == [D -> Seq(T)]

(* The queues g are the queues f but for that of u, where x has been      *)
(* appended, the sequence t has been appended, the front has left, or the  *)
(* elements have been replaced by those of t.                              *)
ChangedAt(f, g, u, s) ==
  /\ g = [v \in DOMAIN f |-> g[v]]
  /\ \A v \in DOMAIN f : g[v] = IF v = u THEN s ELSE f[v]

Pushed(f, g, u, x) == ChangedAt(f, g, u, Append(f[u], x))
Extended(f, g, u, t, T) == t \in Seq(T) /\ ChangedAt(f, g, u, f[u] \o t)
Popped(f, g, u) == f[u] # <<>> /\ ChangedAt(f, g, u, Tail(f[u]))
Rewritten(f, g, u, t, T) ==
  /\ ChangedAt(f, g, u, t)
  /\ t = [i \in DOMAIN f[u] |-> t[i]]
  /\ \A i \in DOMAIN f[u] : t[i] \in T

(* What one more element does to the queues. *)
LEMMA QueuePushed ==
  ASSUME NEW D, NEW T, NEW f \in Queues(D, T), NEW u \in D, NEW x \in T,
         NEW g, Pushed(f, g, u, x)
  PROVE  /\ g \in Queues(D, T)
         /\ ToSet(g[u]) = ToSet(f[u]) \cup {x}
         /\ \A v \in D : v # u => g[v] = f[v]
<1>1. f[u] \in Seq(T) /\ f \in [D -> Seq(T)]
  BY DEF Queues
<1>2. Append(f[u], x) \in Seq(T) /\ ToSet(Append(f[u], x)) = ToSet(f[u]) \cup {x}
  BY <1>1, ToSetAppend
<1> QED
  BY <1>1, <1>2 DEF Pushed, ChangedAt, Queues

(* What more elements do to the queues. *)
LEMMA QueueExtended ==
  ASSUME NEW D, NEW T, NEW f \in Queues(D, T), NEW u \in D, NEW t,
         NEW g, Extended(f, g, u, t, T)
  PROVE  /\ g \in Queues(D, T)
         /\ ToSet(g[u]) = ToSet(f[u]) \cup ToSet(t)
         /\ \A v \in D : v # u => g[v] = f[v]
<1>1. f[u] \in Seq(T) /\ f \in [D -> Seq(T)] /\ t \in Seq(T)
  BY DEF Queues, Extended
<1>2. f[u] \o t \in Seq(T) /\ ToSet(f[u] \o t) = ToSet(f[u]) \cup ToSet(t)
  BY <1>1, ToSetConcat
<1> QED
  BY <1>1, <1>2 DEF Extended, ChangedAt, Queues

(* What the departure of the front does to the queues. *)
LEMMA QueuePopped ==
  ASSUME NEW D, NEW T, NEW f \in Queues(D, T), NEW u \in D, NEW g, Popped(f, g, u)
  PROVE  /\ g \in Queues(D, T)
         /\ Head(f[u]) \in T
         /\ ToSet(f[u]) = {Head(f[u])} \cup ToSet(g[u])
         /\ \A v \in D : v # u => g[v] = f[v]
<1>1. f[u] \in Seq(T) /\ f \in [D -> Seq(T)] /\ f[u] # <<>>
  BY DEF Queues, Popped
<1>2. /\ Head(f[u]) \in T
      /\ Tail(f[u]) \in Seq(T)
      /\ ToSet(f[u]) = {Head(f[u])} \cup ToSet(Tail(f[u]))
  BY <1>1, ToSetTail
<1> QED
  BY <1>1, <1>2 DEF Popped, ChangedAt, Queues

(* What replacing the elements one by one does to the queues. *)
LEMMA QueueReplaced ==
  ASSUME NEW D, NEW T, NEW f \in Queues(D, T), NEW u \in D,
         NEW t, NEW g, Rewritten(f, g, u, t, T)
  PROVE  /\ g \in Queues(D, T)
         /\ g[u] = t /\ DOMAIN t = DOMAIN f[u] /\ Len(t) = Len(f[u])
         /\ \A v \in D : v # u => g[v] = f[v]
<1>1. f[u] \in Seq(T) /\ f \in [D -> Seq(T)]
  BY DEF Queues
<1>2. t \in Seq(T) /\ DOMAIN t = DOMAIN f[u] /\ Len(t) = Len(f[u])
  BY <1>1, Replaced DEF Rewritten
<1> QED
  BY <1>1, <1>2 DEF Rewritten, ChangedAt, Queues

----------------------------------------------------------------------------
(* Two sequences one after the other, element by element. *)
LEMMA ConcatFacts ==
  ASSUME NEW T, NEW s \in Seq(T), NEW t \in Seq(T)
  PROVE  /\ s \o t \in Seq(T)
         /\ DOMAIN (s \o t) = 1 .. Len(s) + Len(t)
         /\ \A i \in 1 .. Len(s) + Len(t) :
              (s \o t)[i] = IF i <= Len(s) THEN s[i] ELSE t[i - Len(s)]
OBVIOUS

(* The sequence without its element at i, element by element. *)
LEMMA Removed ==
  ASSUME NEW T, NEW s \in Seq(T), NEW i \in DOMAIN s
  PROVE  /\ RemoveAt(s, i) \in Seq(T)
         /\ DOMAIN RemoveAt(s, i) = 1 .. Len(s) - 1
         /\ \A j \in 1 .. Len(s) - 1 :
              RemoveAt(s, i)[j] = s[IF j < i THEN j ELSE j + 1]
<1>1. Len(s) \in Nat /\ i \in 1 .. Len(s)
  OBVIOUS
<1> DEFINE n == Len(s)  k == i - 1  a == SubSeq(s, 1, k)  b == SubSeq(s, i + 1, n)
<1>2. /\ n \in Nat /\ i \in 1 .. n /\ k \in 0 .. n /\ i \in 0 .. n /\ n \in i .. n
      /\ k \in Nat /\ n - i \in Nat /\ k + (n - i) = n - 1 /\ k = i - 1
  BY <1>1
<1>3. a \in Seq(T) /\ Len(a) = k /\ \A j \in 1 .. k : a[j] = s[j]
  <2> HIDE DEF k
  <2> QED
    BY <1>2, FrontOf
<1>4. b \in Seq(T) /\ Len(b) = n - i /\ \A j \in 1 .. n - i : b[j] = s[i + j]
  BY <1>2, PartOf, ZenonT(60)
<1> HIDE DEF n, k, a, b
<1> DEFINE c == a \o b
<1>5. /\ c \in Seq(T)
      /\ DOMAIN c = 1 .. n - 1
      /\ \A j \in 1 .. n - 1 : c[j] = IF j <= k THEN a[j] ELSE b[j - k]
  <2>1. /\ a \o b \in Seq(T)
        /\ DOMAIN (a \o b) = 1 .. Len(a) + Len(b)
        /\ \A j \in 1 .. Len(a) + Len(b) :
             (a \o b)[j] = IF j <= Len(a) THEN a[j] ELSE b[j - Len(a)]
    BY <1>3, <1>4, ConcatFacts
  <2>2. Len(a) + Len(b) = n - 1
    BY <1>2, <1>3, <1>4
  <2> QED
    BY <1>3, <2>1, <2>2
<1> HIDE DEF c
<1>6. \A j \in 1 .. n - 1 : c[j] = s[IF j < i THEN j ELSE j + 1]
  <2>1. SUFFICES ASSUME NEW j \in 1 .. n - 1
                 PROVE  c[j] = s[IF j < i THEN j ELSE j + 1]
    OBVIOUS
  <2>2. CASE j < i
    <3>1. j <= k /\ j \in 1 .. k
      BY <1>2, <2>1, <2>2
    <3> QED
      BY <1>3, <1>5, <2>1, <2>2, <3>1
  <2>3. CASE ~(j < i)
    <3>1. n \in Int /\ i \in Int /\ j \in Int /\ j <= n - 1 /\ i <= j /\ k = i - 1
      BY <1>2, <2>1, <2>3
    <3>2. j - k \in 1 .. n - i /\ i + (j - k) = j + 1 /\ ~(j <= k)
      BY <3>1
    <3> QED
      BY <1>4, <1>5, <2>1, <2>3, <3>2
  <2> QED
    BY <2>2, <2>3
<1> QED
  BY <1>2, <1>5, <1>6 DEF RemoveAt, n, k, a, b, c

(* The elements before and after one of them was taken out. *)
LEMMA ToSetRemoved ==
  ASSUME NEW T, NEW s \in Seq(T), NEW i \in DOMAIN s
  PROVE  /\ RemoveAt(s, i) \in Seq(T)
         /\ s[i] \in T
         /\ ToSet(s) = {s[i]} \cup ToSet(RemoveAt(s, i))
<1> DEFINE t == RemoveAt(s, i)  n == Len(s)
<1>1. /\ t \in Seq(T) /\ DOMAIN t = 1 .. n - 1
      /\ \A j \in 1 .. n - 1 : t[j] = s[IF j < i THEN j ELSE j + 1]
  BY Removed
<1>2. n \in Nat /\ DOMAIN s = 1 .. n /\ i \in 1 .. n /\ s[i] \in T
  OBVIOUS
<1> HIDE DEF t, n
<1>3. \A j \in DOMAIN t : \E l \in DOMAIN s : t[j] = s[l]
  BY <1>1, <1>2, SMTT(30)
<1>4. \A l \in DOMAIN s : l = i \/ \E j \in DOMAIN t : t[j] = s[l]
  <2>1. SUFFICES ASSUME NEW l \in 1 .. n, l # i PROVE \E j \in 1 .. n - 1 : t[j] = s[l]
    BY <1>1, <1>2
  <2>2. CASE l < i
    BY <1>1, <1>2, <2>1, <2>2
  <2>3. CASE l > i
    <3>1. l - 1 \in 1 .. n - 1 /\ ~(l - 1 < i) /\ (l - 1) + 1 = l
      BY <1>2, <2>1, <2>3
    <3> QED
      BY <1>1, <3>1
  <2> QED
    BY <1>2, <2>1, <2>2, <2>3
<1>5. ToSet(t) \subseteq ToSet(s) /\ s[i] \in ToSet(s)
  BY <1>2, <1>3 DEF ToSet
<1>6. ToSet(s) \subseteq {s[i]} \cup ToSet(t)
  BY <1>4 DEF ToSet
<1> QED
  BY <1>1, <1>2, <1>5, <1>6 DEF t

(* At most one position of s holds an element of X. *)
Single(s, X) == \A i, j \in DOMAIN s : s[i] \in X /\ s[j] \in X => i = j

(* One more element of X may come where there is none. *)
LEMMA SingleAppend ==
  ASSUME NEW T, NEW s \in Seq(T), NEW x \in T, NEW X, Single(s, X),
         x \in X => \A y \in ToSet(s) : y \notin X
  PROVE  Single(Append(s, x), X)
<1>1. /\ Len(s) \in Nat
      /\ DOMAIN s = 1 .. Len(s)
      /\ DOMAIN Append(s, x) = 1 .. Len(s) + 1
      /\ \A i \in 1 .. Len(s) : Append(s, x)[i] = s[i]
      /\ Append(s, x)[Len(s) + 1] = x
  OBVIOUS
<1>2. x \in X => \A i \in DOMAIN s : s[i] \notin X
  BY DEF ToSet
<1> QED
  BY <1>1, <1>2 DEF Single

(* When the one element of X leaves, none is left. *)
LEMMA SingleTail ==
  ASSUME NEW T, NEW s \in Seq(T), s # <<>>, NEW X, Single(s, X)
  PROVE  /\ Single(Tail(s), X)
         /\ Head(s) \in X => \A y \in ToSet(Tail(s)) : y \notin X
<1>1. /\ Len(s) \in Nat \ {0}
      /\ DOMAIN s = 1 .. Len(s)
      /\ DOMAIN Tail(s) = 1 .. Len(s) - 1
      /\ Head(s) = s[1]
      /\ \A i \in 1 .. Len(s) - 1 : Tail(s)[i] = s[i + 1]
  OBVIOUS
<1>2. \A i \in DOMAIN Tail(s) : i + 1 \in DOMAIN s /\ i + 1 # 1 /\ Tail(s)[i] = s[i + 1]
  BY <1>1
<1>3. 1 \in DOMAIN s /\ \A i, j \in DOMAIN Tail(s) : i + 1 = j + 1 => i = j
  BY <1>1
<1>4. Single(Tail(s), X)
  BY <1>2, <1>3 DEF Single
<1>5. Head(s) \in X => \A i \in DOMAIN Tail(s) : Tail(s)[i] \notin X
  BY <1>1, <1>2, <1>3 DEF Single
<1> QED
  BY <1>4, <1>5 DEF ToSet

(* Removing the only element of X leaves none; removing another keeps it the only one. *)
LEMMA SingleRemoved ==
  ASSUME NEW T, NEW s \in Seq(T), NEW i \in DOMAIN s, NEW X, Single(s, X)
  PROVE  /\ Single(RemoveAt(s, i), X)
         /\ s[i] \in X => \A y \in ToSet(RemoveAt(s, i)) : y \notin X
<1> DEFINE t == RemoveAt(s, i)  n == Len(s)
<1>1. /\ DOMAIN t = 1 .. n - 1
      /\ \A j \in 1 .. n - 1 : t[j] = s[IF j < i THEN j ELSE j + 1]
  BY Removed
<1>2. n \in Nat /\ DOMAIN s = 1 .. n /\ i \in 1 .. n
  OBVIOUS
<1> HIDE DEF t, n
<1>3. \A j \in DOMAIN t : \E l \in DOMAIN s : /\ t[j] = s[l] /\ l # i
                                             /\ l = (IF j < i THEN j ELSE j + 1)
  BY <1>1, <1>2
<1>4. s[i] \in X => \A j \in DOMAIN t : t[j] \notin X
  BY <1>3 DEF Single
<1>5. \A j, l \in DOMAIN t : t[j] \in X /\ t[l] \in X => j = l
  <2>1. SUFFICES ASSUME NEW j \in DOMAIN t, NEW l \in DOMAIN t, t[j] \in X, t[l] \in X
                 PROVE  j = l
    OBVIOUS
  <2>2. (IF j < i THEN j ELSE j + 1) = (IF l < i THEN l ELSE l + 1)
    BY <1>3, <2>1 DEF Single
  <2> QED
    BY <1>1, <1>2, <2>1, <2>2
<1> QED
  BY <1>4, <1>5 DEF Single, ToSet, t

----------------------------------------------------------------------------
(* The sequence t is s, with x at position i. *)
PutAt(s, t, i, x) ==
  /\ t = [j \in DOMAIN s |-> t[j]]
  /\ \A j \in DOMAIN s : t[j] = IF j = i THEN x ELSE s[j]

(* What replacing one element of a sequence changes, and what it leaves. *)
LEMMA PutAtIs ==
  ASSUME NEW T, NEW s \in Seq(T), NEW i \in DOMAIN s, NEW x \in T, NEW t, PutAt(s, t, i, x)
  PROVE  /\ t \in Seq(T)
         /\ Len(t) = Len(s)
         /\ DOMAIN t = DOMAIN s
         /\ t[i] = x
         /\ \A j \in DOMAIN s : j # i => t[j] = s[j]
<1>1. t = [j \in DOMAIN s |-> t[j]] /\ \A j \in DOMAIN s : t[j] \in T
  BY SeqFacts DEF PutAt
<1>2. t \in Seq(T) /\ Len(t) = Len(s) /\ DOMAIN t = DOMAIN s
  BY <1>1, Replaced
<1> QED
  BY <1>2 DEF PutAt

(* A sequence with one more element, position by position. *)
LEMMA Appended ==
  ASSUME NEW T, NEW s \in Seq(T), NEW x \in T
  PROVE  /\ Append(s, x) \in Seq(T)
         /\ Len(s) + 1 \notin DOMAIN s
         /\ DOMAIN Append(s, x) = DOMAIN s \cup {Len(s) + 1}
         /\ \A i \in DOMAIN s : Append(s, x)[i] = s[i]
         /\ Append(s, x)[Len(s) + 1] = x
         /\ Len(Append(s, x)) = Len(s) + 1
<1>1. /\ Append(s, x) \in Seq(T)
      /\ \A i \in 1 .. Len(s) : Append(s, x)[i] = s[i]
      /\ Append(s, x)[Len(s) + 1] = x
      /\ Len(Append(s, x)) = Len(s) + 1
  OBVIOUS
<1>2. DOMAIN s = 1 .. Len(s) /\ DOMAIN Append(s, x) = 1 .. Len(s) + 1 /\ Len(s) \in Nat
  OBVIOUS
<1>3. 1 .. Len(s) + 1 = (1 .. Len(s)) \cup {Len(s) + 1} /\ Len(s) + 1 \notin 1 .. Len(s)
  BY <1>2
<1> QED
  BY <1>1, <1>2, <1>3

(* A sequence without repetition stays one when something new is appended. *)
LEMMA InjectiveAppend ==
  ASSUME NEW T, NEW s \in Seq(T), NEW x \in T, IsInjective(s), x \notin ToSet(s)
  PROVE  IsInjective(Append(s, x))
<1>1. \A i \in DOMAIN s : s[i] # x
  BY DEF ToSet
<1>2. /\ DOMAIN Append(s, x) = DOMAIN s \cup {Len(s) + 1}
      /\ \A i \in DOMAIN s : Append(s, x)[i] = s[i]
      /\ Append(s, x)[Len(s) + 1] = x
  BY Appended
<1> QED
  BY <1>1, <1>2 DEF IsInjective

(* A sequence without repetition is as long as it has elements. *)
LEMMA InjectiveCount ==
  ASSUME NEW T, NEW s \in Seq(T), IsInjective(s)
  PROVE  Cardinality(ToSet(s)) = Len(s)
<1>1. Len(s) \in Nat /\ DOMAIN s = 1 .. Len(s)
  OBVIOUS
<1>2. s \in [1 .. Len(s) -> ToSet(s)]
  <2>1. \A i \in 1 .. Len(s) : s[i] \in ToSet(s)
    BY <1>1 DEF ToSet
  <2>2. s = [i \in 1 .. Len(s) |-> s[i]]
    BY <1>1
  <2> QED
    BY <2>1, <2>2
<1>3. \A x \in ToSet(s) : \E i \in 1 .. Len(s) : s[i] = x
  BY <1>1 DEF ToSet
<1>4. s \in Bijection(1 .. Len(s), ToSet(s))
  BY <1>2, <1>3 DEF Bijection, Injection, Surjection
<1>5. ExistsBijection(1 .. Len(s), ToSet(s))
  BY <1>4 DEF ExistsBijection
<1> QED
  BY <1>1, <1>5, FS_CountingElements

(* The elements of a finite set, one after the other. *)
LEMMA SetToSeqIs ==
  ASSUME NEW S, IsFiniteSet(S)
  PROVE  /\ SetToSeq(S) \in Seq(S)
         /\ ToSet(SetToSeq(S)) = S
<1> DEFINE n == Cardinality(S)  f == SetToSeq(S)
<1>1. n \in Nat /\ ExistsBijection(1 .. n, S)
  BY FS_CardinalityType
<1>2. PICK b \in Bijection(1 .. n, S) : TRUE
  BY <1>1 DEF ExistsBijection
<1>3. b \in [1 .. n -> S] /\ IsInjective(b)
  BY <1>2 DEF Bijection, Injection
<1>4. f \in [1 .. n -> S] /\ IsInjective(f)
  <2>1. \E g \in [1 .. n -> S] : IsInjective(g)
    BY <1>3
  <2> QED
    BY <2>1 DEF SetToSeq
<1> HIDE DEF f
<1>5. f \in Seq(S) /\ Len(f) = n /\ DOMAIN f = 1 .. n
  <2>1. f \in UNION {[1 .. m -> S] : m \in Nat}
    BY <1>1, <1>4, Zenon
  <2>2. f \in Seq(S)
    BY <2>1, SeqDef, Zenon
  <2>3. DOMAIN f = 1 .. n
    BY <1>4
  <2> HIDE DEF n
  <2> QED
    BY <1>1, <2>2, <2>3, LenProperties
<1>6. ToSet(f) \subseteq S /\ Cardinality(ToSet(f)) = Cardinality(S)
  <2>1. ToSet(f) \subseteq S
    BY <1>5, ToSetType
  <2>2. Cardinality(ToSet(f)) = n
    BY <1>4, <1>5, InjectiveCount
  <2> QED
    BY <2>1, <2>2
<1>7. ToSet(f) = S
  BY <1>6, FS_Subset
<1> QED
  BY <1>5, <1>7 DEF f

----------------------------------------------------------------------------
(* Some element of s is in X; the last of those is also in Y; after one in *)
(* A there is none in B.                                                   *)
Has(s, X) == \E i \in DOMAIN s : s[i] \in X

LastIn(s, X, Y) ==
  \A i \in DOMAIN s :
    s[i] \in X /\ (\A j \in DOMAIN s : j > i => s[j] \notin X) => s[i] \in Y

NoneAfter(s, A, B) ==
  \A i, j \in DOMAIN s : i < j /\ s[i] \in A => s[j] \notin B

(* What one more element changes. *)
LEMMA LastAppend ==
  ASSUME NEW T, NEW s \in Seq(T), NEW x \in T, NEW X, NEW Y
  PROVE  /\ Has(Append(s, x), X) <=> Has(s, X) \/ x \in X
         /\ x \in X => (LastIn(Append(s, x), X, Y) <=> x \in Y)
         /\ x \notin X => (LastIn(Append(s, x), X, Y) <=> LastIn(s, X, Y))
<1> DEFINE t == Append(s, x)  n == Len(s) + 1
<1>1. /\ n \notin DOMAIN s /\ DOMAIN t = DOMAIN s \cup {n}
      /\ \A i \in DOMAIN s : t[i] = s[i]
      /\ t[n] = x
  BY Appended
<1>2. \A i \in DOMAIN s : n > i /\ ~(i > n)
  OBVIOUS
<1>3. ~(n > n)
  OBVIOUS
<1> HIDE DEF t, n
<1>4. Has(t, X) <=> Has(s, X) \/ x \in X
  BY <1>1 DEF Has
<1>5. x \in X => (LastIn(t, X, Y) <=> x \in Y)
  BY <1>1, <1>2, <1>3 DEF LastIn
<1>6. x \notin X => (LastIn(t, X, Y) <=> LastIn(s, X, Y))
  <2>1. ASSUME x \notin X, LastIn(s, X, Y) PROVE LastIn(t, X, Y)
    BY <1>1, <1>2, <2>1 DEF LastIn
  <2>2. ASSUME x \notin X, LastIn(t, X, Y) PROVE LastIn(s, X, Y)
    BY <1>1, <1>2, <2>2 DEF LastIn
  <2> QED
    BY <2>1, <2>2
<1> QED
  BY <1>4, <1>5, <1>6 DEF t

(* Appending an element of B keeps the order as long as no A is queued. *)
LEMMA NoneAfterAppend ==
  ASSUME NEW T, NEW s \in Seq(T), NEW x \in T, NEW A, NEW B,
         NoneAfter(s, A, B), x \in B => ~Has(s, A)
  PROVE  NoneAfter(Append(s, x), A, B)
<1> DEFINE t == Append(s, x)  n == Len(s) + 1
<1>1. /\ n \notin DOMAIN s /\ DOMAIN t = DOMAIN s \cup {n}
      /\ \A i \in DOMAIN s : t[i] = s[i]
      /\ t[n] = x
  BY Appended
<1>2. \A i \in DOMAIN s : ~(n < i)
  OBVIOUS
<1>3. ~(n < n)
  OBVIOUS
<1> HIDE DEF t, n
<1> QED
  BY <1>1, <1>2, <1>3 DEF NoneAfter, Has, t

(* What the departure of the first element changes. *)
LEMMA LastTail ==
  ASSUME NEW T, NEW s \in Seq(T), s # <<>>, NEW X, NEW Y
  PROVE  /\ Has(s, X) <=> Has(Tail(s), X) \/ Head(s) \in X
         /\ LastIn(s, X, Y) => LastIn(Tail(s), X, Y)
         /\ LastIn(s, X, Y) /\ Head(s) \in X /\ ~Has(Tail(s), X) => Head(s) \in Y
         /\ Head(s) \notin X /\ LastIn(Tail(s), X, Y) => LastIn(s, X, Y)
         /\ Has(Tail(s), X) /\ LastIn(Tail(s), X, Y) => LastIn(s, X, Y)
         /\ ~Has(Tail(s), X) /\ Head(s) \in Y => LastIn(s, X, Y)
<1> DEFINE t == Tail(s)
<1>1. /\ Len(s) \in Nat \ {0}
      /\ DOMAIN s = 1 .. Len(s)
      /\ DOMAIN t = 1 .. Len(s) - 1
      /\ Head(s) = s[1]
      /\ \A i \in 1 .. Len(s) - 1 : t[i] = s[i + 1]
  OBVIOUS
<1> HIDE DEF t
<1>2. \A i \in DOMAIN s : i = 1 \/ \E j \in DOMAIN t : i = j + 1 /\ t[j] = s[i]
  <2>1. SUFFICES ASSUME NEW i \in DOMAIN s, i # 1
                 PROVE  \E j \in DOMAIN t : i = j + 1 /\ t[j] = s[i]
    OBVIOUS
  <2>2. i - 1 \in DOMAIN t /\ i = (i - 1) + 1
    BY <1>1, <2>1
  <2> QED
    BY <1>1, <2>2
<1>3. \A j \in DOMAIN t : j + 1 \in DOMAIN s /\ t[j] = s[j + 1] /\ j + 1 > 1 /\ j \in Int
  BY <1>1
<1>4. 1 \in DOMAIN s /\ ~(1 > 1) /\ \A i \in DOMAIN s : ~(1 > i) /\ i \in Int
  BY <1>1
<1>5. Has(s, X) <=> Has(t, X) \/ Head(s) \in X
  BY <1>1, <1>2, <1>3, <1>4 DEF Has
<1>6. ASSUME LastIn(s, X, Y) PROVE LastIn(t, X, Y)
  <2>1. SUFFICES ASSUME NEW j \in DOMAIN t, t[j] \in X,
                        \A k \in DOMAIN t : k > j => t[k] \notin X
                 PROVE  t[j] \in Y
    BY DEF LastIn
  <2>2. ASSUME NEW i \in DOMAIN s, i > j + 1 PROVE s[i] \notin X
    <3>1. PICK k \in DOMAIN t : i = k + 1 /\ t[k] = s[i]
      BY <1>2, <1>3, <1>4, <2>1, <2>2
    <3>2. k > j
      BY <1>3, <2>1, <2>2, <3>1
    <3> QED
      BY <2>1, <3>1, <3>2
  <2>3. j + 1 \in DOMAIN s /\ t[j] = s[j + 1]
    BY <1>3, <2>1
  <2> QED
    BY <1>6, <2>1, <2>2, <2>3 DEF LastIn
<1>7. LastIn(s, X, Y) /\ Head(s) \in X /\ ~Has(t, X) => Head(s) \in Y
  BY <1>1, <1>2, <1>4 DEF LastIn, Has
<1>10. ~Has(t, X) /\ Head(s) \in Y => LastIn(s, X, Y)
  BY <1>1, <1>2 DEF LastIn, Has
<1>8. ASSUME Head(s) \notin X \/ Has(t, X), LastIn(t, X, Y) PROVE LastIn(s, X, Y)
  <2>1. SUFFICES ASSUME NEW i \in DOMAIN s, s[i] \in X,
                        \A k \in DOMAIN s : k > i => s[k] \notin X
                 PROVE  s[i] \in Y
    BY DEF LastIn
  <2>2. i # 1
    <3>1. SUFFICES ASSUME i = 1 PROVE FALSE
      OBVIOUS
    <3>2. Has(t, X)
      BY <1>1, <1>8, <2>1, <3>1
    <3>3. PICK k \in DOMAIN t : t[k] \in X
      BY <3>2 DEF Has
    <3> QED
      BY <1>3, <2>1, <3>1, <3>3
  <2>3. PICK j \in DOMAIN t : i = j + 1 /\ t[j] = s[i]
    BY <1>2, <2>1, <2>2
  <2>4. ASSUME NEW k \in DOMAIN t, k > j PROVE t[k] \notin X
    <3>1. k + 1 \in DOMAIN s /\ t[k] = s[k + 1] /\ k + 1 > i
      BY <1>3, <2>3, <2>4
    <3> QED
      BY <2>1, <3>1
  <2> QED
    BY <1>8, <2>1, <2>3, <2>4 DEF LastIn
<1> QED
  BY <1>5, <1>6, <1>7, <1>8, <1>10 DEF t

(* Taking the head keeps the order, and no B is left behind an A. *)
LEMMA NoneAfterTail ==
  ASSUME NEW T, NEW s \in Seq(T), s # <<>>, NEW A, NEW B, NoneAfter(s, A, B)
  PROVE  /\ NoneAfter(Tail(s), A, B)
         /\ Head(s) \in A => ~Has(Tail(s), B)
<1> DEFINE t == Tail(s)
<1>1. /\ Len(s) \in Nat \ {0}
      /\ DOMAIN s = 1 .. Len(s)
      /\ DOMAIN t = 1 .. Len(s) - 1
      /\ Head(s) = s[1]
      /\ \A i \in 1 .. Len(s) - 1 : t[i] = s[i + 1]
  OBVIOUS
<1> HIDE DEF t
<1>2. \A j \in DOMAIN t : j + 1 \in DOMAIN s /\ t[j] = s[j + 1] /\ 1 < j + 1 /\ j \in Int
  BY <1>1
<1>3. 1 \in DOMAIN s /\ \A i, j \in Int : i < j => i + 1 < j + 1
  BY <1>1
<1>4. NoneAfter(t, A, B)
  BY <1>2, <1>3 DEF NoneAfter
<1>5. Head(s) \in A => ~Has(t, B)
  BY <1>1, <1>2, <1>3 DEF NoneAfter, Has
<1> QED
  BY <1>4, <1>5 DEF t

(* Elements that come at once after the others. *)
LEMMA LastConcat ==
  ASSUME NEW T, NEW s \in Seq(T), NEW t \in Seq(T), NEW X, NEW Y
  PROVE  /\ Has(s \o t, X) <=> Has(s, X) \/ Has(t, X)
         /\ Has(t, X) /\ LastIn(t, X, Y) => LastIn(s \o t, X, Y)
         /\ ~Has(t, X) => (LastIn(s \o t, X, Y) <=> LastIn(s, X, Y))
         /\ NoneAfter(s, X, Y) /\ ~Has(t, Y) => NoneAfter(s \o t, X, Y)
<1> DEFINE c == s \o t  m == Len(s)  n == Len(t)
<1>1. /\ m \in Nat /\ n \in Nat /\ DOMAIN s = 1 .. m /\ DOMAIN t = 1 .. n
      /\ DOMAIN c = 1 .. m + n
      /\ \A i \in 1 .. m + n : c[i] = IF i <= m THEN s[i] ELSE t[i - m]
  BY ConcatFacts, SeqFacts
<1> HIDE DEF c, m, n
<1>2. \A i \in DOMAIN s : i \in DOMAIN c /\ c[i] = s[i] /\ i \in Int /\ i <= m
  BY <1>1
<1>3. \A i \in DOMAIN t : m + i \in DOMAIN c /\ c[m + i] = t[i] /\ i \in Int /\ i > 0
  BY <1>1
<1>4. \A i \in DOMAIN c : \/ i \in DOMAIN s /\ c[i] = s[i]
                         \/ \E j \in DOMAIN t : i = m + j /\ c[i] = t[j]
  <2>1. SUFFICES ASSUME NEW i \in DOMAIN c, i \notin DOMAIN s
                 PROVE  \E j \in DOMAIN t : i = m + j /\ c[i] = t[j]
    BY <1>2
  <2>2. i - m \in DOMAIN t /\ i = m + (i - m) /\ c[i] = t[i - m]
    BY <1>1, <2>1
  <2> QED
    BY <2>2
<1>5. Has(c, X) <=> Has(s, X) \/ Has(t, X)
  BY <1>2, <1>3, <1>4 DEF Has
<1>6. ASSUME Has(t, X), LastIn(t, X, Y) PROVE LastIn(c, X, Y)
  <2>1. SUFFICES ASSUME NEW i \in DOMAIN c, c[i] \in X,
                        \A k \in DOMAIN c : k > i => c[k] \notin X
                 PROVE  c[i] \in Y
    BY DEF LastIn
  <2>2. PICK k \in DOMAIN t : t[k] \in X
    BY <1>6 DEF Has
  <2>3. m + k \in DOMAIN c /\ c[m + k] \in X /\ k > 0 /\ k \in Int
    BY <1>3, <2>2
  <2>4. i \notin DOMAIN s
    <3>1. i \in DOMAIN s => m + k > i
      BY <1>1, <1>2, <2>3
    <3> QED
      BY <2>1, <2>3, <3>1
  <2>5. PICK j \in DOMAIN t : i = m + j /\ c[i] = t[j]
    BY <1>4, <2>1, <2>4
  <2>6. ASSUME NEW l \in DOMAIN t, l > j PROVE t[l] \notin X
    <3>1. m + l \in DOMAIN c /\ c[m + l] = t[l] /\ m + l > i
      BY <1>1, <1>3, <2>5, <2>6
    <3> QED
      BY <2>1, <3>1
  <2> QED
    BY <1>6, <2>1, <2>5, <2>6 DEF LastIn
<1>7. ASSUME ~Has(t, X) PROVE LastIn(c, X, Y) <=> LastIn(s, X, Y)
  <2>1. \A i \in DOMAIN c : c[i] \in X => i \in DOMAIN s /\ c[i] = s[i]
    BY <1>4, <1>7 DEF Has
  <2> QED
    BY <1>2, <2>1 DEF LastIn
<1>8. ASSUME NoneAfter(s, X, Y), ~Has(t, Y) PROVE NoneAfter(c, X, Y)
  <2>1. SUFFICES ASSUME NEW i \in DOMAIN c, NEW j \in DOMAIN c, i < j, c[i] \in X, c[j] \in Y
                 PROVE  FALSE
    BY DEF NoneAfter
  <2>2. j \in DOMAIN s /\ c[j] = s[j]
    BY <1>4, <1>8, <2>1 DEF Has
  <2>3. i \in DOMAIN s /\ c[i] = s[i]
    <3>1. i \in DOMAIN s
      BY <1>1, <2>1, <2>2
    <3> QED
      BY <1>2, <3>1
  <2> QED
    BY <1>8, <2>1, <2>2, <2>3 DEF NoneAfter
<1> QED
  BY <1>5, <1>6, <1>7, <1>8 DEF c

(* There is a last one, if there is one at all. *)
LEMMA LastExists ==
  ASSUME NEW T, NEW s \in Seq(T), NEW X, Has(s, X)
  PROVE  \E x \in X : \A Y : LastIn(s, X, Y) <=> x \in Y
<1> DEFINE S == {i \in DOMAIN s : s[i] \in X}  m == Max(S)
<1>1. S \in SUBSET DOMAIN s /\ S # {}
  BY DEF Has
<1>2. m \in S /\ \A i \in S : i <= m
  <2> HIDE DEF S
  <2> QED
    BY <1>1, LastPosition
<1>3. \A i \in DOMAIN s : i \in Int
  OBVIOUS
<1> HIDE DEF m
<1>4. \A i \in DOMAIN s : s[i] \in X => i <= m
  BY <1>2
<1>5. m \in DOMAIN s /\ s[m] \in X /\ m \in Int
  BY <1>2, <1>3
<1>6. \A Y : LastIn(s, X, Y) <=> s[m] \in Y
  <2>1. SUFFICES ASSUME NEW Y PROVE LastIn(s, X, Y) <=> s[m] \in Y
    OBVIOUS
  <2>2. \A j \in DOMAIN s : j > m => s[j] \notin X
    BY <1>3, <1>4, <1>5
  <2>3. \A i \in DOMAIN s : s[i] \in X /\ i # m => ~(\A j \in DOMAIN s : j > i => s[j] \notin X)
    BY <1>3, <1>4, <1>5
  <2> QED
    BY <1>5, <2>2, <2>3 DEF LastIn
<1> QED
  BY <1>5, <1>6

----------------------------------------------------------------------------
(* The sequences s and t are alike as far as the elements of V go: what is  *)
(* there, what is last and what comes before what.                          *)
Alike(s, t, V) ==
  /\ \A X \in SUBSET V : Has(t, X) <=> Has(s, X)
  /\ \A X \in SUBSET V : \A Y : LastIn(t, X, Y) <=> LastIn(s, X, Y)
  /\ \A A, B \in SUBSET V : NoneAfter(s, A, B) => NoneAfter(t, A, B)

(* The sequence t is s with x appended, or s without its first element x. *)
Gained(s, t, x) == t = Append(s, x)
Lost(s, t, x) == s # <<>> /\ x = Head(s) /\ t = Tail(s)

(* Every sequence is like itself. *)
LEMMA AlikeSame ==
  ASSUME NEW s, NEW V
  PROVE  Alike(s, s, V)
BY DEF Alike

(* What all the questions answer after an element joined at the end. *)
LEMMA GainedFacts ==
  ASSUME NEW T, NEW s \in Seq(T), NEW x \in T, NEW t, Gained(s, t, x)
  PROVE  /\ t \in Seq(T)
         /\ ToSet(t) = ToSet(s) \cup {x}
         /\ \A X : Has(t, X) <=> Has(s, X) \/ x \in X
         /\ \A X, Y : x \in X => (LastIn(t, X, Y) <=> x \in Y)
         /\ \A X, Y : x \notin X => (LastIn(t, X, Y) <=> LastIn(s, X, Y))
         /\ \A A, B : NoneAfter(s, A, B) /\ (x \in B => ~Has(s, A)) => NoneAfter(t, A, B)
<1>1. t = Append(s, x)
  BY DEF Gained
<1>2. t \in Seq(T) /\ ToSet(t) = ToSet(s) \cup {x}
  BY <1>1, ToSetAppend
<1>3. ASSUME NEW X, NEW Y
      PROVE  /\ Has(t, X) <=> Has(s, X) \/ x \in X
             /\ x \in X => (LastIn(t, X, Y) <=> x \in Y)
             /\ x \notin X => (LastIn(t, X, Y) <=> LastIn(s, X, Y))
  BY <1>1, LastAppend
<1>4. ASSUME NEW A, NEW B, NoneAfter(s, A, B), x \in B => ~Has(s, A)
      PROVE  NoneAfter(t, A, B)
  BY <1>1, <1>4, NoneAfterAppend
<1> QED
  BY <1>2, <1>3, <1>4

(* What all the questions answer after the head was taken. *)
LEMMA LostFacts ==
  ASSUME NEW T, NEW s \in Seq(T), NEW t, NEW x, Lost(s, t, x)
  PROVE  /\ t \in Seq(T)
         /\ x \in T
         /\ ToSet(s) = {x} \cup ToSet(t)
         /\ \A X : Has(s, X) <=> Has(t, X) \/ x \in X
         /\ \A X, Y : LastIn(s, X, Y) => LastIn(t, X, Y)
         /\ \A X, Y : LastIn(s, X, Y) /\ x \in X /\ ~Has(t, X) => x \in Y
         /\ \A X, Y : x \notin X => (LastIn(t, X, Y) <=> LastIn(s, X, Y))
         /\ \A X, Y : Has(t, X) /\ LastIn(t, X, Y) => LastIn(s, X, Y)
         /\ \A X, Y : ~Has(t, X) /\ x \in Y => LastIn(s, X, Y)
         /\ \A A, B : NoneAfter(s, A, B) =>
              NoneAfter(t, A, B) /\ (x \in A => ~Has(t, B))
<1>1. s # <<>> /\ x = Head(s) /\ t = Tail(s)
  BY DEF Lost
<1>2. t \in Seq(T) /\ x \in T /\ ToSet(s) = {x} \cup ToSet(t)
  BY <1>1, ToSetTail
<1>3. ASSUME NEW X, NEW Y
      PROVE  /\ Has(s, X) <=> Has(t, X) \/ x \in X
             /\ LastIn(s, X, Y) => LastIn(t, X, Y)
             /\ LastIn(s, X, Y) /\ x \in X /\ ~Has(t, X) => x \in Y
             /\ x \notin X /\ LastIn(t, X, Y) => LastIn(s, X, Y)
             /\ Has(t, X) /\ LastIn(t, X, Y) => LastIn(s, X, Y)
             /\ ~Has(t, X) /\ x \in Y => LastIn(s, X, Y)
  BY <1>1, LastTail
<1>4. ASSUME NEW A, NEW B, NoneAfter(s, A, B)
      PROVE  NoneAfter(t, A, B) /\ (x \in A => ~Has(t, B))
  BY <1>1, <1>4, NoneAfterTail
<1> QED
  BY <1>2, <1>3, <1>4

(* Elements outside V may come and go. *)
LEMMA AlikeGained ==
  ASSUME NEW T, NEW s \in Seq(T), NEW x \in T, NEW t, Gained(s, t, x), NEW V, x \notin V
  PROVE  Alike(s, t, V)
<1>1. \A X \in SUBSET V : x \notin X
  OBVIOUS
<1>2. /\ \A X : Has(t, X) <=> Has(s, X) \/ x \in X
      /\ \A X, Y : x \notin X => (LastIn(t, X, Y) <=> LastIn(s, X, Y))
      /\ \A A, B : NoneAfter(s, A, B) /\ (x \in B => ~Has(s, A)) => NoneAfter(t, A, B)
  BY GainedFacts
<1> QED
  BY <1>1, <1>2 DEF Alike

(* Losing an element outside V changes no answer about V. *)
LEMMA AlikeLost ==
  ASSUME NEW T, NEW s \in Seq(T), NEW t, NEW x, Lost(s, t, x), NEW V, x \notin V
  PROVE  Alike(s, t, V)
<1>1. \A X \in SUBSET V : x \notin X
  OBVIOUS
<1>2. /\ \A X : Has(s, X) <=> Has(t, X) \/ x \in X
      /\ \A X, Y : x \notin X => (LastIn(t, X, Y) <=> LastIn(s, X, Y))
      /\ \A A, B : NoneAfter(s, A, B) => NoneAfter(t, A, B)
  BY LostFacts
<1> QED
  BY <1>1, <1>2 DEF Alike

(* Joining a sequence without elements of V changes no answer about V. *)
LEMMA AlikeConcat ==
  ASSUME NEW T, NEW s \in Seq(T), NEW r \in Seq(T), NEW V, ~Has(r, V)
  PROVE  Alike(s, s \o r, V)
<1>1. \A X \in SUBSET V : ~Has(r, X)
  BY DEF Has
<1>2. ASSUME NEW X, NEW Y
      PROVE  /\ Has(s \o r, X) <=> Has(s, X) \/ Has(r, X)
             /\ ~Has(r, X) => (LastIn(s \o r, X, Y) <=> LastIn(s, X, Y))
             /\ NoneAfter(s, X, Y) /\ ~Has(r, Y) => NoneAfter(s \o r, X, Y)
  BY LastConcat
<1> QED
  BY <1>1, <1>2 DEF Alike

(* Elements outside V may be replaced by others outside V. *)
LEMMA AlikeReplaced ==
  ASSUME NEW s, NEW t, DOMAIN t = DOMAIN s, NEW V,
         \A i \in DOMAIN s : t[i] = s[i] \/ (s[i] \notin V /\ t[i] \notin V)
  PROVE  Alike(s, t, V)
<1>1. \A X \in SUBSET V : \A i \in DOMAIN s : t[i] \in X <=> s[i] \in X
  OBVIOUS
<1>2. \A X \in SUBSET V : \A i \in DOMAIN s : s[i] \in X => t[i] = s[i]
  OBVIOUS
<1>3. \A X \in SUBSET V : Has(t, X) <=> Has(s, X)
  BY <1>1 DEF Has
<1>4. ASSUME NEW X \in SUBSET V, NEW Y PROVE LastIn(t, X, Y) <=> LastIn(s, X, Y)
  <2>1. \A i \in DOMAIN s : (t[i] \in X <=> s[i] \in X) /\ (s[i] \in X => t[i] = s[i])
    BY <1>1, <1>2
  <2> QED
    BY <2>1 DEF LastIn
<1>5. ASSUME NEW A \in SUBSET V, NEW B \in SUBSET V, NoneAfter(s, A, B)
      PROVE  NoneAfter(t, A, B)
  <2>1. \A i \in DOMAIN s : (t[i] \in A <=> s[i] \in A) /\ (t[i] \in B <=> s[i] \in B)
    BY <1>1
  <2> QED
    BY <1>5, <2>1 DEF NoneAfter
<1> QED
  BY <1>3, <1>4, <1>5 DEF Alike

(* Elements replaced by others of the same kind. *)
LEMMA SameKinds ==
  ASSUME NEW s, NEW t, DOMAIN t = DOMAIN s, NEW X, NEW Y,
         \A i \in DOMAIN s : (t[i] \in X <=> s[i] \in X) /\ (t[i] \in Y <=> s[i] \in Y)
  PROVE  /\ Has(t, X) <=> Has(s, X)
         /\ LastIn(t, X, Y) <=> LastIn(s, X, Y)
         /\ NoneAfter(s, X, Y) => NoneAfter(t, X, Y)
BY DEF Has, LastIn, NoneAfter

(* Nothing is last of what is not there, and nothing comes after it. *)
LEMMA HasNone ==
  ASSUME NEW s, NEW X, ~Has(s, X), NEW Y
  PROVE  LastIn(s, X, Y) /\ NoneAfter(s, X, Y)
BY DEF Has, LastIn, NoneAfter

(* What is there is an element. *)
LEMMA HasElement ==
  ASSUME NEW s, NEW X
  PROVE  Has(s, X) <=> \E x \in ToSet(s) : x \in X
BY DEF Has, ToSet

(* The queue of u and those of the others when one element comes or leaves. *)
LEMMA OnePushed ==
  ASSUME NEW D, NEW T, NEW f \in Queues(D, T), NEW u \in D, NEW x,
         NEW g, Pushed(f, g, u, x)
  PROVE  /\ f[u] \in Seq(T)
         /\ Gained(f[u], g[u], x)
         /\ \A v \in D : v # u => g[v] = f[v]
BY DEF Pushed, ChangedAt, Queues, Gained

(* The queue of u loses its front, those of the others stay. *)
LEMMA OnePopped ==
  ASSUME NEW D, NEW T, NEW f \in Queues(D, T), NEW u \in D, NEW g, Popped(f, g, u)
  PROVE  /\ f[u] \in Seq(T)
         /\ Lost(f[u], g[u], Head(f[u]))
         /\ \A v \in D : v # u => g[v] = f[v]
BY DEF Popped, ChangedAt, Queues, Lost

----------------------------------------------------------------------------
(* m takes the elements of T it is defined for to V. *)
Maps(m, T, V) == \A x \in T \cap DOMAIN m : m[x] \in V

(* f holds what is selected of each front of s, up to its first k elements. *)
Fronts(s, m, f, k) ==
  /\ f[0] = <<>>
  /\ \A i \in 1 .. k :
       f[i] = IF s[i] \in DOMAIN m THEN Append(f[i - 1], m[s[i]]) ELSE f[i - 1]

(* One more element of s is looked at. *)
LEMMA FrontsNext ==
  ASSUME NEW s, NEW m, NEW k \in Nat, \E f : Fronts(s, m, f, k)
  PROVE  \E f : Fronts(s, m, f, k + 1)
<1>1. PICK f : Fronts(s, m, f, k)
  OBVIOUS
<1> DEFINE x == IF s[k + 1] \in DOMAIN m THEN Append(f[k], m[s[k + 1]]) ELSE f[k]
           g == [i \in 0 .. k + 1 |-> IF i = k + 1 THEN x ELSE f[i]]
<1>2. g[0] = f[0] /\ g[k + 1] = x /\ \A i \in 0 .. k : g[i] = f[i]
  OBVIOUS
<1>3. g[0] = <<>>
  BY <1>1, <1>2 DEF Fronts
<1>4. ASSUME NEW i \in 1 .. k + 1
      PROVE  g[i] = IF s[i] \in DOMAIN m THEN Append(g[i - 1], m[s[i]]) ELSE g[i - 1]
  <2> HIDE DEF g
  <2>1. CASE i = k + 1
    <3>1. i - 1 = k /\ k \in 0 .. k
      BY <2>1
    <3> QED
      BY <1>2, <2>1, <3>1
  <2>2. CASE i # k + 1
    <3>1. i \in 1 .. k /\ i \in 0 .. k /\ i - 1 \in 0 .. k
      BY <2>2
    <3> QED
      BY <1>1, <1>2, <3>1 DEF Fronts
  <2> QED
    BY <2>1, <2>2
<1> HIDE DEF g
<1>5. Fronts(s, m, g, k + 1)
  BY <1>3, <1>4 DEF Fronts
<1> QED
  BY <1>5

(* What a map makes of a sequence is what it makes of the whole front. *)
LEMMA MapFronts ==
  ASSUME NEW T, NEW s \in Seq(T), NEW m
  PROVE  \E f : Fronts(s, m, f, Len(s)) /\ CompactMap(s, m) = f[Len(s)]
<1> DEFINE n == Len(s)
           F(g) == g = [i \in 0 .. n |->
                          IF i = 0 THEN <<>>
                          ELSE IF s[i] \in DOMAIN m THEN Append(g[i - 1], m[s[i]]) ELSE g[i - 1]]
           N == {k \in Nat : \E f : Fronts(s, m, f, k)}
           h == CHOOSE g : F(g)
<1>1. n \in Nat
  OBVIOUS
<1>2. n \in N
  <2> HIDE DEF n
  <2>1. 0 \in N
    <3>1. Fronts(s, m, [i \in {0} |-> <<>>], 0)
      BY DEF Fronts
    <3> QED
      BY <3>1
  <2>2. \A i \in 0 .. n : i \in N /\ i < n => i + 1 \in N
    BY <1>1, FrontsNext
  <2> HIDE DEF N
  <2>3. n \in 0 .. n
    BY <1>1
  <2> QED
    BY <1>1, <2>1, <2>2, <2>3, UpTo
<1>3. PICK f : Fronts(s, m, f, n)
  BY <1>2
<1> DEFINE g == [i \in 0 .. n |-> f[i]]
<1>4. F(g)
  <2>1. \A i \in 0 .. n : i # 0 => i \in 1 .. n /\ i - 1 \in 0 .. n
    BY <1>1
  <2>2. \A i \in 0 .. n : g[i] = f[i]
    OBVIOUS
  <2>3. \A i \in 0 .. n : g[i] = IF i = 0 THEN <<>>
                          ELSE IF s[i] \in DOMAIN m THEN Append(g[i - 1], m[s[i]]) ELSE g[i - 1]
    BY <1>3, <2>1, <2>2 DEF Fronts
  <2> QED
    BY <2>3
<1>5. F(h)
  <2> HIDE DEF F, g
  <2> QED
    BY <1>4
<1>6. CompactMap(s, m) = h[n]
  BY DEF CompactMap
<1>7. Fronts(s, m, h, n)
  <2> HIDE DEF h, n
  <2>1. h[0] = <<>>
    BY <1>1, <1>5
  <2>2. \A i \in 1 .. n : i # 0 /\ i \in 0 .. n
    BY <1>1
  <2>3. \A i \in 1 .. n :
          h[i] = IF s[i] \in DOMAIN m THEN Append(h[i - 1], m[s[i]]) ELSE h[i - 1]
    BY <1>5, <2>2
  <2> QED
    BY <2>1, <2>3 DEF Fronts
<1> QED
  BY <1>6, <1>7

(* There is one way to compute it. *)
LEMMA MapIs ==
  ASSUME NEW T, NEW s \in Seq(T), NEW m, NEW f, Fronts(s, m, f, Len(s))
  PROVE  CompactMap(s, m) = f[Len(s)]
<1> DEFINE n == Len(s)
<1>1. n \in Nat /\ n \in 0 .. n
  OBVIOUS
<1>2. PICK g : Fronts(s, m, g, n) /\ CompactMap(s, m) = g[n]
  BY MapFronts
<1> DEFINE N == {k \in Nat : f[k] = g[k]}
<1>3. Fronts(s, m, f, n)
  OBVIOUS
<1> HIDE DEF n
<1>4. 0 \in N
  BY <1>2, <1>3 DEF Fronts
<1>5. \A i \in 0 .. n : i \in N /\ i < n => i + 1 \in N
  <2>1. SUFFICES ASSUME NEW i \in 0 .. n, i \in N, i < n PROVE i + 1 \in N
    OBVIOUS
  <2>2. i + 1 \in 1 .. n /\ (i + 1) - 1 = i /\ f[i] = g[i] /\ i + 1 \in Nat
    BY <1>1, <2>1
  <2>3. f[i + 1] = g[i + 1]
    BY <1>2, <1>3, <2>2 DEF Fronts
  <2> QED
    BY <2>2, <2>3
<1> HIDE DEF N
<1>6. n \in N
  BY <1>1, <1>4, <1>5, UpTo
<1> QED
  BY <1>2, <1>6 DEF N, n

(* What is computed of every front is a sequence of values of the map. *)
LEMMA FrontsType ==
  ASSUME NEW T, NEW s \in Seq(T), NEW V, NEW m, Maps(m, T, V),
         NEW f, Fronts(s, m, f, Len(s))
  PROVE  \A i \in 0 .. Len(s) : f[i] \in Seq(V)
<1> DEFINE n == Len(s)
           N == {k \in Nat : f[k] \in Seq(V)}
<1>1. n \in Nat /\ \A i \in 1 .. n : s[i] \in T
  BY SeqFacts
<1>2. Fronts(s, m, f, n)
  OBVIOUS
<1> HIDE DEF n
<1>3. 0 \in N
  <2>1. f[0] = <<>> /\ <<>> \in Seq(V)
    BY <1>2 DEF Fronts
  <2> QED
    BY <2>1
<1>4. \A i \in 0 .. n : i \in N /\ i < n => i + 1 \in N
  <2>1. SUFFICES ASSUME NEW i \in 0 .. n, f[i] \in Seq(V), i < n
                 PROVE  f[i + 1] \in Seq(V)
    OBVIOUS
  <2>2. i + 1 \in 1 .. n /\ (i + 1) - 1 = i
    BY <1>1, <2>1
  <2>3. f[i + 1] = IF s[i + 1] \in DOMAIN m THEN Append(f[i], m[s[i + 1]]) ELSE f[i]
    BY <1>2, <2>2 DEF Fronts
  <2>4. s[i + 1] \in DOMAIN m => m[s[i + 1]] \in V
    BY <1>1, <2>2 DEF Maps
  <2> QED
    BY <2>1, <2>3, <2>4
<1> HIDE DEF N
<1>5. \A i \in 0 .. n : i \in N
  BY <1>1, <1>3, <1>4, UpTo
<1> QED
  BY <1>5 DEF N, n

(* A map of a sequence is a sequence of values. *)
LEMMA MapType ==
  ASSUME NEW T, NEW s \in Seq(T), NEW V, NEW m, Maps(m, T, V)
  PROVE  CompactMap(s, m) \in Seq(V)
<1>1. PICK f : Fronts(s, m, f, Len(s)) /\ CompactMap(s, m) = f[Len(s)]
  BY MapFronts
<1>2. Len(s) \in 0 .. Len(s)
  BY SeqFacts
<1> QED
  BY <1>1, <1>2, FrontsType

(* Nothing comes of nothing. *)
LEMMA MapEmpty ==
  ASSUME NEW m
  PROVE  CompactMap(<<>>, m) = <<>>
<1>1. <<>> \in Seq({}) /\ Len(<<>>) = 0
  OBVIOUS
<1>2. PICK f : Fronts(<<>>, m, f, Len(<<>>)) /\ CompactMap(<<>>, m) = f[Len(<<>>)]
  BY <1>1, MapFronts
<1> QED
  BY <1>1, <1>2 DEF Fronts

(* One more element at the end. *)
LEMMA MapAppend ==
  ASSUME NEW T, NEW s \in Seq(T), NEW x \in T, NEW m
  PROVE  CompactMap(Append(s, x), m) =
           IF x \in DOMAIN m THEN Append(CompactMap(s, m), m[x]) ELSE CompactMap(s, m)
<1> DEFINE n == Len(s)
           t == Append(s, x)
<1>1. n \in Nat /\ t \in Seq(T) /\ Len(t) = n + 1 /\ t[n + 1] = x
      /\ \A i \in 1 .. n : t[i] = s[i]
  OBVIOUS
<1>2. PICK f : Fronts(t, m, f, n + 1) /\ CompactMap(t, m) = f[n + 1]
  <2> HIDE DEF t, n
  <2> QED
    BY <1>1, MapFronts
<1>3. Fronts(s, m, f, Len(s))
  <2>1. \A i \in 1 .. n : i \in 1 .. n + 1
    BY <1>1
  <2> HIDE DEF t
  <2> QED
    BY <1>1, <1>2, <2>1 DEF Fronts
<1>4. CompactMap(s, m) = f[n]
  BY <1>3, MapIs
<1>5. n + 1 \in 1 .. n + 1 /\ (n + 1) - 1 = n
  BY <1>1
<1>6. f[n + 1] = IF t[n + 1] \in DOMAIN m THEN Append(f[n], m[t[n + 1]]) ELSE f[n]
  <2> HIDE DEF t, n
  <2> QED
    BY <1>2, <1>5 DEF Fronts
<1> HIDE DEF n
<1> QED
  BY <1>1, <1>2, <1>4, <1>6

(* r is s followed by t. *)
IsConcat(s, t, r) == r = s \o t

(* An element is put behind two lists. *)
LEMMA ConcatGained ==
  ASSUME NEW T, NEW s \in Seq(T), NEW t \in Seq(T), NEW x \in T,
         NEW r, IsConcat(s, t, r), NEW q, Gained(r, q, x), NEW p, Gained(t, p, x)
  PROVE  IsConcat(s, p, q)
<1> DEFINE a == Append(s \o t, x)
           b == s \o Append(t, x)
<1>1. a \in Seq(T) /\ b \in Seq(T) /\ Len(a) = Len(b)
  OBVIOUS
<1>2. \A i \in 1 .. Len(a) : a[i] = b[i]
  OBVIOUS
<1>3. q = a
  BY DEF IsConcat, Gained
<1>4. s \o p = b
  BY DEF Gained
<1> HIDE DEF a, b
<1>5. a = b
  BY <1>1, <1>2, SameSequence
<1> QED
  BY <1>3, <1>4, <1>5 DEF IsConcat

(* A list and the one behind it are mapped one after the other. *)
LEMMA MapConcat ==
  ASSUME NEW T, NEW s \in Seq(T), NEW t \in Seq(T),
         NEW V, NEW m, Maps(m, T, V)
  PROVE  CompactMap(s \o t, m) = CompactMap(s, m) \o CompactMap(t, m)
<1> DEFINE k == Len(s)
           n == Len(t)
           u == s \o t
           a == CompactMap(s, m)
<1>1. /\ k \in Nat /\ n \in Nat /\ u \in Seq(T) /\ Len(u) = k + n
      /\ \A i \in 1 .. k : u[i] = s[i]
      /\ \A i \in 1 .. n : u[k + i] = t[i]
  BY ConcatFacts
<1>2. PICK f : Fronts(u, m, f, k + n) /\ CompactMap(u, m) = f[k + n]
  <2> HIDE DEF u, k, n
  <2> QED
    BY <1>1, MapFronts
<1>3. PICK g : Fronts(t, m, g, n) /\ CompactMap(t, m) = g[n]
  BY MapFronts
<1>4. Fronts(s, m, f, Len(s))
  <2>1. \A i \in 1 .. k : i \in 1 .. k + n
    BY <1>1
  <2> HIDE DEF u
  <2> QED
    BY <1>1, <1>2, <2>1 DEF Fronts
<1>5. a = f[k] /\ a \in Seq(V)
  BY <1>4, MapIs, MapType
<1>6. \A i \in 0 .. n : g[i] \in Seq(V)
  BY <1>3, FrontsType
<1> DEFINE N == {i \in Nat : IsConcat(a, g[i], f[k + i])}
<1> HIDE DEF k, n, u, a
<1>7. 0 \in N
  <2>1. g[0] = <<>> /\ k + 0 = k
    BY <1>1, <1>3 DEF Fronts
  <2>2. IsConcat(a, <<>>, a)
    BY <1>5 DEF IsConcat
  <2> QED
    BY <1>5, <2>1, <2>2
<1>8. \A i \in 0 .. n : i \in N /\ i < n => i + 1 \in N
  <2>1. SUFFICES ASSUME NEW i \in 0 .. n, IsConcat(a, g[i], f[k + i]), i < n
                 PROVE  IsConcat(a, g[i + 1], f[k + (i + 1)])
    OBVIOUS
  <2>2. /\ i + 1 \in 1 .. n /\ (i + 1) - 1 = i /\ i + 1 \in 0 .. n
        /\ k + (i + 1) \in 1 .. k + n /\ (k + (i + 1)) - 1 = k + i
    BY <1>1, <2>1
  <2>3. g[i + 1] = IF t[i + 1] \in DOMAIN m THEN Append(g[i], m[t[i + 1]]) ELSE g[i]
    BY <1>3, <2>2 DEF Fronts
  <2>4. f[k + (i + 1)] = IF u[k + (i + 1)] \in DOMAIN m
                           THEN Append(f[k + i], m[u[k + (i + 1)]]) ELSE f[k + i]
    BY <1>2, <2>2 DEF Fronts
  <2>5. u[k + (i + 1)] = t[i + 1] /\ t[i + 1] \in T
    BY <1>1, <2>2, SeqFacts DEF n
  <2>6. CASE t[i + 1] \in DOMAIN m
    <3> DEFINE y == m[t[i + 1]]
    <3>1. y \in V
      BY <2>5, <2>6 DEF Maps
    <3>2. Gained(f[k + i], f[k + (i + 1)], y) /\ Gained(g[i], g[i + 1], y)
      BY <2>3, <2>4, <2>5, <2>6 DEF Gained
    <3>3. g[i] \in Seq(V) /\ a \in Seq(V)
      BY <1>5, <1>6
    <3> HIDE DEF y
    <3> QED
      BY <2>1, <3>1, <3>2, <3>3, ConcatGained
  <2>7. CASE t[i + 1] \notin DOMAIN m
    BY <2>1, <2>3, <2>4, <2>5, <2>7
  <2> QED
    BY <2>6, <2>7
<1> HIDE DEF N
<1>9. \A i \in 0 .. n : i \in N
  BY <1>1, <1>7, <1>8, UpTo
<1>10. n \in N
  BY <1>1, <1>9
<1> QED
  BY <1>2, <1>3, <1>10 DEF N, u, a, IsConcat

(* The front of a list comes first. *)
LEMMA MapHead ==
  ASSUME NEW T, NEW s \in Seq(T), s # <<>>,
         NEW V, NEW m, Maps(m, T, V)
  PROVE  /\ Head(s) \in DOMAIN m =>
              CompactMap(s, m) = <<m[Head(s)]>> \o CompactMap(Tail(s), m)
         /\ Head(s) \notin DOMAIN m => CompactMap(s, m) = CompactMap(Tail(s), m)
<1> DEFINE x == Head(s)
           t == Tail(s)
           o == <<>>
           v == <<x>>
<1>1. x \in T /\ t \in Seq(T) /\ s = v \o t /\ v \in Seq(T) /\ o \in Seq(T)
  OBVIOUS
<1>2. v = Append(o, x)
  OBVIOUS
<1>3. CompactMap(o, m) = <<>>
  BY MapEmpty
<1>4. Append(<<>>, m[x]) = <<m[x]>> /\ v = <<x>>
  OBVIOUS
<1> HIDE DEF x, t, o, v
<1>5. CompactMap(v, m) = IF x \in DOMAIN m THEN Append(CompactMap(o, m), m[x])
                                            ELSE CompactMap(o, m)
  BY <1>1, <1>2, MapAppend
<1>6. CompactMap(t, m) \in Seq(V)
  BY <1>1, MapType
<1>7. CompactMap(s, m) = CompactMap(v, m) \o CompactMap(t, m)
  BY <1>1, MapConcat
<1>8. CASE x \in DOMAIN m
  BY <1>3, <1>4, <1>5, <1>7, <1>8 DEF x, t
<1>9. CASE x \notin DOMAIN m
  <2>1. <<>> \o CompactMap(t, m) = CompactMap(t, m)
    BY <1>6
  <2> QED
    BY <1>3, <1>5, <1>7, <1>9, <2>1 DEF x, t
<1> QED
  BY <1>8, <1>9

(* The elements of a map are the values of the elements. *)
LEMMA MapElements ==
  ASSUME NEW T, NEW s \in Seq(T), NEW V, NEW m, Maps(m, T, V)
  PROVE  ToSet(CompactMap(s, m)) = {m[x] : x \in ToSet(s) \cap DOMAIN m}
<1> DEFINE n == Len(s)
<1>1. PICK f : Fronts(s, m, f, n) /\ CompactMap(s, m) = f[n]
  BY MapFronts
<1>2. \A i \in 0 .. n : f[i] \in Seq(V)
  BY <1>1, FrontsType
<1> DEFINE G(k) == {m[x] : x \in {s[i] : i \in 1 .. k} \cap DOMAIN m}
           N == {k \in Nat : ToSet(f[k]) = G(k)}
<1>3. n \in Nat /\ ToSet(s) = {s[i] : i \in 1 .. n} /\ \A i \in 1 .. n : s[i] \in T
  BY SeqFacts DEF ToSet
<1> HIDE DEF n
<1>4. 0 \in N
  <2>1. G(0) = {}
    OBVIOUS
  <2> HIDE DEF G
  <2>2. f[0] = <<>>
    BY <1>1 DEF Fronts
  <2> QED
    BY <2>1, <2>2, ToSetEmpty
<1>5. \A i \in 0 .. n : i \in N /\ i < n => i + 1 \in N
  <2>1. SUFFICES ASSUME NEW i \in 0 .. n, ToSet(f[i]) = G(i), i < n
                 PROVE  ToSet(f[i + 1]) = G(i + 1)
    <3> HIDE DEF G
    <3> QED
      BY <1>3
  <2>2. i + 1 \in 1 .. n /\ (i + 1) - 1 = i
    BY <1>3, <2>1
  <2>3. f[i + 1] = IF s[i + 1] \in DOMAIN m THEN Append(f[i], m[s[i + 1]]) ELSE f[i]
    BY <1>1, <2>2 DEF Fronts
  <2>4. 1 .. i + 1 = (1 .. i) \cup {i + 1}
    BY <1>3, <2>1
  <2>5. {s[j] : j \in 1 .. i + 1} = {s[j] : j \in 1 .. i} \cup {s[i + 1]}
    BY <2>4, Zenon
  <2>6. CASE s[i + 1] \in DOMAIN m
    <3>1. m[s[i + 1]] \in V /\ f[i] \in Seq(V)
      BY <1>2, <1>3, <2>2, <2>6 DEF Maps
    <3>2. ToSet(f[i + 1]) = ToSet(f[i]) \cup {m[s[i + 1]]}
      BY <2>3, <2>6, <3>1, ToSetAppend
    <3>3. G(i + 1) = G(i) \cup {m[s[i + 1]]}
      BY <2>5, <2>6
    <3> HIDE DEF G
    <3> QED
      BY <2>1, <3>2, <3>3
  <2>7. CASE s[i + 1] \notin DOMAIN m
    <3>1. G(i + 1) = G(i)
      BY <2>5, <2>7
    <3> HIDE DEF G
    <3> QED
      BY <2>1, <2>3, <2>7, <3>1
  <2> QED
    BY <2>6, <2>7
<1> HIDE DEF N
<1>6. \A i \in 0 .. n : i \in N
  BY <1>3, <1>4, <1>5, UpTo
<1>7. n \in N
  BY <1>3, <1>6
<1> QED
  BY <1>1, <1>3, <1>7 DEF N

(* A filter keeps the elements of the set, and no others. *)
LEMMA FilterElements ==
  ASSUME NEW T, NEW s \in Seq(T), NEW S
  PROVE  /\ Filter(s, S) \in Seq(T)
         /\ ToSet(Filter(s, S)) = ToSet(s) \cap S
<1> DEFINE m == [x \in S |-> x]
<1>1. Maps(m, T, T)
  BY DEF Maps
<1>2. {m[x] : x \in ToSet(s) \cap DOMAIN m} = ToSet(s) \cap S
  OBVIOUS
<1>3. Filter(s, S) = CompactMap(s, m)
  BY DEF Filter
<1> HIDE DEF m
<1> QED
  BY <1>1, <1>2, <1>3, MapType, MapElements

(* The sequences s and t are mapped at the same positions, to pairs of P. *)
MappedAlike(s, m, t, k, P) ==
  /\ Len(s) = Len(t)
  /\ \A i \in 1 .. Len(s) : /\ s[i] \in DOMAIN m <=> t[i] \in DOMAIN k
                            /\ s[i] \in DOMAIN m => <<m[s[i]], k[t[i]]>> \in P

(* Their elements, position by position, are pairs of P. *)
Paired(a, b, P) == Len(a) = Len(b) /\ \A j \in 1 .. Len(a) : <<a[j], b[j]>> \in P

(* Two lists that are mapped alike, position by position, give lists whose *)
(* elements go together in the same way.                                   *)
LEMMA MapTogether ==
  ASSUME NEW T, NEW s \in Seq(T), NEW V, NEW m, Maps(m, T, V),
         NEW U, NEW t \in Seq(U), NEW W, NEW k, Maps(k, U, W), NEW P,
         MappedAlike(s, m, t, k, P)
  PROVE  Paired(CompactMap(s, m), CompactMap(t, k), P)
<1> DEFINE n == Len(s)
<1>0. Len(t) = n
  BY DEF MappedAlike
<1>1. PICK f : Fronts(s, m, f, n) /\ CompactMap(s, m) = f[n]
  BY MapFronts
<1>2. PICK g : Fronts(t, k, g, n) /\ CompactMap(t, k) = g[n]
  BY <1>0, MapFronts
<1>3. /\ \A i \in 0 .. n : f[i] \in Seq(V)
      /\ \A i \in 0 .. n : g[i] \in Seq(W)
  BY <1>0, <1>1, <1>2, FrontsType
<1>4. n \in Nat /\ (\A i \in 1 .. n : s[i] \in T) /\ (\A i \in 1 .. n : t[i] \in U)
  BY <1>0, SeqFacts
<1>5. \A i \in 1 .. n : /\ s[i] \in DOMAIN m <=> t[i] \in DOMAIN k
                        /\ s[i] \in DOMAIN m => <<m[s[i]], k[t[i]]>> \in P
  BY DEF MappedAlike
<1> DEFINE N == {i \in Nat : Paired(f[i], g[i], P)}
<1> HIDE DEF n
<1>6. 0 \in N
  <2>1. f[0] = <<>> /\ g[0] = <<>>
    BY <1>1, <1>2 DEF Fronts
  <2>2. Paired(<<>>, <<>>, P)
    BY DEF Paired
  <2> QED
    BY <2>1, <2>2
<1>7. \A i \in 0 .. n : i \in N /\ i < n => i + 1 \in N
  <2>1. SUFFICES ASSUME NEW i \in 0 .. n, Paired(f[i], g[i], P), i < n
                 PROVE  Paired(f[i + 1], g[i + 1], P)
    BY <1>4
  <2>2. i + 1 \in 1 .. n /\ (i + 1) - 1 = i
    BY <1>4, <2>1
  <2>3. /\ f[i + 1] = IF s[i + 1] \in DOMAIN m THEN Append(f[i], m[s[i + 1]]) ELSE f[i]
        /\ g[i + 1] = IF t[i + 1] \in DOMAIN k THEN Append(g[i], k[t[i + 1]]) ELSE g[i]
    BY <1>1, <1>2, <2>2 DEF Fronts
  <2>4. CASE s[i + 1] \in DOMAIN m
    <3>1. PICK a, b, x, y : a = f[i] /\ b = g[i] /\ x = m[s[i + 1]] /\ y = k[t[i + 1]]
      OBVIOUS
    <3>2. x \in V /\ y \in W /\ a \in Seq(V) /\ b \in Seq(W)
      BY <1>3, <1>4, <1>5, <2>2, <2>4, <3>1 DEF Maps
    <3>3. <<x, y>> \in P /\ Paired(a, b, P)
      BY <1>5, <2>1, <2>2, <2>4, <3>1
    <3>4. f[i + 1] = Append(a, x) /\ g[i + 1] = Append(b, y)
      BY <1>5, <2>2, <2>3, <2>4, <3>1
    <3>5. Paired(Append(a, x), Append(b, y), P)
      BY <3>2, <3>3 DEF Paired
    <3> QED
      BY <3>4, <3>5
  <2>5. CASE s[i + 1] \notin DOMAIN m
    BY <1>5, <2>1, <2>2, <2>3, <2>5
  <2> QED
    BY <2>4, <2>5
<1> HIDE DEF N
<1>8. \A i \in 0 .. n : i \in N
  BY <1>4, <1>6, <1>7, UpTo
<1>9. n \in N
  BY <1>4, <1>8
<1>10. Paired(f[n], g[n], P)
  BY <1>9 DEF N
<1> QED
  BY <1>1, <1>2, <1>10

----------------------------------------------------------------------------
(* The queues f, each mapped by m. *)
MapQueues(f, m) == [v \in DOMAIN f |-> CompactMap(f[v], m)]

(* Queues that are mapped are queues of values. *)
LEMMA MappedType ==
  ASSUME NEW D, NEW T, NEW f \in Queues(D, T), NEW V, NEW m, Maps(m, T, V)
  PROVE  /\ MapQueues(f, m) \in Queues(D, V)
         /\ \A v \in D : MapQueues(f, m)[v] = CompactMap(f[v], m)
<1>1. \A v \in D : CompactMap(f[v], m) \in Seq(V)
  <2>1. \A v \in D : f[v] \in Seq(T)
    BY DEF Queues
  <2> QED
    BY <2>1, MapType
<1> QED
  BY <1>1 DEF MapQueues, Queues

(* The queues that one queue was changed in, mapped. *)
LEMMA MappedChange ==
  ASSUME NEW D, NEW T, NEW f \in Queues(D, T), NEW u \in D, NEW V, NEW m, Maps(m, T, V),
         NEW s, NEW g, ChangedAt(f, g, u, s)
  PROVE  /\ g[u] = s
         /\ ChangedAt(MapQueues(f, m), MapQueues(g, m), u, CompactMap(s, m))
<1>1. /\ DOMAIN f = D /\ DOMAIN g = D /\ g[u] = s
      /\ \A v \in D : g[v] = IF v = u THEN s ELSE f[v]
  BY DEF ChangedAt, Queues
<1>2. /\ DOMAIN MapQueues(f, m) = D /\ DOMAIN MapQueues(g, m) = D
      /\ \A v \in D : MapQueues(f, m)[v] = CompactMap(f[v], m)
      /\ \A v \in D : MapQueues(g, m)[v] = CompactMap(g[v], m)
      /\ MapQueues(g, m) = [v \in D |-> MapQueues(g, m)[v]]
  BY <1>1 DEF MapQueues
<1> QED
  BY <1>1, <1>2 DEF ChangedAt

(* A queue that is changed to what it was is not changed. *)
LEMMA ChangedToSame ==
  ASSUME NEW D, NEW T, NEW f \in Queues(D, T), NEW u \in D, NEW g,
         ChangedAt(f, g, u, f[u])
  PROVE  g = f
<1>1. DOMAIN f = D /\ DOMAIN g = D /\ f = [v \in D |-> f[v]] /\ g = [v \in D |-> g[v]]
  BY DEF ChangedAt, Queues
<1>2. \A v \in D : g[v] = f[v]
  BY <1>1 DEF ChangedAt
<1> QED
  BY <1>1, <1>2

(* A change, written with EXCEPT. *)
LEMMA ChangedIs ==
  ASSUME NEW D, NEW T, NEW f \in Queues(D, T), NEW u \in D, NEW g, NEW s,
         ChangedAt(f, g, u, s)
  PROVE  g = [f EXCEPT ![u] = s]
<1>1. DOMAIN f = D /\ g = [v \in D |-> g[v]]
  BY DEF ChangedAt, Queues
<1>2. \A v \in D : g[v] = [f EXCEPT ![u] = s][v]
  BY <1>1 DEF ChangedAt
<1> QED
  BY <1>1, <1>2

(* One more element, mapped. *)
LEMMA MappedPushed ==
  ASSUME NEW D, NEW T, NEW f \in Queues(D, T), NEW u \in D, NEW x \in T,
         NEW g, Pushed(f, g, u, x), NEW V, NEW m, Maps(m, T, V)
  PROVE  /\ x \in DOMAIN m => Pushed(MapQueues(f, m), MapQueues(g, m), u, m[x])
         /\ x \notin DOMAIN m => MapQueues(g, m) = MapQueues(f, m)
<1>1. f[u] \in Seq(T)
  BY DEF Queues
<1>2. PICK s : s = Append(f[u], x)
  OBVIOUS
<1>3. ChangedAt(f, g, u, s)
  BY <1>2 DEF Pushed
<1>4. ChangedAt(MapQueues(f, m), MapQueues(g, m), u, CompactMap(s, m))
  BY <1>3, MappedChange
<1>5. CompactMap(s, m) = IF x \in DOMAIN m THEN Append(CompactMap(f[u], m), m[x])
                                           ELSE CompactMap(f[u], m)
  BY <1>1, <1>2, MapAppend
<1>6. MapQueues(f, m) \in Queues(D, V) /\ MapQueues(f, m)[u] = CompactMap(f[u], m)
  BY MappedType
<1>7. CASE x \in DOMAIN m
  BY <1>4, <1>5, <1>6, <1>7 DEF Pushed
<1>8. CASE x \notin DOMAIN m
  <2>1. ChangedAt(MapQueues(f, m), MapQueues(g, m), u, MapQueues(f, m)[u])
    BY <1>4, <1>5, <1>6, <1>8
  <2> QED
    BY <1>6, <1>8, <2>1, ChangedToSame
<1> QED
  BY <1>7, <1>8

(* The front of a queue leaves, mapped. *)
LEMMA MappedPopped ==
  ASSUME NEW D, NEW T, NEW f \in Queues(D, T), NEW u \in D,
         NEW g, Popped(f, g, u), NEW V, NEW m, Maps(m, T, V)
  PROVE  /\ Head(f[u]) \in DOMAIN m =>
              /\ Popped(MapQueues(f, m), MapQueues(g, m), u)
              /\ Head(MapQueues(f, m)[u]) = m[Head(f[u])]
         /\ Head(f[u]) \notin DOMAIN m => MapQueues(g, m) = MapQueues(f, m)
<1>1. f[u] \in Seq(T) /\ f[u] # <<>>
  BY DEF Queues, Popped
<1>2. PICK s, x : s = Tail(f[u]) /\ x = Head(f[u])
  OBVIOUS
<1>3. ChangedAt(f, g, u, s) /\ s \in Seq(T) /\ x \in T
  BY <1>1, <1>2 DEF Popped
<1>4. ChangedAt(MapQueues(f, m), MapQueues(g, m), u, CompactMap(s, m))
  BY <1>3, MappedChange
<1>5. /\ x \in DOMAIN m => CompactMap(f[u], m) = <<m[x]>> \o CompactMap(s, m)
      /\ x \notin DOMAIN m => CompactMap(f[u], m) = CompactMap(s, m)
  BY <1>1, <1>2, MapHead
<1>6. MapQueues(f, m) \in Queues(D, V) /\ MapQueues(f, m)[u] = CompactMap(f[u], m)
  BY MappedType
<1>7. CASE x \in DOMAIN m
  <2>1. PICK y, r, q : y = m[x] /\ r = CompactMap(s, m) /\ q = CompactMap(f[u], m)
    OBVIOUS
  <2>2. y \in V /\ r \in Seq(V) /\ q = <<y>> \o r
    <3>1. r \in Seq(V)
      BY <1>3, <2>1, MapType
    <3> QED
      BY <1>3, <1>5, <1>7, <2>1, <3>1 DEF Maps
  <2>3. q # <<>> /\ Head(q) = y /\ Tail(q) = r
    BY <2>2
  <2> QED
    BY <1>2, <1>4, <1>6, <1>7, <2>1, <2>3 DEF Popped
<1>8. CASE x \notin DOMAIN m
  <2>1. ChangedAt(MapQueues(f, m), MapQueues(g, m), u, MapQueues(f, m)[u])
    BY <1>4, <1>5, <1>6, <1>8
  <2> QED
    BY <1>2, <1>6, <1>8, <2>1, ChangedToSame
<1> QED
  BY <1>2, <1>7, <1>8

(* The elements of a queue are replaced, and so are their values. *)
LEMMA MappedRewritten ==
  ASSUME NEW D, NEW T, NEW f \in Queues(D, T), NEW u \in D, NEW V, NEW m, Maps(m, T, V),
         NEW t, NEW g, Rewritten(f, g, u, t, T), NEW h,
         \A i \in DOMAIN f[u] :
           /\ f[u][i] \in DOMAIN m <=> t[i] \in DOMAIN m
           /\ f[u][i] \in DOMAIN m => m[t[i]] = h[m[f[u][i]]]
  PROVE  ChangedAt(MapQueues(f, m), MapQueues(g, m), u,
                   [i \in DOMAIN MapQueues(f, m)[u] |-> h[MapQueues(f, m)[u][i]]])
<1>1. PICK s : s = f[u]
  OBVIOUS
<1>2. s \in Seq(T) /\ \A i \in DOMAIN s : s[i] \in T
  BY <1>1, SeqFacts DEF Queues
<1>3. ChangedAt(f, g, u, t) /\ t \in Seq(T) /\ DOMAIN t = DOMAIN s /\ Len(t) = Len(s)
  BY <1>1, <1>2, Replaced DEF Rewritten
<1>4. DOMAIN s = 1 .. Len(s)
  BY <1>2
<1> DEFINE P == {<<y, h[y]>> : y \in V}
<1>5. ASSUME NEW i \in 1 .. Len(s)
      PROVE  /\ s[i] \in DOMAIN m <=> t[i] \in DOMAIN m
             /\ s[i] \in DOMAIN m => <<m[s[i]], m[t[i]]>> \in P
  <2>1. /\ s[i] \in DOMAIN m <=> t[i] \in DOMAIN m
        /\ s[i] \in DOMAIN m => m[t[i]] = h[m[s[i]]] /\ m[s[i]] \in V
    BY <1>1, <1>2, <1>4 DEF Maps
  <2> QED
    BY <2>1
<1> HIDE DEF P
<1>6. PICK a, b : a = CompactMap(s, m) /\ b = CompactMap(t, m)
  OBVIOUS
<1>7. a \in Seq(V) /\ b \in Seq(V)
  BY <1>2, <1>3, <1>6, MapType
<1>8. Len(a) = Len(b) /\ \A j \in 1 .. Len(a) : <<a[j], b[j]>> \in P
  <2>1. MappedAlike(s, m, t, m, P)
    BY <1>3, <1>5 DEF MappedAlike
  <2>2. Paired(CompactMap(s, m), CompactMap(t, m), P)
    BY <1>2, <1>3, <2>1, MapTogether
  <2> QED
    BY <1>6, <2>2 DEF Paired
<1>9. \A j \in 1 .. Len(a) : b[j] = h[a[j]]
  BY <1>8 DEF P
<1>10. /\ a = [i \in 1 .. Len(a) |-> a[i]] /\ b = [i \in 1 .. Len(a) |-> b[i]]
       /\ DOMAIN a = 1 .. Len(a)
  BY <1>7, <1>8
<1>11. b = [i \in DOMAIN a |-> h[a[i]]]
  BY <1>9, <1>10
<1>12. ChangedAt(MapQueues(f, m), MapQueues(g, m), u, b)
  BY <1>3, <1>6, MappedChange
<1>13. MapQueues(f, m)[u] = a
  BY <1>1, <1>6, MappedType
<1> QED
  BY <1>11, <1>12, <1>13

(* What a map does not tell apart may be replaced. *)
LEMMA MappedSame ==
  ASSUME NEW D, NEW T, NEW f \in Queues(D, T), NEW u \in D, NEW V, NEW m, Maps(m, T, V),
         NEW t, NEW g, Rewritten(f, g, u, t, T),
         \A i \in DOMAIN f[u] :
           /\ f[u][i] \in DOMAIN m <=> t[i] \in DOMAIN m
           /\ f[u][i] \in DOMAIN m => m[t[i]] = m[f[u][i]]
  PROVE  MapQueues(g, m) = MapQueues(f, m)
<1> DEFINE h == [y \in V |-> y]
<1>1. \A y \in V : h[y] = y
  OBVIOUS
<1> HIDE DEF h
<1>2. \A i \in DOMAIN f[u] : f[u][i] \in DOMAIN m => m[f[u][i]] \in V
  <2>1. f[u] \in Seq(T)
    BY DEF Queues
  <2> QED
    BY <2>1, SeqFacts DEF Maps
<1>3. \A i \in DOMAIN f[u] :
        /\ f[u][i] \in DOMAIN m <=> t[i] \in DOMAIN m
        /\ f[u][i] \in DOMAIN m => m[t[i]] = h[m[f[u][i]]]
  BY <1>1, <1>2
<1>4. PICK F, G : F = MapQueues(f, m) /\ G = MapQueues(g, m)
  OBVIOUS
<1>5. F \in Queues(D, V) /\ F[u] \in Seq(V)
  BY <1>4, MappedType DEF Queues
<1>6. ChangedAt(F, G, u, [i \in DOMAIN F[u] |-> h[F[u][i]]])
  BY <1>3, <1>4, MappedRewritten
<1>7. [i \in DOMAIN F[u] |-> h[F[u][i]]] = F[u]
  <2>1. PICK r : r = F[u]
    OBVIOUS
  <2>2. r \in Seq(V) /\ (\A i \in DOMAIN r : r[i] \in V) /\ r = [i \in DOMAIN r |-> r[i]]
    BY <1>5, <2>1, SeqFacts
  <2>3. [i \in DOMAIN r |-> h[r[i]]] = r
    BY <1>1, <2>2
  <2> QED
    BY <2>1, <2>3
<1>8. ChangedAt(F, G, u, F[u])
  BY <1>6, <1>7
<1> QED
  BY <1>4, <1>5, <1>8, ChangedToSame

(* Lengths after an element has come or gone. *)
LEMMA PushedCount ==
  ASSUME NEW D, NEW T, NEW f \in Queues(D, T), NEW u \in D, NEW x \in T, NEW g,
         Pushed(f, g, u, x)
  PROVE  /\ Len(g[u]) = Len(f[u]) + 1
         /\ g = [f EXCEPT ![u] = Append(f[u], x)]
         /\ \A v \in D : v # u => g[v] = f[v]
<1>1. f[u] \in Seq(T) /\ DOMAIN f = D
  BY DEF Queues
<1>2. PICK s : s = Append(f[u], x)
  OBVIOUS
<1>3. ChangedAt(f, g, u, s) /\ Len(s) = Len(f[u]) + 1
  BY <1>1, <1>2 DEF Pushed
<1>4. g = [f EXCEPT ![u] = s]
  BY <1>3, ChangedIs
<1> QED
  BY <1>1, <1>2, <1>3, <1>4 DEF ChangedAt

(* One element less. *)
LEMMA PoppedCount ==
  ASSUME NEW D, NEW T, NEW f \in Queues(D, T), NEW u \in D, NEW g, Popped(f, g, u)
  PROVE  /\ f[u] # <<>> /\ Len(g[u]) = Len(f[u]) - 1
         /\ g = [f EXCEPT ![u] = Tail(f[u])]
         /\ \A v \in D : v # u => g[v] = f[v]
<1>1. f[u] \in Seq(T) /\ DOMAIN f = D /\ f[u] # <<>>
  BY DEF Queues, Popped
<1>2. PICK s : s = Tail(f[u])
  OBVIOUS
<1>3. ChangedAt(f, g, u, s) /\ Len(s) = Len(f[u]) - 1
  BY <1>1, <1>2 DEF Popped
<1>4. g = [f EXCEPT ![u] = s]
  BY <1>3, ChangedIs
<1> QED
  BY <1>1, <1>2, <1>3, <1>4 DEF ChangedAt

(* What is filtered out of a list without repetition has none. *)
LEMMA FilterInjective ==
  ASSUME NEW T, NEW s \in Seq(T), IsInjective(s), NEW S
  PROVE  IsInjective(Filter(s, S))
<1> DEFINE n == Len(s)
           m == [x \in S |-> x]
<1>1. Maps(m, T, T) /\ DOMAIN m = S /\ \A x \in S : m[x] = x
  BY DEF Maps
<1>2. Filter(s, S) = CompactMap(s, m)
  BY DEF Filter
<1> HIDE DEF m
<1>3. PICK f : Fronts(s, m, f, n) /\ CompactMap(s, m) = f[n]
  BY MapFronts
<1>4. \A i \in 0 .. n : f[i] \in Seq(T)
  BY <1>1, <1>3, FrontsType
<1>5. n \in Nat /\ DOMAIN s = 1 .. n /\ \A i \in 1 .. n : s[i] \in T
  BY SeqFacts
<1> DEFINE G(k) == {s[i] : i \in 1 .. k}
           N == {k \in Nat : IsInjective(f[k]) /\ ToSet(f[k]) \subseteq G(k)}
<1> HIDE DEF n
<1>6. 0 \in N
  <2>1. f[0] = <<>>
    BY <1>3 DEF Fronts
  <2>2. IsInjective(<<>>)
    BY DEF IsInjective
  <2> QED
    BY <2>1, <2>2, ToSetEmpty
<1>7. \A i \in 0 .. n : i \in N /\ i < n => i + 1 \in N
  <2>1. SUFFICES ASSUME NEW i \in 0 .. n, IsInjective(f[i]), ToSet(f[i]) \subseteq G(i), i < n
                 PROVE  IsInjective(f[i + 1]) /\ ToSet(f[i + 1]) \subseteq G(i + 1)
    <3> HIDE DEF G
    <3> QED
      BY <1>5
  <2>2. i + 1 \in 1 .. n /\ (i + 1) - 1 = i
    BY <1>5, <2>1
  <2>3. f[i + 1] = IF s[i + 1] \in DOMAIN m THEN Append(f[i], m[s[i + 1]]) ELSE f[i]
    BY <1>3, <2>2 DEF Fronts
  <2>4. 1 .. i + 1 = (1 .. i) \cup {i + 1} /\ \A j \in 1 .. i : j \in 1 .. n /\ j # i + 1
    BY <1>5, <2>1
  <2>5. G(i + 1) = G(i) \cup {s[i + 1]}
    BY <2>4, Zenon
  <2>6. s[i + 1] \notin G(i)
    BY <1>5, <2>2, <2>4 DEF IsInjective
  <2>7. PICK t, x : t = f[i] /\ x = s[i + 1]
    OBVIOUS
  <2>8. t \in Seq(T) /\ x \in T
    BY <1>4, <1>5, <2>2, <2>7
  <2> HIDE DEF G
  <2>9. CASE x \in S
    <3>1. f[i + 1] = Append(t, x)
      BY <1>1, <2>3, <2>7, <2>9
    <3>2. x \notin ToSet(t) /\ IsInjective(t)
      BY <2>1, <2>6, <2>7
    <3>3. IsInjective(Append(t, x)) /\ ToSet(Append(t, x)) = ToSet(t) \cup {x}
      BY <2>8, <3>2, InjectiveAppend, ToSetAppend
    <3> QED
      BY <2>1, <2>5, <2>7, <3>1, <3>3
  <2>10. CASE x \notin S
    BY <1>1, <2>1, <2>3, <2>5, <2>7, <2>10
  <2> QED
    BY <2>9, <2>10
<1> HIDE DEF N
<1>8. \A i \in 0 .. n : i \in N
  BY <1>5, <1>6, <1>7, UpTo
<1>9. n \in N
  BY <1>5, <1>8
<1> QED
  BY <1>2, <1>3, <1>9 DEF N

----------------------------------------------------------------------------
(* One element of X at most is on its way, in s or in t. *)
LoneIn(s, t, X) == Single(s, X) /\ Single(t, X) /\ ~(Has(s, X) /\ Has(t, X))

(* It may come where there is none. *)
LEMMA LoneGained ==
  ASSUME NEW T, NEW s \in Seq(T), NEW x \in T, NEW s2, Gained(s, s2, x),
         NEW X, Single(s, X), x \in X => ~Has(s, X)
  PROVE  Single(s2, X)
<1>1. x \in X => \A y \in ToSet(s) : y \notin X
  BY HasElement
<1> QED
  BY <1>1, SingleAppend DEF Gained

(* When it goes, none is left. *)
LEMMA LoneLost ==
  ASSUME NEW T, NEW s \in Seq(T), NEW x, NEW s2, Lost(s, s2, x), NEW X, Single(s, X)
  PROVE  Single(s2, X) /\ (x \in X => ~Has(s2, X))
<1>1. Single(Tail(s), X) /\ (Head(s) \in X => \A y \in ToSet(Tail(s)) : y \notin X)
  BY SingleTail DEF Lost
<1>2. s2 = Tail(s) /\ x = Head(s)
  BY DEF Lost
<1> QED
  BY <1>1, <1>2, HasElement

(* It stays the only one when it moves from s to t. *)
LEMMA LoneMoved ==
  ASSUME NEW T, NEW s \in Seq(T), NEW w, NEW s2, Lost(s, s2, w),
         NEW U, NEW t \in Seq(U), NEW x \in U, NEW t2, Gained(t, t2, x),
         NEW X, w \in X <=> x \in X
  PROVE  /\ Has(s2, X) \/ Has(t2, X) <=> Has(s, X) \/ Has(t, X)
         /\ LoneIn(s, t, X) => LoneIn(s2, t2, X)
<1>1. Has(s, X) <=> Has(s2, X) \/ w \in X
  BY LostFacts
<1>2. Has(t2, X) <=> Has(t, X) \/ x \in X
  BY GainedFacts
<1>3. ASSUME LoneIn(s, t, X) PROVE LoneIn(s2, t2, X)
  <2>1. Single(s, X) /\ Single(t, X) /\ ~(Has(s, X) /\ Has(t, X))
    BY <1>3 DEF LoneIn
  <2>2. Single(s2, X) /\ (w \in X => ~Has(s2, X))
    BY <2>1, LoneLost
  <2>3. Single(t2, X)
    BY <1>1, <2>1, LoneGained
  <2> QED
    BY <1>1, <1>2, <2>1, <2>2, <2>3 DEF LoneIn
<1> QED
  BY <1>1, <1>2, <1>3
=============================================================================
