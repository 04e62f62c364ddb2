--------------------------- MODULE CommentsProofs ---------------------------
(***************************************************************************)
(* Proofs that every comment screen lists every comment once, that owners  *)
(* hear of the comments of others, and that no text is lost or posted      *)
(* twice but while a comment of the same screen is on its way, for any     *)
(* users and any number of comments, screens, texts and faults.            *)
(***************************************************************************)
EXTENDS Comments, SequenceLemmas

----------------------------------------------------------------------------
(* The numbers in S, each once, from the largest to the smallest. *)
Descending(r, S) ==
  /\ r \in SetToSeqs(S)
  /\ \A i, j \in DOMAIN r : i < j => r[i] > r[j]

(* The smallest number goes to the end. *)
LEMMA OneMoreSorted ==
  ASSUME NEW S \in SUBSET Nat, IsFiniteSet(S), NEW m \in S, \A x \in S : m <= x,
         NEW r, Descending(r, S \ {m})
  PROVE  \E q : Descending(q, S)
<1> DEFINE n == Cardinality(S)
           q == [i \in 1 .. n |-> IF i = n THEN m ELSE r[i]]
<1>1. n \in Nat /\ Cardinality(S \ {m}) = n - 1 /\ n - 1 \in Nat
  BY FS_CardinalityType, FS_RemoveElement, ZenonT(60)
<1>2. /\ r \in [1 .. n - 1 -> S \ {m}]
      /\ \A i, j \in 1 .. n - 1 : i # j => r[i] # r[j]
      /\ \A i, j \in 1 .. n - 1 : i < j => r[i] > r[j]
  <2>1. r \in SetToSeqs(S \ {m}) /\ \A i, j \in DOMAIN r : i < j => r[i] > r[j]
    BY DEF Descending
  <2> HIDE DEF n
  <2>2. /\ r \in [1 .. n - 1 -> S \ {m}]
        /\ \A i, j \in 1 .. n - 1 : i # j => r[i] # r[j]
    BY <1>1, <2>1 DEF SetToSeqs
  <2> QED
    BY <2>1, <2>2
<1> HIDE DEF n
<1>3. q \in [1 .. n -> S]
  BY <1>1, <1>2
<1>4. \A i, j \in 1 .. n : i < j => q[i] > q[j]
  <2>1. SUFFICES ASSUME NEW i \in 1 .. n, NEW j \in 1 .. n, i < j PROVE q[i] > q[j]
    OBVIOUS
  <2>2. i \in 1 .. n - 1 /\ q[i] = r[i] /\ r[i] \in S /\ r[i] # m
    BY <1>1, <1>2, <2>1
  <2>3. CASE j = n
    <3>1. q[j] = m /\ m <= r[i] /\ m \in Nat /\ r[i] \in Nat
      BY <2>1, <2>2, <2>3
    <3> QED
      BY <2>2, <3>1
  <2>4. CASE j # n
    BY <1>1, <1>2, <2>1, <2>2, <2>4
  <2> QED
    BY <2>3, <2>4
<1> HIDE DEF q
<1>5. \A i, j \in 1 .. n : i # j => q[i] # q[j]
  <2>1. \A i \in 1 .. n : q[i] \in Nat
    BY <1>3
  <2>2. \A i, j \in 1 .. n : i # j => i < j \/ j < i
    BY <1>1
  <2>3. \A i, j \in 1 .. n : q[i] > q[j] => q[i] # q[j]
    BY <2>1
  <2> QED
    BY <1>4, <2>2, <2>3
<1>6. q \in SetToSeqs(S)
  BY <1>3, <1>5 DEF SetToSeqs, n
<1>7. Descending(q, S)
  BY <1>3, <1>4, <1>6 DEF Descending
<1> QED
  BY <1>7

(* Every finite set of numbers can be sorted. *)
LEMMA SortedExists ==
  ASSUME NEW S \in SUBSET Nat, IsFiniteSet(S)
  PROVE  \E r : Descending(r, S)
<1> DEFINE Stuck(T) == T \in SUBSET Nat /\ IsFiniteSet(T) /\ ~(\E r : Descending(r, T))
           N == {n \in Nat : \E T \in SUBSET Nat : Stuck(T) /\ n = Cardinality(T)}
<1>1. SUFFICES ASSUME Stuck(S) PROVE FALSE
  OBVIOUS
<1>2. Cardinality(S) \in N
  BY <1>1, FS_CardinalityType
<1>3. N \in SUBSET Nat /\ N # {}
  BY <1>2
<1>4. PICK n \in N : \A k \in N : n <= k
  <2> HIDE DEF N
  <2> QED
    BY <1>3, Smallest
<1>5. PICK T \in SUBSET Nat : Stuck(T) /\ n = Cardinality(T)
  BY <1>4
<1>6. T # {}
  <2>1. SUFFICES ASSUME T = {} PROVE FALSE
    OBVIOUS
  <2> DEFINE e == [i \in 1 .. 0 |-> 0]
  <2>2. Cardinality(T) = 0
    BY <2>1, FS_EmptySet
  <2>3. e \in [1 .. 0 -> T] /\ 1 .. 0 = {}
    BY <2>1
  <2>4. e \in SetToSeqs(T)
    BY <2>2, <2>3 DEF SetToSeqs
  <2>5. Descending(e, T)
    BY <2>3, <2>4 DEF Descending
  <2> QED
    BY <1>5, <2>5
<1>7. PICK m \in T : \A x \in T : m <= x
  BY <1>6, Smallest
<1> DEFINE R == T \ {m}
<1>8. R \in SUBSET Nat /\ IsFiniteSet(R) /\ Cardinality(R) = n - 1 /\ n \in Nat
  BY <1>5, <1>7, FS_RemoveElement, FS_CardinalityType
<1>9. Cardinality(R) \in Nat /\ n - 1 < n
  BY <1>8, FS_CardinalityType
<1>10. ~Stuck(R)
  <2>1. SUFFICES ASSUME Stuck(R) PROVE FALSE
    OBVIOUS
  <2>2. n - 1 \in N
    BY <1>8, <1>9, <2>1
  <2> HIDE DEF N
  <2>3. n <= n - 1
    BY <1>4, <2>2
  <2> QED
    BY <1>9, <2>3, <1>8
<1>11. PICK r : Descending(r, R)
  BY <1>8, <1>10
<1>12. \E q : Descending(q, T)
  BY <1>5, <1>7, <1>11, OneMoreSorted
<1> QED
  BY <1>5, <1>12

(* What the first snapshot of a listener holds, in the order of the query. *)
LEMMA NewestFirstIs ==
  ASSUME NEW S \in SUBSET Nat, IsFiniteSet(S)
  PROVE  /\ NewestFirst(S) \in Seq(Nat)
         /\ ToSet(NewestFirst(S)) = S
         /\ IsInjective(NewestFirst(S))
<1> DEFINE f == NewestFirst(S)  n == Cardinality(S)
<1>1. f \in SetToSeqs(S)
  <2>1. PICK r : Descending(r, S)
    BY SortedExists
  <2>2. \E q \in SetToSeqs(S) : \A i, j \in DOMAIN q : i < j => q[i] > q[j]
    BY <2>1 DEF Descending
  <2> QED
    BY <2>2 DEF NewestFirst
<1>2. /\ n \in Nat
      /\ f \in [1 .. n -> S]
      /\ \A i, j \in 1 .. n : i # j => f[i] # f[j]
  BY <1>1, FS_CardinalityType DEF SetToSeqs
<1> HIDE DEF f
<1>3. f \in Seq(S) /\ Len(f) = n /\ DOMAIN f = 1 .. n
  <2>1. f \in UNION {[1 .. m -> S] : m \in Nat}
    BY <1>2, Zenon
  <2>2. f \in Seq(S)
    BY <2>1, SeqDef, Zenon
  <2>3. DOMAIN f = 1 .. n
    BY <1>2
  <2> HIDE DEF n
  <2> QED
    BY <1>2, <2>2, <2>3, LenProperties
<1>4. IsInjective(f)
  BY <1>2, <1>3 DEF IsInjective
<1>5. ToSet(f) \subseteq S /\ Cardinality(ToSet(f)) = Cardinality(S)
  <2>1. ToSet(f) \subseteq S
    BY <1>3, ToSetType
  <2>2. Cardinality(ToSet(f)) = n
    BY <1>3, <1>4, InjectiveCount
  <2> QED
    BY <2>1, <2>2
<1>6. ToSet(f) = S
  BY <1>5, FS_Subset
<1>7. f \in Seq(Nat)
  <2>1. f \in [1 .. n -> Nat]
    BY <1>2
  <2>2. f \in UNION {[1 .. m -> Nat] : m \in Nat}
    BY <1>2, <2>1, Zenon
  <2> QED
    BY <2>2, SeqDef, Zenon
<1> QED
  BY <1>4, <1>6, <1>7 DEF f

----------------------------------------------------------------------------
(* The types of what the properties depend on. *)
Made == [author : Users, text : Nat]
Posting == [kind : {"comment", "notification"}, id : Nat, screen : Nat]
Reply == [kind : {"posted", "snapshot"}, ids : Seq(Nat), screen : Nat]
Page == [open : BOOLEAN, list : Seq(Nat), input : Nat]

TypeInv ==
  /\ made \in Seq(Made)
  /\ outbox \in Queues(Users, Posting)
  /\ handlers \in Queues(Users, Reply)
  /\ screens \in Queues(Users, Page)
  /\ cache \in [Users -> SUBSET Nat]
  /\ texts \in Nat
  /\ faults \in Nat

(* Comments are where they were made: on the backend, refused or in the     *)
(* outbox of their author, where their notification follows them unless the *)
(* author owns the post.                                                    *)
Issued(u, w) ==
  /\ w.id \in DOMAIN made
  /\ made[w.id].author = u
  /\ w.screen \in 0 .. Len(screens[u])
  /\ w.kind = "notification" => u # Owner /\ w.screen = 0
  /\ w.kind = "comment" /\ faults = 0 => w.screen # 0

Completed(u, h) ==
  /\ h.screen \in DOMAIN screens[u]
  /\ h.kind = "snapshot" => IsInjective(h.ids)
  /\ h.kind = "posted" =>
       \E i \in DOMAIN made : h.ids = <<i>> /\ made[i].author = u

WellFormed ==
  \A u \in Users :
    /\ \A w \in ToSet(outbox[u]) : Issued(u, w)
    /\ \A h \in ToSet(handlers[u]) : Completed(u, h)

(* The write of comment i. *)
WriteOf(i) == {w \in Posting : w.kind = "comment" /\ w.id = i}

(* A comment is written once: while it is queued, the backend neither has   *)
(* nor has refused it.                                                      *)
WrittenOnce ==
  /\ comments \subseteq DOMAIN made
  /\ refused \subseteq DOMAIN made
  /\ comments \cap refused = {}
  /\ \A u \in Users : cache[u] \subseteq comments
  /\ \A u \in Users, i \in DOMAIN made :
       /\ Single(outbox[u], WriteOf(i))
       /\ Has(outbox[u], WriteOf(i)) => i \notin comments /\ i \notin refused

(* The snapshots that tell screen s of comment i. *)
AddedTo(s, i) == {h \in Reply : h.kind = "snapshot" /\ h.screen = s /\ i \in ToSet(h.ids)}

(* The comments that the client of u knows of. *)
Known(u, i) == i \in cache[u] \/ Has(outbox[u], WriteOf(i))

(* A screen lists, or is about to be told of, each comment that its client  *)
(* knows of, once, and of no other but those that were refused.             *)
ToldOnce(u, s) ==
  LET list == screens[u][s].list
  IN  /\ IsInjective(list)
      /\ \A i \in Nat :
           /\ Single(handlers[u], AddedTo(s, i))
           /\ Has(handlers[u], AddedTo(s, i)) => i \notin ToSet(list)
           /\ Has(handlers[u], AddedTo(s, i)) \/ i \in ToSet(list)
                => Known(u, i) \/ i \in refused
           /\ Known(u, i) => Has(handlers[u], AddedTo(s, i)) \/ i \in ToSet(list)

ListsExact == \A u \in Users : \A s \in DOMAIN screens[u] : ToldOnce(u, s)

(* A comment on the backend is announced, or its completion or the write of *)
(* its notification is waiting.                                             *)
Announcing(u, i) ==
  \/ \E h \in ToSet(handlers[u]) : h.kind = "posted" /\ h.ids = <<i>>
  \/ \E w \in ToSet(outbox[u]) : w.kind = "notification" /\ w.id = i

AnnouncedInTime ==
  /\ \A i \in announced : i \in DOMAIN made /\ made[i].author # Owner
  /\ \A i \in comments :
       made[i].author # Owner /\ faults = 0
         => i \in announced \/ Announcing(made[i].author, i)

(* Every text typed is new, and is in one field only. *)
FieldsDistinct ==
  \A u, v \in Users : \A s \in DOMAIN screens[u], t \in DOMAIN screens[v] :
    screens[u][s].input = screens[v][t].input /\ screens[u][s].input # Nothing
      => u = v /\ s = t

TextsFresh ==
  /\ calm \subseteq 1 .. texts
  /\ \A i \in DOMAIN made : made[i].text <= texts
  /\ \A u \in Users : \A s \in DOMAIN screens[u] : screens[u][s].input <= texts
  /\ FieldsDistinct

(* Comment i of screen s is queued or its completion waits; or one of the   *)
(* comments of the screen is or does.                                       *)
Waiting(u, s, i) ==
  \/ \E w \in ToSet(outbox[u]) : w.kind = "comment" /\ w.id = i /\ w.screen = s
  \/ \E h \in ToSet(handlers[u]) : h.kind = "posted" /\ h.ids = <<i>> /\ h.screen = s

Busy(u, s) ==
  \/ \E w \in ToSet(outbox[u]) : w.screen = s
  \/ \E h \in ToSet(handlers[u]) : h.kind = "posted" /\ h.screen = s

(* A text that is still in its field after it was posted is in a comment    *)
(* whose completion will clear the field.                                   *)
FieldsPending ==
  \A u \in Users : \A s \in DOMAIN screens[u] : \A i \in DOMAIN made :
    made[i].text = screens[u][s].input /\ made[i].text # Nothing
      => made[i].author = u /\ Waiting(u, s, i)

(* A calm text is in its field or in a comment, and in a comment already    *)
(* when a completion is about to clear its field.                           *)
Posted(t) == \E i \in DOMAIN made : made[i].text = t

CalmKept ==
  /\ \A t \in calm :
       \/ Posted(t)
       \/ \E u \in Users : \E s \in DOMAIN screens[u] : screens[u][s].input = t
  /\ \A u \in Users : \A s \in DOMAIN screens[u] :
       screens[u][s].input \in calm /\ Busy(u, s) => Posted(screens[u][s].input)

CommentsInv ==
  /\ TypeInv
  /\ WellFormed
  /\ WrittenOnce
  /\ ListsExact
  /\ AnnouncedInTime
  /\ TextsFresh
  /\ FieldsPending
  /\ CalmKept

----------------------------------------------------------------------------
(* What joining two sequences does to elements of one kind. *)
LEMMA Joined ==
  ASSUME NEW T, NEW s \in Seq(T), NEW r \in Seq(T)
  PROVE  /\ \A X : Has(s \o r, X) <=> Has(s, X) \/ Has(r, X)
         /\ \A X : Single(s, X) /\ Single(r, X) /\ ~(Has(s, X) /\ Has(r, X))
                     => Single(s \o r, X)
         /\ IsInjective(s) /\ IsInjective(r) /\ ToSet(s) \cap ToSet(r) = {}
              => IsInjective(s \o r)
<1> DEFINE c == s \o r  m == Len(s)  n == Len(r)
<1>1. /\ m \in Nat /\ n \in Nat /\ DOMAIN s = 1 .. m /\ DOMAIN r = 1 .. n
      /\ DOMAIN c = 1 .. m + n
      /\ \A i \in 1 .. m + n : c[i] = IF i <= m THEN s[i] ELSE r[i - m]
  BY ConcatFacts
<1> HIDE DEF c, m, n
<1>2. \A i \in DOMAIN s : i \in DOMAIN c /\ c[i] = s[i]
  BY <1>1
<1>3. \A i \in DOMAIN r : m + i \in DOMAIN c /\ c[m + i] = r[i]
  BY <1>1
<1>4. \A i \in DOMAIN c : \/ (i \in DOMAIN s /\ c[i] = s[i])
                         \/ (i - m \in DOMAIN r /\ c[i] = r[i - m])
  BY <1>1
<1>5. \A i, j \in DOMAIN c : i - m = j - m => i = j
  BY <1>1
<1>6. \A X : Has(c, X) <=> Has(s, X) \/ Has(r, X)
  BY <1>2, <1>3, <1>4 DEF Has
<1>7. ASSUME NEW X, Single(s, X), Single(r, X), ~(Has(s, X) /\ Has(r, X))
      PROVE  Single(c, X)
  <2>1. SUFFICES ASSUME NEW i \in DOMAIN c, NEW j \in DOMAIN c, c[i] \in X, c[j] \in X
                 PROVE  i = j
    BY DEF Single
  <2>2. CASE Has(s, X)
    <3>1. \A k \in DOMAIN r : r[k] \notin X
      BY <1>7, <2>2 DEF Has
    <3>2. i \in DOMAIN s /\ c[i] = s[i] /\ j \in DOMAIN s /\ c[j] = s[j]
      BY <1>4, <2>1, <3>1
    <3> QED
      BY <1>7, <2>1, <3>2 DEF Single
  <2>3. CASE ~Has(s, X)
    <3>1. \A k \in DOMAIN s : s[k] \notin X
      BY <2>3 DEF Has
    <3>2. i - m \in DOMAIN r /\ c[i] = r[i - m] /\ j - m \in DOMAIN r /\ c[j] = r[j - m]
      BY <1>4, <2>1, <3>1
    <3>3. i - m = j - m
      BY <1>7, <2>1, <3>2 DEF Single
    <3> QED
      BY <1>5, <2>1, <3>3
  <2> QED
    BY <2>2, <2>3
<1>8. ASSUME IsInjective(s), IsInjective(r), ToSet(s) \cap ToSet(r) = {}
      PROVE  IsInjective(c)
  <2>1. \A i \in DOMAIN s, k \in DOMAIN r : s[i] # r[k]
    BY <1>8 DEF ToSet
  <2>2. SUFFICES ASSUME NEW i \in DOMAIN c, NEW j \in DOMAIN c, c[i] = c[j]
                 PROVE  i = j
    BY DEF IsInjective
  <2>3. CASE i \in DOMAIN s /\ c[i] = s[i]
    <3>1. j \in DOMAIN s /\ c[j] = s[j]
      BY <1>4, <2>1, <2>2, <2>3
    <3> QED
      BY <1>8, <2>2, <2>3, <3>1 DEF IsInjective
  <2>4. CASE i - m \in DOMAIN r /\ c[i] = r[i - m]
    <3>1. j - m \in DOMAIN r /\ c[j] = r[j - m]
      BY <1>4, <2>1, <2>2, <2>4
    <3>2. i - m = j - m
      BY <1>8, <2>2, <2>4, <3>1 DEF IsInjective
    <3> QED
      BY <1>5, <2>2, <3>2
  <2> QED
    BY <1>4, <2>2, <2>3, <2>4
<1> QED
  BY <1>6, <1>7, <1>8 DEF c

(* One more element joins a queue. *)
LEMMA OneMore ==
  ASSUME NEW D, NEW T, NEW f \in Queues(D, T), NEW u \in D, NEW x \in T,
         NEW g, Pushed(f, g, u, x)
  PROVE  /\ g \in Queues(D, T)
         /\ ToSet(g[u]) = ToSet(f[u]) \cup {x}
         /\ \A X : Has(g[u], X) <=> Has(f[u], X) \/ x \in X
         /\ \A X : Single(f[u], X) /\ (x \in X => ~Has(f[u], X)) => Single(g[u], X)
         /\ \A v \in D : v # u => g[v] = f[v]
<1>1. /\ g \in Queues(D, T)
      /\ ToSet(g[u]) = ToSet(f[u]) \cup {x}
      /\ \A v \in D : v # u => g[v] = f[v]
  BY QueuePushed
<1>2. f[u] \in Seq(T) /\ g[u] = Append(f[u], x)
  BY DEF Pushed, ChangedAt, Queues
<1>3. \A X : Has(g[u], X) <=> Has(f[u], X) \/ x \in X
  BY <1>1, HasElement
<1>4. ASSUME NEW X, Single(f[u], X), x \in X => ~Has(f[u], X)
      PROVE  Single(g[u], X)
  <2>1. x \in X => \A y \in ToSet(f[u]) : y \notin X
    BY <1>4, HasElement
  <2> QED
    BY <1>2, <1>4, <2>1, SingleAppend
<1> QED
  BY <1>1, <1>3, <1>4

(* More elements join a queue. *)
LEMMA ManyMore ==
  ASSUME NEW D, NEW T, NEW f \in Queues(D, T), NEW u \in D, NEW r \in Seq(T),
         NEW g, Extended(f, g, u, r, T)
  PROVE  /\ g \in Queues(D, T)
         /\ ToSet(g[u]) = ToSet(f[u]) \cup ToSet(r)
         /\ \A X : Has(g[u], X) <=> Has(f[u], X) \/ Has(r, X)
         /\ \A X : Single(f[u], X) /\ Single(r, X) /\ ~(Has(f[u], X) /\ Has(r, X))
                     => Single(g[u], X)
         /\ \A v \in D : v # u => g[v] = f[v]
<1>1. /\ g \in Queues(D, T)
      /\ ToSet(g[u]) = ToSet(f[u]) \cup ToSet(r)
      /\ \A v \in D : v # u => g[v] = f[v]
  BY QueueExtended
<1>2. f[u] \in Seq(T) /\ g[u] = f[u] \o r
  BY DEF Extended, ChangedAt, Queues
<1> QED
  BY <1>1, <1>2, Joined

(* The front leaves a queue. *)
LEMMA OneLess ==
  ASSUME NEW D, NEW T, NEW f \in Queues(D, T), NEW u \in D, NEW g, Popped(f, g, u)
  PROVE  /\ g \in Queues(D, T)
         /\ Head(f[u]) \in T
         /\ ToSet(f[u]) = {Head(f[u])} \cup ToSet(g[u])
         /\ \A X : Has(f[u], X) <=> Has(g[u], X) \/ Head(f[u]) \in X
         /\ \A X : Single(f[u], X) =>
                     Single(g[u], X) /\ (Head(f[u]) \in X => ~Has(g[u], X))
         /\ \A v \in D : v # u => g[v] = f[v]
<1>1. /\ g \in Queues(D, T)
      /\ Head(f[u]) \in T
      /\ ToSet(f[u]) = {Head(f[u])} \cup ToSet(g[u])
      /\ \A v \in D : v # u => g[v] = f[v]
  BY QueuePopped
<1>2. f[u] \in Seq(T) /\ f[u] # <<>> /\ g[u] = Tail(f[u])
  BY DEF Popped, ChangedAt, Queues
<1>3. \A X : Has(f[u], X) <=> Has(g[u], X) \/ Head(f[u]) \in X
  BY <1>1, HasElement
<1>4. ASSUME NEW X, Single(f[u], X)
      PROVE  Single(g[u], X) /\ (Head(f[u]) \in X => ~Has(g[u], X))
  <2>1. /\ Single(Tail(f[u]), X)
        /\ Head(f[u]) \in X => \A y \in ToSet(Tail(f[u])) : y \notin X
    BY <1>2, <1>4, SingleTail
  <2> QED
    BY <1>2, <2>1, HasElement
<1> QED
  BY <1>1, <1>3, <1>4

(* What the snapshots of several listeners tell them. *)
LEMMA SnapshotsAre ==
  ASSUME NEW a \in Nat \ {0}, NEW b \in Nat, a <= b + 1,
         NEW S \in SUBSET Nat, IsFiniteSet(S)
  PROVE  LET r == Snapshots(a, b, S)
         IN  /\ r \in Seq(Reply)
             /\ \A h \in ToSet(r) :
                  h.kind = "snapshot" /\ h.screen \in a .. b /\ IsInjective(h.ids)
             /\ \A s, i : Has(r, AddedTo(s, i)) <=> s \in a .. b /\ i \in S
             /\ \A s, i : Single(r, AddedTo(s, i))
<1> DEFINE r == Snapshots(a, b, S)  ids == NewestFirst(S)
<1>1. ids \in Seq(Nat) /\ ToSet(ids) = S /\ IsInjective(ids)
  BY NewestFirstIs
<1>2. CASE S = {}
  <2>1. r = <<>>
    BY <1>2 DEF Snapshots
  <2>2. r \in Seq(Reply) /\ ToSet(r) = {} /\ DOMAIN r = {}
    BY <2>1, ToSetEmpty
  <2> HIDE DEF r
  <2> QED
    BY <1>2, <2>2 DEF Has, Single, r
<1>3. CASE S # {}
  <2> DEFINE n == b - a + 1
  <2> HIDE DEF ids
  <2>1. n \in Nat
    OBVIOUS
  <2>2. r = [k \in 1 .. n |-> [kind |-> "snapshot", ids |-> ids, screen |-> a + k - 1]]
    BY <1>3 DEF Snapshots, ids
  <2>3. \A k \in 1 .. n : a + k - 1 \in Nat /\ a + k - 1 \in a .. b
    BY <2>1
  <2>4. \A k \in 1 .. n :
          [kind |-> "snapshot", ids |-> ids, screen |-> a + k - 1] \in Reply
    BY <1>1, <2>3 DEF Reply
  <2>5. r \in [1 .. n -> Reply]
    BY <2>2, <2>4
  <2> HIDE DEF n
  <2>6. r \in Seq(Reply)
    <3>1. r \in UNION {[1 .. m -> Reply] : m \in Nat}
      BY <2>1, <2>5, Zenon
    <3> QED
      BY <3>1, SeqDef, Zenon
  <2>7. DOMAIN r = 1 .. n
    BY <2>5
  <2>8. \A k \in DOMAIN r : /\ r[k].kind = "snapshot"
                            /\ r[k].ids = ids
                            /\ r[k].screen = a + k - 1
                            /\ r[k] \in Reply
    BY <2>2, <2>4, <2>7
  <2> HIDE DEF r
  <2>9. \A h \in ToSet(r) :
          h.kind = "snapshot" /\ h.screen \in a .. b /\ IsInjective(h.ids)
    <3>1. SUFFICES ASSUME NEW k \in DOMAIN r
                   PROVE  /\ r[k].kind = "snapshot"
                          /\ r[k].screen \in a .. b
                          /\ IsInjective(r[k].ids)
      BY DEF ToSet
    <3> QED
      BY <1>1, <2>3, <2>7, <2>8, <3>1
  <2>10. \A s, i : \A k \in DOMAIN r :
           r[k] \in AddedTo(s, i) <=> s = a + k - 1 /\ i \in S
    BY <1>1, <2>8 DEF AddedTo
  <2>11. ASSUME NEW s, NEW i
         PROVE  Has(r, AddedTo(s, i)) <=> s \in a .. b /\ i \in S
    <3>1. Has(r, AddedTo(s, i)) <=> \E k \in DOMAIN r : s = a + k - 1 /\ i \in S
      BY <2>10 DEF Has
    <3>2. (\E k \in 1 .. n : s = a + k - 1) <=> s \in a .. b
      <4>1. ASSUME s \in a .. b PROVE \E k \in 1 .. n : s = a + k - 1
        <5>1. s - a + 1 \in 1 .. n /\ s = a + (s - a + 1) - 1
          BY <4>1 DEF n
        <5> QED
          BY <5>1
      <4> QED
        BY <2>3, <4>1
    <3> QED
      BY <2>7, <3>1, <3>2
  <2>12. ASSUME NEW s, NEW i PROVE Single(r, AddedTo(s, i))
    <3>1. SUFFICES ASSUME NEW j \in DOMAIN r, NEW k \in DOMAIN r,
                          r[j] \in AddedTo(s, i), r[k] \in AddedTo(s, i)
                   PROVE  j = k
      BY DEF Single
    <3>2. s = a + j - 1 /\ s = a + k - 1
      BY <2>10, <3>1
    <3> QED
      BY <2>7, <2>1, <3>1, <3>2
  <2> QED
    BY <2>6, <2>9, <2>11, <2>12 DEF r
<1> QED
  BY <1>2, <1>3

----------------------------------------------------------------------------
(* What View and PostsOf compute. *)
LEMMA ViewIs ==
  ASSUME TypeInv, WellFormed, WrittenOnce, NEW u \in Users
  PROVE  /\ \A i : i \in View(u) <=> Known(u, i)
         /\ View(u) \in SUBSET Nat
         /\ IsFiniteSet(View(u))
<1>1. outbox[u] \in Seq(Posting) /\ made \in Seq(Made)
  BY DEF TypeInv, Queues
<1>2. DOMAIN made = 1 .. Len(made) /\ Len(made) \in Nat
  BY <1>1
<1>3. \A k \in DOMAIN outbox[u] : outbox[u][k] \in Posting /\ outbox[u][k] \in ToSet(outbox[u])
  BY <1>1, ToSetType
<1>4. ASSUME NEW i PROVE i \in View(u) <=> Known(u, i)
  <2>1. i \in View(u) <=> \/ i \in cache[u]
                          \/ \E k \in DOMAIN outbox[u] :
                               outbox[u][k].kind = "comment" /\ outbox[u][k].id = i
    BY DEF View
  <2>2. Has(outbox[u], WriteOf(i)) <=> \E k \in DOMAIN outbox[u] :
                               outbox[u][k].kind = "comment" /\ outbox[u][k].id = i
    BY <1>3 DEF Has, WriteOf
  <2> QED
    BY <2>1, <2>2 DEF Known
<1>5. \A i \in View(u) : i \in DOMAIN made
  <2>1. SUFFICES ASSUME NEW i, Known(u, i) PROVE i \in DOMAIN made
    BY <1>4
  <2>2. CASE i \in cache[u]
    BY <2>2 DEF WrittenOnce
  <2>3. CASE Has(outbox[u], WriteOf(i))
    <3>1. PICK w \in ToSet(outbox[u]) : w \in WriteOf(i)
      BY <2>3, HasElement
    <3> QED
      BY <3>1 DEF WriteOf, WellFormed, Issued
  <2> QED
    BY <2>1, <2>2, <2>3 DEF Known
<1>6. IsFiniteSet(1 .. Len(made))
  BY <1>2, FS_Interval
<1>7. View(u) \subseteq 1 .. Len(made)
  BY <1>2, <1>5
<1>8. IsFiniteSet(View(u))
  BY <1>6, <1>7, FS_Subset
<1> QED
  BY <1>2, <1>4, <1>7, <1>8

(* A screen has comments out when one of its writes or completions waits. *)
LEMMA PostsOfIs ==
  ASSUME NEW u, NEW s
  PROVE  PostsOf(u, s) = {} <=> ~Busy(u, s)
<1>1. Busy(u, s) <=> \/ \E k \in DOMAIN outbox[u] : outbox[u][k].screen = s
                     \/ \E k \in DOMAIN handlers[u] :
                          handlers[u][k].kind = "posted" /\ handlers[u][k].screen = s
  BY DEF Busy, ToSet
<1> QED
  BY <1>1 DEF PostsOf

(* What a screen is told of is the same, and so is what its client knows but *)
(* for a comment that was refused.                                           *)
LEMMA ToldKept ==
  ASSUME NEW u, NEW s, ToldOnce(u, s),
         screens'[u][s].list = screens[u][s].list,
         \A i \in Nat : Has(handlers'[u], AddedTo(s, i)) <=> Has(handlers[u], AddedTo(s, i)),
         \A i \in Nat : Single(handlers[u], AddedTo(s, i)) => Single(handlers'[u], AddedTo(s, i)),
         \A i \in Nat : Known(u, i)' => Known(u, i),
         \A i \in Nat : Known(u, i) => Known(u, i)' \/ i \in refused',
         refused \subseteq refused'
  PROVE  ToldOnce(u, s)'
<1> DEFINE list == screens[u][s].list
<1>1. IsInjective(list)
  BY DEF ToldOnce
<1>2. ASSUME NEW i \in Nat
      PROVE  /\ Single(handlers'[u], AddedTo(s, i))
             /\ Has(handlers'[u], AddedTo(s, i)) => i \notin ToSet(list)
             /\ Has(handlers'[u], AddedTo(s, i)) \/ i \in ToSet(list)
                  => Known(u, i)' \/ i \in refused'
             /\ Known(u, i)' => Has(handlers'[u], AddedTo(s, i)) \/ i \in ToSet(list)
  <2>1. /\ Single(handlers[u], AddedTo(s, i))
        /\ Has(handlers[u], AddedTo(s, i)) => i \notin ToSet(list)
        /\ Has(handlers[u], AddedTo(s, i)) \/ i \in ToSet(list)
                => Known(u, i) \/ i \in refused
        /\ Known(u, i) => Has(handlers[u], AddedTo(s, i)) \/ i \in ToSet(list)
    BY <1>2 DEF ToldOnce
  <2> QED
    BY <1>2, <2>1
<1> QED
  BY <1>1, <1>2 DEF ToldOnce

(* Texts are numbers. *)
LEMMA FieldsTyped ==
  ASSUME TypeInv
  PROVE  /\ \A v \in Users : \A t \in DOMAIN screens[v] :
              screens[v][t] \in Page /\ screens[v][t].input \in Nat
         /\ \A i \in DOMAIN made : made[i] \in Made /\ made[i].text \in Nat
<1>1. made \in Seq(Made) /\ \A v \in Users : screens[v] \in Seq(Page)
  BY DEF TypeInv, Queues
<1>2. \A v \in Users : \A t \in DOMAIN screens[v] : screens[v][t] \in Page
  BY <1>1
<1>3. \A i \in DOMAIN made : made[i] \in Made
  BY <1>1
<1> QED
  BY <1>2, <1>3 DEF Page, Made

(* A text is in one field. *)
LEMMA OneField ==
  ASSUME FieldsDistinct, NEW u \in Users, NEW v \in Users,
         NEW s \in DOMAIN screens[u], NEW t \in DOMAIN screens[v],
         screens[u][s].input = screens[v][t].input, screens[u][s].input # Nothing
  PROVE  u = v /\ s = t
BY Zenon DEF FieldsDistinct

(* A page is replaced by p. *)
Turned(f, g, u, s, p) ==
  /\ g = [v \in DOMAIN f |-> g[v]]
  /\ \A v \in DOMAIN f : v # u => g[v] = f[v]
  /\ PutAt(f[u], g[u], s, p)

(* What replacing one page changes, and what it leaves. *)
LEMMA TurnedIs ==
  ASSUME NEW D, NEW T, NEW f \in Queues(D, T), NEW u \in D, NEW s \in DOMAIN f[u],
         NEW p \in T, NEW g, Turned(f, g, u, s, p)
  PROVE  /\ g \in Queues(D, T)
         /\ \A v \in D : DOMAIN g[v] = DOMAIN f[v] /\ Len(g[v]) = Len(f[v])
         /\ g[u][s] = p
         /\ \A v \in D : \A t \in DOMAIN f[v] : v # u \/ t # s => g[v][t] = f[v][t]
<1>1. f[u] \in Seq(T) /\ DOMAIN f = D
  BY DEF Queues
<1>2. /\ g[u] \in Seq(T) /\ Len(g[u]) = Len(f[u]) /\ DOMAIN g[u] = DOMAIN f[u]
      /\ g[u][s] = p
      /\ \A t \in DOMAIN f[u] : t # s => g[u][t] = f[u][t]
  BY <1>1, PutAtIs DEF Turned
<1>3. \A v \in D : v # u => g[v] = f[v]
  BY <1>1 DEF Turned
<1>4. g \in [D -> Seq(T)]
  BY <1>1, <1>2, <1>3 DEF Turned, Queues
<1> QED
  BY <1>2, <1>3, <1>4 DEF Queues

(* Every field after the step is empty or was the same before. *)
FieldsKept ==
  \A u \in Users : \A s \in DOMAIN screens'[u] :
    \/ screens'[u][s].input = Nothing
    \/ s \in DOMAIN screens[u] /\ screens'[u][s].input = screens[u][s].input

(* Nothing was typed: texts stay new and in one field. *)
LEMMA FreshKept ==
  ASSUME TextsFresh, FieldsKept, texts \in Nat, texts' = texts, calm' \subseteq calm,
         \A i \in DOMAIN made' : made'[i].text <= texts
  PROVE  TextsFresh'
<1>1. calm' \subseteq 1 .. texts'
  BY DEF TextsFresh
<1>2. \A u \in Users : \A s \in DOMAIN screens'[u] : screens'[u][s].input <= texts'
  <2>1. SUFFICES ASSUME NEW u \in Users, NEW s \in DOMAIN screens'[u]
                 PROVE  screens'[u][s].input <= texts
    OBVIOUS
  <2>2. CASE screens'[u][s].input = Nothing
    BY <2>2 DEF Nothing
  <2>3. CASE s \in DOMAIN screens[u] /\ screens'[u][s].input = screens[u][s].input
    BY <2>3 DEF TextsFresh
  <2> QED
    BY <2>2, <2>3 DEF FieldsKept
<1>3. \A u, v \in Users : \A s \in DOMAIN screens'[u], t \in DOMAIN screens'[v] :
        screens'[u][s].input = screens'[v][t].input /\ screens'[u][s].input # Nothing
          => u = v /\ s = t
  <2> SUFFICES ASSUME NEW u \in Users, NEW v \in Users,
                      NEW s \in DOMAIN screens'[u], NEW t \in DOMAIN screens'[v],
                      screens'[u][s].input = screens'[v][t].input,
                      screens'[u][s].input # Nothing
               PROVE  u = v /\ s = t
    OBVIOUS
  <2>1. s \in DOMAIN screens[u] /\ screens'[u][s].input = screens[u][s].input
    BY DEF FieldsKept
  <2>2. t \in DOMAIN screens[v] /\ screens'[v][t].input = screens[v][t].input
    BY DEF FieldsKept
  <2>3. FieldsDistinct
    BY DEF TextsFresh
  <2>4. s \in DOMAIN screens[u] /\ t \in DOMAIN screens[v]
    BY <2>1, <2>2
  <2>5. screens[u][s].input = screens[v][t].input /\ screens[u][s].input # Nothing
    BY <2>1, <2>2, Zenon
  <2> QED
    BY <2>3, <2>4, <2>5, OneField
<1>4. FieldsDistinct'
  BY <1>3 DEF FieldsDistinct
<1> QED
  BY <1>1, <1>2, <1>4 DEF TextsFresh

(* Nothing was posted: what a field waited for, it waits for. *)
LEMMA PendingKept ==
  ASSUME FieldsPending, FieldsKept, made' = made,
         \A u \in Users : \A s \in DOMAIN screens'[u] : \A i \in DOMAIN made :
           screens'[u][s].input # Nothing /\ Waiting(u, s, i) => Waiting(u, s, i)'
  PROVE  FieldsPending'
<1>1. SUFFICES ASSUME NEW u \in Users, NEW s \in DOMAIN screens'[u], NEW i \in DOMAIN made,
                      made[i].text = screens'[u][s].input, made[i].text # Nothing
               PROVE  made[i].author = u /\ Waiting(u, s, i)'
  BY DEF FieldsPending
<1>2. s \in DOMAIN screens[u] /\ screens'[u][s].input = screens[u][s].input
  BY <1>1 DEF FieldsKept
<1>3. made[i].author = u /\ Waiting(u, s, i)
  BY <1>1, <1>2 DEF FieldsPending
<1> QED
  BY <1>1, <1>3

(* A calm text stays in its field, and a field that was not waiting for a   *)
(* completion before does not now.                                          *)
LEMMA CalmStays ==
  ASSUME CalmKept, FieldsKept, TextsFresh, texts \in Nat, calm' \subseteq calm,
         \A t : Posted(t) => Posted(t)',
         \A t \in calm' : \A u \in Users : \A s \in DOMAIN screens[u] :
           screens[u][s].input = t =>
             Posted(t)' \/ (s \in DOMAIN screens'[u] /\ screens'[u][s].input = t),
         \A t \in calm' : \A u \in Users : \A s \in DOMAIN screens'[u] :
           screens'[u][s].input = t /\ Busy(u, s)' => Busy(u, s) \/ Posted(t)'
  PROVE  CalmKept'
<1>1. ASSUME NEW t \in calm'
      PROVE  \/ Posted(t)'
             \/ \E u \in Users : \E s \in DOMAIN screens'[u] : screens'[u][s].input = t
  <2>1. CASE Posted(t)
    BY <2>1
  <2>2. CASE ~Posted(t)
    <3>1. PICK u \in Users : \E s \in DOMAIN screens[u] : screens[u][s].input = t
      BY <1>1, <2>2 DEF CalmKept
    <3> QED
      BY <1>1, <3>1
  <2> QED
    BY <2>1, <2>2
<1>2. ASSUME NEW u \in Users, NEW s \in DOMAIN screens'[u],
             screens'[u][s].input \in calm', Busy(u, s)'
      PROVE  \E i \in DOMAIN made' : made'[i].text = screens'[u][s].input
  <2>1. screens'[u][s].input # Nothing
    BY <1>2 DEF TextsFresh, Nothing
  <2>2. s \in DOMAIN screens[u] /\ screens'[u][s].input = screens[u][s].input
    BY <2>1 DEF FieldsKept
  <2>3. PICK t \in calm' : t = screens'[u][s].input
    BY <1>2
  <2>4. Busy(u, s) => Posted(t)
    BY <2>2, <2>3 DEF CalmKept
  <2>5. Posted(t)'
    BY <1>2, <2>3, <2>4
  <2> QED
    BY <2>3, <2>5 DEF Posted
<1> QED
  BY <1>1, <1>2 DEF CalmKept, Posted

(* The invariant holds before anything was opened. *)
LEMMA InitComments == Init => CommentsInv
<1> SUFFICES ASSUME Init PROVE CommentsInv
  OBVIOUS
<1>1. /\ made = <<>> /\ comments = {} /\ announced = {} /\ refused = {} /\ calm = {}
      /\ texts = 0 /\ faults = 0
      /\ \A u \in Users : outbox[u] = <<>> /\ handlers[u] = <<>> /\ screens[u] = <<>>
      /\ \A u \in Users : cache[u] = {}
  BY DEF Init
<1>2. TypeInv
  <2>1. outbox \in [Users -> Seq(Posting)] /\ handlers \in [Users -> Seq(Reply)]
        /\ screens \in [Users -> Seq(Page)] /\ made \in Seq(Made)
        /\ cache \in [Users -> SUBSET Nat]
    BY DEF Init
  <2> QED
    BY <1>1, <2>1 DEF TypeInv, Queues
<1>3. DOMAIN made = {} /\ \A u \in Users : DOMAIN screens[u] = {} /\ DOMAIN outbox[u] = {}
  BY <1>1
<1>4. \A u \in Users : ToSet(outbox[u]) = {} /\ ToSet(handlers[u]) = {}
  BY <1>1, ToSetEmpty
<1>5. WellFormed
  BY <1>4 DEF WellFormed
<1>6. WrittenOnce
  BY <1>1, <1>3 DEF WrittenOnce
<1>7. ListsExact
  BY <1>3 DEF ListsExact
<1>8. AnnouncedInTime
  BY <1>1 DEF AnnouncedInTime
<1>9. TextsFresh
  BY <1>1, <1>3 DEF TextsFresh, FieldsDistinct
<1>10. FieldsPending /\ CalmKept
  BY <1>1, <1>3 DEF FieldsPending, CalmKept
<1> QED
  BY <1>2, <1>5, <1>6, <1>7, <1>8, <1>9, <1>10 DEF CommentsInv

(* Closing a screen changes nothing that is on its way. *)
LEMMA CloseStep ==
  ASSUME CommentsInv, NEW u \in Users, NEW s \in DOMAIN screens[u], Close(u, s)
  PROVE  CommentsInv'
<1> DEFINE p == [screens[u][s] EXCEPT !.open = FALSE]
<1>1. UNCHANGED <<made, comments, announced, cache, outbox, handlers, texts, faults,
                  refused, calm>>
  BY DEF Close
<1>2. TypeInv /\ screens \in Queues(Users, Page) /\ screens[u] \in Seq(Page)
  BY DEF CommentsInv, TypeInv, Queues
<1>3. screens[u][s] \in Page
  BY <1>2
<1>4. p \in Page /\ p.list = screens[u][s].list /\ p.input = screens[u][s].input
  BY <1>3 DEF Page
<1>5. Turned(screens, screens', u, s, p)
  BY <1>2 DEF Close, Turned, PutAt, Queues
<1> HIDE DEF p
<1>6. /\ screens' \in Queues(Users, Page)
      /\ \A v \in Users : DOMAIN screens'[v] = DOMAIN screens[v]
                          /\ Len(screens'[v]) = Len(screens[v])
      /\ screens'[u][s] = p
      /\ \A v \in Users : \A t \in DOMAIN screens[v] :
           v # u \/ t # s => screens'[v][t] = screens[v][t]
  BY <1>2, <1>4, <1>5, TurnedIs
<1>7. \A v \in Users : \A t \in DOMAIN screens[v] :
        /\ screens'[v][t].list = screens[v][t].list
        /\ screens'[v][t].input = screens[v][t].input
  BY <1>4, <1>6
<1>8. TypeInv'
  BY <1>1, <1>2, <1>6 DEF TypeInv
<1>9. WellFormed'
  BY <1>1, <1>6 DEF CommentsInv, WellFormed, Issued, Completed
<1>10. WrittenOnce'
  BY <1>1 DEF CommentsInv, WrittenOnce
<1>11. ListsExact'
  <2>1. SUFFICES ASSUME NEW v \in Users, NEW t \in DOMAIN screens[v]
                 PROVE  ToldOnce(v, t)'
    BY <1>6 DEF ListsExact
  <2>2. ToldOnce(v, t)
    BY DEF CommentsInv, ListsExact
  <2>3. \A i \in Nat : Known(v, i)' <=> Known(v, i)
    BY <1>1 DEF Known
  <2> QED
    BY <1>1, <1>7, <2>2, <2>3, ToldKept
<1>12. AnnouncedInTime'
  BY <1>1 DEF CommentsInv, AnnouncedInTime, Announcing
<1>13. TextsFresh'
  <2>1. FieldsKept
    BY <1>6, <1>7 DEF FieldsKept
  <2>2. texts \in Nat /\ \A i \in DOMAIN made' : made'[i].text <= texts
    BY <1>1, <1>2 DEF CommentsInv, TextsFresh, TypeInv
  <2> QED
    BY <1>1, <2>1, <2>2, FreshKept DEF CommentsInv
<1>14. FieldsPending'
  <2>1. SUFFICES ASSUME NEW v \in Users, NEW t \in DOMAIN screens[v], NEW i \in DOMAIN made,
                        made[i].text = screens[v][t].input, made[i].text # Nothing
                 PROVE  made[i].author = v /\ Waiting(v, t, i)'
    BY <1>1, <1>6, <1>7 DEF FieldsPending
  <2>2. made[i].author = v /\ Waiting(v, t, i)
    BY <2>1 DEF CommentsInv, FieldsPending
  <2> QED
    BY <1>1, <2>2 DEF Waiting
<1>15. CalmKept'
  <2>1. /\ \A v, t : Busy(v, t)' <=> Busy(v, t)
        /\ \A t : Posted(t)' <=> Posted(t)
    BY <1>1 DEF Busy, Posted
  <2> QED
    BY <1>1, <1>6, <1>7, <2>1 DEF CommentsInv, CalmKept
<1> QED
  BY <1>8, <1>9, <1>10, <1>11, <1>12, <1>13, <1>14, <1>15 DEF CommentsInv

(* The user types: the text is new, so no comment has it and no other field. *)
LEMMA TypeStep ==
  ASSUME CommentsInv, NEW u \in Users, NEW s \in DOMAIN screens[u], Type(u, s)
  PROVE  CommentsInv'
<1> DEFINE p == [screens[u][s] EXCEPT !.input = texts + 1]
<1>1. /\ UNCHANGED <<made, comments, announced, cache, outbox, handlers, faults, refused>>
      /\ texts' = texts + 1
      /\ calm' = (calm \ {screens[u][s].input})
                   \cup (IF PostsOf(u, s) = {} THEN {texts + 1} ELSE {})
  BY DEF Type
<1>2. /\ TypeInv /\ screens \in Queues(Users, Page) /\ screens[u] \in Seq(Page)
      /\ texts \in Nat
  BY DEF CommentsInv, TypeInv, Queues
<1>3. screens[u][s] \in Page /\ texts + 1 \in Nat
  BY <1>2
<1>4. p \in Page /\ p.list = screens[u][s].list /\ p.input = texts + 1
  BY <1>3 DEF Page
<1>5. Turned(screens, screens', u, s, p)
  BY <1>2 DEF Type, Turned, PutAt, Queues
<1> HIDE DEF p
<1>6. /\ screens' \in Queues(Users, Page)
      /\ \A v \in Users : DOMAIN screens'[v] = DOMAIN screens[v]
                          /\ Len(screens'[v]) = Len(screens[v])
      /\ screens'[u][s] = p
      /\ \A v \in Users : \A t \in DOMAIN screens[v] :
           v # u \/ t # s => screens'[v][t] = screens[v][t]
  BY <1>2, <1>4, <1>5, TurnedIs
<1>7. \A v \in Users : \A t \in DOMAIN screens[v] :
        screens'[v][t].list = screens[v][t].list
  BY <1>4, <1>6
<1>8. /\ calm \subseteq 1 .. texts
      /\ \A i \in DOMAIN made : made[i].text <= texts
      /\ \A v \in Users : \A t \in DOMAIN screens[v] : screens[v][t].input <= texts
      /\ FieldsDistinct
  BY DEF CommentsInv, TextsFresh
<1>9. /\ \A x \in Nat : x <= texts => x # texts + 1 /\ x <= texts + 1
      /\ \A v \in Users : \A t \in DOMAIN screens[v] : screens[v][t].input \in Nat
      /\ \A i \in DOMAIN made : made[i].text \in Nat
  <2>1. \A x \in Nat : x <= texts => x # texts + 1 /\ x <= texts + 1
    BY <1>2
  <2> QED
    BY <1>2, <2>1, FieldsTyped
<1>10. TypeInv'
  BY <1>1, <1>2, <1>6 DEF TypeInv
<1>11. WellFormed'
  BY <1>1, <1>6 DEF CommentsInv, WellFormed, Issued, Completed
<1>12. WrittenOnce'
  BY <1>1 DEF CommentsInv, WrittenOnce
<1>13. ListsExact'
  <2>1. SUFFICES ASSUME NEW v \in Users, NEW t \in DOMAIN screens[v]
                 PROVE  ToldOnce(v, t)'
    BY <1>6 DEF ListsExact
  <2>2. ToldOnce(v, t)
    BY DEF CommentsInv, ListsExact
  <2>3. \A i \in Nat : Known(v, i)' <=> Known(v, i)
    BY <1>1 DEF Known
  <2> QED
    BY <1>1, <1>7, <2>2, <2>3, ToldKept
<1>14. AnnouncedInTime'
  BY <1>1 DEF CommentsInv, AnnouncedInTime, Announcing
<1>15. TextsFresh'
  <2>1. calm' \subseteq 1 .. texts'
    <3>1. \A t \in calm' : t \in calm \/ t = texts + 1
      BY <1>1
    <3>2. texts' = texts + 1
      BY <1>1
    <3>3. \A t \in calm : t \in 1 .. texts
      BY <1>8
    <3>4. texts + 1 \in 1 .. texts + 1 /\ \A t \in 1 .. texts : t \in 1 .. texts + 1
      BY <1>2
    <3> QED
      BY <3>1, <3>2, <3>3, <3>4
  <2>2. \A v \in Users : \A t \in DOMAIN screens'[v] : screens'[v][t].input <= texts'
    BY <1>1, <1>2, <1>4, <1>6, <1>8, <1>9
  <2>3. \A i \in DOMAIN made' : made'[i].text <= texts'
    BY <1>1, <1>8, <1>9
  <2>4. FieldsDistinct'
    <3>1. SUFFICES ASSUME NEW v \in Users, NEW w \in Users,
                          NEW r \in DOMAIN screens[v], NEW t \in DOMAIN screens[w],
                          screens'[v][r].input = screens'[w][t].input,
                          screens'[v][r].input # Nothing
                   PROVE  v = w /\ r = t
      BY <1>6 DEF FieldsDistinct, Nothing
    <3>2. CASE v = u /\ r = s
      <4>1. screens'[w][t].input = texts + 1
        BY <1>4, <1>6, <3>1, <3>2
      <4>2. ~(w # u \/ t # s)
        BY <1>6, <1>8, <1>9, <4>1
      <4> QED
        BY <3>2, <4>2
    <3>3. CASE v # u \/ r # s
      <4>1. screens'[v][r] = screens[v][r] /\ screens'[v][r].input # texts + 1
        BY <1>6, <1>8, <1>9, <3>3
      <4>2. ~(w = u /\ t = s)
        BY <1>4, <1>6, <3>1, <4>1
      <4>3. screens'[w][t] = screens[w][t]
        BY <1>6, <4>2
      <4>4. screens[v][r].input = screens[w][t].input /\ screens[v][r].input # Nothing
        BY <3>1, <4>1, <4>3, Zenon
      <4>5. FieldsDistinct /\ r \in DOMAIN screens[v] /\ t \in DOMAIN screens[w]
        BY <1>8
      <4> QED
        BY <4>4, <4>5, OneField
    <3> QED
      BY <3>2, <3>3
  <2> QED
    BY <2>1, <2>2, <2>3, <2>4 DEF TextsFresh
<1>16. FieldsPending'
  <2>1. SUFFICES ASSUME NEW v \in Users, NEW t \in DOMAIN screens[v], NEW i \in DOMAIN made,
                        made[i].text = screens'[v][t].input, made[i].text # Nothing
                 PROVE  made[i].author = v /\ Waiting(v, t, i)'
    BY <1>1, <1>6 DEF FieldsPending, Nothing
  <2>2. v # u \/ t # s
    BY <1>4, <1>6, <1>8, <1>9, <2>1
  <2>3. made[i].author = v /\ Waiting(v, t, i)
    BY <1>6, <2>1, <2>2 DEF CommentsInv, FieldsPending
  <2> QED
    BY <1>1, <2>3 DEF Waiting
<1>17. CalmKept'
  <2>1. /\ \A v, t : Busy(v, t)' <=> Busy(v, t)
        /\ \A t : Posted(t)' <=> Posted(t)
    BY <1>1 DEF Busy, Posted
  <2>2. ASSUME NEW t \in calm'
        PROVE  \/ Posted(t)'
               \/ \E v \in Users : \E r \in DOMAIN screens'[v] : screens'[v][r].input = t
    <3>1. CASE t = texts + 1
      BY <1>4, <1>6, <3>1
    <3>2. CASE t # texts + 1
      <4>1. t \in calm /\ t # screens[u][s].input
        BY <1>1, <2>2, <3>2
      <4>2. CASE Posted(t)
        BY <2>1, <4>2
      <4>3. CASE ~Posted(t)
        <5>1. PICK v \in Users : \E r \in DOMAIN screens[v] : screens[v][r].input = t
          BY <4>1, <4>3 DEF CommentsInv, CalmKept
        <5>2. PICK r \in DOMAIN screens[v] : screens[v][r].input = t
          BY <5>1
        <5>3. screens'[v][r] = screens[v][r]
          BY <1>6, <4>1, <5>2
        <5> QED
          BY <1>6, <5>2, <5>3
      <4> QED
        BY <4>2, <4>3
    <3> QED
      BY <3>1, <3>2
  <2>3. ASSUME NEW v \in Users, NEW r \in DOMAIN screens'[v],
               screens'[v][r].input \in calm', Busy(v, r)'
        PROVE  \E i \in DOMAIN made' : made'[i].text = screens'[v][r].input
    <3>1. ~(v = u /\ r = s)
      <4>1. SUFFICES ASSUME v = u, r = s PROVE FALSE
        OBVIOUS
      <4>2. texts + 1 \in calm' /\ texts + 1 \notin calm
        BY <1>2, <1>4, <1>6, <1>8, <2>3, <4>1
      <4>3. PostsOf(u, s) = {}
        BY <1>1, <4>2
      <4> QED
        BY <2>1, <2>3, <4>1, <4>3, PostsOfIs
    <3>2. r \in DOMAIN screens[v] /\ screens'[v][r] = screens[v][r]
      BY <1>6, <2>3, <3>1
    <3>3. screens[v][r].input \in calm
      BY <1>1, <1>8, <1>9, <2>3, <3>2
    <3>4. Posted(screens[v][r].input)
      BY <2>1, <2>3, <3>2, <3>3 DEF CommentsInv, CalmKept
    <3> QED
      BY <1>1, <3>2, <3>4 DEF Posted
  <2> QED
    BY <2>2, <2>3 DEF CalmKept, Posted
<1> QED
  BY <1>10, <1>11, <1>12, <1>13, <1>14, <1>15, <1>16, <1>17 DEF CommentsInv

----------------------------------------------------------------------------
(* A screen is told of the comments in S as well, which are new to its      *)
(* client and to it.                                                        *)
LEMMA ToldMore ==
  ASSUME NEW u, NEW s, ToldOnce(u, s), NEW S,
         screens'[u][s].list = screens[u][s].list,
         \A i \in Nat : Has(handlers'[u], AddedTo(s, i))
                          <=> Has(handlers[u], AddedTo(s, i)) \/ i \in S,
         \A i \in Nat : Single(handlers[u], AddedTo(s, i))
                          /\ ~(Has(handlers[u], AddedTo(s, i)) /\ i \in S)
                          => Single(handlers'[u], AddedTo(s, i)),
         \A i \in Nat : Known(u, i)' <=> Known(u, i) \/ i \in S,
         \A i \in S : ~Known(u, i) /\ i \notin refused,
         refused' = refused
  PROVE  ToldOnce(u, s)'
<1> DEFINE list == screens[u][s].list
<1>1. IsInjective(list)
  BY DEF ToldOnce
<1>2. ASSUME NEW i \in Nat
      PROVE  /\ Single(handlers'[u], AddedTo(s, i))
             /\ Has(handlers'[u], AddedTo(s, i)) => i \notin ToSet(list)
             /\ Has(handlers'[u], AddedTo(s, i)) \/ i \in ToSet(list)
                  => Known(u, i)' \/ i \in refused'
             /\ Known(u, i)' => Has(handlers'[u], AddedTo(s, i)) \/ i \in ToSet(list)
  <2>1. /\ Single(handlers[u], AddedTo(s, i))
        /\ Has(handlers[u], AddedTo(s, i)) => i \notin ToSet(list)
        /\ Has(handlers[u], AddedTo(s, i)) \/ i \in ToSet(list)
                => Known(u, i) \/ i \in refused
        /\ Known(u, i) => Has(handlers[u], AddedTo(s, i)) \/ i \in ToSet(list)
    BY <1>2 DEF ToldOnce
  <2> QED
    BY <1>2, <2>1
<1> QED
  BY <1>1, <1>2 DEF ToldOnce

(* Only screens that were opened are told anything. *)
LEMMA NoneElsewhere ==
  ASSUME WellFormed, NEW u \in Users, NEW s, NEW i, s \notin DOMAIN screens[u]
  PROVE  ~Has(handlers[u], AddedTo(s, i))
<1>1. \A h \in ToSet(handlers[u]) : h.screen \in DOMAIN screens[u]
  BY DEF WellFormed, Completed
<1>2. \A h \in ToSet(handlers[u]) : h \notin AddedTo(s, i)
  BY <1>1 DEF AddedTo
<1> QED
  BY <1>2, HasElement

(* What is not there is not there twice. *)
LEMMA NoneSingle ==
  ASSUME NEW s, NEW X, ~Has(s, X)
  PROVE  Single(s, X)
BY DEF Has, Single

(* A new screen is told of all that its client knows. *)
LEMMA OpenStep ==
  ASSUME CommentsInv, NEW u \in Users, Open(u)
  PROVE  CommentsInv'
<1>0. PICK n \in Nat : n = Len(screens[u])
  BY DEF CommentsInv, TypeInv, Queues
<1> DEFINE p == [open |-> TRUE, list |-> <<>>, input |-> Nothing]
           S == View(u)
           r == Snapshots(n + 1, n + 1, S)
<1>1. UNCHANGED <<made, comments, announced, cache, outbox, texts, faults, refused, calm>>
  BY DEF Open
<1>2. /\ TypeInv /\ screens \in Queues(Users, Page) /\ screens[u] \in Seq(Page)
      /\ handlers \in Queues(Users, Reply) /\ texts \in Nat
      /\ WellFormed /\ WrittenOnce
  BY DEF CommentsInv, TypeInv, Queues
<1>3. n \in Nat /\ DOMAIN screens[u] = 1 .. n
  BY <1>0, <1>2
<1>4. /\ \A i : i \in S <=> Known(u, i)
      /\ S \in SUBSET Nat /\ IsFiniteSet(S)
  BY <1>2, ViewIs
<1>5. Pushed(screens, screens', u, p)
  BY <1>2 DEF Open, Pushed, ChangedAt, Queues
<1>6. handlers' = [handlers EXCEPT ![u] = @ \o r]
  BY <1>0 DEF Open
<1>7. p \in Page /\ p.list = <<>> /\ p.input = Nothing
  BY DEF Page, Nothing
<1> HIDE DEF p, S
<1>8. /\ r \in Seq(Reply)
      /\ \A h \in ToSet(r) :
           h.kind = "snapshot" /\ h.screen \in (n + 1) .. (n + 1) /\ IsInjective(h.ids)
      /\ \A s, i : Has(r, AddedTo(s, i)) <=> s \in (n + 1) .. (n + 1) /\ i \in S
      /\ \A s, i : Single(r, AddedTo(s, i))
  <2>1. n + 1 \in Nat \ {0} /\ n + 1 \in Nat /\ n + 1 <= n + 1 + 1
    BY <1>3
  <2> QED
    BY <1>4, <2>1, SnapshotsAre
<1> HIDE DEF r
<1>9. Extended(handlers, handlers', u, r, Reply)
  BY <1>2, <1>6, <1>8 DEF Extended, ChangedAt, Queues
<1>10. /\ handlers' \in Queues(Users, Reply)
       /\ ToSet(handlers'[u]) = ToSet(handlers[u]) \cup ToSet(r)
       /\ \A X : Has(handlers'[u], X) <=> Has(handlers[u], X) \/ Has(r, X)
       /\ \A X : Single(handlers[u], X) /\ Single(r, X) /\ ~(Has(handlers[u], X) /\ Has(r, X))
                   => Single(handlers'[u], X)
       /\ \A v \in Users : v # u => handlers'[v] = handlers[v]
  BY <1>2, <1>8, <1>9, ManyMore
<1>11. /\ screens' \in Queues(Users, Page)
       /\ \A v \in Users : v # u => screens'[v] = screens[v]
  BY <1>2, <1>5, <1>7, OneMore
<1>12. /\ n + 1 \notin DOMAIN screens[u]
       /\ DOMAIN screens'[u] = DOMAIN screens[u] \cup {n + 1}
       /\ Len(screens'[u]) = n + 1
       /\ \A t \in DOMAIN screens[u] : screens'[u][t] = screens[u][t]
       /\ screens'[u][n + 1] = p
  <2>1. screens'[u] = Append(screens[u], p)
    BY <1>2, <1>5 DEF Pushed, ChangedAt, Queues
  <2> QED
    BY <1>0, <1>2, <1>7, <2>1, Appended
<1>13. \A v \in Users : /\ DOMAIN screens[v] \subseteq DOMAIN screens'[v]
                        /\ \A t \in DOMAIN screens[v] : screens'[v][t] = screens[v][t]
                        /\ 0 .. Len(screens[v]) \subseteq 0 .. Len(screens'[v])
  <2>1. 0 .. n \subseteq 0 .. n + 1
    BY <1>3
  <2> QED
    BY <1>0, <1>11, <1>12, <2>1
<1>14. FieldsKept
  <2>1. SUFFICES ASSUME NEW v \in Users, NEW t \in DOMAIN screens'[v]
                 PROVE  \/ screens'[v][t].input = Nothing
                        \/ t \in DOMAIN screens[v] /\ screens'[v][t].input = screens[v][t].input
    BY DEF FieldsKept
  <2>2. CASE v # u
    BY <1>11, <2>2
  <2>3. CASE v = u
    BY <1>7, <1>12, <2>1, <2>3
  <2> QED
    BY <2>2, <2>3
<1>15. \A v \in Users : \A h : h.kind = "posted" =>
         (h \in ToSet(handlers'[v]) <=> h \in ToSet(handlers[v]))
  <2>1. \A h \in ToSet(r) : h.kind # "posted"
    BY <1>8
  <2> QED
    BY <1>10, <2>1
<1>16. TypeInv'
  BY <1>1, <1>2, <1>10, <1>11 DEF TypeInv
<1>17. WellFormed'
  <2>1. ASSUME NEW v \in Users, NEW w \in ToSet(outbox[v]) PROVE Issued(v, w)'
    <3>1. Issued(v, w)
      BY <1>2, <2>1 DEF WellFormed
    <3> QED
      BY <1>1, <1>13, <3>1 DEF Issued
  <2>2. ASSUME NEW v \in Users, NEW h \in ToSet(handlers[v]) PROVE Completed(v, h)'
    <3>1. Completed(v, h)
      BY <1>2, <2>2 DEF WellFormed
    <3> QED
      BY <1>1, <1>13, <3>1 DEF Completed
  <2>3. ASSUME NEW h \in ToSet(r) PROVE Completed(u, h)'
    <3>1. h.screen = n + 1
      BY <1>3, <1>8, <2>3
    <3> QED
      BY <1>8, <1>12, <2>3, <3>1 DEF Completed
  <2>4. \A v \in Users : \A h \in ToSet(handlers'[v]) : Completed(v, h)'
    BY <1>10, <2>2, <2>3
  <2> QED
    BY <1>1, <2>1, <2>4 DEF WellFormed
<1>18. WrittenOnce'
  BY <1>1 DEF CommentsInv, WrittenOnce
<1>19. ListsExact'
  <2>1. \A v \in Users : \A i : Known(v, i)' <=> Known(v, i)
    BY <1>1 DEF Known
  <2>2. ASSUME NEW v \in Users, NEW t \in DOMAIN screens[v] PROVE ToldOnce(v, t)'
    <3>1. ToldOnce(v, t) /\ screens'[v][t].list = screens[v][t].list
      BY <1>13, <2>2 DEF CommentsInv, ListsExact
    <3>2. CASE v # u
      BY <1>1, <1>10, <2>1, <3>1, <3>2, ToldKept
    <3>3. CASE v = u
      <4>1. t \notin (n + 1) .. (n + 1)
        BY <1>3, <1>12, <2>2, <3>3
      <4>2. \A i : ~Has(r, AddedTo(t, i)) /\ Single(r, AddedTo(t, i))
        BY <1>8, <4>1
      <4> QED
        BY <1>1, <1>10, <2>1, <3>1, <3>3, <4>2, ToldKept
    <3> QED
      BY <3>2, <3>3
  <2>3. ToldOnce(u, n + 1)'
    <3>1. \A i : ~Has(handlers[u], AddedTo(n + 1, i))
      BY <1>2, <1>12, NoneElsewhere
    <3>2. n + 1 \in (n + 1) .. (n + 1)
      BY <1>3
    <3>3. \A i : Has(handlers'[u], AddedTo(n + 1, i)) <=> Known(u, i)
      BY <1>4, <1>8, <1>10, <3>1, <3>2
    <3>4. \A i : Single(handlers'[u], AddedTo(n + 1, i))
      BY <1>8, <1>10, <3>1, NoneSingle
    <3>5. screens'[u][n + 1].list = <<>> /\ IsInjective(<<>>) /\ ToSet(<<>>) = {}
      BY <1>7, <1>12, ToSetEmpty DEF IsInjective
    <3> QED
      BY <2>1, <3>3, <3>4, <3>5 DEF ToldOnce
  <2> QED
    BY <1>11, <1>12, <2>2, <2>3 DEF ListsExact
<1>20. AnnouncedInTime'
  <2>1. \A v \in Users : \A i : Announcing(v, i)' <=> Announcing(v, i)
    BY <1>1, <1>15 DEF Announcing
  <2>2. \A i \in comments : made[i].author \in Users
    BY <1>2, FieldsTyped DEF WrittenOnce, Made
  <2> QED
    BY <1>1, <2>1, <2>2 DEF CommentsInv, AnnouncedInTime
<1>21. TextsFresh'
  <2>1. \A i \in DOMAIN made' : made'[i].text <= texts
    BY <1>1 DEF CommentsInv, TextsFresh
  <2> QED
    BY <1>1, <1>2, <1>14, <2>1, FreshKept DEF CommentsInv
<1>22. FieldsPending'
  <2>1. \A v \in Users : \A t, i : Waiting(v, t, i) => Waiting(v, t, i)'
    BY <1>1, <1>15 DEF Waiting
  <2> QED
    BY <1>1, <1>14, <2>1, PendingKept DEF CommentsInv
<1>23. CalmKept'
  <2>1. \A v \in Users : \A t : Busy(v, t)' => Busy(v, t)
    BY <1>1, <1>15 DEF Busy
  <2>2. \A t : Posted(t) => Posted(t)'
    BY <1>1 DEF Posted
  <2> QED
    BY <1>1, <1>2, <1>13, <1>14, <2>1, <2>2, CalmStays DEF CommentsInv
<1> QED
  BY <1>16, <1>17, <1>18, <1>19, <1>20, <1>21, <1>22, <1>23 DEF CommentsInv

(* All listeners of u are told of the comments in S. *)
AllTold(u, S) ==
  handlers' = [handlers EXCEPT ![u] = @ \o Snapshots(1, Len(screens[u]), S)]

(* What the listeners of all screens are told, and what stays queued. *)
LEMMA AllToldIs ==
  ASSUME TypeInv, NEW u \in Users, NEW S \in SUBSET Nat, IsFiniteSet(S), AllTold(u, S)
  PROVE  /\ handlers' \in Queues(Users, Reply)
         /\ \A h \in ToSet(handlers'[u]) :
              \/ h \in ToSet(handlers[u])
              \/ h.kind = "snapshot" /\ h.screen \in DOMAIN screens[u] /\ IsInjective(h.ids)
         /\ \A v \in Users : \A h : h.kind = "posted" =>
              (h \in ToSet(handlers'[v]) <=> h \in ToSet(handlers[v]))
         /\ \A s \in DOMAIN screens[u] : \A i \in Nat :
              /\ Has(handlers'[u], AddedTo(s, i))
                   <=> Has(handlers[u], AddedTo(s, i)) \/ i \in S
              /\ Single(handlers[u], AddedTo(s, i))
                   /\ ~(Has(handlers[u], AddedTo(s, i)) /\ i \in S)
                   => Single(handlers'[u], AddedTo(s, i))
         /\ \A v \in Users : v # u => handlers'[v] = handlers[v]
<1> DEFINE n == Len(screens[u])
           r == Snapshots(1, n, S)
<1>1. /\ screens[u] \in Seq(Page) /\ handlers \in Queues(Users, Reply)
      /\ n \in Nat /\ DOMAIN screens[u] = 1 .. n
  BY DEF TypeInv, Queues
<1>2. handlers' = [handlers EXCEPT ![u] = @ \o r]
  BY DEF AllTold
<1> HIDE DEF n
<1>3. /\ r \in Seq(Reply)
      /\ \A h \in ToSet(r) :
           h.kind = "snapshot" /\ h.screen \in 1 .. n /\ IsInjective(h.ids)
      /\ \A s, i : Has(r, AddedTo(s, i)) <=> s \in 1 .. n /\ i \in S
      /\ \A s, i : Single(r, AddedTo(s, i))
  <2>1. 1 \in Nat \ {0} /\ 1 <= n + 1
    BY <1>1
  <2> QED
    BY <1>1, <2>1, SnapshotsAre
<1> HIDE DEF r
<1>4. Extended(handlers, handlers', u, r, Reply)
  BY <1>1, <1>2, <1>3 DEF Extended, ChangedAt, Queues
<1>5. /\ handlers' \in Queues(Users, Reply)
      /\ ToSet(handlers'[u]) = ToSet(handlers[u]) \cup ToSet(r)
      /\ \A X : Has(handlers'[u], X) <=> Has(handlers[u], X) \/ Has(r, X)
      /\ \A X : Single(handlers[u], X) /\ Single(r, X) /\ ~(Has(handlers[u], X) /\ Has(r, X))
                  => Single(handlers'[u], X)
      /\ \A v \in Users : v # u => handlers'[v] = handlers[v]
  BY <1>1, <1>3, <1>4, ManyMore
<1>6. \A v \in Users : \A h : h.kind = "posted" =>
        (h \in ToSet(handlers'[v]) <=> h \in ToSet(handlers[v]))
  <2>1. \A h \in ToSet(r) : h.kind # "posted"
    BY <1>3
  <2> QED
    BY <1>5, <2>1
<1>7. \A h \in ToSet(handlers'[u]) :
        \/ h \in ToSet(handlers[u])
        \/ h.kind = "snapshot" /\ h.screen \in DOMAIN screens[u] /\ IsInjective(h.ids)
  BY <1>1, <1>3, <1>5
<1>8. ASSUME NEW s \in DOMAIN screens[u], NEW i \in Nat
      PROVE  /\ Has(handlers'[u], AddedTo(s, i))
                  <=> Has(handlers[u], AddedTo(s, i)) \/ i \in S
             /\ Single(handlers[u], AddedTo(s, i))
                  /\ ~(Has(handlers[u], AddedTo(s, i)) /\ i \in S)
                  => Single(handlers'[u], AddedTo(s, i))
  <2>1. (Has(r, AddedTo(s, i)) <=> i \in S) /\ Single(r, AddedTo(s, i))
    BY <1>1, <1>3, <1>8
  <2> QED
    BY <1>5, <2>1
<1> QED
  BY <1>5, <1>6, <1>7, <1>8

(* The backend's comments reach a client and all its screens. *)
LEMMA SyncStep ==
  ASSUME CommentsInv, NEW u \in Users, Sync(u)
  PROVE  CommentsInv'
<1> DEFINE S == comments \ View(u)
<1>1. /\ UNCHANGED <<made, comments, announced, outbox, screens, texts, faults, refused, calm>>
      /\ cache' = [cache EXCEPT ![u] = comments]
      /\ AllTold(u, S)
  BY DEF Sync, AllTold
<1>2. /\ TypeInv /\ WellFormed /\ WrittenOnce /\ made \in Seq(Made) /\ texts \in Nat
  BY DEF CommentsInv, TypeInv
<1>3. \A i : i \in View(u) <=> Known(u, i)
  BY <1>2, ViewIs
<1>4. S \in SUBSET Nat /\ IsFiniteSet(S)
  <2>1. DOMAIN made = 1 .. Len(made) /\ Len(made) \in Nat
    BY <1>2
  <2>2. S \subseteq 1 .. Len(made)
    BY <1>2, <2>1 DEF WrittenOnce
  <2>3. IsFiniteSet(1 .. Len(made))
    BY <2>1, FS_Interval
  <2> QED
    BY <2>1, <2>2, <2>3, FS_Subset
<1>5. \A i \in S : i \in comments /\ ~Known(u, i) /\ i \notin refused
  BY <1>2, <1>3 DEF WrittenOnce
<1>6. \A i \in comments : i \in S \/ Known(u, i)
  BY <1>3
<1> HIDE DEF S
<1>7. /\ handlers' \in Queues(Users, Reply)
      /\ \A h \in ToSet(handlers'[u]) :
           \/ h \in ToSet(handlers[u])
           \/ h.kind = "snapshot" /\ h.screen \in DOMAIN screens[u] /\ IsInjective(h.ids)
      /\ \A v \in Users : \A h : h.kind = "posted" =>
           (h \in ToSet(handlers'[v]) <=> h \in ToSet(handlers[v]))
      /\ \A s \in DOMAIN screens[u] : \A i \in Nat :
           /\ Has(handlers'[u], AddedTo(s, i))
                <=> Has(handlers[u], AddedTo(s, i)) \/ i \in S
           /\ Single(handlers[u], AddedTo(s, i))
                /\ ~(Has(handlers[u], AddedTo(s, i)) /\ i \in S)
                => Single(handlers'[u], AddedTo(s, i))
      /\ \A v \in Users : v # u => handlers'[v] = handlers[v]
  BY <1>1, <1>2, <1>4, AllToldIs
<1>8. /\ cache' \in [Users -> SUBSET Nat]
      /\ cache'[u] = comments
      /\ \A v \in Users : v # u => cache'[v] = cache[v]
  <2>1. cache \in [Users -> SUBSET Nat]
    BY <1>2 DEF TypeInv
  <2>2. comments \subseteq Nat
    BY <1>2 DEF WrittenOnce
  <2> QED
    BY <1>1, <2>1, <2>2
<1>9. /\ \A i : Known(u, i)' <=> Known(u, i) \/ i \in S
      /\ \A v \in Users : v # u => \A i : Known(v, i)' <=> Known(v, i)
  <2>1. \A i \in cache[u] : i \in comments
    BY <1>2 DEF WrittenOnce
  <2>2. \A i : Known(u, i)' <=> i \in comments \/ Has(outbox[u], WriteOf(i))
    BY <1>1, <1>8 DEF Known, WriteOf, Posting
  <2>3. \A i : i \in comments => i \in S \/ Known(u, i)
    BY <1>6
  <2>4. \A i : Known(u, i) => i \in comments \/ Has(outbox[u], WriteOf(i))
    BY <2>1 DEF Known
  <2>5. \A i : Has(outbox[u], WriteOf(i)) => Known(u, i)
    BY DEF Known
  <2>6. \A i : Known(u, i)' <=> Known(u, i) \/ i \in S
    BY <1>5, <2>2, <2>3, <2>4, <2>5
  <2>7. \A v \in Users : v # u => \A i : Known(v, i)' <=> Known(v, i)
    BY <1>1, <1>8 DEF Known
  <2> QED
    BY <2>6, <2>7
<1>10. TypeInv'
  BY <1>1, <1>2, <1>7, <1>8 DEF TypeInv
<1>11. WellFormed'
  <2>1. \A v \in Users : \A w \in ToSet(outbox[v]) : Issued(v, w)'
    BY <1>1, <1>2 DEF WellFormed, Issued
  <2>2. \A v \in Users : \A h \in ToSet(handlers[v]) : Completed(v, h)'
    BY <1>1, <1>2 DEF WellFormed, Completed
  <2>3. \A h : h.kind = "snapshot" /\ h.screen \in DOMAIN screens[u] /\ IsInjective(h.ids)
          => Completed(u, h)'
    BY <1>1 DEF Completed
  <2>4. \A v \in Users : \A h \in ToSet(handlers'[v]) : Completed(v, h)'
    BY <1>7, <2>2, <2>3
  <2> QED
    BY <1>1, <2>1, <2>4 DEF WellFormed
<1>12. WrittenOnce'
  <2>1. \A v \in Users : cache'[v] \subseteq comments
    BY <1>2, <1>8 DEF WrittenOnce
  <2> QED
    BY <1>1, <1>2, <2>1 DEF WrittenOnce
<1>13. ListsExact'
  <2>1. SUFFICES ASSUME NEW v \in Users, NEW t \in DOMAIN screens[v]
                 PROVE  ToldOnce(v, t)'
    BY <1>1 DEF ListsExact
  <2>2. ToldOnce(v, t) /\ screens'[v][t].list = screens[v][t].list
    BY <1>1 DEF CommentsInv, ListsExact
  <2>3. CASE v # u
    <3>1. handlers'[v] = handlers[v] /\ \A i \in Nat : Known(v, i)' <=> Known(v, i)
      BY <1>7, <1>9, <2>3
    <3> QED
      BY <1>1, <2>2, <3>1, ToldKept
  <2>4. CASE v = u
    <3>1. ToldOnce(u, t) /\ screens'[u][t].list = screens[u][t].list /\ t \in DOMAIN screens[u]
      BY <2>1, <2>2, <2>4
    <3>2. \A i \in Nat : Has(handlers'[u], AddedTo(t, i))
                           <=> Has(handlers[u], AddedTo(t, i)) \/ i \in S
      BY <1>7, <3>1
    <3>3. \A i \in Nat : Single(handlers[u], AddedTo(t, i))
                           /\ ~(Has(handlers[u], AddedTo(t, i)) /\ i \in S)
                           => Single(handlers'[u], AddedTo(t, i))
      BY <1>7, <3>1
    <3>4. /\ \A i \in Nat : Known(u, i)' <=> Known(u, i) \/ i \in S
          /\ \A i \in S : ~Known(u, i) /\ i \notin refused
      BY <1>5, <1>9
    <3>5. ToldOnce(u, t)'
      BY <1>1, <3>1, <3>2, <3>3, <3>4, ToldMore
    <3> QED
      BY <2>4, <3>5
  <2> QED
    BY <2>3, <2>4
<1>14. AnnouncedInTime'
  <2>1. \A v \in Users : \A i : Announcing(v, i)' <=> Announcing(v, i)
    BY <1>1, <1>7 DEF Announcing
  <2>2. \A i \in comments : made[i].author \in Users
    BY <1>2, FieldsTyped DEF WrittenOnce, Made
  <2> QED
    BY <1>1, <2>1, <2>2 DEF CommentsInv, AnnouncedInTime
<1>15. TextsFresh'
  BY <1>1 DEF CommentsInv, TextsFresh, FieldsDistinct, Nothing
<1>16. FieldsKept
  BY <1>1 DEF FieldsKept
<1>17. FieldsPending'
  <2>1. \A v \in Users : \A t, i : Waiting(v, t, i) => Waiting(v, t, i)'
    BY <1>1, <1>7 DEF Waiting
  <2> QED
    BY <1>1, <1>16, <2>1, PendingKept DEF CommentsInv
<1>18. CalmKept'
  <2>1. \A v \in Users : \A t : Busy(v, t)' => Busy(v, t)
    BY <1>1, <1>7 DEF Busy
  <2>2. \A t : Posted(t) => Posted(t)'
    BY <1>1 DEF Posted
  <2> QED
    BY <1>1, <1>2, <1>16, <2>1, <2>2, CalmStays DEF CommentsInv
<1> QED
  BY <1>10, <1>11, <1>12, <1>13, <1>14, <1>15, <1>17, <1>18 DEF CommentsInv

(* A comment is made: it is queued, and all screens of its device are told. *)
LEMMA TapPostStep ==
  ASSUME CommentsInv, NEW u \in Users, NEW s \in DOMAIN screens[u], OnTapPost(u, s)
  PROVE  CommentsInv'
<1>0. PICK id \in Nat : id = Len(made) + 1
  BY DEF CommentsInv, TypeInv
<1> DEFINE c == [author |-> u, text |-> screens[u][s].input]
           w == [kind |-> "comment", id |-> id, screen |-> s]
           S == {id}
<1>1. /\ UNCHANGED <<comments, announced, cache, screens, texts, faults, refused, calm>>
      /\ made' = Append(made, c)
      /\ AllTold(u, S)
  BY <1>0 DEF OnTapPost, AllTold
<1>2. /\ TypeInv /\ WellFormed /\ WrittenOnce /\ made \in Seq(Made) /\ texts \in Nat
      /\ outbox \in Queues(Users, Posting) /\ screens[u] \in Seq(Page)
  BY DEF CommentsInv, TypeInv, Queues
<1>3. Pushed(outbox, outbox', u, w)
  BY <1>0, <1>2 DEF OnTapPost, Pushed, ChangedAt, Queues
<1>4. screens[u][s] \in Page /\ screens[u][s].input \in Nat
  BY <1>2, FieldsTyped
<1>5. c \in Made /\ c.author = u /\ c.text = screens[u][s].input
  BY <1>4 DEF Made
<1>6. /\ w \in Posting /\ w.kind = "comment" /\ w.id = id /\ w.screen = s
      /\ s \in Nat /\ s # 0 /\ s \in 0 .. Len(screens[u])
  <2>1. s \in Nat /\ s # 0 /\ s \in 0 .. Len(screens[u])
    BY <1>2
  <2> QED
    BY <2>1 DEF Posting
<1>7. S \in SUBSET Nat /\ IsFiniteSet(S) /\ \A i : i \in S <=> i = id
  BY FS_Singleton
<1> HIDE DEF c, w, S
<1>8. /\ made' \in Seq(Made)
      /\ id \notin DOMAIN made
      /\ DOMAIN made' = DOMAIN made \cup {id}
      /\ \A i \in DOMAIN made : made'[i] = made[i]
      /\ made'[id] = c
  BY <1>0, <1>1, <1>2, <1>5, Appended
<1>9. /\ outbox' \in Queues(Users, Posting)
      /\ ToSet(outbox'[u]) = ToSet(outbox[u]) \cup {w}
      /\ \A X : Has(outbox'[u], X) <=> Has(outbox[u], X) \/ w \in X
      /\ \A X : Single(outbox[u], X) /\ (w \in X => ~Has(outbox[u], X)) => Single(outbox'[u], X)
      /\ \A v \in Users : v # u => outbox'[v] = outbox[v]
  BY <1>2, <1>3, <1>6, OneMore
<1>10. /\ handlers' \in Queues(Users, Reply)
       /\ \A h \in ToSet(handlers'[u]) :
            \/ h \in ToSet(handlers[u])
            \/ h.kind = "snapshot" /\ h.screen \in DOMAIN screens[u] /\ IsInjective(h.ids)
       /\ \A v \in Users : \A h : h.kind = "posted" =>
            (h \in ToSet(handlers'[v]) <=> h \in ToSet(handlers[v]))
       /\ \A t \in DOMAIN screens[u] : \A i \in Nat :
            /\ Has(handlers'[u], AddedTo(t, i))
                 <=> Has(handlers[u], AddedTo(t, i)) \/ i \in S
            /\ Single(handlers[u], AddedTo(t, i))
                 /\ ~(Has(handlers[u], AddedTo(t, i)) /\ i \in S)
                 => Single(handlers'[u], AddedTo(t, i))
       /\ \A v \in Users : v # u => handlers'[v] = handlers[v]
  BY <1>1, <1>2, <1>7, AllToldIs
<1>11. \A i : w \in WriteOf(i) <=> i = id
  BY <1>6 DEF WriteOf
<1>12. \A v \in Users : ~Known(v, id) /\ ~Has(outbox[v], WriteOf(id)) /\ id \notin refused
                        /\ id \notin comments
  <2>1. \A v \in Users : \A i : i \in View(v) <=> Known(v, i)
    BY <1>2, ViewIs
  <2>2. ASSUME NEW v \in Users, Has(outbox[v], WriteOf(id)) PROVE FALSE
    <3>1. PICK x \in ToSet(outbox[v]) : x \in WriteOf(id)
      BY <2>2, HasElement
    <3>2. x.id \in DOMAIN made
      BY <1>2, <3>1 DEF WellFormed, Issued
    <3> QED
      BY <1>8, <3>1, <3>2 DEF WriteOf
  <2>3. \A v \in Users : id \notin cache[v]
    BY <1>2, <1>8 DEF WrittenOnce
  <2>4. id \notin refused /\ id \notin comments
    BY <1>2, <1>8 DEF WrittenOnce
  <2> QED
    BY <2>2, <2>3, <2>4 DEF Known
<1>13. /\ \A i : Known(u, i)' <=> Known(u, i) \/ i \in S
       /\ \A v \in Users : v # u => \A i : Known(v, i)' <=> Known(v, i)
  BY <1>1, <1>7, <1>9, <1>11 DEF Known, WriteOf, Posting
<1>14. TypeInv'
  BY <1>1, <1>2, <1>8, <1>9, <1>10 DEF TypeInv
<1>15. WellFormed'
  <2>1. ASSUME NEW v \in Users, NEW x \in ToSet(outbox[v]) PROVE Issued(v, x)'
    <3>1. Issued(v, x)
      BY <1>2, <2>1 DEF WellFormed
    <3> QED
      BY <1>1, <1>8, <3>1 DEF Issued
  <2>2. ASSUME NEW v \in Users, NEW h \in ToSet(handlers[v]) PROVE Completed(v, h)'
    <3>1. Completed(v, h)
      BY <1>2, <2>2 DEF WellFormed
    <3> QED
      BY <1>1, <1>8, <3>1 DEF Completed
  <2>3. Issued(u, w)'
    BY <1>1, <1>5, <1>6, <1>8 DEF Issued
  <2>4. \A h : h.kind = "snapshot" /\ h.screen \in DOMAIN screens[u] /\ IsInjective(h.ids)
          => Completed(u, h)'
    BY <1>1 DEF Completed
  <2>5. \A v \in Users : \A h \in ToSet(handlers'[v]) : Completed(v, h)'
    BY <1>10, <2>2, <2>4
  <2>6. \A v \in Users : \A x \in ToSet(outbox'[v]) : Issued(v, x)'
    BY <1>9, <2>1, <2>3
  <2> QED
    BY <2>5, <2>6 DEF WellFormed
<1>16. WrittenOnce'
  <2>1. ASSUME NEW v \in Users, NEW i \in DOMAIN made'
        PROVE  /\ Single(outbox'[v], WriteOf(i))
               /\ Has(outbox'[v], WriteOf(i)) => i \notin comments /\ i \notin refused
    <3>1. CASE i = id
      <4>1. ~Has(outbox[v], WriteOf(id)) /\ Single(outbox[v], WriteOf(id))
        BY <1>12, <2>1, NoneSingle
      <4> QED
        BY <1>9, <1>12, <3>1, <4>1
    <3>2. CASE i # id
      <4>1. i \in DOMAIN made /\ w \notin WriteOf(i)
        BY <1>8, <1>11, <2>1, <3>2
      <4>2. /\ Single(outbox[v], WriteOf(i))
            /\ Has(outbox[v], WriteOf(i)) => i \notin comments /\ i \notin refused
        BY <1>2, <2>1, <4>1 DEF WrittenOnce
      <4> QED
        BY <1>9, <4>1, <4>2
    <3> QED
      BY <3>1, <3>2
  <2>2. comments \subseteq DOMAIN made' /\ refused \subseteq DOMAIN made'
    BY <1>2, <1>8 DEF WrittenOnce
  <2> QED
    BY <1>1, <1>2, <2>1, <2>2 DEF WrittenOnce
<1>17. ListsExact'
  <2>1. SUFFICES ASSUME NEW v \in Users, NEW t \in DOMAIN screens[v]
                 PROVE  ToldOnce(v, t)'
    BY <1>1 DEF ListsExact
  <2>2. ToldOnce(v, t) /\ screens'[v][t].list = screens[v][t].list
    BY <1>1 DEF CommentsInv, ListsExact
  <2>3. CASE v # u
    <3>1. handlers'[v] = handlers[v] /\ \A i \in Nat : Known(v, i)' <=> Known(v, i)
      BY <1>10, <1>13, <2>3
    <3> QED
      BY <1>1, <2>2, <3>1, ToldKept
  <2>4. CASE v = u
    <3>1. ToldOnce(u, t) /\ screens'[u][t].list = screens[u][t].list /\ t \in DOMAIN screens[u]
      BY <2>1, <2>2, <2>4
    <3>2. \A i \in Nat : Has(handlers'[u], AddedTo(t, i))
                           <=> Has(handlers[u], AddedTo(t, i)) \/ i \in S
      BY <1>10, <3>1
    <3>3. \A i \in Nat : Single(handlers[u], AddedTo(t, i))
                           /\ ~(Has(handlers[u], AddedTo(t, i)) /\ i \in S)
                           => Single(handlers'[u], AddedTo(t, i))
      BY <1>10, <3>1
    <3>4. /\ \A i \in Nat : Known(u, i)' <=> Known(u, i) \/ i \in S
          /\ \A i \in S : ~Known(u, i) /\ i \notin refused
      BY <1>7, <1>12, <1>13
    <3>5. ToldOnce(u, t)'
      BY <1>1, <3>1, <3>2, <3>3, <3>4, ToldMore
    <3> QED
      BY <2>4, <3>5
  <2> QED
    BY <2>3, <2>4
<1>18. AnnouncedInTime'
  <2>1. \A v \in Users : \A i : Announcing(v, i) => Announcing(v, i)'
    BY <1>9, <1>10 DEF Announcing
  <2>2. \A i \in comments : i \in DOMAIN made /\ made[i].author \in Users
    BY <1>2, FieldsTyped DEF WrittenOnce, Made
  <2>3. \A i \in announced : i \in DOMAIN made /\ made[i].author # Owner
    BY DEF CommentsInv, AnnouncedInTime
  <2>4. \A i \in comments : made[i].author # Owner /\ faults = 0
          => i \in announced \/ Announcing(made[i].author, i)
    BY DEF CommentsInv, AnnouncedInTime
  <2>5. ASSUME NEW i \in comments, made'[i].author # Owner, faults = 0
        PROVE  \/ i \in announced
               \/ \E a \in Users : a = made'[i].author /\ Announcing(a, i)'
    BY <1>8, <2>1, <2>2, <2>4, <2>5
  <2>6. \A i \in announced : i \in DOMAIN made' /\ made'[i].author # Owner
    BY <1>8, <2>3
  <2> QED
    BY <1>1, <2>5, <2>6 DEF AnnouncedInTime, Announcing
<1>19. FieldsKept
  BY <1>1 DEF FieldsKept
<1>20. TextsFresh'
  <2>1. \A i \in DOMAIN made' : made'[i].text <= texts
    BY <1>5, <1>8 DEF CommentsInv, TextsFresh
  <2> QED
    BY <1>1, <1>2, <1>19, <2>1, FreshKept DEF CommentsInv
<1>21. FieldsPending'
  <2>1. SUFFICES ASSUME NEW v \in Users, NEW t \in DOMAIN screens[v], NEW i \in DOMAIN made',
                        made'[i].text = screens[v][t].input, made'[i].text # Nothing
                 PROVE  made'[i].author = v /\ Waiting(v, t, i)'
    BY <1>1 DEF FieldsPending, Nothing
  <2>2. CASE i = id
    <3>1. screens[u][s].input = screens[v][t].input /\ screens[u][s].input # Nothing
      BY <1>5, <1>8, <2>1, <2>2
    <3>2. FieldsDistinct
      BY DEF CommentsInv, TextsFresh
    <3>3. v = u /\ t = s
      BY <3>1, <3>2, OneField
    <3> QED
      BY <1>5, <1>6, <1>8, <1>9, <2>2, <3>3 DEF Waiting
  <2>3. CASE i # id
    <3>1. i \in DOMAIN made /\ made'[i] = made[i]
      BY <1>8, <2>1, <2>3
    <3>2. made[i].author = v /\ Waiting(v, t, i)
      BY <2>1, <3>1 DEF CommentsInv, FieldsPending
    <3>3. ToSet(outbox[v]) \subseteq ToSet(outbox'[v])
      BY <1>9
    <3> QED
      BY <1>10, <3>1, <3>2, <3>3 DEF Waiting
  <2> QED
    BY <2>2, <2>3
<1>22. CalmKept'
  <2>1. \A t : Posted(t) => Posted(t)'
    BY <1>8 DEF Posted
  <2>2. \A v \in Users : \A t : Busy(v, t)' => Busy(v, t) \/ (v = u /\ t = s)
    BY <1>6, <1>9, <1>10 DEF Busy
  <2>3. \A t : t = screens[u][s].input => Posted(t)'
    BY <1>5, <1>8 DEF Posted
  <2>4. \A t \in calm' : \A v \in Users : \A r \in DOMAIN screens'[v] :
          screens'[v][r].input = t /\ Busy(v, r)' => Busy(v, r) \/ Posted(t)'
    BY <1>1, <2>2, <2>3
  <2>5. \A t \in calm' : \A v \in Users : \A r \in DOMAIN screens[v] :
          screens[v][r].input = t =>
            Posted(t)' \/ (r \in DOMAIN screens'[v] /\ screens'[v][r].input = t)
    BY <1>1
  <2> QED
    BY <1>1, <1>2, <1>19, <2>1, <2>4, <2>5, CalmStays DEF CommentsInv
<1> QED
  BY <1>14, <1>15, <1>16, <1>17, <1>18, <1>20, <1>21, <1>22 DEF CommentsInv

----------------------------------------------------------------------------
(* The front of an outbox leaves; its completion is queued if it has one. *)
LEMMA DepartIs ==
  ASSUME TypeInv, WellFormed, NEW u \in Users, Depart(u), NEW w, w = Head(outbox[u])
  PROVE  /\ outbox' \in Queues(Users, Posting)
         /\ w \in Posting /\ w \in ToSet(outbox[u])
         /\ ToSet(outbox[u]) = {w} \cup ToSet(outbox'[u])
         /\ \A X : Has(outbox[u], X) <=> Has(outbox'[u], X) \/ w \in X
         /\ \A X : Single(outbox[u], X) =>
                     Single(outbox'[u], X) /\ (w \in X => ~Has(outbox'[u], X))
         /\ handlers' \in Queues(Users, Reply)
         /\ ToSet(handlers[u]) \subseteq ToSet(handlers'[u])
         /\ \A h \in ToSet(handlers'[u]) :
              \/ h \in ToSet(handlers[u])
              \/ h.kind = "posted" /\ h.ids = <<w.id>> /\ h.screen = w.screen /\ h.screen # 0
         /\ w.screen # 0 =>
              \E h \in ToSet(handlers'[u]) :
                h.kind = "posted" /\ h.ids = <<w.id>> /\ h.screen = w.screen
         /\ \A t, i : Has(handlers'[u], AddedTo(t, i)) <=> Has(handlers[u], AddedTo(t, i))
         /\ \A t, i : Single(handlers[u], AddedTo(t, i)) => Single(handlers'[u], AddedTo(t, i))
         /\ \A v \in Users : v # u => outbox'[v] = outbox[v] /\ handlers'[v] = handlers[v]
<1>1. /\ outbox \in Queues(Users, Posting) /\ handlers \in Queues(Users, Reply)
  BY DEF TypeInv
<1>2. Popped(outbox, outbox', u)
  BY <1>1 DEF Depart, Popped, ChangedAt, Queues
<1>3. /\ outbox' \in Queues(Users, Posting)
      /\ w \in Posting
      /\ ToSet(outbox[u]) = {w} \cup ToSet(outbox'[u])
      /\ \A X : Has(outbox[u], X) <=> Has(outbox'[u], X) \/ w \in X
      /\ \A X : Single(outbox[u], X) =>
                  Single(outbox'[u], X) /\ (w \in X => ~Has(outbox'[u], X))
      /\ \A v \in Users : v # u => outbox'[v] = outbox[v]
  BY <1>1, <1>2, OneLess
<1>4. CASE w.screen = 0
  <2>1. handlers' = handlers
    BY <1>4 DEF Depart
  <2> QED
    BY <1>1, <1>3, <1>4, <2>1
<1>5. CASE w.screen # 0
  <2> DEFINE h == [kind |-> "posted", ids |-> <<w.id>>, screen |-> w.screen]
  <2>1. w.id \in Nat /\ w.screen \in Nat
    BY <1>3 DEF Posting
  <2>2. h \in Reply /\ h.kind = "posted" /\ h.ids = <<w.id>> /\ h.screen = w.screen
    BY <2>1 DEF Reply
  <2>3. Pushed(handlers, handlers', u, h)
    BY <1>1, <1>5 DEF Depart, Pushed, ChangedAt, Queues
  <2> HIDE DEF h
  <2>4. /\ handlers' \in Queues(Users, Reply)
        /\ ToSet(handlers'[u]) = ToSet(handlers[u]) \cup {h}
        /\ \A X : Has(handlers'[u], X) <=> Has(handlers[u], X) \/ h \in X
        /\ \A X : Single(handlers[u], X) /\ (h \in X => ~Has(handlers[u], X))
                    => Single(handlers'[u], X)
        /\ \A v \in Users : v # u => handlers'[v] = handlers[v]
    BY <1>1, <2>2, <2>3, OneMore
  <2>5. \A t, i : h \notin AddedTo(t, i)
    BY <2>2 DEF AddedTo
  <2>6. \A x \in ToSet(handlers'[u]) :
          \/ x \in ToSet(handlers[u])
          \/ x.kind = "posted" /\ x.ids = <<w.id>> /\ x.screen = w.screen /\ x.screen # 0
    BY <1>5, <2>2, <2>4
  <2>7. \E x \in ToSet(handlers'[u]) :
          x.kind = "posted" /\ x.ids = <<w.id>> /\ x.screen = w.screen
    BY <2>2, <2>4
  <2> QED
    BY <1>3, <2>4, <2>5, <2>6, <2>7
<1> QED
  BY <1>4, <1>5

(* A departure leaves every field, every screen and what they wait for. *)
LEMMA DepartKeeps ==
  ASSUME CommentsInv, NEW u \in Users, Depart(u), made' = made, screens' = screens,
         texts' = texts, calm' = calm, faults' = 0 => faults = 0
  PROVE  /\ WellFormed' /\ TextsFresh' /\ FieldsPending' /\ CalmKept'
<1>0. PICK w : w = Head(outbox[u])
  OBVIOUS
<1>1. TypeInv /\ WellFormed /\ texts \in Nat
  BY DEF CommentsInv, TypeInv
<1>2. /\ w \in Posting /\ w \in ToSet(outbox[u])
      /\ ToSet(outbox[u]) = {w} \cup ToSet(outbox'[u])
      /\ ToSet(handlers[u]) \subseteq ToSet(handlers'[u])
      /\ \A h \in ToSet(handlers'[u]) :
           \/ h \in ToSet(handlers[u])
           \/ h.kind = "posted" /\ h.ids = <<w.id>> /\ h.screen = w.screen /\ h.screen # 0
      /\ w.screen # 0 =>
           \E h \in ToSet(handlers'[u]) :
             h.kind = "posted" /\ h.ids = <<w.id>> /\ h.screen = w.screen
      /\ \A v \in Users : v # u => outbox'[v] = outbox[v] /\ handlers'[v] = handlers[v]
  BY <1>0, <1>1, DepartIs, SMTT(30)
<1>3. Issued(u, w)
  BY <1>1, <1>2 DEF WellFormed
<1>4. WellFormed'
  <2>1. \A v \in Users : \A x \in ToSet(outbox[v]) : Issued(v, x)'
    BY <1>1 DEF WellFormed, Issued
  <2>2. \A v \in Users : \A h \in ToSet(handlers[v]) : Completed(v, h)'
    BY <1>1 DEF WellFormed, Completed
  <2>3. \A v \in Users : \A x \in ToSet(outbox'[v]) : Issued(v, x)'
    BY <1>2, <2>1
  <2>4. ASSUME NEW h, h.kind = "posted", h.ids = <<w.id>>, h.screen = w.screen, h.screen # 0
        PROVE  Completed(u, h)'
    <3>1. h.screen \in DOMAIN screens[u]
      <4>1. screens[u] \in Seq(Page)
        BY <1>1 DEF TypeInv, Queues
      <4>2. DOMAIN screens[u] = 1 .. Len(screens[u]) /\ Len(screens[u]) \in Nat
        BY <4>1
      <4> QED
        BY <1>3, <2>4, <4>2 DEF Issued
    <3>2. w.id \in DOMAIN made /\ made[w.id].author = u
      BY <1>3 DEF Issued
    <3> QED
      BY <2>4, <3>1, <3>2 DEF Completed
  <2>5. \A v \in Users : \A h \in ToSet(handlers'[v]) : Completed(v, h)'
    BY <1>2, <2>2, <2>4
  <2> QED
    BY <2>3, <2>5 DEF WellFormed
<1>5. FieldsKept
  BY DEF FieldsKept
<1>6. TextsFresh'
  <2>1. \A i \in DOMAIN made' : made'[i].text <= texts
    BY DEF CommentsInv, TextsFresh
  <2> QED
    BY <1>1, <1>5, <2>1, FreshKept DEF CommentsInv
<1>7. FieldsPending'
  <2>1. ASSUME NEW v \in Users, NEW t \in DOMAIN screens[v], NEW i, Waiting(v, t, i)
        PROVE  Waiting(v, t, i)'
    <3>1. CASE v # u
      BY <1>2, <2>1, <3>1 DEF Waiting
    <3>2. CASE v = u
      <4>1. t # 0
        <5>1. screens[v] \in Seq(Page)
          BY <1>1 DEF TypeInv, Queues
        <5> QED
          BY <2>1, <5>1
      <4>2. CASE w.kind = "comment" /\ w.id = i /\ w.screen = t
        BY <1>2, <3>2, <4>1, <4>2 DEF Waiting
      <4>3. CASE ~(w.kind = "comment" /\ w.id = i /\ w.screen = t)
        BY <1>2, <2>1, <3>2, <4>3 DEF Waiting
      <4> QED
        BY <4>2, <4>3
    <3> QED
      BY <3>1, <3>2
  <2>2. \A v \in Users : \A t \in DOMAIN screens'[v] : \A i \in DOMAIN made :
          screens'[v][t].input # Nothing /\ Waiting(v, t, i) => Waiting(v, t, i)'
    BY <2>1
  <2> QED
    BY <1>5, <2>2, PendingKept DEF CommentsInv
<1>8. CalmKept'
  <2>1. \A v \in Users : \A t : Busy(v, t)' => Busy(v, t)
    BY <1>2 DEF Busy
  <2>2. \A t : Posted(t) => Posted(t)'
    BY DEF Posted
  <2> QED
    BY <1>1, <1>5, <2>1, <2>2, CalmStays DEF CommentsInv
<1> QED
  BY <1>4, <1>6, <1>7, <1>8

(* A comment or a notification reaches the backend. *)
LEMMA CommitStep ==
  ASSUME CommentsInv, NEW u \in Users, Commit(u)
  PROVE  CommentsInv'
<1>0. PICK w : w = Head(outbox[u])
  OBVIOUS
<1>1. /\ Depart(u)
      /\ made' = made /\ screens' = screens /\ texts' = texts /\ faults' = faults
      /\ refused' = refused /\ calm' = calm
      /\ \/ /\ w.kind = "comment"
            /\ comments' = comments \cup {w.id}
            /\ cache' = [cache EXCEPT ![u] = @ \cup {w.id}]
            /\ announced' = announced
         \/ /\ w.kind = "notification"
            /\ announced' = announced \cup {w.id}
            /\ comments' = comments /\ cache' = cache
  BY <1>0 DEF Commit
<1>2. TypeInv /\ WellFormed /\ WrittenOnce /\ Depart(u)
  BY <1>1 DEF CommentsInv
<1>3. /\ outbox' \in Queues(Users, Posting)
      /\ w \in Posting /\ w \in ToSet(outbox[u])
      /\ ToSet(outbox[u]) = {w} \cup ToSet(outbox'[u])
      /\ \A X : Has(outbox[u], X) <=> Has(outbox'[u], X) \/ w \in X
      /\ \A X : Single(outbox[u], X) =>
                  Single(outbox'[u], X) /\ (w \in X => ~Has(outbox'[u], X))
      /\ handlers' \in Queues(Users, Reply)
      /\ ToSet(handlers[u]) \subseteq ToSet(handlers'[u])
      /\ \A h \in ToSet(handlers'[u]) :
           \/ h \in ToSet(handlers[u])
           \/ h.kind = "posted" /\ h.ids = <<w.id>> /\ h.screen = w.screen /\ h.screen # 0
      /\ w.screen # 0 =>
           \E h \in ToSet(handlers'[u]) :
             h.kind = "posted" /\ h.ids = <<w.id>> /\ h.screen = w.screen
      /\ \A t, i : Has(handlers'[u], AddedTo(t, i)) <=> Has(handlers[u], AddedTo(t, i))
      /\ \A t, i : Single(handlers[u], AddedTo(t, i)) => Single(handlers'[u], AddedTo(t, i))
      /\ \A v \in Users : v # u => outbox'[v] = outbox[v] /\ handlers'[v] = handlers[v]
  BY <1>0, <1>2, DepartIs
<1>4. WellFormed' /\ TextsFresh' /\ FieldsPending' /\ CalmKept'
  BY <1>1, DepartKeeps
<1>5. /\ Issued(u, w) /\ w.id \in Nat /\ w.id \in DOMAIN made /\ made[w.id].author = u
  BY <1>2, <1>3 DEF WellFormed, Issued, Posting
<1>6. \A i : w \in WriteOf(i) <=> w.kind = "comment" /\ i = w.id
  BY <1>3 DEF WriteOf
<1>7. TypeInv'
  <2>1. cache \in [Users -> SUBSET Nat]
    BY <1>2 DEF TypeInv
  <2>2. cache' \in [Users -> SUBSET Nat]
    BY <1>1, <1>5, <2>1
  <2> QED
    BY <1>1, <1>2, <1>3, <2>2 DEF TypeInv
<1>8. \A v \in Users : v # u => ~Has(outbox[v], WriteOf(w.id))
  <2>1. SUFFICES ASSUME NEW v \in Users, v # u, Has(outbox[v], WriteOf(w.id)) PROVE FALSE
    OBVIOUS
  <2>2. PICK x \in ToSet(outbox[v]) : x \in WriteOf(w.id)
    BY <2>1, HasElement
  <2>3. x.id = w.id /\ made[x.id].author = v
    BY <1>2, <2>2 DEF WriteOf, WellFormed, Issued
  <2> QED
    BY <1>5, <2>1, <2>3
<1>9. \A v \in Users : \A i : Known(v, i)' <=> Known(v, i)
  <2>0. cache \in [Users -> SUBSET Nat]
    BY <1>2 DEF TypeInv
  <2>1. CASE w.kind = "comment"
    <3>1. cache'[u] = cache[u] \cup {w.id} /\ \A v \in Users : v # u => cache'[v] = cache[v]
      BY <1>1, <2>0, <2>1
    <3> QED
      BY <1>3, <1>6, <2>1, <3>1 DEF Known, WriteOf, Posting
  <2>2. CASE w.kind # "comment"
    <3>1. cache' = cache
      BY <1>1, <2>2
    <3> QED
      BY <1>3, <1>6, <2>2, <3>1 DEF Known, WriteOf, Posting
  <2> QED
    BY <2>1, <2>2
<1>10. WrittenOnce'
  <2>1. /\ comments \subseteq DOMAIN made /\ refused \subseteq DOMAIN made
        /\ comments \cap refused = {}
        /\ \A v \in Users : cache[v] \subseteq comments
        /\ \A v \in Users, i \in DOMAIN made :
             /\ Single(outbox[v], WriteOf(i))
             /\ Has(outbox[v], WriteOf(i)) => i \notin comments /\ i \notin refused
    BY <1>2 DEF WrittenOnce
  <2>2. CASE w.kind = "comment"
    <3>1. /\ comments' = comments \cup {w.id}
          /\ cache'[u] = cache[u] \cup {w.id} /\ \A v \in Users : v # u => cache'[v] = cache[v]
      <4>1. cache \in [Users -> SUBSET Nat]
        BY <1>2 DEF TypeInv
      <4> QED
        BY <1>1, <2>2, <4>1
    <3>2. w.id \notin refused
      BY <1>3, <1>5, <1>6, <2>1, <2>2
    <3>3. ASSUME NEW v \in Users, NEW i \in DOMAIN made
          PROVE  /\ Single(outbox'[v], WriteOf(i))
                 /\ Has(outbox'[v], WriteOf(i)) => i \notin comments' /\ i \notin refused
      <4>1. CASE v = u
        BY <1>3, <1>6, <2>1, <2>2, <3>1, <3>3, <4>1
      <4>2. CASE v # u
        <5>1. outbox'[v] = outbox[v] /\ ~Has(outbox[v], WriteOf(w.id))
          BY <1>3, <1>8, <4>2
        <5> QED
          BY <2>1, <3>1, <3>3, <5>1
      <4> QED
        BY <4>1, <4>2
    <3>4. /\ comments' \subseteq DOMAIN made /\ comments' \cap refused = {}
          /\ \A v \in Users : cache'[v] \subseteq comments'
      BY <1>5, <2>1, <3>1, <3>2
    <3> QED
      BY <1>1, <2>1, <3>3, <3>4 DEF WrittenOnce
  <2>3. CASE w.kind # "comment"
    <3>1. cache' = cache /\ comments' = comments
      BY <1>1, <2>3
    <3>2. ASSUME NEW v \in Users, NEW i \in DOMAIN made
          PROVE  /\ Single(outbox'[v], WriteOf(i))
                 /\ Has(outbox'[v], WriteOf(i)) => i \notin comments /\ i \notin refused
      <4>1. CASE v = u
        BY <1>3, <2>1, <3>2, <4>1
      <4>2. CASE v # u
        BY <1>3, <2>1, <3>2, <4>2
      <4> QED
        BY <4>1, <4>2
    <3> QED
      BY <1>1, <2>1, <3>1, <3>2 DEF WrittenOnce
  <2> QED
    BY <2>2, <2>3
<1>11. ListsExact'
  <2>1. SUFFICES ASSUME NEW v \in Users, NEW t \in DOMAIN screens[v]
                 PROVE  ToldOnce(v, t)'
    BY <1>1 DEF ListsExact
  <2>2. ToldOnce(v, t) /\ screens'[v][t].list = screens[v][t].list
    BY <1>1 DEF CommentsInv, ListsExact
  <2>3. \A i \in Nat : /\ Has(handlers'[v], AddedTo(t, i)) <=> Has(handlers[v], AddedTo(t, i))
                       /\ Single(handlers[v], AddedTo(t, i)) => Single(handlers'[v], AddedTo(t, i))
    BY <1>3
  <2>4. \A i \in Nat : Known(v, i)' <=> Known(v, i)
    BY <1>9
  <2> QED
    BY <1>1, <2>2, <2>3, <2>4, ToldKept
<1>12. AnnouncedInTime'
  <2>1. \A i \in announced : i \in DOMAIN made /\ made[i].author # Owner
    BY DEF CommentsInv, AnnouncedInTime
  <2>2. \A i \in comments : i \in DOMAIN made /\ made[i].author \in Users
    BY <1>2, FieldsTyped DEF WrittenOnce, Made
  <2>3. \A i \in announced' : i \in DOMAIN made /\ made[i].author # Owner
    <3>1. w.kind = "notification" => u # Owner
      BY <1>5 DEF Issued
    <3> QED
      BY <1>1, <1>5, <2>1, <3>1
  <2>4. \A a \in Users : \A i : Announcing(a, i) => Announcing(a, i)' \/ i \in announced'
    <3>1. SUFFICES ASSUME NEW a \in Users, NEW i, Announcing(a, i), i \notin announced'
                   PROVE  Announcing(a, i)'
      OBVIOUS
    <3>2. CASE a # u
      BY <1>3, <3>1, <3>2 DEF Announcing
    <3>3. CASE a = u
      <4>1. ~(w.kind = "notification" /\ w.id = i)
        BY <1>1, <3>1
      <4> QED
        BY <1>3, <3>1, <3>3, <4>1 DEF Announcing
    <3> QED
      BY <3>2, <3>3
  <2>5. ASSUME NEW i \in comments', made[i].author # Owner, faults = 0
        PROVE  i \in announced' \/ \E a \in Users : a = made[i].author /\ Announcing(a, i)'
    <3>1. CASE i \in comments
      <4>1. i \in announced \/ Announcing(made[i].author, i)
        BY <2>5, <3>1 DEF CommentsInv, AnnouncedInTime
      <4>2. announced \subseteq announced'
        BY <1>1
      <4> QED
        BY <2>2, <2>4, <3>1, <4>1, <4>2
    <3>2. CASE i \notin comments
      <4>1. i = w.id /\ w.kind = "comment"
        BY <1>1, <2>5, <3>2
      <4>2. w.screen # 0
        BY <1>5, <2>5, <4>1 DEF Issued
      <4> QED
        BY <1>3, <1>5, <4>1, <4>2 DEF Announcing
    <3> QED
      BY <3>1, <3>2
  <2> QED
    BY <1>1, <2>3, <2>5 DEF AnnouncedInTime, Announcing
<1> QED
  BY <1>4, <1>7, <1>10, <1>11, <1>12 DEF CommentsInv

(* A write is refused. *)
LEMMA RefuseStep ==
  ASSUME CommentsInv, NEW u \in Users, Refuse(u)
  PROVE  CommentsInv'
<1>0. PICK w : w = Head(outbox[u])
  OBVIOUS
<1>1. /\ Depart(u)
      /\ made' = made /\ screens' = screens /\ texts' = texts /\ calm' = calm
      /\ comments' = comments /\ announced' = announced /\ cache' = cache
      /\ refused' = IF w.kind = "comment" THEN refused \cup {w.id} ELSE refused
  BY <1>0 DEF Refuse
<1>2. /\ TypeInv /\ WellFormed /\ WrittenOnce
  BY DEF CommentsInv
<1>3. faults' = faults + 1 /\ faults' \in Nat /\ faults' # 0
  BY <1>2 DEF Refuse, Fault, TypeInv
<1>4. /\ outbox' \in Queues(Users, Posting)
      /\ w \in Posting /\ w \in ToSet(outbox[u])
      /\ \A X : Has(outbox[u], X) <=> Has(outbox'[u], X) \/ w \in X
      /\ \A X : Single(outbox[u], X) =>
                  Single(outbox'[u], X) /\ (w \in X => ~Has(outbox'[u], X))
      /\ handlers' \in Queues(Users, Reply)
      /\ \A t, i : Has(handlers'[u], AddedTo(t, i)) <=> Has(handlers[u], AddedTo(t, i))
      /\ \A t, i : Single(handlers[u], AddedTo(t, i)) => Single(handlers'[u], AddedTo(t, i))
      /\ \A v \in Users : v # u => outbox'[v] = outbox[v] /\ handlers'[v] = handlers[v]
  BY <1>0, <1>1, <1>2, DepartIs
<1>5. WellFormed' /\ TextsFresh' /\ FieldsPending' /\ CalmKept'
  BY <1>1, <1>3, DepartKeeps
<1>6. /\ Issued(u, w) /\ w.id \in Nat /\ w.id \in DOMAIN made /\ made[w.id].author = u
  BY <1>2, <1>4 DEF WellFormed, Issued, Posting
<1>7. \A i : w \in WriteOf(i) <=> w.kind = "comment" /\ i = w.id
  BY <1>4 DEF WriteOf
<1>8. /\ refused \subseteq refused'
      /\ \A i \in refused' : i \in refused \/ (w.kind = "comment" /\ i = w.id)
      /\ w.kind = "comment" => w.id \in refused'
  BY <1>1
<1>9. TypeInv'
  BY <1>1, <1>2, <1>3, <1>4 DEF TypeInv
<1>10. \A v \in Users : v # u => ~Has(outbox[v], WriteOf(w.id))
  <2>1. SUFFICES ASSUME NEW v \in Users, v # u, Has(outbox[v], WriteOf(w.id)) PROVE FALSE
    OBVIOUS
  <2>2. PICK x \in ToSet(outbox[v]) : x \in WriteOf(w.id)
    BY <2>1, HasElement
  <2>3. x.id = w.id /\ made[x.id].author = v
    BY <1>2, <2>2 DEF WriteOf, WellFormed, Issued
  <2> QED
    BY <1>6, <2>1, <2>3
<1>11. \A v \in Users : \A i : /\ Known(v, i)' => Known(v, i)
                               /\ Known(v, i) => Known(v, i)' \/ i \in refused'
  BY <1>1, <1>4, <1>7, <1>8 DEF Known, WriteOf, Posting
<1>12. WrittenOnce'
  <2>1. /\ comments \subseteq DOMAIN made /\ refused \subseteq DOMAIN made
        /\ comments \cap refused = {}
        /\ \A v \in Users : cache[v] \subseteq comments
        /\ \A v \in Users, i \in DOMAIN made :
             /\ Single(outbox[v], WriteOf(i))
             /\ Has(outbox[v], WriteOf(i)) => i \notin comments /\ i \notin refused
    BY <1>2 DEF WrittenOnce
  <2>2. refused' \subseteq DOMAIN made /\ comments \cap refused' = {}
    <3>1. w.kind = "comment" => w.id \notin comments
      BY <1>4, <1>6, <1>7, <2>1
    <3> QED
      BY <1>6, <1>8, <2>1, <3>1
  <2>3. ASSUME NEW v \in Users, NEW i \in DOMAIN made
        PROVE  /\ Single(outbox'[v], WriteOf(i))
               /\ Has(outbox'[v], WriteOf(i)) => i \notin comments /\ i \notin refused'
    <3>1. CASE v = u
      BY <1>4, <1>7, <1>8, <2>1, <2>3, <3>1
    <3>2. CASE v # u
      <4>1. outbox'[v] = outbox[v] /\ ~Has(outbox[v], WriteOf(w.id))
        BY <1>4, <1>10, <3>2
      <4> QED
        BY <1>8, <2>1, <2>3, <4>1
    <3> QED
      BY <3>1, <3>2
  <2> QED
    BY <1>1, <2>1, <2>2, <2>3 DEF WrittenOnce
<1>13. ListsExact'
  <2>1. SUFFICES ASSUME NEW v \in Users, NEW t \in DOMAIN screens[v]
                 PROVE  ToldOnce(v, t)'
    BY <1>1 DEF ListsExact
  <2>2. ToldOnce(v, t) /\ screens'[v][t].list = screens[v][t].list
    BY <1>1 DEF CommentsInv, ListsExact
  <2>3. \A i \in Nat : /\ Has(handlers'[v], AddedTo(t, i)) <=> Has(handlers[v], AddedTo(t, i))
                       /\ Single(handlers[v], AddedTo(t, i)) => Single(handlers'[v], AddedTo(t, i))
    BY <1>4
  <2>4. \A i \in Nat : /\ Known(v, i)' => Known(v, i)
                       /\ Known(v, i) => Known(v, i)' \/ i \in refused'
    BY <1>11
  <2> QED
    BY <1>8, <2>2, <2>3, <2>4, ToldKept
<1>14. AnnouncedInTime'
  BY <1>1, <1>3 DEF CommentsInv, AnnouncedInTime
<1> QED
  BY <1>5, <1>9, <1>12, <1>13, <1>14 DEF CommentsInv

----------------------------------------------------------------------------
(* The comments of a snapshot move from the queue to the list. *)
LEMMA HandleSnapshotStep ==
  ASSUME CommentsInv, NEW u \in Users, HandleSnapshot(u)
  PROVE  CommentsInv'
<1>0. PICK h : h = Head(handlers[u])
  OBVIOUS
<1>1. UNCHANGED <<made, comments, announced, cache, outbox, texts, faults, refused, calm>>
  BY Zenon DEF HandleSnapshot
<1>2. /\ TypeInv /\ WellFormed /\ screens \in Queues(Users, Page)
      /\ handlers \in Queues(Users, Reply) /\ texts \in Nat
  BY DEF CommentsInv, TypeInv
<1>3. Popped(handlers, handlers', u)
  BY <1>2 DEF HandleSnapshot, Popped, ChangedAt, Queues
<1>4. /\ handlers' \in Queues(Users, Reply)
      /\ h \in Reply
      /\ ToSet(handlers[u]) = {h} \cup ToSet(handlers'[u])
      /\ \A X : Has(handlers[u], X) <=> Has(handlers'[u], X) \/ h \in X
      /\ \A X : Single(handlers[u], X) =>
                  Single(handlers'[u], X) /\ (h \in X => ~Has(handlers'[u], X))
      /\ \A v \in Users : v # u => handlers'[v] = handlers[v]
  BY <1>0, <1>2, <1>3, OneLess
<1>5. PICK s : s = h.screen
  OBVIOUS
<1>6. /\ h.kind = "snapshot" /\ h.ids \in Seq(Nat)
      /\ s \in DOMAIN screens[u] /\ IsInjective(h.ids)
  <2>1. h.kind = "snapshot"
    BY <1>0 DEF HandleSnapshot
  <2>2. Completed(u, h)
    BY <1>2, <1>4 DEF WellFormed
  <2> QED
    BY <1>4, <1>5, <2>1, <2>2, SMTT(30) DEF Completed, Reply
<1>r. PICK r : r = screens[u][s].list \o h.ids
  OBVIOUS
<1> DEFINE p == [screens[u][s] EXCEPT !.list = r]
<1>7. screens[u][s] \in Page /\ screens[u][s].list \in Seq(Nat)
  <2>1. screens[u][s] \in Page
    BY <1>2, <1>6, FieldsTyped
  <2> QED
    BY <2>1 DEF Page
<1>8. /\ p \in Page /\ p.list = r
      /\ p.input = screens[u][s].input
  <2>1. r \in Seq(Nat)
    BY <1>6, <1>7, <1>r, ToSetConcat
  <2> QED
    BY <1>7, <2>1 DEF Page
<1>9. Turned(screens, screens', u, s, p)
  <2>1. screens' = [screens EXCEPT ![u][s].list = r]
    BY <1>0, <1>5, <1>r, Zenon DEF HandleSnapshot
  <2> QED
    BY <1>2, <1>6, <2>1 DEF Turned, PutAt, Queues
<1> HIDE DEF p
<1>10. /\ screens' \in Queues(Users, Page)
       /\ \A v \in Users : DOMAIN screens'[v] = DOMAIN screens[v]
                           /\ Len(screens'[v]) = Len(screens[v])
       /\ screens'[u][s] = p
       /\ \A v \in Users : \A t \in DOMAIN screens[v] :
            v # u \/ t # s => screens'[v][t] = screens[v][t]
  BY <1>2, <1>6, <1>8, <1>9, TurnedIs
<1>11. \A v \in Users : \A t \in DOMAIN screens[v] :
         screens'[v][t].input = screens[v][t].input
  BY <1>8, <1>10
<1>12. /\ \A v \in Users : ToSet(handlers'[v]) \subseteq ToSet(handlers[v])
       /\ \A v \in Users : \A x \in ToSet(handlers[v]) :
            x.kind = "posted" => x \in ToSet(handlers'[v])
  BY <1>4, <1>6
<1>13. \A t, i : h \in AddedTo(t, i) <=> t = s /\ i \in ToSet(h.ids)
  BY <1>4, <1>5, <1>6 DEF AddedTo
<1>14. TypeInv'
  BY <1>1, <1>2, <1>4, <1>10 DEF TypeInv
<1>15. WellFormed'
  <2>1. \A v \in Users : \A x \in ToSet(outbox[v]) : Issued(v, x)'
    BY <1>1, <1>2, <1>10 DEF WellFormed, Issued
  <2>2. \A v \in Users : \A x \in ToSet(handlers[v]) : Completed(v, x)'
    BY <1>1, <1>2, <1>10 DEF WellFormed, Completed
  <2> QED
    BY <1>1, <1>12, <2>1, <2>2 DEF WellFormed
<1>16. WrittenOnce'
  BY <1>1 DEF CommentsInv, WrittenOnce
<1>17. \A v, i : Known(v, i)' <=> Known(v, i)
  BY <1>1 DEF Known
<1>18. ToldOnce(u, s)'
  <2>1. ToldOnce(u, s)
    BY <1>6 DEF CommentsInv, ListsExact
  <2>2. PICK old : old = screens[u][s].list
    OBVIOUS
  <2>3. PICK new : new = screens'[u][s].list
    OBVIOUS
  <2>4. old \in Seq(Nat) /\ new = old \o h.ids
    BY <1>7, <1>8, <1>10, <1>r, <2>2, <2>3
  <2>5. /\ IsInjective(old)
        /\ \A i \in Nat :
             /\ Single(handlers[u], AddedTo(s, i))
             /\ Has(handlers[u], AddedTo(s, i)) => i \notin ToSet(old)
             /\ Has(handlers[u], AddedTo(s, i)) \/ i \in ToSet(old)
                  => Known(u, i) \/ i \in refused
             /\ Known(u, i) => Has(handlers[u], AddedTo(s, i)) \/ i \in ToSet(old)
    BY <2>1, <2>2 DEF ToldOnce
  <2>6. ToSet(new) = ToSet(old) \cup ToSet(h.ids) /\ ToSet(h.ids) \subseteq Nat
    BY <1>6, <2>4, ToSetConcat, ToSetType
  <2>7. \A i \in ToSet(h.ids) : i \notin ToSet(old)
    BY <1>4, <1>13, <2>5, <2>6
  <2>8. IsInjective(new)
    <3>1. ToSet(old) \cap ToSet(h.ids) = {}
      BY <2>7
    <3> QED
      BY <1>6, <2>4, <2>5, <3>1, Joined
  <2>9. ASSUME NEW i \in Nat
        PROVE  /\ Single(handlers'[u], AddedTo(s, i))
               /\ Has(handlers'[u], AddedTo(s, i)) => i \notin ToSet(new)
               /\ Has(handlers'[u], AddedTo(s, i)) \/ i \in ToSet(new)
                    <=> Has(handlers[u], AddedTo(s, i)) \/ i \in ToSet(old)
    <3>1. /\ Single(handlers[u], AddedTo(s, i))
          /\ Has(handlers[u], AddedTo(s, i)) => i \notin ToSet(old)
      BY <2>5
    <3>2. /\ Single(handlers'[u], AddedTo(s, i))
          /\ h \in AddedTo(s, i) => ~Has(handlers'[u], AddedTo(s, i))
          /\ Has(handlers[u], AddedTo(s, i))
               <=> Has(handlers'[u], AddedTo(s, i)) \/ h \in AddedTo(s, i)
      BY <1>4, <3>1
    <3>3. h \in AddedTo(s, i) <=> i \in ToSet(h.ids)
      BY <1>13
    <3> QED
      BY <2>6, <3>1, <3>2, <3>3
  <2>10. ASSUME NEW i \in Nat
         PROVE  /\ Has(handlers'[u], AddedTo(s, i)) \/ i \in ToSet(new)
                     => Known(u, i)' \/ i \in refused'
                /\ Known(u, i)' => Has(handlers'[u], AddedTo(s, i)) \/ i \in ToSet(new)
    <3>1. /\ Has(handlers[u], AddedTo(s, i)) \/ i \in ToSet(old)
               => Known(u, i) \/ i \in refused
          /\ Known(u, i) => Has(handlers[u], AddedTo(s, i)) \/ i \in ToSet(old)
      BY <2>5
    <3> QED
      BY <1>1, <1>17, <2>9, <3>1
  <2> QED
    BY <2>3, <2>8, <2>9, <2>10 DEF ToldOnce
<1>19. ListsExact'
  <2>1. SUFFICES ASSUME NEW v \in Users, NEW t \in DOMAIN screens[v], v # u \/ t # s
                 PROVE  ToldOnce(v, t)'
    BY <1>10, <1>18 DEF ListsExact
  <2>2. ToldOnce(v, t) /\ screens'[v][t].list = screens[v][t].list
    BY <1>10, <2>1 DEF CommentsInv, ListsExact
  <2>3. \A i \in Nat : /\ Has(handlers'[v], AddedTo(t, i)) <=> Has(handlers[v], AddedTo(t, i))
                       /\ Single(handlers[v], AddedTo(t, i)) => Single(handlers'[v], AddedTo(t, i))
    BY <1>4, <1>13, <2>1
  <2> QED
    BY <1>1, <1>17, <2>2, <2>3, ToldKept
<1>20. AnnouncedInTime'
  <2>1. \A i \in comments : i \in DOMAIN made /\ made[i].author \in Users
    BY <1>2, FieldsTyped DEF CommentsInv, WrittenOnce, Made
  <2>2. \A a \in Users : \A i : Announcing(a, i) => Announcing(a, i)'
    BY <1>1, <1>12 DEF Announcing
  <2>3. ASSUME NEW i \in comments, made[i].author # Owner, faults = 0
        PROVE  i \in announced \/ \E a \in Users : a = made[i].author /\ Announcing(a, i)'
    BY <2>1, <2>2, <2>3 DEF CommentsInv, AnnouncedInTime
  <2> QED
    BY <1>1, <2>3 DEF CommentsInv, AnnouncedInTime, Announcing
<1>21. FieldsKept
  BY <1>10, <1>11 DEF FieldsKept
<1>22. TextsFresh'
  <2>1. \A i \in DOMAIN made' : made'[i].text <= texts
    BY <1>1 DEF CommentsInv, TextsFresh
  <2> QED
    BY <1>1, <1>2, <1>21, <2>1, FreshKept DEF CommentsInv
<1>23. FieldsPending'
  <2>1. \A v \in Users : \A t, i : Waiting(v, t, i) => Waiting(v, t, i)'
    BY <1>1, <1>12 DEF Waiting
  <2> QED
    BY <1>1, <1>21, <2>1, PendingKept DEF CommentsInv
<1>24. CalmKept'
  <2>1. \A v \in Users : \A t : Busy(v, t)' => Busy(v, t)
    BY <1>1, <1>12 DEF Busy
  <2>2. \A t : Posted(t) => Posted(t)'
    BY <1>1 DEF Posted
  <2>3. \A t \in calm' : \A v \in Users : \A k \in DOMAIN screens[v] :
          screens[v][k].input = t =>
            Posted(t)' \/ (k \in DOMAIN screens'[v] /\ screens'[v][k].input = t)
    BY <1>10, <1>11
  <2> QED
    BY <1>1, <1>2, <1>21, <2>1, <2>2, <2>3, CalmStays DEF CommentsInv
<1> QED
  BY <1>14, <1>15, <1>16, <1>19, <1>20, <1>22, <1>23, <1>24 DEF CommentsInv

(* The author of a comment on somebody else's post queues a notification. *)
LEMMA AddNotificationIs ==
  ASSUME outbox \in Queues(Users, Posting), NEW u \in Users, NEW i \in Nat,
         AddNotification(u, i)
  PROVE  /\ outbox' \in Queues(Users, Posting)
         /\ ToSet(outbox[u]) \subseteq ToSet(outbox'[u])
         /\ \A x \in ToSet(outbox'[u]) :
              \/ x \in ToSet(outbox[u])
              \/ u # Owner /\ x.kind = "notification" /\ x.id = i /\ x.screen = 0
         /\ u # Owner => \E x \in ToSet(outbox'[u]) : x.kind = "notification" /\ x.id = i
         /\ \A k : Has(outbox'[u], WriteOf(k)) <=> Has(outbox[u], WriteOf(k))
         /\ \A k : Single(outbox[u], WriteOf(k)) => Single(outbox'[u], WriteOf(k))
         /\ \A v \in Users : v # u => outbox'[v] = outbox[v]
<1>1. CASE Owner = u
  <2>1. outbox' = outbox
    BY <1>1 DEF AddNotification
  <2> QED
    BY <1>1, <2>1
<1>2. CASE Owner # u
  <2> DEFINE y == [kind |-> "notification", id |-> i, screen |-> 0]
  <2>1. y \in Posting /\ y.kind = "notification" /\ y.id = i /\ y.screen = 0
    BY DEF Posting
  <2>2. Pushed(outbox, outbox', u, y)
    BY <1>2 DEF AddNotification, Pushed, ChangedAt, Queues
  <2> HIDE DEF y
  <2>3. /\ outbox' \in Queues(Users, Posting)
        /\ ToSet(outbox'[u]) = ToSet(outbox[u]) \cup {y}
        /\ \A X : Has(outbox'[u], X) <=> Has(outbox[u], X) \/ y \in X
        /\ \A X : Single(outbox[u], X) /\ (y \in X => ~Has(outbox[u], X))
                    => Single(outbox'[u], X)
        /\ \A v \in Users : v # u => outbox'[v] = outbox[v]
    BY <2>1, <2>2, OneMore
  <2>4. \A k : y \notin WriteOf(k)
    BY <2>1 DEF WriteOf
  <2>5. \A x \in ToSet(outbox'[u]) :
          \/ x \in ToSet(outbox[u])
          \/ u # Owner /\ x.kind = "notification" /\ x.id = i /\ x.screen = 0
    BY <1>2, <2>1, <2>3
  <2>6. \E x \in ToSet(outbox'[u]) : x.kind = "notification" /\ x.id = i
    BY <2>1, <2>3
  <2> QED
    BY <2>3, <2>4, <2>5, <2>6
<1> QED
  BY <1>1, <1>2

(* A completion clears its field, whose text was posted if it was calm. *)
LEMMA HandlePostedStep ==
  ASSUME CommentsInv, NEW u \in Users, HandlePosted(u)
  PROVE  CommentsInv'
<1>0. PICK h : h = Head(handlers[u])
  OBVIOUS
<1>1. /\ UNCHANGED <<made, comments, announced, cache, texts, faults, refused, calm>>
      /\ h.kind = "posted"
      /\ screens' = [screens EXCEPT ![u][h.screen].input = Nothing]
      /\ AddNotification(u, Head(h.ids))
  BY <1>0, Zenon DEF HandlePosted
<1>2. /\ TypeInv /\ WellFormed /\ screens \in Queues(Users, Page)
      /\ outbox \in Queues(Users, Posting)
      /\ handlers \in Queues(Users, Reply) /\ texts \in Nat
  BY DEF CommentsInv, TypeInv
<1>3. Popped(handlers, handlers', u)
  BY <1>2 DEF HandlePosted, Popped, ChangedAt, Queues
<1>4. /\ handlers' \in Queues(Users, Reply)
      /\ h \in Reply
      /\ ToSet(handlers[u]) = {h} \cup ToSet(handlers'[u])
      /\ \A X : Has(handlers[u], X) <=> Has(handlers'[u], X) \/ h \in X
      /\ \A X : Single(handlers[u], X) =>
                  Single(handlers'[u], X) /\ (h \in X => ~Has(handlers'[u], X))
      /\ \A v \in Users : v # u => handlers'[v] = handlers[v]
  BY <1>0, <1>2, <1>3, OneLess, SMTT(30)
<1>5. PICK s : s = h.screen
  OBVIOUS
<1>6. Completed(u, h)
  BY <1>2, <1>4 DEF WellFormed
<1>7. s \in DOMAIN screens[u]
  BY <1>5, <1>6 DEF Completed
<1>8. PICK i \in DOMAIN made : h.ids = <<i>> /\ made[i].author = u
  BY <1>1, <1>6 DEF Completed
<1>9. i \in Nat /\ AddNotification(u, i)
  <2>1. made \in Seq(Made)
    BY <1>2 DEF TypeInv
  <2>2. i \in Nat
    BY <1>8, <2>1
  <2>3. Head(h.ids) = i
    BY <1>8
  <2> QED
    BY <1>1, <2>2, <2>3
<1>10. /\ outbox' \in Queues(Users, Posting)
       /\ ToSet(outbox[u]) \subseteq ToSet(outbox'[u])
       /\ \A x \in ToSet(outbox'[u]) :
            \/ x \in ToSet(outbox[u])
            \/ u # Owner /\ x.kind = "notification" /\ x.id = i /\ x.screen = 0
       /\ u # Owner => \E x \in ToSet(outbox'[u]) : x.kind = "notification" /\ x.id = i
       /\ \A k : Has(outbox'[u], WriteOf(k)) <=> Has(outbox[u], WriteOf(k))
       /\ \A k : Single(outbox[u], WriteOf(k)) => Single(outbox'[u], WriteOf(k))
       /\ \A v \in Users : v # u => outbox'[v] = outbox[v]
  BY <1>2, <1>9, AddNotificationIs
<1> DEFINE p == [screens[u][s] EXCEPT !.input = Nothing]
<1>11. screens[u][s] \in Page
  BY <1>2, <1>7, FieldsTyped
<1>12. p \in Page /\ p.list = screens[u][s].list /\ p.input = Nothing
  BY <1>11 DEF Page, Nothing
<1>13. Turned(screens, screens', u, s, p)
  <2>1. screens' = [screens EXCEPT ![u][s].input = Nothing]
    BY <1>1, <1>5
  <2> QED
    BY <1>2, <1>7, <2>1 DEF Turned, PutAt, Queues
<1> HIDE DEF p
<1>14. /\ screens' \in Queues(Users, Page)
       /\ \A v \in Users : DOMAIN screens'[v] = DOMAIN screens[v]
                           /\ Len(screens'[v]) = Len(screens[v])
       /\ screens'[u][s] = p
       /\ \A v \in Users : \A t \in DOMAIN screens[v] :
            v # u \/ t # s => screens'[v][t] = screens[v][t]
  BY <1>2, <1>7, <1>12, <1>13, TurnedIs
<1>15. \A v \in Users : \A t \in DOMAIN screens[v] :
         screens'[v][t].list = screens[v][t].list
  BY <1>12, <1>14
<1>16. /\ \A v \in Users : ToSet(handlers'[v]) \subseteq ToSet(handlers[v])
       /\ \A v \in Users : \A x \in ToSet(handlers[v]) :
            v # u \/ x # h => x \in ToSet(handlers'[v])
  BY <1>4
<1>17. \A t, k : h \notin AddedTo(t, k)
  BY <1>1 DEF AddedTo
<1>18. TypeInv'
  BY <1>1, <1>2, <1>4, <1>10, <1>14 DEF TypeInv
<1>19. WellFormed'
  <2>1. \A v \in Users : \A x \in ToSet(outbox[v]) : Issued(v, x)'
    BY <1>1, <1>2, <1>14 DEF WellFormed, Issued
  <2>2. \A v \in Users : \A x \in ToSet(handlers[v]) : Completed(v, x)'
    BY <1>1, <1>2, <1>14 DEF WellFormed, Completed
  <2>3. ASSUME NEW x, u # Owner, x.kind = "notification", x.id = i, x.screen = 0
        PROVE  Issued(u, x)'
    <3>1. screens'[u] \in Seq(Page)
      BY <1>14 DEF Queues
    <3>2. 0 \in 0 .. Len(screens'[u])
      BY <3>1
    <3> QED
      BY <1>1, <1>8, <2>3, <3>2 DEF Issued
  <2>4. \A v \in Users : \A x \in ToSet(outbox'[v]) : Issued(v, x)'
    BY <1>10, <2>1, <2>3
  <2> QED
    BY <1>16, <2>2, <2>4 DEF WellFormed
<1>20. \A v \in Users : \A k :
         /\ Has(outbox'[v], WriteOf(k)) <=> Has(outbox[v], WriteOf(k))
         /\ Single(outbox[v], WriteOf(k)) => Single(outbox'[v], WriteOf(k))
  BY <1>10
<1>21. WrittenOnce'
  BY <1>1, <1>20 DEF CommentsInv, WrittenOnce
<1>22. ListsExact'
  <2>1. SUFFICES ASSUME NEW v \in Users, NEW t \in DOMAIN screens[v]
                 PROVE  ToldOnce(v, t)'
    BY <1>14 DEF ListsExact
  <2>2. ToldOnce(v, t) /\ screens'[v][t].list = screens[v][t].list
    BY <1>15 DEF CommentsInv, ListsExact
  <2>3. \A k \in Nat : /\ Has(handlers'[v], AddedTo(t, k)) <=> Has(handlers[v], AddedTo(t, k))
                       /\ Single(handlers[v], AddedTo(t, k)) => Single(handlers'[v], AddedTo(t, k))
    BY <1>4, <1>17
  <2>4. \A k \in Nat : Known(v, k)' <=> Known(v, k)
    BY <1>1, <1>20 DEF Known
  <2> QED
    BY <1>1, <2>2, <2>3, <2>4, ToldKept
<1>23. AnnouncedInTime'
  <2>1. \A k \in comments : k \in DOMAIN made /\ made[k].author \in Users
    BY <1>2, FieldsTyped DEF CommentsInv, WrittenOnce, Made
  <2>2. ASSUME NEW a \in Users, NEW k, Announcing(a, k), a # Owner
        PROVE  Announcing(a, k)'
    <3>1. CASE a # u
      BY <1>4, <1>10, <2>2, <3>1 DEF Announcing
    <3>2. CASE a = u /\ k = i
      BY <1>10, <2>2, <3>2 DEF Announcing
    <3>3. CASE a = u /\ k # i
      <4>1. h.ids # <<k>>
        BY <1>8, <3>3
      <4> QED
        BY <1>10, <1>16, <2>2, <3>3, <4>1 DEF Announcing
    <3> QED
      BY <3>1, <3>2, <3>3
  <2>3. ASSUME NEW k \in comments, made[k].author # Owner, faults = 0
        PROVE  k \in announced \/ \E a \in Users : a = made[k].author /\ Announcing(a, k)'
    BY <2>1, <2>2, <2>3 DEF CommentsInv, AnnouncedInTime
  <2> QED
    BY <1>1, <2>3 DEF CommentsInv, AnnouncedInTime, Announcing
<1>24. FieldsKept
  BY <1>12, <1>14 DEF FieldsKept
<1>25. TextsFresh'
  <2>1. \A k \in DOMAIN made' : made'[k].text <= texts
    BY <1>1 DEF CommentsInv, TextsFresh
  <2> QED
    BY <1>1, <1>2, <1>24, <2>1, FreshKept DEF CommentsInv
<1>26. FieldsPending'
  <2>1. ASSUME NEW v \in Users, NEW t, NEW k, v # u \/ t # s, Waiting(v, t, k)
        PROVE  Waiting(v, t, k)'
    <3>1. CASE v # u
      BY <1>4, <1>10, <2>1, <3>1 DEF Waiting
    <3>2. CASE v = u
      BY <1>5, <1>10, <1>16, <2>1, <3>2 DEF Waiting
    <3> QED
      BY <3>1, <3>2
  <2>2. \A v \in Users : \A t \in DOMAIN screens'[v] : \A k \in DOMAIN made :
          screens'[v][t].input # Nothing /\ Waiting(v, t, k) => Waiting(v, t, k)'
    BY <1>12, <1>14, <2>1
  <2> QED
    BY <1>1, <1>24, <2>2, PendingKept DEF CommentsInv
<1>27. CalmKept'
  <2>1. ASSUME NEW v \in Users, NEW t \in DOMAIN screens[v], Busy(v, t)'
        PROVE  Busy(v, t)
    <3>1. t # 0
      <4>1. screens[v] \in Seq(Page)
        BY <1>2 DEF Queues
      <4> QED
        BY <2>1, <4>1
    <3> QED
      BY <1>10, <1>16, <2>1, <3>1 DEF Busy
  <2>2. \A t : Posted(t) => Posted(t)'
    BY <1>1 DEF Posted
  <2>3. ASSUME NEW t \in calm', NEW v \in Users, NEW r \in DOMAIN screens[v],
               screens[v][r].input = t
        PROVE  Posted(t)' \/ (r \in DOMAIN screens'[v] /\ screens'[v][r].input = t)
    <3>1. CASE v # u \/ r # s
      BY <1>14, <2>3, <3>1
    <3>2. CASE v = u /\ r = s
      <4>1. Busy(u, s)
        BY <1>1, <1>4, <1>5 DEF Busy
      <4>2. Posted(t)
        BY <1>1, <2>3, <3>2, <4>1 DEF CommentsInv, CalmKept
      <4> QED
        BY <2>2, <4>2
    <3> QED
      BY <3>1, <3>2
  <2>4. \A t \in calm' : \A v \in Users : \A r \in DOMAIN screens[v] :
          screens[v][r].input = t =>
            Posted(t)' \/ (r \in DOMAIN screens'[v] /\ screens'[v][r].input = t)
    BY <2>3
  <2>5. \A t \in calm' : \A v \in Users : \A r \in DOMAIN screens'[v] :
           screens'[v][r].input = t /\ Busy(v, r)' => Busy(v, r) \/ Posted(t)'
    BY <1>14, <2>1
  <2> QED
    BY <1>1, <1>2, <1>24, <2>2, <2>4, <2>5, CalmStays DEF CommentsInv
<1> QED
  BY <1>18, <1>19, <1>21, <1>22, <1>23, <1>25, <1>26, <1>27 DEF CommentsInv

(* The process dies: what it had not written yet is still written, and      *)
(* nothing waits for it any more.                                           *)
LEMMA KillStep ==
  ASSUME CommentsInv, NEW u \in Users, Kill(u)
  PROVE  CommentsInv'
<1>1. /\ UNCHANGED <<made, comments, announced, cache, texts, refused>>
      /\ calm' = calm \ {screens[u][s].input : s \in DOMAIN screens[u]}
      /\ Fault
  BY Zenon DEF Kill
<1>2. /\ TypeInv /\ WellFormed /\ screens \in Queues(Users, Page)
      /\ outbox \in Queues(Users, Posting)
      /\ handlers \in Queues(Users, Reply) /\ texts \in Nat /\ faults \in Nat
  BY DEF CommentsInv, TypeInv
<1>3. faults' \in Nat /\ faults' # 0
  BY <1>1, <1>2 DEF Fault
<1>4. /\ screens' \in Queues(Users, Page) /\ screens'[u] = <<>>
      /\ \A v \in Users : v # u => screens'[v] = screens[v]
  <2>1. screens' = [screens EXCEPT ![u] = <<>>]
    BY Zenon DEF Kill
  <2> QED
    BY <1>2, <2>1 DEF Queues
<1>5. /\ handlers' \in Queues(Users, Reply) /\ handlers'[u] = <<>>
      /\ \A v \in Users : v # u => handlers'[v] = handlers[v]
  <2>1. handlers' = [handlers EXCEPT ![u] = <<>>]
    BY Zenon DEF Kill
  <2> QED
    BY <1>2, <2>1 DEF Queues
<1> DEFINE q == [k \in DOMAIN outbox[u] |-> [outbox[u][k] EXCEPT !.screen = 0]]
<1>6. /\ DOMAIN q = DOMAIN outbox[u]
      /\ \A k \in DOMAIN outbox[u] :
           /\ outbox[u][k] \in Posting /\ q[k] \in Posting
           /\ q[k].kind = outbox[u][k].kind /\ q[k].id = outbox[u][k].id /\ q[k].screen = 0
  <2>1. outbox[u] \in Seq(Posting)
    BY <1>2 DEF Queues
  <2>2. \A k \in DOMAIN outbox[u] : outbox[u][k] \in Posting
    BY <2>1
  <2>3. ASSUME NEW k \in DOMAIN outbox[u], NEW y \in Posting, y = outbox[u][k]
        PROVE  /\ [y EXCEPT !.screen = 0] \in Posting
               /\ [y EXCEPT !.screen = 0].kind = y.kind /\ [y EXCEPT !.screen = 0].id = y.id
               /\ [y EXCEPT !.screen = 0].screen = 0
    BY <2>3 DEF Posting
  <2> QED
    BY <2>2, <2>3
<1>7. Rewritten(outbox, outbox', u, q, Posting)
  <2>1. outbox' = [outbox EXCEPT ![u] = q]
    BY Zenon DEF Kill
  <2>2. q = [k \in DOMAIN outbox[u] |-> q[k]]
    OBVIOUS
  <2> HIDE DEF q
  <2>3. ChangedAt(outbox, outbox', u, q)
    BY <1>2, <2>1 DEF ChangedAt, Queues
  <2> QED
    BY <1>6, <2>2, <2>3 DEF Rewritten
<1> HIDE DEF q
<1>8. /\ outbox' \in Queues(Users, Posting) /\ outbox'[u] = q
      /\ \A v \in Users : v # u => outbox'[v] = outbox[v]
  BY <1>2, <1>7, QueueReplaced
<1>9. \A x \in ToSet(outbox'[u]) :
        \E y \in ToSet(outbox[u]) : x.kind = y.kind /\ x.id = y.id /\ x.screen = 0
  BY <1>6, <1>8 DEF ToSet
<1>10. \A v \in Users : \A i :
         /\ Has(outbox'[v], WriteOf(i)) <=> Has(outbox[v], WriteOf(i))
         /\ Single(outbox[v], WriteOf(i)) => Single(outbox'[v], WriteOf(i))
  <2>1. \A i : \A k \in DOMAIN outbox[u] : q[k] \in WriteOf(i) <=> outbox[u][k] \in WriteOf(i)
    BY <1>6 DEF WriteOf
  <2>2. \A i : /\ Has(q, WriteOf(i)) <=> Has(outbox[u], WriteOf(i))
               /\ Single(outbox[u], WriteOf(i)) => Single(q, WriteOf(i))
    BY <1>6, <2>1 DEF Has, Single
  <2> QED
    BY <1>8, <2>2
<1>11. DOMAIN screens'[u] = {} /\ ToSet(handlers'[u]) = {}
  BY <1>4, <1>5, ToSetEmpty
<1>12. TypeInv'
  BY <1>1, <1>2, <1>3, <1>4, <1>5, <1>8 DEF TypeInv
<1>13. WellFormed'
  <2>1. ASSUME NEW x \in ToSet(outbox'[u]) PROVE Issued(u, x)'
    <3>1. PICK y \in ToSet(outbox[u]) : x.kind = y.kind /\ x.id = y.id /\ x.screen = 0
      BY <1>9, <2>1
    <3>2. Issued(u, y)
      BY <1>2, <3>1 DEF WellFormed
    <3>3. 0 \in 0 .. Len(screens'[u])
      BY <1>4
    <3> QED
      BY <1>1, <1>3, <3>1, <3>2, <3>3 DEF Issued
  <2>2. ASSUME NEW v \in Users, v # u
        PROVE  /\ \A x \in ToSet(outbox'[v]) : Issued(v, x)'
               /\ \A h \in ToSet(handlers'[v]) : Completed(v, h)'
    <3>1. outbox'[v] = outbox[v] /\ handlers'[v] = handlers[v] /\ screens'[v] = screens[v]
      BY <1>4, <1>5, <1>8, <2>2
    <3>2. \A x \in ToSet(outbox[v]) : Issued(v, x)'
      BY <1>1, <1>2, <1>3, <3>1 DEF WellFormed, Issued
    <3>3. \A h \in ToSet(handlers[v]) : Completed(v, h)'
      BY <1>1, <1>2, <3>1 DEF WellFormed, Completed
    <3> QED
      BY <3>1, <3>2, <3>3
  <2> QED
    BY <1>11, <2>1, <2>2 DEF WellFormed
<1>14. WrittenOnce'
  BY <1>1, <1>10 DEF CommentsInv, WrittenOnce
<1>15. ListsExact'
  <2>1. SUFFICES ASSUME NEW v \in Users, NEW t \in DOMAIN screens[v], v # u
                 PROVE  ToldOnce(v, t)'
    BY <1>4, <1>11 DEF ListsExact
  <2>2. ToldOnce(v, t) /\ screens'[v][t].list = screens[v][t].list
    BY <1>4, <2>1 DEF CommentsInv, ListsExact
  <2>3. handlers'[v] = handlers[v]
    BY <1>5, <2>1
  <2>4. \A i \in Nat : Known(v, i)' <=> Known(v, i)
    BY <1>1, <1>10 DEF Known
  <2> QED
    BY <1>1, <2>2, <2>3, <2>4, ToldKept
<1>16. AnnouncedInTime'
  BY <1>1, <1>3 DEF CommentsInv, AnnouncedInTime
<1>17. FieldsKept
  BY <1>4, <1>11 DEF FieldsKept
<1>18. calm' \subseteq calm
  BY <1>1
<1>19. TextsFresh'
  <2>1. \A i \in DOMAIN made' : made'[i].text <= texts
    BY <1>1 DEF CommentsInv, TextsFresh
  <2> QED
    BY <1>1, <1>2, <1>17, <1>18, <2>1, FreshKept DEF CommentsInv
<1>20. FieldsPending'
  <2>1. ASSUME NEW v \in Users, NEW t \in DOMAIN screens'[v], NEW i, Waiting(v, t, i)
        PROVE  Waiting(v, t, i)'
    <3>1. v # u
      BY <1>11, <2>1
    <3> QED
      BY <1>5, <1>8, <2>1, <3>1 DEF Waiting
  <2> QED
    BY <1>1, <1>17, <2>1, PendingKept DEF CommentsInv
<1>21. CalmKept'
  <2>1. ASSUME NEW v \in Users, NEW t \in DOMAIN screens'[v], Busy(v, t)'
        PROVE  Busy(v, t)
    <3>1. v # u
      BY <1>11, <2>1
    <3> QED
      BY <1>5, <1>8, <2>1, <3>1 DEF Busy
  <2>2. \A t : Posted(t) => Posted(t)'
    BY <1>1 DEF Posted
  <2>3. ASSUME NEW t \in calm', NEW v \in Users, NEW r \in DOMAIN screens[v],
               screens[v][r].input = t
        PROVE  r \in DOMAIN screens'[v] /\ screens'[v][r].input = t
    <3>1. v # u
      BY <1>1, <2>3
    <3> QED
      BY <1>4, <2>3, <3>1
  <2>4. \A t \in calm' : \A v \in Users : \A r \in DOMAIN screens[v] :
          screens[v][r].input = t =>
            Posted(t)' \/ (r \in DOMAIN screens'[v] /\ screens'[v][r].input = t)
    BY <2>3
  <2> QED
    BY <1>2, <1>17, <1>18, <2>1, <2>2, <2>4, CalmStays DEF CommentsInv
<1> QED
  BY <1>12, <1>13, <1>14, <1>15, <1>16, <1>19, <1>20, <1>21 DEF CommentsInv

----------------------------------------------------------------------------
(* The invariant is inductive. *)
LEMMA CommentsInvStep ==
  ASSUME CommentsInv, [Next]_vars
  PROVE  CommentsInv'
<1>1. CASE UNCHANGED vars
  <2>1. /\ \A u, i : Known(u, i)' <=> Known(u, i)
        /\ \A u, i : Announcing(u, i)' <=> Announcing(u, i)
        /\ \A u, s, i : Waiting(u, s, i)' <=> Waiting(u, s, i)
        /\ \A u, s : Busy(u, s)' <=> Busy(u, s)
        /\ \A t : Posted(t)' <=> Posted(t)
    BY <1>1 DEF vars, Known, Announcing, Waiting, Busy, Posted
  <2>2. TypeInv' /\ WrittenOnce' /\ TextsFresh'
    BY <1>1 DEF CommentsInv, vars, TypeInv, WrittenOnce, TextsFresh, FieldsDistinct, Nothing
  <2>3. WellFormed'
    BY <1>1 DEF CommentsInv, vars, WellFormed, Issued, Completed
  <2>4. ListsExact'
    BY <1>1, <2>1 DEF CommentsInv, vars, ListsExact, ToldOnce
  <2>5. AnnouncedInTime'
    BY <1>1 DEF CommentsInv, vars, AnnouncedInTime, Announcing
  <2>6. FieldsPending'
    BY <1>1, <2>1 DEF CommentsInv, vars, FieldsPending, Nothing
  <2>7. CalmKept'
    BY <1>1, <2>1 DEF CommentsInv, vars, CalmKept, Posted
  <2> QED
    BY <2>2, <2>3, <2>4, <2>5, <2>6, <2>7 DEF CommentsInv
<1>2. CASE Next
  <2>1. PICK u \in Users :
          \/ Open(u) \/ Commit(u) \/ Refuse(u) \/ Sync(u) \/ Handle(u) \/ Kill(u)
          \/ \E s \in DOMAIN screens[u] : Close(u, s) \/ Type(u, s) \/ OnTapPost(u, s)
    BY <1>2 DEF Next
  <2>2. CASE Open(u)
    BY <2>2, OpenStep
  <2>3. CASE Commit(u)
    BY <2>3, CommitStep
  <2>4. CASE Refuse(u)
    BY <2>4, RefuseStep
  <2>5. CASE Sync(u)
    BY <2>5, SyncStep
  <2>6. CASE Handle(u)
    BY <2>6, HandleSnapshotStep, HandlePostedStep DEF Handle
  <2>7. CASE Kill(u)
    BY <2>7, KillStep
  <2>8. ASSUME NEW s \in DOMAIN screens[u], Close(u, s) \/ Type(u, s) \/ OnTapPost(u, s)
        PROVE  CommentsInv'
    BY <2>8, CloseStep, TypeStep, TapPostStep
  <2> QED
    BY <2>1, <2>2, <2>3, <2>4, <2>5, <2>6, <2>7, <2>8
<1> QED
  BY <1>1, <1>2

(* It holds in every state of every behaviour. *)
LEMMA CommentsInvAlways == Spec => []CommentsInv
<1>1. Init => CommentsInv
  BY InitComments
<1>2. CommentsInv /\ [Next]_vars => CommentsInv'
  BY CommentsInvStep
<1> QED
  BY <1>1, <1>2, PTL DEF Spec

(* No comment is listed twice, and a screen that has come to rest lists     *)
(* every comment of the backend and nothing else but refused ones.          *)
THEOREM ListsCorrect == Spec => []ListExact
<1>1. CommentsInv => ListExact
  <2>1. SUFFICES ASSUME CommentsInv, NEW u \in Users, NEW s \in DOMAIN screens[u]
                 PROVE  LET list == screens[u][s].list
                        IN  /\ IsInjective(list)
                            /\ Quiet(u) => /\ comments \subseteq Range(list)
                                           /\ Range(list) \subseteq comments \cup refused
    BY DEF ListExact
  <2>2. PICK list : list = screens[u][s].list
    OBVIOUS
  <2>3. TypeInv /\ WrittenOnce /\ ToldOnce(u, s)
    BY <2>1 DEF CommentsInv, ListsExact
  <2>4. list \in Seq(Nat) /\ ToSet(list) \subseteq Nat /\ cache[u] \subseteq Nat
    <3>1. screens[u][s] \in Page
      BY <2>3, FieldsTyped
    <3>2. list \in Seq(Nat)
      BY <2>2, <3>1 DEF Page
    <3> QED
      BY <2>3, <3>2, ToSetType DEF TypeInv
  <2>5. /\ IsInjective(list)
        /\ \A i \in Nat :
             /\ i \in ToSet(list) => Known(u, i) \/ i \in refused
             /\ Known(u, i) => Has(handlers[u], AddedTo(s, i)) \/ i \in ToSet(list)
    BY <2>2, <2>3 DEF ToldOnce
  <2>6. Range(list) = ToSet(list)
    BY DEF Range, ToSet
  <2>7. ASSUME Quiet(u)
        PROVE  comments \subseteq ToSet(list) /\ ToSet(list) \subseteq comments \cup refused
    <3>1. /\ \A i : ~Has(handlers[u], AddedTo(s, i))
          /\ \A i : ~Has(outbox[u], WriteOf(i))
      BY <2>7 DEF Quiet, Has
    <3>2. \A i : Known(u, i) <=> i \in comments
      BY <2>7, <3>1 DEF Quiet, Known
    <3>3. comments \subseteq Nat
      BY <2>4, <2>7 DEF Quiet
    <3> QED
      BY <2>4, <2>5, <3>1, <3>2, <3>3
  <2> QED
    BY <2>2, <2>5, <2>6, <2>7
<1> QED
  BY <1>1, CommentsInvAlways, PTL

(* Without faults the owner of the post has been told of everybody else's   *)
(* comments when all is done, and of none of their own.                     *)
THEOREM CommentersCorrect == Spec => []CommentersAnnounced
<1>1. CommentsInv => CommentersAnnounced
  <2>1. SUFFICES ASSUME CommentsInv, NEW i \in DOMAIN made
                 PROVE  IF made[i].author = Owner THEN i \notin announced
                        ELSE Quiet(made[i].author) /\ i \in comments /\ faults = 0
                               => i \in announced
    BY DEF CommentersAnnounced
  <2>2. CASE made[i].author = Owner
    BY <2>1, <2>2 DEF CommentsInv, AnnouncedInTime
  <2>3. ASSUME made[i].author # Owner, Quiet(made[i].author), i \in comments, faults = 0
        PROVE  i \in announced
    <3>1. i \in announced \/ Announcing(made[i].author, i)
      BY <2>1, <2>3 DEF CommentsInv, AnnouncedInTime
    <3>2. ToSet(outbox[made[i].author]) = {} /\ ToSet(handlers[made[i].author]) = {}
      BY <2>3, ToSetEmpty DEF Quiet
    <3> QED
      BY <3>1, <3>2 DEF Announcing
  <2> QED
    BY <2>2, <2>3
<1> QED
  BY <1>1, CommentsInvAlways, PTL

(* A text typed when no comment of the screen was on its way is in its      *)
(* field or in a comment: no completion clears it before it is posted.      *)
THEOREM TypedCorrect == Spec => []TypedKept
<1>1. CommentsInv => TypedKept
  BY DEF CommentsInv, CalmKept, TypedKept, Posted
<1> QED
  BY <1>1, CommentsInvAlways, PTL

(* A text is posted a second time only while the completion of the first    *)
(* time is out.                                                             *)
THEOREM RepeatsCorrect == Spec => RepeatedOnlyWhilePending
<1>1. CommentsInv /\ [Next]_vars =>
        [\A i \in DOMAIN made :
           Len(made') > Len(made) /\ Last(made') = made[i] /\ made[i].text # Nothing =>
             LET u == made[i].author
             IN  \/ \E k \in DOMAIN outbox[u] :
                      outbox[u][k].kind = "comment" /\ outbox[u][k].id = i
                 \/ \E k \in DOMAIN handlers[u] :
                      handlers[u][k].kind = "posted" /\ handlers[u][k].ids = <<i>>]_vars
  <2>0. SUFFICES ASSUME CommentsInv, [Next]_vars, NEW i \in DOMAIN made,
                        Len(made') > Len(made), Last(made') = made[i],
                        made[i].text # Nothing
                 PROVE  LET u == made[i].author
                        IN  \/ \E k \in DOMAIN outbox[u] :
                                 outbox[u][k].kind = "comment" /\ outbox[u][k].id = i
                            \/ \E k \in DOMAIN handlers[u] :
                                 handlers[u][k].kind = "posted" /\ handlers[u][k].ids = <<i>>
    OBVIOUS
  <2>1. made \in Seq(Made) /\ made' # made
    BY <2>0 DEF CommentsInv, TypeInv
  <2>2. PICK u \in Users : \E s \in DOMAIN screens[u] : OnTapPost(u, s)
    <3>1. Next
      BY <2>0, <2>1 DEF vars
    <3>2. PICK u \in Users :
            \/ Open(u) \/ Commit(u) \/ Refuse(u) \/ Sync(u) \/ Handle(u) \/ Kill(u)
            \/ \E s \in DOMAIN screens[u] : Close(u, s) \/ Type(u, s) \/ OnTapPost(u, s)
      BY <3>1 DEF Next
    <3>3. ~Open(u) /\ ~Commit(u) /\ ~Refuse(u) /\ ~Sync(u) /\ ~Kill(u)
      BY <2>1, Zenon DEF Open, Commit, Refuse, Sync, Kill
    <3>4. ~Handle(u)
      BY <2>1, Zenon DEF Handle, HandleSnapshot, HandlePosted
    <3>5. \A s : ~Close(u, s) /\ ~Type(u, s)
      BY <2>1, Zenon DEF Close, Type
    <3> QED
      BY <3>2, <3>3, <3>4, <3>5
  <2>3. PICK s \in DOMAIN screens[u] : OnTapPost(u, s)
    BY <2>2
  <2> DEFINE c == [author |-> u, text |-> screens[u][s].input]
  <2>4. made' = Append(made, c)
    BY <2>3, Zenon DEF OnTapPost
  <2>5. c.author = u /\ c.text = screens[u][s].input /\ c \in Made
    <3>1. screens[u][s].input \in Nat
      BY <2>0, FieldsTyped DEF CommentsInv
    <3> QED
      BY <3>1 DEF Made
  <2> HIDE DEF c
  <2>6. made[i] = c
    <3>1. Last(Append(made, c)) = c
      BY <2>1, <2>5 DEF Last
    <3> QED
      BY <2>0, <2>4, <3>1
  <2>7. made[i].author = u /\ Waiting(u, s, i)
    BY <2>0, <2>5, <2>6 DEF CommentsInv, FieldsPending
  <2> QED
    BY <2>7 DEF Waiting, ToSet
<1> QED
  BY <1>1, CommentsInvAlways, PTL DEF Spec, RepeatedOnlyWhilePending
=============================================================================
