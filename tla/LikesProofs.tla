---------------------------- MODULE LikesProofs ----------------------------
(***************************************************************************)
(* Proofs that the number of likes stays in range, that owners hear of the *)
(* likes of others and never of their own, and that a heart that is right  *)
(* stays right but for the steps the property names, for any users, posts, *)
(* cells and bounds; and that liking refines the abstract two-leg write.   *)
(***************************************************************************)
EXTENDS Likes, SequenceLemmas

----------------------------------------------------------------------------
(* The types of what the properties depend on. *)
TypeInv ==
  /\ taps \in Nat
  /\ faults \in Nat
  /\ likes \in [Posts -> Int]
  /\ outbox \in Queues(Users, Write)
  /\ handlers \in Queues(Users, Write)
  /\ rows \in [Users -> [Posts -> Row \cup {Absent}]]
  /\ cells \in [Users -> [AllCells -> Shown \cup {Absent}]]
  /\ arrived \in [Users -> SUBSET Posts]

(* The posts that the current load has received are in the rows. *)
ArrivedShown == \A u \in Users : \A p \in arrived[u] : rows[u][p].shown

(* Every copy of a number of likes, wherever it was put, is in range. *)
InRange(n) == 0 <= n /\ n <= taps

CopiesInRange ==
  /\ \A p \in Posts : InRange(likes[p])
  /\ \A u \in Users :
       /\ \A w \in ToSet(outbox[u]) : InRange(w.val)
       /\ \A w \in ToSet(handlers[u]) : InRange(w.val)
       /\ \A p \in Posts : rows[u][p].shown => InRange(rows[u][p].likes)
       /\ \A c \in AllCells : cells[u][c].shown => InRange(cells[u][c].likes)

(* So are the copies that profiles have fetched. *)
AlbumInRange ==
  /\ album \in [Users -> [Posts -> SUBSET Int]]
  /\ \A u \in Users, p \in Posts : \A n \in album[u][p] : InRange(n)

(* A leg whose completion will issue the next one, or has been lost. *)
LegsComplete ==
  \A u \in Users :
    /\ \A w \in ToSet(handlers[u]) : w.cell # "nobody"
    /\ faults = 0 => \A w \in ToSet(outbox[u]) : IsLeg(w) => w.cell # "nobody"

(* A like that has reached the post is on its way to the owner, as a       *)
(* completion, as the second leg or as the notification itself.            *)
Underway(u, p) ==
  \/ \E w \in ToSet(handlers[u]) : IsLeg(w) /\ w.post = p /\ w.op = "set"
  \/ \E w \in ToSet(outbox[u]) :
       w.post = p /\ (w.doc = "notification" \/ (w.doc = "userLike" /\ w.op = "set"))

LikesUnderway ==
  \A u \in Users, p \in Posts :
    <<u, p>> \in postLikes /\ Owner[p] # u /\ faults = 0
      => <<u, p>> \in notified \/ Underway(u, p)

(* No notification of an owner's own like was ever issued. *)
OwnersSilent ==
  \A u \in Users, p \in Posts :
    Owner[p] = u => /\ <<u, p>> \notin notified
                    /\ \A w \in ToSet(outbox[u]) : w.doc = "notification" => w.post # p

LikesInv == /\ TypeInv
            /\ ArrivedShown
            /\ CopiesInRange
            /\ LegsComplete
            /\ LikesUnderway
            /\ OwnersSilent
----------------------------------------------------------------------------
(* The numbers that the local cache and the backend know are in range. *)
LEMMA LocalInRange ==
  ASSUME TypeInv, CopiesInRange, NEW u \in Users, NEW p \in Posts
  PROVE  LocalLikes(u, p) \in Int /\ InRange(LocalLikes(u, p))
<1> DEFINE is == Pending(u, "counter", p)
<1>1. outbox[u] \in Seq(Write)
  BY DEF TypeInv, Queues
<1>2. is \in SUBSET DOMAIN outbox[u]
  BY DEF Pending
<1>3. CASE is = {}
  <2>1. LocalLikes(u, p) = likes[p]
    BY <1>3 DEF LocalLikes
  <2> QED
    BY <2>1 DEF TypeInv, CopiesInRange
<1>4. CASE is # {}
  <2>1. LocalLikes(u, p) = outbox[u][Max(is)].val
    BY <1>4 DEF LocalLikes
  <2> HIDE DEF is
  <2>2. Max(is) \in DOMAIN outbox[u]
    BY <1>1, <1>2, <1>4, LastPosition
  <2>3. outbox[u][Max(is)] \in ToSet(outbox[u]) /\ outbox[u][Max(is)] \in Write
    BY <1>1, <2>2, ToSetType
  <2> QED
    BY <2>1, <2>3 DEF CopiesInRange, Write
<1> QED
  BY <1>3, <1>4

----------------------------------------------------------------------------
(* The invariant holds on a fresh start: empty queues, no cells, no numbers above the taps. *)
LEMMA InitLikes == Init => LikesInv
<1> SUFFICES ASSUME Init PROVE LikesInv
  OBVIOUS
<1>1. TypeInv
  BY DEF Init, TypeInv, Queues
<1>2. \A u \in Users : ToSet(outbox[u]) = {} /\ ToSet(handlers[u]) = {}
  BY ToSetEmpty DEF Init
<1>3. ArrivedShown
  BY DEF Init, ArrivedShown
<1>4. CopiesInRange
  BY <1>2 DEF Init, CopiesInRange, InRange, Absent
<1>5. LegsComplete /\ LikesUnderway /\ OwnersSilent
  BY <1>2 DEF Init, LegsComplete, LikesUnderway, OwnersSilent
<1> QED
  BY <1>1, <1>3, <1>4, <1>5 DEF LikesInv

(* Steps that touch neither the queues nor the copies. *)
LEMMA ReadStep ==
  ASSUME LikesInv, NEW u \in Users,
         \/ Load(u)
         \/ \E v \in Users : FetchPosts(u, v)
         \/ \E p \in Posts : ArriveError(u, p) \/ CheckError(u, p)
  PROVE  LikesInv'
<1>1. /\ UNCHANGED <<likes, postLikes, notified, outbox, handlers, rows, cells, taps>>
      /\ faults' = faults \/ faults' = faults + 1
  BY DEF Load, FetchPosts, ArriveError, CheckError, Fault, server
<1>2. /\ arrived' \in [Users -> SUBSET Posts]
      /\ \A v \in Users : arrived'[v] \subseteq arrived[v]
  BY DEF Load, FetchPosts, ArriveError, CheckError, Fault, LikesInv, TypeInv
<1>3. faults' \in Nat /\ (faults' = 0 => faults = 0)
  BY <1>1 DEF LikesInv, TypeInv
<1>4. TypeInv'
  BY <1>1, <1>2, <1>3 DEF LikesInv, TypeInv
<1>5. ArrivedShown'
  BY <1>1, <1>2 DEF LikesInv, ArrivedShown
<1>6. CopiesInRange'
  BY <1>1 DEF LikesInv, CopiesInRange, InRange
<1>7. LegsComplete' /\ OwnersSilent'
  BY <1>1, <1>3 DEF LikesInv, LegsComplete, OwnersSilent
<1>8. LikesUnderway'
  BY <1>1, <1>3 DEF LikesInv, LikesUnderway, Underway
<1> QED
  BY <1>4, <1>5, <1>6, <1>7, <1>8 DEF LikesInv

(* An answer of the backend or of the cache is queued for the main queue. *)
LEMMA AnswerStep ==
  ASSUME LikesInv, NEW u \in Users, NEW p \in Posts,
         Arrive(u, p) \/ CheckAnswer(u, p)
  PROVE  LikesInv'
<1>1. UNCHANGED <<likes, postLikes, notified, outbox, rows, cells, arrived, taps, faults>>
  BY DEF Arrive, CheckAnswer, server
<1>2. PICK h \in Write : /\ handlers' = [handlers EXCEPT ![u] = Append(@, h)]
                         /\ ~IsLeg(h)
                         /\ InRange(h.val)
                         /\ h.cell # "nobody"
  <2>1. CASE Arrive(u, p)
    <3> DEFINE h == [doc |-> "arrival", op |-> "set", post |-> p,
                     val |-> LocalLikes(u, p), cell |-> "gone"]
    <3>1. h \in Write /\ InRange(h.val)
      BY LocalInRange DEF LikesInv, Write, Ops
    <3> QED
      BY <2>1, <3>1 DEF Arrive, IsLeg
  <2>2. CASE CheckAnswer(u, p)
    <3> DEFINE op == IF LocallyLiked(u, p) THEN "set" ELSE "delete"
               h == [doc |-> "check", op |-> op, post |-> p, val |-> 0, cell |-> "gone"]
    <3>1. op \in Ops
      BY DEF Ops
    <3>2. handlers' = [handlers EXCEPT ![u] = Append(@, h)]
      BY <2>2 DEF CheckAnswer
    <3> HIDE DEF op
    <3>3. h \in Write /\ InRange(h.val) /\ ~IsLeg(h) /\ h.cell # "nobody"
      BY <3>1 DEF LikesInv, TypeInv, Write, InRange, IsLeg
    <3> QED
      BY <3>2, <3>3
  <2> QED
    BY <2>1, <2>2
<1>4. handlers \in Queues(Users, Write)
  BY DEF LikesInv, TypeInv
<1>12. Pushed(handlers, handlers', u, h)
  BY <1>2, <1>4 DEF Pushed, ChangedAt, Queues
<1>5. /\ handlers' \in Queues(Users, Write)
      /\ ToSet(handlers'[u]) = ToSet(handlers[u]) \cup {h}
      /\ \A v \in Users : v # u => handlers'[v] = handlers[v]
  BY <1>4, <1>12, QueuePushed
<1>6. \A v \in Users : \A w \in ToSet(handlers'[v]) : w \in ToSet(handlers[v]) \/ w = h
  BY <1>5
<1>7. TypeInv'
  BY <1>1, <1>5 DEF LikesInv, TypeInv
<1>8. ArrivedShown'
  BY <1>1 DEF LikesInv, ArrivedShown
<1>9. CopiesInRange'
  BY <1>1, <1>2, <1>6 DEF LikesInv, CopiesInRange, InRange
<1>10. LegsComplete' /\ OwnersSilent'
  BY <1>1, <1>2, <1>6 DEF LikesInv, LegsComplete, OwnersSilent
<1>11. LikesUnderway'
  BY <1>1, <1>5 DEF LikesInv, LikesUnderway, Underway
<1> QED
  BY <1>7, <1>8, <1>9, <1>10, <1>11 DEF LikesInv

(* reloadData fills the cells from rows that are in range. *)
LEMMA ReloadEffect ==
  ASSUME TypeInv, CopiesInRange, NEW u \in Users,
         NEW newRows \in [Posts -> Row \cup {Absent}],
         \A p \in Posts : newRows[p].shown => InRange(newRows[p].likes),
         Reload(u, newRows)
  PROVE  /\ cells' \in [Users -> [AllCells -> Shown \cup {Absent}]]
         /\ \A v \in Users, c \in AllCells :
              cells'[v][c].shown => InRange(cells'[v][c].likes)
<1> DEFINE new(c) == IF c = "single" \/ ~cells[u][c].shown THEN cells[u][c]
                     ELSE IF newRows[cells[u][c].post].shown
                            THEN ShowRow(cells[u][c].post, newRows[cells[u][c].post])
                            ELSE Absent
<1>1. ASSUME NEW c \in AllCells
      PROVE  new(c) \in Shown \cup {Absent} /\ (new(c).shown => InRange(new(c).likes))
  <2>1. CASE c = "single" \/ ~cells[u][c].shown
    BY <2>1 DEF TypeInv, CopiesInRange
  <2>2. CASE ~(c = "single" \/ ~cells[u][c].shown)
    <3> DEFINE p == cells[u][c].post
    <3>1. cells[u][c] \in Shown
      <4>1. cells[u][c] \in Shown \cup {Absent}
        BY DEF TypeInv
      <4> QED
        BY <2>2, <4>1 DEF Absent
    <3>2. p \in Posts
      BY <3>1 DEF Shown
    <3>3. new(c) = IF newRows[p].shown THEN ShowRow(p, newRows[p]) ELSE Absent
      BY <2>2
    <3> HIDE DEF p
    <3>4. newRows[p].shown => newRows[p] \in Row
      BY <3>2 DEF Absent
    <3>5. newRows[p].shown
            => /\ ShowRow(p, newRows[p]) \in Shown
               /\ ShowRow(p, newRows[p]).likes = newRows[p].likes
      BY <3>2, <3>4 DEF ShowRow, Row, Shown
    <3> HIDE DEF new
    <3> QED
      BY <3>2, <3>3, <3>5 DEF Absent
  <2> QED
    BY <2>1, <2>2
<1>2. cells' = [cells EXCEPT ![u] = [c \in AllCells |-> new(c)]]
  BY DEF Reload
<1> HIDE DEF new
<1>3. [c \in AllCells |-> new(c)] \in [AllCells -> Shown \cup {Absent}]
  BY <1>1
<1>4. /\ cells' \in [Users -> [AllCells -> Shown \cup {Absent}]]
      /\ cells'[u] = [c \in AllCells |-> new(c)]
      /\ \A v \in Users : v # u => cells'[v] = cells[v]
  BY <1>2, <1>3 DEF TypeInv
<1> QED
  BY <1>1, <1>4 DEF CopiesInRange

(* The front of the pipeline leaves it. *)
LEMMA DepartEffect ==
  ASSUME TypeInv, NEW u \in Users, Depart(u)
  PROVE  LET w == Head(outbox[u])
         IN  /\ w \in Write
             /\ outbox' \in Queues(Users, Write)
             /\ handlers' \in Queues(Users, Write)
             /\ ToSet(outbox[u]) = {w} \cup ToSet(outbox'[u])
             /\ \A v \in Users : v # u => outbox'[v] = outbox[v]
             /\ \A v \in Users : ToSet(handlers[v]) \subseteq ToSet(handlers'[v])
             /\ \A v \in Users : \A x \in ToSet(handlers'[v]) :
                  x \in ToSet(handlers[v]) \/ (v = u /\ x = w /\ w.cell # "nobody")
             /\ w.cell # "nobody" => w \in ToSet(handlers'[u])
<1> DEFINE w == Head(outbox[u])
<1>1. outbox \in Queues(Users, Write) /\ handlers \in Queues(Users, Write)
  BY DEF TypeInv
<1>2. Popped(outbox, outbox', u)
  BY <1>1 DEF Depart, Popped, ChangedAt, Queues
<1>3. /\ outbox' \in Queues(Users, Write)
      /\ Head(outbox[u]) \in Write
      /\ ToSet(outbox[u]) = {Head(outbox[u])} \cup ToSet(outbox'[u])
      /\ \A v \in Users : v # u => outbox'[v] = outbox[v]
  <2> HIDE DEF w
  <2> QED
    BY <1>1, <1>2, QueuePopped
<1>7. w \in Write
  BY <1>3
<1>4. handlers' = IF w.cell = "nobody" THEN handlers
                    ELSE [handlers EXCEPT ![u] = Append(@, w)]
  BY DEF Depart
<1> HIDE DEF w
<1>5. CASE w.cell = "nobody"
  BY <1>1, <1>3, <1>4, <1>5 DEF w
<1>6. CASE w.cell # "nobody"
  <2>1. Pushed(handlers, handlers', u, w)
    BY <1>1, <1>4, <1>6 DEF Pushed, ChangedAt, Queues
  <2>2. /\ handlers' \in Queues(Users, Write)
        /\ ToSet(handlers'[u]) = ToSet(handlers[u]) \cup {w}
        /\ \A v \in Users : v # u => handlers'[v] = handlers[v]
    BY <1>1, <1>7, <2>1, QueuePushed
  <2> QED
    BY <1>3, <1>6, <2>2 DEF w
<1> QED
  BY <1>5, <1>6

(* A completion leaves the main queue. *)
LEMMA HandledEffect ==
  ASSUME TypeInv, NEW u \in Users, Popped(handlers, handlers', u)
  PROVE  /\ Head(handlers[u]) \in Write
         /\ handlers' \in Queues(Users, Write)
         /\ ToSet(handlers[u]) = {Head(handlers[u])} \cup ToSet(handlers'[u])
         /\ \A v \in Users : v # u => handlers'[v] = handlers[v]
<1>1. handlers \in Queues(Users, Write)
  BY DEF TypeInv
<1> QED
  BY <1>1, QueuePopped

(* A committed write leaves the outbox: its document is stored and its handler queued. *)
LEMMA CommitStep ==
  ASSUME LikesInv, NEW u \in Users, Commit(u)
  PROVE  LikesInv'
<1> DEFINE w == Head(outbox[u])
<1>1. UNCHANGED <<rows, cells, arrived, taps, faults>>
  BY DEF Commit, screen
<1>2. /\ w \in Write
      /\ outbox' \in Queues(Users, Write)
      /\ handlers' \in Queues(Users, Write)
      /\ ToSet(outbox[u]) = {w} \cup ToSet(outbox'[u])
      /\ \A v \in Users : v # u => outbox'[v] = outbox[v]
      /\ \A v \in Users : ToSet(handlers[v]) \subseteq ToSet(handlers'[v])
      /\ \A v \in Users : \A x \in ToSet(handlers'[v]) :
           x \in ToSet(handlers[v]) \/ (v = u /\ x = w /\ w.cell # "nobody")
      /\ w.cell # "nobody" => w \in ToSet(handlers'[u])
  BY DepartEffect DEF Commit, LikesInv
<1>3. /\ likes' = IF w.doc = "counter" THEN [likes EXCEPT ![w.post] = w.val] ELSE likes
      /\ postLikes' = IF w.doc = "postLike"
                        THEN Apply(postLikes, w.op, <<u, w.post>>) ELSE postLikes
      /\ notified' = IF w.doc = "notification"
                       THEN notified \cup {<<u, w.post>>} ELSE notified
  BY DEF Commit
<1>4. w \in ToSet(outbox[u])
  BY <1>2
<1> HIDE DEF w
<1>5. InRange(w.val) /\ w.val \in Int /\ w.post \in Posts
  BY <1>2, <1>4 DEF LikesInv, CopiesInRange, Write
<1>6. \A v \in Users : ToSet(outbox'[v]) \subseteq ToSet(outbox[v])
  BY <1>2
<1>7. TypeInv'
  BY <1>1, <1>2, <1>3, <1>5 DEF LikesInv, TypeInv
<1>8. ArrivedShown'
  BY <1>1 DEF LikesInv, ArrivedShown
<1>9. CopiesInRange'
  <2>1. \A p \in Posts : InRange(likes'[p])
    BY <1>3, <1>5 DEF LikesInv, CopiesInRange, TypeInv
  <2>2. \A v \in Users : /\ \A x \in ToSet(outbox'[v]) : InRange(x.val)
                         /\ \A x \in ToSet(handlers'[v]) : InRange(x.val)
    BY <1>2, <1>5, <1>6 DEF LikesInv, CopiesInRange
  <2> QED
    BY <1>1, <2>1, <2>2 DEF LikesInv, CopiesInRange, InRange
<1>10. LegsComplete'
  BY <1>1, <1>2, <1>6 DEF LikesInv, LegsComplete
<1>11. LikesUnderway'
  <2> SUFFICES ASSUME NEW v \in Users, NEW p \in Posts,
                      <<v, p>> \in postLikes', Owner[p] # v, faults' = 0
               PROVE  <<v, p>> \in notified' \/ Underway(v, p)'
    BY DEF LikesUnderway
  <2>1. CASE v = u /\ p = w.post /\ w.doc = "notification"
    BY <1>3, <2>1
  <2>2. CASE v = u /\ p = w.post /\ IsLeg(w) /\ w.op = "set"
    <3>1. w.cell # "nobody"
      BY <1>1, <1>4, <2>2 DEF LikesInv, LegsComplete
    <3> QED
      BY <1>2, <2>2, <3>1 DEF Underway
  <2>3. CASE ~(v = u /\ p = w.post
               /\ (w.doc = "notification" \/ (IsLeg(w) /\ w.op = "set")))
    <3>1. <<v, p>> \in postLikes
      BY <1>3, <2>3 DEF Apply, IsLeg
    <3>2. <<v, p>> \in notified \/ Underway(v, p)
      BY <1>1, <3>1 DEF LikesInv, LikesUnderway
    <3>3. <<v, p>> \in notified => <<v, p>> \in notified'
      BY <1>3
    <3>4. Underway(v, p) => Underway(v, p)'
      BY <1>2, <2>3 DEF Underway, IsLeg
    <3> QED
      BY <3>2, <3>3, <3>4
  <2> QED
    BY <2>1, <2>2, <2>3
<1>12. OwnersSilent'
  <2> SUFFICES ASSUME NEW v \in Users, NEW p \in Posts, Owner[p] = v
               PROVE  /\ <<v, p>> \notin notified'
                      /\ \A x \in ToSet(outbox'[v]) : x.doc = "notification" => x.post # p
    BY DEF OwnersSilent
  <2>1. /\ <<v, p>> \notin notified
        /\ \A x \in ToSet(outbox[v]) : x.doc = "notification" => x.post # p
    BY DEF LikesInv, OwnersSilent
  <2> QED
    BY <1>3, <1>4, <1>6, <2>1
<1> QED
  BY <1>7, <1>8, <1>9, <1>10, <1>11, <1>12 DEF LikesInv

(* A refused write ends its chain and is a fault; numbers stay in range. *)
LEMMA RefuseStep ==
  ASSUME LikesInv, NEW u \in Users, Refuse(u)
  PROVE  LikesInv'
<1> DEFINE w == Head(outbox[u])
<1>1. /\ UNCHANGED <<likes, postLikes, notified, rows, cells, arrived, taps>>
      /\ faults' = faults + 1
  BY DEF Refuse, Fault, server, screen
<1>2. /\ w \in Write
      /\ outbox' \in Queues(Users, Write)
      /\ handlers' \in Queues(Users, Write)
      /\ ToSet(outbox[u]) = {w} \cup ToSet(outbox'[u])
      /\ \A v \in Users : v # u => outbox'[v] = outbox[v]
      /\ \A v \in Users : \A x \in ToSet(handlers'[v]) :
           x \in ToSet(handlers[v]) \/ (v = u /\ x = w /\ w.cell # "nobody")
  BY DepartEffect DEF Refuse, LikesInv
<1> HIDE DEF w
<1>3. /\ w \in ToSet(outbox[u])
      /\ \A v \in Users : ToSet(outbox'[v]) \subseteq ToSet(outbox[v])
  BY <1>2
<1>4. faults' \in Nat /\ faults' # 0
  BY <1>1 DEF LikesInv, TypeInv
<1>5. TypeInv'
  BY <1>1, <1>2, <1>4 DEF LikesInv, TypeInv
<1>6. ArrivedShown'
  BY <1>1 DEF LikesInv, ArrivedShown
<1>7. CopiesInRange'
  BY <1>1, <1>2, <1>3 DEF LikesInv, CopiesInRange, InRange
<1>8. LegsComplete' /\ LikesUnderway'
  BY <1>2, <1>4 DEF LikesInv, LegsComplete, LikesUnderway
<1>9. OwnersSilent'
  BY <1>1, <1>3 DEF LikesInv, OwnersSilent
<1> QED
  BY <1>5, <1>6, <1>7, <1>8, <1>9 DEF LikesInv

(* The completion of the write under the post queues the one under the user. *)
LEMMA FirstStep ==
  ASSUME LikesInv, NEW u \in Users, HandleFirst(u)
  PROVE  LikesInv'
<1> DEFINE h == Head(handlers[u])
           w == [h EXCEPT !.doc = "userLike"]
<1>1. UNCHANGED <<likes, postLikes, notified, rows, cells, arrived, taps, faults>>
  BY DEF HandleFirst, server, screen
<1>2. outbox \in Queues(Users, Write) /\ handlers \in Queues(Users, Write)
  BY DEF LikesInv, TypeInv
<1>3. Popped(handlers, handlers', u)
  BY <1>2 DEF HandleFirst, Popped, ChangedAt, Queues
<1>4. /\ h \in Write
      /\ handlers' \in Queues(Users, Write)
      /\ ToSet(handlers[u]) = {h} \cup ToSet(handlers'[u])
      /\ \A v \in Users : v # u => handlers'[v] = handlers[v]
  BY <1>3, HandledEffect DEF LikesInv
<1>5. h.doc = "postLike" /\ outbox' = [outbox EXCEPT ![u] = Append(@, w)]
  BY DEF HandleFirst
<1> HIDE DEF h
<1>6. /\ w \in Write /\ w.doc = "userLike" /\ w.post = h.post /\ w.op = h.op
      /\ w.val = h.val /\ w.cell = h.cell
  BY <1>4 DEF Write
<1> HIDE DEF w
<1>7. Pushed(outbox, outbox', u, w)
  BY <1>2, <1>5 DEF Pushed, ChangedAt, Queues
<1>8. /\ outbox' \in Queues(Users, Write)
      /\ ToSet(outbox'[u]) = ToSet(outbox[u]) \cup {w}
      /\ \A v \in Users : v # u => outbox'[v] = outbox[v]
  BY <1>2, <1>6, <1>7, QueuePushed
<1>9. /\ h \in ToSet(handlers[u])
      /\ \A v \in Users : ToSet(handlers'[v]) \subseteq ToSet(handlers[v])
  BY <1>4
<1>10. InRange(w.val) /\ w.cell # "nobody"
  BY <1>6, <1>9 DEF LikesInv, CopiesInRange, LegsComplete
<1>11. TypeInv' /\ ArrivedShown'
  BY <1>1, <1>4, <1>8 DEF LikesInv, TypeInv, ArrivedShown
<1>12. CopiesInRange'
  <2>1. \A v \in Users : /\ \A x \in ToSet(outbox'[v]) : InRange(x.val)
                         /\ \A x \in ToSet(handlers'[v]) : InRange(x.val)
    BY <1>8, <1>9, <1>10 DEF LikesInv, CopiesInRange
  <2> QED
    BY <1>1, <2>1 DEF LikesInv, CopiesInRange, InRange
<1>13. LegsComplete'
  BY <1>1, <1>8, <1>9, <1>10 DEF LikesInv, LegsComplete
<1>14. LikesUnderway'
  <2> SUFFICES ASSUME NEW v \in Users, NEW p \in Posts, Underway(v, p)
               PROVE  Underway(v, p)'
    BY <1>1 DEF LikesInv, LikesUnderway
  <2>1. CASE v # u
    BY <1>4, <1>8, <2>1 DEF Underway
  <2>2. CASE v = u
    BY <1>4, <1>6, <1>8, <2>2 DEF Underway, IsLeg
  <2> QED
    BY <2>1, <2>2
<1>15. OwnersSilent'
  BY <1>1, <1>6, <1>8 DEF LikesInv, OwnersSilent
<1> QED
  BY <1>11, <1>12, <1>13, <1>14, <1>15 DEF LikesInv

(* The completion of the write under the user sets a cell's number and, for a  *)
(* like, queues the notification.                                              *)
LEMMA SecondStep ==
  ASSUME LikesInv, NEW u \in Users, HandleSecond(u)
  PROVE  LikesInv'
<1> DEFINE h == Head(handlers[u])
           n == [doc |-> "notification", op |-> "set", post |-> h.post,
                 val |-> 0, cell |-> "nobody"]
<1>1. UNCHANGED <<likes, postLikes, notified, rows, arrived, taps, faults>>
  BY DEF HandleSecond, server
<1>2. outbox \in Queues(Users, Write) /\ handlers \in Queues(Users, Write)
  BY DEF LikesInv, TypeInv
<1>3. Popped(handlers, handlers', u)
  BY <1>2 DEF HandleSecond, Popped, ChangedAt, Queues
<1>4. /\ h \in Write
      /\ handlers' \in Queues(Users, Write)
      /\ ToSet(handlers[u]) = {h} \cup ToSet(handlers'[u])
      /\ \A v \in Users : v # u => handlers'[v] = handlers[v]
  BY <1>3, HandledEffect DEF LikesInv
<1>5. /\ h.doc = "userLike"
      /\ cells' = IF h.cell \in AllCells /\ cells[u][h.cell].shown
                    THEN [cells EXCEPT ![u][h.cell].likes = h.val] ELSE cells
      /\ outbox' = IF h.op = "set" /\ Owner[h.post] # u
                     THEN [outbox EXCEPT ![u] = Append(@, n)] ELSE outbox
  BY DEF HandleSecond, AddNotification
<1> HIDE DEF h
<1>6. h.post \in Posts /\ h.val \in Int
  BY <1>4 DEF Write
<1>7. n \in Write /\ n.doc = "notification" /\ n.post = h.post /\ n.val = 0
  BY <1>6 DEF Write, Ops
<1> HIDE DEF n
<1>9. /\ outbox' \in Queues(Users, Write)
      /\ \A v \in Users : v # u => outbox'[v] = outbox[v]
      /\ ToSet(outbox[u]) \subseteq ToSet(outbox'[u])
      /\ ToSet(outbox'[u]) \subseteq ToSet(outbox[u]) \cup {n}
      /\ h.op = "set" /\ Owner[h.post] # u => n \in ToSet(outbox'[u])
      /\ ~(h.op = "set" /\ Owner[h.post] # u) => outbox' = outbox
  <2>1. CASE h.op = "set" /\ Owner[h.post] # u
    <3>1. Pushed(outbox, outbox', u, n)
      BY <1>2, <1>5, <2>1 DEF Pushed, ChangedAt, Queues
    <3>2. /\ outbox' \in Queues(Users, Write)
          /\ ToSet(outbox'[u]) = ToSet(outbox[u]) \cup {n}
          /\ \A v \in Users : v # u => outbox'[v] = outbox[v]
      BY <1>2, <1>7, <3>1, QueuePushed
    <3> QED
      BY <2>1, <3>2
  <2>2. CASE ~(h.op = "set" /\ Owner[h.post] # u)
    BY <1>2, <1>5, <2>2
  <2> QED
    BY <2>1, <2>2
<1>10. /\ h \in ToSet(handlers[u])
       /\ \A v \in Users : ToSet(handlers'[v]) \subseteq ToSet(handlers[v])
  BY <1>4
<1>11. InRange(h.val) /\ InRange(n.val)
  BY <1>7, <1>10 DEF LikesInv, CopiesInRange, InRange, TypeInv
<1>12. /\ cells' \in [Users -> [AllCells -> Shown \cup {Absent}]]
       /\ \A v \in Users, c \in AllCells :
            cells'[v][c].shown => InRange(cells'[v][c].likes)
  <2>1. CASE ~(h.cell \in AllCells /\ cells[u][h.cell].shown)
    BY <1>5, <2>1 DEF LikesInv, TypeInv, CopiesInRange
  <2>2. CASE h.cell \in AllCells /\ cells[u][h.cell].shown
    <3> DEFINE s == cells[u][h.cell]
               t == [s EXCEPT !.likes = h.val]
    <3>1. s \in Shown
      <4>1. s \in Shown \cup {Absent}
        BY <2>2 DEF LikesInv, TypeInv
      <4> QED
        BY <2>2, <4>1 DEF Absent
    <3>2. t \in Shown /\ t.likes = h.val
      BY <1>6, <3>1 DEF Shown
    <3>3. cells' = [cells EXCEPT ![u] = [cells[u] EXCEPT ![h.cell] = t]]
      BY <1>5, <2>2
    <3> HIDE DEF t, s
    <3>4. /\ cells' \in [Users -> [AllCells -> Shown \cup {Absent}]]
          /\ \A v \in Users, c \in AllCells :
               cells'[v][c] = IF v = u /\ c = h.cell THEN t ELSE cells[v][c]
      BY <2>2, <3>2, <3>3 DEF LikesInv, TypeInv
    <3> QED
      BY <1>11, <3>2, <3>4 DEF LikesInv, CopiesInRange
  <2> QED
    BY <2>1, <2>2
<1>13. TypeInv' /\ ArrivedShown'
  BY <1>1, <1>4, <1>9, <1>12 DEF LikesInv, TypeInv, ArrivedShown
<1>14. CopiesInRange'
  <2>1. \A v \in Users : /\ \A x \in ToSet(outbox'[v]) : InRange(x.val)
                         /\ \A x \in ToSet(handlers'[v]) : InRange(x.val)
    BY <1>9, <1>10, <1>11 DEF LikesInv, CopiesInRange
  <2> QED
    BY <1>1, <1>12, <2>1 DEF LikesInv, CopiesInRange, InRange
<1>15. LegsComplete'
  BY <1>1, <1>7, <1>9, <1>10 DEF LikesInv, LegsComplete, IsLeg
<1>16. LikesUnderway'
  <2> SUFFICES ASSUME NEW v \in Users, NEW p \in Posts, Owner[p] # v, Underway(v, p)
               PROVE  Underway(v, p)'
    BY <1>1 DEF LikesInv, LikesUnderway
  <2>1. CASE v # u
    BY <1>4, <1>9, <2>1 DEF Underway
  <2>2. CASE v = u
    BY <1>4, <1>7, <1>9, <2>2 DEF Underway, IsLeg
  <2> QED
    BY <2>1, <2>2
<1>17. OwnersSilent'
  BY <1>1, <1>7, <1>9 DEF LikesInv, OwnersSilent
<1> QED
  BY <1>13, <1>14, <1>15, <1>16, <1>17 DEF LikesInv

(* A completion that carries an answer, not the end of a leg, is handled. *)
LEMMA AnswerHandled ==
  ASSUME LikesInv, NEW u \in Users, Popped(handlers, handlers', u),
         ~IsLeg(Head(handlers[u])),
         UNCHANGED <<likes, postLikes, notified, outbox, taps, faults>>,
         rows' \in [Users -> [Posts -> Row \cup {Absent}]],
         cells' \in [Users -> [AllCells -> Shown \cup {Absent}]],
         arrived' \in [Users -> SUBSET Posts],
         \A v \in Users, p \in Posts : rows'[v][p].shown => InRange(rows'[v][p].likes),
         \A v \in Users, c \in AllCells :
           cells'[v][c].shown => InRange(cells'[v][c].likes),
         ArrivedShown'
  PROVE  LikesInv'
<1>1. /\ handlers' \in Queues(Users, Write)
      /\ ToSet(handlers[u]) = {Head(handlers[u])} \cup ToSet(handlers'[u])
      /\ \A v \in Users : v # u => handlers'[v] = handlers[v]
  BY HandledEffect DEF LikesInv
<1>2. \A v \in Users : ToSet(handlers'[v]) \subseteq ToSet(handlers[v])
  BY <1>1
<1>3. TypeInv'
  BY <1>1 DEF LikesInv, TypeInv
<1>4. CopiesInRange'
  <2>1. \A v \in Users : /\ \A x \in ToSet(outbox'[v]) : InRange(x.val)
                         /\ \A x \in ToSet(handlers'[v]) : InRange(x.val)
    BY <1>2 DEF LikesInv, CopiesInRange
  <2> QED
    BY <2>1 DEF LikesInv, CopiesInRange, InRange
<1>5. LegsComplete' /\ OwnersSilent'
  BY <1>2 DEF LikesInv, LegsComplete, OwnersSilent
<1>6. LikesUnderway'
  <2> SUFFICES ASSUME NEW v \in Users, NEW p \in Posts, Underway(v, p)
               PROVE  Underway(v, p)'
    BY DEF LikesInv, LikesUnderway
  <2> QED
    BY <1>1 DEF Underway
<1> QED
  BY <1>3, <1>4, <1>5, <1>6 DEF LikesInv

(* A fetched post fills its row with the number the backend held when it was read. *)
LEMMA ArrivalStep ==
  ASSUME LikesInv, NEW u \in Users, HandleArrival(u)
  PROVE  LikesInv'
<1> DEFINE h == Head(handlers[u])
           row(q) == IF q = h.post
                       THEN [shown |-> TRUE, likes |-> h.val, didLike |-> FALSE]
                     ELSE IF q \in arrived[u] THEN [rows[u][q] EXCEPT !.didLike = FALSE]
                     ELSE Absent
           newRows == [q \in Posts |-> row(q)]
<1>1. /\ UNCHANGED <<likes, postLikes, notified, outbox, taps, faults>>
      /\ h.doc = "arrival"
      /\ arrived' = [arrived EXCEPT ![u] = @ \cup {h.post}]
      /\ rows' = [rows EXCEPT ![u] = newRows]
      /\ Reload(u, newRows)
  BY DEF HandleArrival, server
<1>2. Popped(handlers, handlers', u)
  BY DEF HandleArrival, Popped, ChangedAt, LikesInv, TypeInv, Queues
<1>3. h \in Write /\ ToSet(handlers[u]) = {h} \cup ToSet(handlers'[u])
  BY <1>2, HandledEffect DEF LikesInv
<1> HIDE DEF h
<1>4. h.post \in Posts /\ h.val \in Int /\ InRange(h.val)
  BY <1>3 DEF Write, LikesInv, CopiesInRange
<1>5. ASSUME NEW q \in Posts
      PROVE  /\ row(q) \in Row \cup {Absent}
             /\ row(q).shown => InRange(row(q).likes)
             /\ q = h.post \/ q \in arrived[u] => row(q).shown
  <2>1. CASE q = h.post
    BY <1>4, <2>1 DEF Row
  <2>2. CASE q # h.post /\ q \in arrived[u]
    <3> DEFINE r == rows[u][q]
    <3>1. r \in Row /\ InRange(r.likes)
      <4>1. r \in Row \cup {Absent} /\ r.shown
        BY <2>2 DEF LikesInv, TypeInv, ArrivedShown
      <4>2. r \in Row
        BY <4>1 DEF Absent
      <4> QED
        BY <4>1, <4>2 DEF LikesInv, CopiesInRange
    <3> HIDE DEF r
    <3>2. LET x == [r EXCEPT !.didLike = FALSE]
          IN  x \in Row /\ x.likes = r.likes /\ x.shown
      BY <3>1 DEF Row
    <3>3. row(q) = [r EXCEPT !.didLike = FALSE]
      BY <2>2 DEF r
    <3> QED
      BY <3>1, <3>2, <3>3
  <2>3. CASE q # h.post /\ q \notin arrived[u]
    BY <2>3 DEF Absent
  <2> QED
    BY <2>1, <2>2, <2>3
<1> HIDE DEF row
<1>6. newRows \in [Posts -> Row \cup {Absent}]
  BY <1>5
<1>7. \A p \in Posts : newRows[p].shown => InRange(newRows[p].likes)
  BY <1>5
<1>8. \A p \in Posts : p = h.post \/ p \in arrived[u] => newRows[p].shown
  BY <1>5
<1> HIDE DEF newRows
<1>9. /\ cells' \in [Users -> [AllCells -> Shown \cup {Absent}]]
      /\ \A v \in Users, c \in AllCells :
           cells'[v][c].shown => InRange(cells'[v][c].likes)
  BY <1>1, <1>6, <1>7, ReloadEffect DEF LikesInv
<1>10. /\ rows' \in [Users -> [Posts -> Row \cup {Absent}]]
       /\ \A v \in Users : rows'[v] = IF v = u THEN newRows ELSE rows[v]
  BY <1>1, <1>6 DEF LikesInv, TypeInv
<1>11. /\ arrived' \in [Users -> SUBSET Posts]
       /\ \A v \in Users : arrived'[v] = IF v = u THEN arrived[u] \cup {h.post}
                                                  ELSE arrived[v]
  BY <1>1, <1>4 DEF LikesInv, TypeInv
<1>12. \A v \in Users, p \in Posts : rows'[v][p].shown => InRange(rows'[v][p].likes)
  BY <1>7, <1>10 DEF LikesInv, CopiesInRange
<1>13. ArrivedShown'
  <2>1. SUFFICES ASSUME NEW v \in Users, NEW p \in arrived'[v]
                 PROVE  rows'[v][p].shown
    BY DEF ArrivedShown
  <2>2. CASE v = u
    <3>1. p \in Posts /\ (p = h.post \/ p \in arrived[u])
      BY <1>11, <2>1, <2>2
    <3>2. newRows[p].shown
      BY <1>8, <3>1
    <3> QED
      BY <1>10, <2>2, <3>2
  <2>3. CASE v # u
    <3>1. p \in arrived[v] /\ rows'[v] = rows[v]
      BY <1>10, <1>11, <2>1, <2>3
    <3> QED
      BY <3>1 DEF LikesInv, ArrivedShown
  <2> QED
    BY <2>2, <2>3
<1>14. ~IsLeg(Head(handlers[u]))
  BY <1>1 DEF IsLeg, h
<1> QED
  BY <1>1, <1>2, <1>9, <1>10, <1>11, <1>12, <1>13, <1>14, AnswerHandled

(* The answer of isUserLikedPost sets the heart of one row and nothing else. *)
LEMMA CheckStep ==
  ASSUME LikesInv, NEW u \in Users, HandleCheck(u)
  PROVE  LikesInv'
<1> DEFINE h == Head(handlers[u])
<1>1. /\ UNCHANGED <<likes, postLikes, notified, outbox, arrived, taps, faults>>
      /\ h.doc = "check"
      /\ \/ /\ rows[u][h.post].shown
            /\ rows' = [rows EXCEPT ![u][h.post].didLike = (h.op = "set")]
            /\ Reload(u, rows'[u])
         \/ /\ ~rows[u][h.post].shown
            /\ UNCHANGED <<rows, cells>>
  BY DEF HandleCheck, server
<1>2. Popped(handlers, handlers', u)
  BY DEF HandleCheck, Popped, ChangedAt, LikesInv, TypeInv, Queues
<1>3. h \in Write
  BY <1>2, HandledEffect DEF LikesInv
<1>4. ~IsLeg(Head(handlers[u]))
  BY <1>1 DEF IsLeg
<1> HIDE DEF h
<1>5. h.post \in Posts
  BY <1>3 DEF Write
<1>6. CASE UNCHANGED <<rows, cells>>
  <2>1. /\ rows' \in [Users -> [Posts -> Row \cup {Absent}]]
        /\ cells' \in [Users -> [AllCells -> Shown \cup {Absent}]]
        /\ arrived' \in [Users -> SUBSET Posts]
    BY <1>1, <1>6 DEF LikesInv, TypeInv
  <2>2. /\ \A v \in Users, p \in Posts : rows'[v][p].shown => InRange(rows'[v][p].likes)
        /\ \A v \in Users, c \in AllCells :
             cells'[v][c].shown => InRange(cells'[v][c].likes)
    BY <1>6 DEF LikesInv, CopiesInRange
  <2>3. ArrivedShown'
    BY <1>1, <1>6 DEF LikesInv, ArrivedShown
  <2> QED
    BY <1>1, <1>2, <1>4, <2>1, <2>2, <2>3, AnswerHandled
<1>7. CASE /\ rows[u][h.post].shown
           /\ rows' = [rows EXCEPT ![u][h.post].didLike = (h.op = "set")]
           /\ Reload(u, rows'[u])
  <2> DEFINE r == rows[u][h.post]
             b == (h.op = "set")
             t == [r EXCEPT !.didLike = b]
  <2>1. r \in Row
    <3>1. r \in Row \cup {Absent}
      BY <1>5 DEF LikesInv, TypeInv
    <3> QED
      BY <1>7, <3>1 DEF Absent
  <2>2. b \in BOOLEAN
    OBVIOUS
  <2>3. rows' = [rows EXCEPT ![u] = [rows[u] EXCEPT ![h.post] = t]]
    BY <1>7
  <2> HIDE DEF b
  <2>4. t \in Row /\ t.likes = r.likes /\ t.shown
    BY <2>1, <2>2 DEF Row
  <2> HIDE DEF t
  <2>5. /\ rows' \in [Users -> [Posts -> Row \cup {Absent}]]
        /\ \A v \in Users, p \in Posts :
             rows'[v][p] = IF v = u /\ p = h.post THEN t ELSE rows[v][p]
    BY <1>5, <2>3, <2>4 DEF LikesInv, TypeInv
  <2>6. \A v \in Users, p \in Posts : rows'[v][p].shown => InRange(rows'[v][p].likes)
    BY <1>5, <1>7, <2>4, <2>5 DEF LikesInv, CopiesInRange
  <2>7. rows'[u] \in [Posts -> Row \cup {Absent}]
    BY <2>5
  <2>8. /\ cells' \in [Users -> [AllCells -> Shown \cup {Absent}]]
        /\ \A v \in Users, c \in AllCells :
             cells'[v][c].shown => InRange(cells'[v][c].likes)
    BY <1>7, <2>6, <2>7, ReloadEffect DEF LikesInv
  <2>9. arrived' \in [Users -> SUBSET Posts] /\ ArrivedShown'
    BY <1>1, <2>4, <2>5 DEF LikesInv, TypeInv, ArrivedShown
  <2> QED
    BY <1>1, <1>2, <1>4, <2>5, <2>6, <2>8, <2>9, AnswerHandled
<1> QED
  BY <1>1, <1>6, <1>7

(* A cell is filled, with the row of p or for a screen of its own. *)
LEMMA FillStep ==
  ASSUME LikesInv, AlbumInRange, NEW u \in Users, NEW c \in AllCells, NEW p \in Posts,
         \/ (c \in Cells /\ Scroll(u, c, p))
         \/ (c = "single" /\ OpenPost(u, p))
  PROVE  LikesInv'
<1>1. UNCHANGED <<likes, postLikes, notified, outbox, handlers, rows, arrived, taps, faults>>
  BY DEF Scroll, OpenPost, server
<1>2. PICK t \in Shown : /\ cells' = [cells EXCEPT ![u] = [cells[u] EXCEPT ![c] = t]]
                         /\ InRange(t.likes)
  <2>1. CASE c \in Cells /\ Scroll(u, c, p)
    <3> DEFINE r == rows[u][p]
               t == ShowRow(p, r)
    <3>1. r \in Row /\ InRange(r.likes)
      <4>1. r \in Row \cup {Absent} /\ r.shown
        BY <2>1 DEF LikesInv, TypeInv, Scroll
      <4>2. r \in Row
        BY <4>1 DEF Absent
      <4> QED
        BY <4>1, <4>2 DEF LikesInv, CopiesInRange
    <3> HIDE DEF r
    <3>2. t \in Shown /\ InRange(t.likes)
      BY <3>1 DEF ShowRow, Shown, Row
    <3>3. cells' = [cells EXCEPT ![u] = [cells[u] EXCEPT ![c] = t]]
      BY <2>1 DEF Scroll, r
    <3> HIDE DEF t
    <3> QED
      BY <3>2, <3>3
  <2>2. CASE c = "single" /\ OpenPost(u, p)
    <3>1. PICK n \in album[u][p] \cup {LocalLikes(u, p)} :
            cells' = [cells EXCEPT ![u]["single"] =
              [shown |-> TRUE, post |-> p, likes |-> n, didLike |-> FALSE]]
      BY <2>2 DEF OpenPost
    <3> DEFINE t == [shown |-> TRUE, post |-> p, likes |-> n, didLike |-> FALSE]
    <3>2. cells' = [cells EXCEPT ![u] = [cells[u] EXCEPT ![c] = t]]
      BY <2>2, <3>1
    <3>3. t \in Shown /\ InRange(t.likes)
      <4>1. LocalLikes(u, p) \in Int /\ InRange(LocalLikes(u, p))
        BY LocalInRange DEF LikesInv
      <4>2. n \in Int /\ InRange(n)
        BY <3>1, <4>1 DEF AlbumInRange
      <4> QED
        BY <4>2 DEF Shown
    <3> HIDE DEF t
    <3> QED
      BY <3>2, <3>3
  <2> QED
    BY <2>1, <2>2
<1>3. /\ cells' \in [Users -> [AllCells -> Shown \cup {Absent}]]
      /\ \A v \in Users, d \in AllCells :
           cells'[v][d] = IF v = u /\ d = c THEN t ELSE cells[v][d]
  BY <1>2 DEF LikesInv, TypeInv
<1>4. TypeInv' /\ ArrivedShown'
  BY <1>1, <1>3 DEF LikesInv, TypeInv, ArrivedShown
<1>5. CopiesInRange'
  BY <1>1, <1>2, <1>3 DEF LikesInv, CopiesInRange, InRange
<1>6. LegsComplete' /\ OwnersSilent'
  BY <1>1 DEF LikesInv, LegsComplete, OwnersSilent
<1>7. LikesUnderway'
  BY <1>1 DEF LikesInv, LikesUnderway, Underway
<1> QED
  BY <1>4, <1>5, <1>6, <1>7 DEF LikesInv

(* Forgetting the cell of a write leaves everything else of it alone. *)
SameButCell(w, x) ==
  /\ x.doc = w.doc /\ x.op = w.op /\ x.post = w.post /\ x.val = w.val

(* Closing a single-post screen changes only which cell a write reports to. *)
LEMMA GoneEffect ==
  ASSUME NEW w \in Write
  PROVE  /\ Gone(w) \in Write
         /\ SameButCell(w, Gone(w))
         /\ w.cell # "nobody" => Gone(w).cell # "nobody"
BY DEF Gone, Write, SameButCell

(* A restart changes only which cell a write reports to. *)
LEMMA OrphanEffect ==
  ASSUME NEW w \in Write
  PROVE  Orphan(w) \in Write /\ SameButCell(w, Orphan(w))
BY DEF Orphan, Write, SameButCell

(* Closing a single-post screen leaves every chain under way. *)
LEMMA CloseStep ==
  ASSUME LikesInv, NEW u \in Users, ClosePost(u)
  PROVE  LikesInv'
<1> DEFINE o == [i \in DOMAIN outbox[u] |-> Gone(outbox[u][i])]
           g == [i \in DOMAIN handlers[u] |-> Gone(handlers[u][i])]
<1>1. UNCHANGED <<likes, postLikes, notified, rows, arrived, taps, faults>>
  BY DEF ClosePost, server
<1>2. /\ outbox \in Queues(Users, Write) /\ outbox[u] \in Seq(Write)
      /\ handlers \in Queues(Users, Write) /\ handlers[u] \in Seq(Write)
  BY DEF LikesInv, TypeInv, Queues
<1>3. /\ outbox' = [outbox EXCEPT ![u] = o]
      /\ handlers' = [handlers EXCEPT ![u] = g]
  BY DEF ClosePost
<1>4. /\ o = [i \in DOMAIN outbox[u] |-> o[i]]
      /\ g = [i \in DOMAIN handlers[u] |-> g[i]]
  OBVIOUS
<1>5. /\ \A i \in DOMAIN outbox[u] : outbox[u][i] \in Write /\ o[i] = Gone(outbox[u][i])
      /\ \A i \in DOMAIN handlers[u] : handlers[u][i] \in Write /\ g[i] = Gone(handlers[u][i])
  BY <1>2, SeqFacts
<1> HIDE DEF o, g
<1>6. /\ \A i \in DOMAIN outbox[u] : o[i] \in Write
      /\ \A i \in DOMAIN handlers[u] : g[i] \in Write
  BY <1>5, GoneEffect
<1>7. Rewritten(outbox, outbox', u, o, Write) /\ Rewritten(handlers, handlers', u, g, Write)
  BY <1>2, <1>3, <1>4, <1>6 DEF Rewritten, ChangedAt, Queues
<1>8. /\ outbox' \in Queues(Users, Write)
      /\ outbox'[u] = o /\ DOMAIN o = DOMAIN outbox[u]
      /\ \A v \in Users : v # u => outbox'[v] = outbox[v]
  BY <1>2, <1>7, QueueReplaced
<1>9. /\ handlers' \in Queues(Users, Write)
      /\ handlers'[u] = g /\ DOMAIN g = DOMAIN handlers[u]
      /\ \A v \in Users : v # u => handlers'[v] = handlers[v]
  BY <1>2, <1>7, QueueReplaced
<1>10. /\ \A y \in ToSet(outbox'[u]) :
            \E x \in ToSet(outbox[u]) : x \in Write /\ y = Gone(x)
       /\ \A x \in ToSet(outbox[u]) : x \in Write /\ Gone(x) \in ToSet(outbox'[u])
  BY <1>5, <1>8 DEF ToSet
<1>11. /\ \A y \in ToSet(handlers'[u]) :
            \E x \in ToSet(handlers[u]) : x \in Write /\ y = Gone(x)
       /\ \A x \in ToSet(handlers[u]) : x \in Write /\ Gone(x) \in ToSet(handlers'[u])
  BY <1>5, <1>9 DEF ToSet
<1>12. /\ cells' \in [Users -> [AllCells -> Shown \cup {Absent}]]
       /\ \A v \in Users, c \in AllCells :
            cells'[v][c] = IF v = u /\ c = "single" THEN Absent ELSE cells[v][c]
  <2>1. cells' = [cells EXCEPT ![u] = [cells[u] EXCEPT !["single"] = Absent]]
    BY DEF ClosePost
  <2> QED
    BY <2>1 DEF LikesInv, TypeInv, AllCells
<1>13. TypeInv' /\ ArrivedShown'
  BY <1>1, <1>8, <1>9, <1>12 DEF LikesInv, TypeInv, ArrivedShown
<1>14. CopiesInRange'
  <2>1. \A v \in Users : /\ \A x \in ToSet(outbox'[v]) : InRange(x.val)
                         /\ \A x \in ToSet(handlers'[v]) : InRange(x.val)
    <3>1. \A x \in ToSet(outbox[u]) \cup ToSet(handlers[u]) : InRange(x.val)
      BY DEF LikesInv, CopiesInRange
    <3>2. /\ \A y \in ToSet(outbox'[u]) : InRange(y.val)
          /\ \A y \in ToSet(handlers'[u]) : InRange(y.val)
      BY <1>10, <1>11, <3>1, GoneEffect DEF SameButCell
    <3> QED
      BY <1>8, <1>9, <3>2 DEF LikesInv, CopiesInRange
  <2>2. \A v \in Users, c \in AllCells :
          cells'[v][c].shown => InRange(cells'[v][c].likes)
    BY <1>12 DEF LikesInv, CopiesInRange, Absent
  <2> QED
    BY <1>1, <2>1, <2>2 DEF LikesInv, CopiesInRange, InRange
<1>15. LegsComplete'
  <2>1. \A v \in Users : \A x \in ToSet(handlers'[v]) : x.cell # "nobody"
    BY <1>9, <1>11, GoneEffect DEF LikesInv, LegsComplete
  <2>2. ASSUME faults = 0
        PROVE  \A v \in Users : \A x \in ToSet(outbox'[v]) : IsLeg(x) => x.cell # "nobody"
    BY <1>8, <1>10, <2>2, GoneEffect DEF LikesInv, LegsComplete, SameButCell, IsLeg
  <2> QED
    BY <1>1, <2>1, <2>2 DEF LegsComplete
<1>16. LikesUnderway'
  <2> SUFFICES ASSUME NEW v \in Users, NEW p \in Posts, Underway(v, p)
               PROVE  Underway(v, p)'
    BY <1>1 DEF LikesInv, LikesUnderway
  <2>1. CASE v # u
    BY <1>8, <1>9, <2>1 DEF Underway
  <2>2. CASE v = u
    BY <1>10, <1>11, <2>2, GoneEffect DEF Underway, IsLeg, SameButCell
  <2> QED
    BY <2>1, <2>2
<1>17. OwnersSilent'
  <2>1. \A y \in ToSet(outbox'[u]) : \E x \in ToSet(outbox[u]) :
          y.doc = x.doc /\ y.post = x.post
    BY <1>10, GoneEffect DEF SameButCell
  <2> QED
    BY <1>1, <1>8, <2>1 DEF LikesInv, OwnersSilent
<1> QED
  BY <1>13, <1>14, <1>15, <1>16, <1>17 DEF LikesInv

(* A killed process loses handlers and is a fault; numbers stay in range. *)
LEMMA KillStep ==
  ASSUME LikesInv, NEW u \in Users, Kill(u)
  PROVE  LikesInv'
<1> DEFINE o == [i \in DOMAIN outbox[u] |-> Orphan(outbox[u][i])]
<1>1. /\ UNCHANGED <<likes, postLikes, notified, taps>>
      /\ faults' = faults + 1
      /\ outbox' = [outbox EXCEPT ![u] = o]
      /\ handlers' = [handlers EXCEPT ![u] = <<>>]
      /\ rows' = [rows EXCEPT ![u] = [p \in Posts |-> Absent]]
      /\ cells' = [cells EXCEPT ![u] = [c \in AllCells |-> Absent]]
      /\ arrived' = [arrived EXCEPT ![u] = {}]
  BY DEF Kill, Fault, server
<1>2. outbox \in Queues(Users, Write) /\ outbox[u] \in Seq(Write)
  BY DEF LikesInv, TypeInv, Queues
<1>3. o = [i \in DOMAIN outbox[u] |-> o[i]]
  OBVIOUS
<1>4. \A i \in DOMAIN outbox[u] : outbox[u][i] \in Write /\ o[i] = Orphan(outbox[u][i])
  BY <1>2, SeqFacts
<1> HIDE DEF o
<1>5. \A i \in DOMAIN outbox[u] : o[i] \in Write
  BY <1>4, OrphanEffect
<1>6. Rewritten(outbox, outbox', u, o, Write)
  BY <1>1, <1>2, <1>3, <1>5 DEF Rewritten, ChangedAt, Queues
<1>7. /\ outbox' \in Queues(Users, Write)
      /\ outbox'[u] = o /\ DOMAIN o = DOMAIN outbox[u]
      /\ \A v \in Users : v # u => outbox'[v] = outbox[v]
  BY <1>2, <1>6, QueueReplaced
<1>8. \A y \in ToSet(outbox'[u]) :
        \E x \in ToSet(outbox[u]) : x \in Write /\ y = Orphan(x)
  BY <1>4, <1>7 DEF ToSet
<1>9. /\ handlers' \in Queues(Users, Write)
      /\ handlers'[u] = <<>>
      /\ \A v \in Users : v # u => handlers'[v] = handlers[v]
  BY <1>1 DEF LikesInv, TypeInv, Queues
<1>10. \A v \in Users : ToSet(handlers'[v]) \subseteq ToSet(handlers[v])
  BY <1>9, ToSetEmpty
<1>11. /\ rows' \in [Users -> [Posts -> Row \cup {Absent}]]
       /\ \A v \in Users, p \in Posts : rows'[v][p] = IF v = u THEN Absent ELSE rows[v][p]
  BY <1>1 DEF LikesInv, TypeInv
<1>12. /\ cells' \in [Users -> [AllCells -> Shown \cup {Absent}]]
       /\ \A v \in Users, c \in AllCells : cells'[v][c] = IF v = u THEN Absent
                                                                   ELSE cells[v][c]
  BY <1>1 DEF LikesInv, TypeInv
<1>13. /\ arrived' \in [Users -> SUBSET Posts]
       /\ \A v \in Users : arrived'[v] = IF v = u THEN {} ELSE arrived[v]
  BY <1>1 DEF LikesInv, TypeInv
<1>14. faults' \in Nat /\ faults' # 0
  BY <1>1 DEF LikesInv, TypeInv
<1>15. TypeInv'
  BY <1>1, <1>7, <1>9, <1>11, <1>12, <1>13, <1>14 DEF LikesInv, TypeInv
<1>16. ArrivedShown'
  BY <1>11, <1>13 DEF LikesInv, TypeInv, ArrivedShown
<1>17. CopiesInRange'
  <2>1. \A v \in Users : /\ \A x \in ToSet(outbox'[v]) : InRange(x.val)
                         /\ \A x \in ToSet(handlers'[v]) : InRange(x.val)
    BY <1>7, <1>8, <1>10, OrphanEffect DEF LikesInv, CopiesInRange, SameButCell
  <2>2. \A v \in Users :
          /\ \A p \in Posts : rows'[v][p].shown => InRange(rows'[v][p].likes)
          /\ \A c \in AllCells : cells'[v][c].shown => InRange(cells'[v][c].likes)
    <3>1. ~Absent.shown
      BY DEF Absent
    <3>2. \A v \in Users, p \in Posts : rows'[v][p].shown => InRange(rows'[v][p].likes)
      BY <1>11, <3>1 DEF LikesInv, CopiesInRange
    <3>3. \A v \in Users, c \in AllCells :
            cells'[v][c].shown => InRange(cells'[v][c].likes)
      BY <1>12, <3>1 DEF LikesInv, CopiesInRange
    <3> QED
      BY <3>2, <3>3
  <2> QED
    BY <1>1, <2>1, <2>2 DEF LikesInv, CopiesInRange, InRange
<1>18. LegsComplete' /\ LikesUnderway'
  BY <1>10, <1>14 DEF LikesInv, LegsComplete, LikesUnderway
<1>19. OwnersSilent'
  <2>1. \A y \in ToSet(outbox'[u]) : \E x \in ToSet(outbox[u]) :
          y.doc = x.doc /\ y.post = x.post
    BY <1>8, OrphanEffect DEF SameButCell
  <2> QED
    BY <1>1, <1>7, <2>1 DEF LikesInv, OwnersSilent
<1> QED
  BY <1>15, <1>16, <1>17, <1>18, <1>19 DEF LikesInv

(* A tap changes the flag of its cell and adds two writes or none. *)
LEMMA TapStep ==
  ASSUME LikesInv, NEW u \in Users, NEW c \in AllCells,
         LikePost(u, c) \/ UnlikePost(u, c)
  PROVE  LikesInv'
<1> DEFINE vm == cells[u][c]
<1>1. /\ UNCHANGED <<likes, postLikes, notified, handlers, rows, arrived, faults>>
      /\ vm.shown
      /\ cells' = [cells EXCEPT ![u][c].didLike = ~@]
      /\ taps' = taps + 1
  BY DEF LikePost, UnlikePost, Toggle, server
<1>2. vm \in Shown /\ InRange(vm.likes)
  <2>1. vm \in Shown \cup {Absent}
    BY DEF LikesInv, TypeInv
  <2>2. vm \in Shown
    BY <1>1, <2>1 DEF Absent
  <2> QED
    BY <1>1, <2>2 DEF LikesInv, CopiesInRange
<1>3. \/ outbox' = outbox
      \/ \E op \in Ops, val \in Int :
           /\ 0 <= val /\ val <= taps + 1
           /\ outbox' = [outbox EXCEPT ![u] = @ \o Writes(op, vm, val, c)]
  <2>1. vm.likes \in Int /\ taps \in Nat /\ 0 <= vm.likes /\ vm.likes <= taps
    BY <1>2 DEF Shown, InRange, LikesInv, TypeInv
  <2>2. CASE LikePost(u, c)
    <3>1. outbox' = [outbox EXCEPT ![u] = @ \o Writes("set", vm, vm.likes + 1, c)]
      BY <2>2 DEF LikePost
    <3>2. vm.likes + 1 \in Int /\ 0 <= vm.likes + 1 /\ vm.likes + 1 <= taps + 1
      BY <2>1
    <3> QED
      BY <3>1, <3>2 DEF Ops
  <2>3. CASE UnlikePost(u, c)
    <3>1. \/ vm.likes > 0 /\ outbox' = [outbox EXCEPT ![u] =
                                          @ \o Writes("delete", vm, vm.likes - 1, c)]
          \/ outbox' = outbox
      BY <2>3 DEF UnlikePost
    <3>2. vm.likes > 0
            => vm.likes - 1 \in Int /\ 0 <= vm.likes - 1 /\ vm.likes - 1 <= taps + 1
      BY <2>1
    <3> QED
      BY <3>1, <3>2 DEF Ops
  <2> QED
    BY <2>2, <2>3
<1>4. vm.post \in Posts
  BY <1>2 DEF Shown
<1>5. /\ cells' \in [Users -> [AllCells -> Shown \cup {Absent}]]
      /\ \A v \in Users, d \in AllCells :
           /\ cells'[v][d].shown = cells[v][d].shown
           /\ cells'[v][d].shown => cells'[v][d].likes = cells[v][d].likes
  <2> DEFINE b == ~vm.didLike
             t == [vm EXCEPT !.didLike = b]
  <2>1. b \in BOOLEAN
    OBVIOUS
  <2>2. cells' = [cells EXCEPT ![u] = [cells[u] EXCEPT ![c] = t]]
    BY <1>1
  <2> HIDE DEF b
  <2>3. t \in Shown /\ t.likes = vm.likes /\ t.shown = vm.shown
    BY <1>2, <2>1 DEF Shown
  <2> HIDE DEF t
  <2>4. /\ cells' \in [Users -> [AllCells -> Shown \cup {Absent}]]
        /\ \A v \in Users, d \in AllCells :
             cells'[v][d] = IF v = u /\ d = c THEN t ELSE cells[v][d]
    BY <2>2, <2>3 DEF LikesInv, TypeInv
  <2> QED
    BY <2>3, <2>4
<1> HIDE DEF vm
<1>6. PICK new \in SUBSET Write :
        /\ outbox' \in Queues(Users, Write)
        /\ ToSet(outbox'[u]) = ToSet(outbox[u]) \cup new
        /\ \A v \in Users : v # u => outbox'[v] = outbox[v]
        /\ \A w \in new : /\ w.doc \in {"counter", "postLike"}
                          /\ 0 <= w.val /\ w.val <= taps + 1
                          /\ IsLeg(w) => w.cell # "nobody"
  <2>1. outbox \in Queues(Users, Write)
    BY DEF LikesInv, TypeInv
  <2>2. CASE outbox' = outbox
    <3>1. /\ outbox' \in Queues(Users, Write)
          /\ ToSet(outbox'[u]) = ToSet(outbox[u]) \cup {}
      BY <2>1, <2>2
    <3> WITNESS {} \in SUBSET Write
    <3> QED
      BY <2>2, <3>1
  <2>3. CASE \E op \in Ops, val \in Int :
               /\ 0 <= val /\ val <= taps + 1
               /\ outbox' = [outbox EXCEPT ![u] = @ \o Writes(op, vm, val, c)]
    <3>1. PICK op \in Ops, val \in Int :
            /\ 0 <= val /\ val <= taps + 1
            /\ outbox' = [outbox EXCEPT ![u] = @ \o Writes(op, vm, val, c)]
      BY <2>3
    <3> DEFINE t == Writes(op, vm, val, c)
               x == [doc |-> "counter", op |-> op, post |-> vm.post, val |-> val,
                     cell |-> "nobody"]
               y == [doc |-> "postLike", op |-> op, post |-> vm.post, val |-> val,
                     cell |-> c]
    <3>2. x \in Write /\ y \in Write
      BY <1>4 DEF Write
    <3>3. c # "nobody"
      BY LikesAssumption DEF AllCells
    <3>4. /\ \A w \in {x, y} : /\ w.doc \in {"counter", "postLike"}
                               /\ 0 <= w.val /\ w.val <= taps + 1
                               /\ IsLeg(w) => w.cell # "nobody"
      BY <3>1, <3>3 DEF IsLeg
    <3>5. t = <<x, y>>
      BY DEF Writes
    <3> HIDE DEF x, y
    <3>6. t \in Seq(Write) /\ ToSet(t) = {x, y}
      <4>1. <<x, y>> \in Seq(Write) /\ DOMAIN <<x, y>> = {1, 2}
        BY <3>2
      <4>2. ToSet(<<x, y>>) = {x, y}
        BY <4>1 DEF ToSet
      <4> QED
        BY <3>5, <4>1, <4>2
    <3> HIDE DEF t
    <3>7. Extended(outbox, outbox', u, t, Write)
      BY <2>1, <3>1, <3>6 DEF Extended, ChangedAt, Queues, t
    <3>8. /\ outbox' \in Queues(Users, Write)
          /\ ToSet(outbox'[u]) = ToSet(outbox[u]) \cup ToSet(t)
          /\ \A v \in Users : v # u => outbox'[v] = outbox[v]
      BY <2>1, <3>7, QueueExtended
    <3>9. {x, y} \in SUBSET Write
      BY <3>2
    <3> QED
      BY <3>4, <3>6, <3>8, <3>9
  <2> QED
    BY <1>3, <2>2, <2>3
<1>7. taps' \in Nat /\ \A n \in Int : InRange(n) => 0 <= n /\ n <= taps + 1
  BY <1>1 DEF LikesInv, TypeInv, InRange
<1>8. TypeInv' /\ ArrivedShown'
  BY <1>1, <1>5, <1>6, <1>7 DEF LikesInv, TypeInv, ArrivedShown
<1>9. CopiesInRange'
  <2>1. \A p \in Posts : 0 <= likes[p] /\ likes[p] <= taps + 1
    BY <1>7 DEF LikesInv, TypeInv, CopiesInRange
  <2>2. \A v \in Users : \A w \in ToSet(outbox[v]) \cup ToSet(handlers[v]) :
          0 <= w.val /\ w.val <= taps + 1
    <3> SUFFICES ASSUME NEW v \in Users, NEW w \in ToSet(outbox[v]) \cup ToSet(handlers[v])
                 PROVE  0 <= w.val /\ w.val <= taps + 1
      OBVIOUS
    <3>1. outbox[v] \in Seq(Write) /\ handlers[v] \in Seq(Write)
      BY DEF LikesInv, TypeInv, Queues
    <3>2. w \in Write
      BY <3>1, ToSetType
    <3>3. w.val \in Int /\ InRange(w.val)
      BY <3>2 DEF Write, LikesInv, CopiesInRange
    <3> QED
      BY <1>7, <3>3
  <2>3. \A v \in Users : \A w \in ToSet(outbox'[v]) : 0 <= w.val /\ w.val <= taps + 1
    BY <1>6, <2>2
  <2>4. \A v \in Users, p \in Posts : rows[v][p].shown
          => 0 <= rows[v][p].likes /\ rows[v][p].likes <= taps + 1
    <3> SUFFICES ASSUME NEW v \in Users, NEW p \in Posts, rows[v][p].shown
                 PROVE  0 <= rows[v][p].likes /\ rows[v][p].likes <= taps + 1
      OBVIOUS
    <3>1. rows[v][p] \in Row
      BY DEF LikesInv, TypeInv, Absent
    <3>2. rows[v][p].likes \in Int /\ InRange(rows[v][p].likes)
      BY <3>1 DEF Row, LikesInv, CopiesInRange
    <3> QED
      BY <1>7, <3>2
  <2>5. \A v \in Users, d \in AllCells : cells[v][d].shown
          => 0 <= cells[v][d].likes /\ cells[v][d].likes <= taps + 1
    <3> SUFFICES ASSUME NEW v \in Users, NEW d \in AllCells, cells[v][d].shown
                 PROVE  0 <= cells[v][d].likes /\ cells[v][d].likes <= taps + 1
      OBVIOUS
    <3>1. cells[v][d] \in Shown
      BY DEF LikesInv, TypeInv, Absent
    <3>2. cells[v][d].likes \in Int /\ InRange(cells[v][d].likes)
      BY <3>1 DEF Shown, LikesInv, CopiesInRange
    <3> QED
      BY <1>7, <3>2
  <2>6. \A v \in Users, d \in AllCells : cells'[v][d].shown
          => 0 <= cells'[v][d].likes /\ cells'[v][d].likes <= taps + 1
    BY <1>5, <2>5
  <2> QED
    BY <1>1, <2>1, <2>2, <2>3, <2>4, <2>6 DEF CopiesInRange, InRange
<1>10. LegsComplete' /\ OwnersSilent'
  BY <1>1, <1>6 DEF LikesInv, LegsComplete, OwnersSilent
<1>11. LikesUnderway'
  <2> SUFFICES ASSUME NEW v \in Users, NEW p \in Posts, Underway(v, p)
               PROVE  Underway(v, p)'
    BY <1>1 DEF LikesInv, LikesUnderway
  <2> QED
    BY <1>1, <1>6 DEF Underway
<1> QED
  BY <1>8, <1>9, <1>10, <1>11 DEF LikesInv

(* Every step of Likes keeps LikesInv. *)
LEMMA LikesInvStep == LikesInv /\ AlbumInRange /\ [Next]_vars => LikesInv'
<1> SUFFICES ASSUME LikesInv, AlbumInRange, [Next]_vars PROVE LikesInv'
  OBVIOUS
<1>1. CASE UNCHANGED vars
  <2>1. UNCHANGED <<likes, postLikes, notified, outbox, handlers, rows, cells,
                    arrived, taps, faults>>
    BY <1>1 DEF vars, server, screen
  <2>2. TypeInv' /\ ArrivedShown'
    BY <2>1 DEF LikesInv, TypeInv, ArrivedShown
  <2>3. CopiesInRange'
    BY <2>1 DEF LikesInv, CopiesInRange, InRange
  <2>4. LegsComplete' /\ OwnersSilent'
    BY <2>1 DEF LikesInv, LegsComplete, OwnersSilent
  <2>5. LikesUnderway'
    BY <2>1 DEF LikesInv, LikesUnderway, Underway
  <2> QED
    BY <2>2, <2>3, <2>4, <2>5 DEF LikesInv
<1>2. CASE Next
  <2>1. PICK u \in Users :
          \/ Load(u)
          \/ ClosePost(u)
          \/ Commit(u)
          \/ Refuse(u)
          \/ HandleFirst(u)
          \/ HandleSecond(u)
          \/ HandleArrival(u)
          \/ HandleCheck(u)
          \/ Kill(u)
          \/ \E v \in Users : FetchPosts(u, v)
          \/ \E c \in AllCells : LikePost(u, c) \/ UnlikePost(u, c)
          \/ \E p \in Posts :
               \/ Arrive(u, p)
               \/ ArriveError(u, p)
               \/ OpenPost(u, p)
               \/ CheckAnswer(u, p)
               \/ CheckError(u, p)
               \/ \E c \in Cells : Scroll(u, c, p)
    BY <1>2 DEF Next
  <2>2. CASE Load(u)
    BY <2>2, ReadStep
  <2>3. CASE ClosePost(u)
    BY <2>3, CloseStep
  <2>4. CASE Commit(u)
    BY <2>4, CommitStep
  <2>5. CASE Refuse(u)
    BY <2>5, RefuseStep
  <2>6. CASE HandleFirst(u)
    BY <2>6, FirstStep
  <2>7. CASE HandleSecond(u)
    BY <2>7, SecondStep
  <2>8. CASE HandleArrival(u)
    BY <2>8, ArrivalStep
  <2>9. CASE HandleCheck(u)
    BY <2>9, CheckStep
  <2>10. CASE Kill(u)
    BY <2>10, KillStep
  <2>11. CASE \E c \in AllCells : LikePost(u, c) \/ UnlikePost(u, c)
    BY <2>11, TapStep
  <2>12. CASE \E p \in Posts : ArriveError(u, p) \/ CheckError(u, p)
    BY <2>12, ReadStep
  <2>13. CASE \E p \in Posts : Arrive(u, p) \/ CheckAnswer(u, p)
    BY <2>13, AnswerStep
  <2>14. CASE \E p \in Posts : OpenPost(u, p)
    <3>1. "single" \in AllCells
      BY DEF AllCells
    <3> QED
      BY <2>14, <3>1, FillStep
  <2>15. CASE \E p \in Posts, c \in Cells : Scroll(u, c, p)
    <3>1. \A c \in Cells : c \in AllCells
      BY DEF AllCells
    <3> QED
      BY <2>15, <3>1, FillStep
  <2>16. CASE \E v \in Users : FetchPosts(u, v)
    BY <2>16, ReadStep
  <2> QED
    BY <2>1, <2>2, <2>3, <2>4, <2>5, <2>6, <2>7, <2>8, <2>9, <2>10, <2>11,
       <2>12, <2>13, <2>14, <2>15, <2>16
<1> QED
  BY <1>1, <1>2

(* Profiles fetch numbers that are in range, and the range only grows. *)
LEMMA AlbumStep == LikesInv /\ AlbumInRange /\ [Next]_vars => AlbumInRange'
<1> SUFFICES ASSUME LikesInv, AlbumInRange, [Next]_vars PROVE AlbumInRange'
  OBVIOUS
<1>1. taps \in Nat
  BY DEF LikesInv, TypeInv
<1>2. ASSUME taps' \in Nat, taps <= taps', NEW n \in Int, InRange(n)
      PROVE  InRange(n)'
  BY <1>1, <1>2 DEF InRange
<1>3. ASSUME album' = album, taps' = taps \/ taps' = taps + 1
      PROVE  AlbumInRange'
  BY <1>1, <1>3 DEF AlbumInRange, InRange
<1>4. CASE UNCHANGED vars
  BY <1>3, <1>4 DEF vars, screen
<1>5. ASSUME NEW u \in Users, NEW v \in Users, FetchPosts(u, v)
      PROVE  AlbumInRange'
  <2>1. /\ taps' = taps
        /\ album' = [album EXCEPT ![u] =
             [p \in Posts |-> IF Owner[p] = v THEN @[p] \cup {LocalLikes(u, p)}
                                              ELSE @[p]]]
    BY <1>5 DEF FetchPosts
  <2>2. \A p \in Posts : LocalLikes(u, p) \in Int /\ InRange(LocalLikes(u, p))
    BY LocalInRange DEF LikesInv
  <2> QED
    BY <2>1, <2>2 DEF AlbumInRange, InRange
<1>6. ASSUME NEW u \in Users, Kill(u)
      PROVE  AlbumInRange'
  <2>1. taps' = taps /\ album' = [album EXCEPT ![u] = [p \in Posts |-> {}]]
    BY <1>6 DEF Kill
  <2> QED
    BY <2>1 DEF AlbumInRange, InRange
<1>7. ASSUME NEW u \in Users,
             \/ Load(u) \/ ClosePost(u) \/ Commit(u) \/ Refuse(u) \/ HandleFirst(u)
             \/ HandleSecond(u) \/ HandleArrival(u) \/ HandleCheck(u)
      PROVE  album' = album /\ taps' = taps
  BY <1>7, Zenon DEF Load, ClosePost, Commit, Refuse, HandleFirst, HandleSecond,
     HandleArrival, HandleCheck, screen
<1>8. ASSUME NEW u \in Users, NEW c \in AllCells, LikePost(u, c) \/ UnlikePost(u, c)
      PROVE  album' = album /\ taps' = taps + 1
  BY <1>8, Zenon DEF LikePost, UnlikePost, Toggle
<1>9. ASSUME NEW u \in Users, NEW p \in Posts,
             \/ Arrive(u, p) \/ ArriveError(u, p) \/ OpenPost(u, p) \/ CheckAnswer(u, p)
             \/ CheckError(u, p) \/ \E c \in Cells : Scroll(u, c, p)
      PROVE  album' = album /\ taps' = taps
  BY <1>9, Zenon DEF Arrive, ArriveError, OpenPost, CheckAnswer, CheckError, Scroll
<1> QED
  BY <1>3, <1>4, <1>5, <1>6, <1>7, <1>8, <1>9 DEF Next

----------------------------------------------------------------------------
(* The invariant holds throughout. *)
LEMMA LikesInvAlways == Spec => []LikesInv
<1>1. Init => LikesInv
  BY InitLikes
<1>2. Init => AlbumInRange
  BY DEF Init, AlbumInRange
<1>3. LikesInv /\ AlbumInRange /\ [Next]_vars => LikesInv' /\ AlbumInRange'
  BY LikesInvStep, AlbumStep
<1> QED
  BY <1>1, <1>2, <1>3, PTL DEF Spec

(* The likes of a post are never negative and never more than the taps:     *)
(* every copy that likePost or unlikePost may compute the next number from  *)
(* is in range when it is read, whichever cell it has wandered into.        *)
THEOREM CounterCorrect == Spec => []CounterInRange
<1>1. LikesInv => CounterInRange
  BY DEF LikesInv, CopiesInRange, InRange, CounterInRange
<1> QED
  BY <1>1, LikesInvAlways, PTL

(* Without faults the owner hears of every like of somebody else that has   *)
(* come to rest, and never of their own.                                    *)
THEOREM LikersCorrect == Spec => []LikersAnnounced
<1>1. LikesInv => LikersAnnounced
  <2> SUFFICES ASSUME LikesInv, NEW u \in Users, NEW p \in Posts
               PROVE  /\ Quiet(u, p) /\ <<u, p>> \in postLikes /\ Owner[p] # u /\ faults = 0
                           => <<u, p>> \in notified
                      /\ Owner[p] = u => <<u, p>> \notin notified
    BY DEF LikersAnnounced
  <2>1. Quiet(u, p) => ~Underway(u, p)
    BY DEF Quiet, Underway, ToSet
  <2> QED
    BY <2>1 DEF LikesInv, LikesUnderway, OwnersSilent
<1> QED
  BY <1>1, LikesInvAlways, PTL

----------------------------------------------------------------------------
(* The writes of the like of p, and those that set a document. *)
FirstOf(p) == {w \in Write : w.doc = "postLike" /\ w.post = p}
Sets == {w \in Write : w.op = "set"}

(* What the pipeline q will have made of a document that is there or not. *)
Wanted(q, p, is) == IF Has(q, FirstOf(p)) THEN LastIn(q, FirstOf(p), Sets) ELSE is

(* The places of the writes of the like of p. *)
Places(q, p, S) == S = {i \in DOMAIN q : q[i].doc = "postLike" /\ q[i].post = p}

(* The last of the pending writes tells what is wanted. *)
LEMMA LastPending ==
  ASSUME NEW q \in Seq(Write), NEW p, NEW S, Places(q, p, S)
  PROVE  /\ Has(q, FirstOf(p)) <=> S # {}
         /\ S # {} => (LastIn(q, FirstOf(p), Sets) <=> q[Max(S)].op = "set")
<1>1. /\ \A i \in DOMAIN q : q[i] \in Write
      /\ Len(q) \in Nat /\ DOMAIN q = 1 .. Len(q)
  BY SeqFacts
<1>2. \A i \in DOMAIN q : q[i] \in FirstOf(p) <=> i \in S
  BY <1>1 DEF FirstOf, Places
<1>3. S \subseteq DOMAIN q
  BY DEF Places
<1>4. Has(q, FirstOf(p)) <=> S # {}
  BY <1>2, <1>3 DEF Has
<1>5. ASSUME S # {}
      PROVE  LastIn(q, FirstOf(p), Sets) <=> q[Max(S)].op = "set"
  <2>1. PICK m : m = Max(S)
    OBVIOUS
  <2>2. m \in S /\ \A i \in S : i <= m
    BY <1>3, <1>5, <2>1, LastPosition
  <2>3. m \in DOMAIN q /\ q[m] \in FirstOf(p)
    BY <1>2, <1>3, <2>2
  <2>4. \A j \in DOMAIN q : j > m => q[j] \notin FirstOf(p)
    BY <1>1, <1>2, <1>3, <2>2
  <2>5. \A i \in DOMAIN q :
          q[i] \in FirstOf(p) /\ (\A j \in DOMAIN q : j > i => q[j] \notin FirstOf(p)) => i = m
    <3>1. SUFFICES ASSUME NEW i \in DOMAIN q, q[i] \in FirstOf(p), i # m,
                          \A j \in DOMAIN q : j > i => q[j] \notin FirstOf(p)
                   PROVE  FALSE
      OBVIOUS
    <3>2. i <= m /\ i \in Nat /\ m \in Nat
      BY <1>1, <1>2, <2>2, <2>3, <3>1
    <3>3. m > i
      BY <3>1, <3>2
    <3> QED
      BY <2>3, <3>1, <3>3
  <2>6. LastIn(q, FirstOf(p), Sets) <=> q[m] \in Sets
    BY <2>3, <2>4, <2>5 DEF LastIn
  <2>7. q[m] \in Sets <=> q[m].op = "set"
    BY <1>1, <2>3 DEF Sets
  <2> QED
    BY <2>1, <2>6, <2>7
<1> QED
  BY <1>4, <1>5

(* A heart is right when it shows what is wanted. *)
LEMMA HeartIs ==
  ASSUME NEW u \in Users, NEW c, NEW p, p = cells[u][c].post, outbox[u] \in Seq(Write)
  PROVE  HeartRight(u, c) <=>
           (cells[u][c].didLike <=> Wanted(outbox[u], p, <<u, p>> \in postLikes))
<1>1. PICK S : S = Pending(u, "postLike", p)
  OBVIOUS
<1>2. Places(outbox[u], p, S)
  BY <1>1 DEF Pending, Places
<1>3. /\ Has(outbox[u], FirstOf(p)) <=> S # {}
      /\ S # {} => (LastIn(outbox[u], FirstOf(p), Sets) <=> outbox[u][Max(S)].op = "set")
  BY <1>2, LastPending
<1>4. HeartRight(u, c) <=>
        (cells[u][c].didLike <=> IF S = {} THEN <<u, p>> \in postLikes
                                           ELSE outbox[u][Max(S)].op = "set")
  <2>1. HeartRight(u, c) <=>
          (cells[u][c].didLike <=>
             IF Pending(u, "postLike", cells[u][c].post) = {}
               THEN <<u, cells[u][c].post>> \in postLikes
               ELSE outbox[u][Max(Pending(u, "postLike", cells[u][c].post))].op = "set")
    BY DEF HeartRight
  <2> QED
    BY <1>1, <2>1, Zenon
<1> QED
  BY <1>3, <1>4 DEF Wanted

(* The same after a step. *)
LEMMA HeartIsNext ==
  ASSUME NEW u \in Users, NEW c, NEW p, p = cells'[u][c].post, outbox'[u] \in Seq(Write)
  PROVE  HeartRight(u, c)' <=>
           (cells'[u][c].didLike <=> Wanted(outbox'[u], p, <<u, p>> \in postLikes'))
<1>1. PICK S : Places(outbox'[u], p, S)
  BY DEF Places
<1>2. /\ Has(outbox'[u], FirstOf(p)) <=> S # {}
      /\ S # {} => (LastIn(outbox'[u], FirstOf(p), Sets) <=> outbox'[u][Max(S)].op = "set")
  BY <1>1, LastPending
<1>3. HeartRight(u, c)' <=>
        (cells'[u][c].didLike <=> IF S = {} THEN <<u, p>> \in postLikes'
                                            ELSE outbox'[u][Max(S)].op = "set")
  <2>1. HeartRight(u, c)' <=>
          (cells'[u][c].didLike <=>
             IF Pending(u, "postLike", cells[u][c].post)' = {}
               THEN <<u, cells'[u][c].post>> \in postLikes'
               ELSE outbox'[u][Max(Pending(u, "postLike", cells[u][c].post)')].op = "set")
    BY DEF HeartRight
  <2>2. S = Pending(u, "postLike", cells[u][c].post)'
    BY <1>1 DEF Pending, Places
  <2> QED
    BY <2>1, <2>2, Zenon
<1> QED
  BY <1>2, <1>3 DEF Wanted

(* A right heart stays right when neither it nor what is wanted changes. *)
LEMMA HeartStays ==
  ASSUME LikesInv, LikesInv', NEW u \in Users, NEW c \in AllCells, HeartRight(u, c),
         cells'[u][c].post = cells[u][c].post,
         cells'[u][c].didLike = cells[u][c].didLike,
         NEW p, p = cells[u][c].post,
         Wanted(outbox'[u], p, <<u, p>> \in postLikes')
           <=> Wanted(outbox[u], p, <<u, p>> \in postLikes)
  PROVE  HeartRight(u, c)'
<1>1. outbox[u] \in Seq(Write)
  BY DEF LikesInv, TypeInv, Queues
<1>2. outbox'[u] \in Seq(Write)
  BY DEF LikesInv, TypeInv, Queues
<1>3. cells[u][c].didLike <=> Wanted(outbox[u], p, <<u, p>> \in postLikes)
  BY <1>1, HeartIs
<1>4. HeartRight(u, c)' <=>
        (cells'[u][c].didLike <=> Wanted(outbox'[u], p, <<u, p>> \in postLikes'))
  BY <1>2, HeartIsNext
<1> QED
  BY <1>3, <1>4

(* What is wanted when a write joins the pipeline, leaves it or changes the *)
(* cell it reports to.                                                      *)
LEMMA WantedGained ==
  ASSUME NEW q \in Seq(Write), NEW x \in Write, NEW t, Gained(q, t, x), NEW p, NEW b
  PROVE  /\ t \in Seq(Write)
         /\ x \notin FirstOf(p) => (Wanted(t, p, b) <=> Wanted(q, p, b))
         /\ x \in FirstOf(p) => (Wanted(t, p, b) <=> x.op = "set")
<1>1. /\ t \in Seq(Write)
      /\ Has(t, FirstOf(p)) <=> Has(q, FirstOf(p)) \/ x \in FirstOf(p)
      /\ x \in FirstOf(p) => (LastIn(t, FirstOf(p), Sets) <=> x \in Sets)
      /\ x \notin FirstOf(p) => (LastIn(t, FirstOf(p), Sets) <=> LastIn(q, FirstOf(p), Sets))
  BY GainedFacts
<1>2. x \in Sets <=> x.op = "set"
  BY DEF Sets
<1> QED
  BY <1>1, <1>2 DEF Wanted

(* The front of the pipeline decides what is there if nothing follows it. *)
LEMMA WantedLost ==
  ASSUME NEW q \in Seq(Write), NEW t, NEW x, Lost(q, t, x), NEW p, NEW like,
         NEW docs, NEW left,
         x \in FirstOf(p) => (like \in left <=> x.op = "set"),
         x \notin FirstOf(p) => (like \in left <=> like \in docs)
  PROVE  Wanted(t, p, like \in left) <=> Wanted(q, p, like \in docs)
<1>1. /\ x \in Write
      /\ Has(q, FirstOf(p)) <=> Has(t, FirstOf(p)) \/ x \in FirstOf(p)
      /\ LastIn(q, FirstOf(p), Sets) => LastIn(t, FirstOf(p), Sets)
      /\ LastIn(q, FirstOf(p), Sets) /\ x \in FirstOf(p) /\ ~Has(t, FirstOf(p)) => x \in Sets
      /\ x \notin FirstOf(p) => (LastIn(t, FirstOf(p), Sets) <=> LastIn(q, FirstOf(p), Sets))
      /\ Has(t, FirstOf(p)) /\ LastIn(t, FirstOf(p), Sets) => LastIn(q, FirstOf(p), Sets)
      /\ ~Has(t, FirstOf(p)) /\ x \in Sets => LastIn(q, FirstOf(p), Sets)
  BY LostFacts
<1>2. x \in Sets <=> x.op = "set"
  BY <1>1 DEF Sets
<1>3. CASE x \in FirstOf(p)
  BY <1>1, <1>2, <1>3 DEF Wanted
<1>4. CASE x \notin FirstOf(p)
  BY <1>1, <1>4 DEF Wanted
<1> QED
  BY <1>3, <1>4

(* The pipeline t is q after a tap. *)
Tapped(q, t, op, vm, n, c) == t = q \o Writes(op, vm, n, c)

(* A tap that is not dropped is wanted, and nothing else changes. *)
LEMMA WantedTapped ==
  ASSUME NEW q \in Seq(Write), NEW op \in Ops, NEW vm \in Shown, NEW n \in Int,
         NEW c \in AllCells, NEW t, Tapped(q, t, op, vm, n, c), NEW p, NEW like, NEW docs
  PROVE  /\ p = vm.post => (Wanted(t, p, like \in docs) <=> op = "set")
         /\ p # vm.post => (Wanted(t, p, like \in docs) <=> Wanted(q, p, like \in docs))
<1> DEFINE x == [doc |-> "counter", op |-> op, post |-> vm.post, val |-> n,
                 cell |-> "nobody"]
           y == [doc |-> "postLike", op |-> op, post |-> vm.post, val |-> n, cell |-> c]
           r == Append(q, x)
<1>1. vm.post \in Posts
  BY DEF Shown
<1>2. x \in Write /\ x.doc = "counter"
  BY <1>1 DEF Write
<1>3. y \in Write /\ y.doc = "postLike" /\ y.post = vm.post /\ y.op = op
  BY <1>1 DEF Write
<1>4. t = q \o <<x, y>>
  BY DEF Tapped, Writes
<1> HIDE DEF x, y
<1>5. t = Append(Append(q, x), y)
  BY <1>2, <1>3, <1>4
<1>6. Gained(q, r, x) /\ Gained(r, t, y)
  BY <1>5 DEF Gained
<1> HIDE DEF r
<1>7. x \notin FirstOf(p) /\ (y \in FirstOf(p) <=> p = vm.post)
  BY <1>2, <1>3 DEF FirstOf
<1>8. r \in Seq(Write) /\ (Wanted(r, p, like \in docs) <=> Wanted(q, p, like \in docs))
  BY <1>2, <1>6, <1>7, WantedGained
<1>9. /\ y \notin FirstOf(p) => (Wanted(t, p, like \in docs) <=> Wanted(r, p, like \in docs))
      /\ y \in FirstOf(p) => (Wanted(t, p, like \in docs) <=> y.op = "set")
  BY <1>3, <1>6, <1>8, WantedGained
<1> QED
  BY <1>3, <1>7, <1>8, <1>9

(* Which cell a write reports to does not matter. *)
LEMMA WantedReporting ==
  ASSUME NEW q \in Seq(Write), NEW t \in Seq(Write), DOMAIN t = DOMAIN q,
         \A i \in DOMAIN q : SameButCell(q[i], t[i]), NEW p, NEW b
  PROVE  Wanted(t, p, b) <=> Wanted(q, p, b)
<1>1. \A i \in DOMAIN q : q[i] \in Write /\ t[i] \in Write
  BY SeqFacts
<1>2. \A i \in DOMAIN q : /\ t[i] \in FirstOf(p) <=> q[i] \in FirstOf(p)
                          /\ t[i] \in Sets <=> q[i] \in Sets
  BY <1>1 DEF FirstOf, Sets, SameButCell
<1>3. /\ Has(t, FirstOf(p)) <=> Has(q, FirstOf(p))
      /\ LastIn(t, FirstOf(p), Sets) <=> LastIn(q, FirstOf(p), Sets)
  BY <1>2, SameKinds
<1> QED
  BY <1>3 DEF Wanted

(* The three ways in which HeartKept lets a right heart go wrong, and faults. *)
Excused(u, c) ==
  \/ faults' > faults
  \/ taps' > taps /\ outbox' = outbox /\ cells[u][c].likes <= 0
  \/ /\ taps' > taps
     /\ \E d \in AllCells \ {c} : /\ cells'[u][d] # cells[u][d]
                                  /\ cells'[u][d].post = cells'[u][c].post
  \/ /\ c \in Cells
     /\ cells'[u][c] = ShowRow(cells'[u][c].post, rows'[u][cells'[u][c].post])

(* A heart before and after a step, right before it. *)
Seen(u, c) == /\ LikesInv /\ LikesInv'
              /\ u \in Users /\ c \in AllCells
              /\ cells[u][c].shown /\ HeartRight(u, c) /\ cells'[u][c].shown

(* A cell that is shown has a post. *)
LEMMA SeenCell ==
  ASSUME NEW u, NEW c, Seen(u, c)
  PROVE  cells[u][c] \in Shown /\ cells[u][c].post \in Posts
<1>1. cells[u][c] \in Shown \cup {Absent} /\ cells[u][c].shown
  BY DEF Seen, LikesInv, TypeInv
<1>2. cells[u][c] \in Shown
  BY <1>1 DEF Absent
<1> QED
  BY <1>2 DEF Shown

(* The heart and the queue it is compared with are untouched. *)
LEMMA HeartUntouched ==
  ASSUME NEW u, NEW c, Seen(u, c), cells'[u][c] = cells[u][c],
         outbox'[u] = outbox[u], postLikes' = postLikes
  PROVE  HeartRight(u, c)'
<1>1. PICK p : p = cells[u][c].post
  OBVIOUS
<1>2. /\ LikesInv /\ u \in Users /\ c \in AllCells /\ HeartRight(u, c)
      /\ LikesInv'
  BY DEF Seen
<1>3. Wanted(outbox'[u], p, <<u, p>> \in postLikes')
        <=> Wanted(outbox[u], p, <<u, p>> \in postLikes)
  OBVIOUS
<1> QED
  BY <1>1, <1>2, <1>3, HeartStays

(* Faults, reads and answers that are only queued. *)
LEMMA HeartQuiet ==
  ASSUME NEW u \in Users, NEW v, NEW c, Seen(v, c),
         \/ Load(u) \/ Refuse(u) \/ Kill(u) \/ \E w \in Users : FetchPosts(u, w)
         \/ \E p \in Posts : \/ Arrive(u, p) \/ ArriveError(u, p)
                             \/ CheckAnswer(u, p) \/ CheckError(u, p)
  PROVE  HeartRight(v, c)' \/ Excused(v, c)
<1>0. faults \in Nat
  BY DEF Seen, LikesInv, TypeInv
<1>1. CASE Refuse(u) \/ Kill(u) \/ \E p \in Posts : ArriveError(u, p) \/ CheckError(u, p)
  <2>1. faults' = faults + 1
    BY <1>1, Zenon DEF Refuse, Kill, ArriveError, CheckError, Fault
  <2> QED
    BY <1>0, <2>1 DEF Excused
<1>2. CASE \/ Load(u) \/ \E w \in Users : FetchPosts(u, w)
           \/ \E p \in Posts : Arrive(u, p) \/ CheckAnswer(u, p)
  <2>1. cells' = cells /\ outbox' = outbox /\ postLikes' = postLikes
    BY <1>2, Zenon DEF Load, FetchPosts, Arrive, CheckAnswer, server
  <2> QED
    BY <2>1, HeartUntouched
<1> QED
  BY <1>1, <1>2

(* The single-post screen goes away; other cells report as before. *)
LEMMA HeartClose ==
  ASSUME NEW u \in Users, NEW v, NEW c, Seen(v, c), ClosePost(u)
  PROVE  HeartRight(v, c)'
<1>1. /\ LikesInv /\ v \in Users /\ c \in AllCells /\ HeartRight(v, c)
      /\ LikesInv' /\ cells'[v][c].shown
  BY DEF Seen
<1>2. postLikes' = postLikes /\ outbox \in Queues(Users, Write)
  BY <1>1 DEF ClosePost, server, LikesInv, TypeInv
<1>3. cells'[v][c] = cells[v][c]
  <2>1. cells'[v][c] = IF v = u /\ c = "single" THEN Absent ELSE cells[v][c]
    <3>1. cells' = [cells EXCEPT ![u]["single"] = Absent]
      BY Zenon DEF ClosePost
    <3>2. cells \in [Users -> [AllCells -> Shown \cup {Absent}]]
      BY <1>1 DEF LikesInv, TypeInv
    <3> QED
      BY <1>1, <3>1, <3>2 DEF AllCells
  <2> QED
    BY <1>1, <2>1 DEF Absent
<1>4. CASE v # u
  <2>1. outbox'[v] = outbox[v]
    BY <1>1, <1>2, <1>4 DEF ClosePost, Queues
  <2> QED
    BY <1>2, <1>3, <2>1, HeartUntouched
<1>5. CASE v = u
  <2> DEFINE o == [i \in DOMAIN outbox[u] |-> Gone(outbox[u][i])]
  <2>1. outbox'[u] = o
    <3>1. outbox' = [outbox EXCEPT ![u] = o]
      BY Zenon DEF ClosePost
    <3> HIDE DEF o
    <3> QED
      BY <1>2, <3>1 DEF Queues
  <2>2. outbox[u] \in Seq(Write) /\ outbox'[u] \in Seq(Write)
    <3>1. outbox[u] \in Seq(Write)
      BY <1>2 DEF Queues
    <3>2. outbox' \in Queues(Users, Write)
      BY <1>1 DEF LikesInv, TypeInv
    <3> QED
      BY <3>1, <3>2 DEF Queues
  <2>3. DOMAIN o = DOMAIN outbox[u] /\ \A i \in DOMAIN outbox[u] : o[i] = Gone(outbox[u][i])
    OBVIOUS
  <2> HIDE DEF o
  <2>4. \A i \in DOMAIN outbox[u] : SameButCell(outbox[u][i], outbox'[u][i])
    <3>1. \A i \in DOMAIN outbox[u] : outbox[u][i] \in Write
      BY <2>2
    <3> QED
      BY <2>1, <2>3, <3>1, GoneEffect
  <2>5. PICK p : p = cells[u][c].post
    OBVIOUS
  <2>6. Wanted(outbox'[u], p, <<u, p>> \in postLikes)
          <=> Wanted(outbox[u], p, <<u, p>> \in postLikes)
    BY <2>1, <2>2, <2>3, <2>4, WantedReporting
  <2> QED
    BY <1>1, <1>2, <1>3, <1>5, <2>5, <2>6, HeartStays
<1> QED
  BY <1>4, <1>5

(* A commit stores what its write, or a later one, has asked for. *)
LEMMA HeartCommit ==
  ASSUME NEW u \in Users, NEW v, NEW c, Seen(v, c), Commit(u)
  PROVE  HeartRight(v, c)'
<1>1. /\ LikesInv /\ v \in Users /\ c \in AllCells /\ HeartRight(v, c)
      /\ LikesInv' /\ cells' = cells
  BY DEF Seen, Commit, screen
<1>2. PICK p : p = cells[v][c].post
  OBVIOUS
<1>3. p \in Posts
  BY <1>2, SeenCell
<1>4. PICK w : w = Head(outbox[u])
  OBVIOUS
<1>5. outbox \in Queues(Users, Write)
  BY <1>1 DEF LikesInv, TypeInv
<1>6. Popped(outbox, outbox', u)
  BY <1>5 DEF Commit, Depart, Popped, ChangedAt, Queues
<1>7. /\ outbox[u] \in Seq(Write) /\ Lost(outbox[u], outbox'[u], w)
      /\ v # u => outbox'[v] = outbox[v]
  BY <1>1, <1>4, <1>5, <1>6, OnePopped
<1>8. w \in Write /\ w.op \in Ops
  <2>1. w \in Write
    BY <1>7, LostFacts
  <2> QED
    BY <2>1 DEF Write
<1>9. postLikes' = IF w.doc = "postLike" THEN Apply(postLikes, w.op, <<u, w.post>>)
                                         ELSE postLikes
  BY <1>4, Zenon DEF Commit
<1>10. w \in FirstOf(p) <=> w.doc = "postLike" /\ w.post = p
  BY <1>8 DEF FirstOf
<1>11. CASE v = u
  <2>1. w \in FirstOf(p) => (<<u, p>> \in postLikes' <=> w.op = "set")
    BY <1>9, <1>10 DEF Apply
  <2>2. w \notin FirstOf(p) => (<<u, p>> \in postLikes' <=> <<u, p>> \in postLikes)
    BY <1>9, <1>10 DEF Apply
  <2>3. Wanted(outbox'[u], p, <<u, p>> \in postLikes')
          <=> Wanted(outbox[u], p, <<u, p>> \in postLikes)
    <3>1. PICK like : like = <<u, p>>
      OBVIOUS
    <3>2. Wanted(outbox'[u], p, like \in postLikes') <=> Wanted(outbox[u], p, like \in postLikes)
      BY <1>7, <2>1, <2>2, <3>1, WantedLost
    <3> QED
      BY <3>1, <3>2
  <2> QED
    BY <1>1, <1>2, <1>11, <2>3, HeartStays
<1>12. CASE v # u
  <2>1. <<v, p>> \in postLikes' <=> <<v, p>> \in postLikes
    BY <1>9, <1>12 DEF Apply
  <2>2. Wanted(outbox'[v], p, <<v, p>> \in postLikes')
          <=> Wanted(outbox[v], p, <<v, p>> \in postLikes)
    BY <1>7, <1>12, <2>1 DEF Wanted
  <2> QED
    BY <1>1, <1>2, <2>2, HeartStays
<1> QED
  BY <1>11, <1>12

(* Completions of likes write the second leg, the notification and the      *)
(* number of likes, none of which is a heart.                               *)
LEMMA HeartCompletion ==
  ASSUME NEW u \in Users, NEW v, NEW c, Seen(v, c), HandleFirst(u) \/ HandleSecond(u)
  PROVE  HeartRight(v, c)'
<1>1. /\ LikesInv /\ v \in Users /\ c \in AllCells /\ HeartRight(v, c)
      /\ LikesInv'
  BY DEF Seen
<1>2. /\ outbox \in Queues(Users, Write) /\ handlers \in Queues(Users, Write)
      /\ cells \in [Users -> [AllCells -> Shown \cup {Absent}]]
  BY <1>1 DEF LikesInv, TypeInv
<1>3. PICK h : h = Head(handlers[u])
  OBVIOUS
<1>4. h \in Write /\ h.post \in Posts
  <2>1. handlers[u] \in Seq(Write) /\ handlers[u] # <<>>
    BY <1>2 DEF Queues, HandleFirst, HandleSecond
  <2>2. h \in Write
    BY <1>3, <2>1, ToSetTail
  <2> QED
    BY <2>2 DEF Write
<1>5. postLikes' = postLikes
  BY Zenon DEF HandleFirst, HandleSecond, server
<1>6. cells'[v][c].post = cells[v][c].post /\ cells'[v][c].didLike = cells[v][c].didLike
  <2>1. CASE cells' = cells
    BY <2>1
  <2>2. CASE /\ h.cell \in AllCells /\ cells[u][h.cell].shown
             /\ cells' = [cells EXCEPT ![u][h.cell].likes = h.val]
    <3>1. PICK d \in AllCells : d = h.cell
      BY <2>2
    <3>2. PICK x : x = [cells[u][d] EXCEPT !.likes = h.val]
      OBVIOUS
    <3>3. cells[u][d] \in Shown
      <4>1. cells[u][d] \in Shown \cup {Absent}
        BY <1>2
      <4> QED
        BY <2>2, <3>1, <4>1 DEF Absent
    <3>4. x.post = cells[u][d].post /\ x.didLike = cells[u][d].didLike
      BY <3>2, <3>3 DEF Shown
    <3>5. cells' = [cells EXCEPT ![u] = [cells[u] EXCEPT ![d] = x]]
      BY <2>2, <3>1, <3>2
    <3>6. cells'[v][c] = IF v = u /\ c = d THEN x ELSE cells[v][c]
      BY <1>1, <1>2, <3>5
    <3> QED
      BY <3>4, <3>6
  <2> QED
    BY <1>3, <2>1, <2>2, Zenon DEF HandleFirst, HandleSecond, screen
<1>7. PICK p : p = cells[v][c].post
  OBVIOUS
<1>8. \/ outbox' = outbox
      \/ \E x \in Write : x.doc # "postLike" /\ Pushed(outbox, outbox', u, x)
  <2>1. CASE HandleFirst(u)
    <3>1. PICK x : x = [h EXCEPT !.doc = "userLike"]
      OBVIOUS
    <3>2. x \in Write /\ x.doc = "userLike"
      BY <1>4, <3>1 DEF Write
    <3>3. outbox' = [outbox EXCEPT ![u] = Append(@, x)]
      BY <1>3, <2>1, <3>1, Zenon DEF HandleFirst
    <3>4. Pushed(outbox, outbox', u, x)
      BY <1>2, <3>3 DEF Pushed, ChangedAt, Queues
    <3> QED
      BY <3>2, <3>4
  <2>2. CASE HandleSecond(u)
    <3>1. CASE outbox' # outbox
      <4>1. PICK x : x = [doc |-> "notification", op |-> "set", post |-> h.post,
                          val |-> 0, cell |-> "nobody"]
        OBVIOUS
      <4>2. x \in Write /\ x.doc = "notification"
        BY <1>4, <4>1 DEF Write, Ops
      <4>3. AddNotification(u, h.post)
        BY <1>3, <2>2, <3>1 DEF HandleSecond
      <4>4. outbox' = [outbox EXCEPT ![u] = Append(@, x)]
        BY <3>1, <4>1, <4>3 DEF AddNotification
      <4>5. Pushed(outbox, outbox', u, x)
        BY <1>2, <4>4 DEF Pushed, ChangedAt, Queues
      <4> QED
        BY <4>2, <4>5
    <3> QED
      BY <3>1
  <2> QED
    BY <2>1, <2>2
<1>9. Wanted(outbox'[v], p, <<v, p>> \in postLikes)
        <=> Wanted(outbox[v], p, <<v, p>> \in postLikes)
  <2>1. CASE outbox'[v] = outbox[v]
    BY <2>1
  <2>2. CASE outbox'[v] # outbox[v]
    <3>1. PICK x \in Write : x.doc # "postLike" /\ Pushed(outbox, outbox', u, x)
      BY <1>8, <2>2
    <3>2. outbox[u] \in Seq(Write) /\ Gained(outbox[u], outbox'[u], x) /\ v = u
      BY <1>1, <1>2, <2>2, <3>1, OnePushed
    <3>3. x \notin FirstOf(p)
      BY <3>1 DEF FirstOf
    <3> QED
      BY <3>2, <3>3, WantedGained
  <2> QED
    BY <2>1, <2>2
<1> QED
  BY <1>1, <1>5, <1>6, <1>7, <1>9, HeartStays

(* reloadData leaves a heart, or fills its cell from its row. *)
LEMMA HeartReload ==
  ASSUME NEW u \in Users, NEW v, NEW c, Seen(v, c), NEW newRows, Reload(u, newRows),
         rows'[u] = newRows, outbox' = outbox, postLikes' = postLikes
  PROVE  HeartRight(v, c)' \/ Excused(v, c)
<1>1. /\ LikesInv /\ v \in Users /\ c \in AllCells /\ cells'[v][c].shown
      /\ cells \in [Users -> [AllCells -> Shown \cup {Absent}]]
  BY DEF Seen, LikesInv, TypeInv
<1>2. CASE cells'[v][c] = cells[v][c]
  BY <1>2, HeartUntouched
<1>3. CASE cells'[v][c] # cells[v][c]
  <2> DEFINE new(d) == IF d = "single" \/ ~cells[u][d].shown THEN cells[u][d]
                       ELSE IF newRows[cells[u][d].post].shown
                              THEN ShowRow(cells[u][d].post, newRows[cells[u][d].post])
                              ELSE Absent
  <2>1. cells' = [cells EXCEPT ![u] = [d \in AllCells |-> new(d)]]
    BY Zenon DEF Reload
  <2> HIDE DEF new
  <2>2. v = u /\ cells'[v][c] = new(c)
    BY <1>1, <1>3, <2>1
  <2>3. c # "single" /\ c \in Cells
    BY <1>1, <1>3, <2>2 DEF new, AllCells
  <2>4. PICK p : p = cells[u][c].post
    OBVIOUS
  <2>5. cells'[u][c] = ShowRow(p, newRows[p])
    <3>1. \/ cells'[u][c] = cells[u][c]
          \/ cells'[u][c] = ShowRow(p, newRows[p])
          \/ cells'[u][c] = Absent
      BY <2>2, <2>4 DEF new
    <3> QED
      BY <1>1, <1>3, <2>2, <3>1 DEF Absent
  <2>6. cells'[u][c].post = p
    BY <2>5 DEF ShowRow
  <2> QED
    BY <2>2, <2>3, <2>5, <2>6 DEF Excused
<1> QED
  BY <1>2, <1>3

(* Answers of reads that are handled reload the screen. *)
LEMMA HeartHandled ==
  ASSUME NEW u \in Users, NEW v, NEW c, Seen(v, c), HandleArrival(u) \/ HandleCheck(u)
  PROVE  HeartRight(v, c)' \/ Excused(v, c)
<1>1. outbox' = outbox /\ postLikes' = postLikes
  BY Zenon DEF HandleArrival, HandleCheck, server
<1>2. /\ rows' \in [Users -> [Posts -> Row \cup {Absent}]]
      /\ rows \in [Users -> [Posts -> Row \cup {Absent}]]
  BY DEF Seen, LikesInv, TypeInv
<1>3. cells' = cells \/ Reload(u, rows'[u])
  <2>1. CASE HandleArrival(u)
    <3>1. PICK newRows : rows' = [rows EXCEPT ![u] = newRows] /\ Reload(u, newRows)
      BY <2>1, Zenon DEF HandleArrival
    <3>2. rows'[u] = newRows
      BY <1>2, <3>1
    <3> QED
      BY <3>1, <3>2
  <2>2. CASE HandleCheck(u)
    BY <2>2, Zenon DEF HandleCheck
  <2> QED
    BY <2>1, <2>2
<1>4. CASE cells' = cells
  BY <1>1, <1>4, HeartUntouched
<1>5. CASE Reload(u, rows'[u])
  <2>1. PICK newRows : newRows = rows'[u]
    OBVIOUS
  <2>2. Reload(u, newRows) /\ rows'[u] = newRows
    BY <1>5, <2>1
  <2> QED
    BY <1>1, <2>2, HeartReload
<1> QED
  BY <1>3, <1>4, <1>5

(* A cell is filled from its row, or a single post is shown. *)
LEMMA HeartFill ==
  ASSUME NEW u \in Users, NEW v, NEW c, Seen(v, c), NEW p \in Posts,
         OpenPost(u, p) \/ \E d \in Cells : Scroll(u, d, p)
  PROVE  HeartRight(v, c)' \/ Excused(v, c)
<1>1. /\ LikesInv /\ v \in Users /\ c \in AllCells /\ cells[v][c].shown
      /\ cells \in [Users -> [AllCells -> Shown \cup {Absent}]]
  BY DEF Seen, LikesInv, TypeInv
<1>2. outbox' = outbox /\ postLikes' = postLikes /\ rows' = rows
  BY Zenon DEF OpenPost, Scroll, server
<1>3. CASE cells'[v][c] = cells[v][c]
  BY <1>2, <1>3, HeartUntouched
<1>4. CASE cells'[v][c] # cells[v][c]
  <2>1. CASE OpenPost(u, p)
    <3>1. ~cells[u]["single"].shown
      BY <2>1, Zenon DEF OpenPost
    <3>2. PICK x : cells' = [cells EXCEPT ![u]["single"] = x]
      BY <2>1, Zenon DEF OpenPost
    <3>3. v = u /\ c = "single"
      BY <1>1, <1>4, <3>2
    <3> QED
      BY <1>1, <3>1, <3>3
  <2>2. CASE \E d \in Cells : Scroll(u, d, p)
    <3>1. PICK d \in Cells : Scroll(u, d, p)
      BY <2>2
    <3>2. PICK x : x = ShowRow(p, rows[u][p])
      OBVIOUS
    <3>3. cells' = [cells EXCEPT ![u][d] = x]
      BY <3>1, <3>2, Zenon DEF Scroll
    <3>4. v = u /\ c = d /\ cells'[v][c] = x
      BY <1>1, <1>4, <3>3
    <3>5. x.post = p
      BY <3>2 DEF ShowRow
    <3> QED
      BY <1>2, <3>1, <3>2, <3>4, <3>5 DEF Excused
  <2> QED
    BY <2>1, <2>2
<1> QED
  BY <1>3, <1>4

(* A tap on a heart makes it right or is dropped, and is the only heart of  *)
(* its post that it changes.                                                *)
LEMMA HeartTap ==
  ASSUME NEW u \in Users, NEW v, NEW c, Seen(v, c), NEW d \in AllCells,
         LikePost(u, d) \/ UnlikePost(u, d)
  PROVE  HeartRight(v, c)' \/ Excused(v, c)
<1>1. /\ LikesInv /\ v \in Users /\ c \in AllCells /\ HeartRight(v, c)
      /\ LikesInv' /\ cells[v][c].shown /\ cells'[v][c].shown
  BY DEF Seen
<1>2. /\ outbox \in Queues(Users, Write) /\ outbox' \in Queues(Users, Write)
      /\ cells \in [Users -> [AllCells -> Shown \cup {Absent}]]
      /\ taps \in Nat
  BY <1>1 DEF LikesInv, TypeInv
<1>3. /\ postLikes' = postLikes /\ cells[u][d].shown /\ taps' = taps + 1
      /\ cells' = [cells EXCEPT ![u][d].didLike = ~@]
  BY Zenon DEF LikePost, UnlikePost, Toggle, server
<1>4. PICK vm : vm = cells[u][d]
  OBVIOUS
<1>5. vm \in Shown /\ vm.post \in Posts /\ vm.likes \in Int /\ vm.didLike \in BOOLEAN
  <2>1. vm \in Shown \cup {Absent}
    BY <1>2, <1>4
  <2>2. vm \in Shown
    BY <1>3, <1>4, <2>1 DEF Absent
  <2> QED
    BY <2>2 DEF Shown
<1>6. PICK x : x = [vm EXCEPT !.didLike = ~vm.didLike]
  OBVIOUS
<1>7. x.post = vm.post /\ x.didLike = ~vm.didLike
  BY <1>5, <1>6 DEF Shown
<1>8. cells' = [cells EXCEPT ![u] = [cells[u] EXCEPT ![d] = x]]
  BY <1>3, <1>4, <1>6
<1>9. cells'[v][c] = IF v = u /\ c = d THEN x ELSE cells[v][c]
  BY <1>1, <1>2, <1>8
<1>10. \/ outbox' = outbox /\ vm.likes <= 0
       \/ \E op \in Ops, n \in Int :
            /\ vm.didLike <=> op # "set"
            /\ outbox' = [outbox EXCEPT ![u] = @ \o Writes(op, vm, n, d)]
  <2>1. CASE LikePost(u, d)
    <3>1. /\ ~vm.didLike
          /\ outbox' = [outbox EXCEPT ![u] = @ \o Writes("set", vm, vm.likes + 1, d)]
      BY <1>4, <2>1, Zenon DEF LikePost
    <3>2. vm.likes + 1 \in Int
      BY <1>5
    <3>3. \E op \in Ops, n \in Int :
            /\ vm.didLike <=> op # "set"
            /\ outbox' = [outbox EXCEPT ![u] = @ \o Writes(op, vm, n, d)]
      BY <3>1, <3>2, Zenon DEF Ops
    <3> QED
      BY <3>3
  <2>2. CASE UnlikePost(u, d)
    <3>1. /\ vm.didLike
          /\ \/ outbox' = [outbox EXCEPT ![u] = @ \o Writes("delete", vm, vm.likes - 1, d)]
             \/ outbox' = outbox /\ vm.likes <= 0
      BY <1>4, <2>2, Zenon DEF UnlikePost
    <3>2. vm.likes - 1 \in Int /\ "delete" # "set" /\ "delete" \in Ops
      BY <1>5 DEF Ops
    <3> QED
      BY <3>1, <3>2, Zenon
  <2> QED
    BY <2>1, <2>2
<1>11. CASE v # u
  <2>1. outbox'[v] = outbox[v]
    <3>1. CASE outbox' = outbox
      BY <3>1
    <3>2. CASE outbox' # outbox
      <4>1. PICK op \in Ops, n \in Int :
              outbox' = [outbox EXCEPT ![u] = @ \o Writes(op, vm, n, d)]
        BY <1>10, <3>2
      <4> QED
        BY <1>1, <1>2, <1>11, <4>1 DEF Queues
    <3> QED
      BY <3>1, <3>2
  <2> QED
    BY <1>3, <1>9, <1>11, <2>1, HeartUntouched
<1>12. CASE v = u /\ c = d
  <2>1. CASE outbox' = outbox /\ vm.likes <= 0
    <3>1. taps' > taps
      BY <1>2, <1>3
    <3> QED
      BY <1>4, <1>12, <2>1, <3>1 DEF Excused
  <2>2. CASE ~(outbox' = outbox /\ vm.likes <= 0)
    <3>1. PICK op \in Ops, n \in Int :
            /\ vm.didLike <=> op # "set"
            /\ outbox' = [outbox EXCEPT ![u] = @ \o Writes(op, vm, n, d)]
      BY <1>10, <2>2
    <3>2. outbox[u] \in Seq(Write) /\ outbox'[u] \in Seq(Write)
      BY <1>2 DEF Queues
    <3>3. Tapped(outbox[u], outbox'[u], op, vm, n, d)
      BY <1>2, <3>1 DEF Queues, Tapped
    <3>4. PICK p : p = vm.post
      OBVIOUS
    <3>5. Wanted(outbox'[u], p, <<u, p>> \in postLikes') <=> op = "set"
      <4>1. PICK like : like = <<u, p>>
        OBVIOUS
      <4>2. Wanted(outbox'[u], p, like \in postLikes) <=> op = "set"
        BY <1>5, <3>2, <3>3, <3>4, WantedTapped
      <4> QED
        BY <1>3, <4>1, <4>2
    <3>6. cells'[u][d].post = p /\ (cells'[u][d].didLike <=> op = "set")
      BY <1>7, <1>9, <1>12, <3>1, <3>4
    <3>7. HeartRight(u, d)' <=>
            (cells'[u][d].didLike <=> Wanted(outbox'[u], p, <<u, p>> \in postLikes'))
      BY <3>2, <3>6, HeartIsNext
    <3> QED
      BY <1>12, <3>5, <3>6, <3>7
  <2> QED
    BY <2>1, <2>2
<1>13. CASE v = u /\ c # d
  <2>1. cells'[u][c] = cells[u][c]
    BY <1>9, <1>13
  <2>2. PICK p : p = cells[u][c].post
    OBVIOUS
  <2>3. CASE vm.post = p
    <3>1. cells'[u][d] = x
      BY <1>2, <1>8
    <3>2. x # vm
      BY <1>5, <1>7
    <3>3. taps' > taps
      BY <1>2, <1>3
    <3> QED
      BY <1>4, <1>7, <1>13, <2>1, <2>2, <2>3, <3>1, <3>2, <3>3 DEF Excused
  <2>4. CASE vm.post # p /\ outbox' = outbox
    BY <1>3, <1>13, <2>1, <2>4, HeartUntouched
  <2>5. CASE vm.post # p /\ outbox' # outbox
    <3>1. PICK op \in Ops, n \in Int :
            outbox' = [outbox EXCEPT ![u] = @ \o Writes(op, vm, n, d)]
      BY <1>10, <2>5
    <3>2. outbox[u] \in Seq(Write)
      BY <1>2 DEF Queues
    <3>3. Tapped(outbox[u], outbox'[u], op, vm, n, d)
      BY <1>2, <3>1 DEF Queues, Tapped
    <3>4. PICK like : like = <<u, p>>
      OBVIOUS
    <3>5. Wanted(outbox'[u], p, like \in postLikes) <=> Wanted(outbox[u], p, like \in postLikes)
      BY <1>5, <2>5, <3>2, <3>3, WantedTapped
    <3> QED
      BY <1>1, <1>3, <1>13, <2>1, <2>2, <3>4, <3>5, HeartStays
  <2> QED
    BY <2>3, <2>4, <2>5
<1> QED
  BY <1>11, <1>12, <1>13

(* Every step keeps a right heart right, unless it is excused. *)
LEMMA HeartStep ==
  ASSUME [Next]_vars, NEW v, NEW c, Seen(v, c)
  PROVE  HeartRight(v, c)' \/ Excused(v, c)
<1>1. CASE UNCHANGED vars
  <2>1. cells' = cells /\ outbox' = outbox /\ postLikes' = postLikes
    BY <1>1 DEF vars, server, screen
  <2> QED
    BY <2>1, HeartUntouched
<1>2. CASE Next
  <2>1. PICK u \in Users :
          \/ Load(u)
          \/ ClosePost(u)
          \/ Commit(u)
          \/ Refuse(u)
          \/ HandleFirst(u)
          \/ HandleSecond(u)
          \/ HandleArrival(u)
          \/ HandleCheck(u)
          \/ Kill(u)
          \/ \E w \in Users : FetchPosts(u, w)
          \/ \E d \in AllCells : LikePost(u, d) \/ UnlikePost(u, d)
          \/ \E p \in Posts :
               \/ Arrive(u, p)
               \/ ArriveError(u, p)
               \/ OpenPost(u, p)
               \/ CheckAnswer(u, p)
               \/ CheckError(u, p)
               \/ \E d \in Cells : Scroll(u, d, p)
    BY <1>2 DEF Next
  <2>2. CASE ClosePost(u)
    BY <2>2, HeartClose
  <2>3. CASE Commit(u)
    BY <2>3, HeartCommit
  <2>4. CASE HandleFirst(u) \/ HandleSecond(u)
    BY <2>4, HeartCompletion
  <2>5. CASE HandleArrival(u) \/ HandleCheck(u)
    BY <2>5, HeartHandled
  <2>6. CASE \E d \in AllCells : LikePost(u, d) \/ UnlikePost(u, d)
    BY <2>6, HeartTap
  <2>7. CASE \E p \in Posts : OpenPost(u, p) \/ \E d \in Cells : Scroll(u, d, p)
    BY <2>7, HeartFill
  <2>8. CASE \/ Load(u) \/ Refuse(u) \/ Kill(u) \/ \E w \in Users : FetchPosts(u, w)
             \/ \E p \in Posts : \/ Arrive(u, p) \/ ArriveError(u, p)
                                 \/ CheckAnswer(u, p) \/ CheckError(u, p)
    BY <2>8, HeartQuiet
  <2> QED
    BY <2>1, <2>2, <2>3, <2>4, <2>5, <2>6, <2>7, <2>8
<1> QED
  BY <1>1, <1>2

(* Commits and completions of likes never make a right heart wrong, nor does *)
(* anything else but a fault, a tap that the guard of unlikePost drops, a    *)
(* tap on another cell of the post, or a cell filled again from a stale row. *)
THEOREM HeartKeptCorrect == Spec => HeartKept
<1>1. LikesInv /\ LikesInv' /\ [Next]_vars =>
        [\A u \in Users, c \in AllCells :
           /\ cells[u][c].shown /\ HeartRight(u, c)
           /\ cells'[u][c].shown /\ ~HeartRight(u, c)'
           => \/ faults' > faults
              \/ taps' > taps /\ outbox' = outbox /\ cells[u][c].likes <= 0
              \/ /\ taps' > taps
                 /\ \E d \in AllCells \ {c} : /\ cells'[u][d] # cells[u][d]
                                              /\ cells'[u][d].post = cells'[u][c].post
              \/ /\ c \in Cells
                 /\ cells'[u][c] = ShowRow(cells'[u][c].post, rows'[u][cells'[u][c].post])]_vars
  <2>1. SUFFICES ASSUME LikesInv, LikesInv', [Next]_vars,
                        NEW u \in Users, NEW c \in AllCells,
                        cells[u][c].shown, HeartRight(u, c),
                        cells'[u][c].shown, ~HeartRight(u, c)'
                 PROVE  \/ faults' > faults
                        \/ taps' > taps /\ outbox' = outbox /\ cells[u][c].likes <= 0
                        \/ /\ taps' > taps
                           /\ \E d \in AllCells \ {c} :
                                /\ cells'[u][d] # cells[u][d]
                                /\ cells'[u][d].post = cells'[u][c].post
                        \/ /\ c \in Cells
                           /\ cells'[u][c] = ShowRow(cells'[u][c].post,
                                                     rows'[u][cells'[u][c].post])
    OBVIOUS
  <2>2. Seen(u, c)
    BY <2>1 DEF Seen
  <2>3. Excused(u, c)
    BY <2>1, <2>2, HeartStep
  <2> QED
    BY <2>3 DEF Excused
<1> QED
  BY <1>1, LikesInvAlways, PTL DEF Spec, HeartKept

----------------------------------------------------------------------------
(***************************************************************************)
(* The likes implement the two-leg write.  What TwoLegWrite sees of the    *)
(* pipeline are its legs, and of the completions those of the first legs.  *)
(***************************************************************************)
LegMap == [w \in {w \in Write : IsLeg(w)} |-> LegOf(w)]
CallMap == [h \in {h \in Write : IsFirst(h)} |-> CallOf(h)]
LegQueues == [u \in Users |-> Legs(outbox[u])]
CallQueues == [u \in Users |-> Calls(handlers[u])]

(* Every unfinished two-leg write was started by a tap of its own. *)
StartedByTaps ==
  \A u \in Users : Len(LegQueues[u]) + Len(CallQueues[u]) <= taps

(* A step of the two-leg write, or none. *)
TwoLegStep == TwoLeg!Next \/ UNCHANGED TwoLeg!vars

(* A leg is a write of TwoLegWrite, a first completion one of its handlers. *)
LEMMA LegMaps ==
  /\ Maps(LegMap, Write, TwoLeg!Write)
  /\ Maps(CallMap, Write, TwoLeg!Handler)
  /\ \A w \in Write : w \in DOMAIN LegMap <=> IsLeg(w)
  /\ \A w \in Write : IsLeg(w) => LegMap[w] = LegOf(w)
  /\ \A w \in Write : w \in DOMAIN CallMap <=> IsFirst(w)
  /\ \A w \in Write : IsFirst(w) => CallMap[w] = CallOf(w)
<1>1. \A w \in Write : LegOf(w) \in TwoLeg!Write
  BY DEF Write, LegOf, TwoLeg!Write, Ops, TwoLeg!Ops
<1>2. \A w \in Write : CallOf(w) \in TwoLeg!Handler
  BY DEF Write, CallOf, TwoLeg!Handler, Ops, TwoLeg!Ops
<1> QED
  BY <1>1, <1>2, Zenon DEF Maps, LegMap, CallMap

(* The legs of all the pipelines, and the first completions. *)
LEMMA LegQueuesAre ==
  ASSUME NEW f \in Queues(Users, Write)
  PROVE  /\ [u \in Users |-> Legs(f[u])] = MapQueues(f, LegMap)
         /\ [u \in Users |-> Calls(f[u])] = MapQueues(f, CallMap)
<1>1. DOMAIN f = Users
  BY DEF Queues
<1> QED
  BY <1>1, Zenon DEF MapQueues, Legs, Calls, LegMap, CallMap

(* Now and after a step that keeps the types. *)
LEMMA QueuesMapped ==
  ASSUME TypeInv, TypeInv'
  PROVE  /\ LegQueues = MapQueues(outbox, LegMap)
         /\ LegQueues' = MapQueues(outbox', LegMap)
         /\ CallQueues = MapQueues(handlers, CallMap)
         /\ CallQueues' = MapQueues(handlers', CallMap)
         /\ LegQueues \in Queues(Users, TwoLeg!Write)
         /\ CallQueues \in Queues(Users, TwoLeg!Handler)
<1>1. /\ outbox \in Queues(Users, Write) /\ outbox' \in Queues(Users, Write)
      /\ handlers \in Queues(Users, Write) /\ handlers' \in Queues(Users, Write)
  BY DEF TypeInv
<1>2. /\ LegQueues = MapQueues(outbox, LegMap)
      /\ LegQueues' = MapQueues(outbox', LegMap)
  BY <1>1, LegQueuesAre DEF LegQueues
<1>3. /\ CallQueues = MapQueues(handlers, CallMap)
      /\ CallQueues' = MapQueues(handlers', CallMap)
  BY <1>1, LegQueuesAre DEF CallQueues
<1>4. /\ MapQueues(outbox, LegMap) \in Queues(Users, TwoLeg!Write)
      /\ MapQueues(handlers, CallMap) \in Queues(Users, TwoLeg!Handler)
  BY <1>1, LegMaps, MappedType
<1> QED
  BY <1>2, <1>3, <1>4

(* A write joins a pipeline: a leg, or something the two legs do not see. *)
LEMMA LegPushed ==
  ASSUME TypeInv, TypeInv', NEW u \in Users, NEW w \in Write,
         Pushed(outbox, outbox', u, w)
  PROVE  /\ IsLeg(w) => Pushed(LegQueues, LegQueues', u, LegOf(w))
         /\ ~IsLeg(w) => LegQueues' = LegQueues
<1>1. outbox \in Queues(Users, Write)
  BY DEF TypeInv
<1>2. Maps(LegMap, Write, TwoLeg!Write)
  BY LegMaps
<1>3. /\ w \in DOMAIN LegMap =>
            Pushed(MapQueues(outbox, LegMap), MapQueues(outbox', LegMap), u, LegMap[w])
      /\ w \notin DOMAIN LegMap => MapQueues(outbox', LegMap) = MapQueues(outbox, LegMap)
  BY <1>1, <1>2, MappedPushed
<1> QED
  BY <1>3, LegMaps, QueuesMapped

(* The front leaves a pipeline. *)
LEMMA LegPopped ==
  ASSUME TypeInv, TypeInv', NEW u \in Users, Popped(outbox, outbox', u)
  PROVE  /\ Head(outbox[u]) \in Write
         /\ IsLeg(Head(outbox[u])) => /\ Popped(LegQueues, LegQueues', u)
                                      /\ Head(LegQueues[u]) = LegOf(Head(outbox[u]))
         /\ ~IsLeg(Head(outbox[u])) => LegQueues' = LegQueues
<1>1. outbox \in Queues(Users, Write)
  BY DEF TypeInv
<1>2. Maps(LegMap, Write, TwoLeg!Write)
  BY LegMaps
<1>3. PICK w : w = Head(outbox[u])
  OBVIOUS
<1>4. w \in Write
  BY <1>1, <1>3, QueuePopped
<1>5. /\ w \in DOMAIN LegMap =>
            /\ Popped(MapQueues(outbox, LegMap), MapQueues(outbox', LegMap), u)
            /\ Head(MapQueues(outbox, LegMap)[u]) = LegMap[w]
      /\ w \notin DOMAIN LegMap => MapQueues(outbox', LegMap) = MapQueues(outbox, LegMap)
  BY <1>1, <1>2, <1>3, MappedPopped
<1> QED
  BY <1>3, <1>4, <1>5, LegMaps, QueuesMapped

(* A completion joins the main queue: a first one, or another. *)
LEMMA CallPushed ==
  ASSUME TypeInv, TypeInv', NEW u \in Users, NEW w \in Write,
         Pushed(handlers, handlers', u, w)
  PROVE  /\ IsFirst(w) => Pushed(CallQueues, CallQueues', u, CallOf(w))
         /\ ~IsFirst(w) => CallQueues' = CallQueues
<1>1. handlers \in Queues(Users, Write)
  BY DEF TypeInv
<1>2. Maps(CallMap, Write, TwoLeg!Handler)
  BY LegMaps
<1>3. /\ w \in DOMAIN CallMap =>
            Pushed(MapQueues(handlers, CallMap), MapQueues(handlers', CallMap), u, CallMap[w])
      /\ w \notin DOMAIN CallMap => MapQueues(handlers', CallMap) = MapQueues(handlers, CallMap)
  BY <1>1, <1>2, MappedPushed
<1> QED
  BY <1>3, LegMaps, QueuesMapped

(* A completion leaves the main queue. *)
LEMMA CallPopped ==
  ASSUME TypeInv, TypeInv', NEW u \in Users, Popped(handlers, handlers', u)
  PROVE  /\ Head(handlers[u]) \in Write
         /\ IsFirst(Head(handlers[u])) =>
              /\ Popped(CallQueues, CallQueues', u)
              /\ Head(CallQueues[u]) = CallOf(Head(handlers[u]))
         /\ ~IsFirst(Head(handlers[u])) => CallQueues' = CallQueues
<1>1. handlers \in Queues(Users, Write)
  BY DEF TypeInv
<1>2. Maps(CallMap, Write, TwoLeg!Handler)
  BY LegMaps
<1>3. PICK w : w = Head(handlers[u])
  OBVIOUS
<1>4. w \in Write
  BY <1>1, <1>3, QueuePopped
<1>5. /\ w \in DOMAIN CallMap =>
            /\ Popped(MapQueues(handlers, CallMap), MapQueues(handlers', CallMap), u)
            /\ Head(MapQueues(handlers, CallMap)[u]) = CallMap[w]
      /\ w \notin DOMAIN CallMap => MapQueues(handlers', CallMap) = MapQueues(handlers, CallMap)
  BY <1>1, <1>2, <1>3, MappedPopped
<1> QED
  BY <1>3, <1>4, <1>5, LegMaps, QueuesMapped

(* How many legs and first completions there are. *)
LEMMA LegCounts ==
  ASSUME TypeInv, TypeInv', NEW u \in Users
  PROVE  /\ LegQueues[u] \in Seq(TwoLeg!Write) /\ Len(LegQueues[u]) \in Nat
         /\ CallQueues[u] \in Seq(TwoLeg!Handler) /\ Len(CallQueues[u]) \in Nat
<1>1. LegQueues[u] \in Seq(TwoLeg!Write) /\ CallQueues[u] \in Seq(TwoLeg!Handler)
  BY QueuesMapped DEF Queues
<1> QED
  BY <1>1, SeqFacts

(* A step in which the two legs see nothing happen. *)
LEMMA LegsUntouched ==
  ASSUME TypeInv, TypeInv', StartedByTaps, taps <= taps',
         LegQueues' = LegQueues, CallQueues' = CallQueues,
         UNCHANGED <<postLikes, userLikes, skewed>>
  PROVE  TwoLegStep /\ StartedByTaps'
<1>1. UNCHANGED TwoLeg!vars
  BY DEF TwoLeg!vars, LegQueues, CallQueues
<1>2. ASSUME NEW u \in Users
      PROVE  Len(LegQueues'[u]) + Len(CallQueues'[u]) <= taps'
  <2>1. Len(LegQueues[u]) + Len(CallQueues[u]) <= taps
    BY DEF StartedByTaps
  <2>2. taps \in Nat /\ taps' \in Nat
    BY DEF TypeInv
  <2>3. Len(LegQueues[u]) \in Nat /\ Len(CallQueues[u]) \in Nat
    BY LegCounts
  <2>4. PICK a, b : a = Len(LegQueues[u]) /\ b = Len(CallQueues[u])
    OBVIOUS
  <2>5. a \in Nat /\ b \in Nat /\ a + b <= taps
    BY <2>1, <2>3, <2>4, Zenon
  <2>6. a + b <= taps'
    BY <2>2, <2>5
  <2> QED
    BY <2>4, <2>6
<1> QED
  BY <1>1, <1>2 DEF TwoLegStep, StartedByTaps

(* A tap starts a two-leg write. *)
LEMMA StartIs ==
  ASSUME TypeInv, TypeInv', StartedByTaps, NEW u \in Users, NEW op \in Ops, NEW p \in Posts,
         taps + faults < MaxEvents, taps' = taps + 1,
         NEW x, x = [leg |-> "first", op |-> op, key |-> p],
         Pushed(LegQueues, LegQueues', u, x), CallQueues' = CallQueues,
         UNCHANGED <<postLikes, userLikes>>, skewed' = skewed \ {<<u, p>>}
  PROVE  TwoLegStep /\ StartedByTaps'
<1>1. x \in TwoLeg!Write
  BY DEF TwoLeg!Write, TwoLeg!Ops, Ops
<1>2. LegQueues \in Queues(Users, TwoLeg!Write)
  BY QueuesMapped
<1>3. /\ Len(LegQueues'[u]) = Len(LegQueues[u]) + 1
      /\ LegQueues' = [LegQueues EXCEPT ![u] = Append(LegQueues[u], x)]
      /\ \A v \in Users : v # u => LegQueues'[v] = LegQueues[v]
  BY <1>1, <1>2, PushedCount
<1>4. taps \in Nat /\ faults \in Nat /\ MaxEvents \in Nat
  BY LikesAssumption DEF TypeInv
<1>5. ASSUME NEW v \in Users
      PROVE  /\ Len(LegQueues[v]) \in Nat /\ Len(CallQueues[v]) \in Nat
             /\ Len(LegQueues[v]) + Len(CallQueues[v]) <= taps
  BY LegCounts DEF StartedByTaps
<1>6. Len(LegQueues[u]) + Len(CallQueues[u]) < MaxEvents
  <2>1. PICK a, b : a = Len(LegQueues[u]) /\ b = Len(CallQueues[u])
    OBVIOUS
  <2>2. a \in Nat /\ b \in Nat /\ a + b <= taps
    BY <1>5, <2>1, Zenon
  <2>3. a + b < MaxEvents
    BY <1>4, <2>2
  <2> QED
    BY <2>1, <2>3
<1>7. TwoLeg!Start(u, op, p)
  BY <1>3, <1>6, Zenon DEF TwoLeg!Start, LegQueues, CallQueues
<1>8. TwoLegStep
  BY <1>7 DEF TwoLegStep, TwoLeg!Next, TwoLeg!Ops, Ops
<1>9. ASSUME NEW v \in Users
      PROVE  Len(LegQueues'[v]) + Len(CallQueues'[v]) <= taps'
  <2>1. PICK a, b : a = Len(LegQueues[v]) /\ b = Len(CallQueues[v])
    OBVIOUS
  <2>2. a \in Nat /\ b \in Nat /\ a + b <= taps
    BY <1>5, <2>1, Zenon
  <2>3. Len(CallQueues'[v]) = b /\ (Len(LegQueues'[v]) = a \/ Len(LegQueues'[v]) = a + 1)
    BY <1>3, <2>1, Zenon
  <2>4. a + b <= taps + 1 /\ (a + 1) + b <= taps + 1
    BY <1>4, <2>2
  <2> QED
    BY <2>3, <2>4
<1> QED
  BY <1>8, <1>9 DEF StartedByTaps

(* No two-leg write is added. *)
NoMoreLegs ==
  \A v \in Users : Len(LegQueues'[v]) + Len(CallQueues'[v])
                     <= Len(LegQueues[v]) + Len(CallQueues[v])

(* Then the taps still account for all of them. *)
LEMMA NoMoreThanTaps ==
  ASSUME TypeInv, TypeInv', StartedByTaps, NoMoreLegs, taps' = taps,
         \A v \in Users : Len(LegQueues'[v]) \in Nat /\ Len(CallQueues'[v]) \in Nat
  PROVE  StartedByTaps'
<1>1. ASSUME NEW v \in Users
      PROVE  Len(LegQueues'[v]) + Len(CallQueues'[v]) <= taps'
  <2>1. PICK a, b, c, d : /\ a = Len(LegQueues[v]) /\ b = Len(CallQueues[v])
                          /\ c = Len(LegQueues'[v]) /\ d = Len(CallQueues'[v])
    OBVIOUS
  <2>2. a \in Nat /\ b \in Nat
    BY <2>1, LegCounts
  <2>3. a + b <= taps /\ c + d <= a + b /\ c \in Nat /\ d \in Nat
    BY <2>1, Zenon DEF StartedByTaps, NoMoreLegs
  <2>4. taps \in Nat
    BY DEF TypeInv
  <2>5. c + d <= taps
    BY <2>2, <2>3, <2>4
  <2> QED
    BY <2>1, <2>5
<1> QED
  BY <1>1 DEF StartedByTaps

(* How many there are after a step. *)
LEMMA LegCountsNext ==
  ASSUME TypeInv'
  PROVE  \A v \in Users : Len(LegQueues'[v]) \in Nat /\ Len(CallQueues'[v]) \in Nat
<1>1. outbox' \in Queues(Users, Write) /\ handlers' \in Queues(Users, Write)
  BY DEF TypeInv
<1>2. LegQueues' = MapQueues(outbox', LegMap) /\ CallQueues' = MapQueues(handlers', CallMap)
  BY <1>1, LegQueuesAre DEF LegQueues, CallQueues
<1>3. /\ LegQueues' \in Queues(Users, TwoLeg!Write)
      /\ CallQueues' \in Queues(Users, TwoLeg!Handler)
  BY <1>1, <1>2, LegMaps, MappedType
<1> QED
  BY <1>3, SeqFacts DEF Queues

(* What the departure of a write does to the legs and the completions. *)
LEMMA DepartLegs ==
  ASSUME TypeInv, TypeInv', NEW u \in Users, Depart(u), NEW w, w = Head(outbox[u])
  PROVE  /\ w \in Write
         /\ IsLeg(w) => /\ LegQueues[u] # <<>> /\ Head(LegQueues[u]) = LegOf(w)
                        /\ LegQueues' = [LegQueues EXCEPT ![u] = Tail(LegQueues[u])]
                        /\ TwoLeg!Notify(u, LegOf(w))
         /\ ~IsLeg(w) => LegQueues' = LegQueues /\ CallQueues' = CallQueues
         /\ NoMoreLegs
<1>1. outbox \in Queues(Users, Write) /\ handlers \in Queues(Users, Write)
  BY DEF TypeInv
<1>2. Popped(outbox, outbox', u)
  BY <1>1 DEF Depart, Popped, ChangedAt, Queues
<1>3. handlers' = IF w.cell = "nobody" THEN handlers
                    ELSE [handlers EXCEPT ![u] = Append(@, w)]
  BY DEF Depart
<1>4. /\ w \in Write
      /\ IsLeg(w) => Popped(LegQueues, LegQueues', u) /\ Head(LegQueues[u]) = LegOf(w)
      /\ ~IsLeg(w) => LegQueues' = LegQueues
  BY <1>2, LegPopped
<1>5. IsFirst(w) => IsLeg(w)
  BY DEF IsFirst, IsLeg
<1>6. IsLeg(w) /\ w.cell # "nobody" /\ IsFirst(w) <=> IsLeg(w) /\ LegOf(w).leg = "first"
  BY DEF IsFirst, IsLeg, LegOf
<1>7. CASE w.cell = "nobody" \/ ~IsFirst(w)
  <2>1. CallQueues' = CallQueues
    <3>1. CASE w.cell = "nobody"
      BY <1>3, <3>1 DEF CallQueues
    <3>2. CASE w.cell # "nobody"
      <4>1. Pushed(handlers, handlers', u, w)
        BY <1>1, <1>3, <3>2 DEF Pushed, ChangedAt, Queues
      <4> QED
        BY <1>4, <1>7, <3>2, <4>1, CallPushed
    <3> QED
      BY <3>1, <3>2
  <2>2. IsLeg(w) => TwoLeg!Notify(u, LegOf(w))
    BY <1>6, <1>7, <2>1 DEF TwoLeg!Notify, CallQueues
  <2>3. IsLeg(w) => /\ LegQueues[u] # <<>> /\ Len(LegQueues'[u]) = Len(LegQueues[u]) - 1
                    /\ LegQueues' = [LegQueues EXCEPT ![u] = Tail(LegQueues[u])]
                    /\ \A v \in Users : v # u => LegQueues'[v] = LegQueues[v]
    BY <1>4, QueuesMapped, PoppedCount
  <2>4. NoMoreLegs
    <3>1. SUFFICES ASSUME NEW v \in Users
                   PROVE  Len(LegQueues'[v]) + Len(CallQueues'[v])
                            <= Len(LegQueues[v]) + Len(CallQueues[v])
      BY DEF NoMoreLegs
    <3>2. PICK a, b : a = Len(LegQueues[v]) /\ b = Len(CallQueues[v])
      OBVIOUS
    <3>3. a \in Nat /\ b \in Nat
      BY <3>2, LegCounts
    <3>4. Len(CallQueues'[v]) = b /\ (Len(LegQueues'[v]) = a \/ Len(LegQueues'[v]) = a - 1)
      BY <1>4, <2>1, <2>3, <3>2, Zenon
    <3>5. a + b <= a + b /\ (a - 1) + b <= a + b
      BY <3>3
    <3> QED
      BY <3>2, <3>4, <3>5
  <2> QED
    BY <1>4, <2>1, <2>2, <2>3, <2>4
<1>8. CASE w.cell # "nobody" /\ IsFirst(w)
  <2>1. Pushed(handlers, handlers', u, w)
    BY <1>1, <1>3, <1>8 DEF Pushed, ChangedAt, Queues
  <2>2. Pushed(CallQueues, CallQueues', u, CallOf(w))
    BY <1>4, <1>8, <2>1, CallPushed
  <2>3. CallOf(w) \in TwoLeg!Handler
    BY <1>4 DEF CallOf, TwoLeg!Handler, Write, Ops, TwoLeg!Ops
  <2>4. /\ Len(CallQueues'[u]) = Len(CallQueues[u]) + 1
        /\ CallQueues' = [CallQueues EXCEPT ![u] = Append(CallQueues[u], CallOf(w))]
        /\ \A v \in Users : v # u => CallQueues'[v] = CallQueues[v]
    BY <2>2, <2>3, QueuesMapped, PushedCount
  <2>5. CallOf(w) = [op |-> LegOf(w).op, key |-> LegOf(w).key] /\ LegOf(w).leg = "first"
    BY <1>4, <1>5, <1>6, <1>8 DEF CallOf, LegOf
  <2>6. TwoLeg!Notify(u, LegOf(w))
    BY <2>4, <2>5, Zenon DEF TwoLeg!Notify, CallQueues
  <2>7. /\ LegQueues[u] # <<>> /\ Len(LegQueues'[u]) = Len(LegQueues[u]) - 1
        /\ LegQueues' = [LegQueues EXCEPT ![u] = Tail(LegQueues[u])]
        /\ \A v \in Users : v # u => LegQueues'[v] = LegQueues[v]
    BY <1>4, <1>5, <1>8, QueuesMapped, PoppedCount
  <2>8. NoMoreLegs
    <3>1. SUFFICES ASSUME NEW v \in Users
                   PROVE  Len(LegQueues'[v]) + Len(CallQueues'[v])
                            <= Len(LegQueues[v]) + Len(CallQueues[v])
      BY DEF NoMoreLegs
    <3>2. PICK a, b : a = Len(LegQueues[v]) /\ b = Len(CallQueues[v])
      OBVIOUS
    <3>3. a \in Nat /\ b \in Nat
      BY <3>2, LegCounts
    <3>4. \/ Len(CallQueues'[v]) = b /\ Len(LegQueues'[v]) = a
          \/ Len(CallQueues'[v]) = b + 1 /\ Len(LegQueues'[v]) = a - 1
      BY <2>4, <2>7, <3>2, Zenon
    <3>5. a + b <= a + b /\ (a - 1) + (b + 1) <= a + b
      BY <3>3
    <3> QED
      BY <3>2, <3>4, <3>5
  <2> QED
    BY <1>4, <1>5, <1>8, <2>6, <2>7, <2>8
<1> QED
  BY <1>7, <1>8

(* Applying a leg to one of the two collections. *)
LEMMA ApplyLeg ==
  ASSUME NEW docs, NEW u, NEW w \in Write
  PROVE  TwoLeg!Apply(docs, u, LegOf(w)) = Apply(docs, w.op, <<u, w.post>>)
BY DEF TwoLeg!Apply, Apply, LegOf

(* Committing a write commits a leg, or nothing the two legs see. *)
LEMMA CommitIs ==
  ASSUME TypeInv, TypeInv', StartedByTaps, NEW u \in Users, Commit(u)
  PROVE  TwoLegStep /\ StartedByTaps'
<1>1. PICK w : w = Head(outbox[u])
  OBVIOUS
<1>2. /\ w \in Write /\ NoMoreLegs
      /\ IsLeg(w) => /\ LegQueues[u] # <<>> /\ Head(LegQueues[u]) = LegOf(w)
                     /\ LegQueues' = [LegQueues EXCEPT ![u] = Tail(LegQueues[u])]
                     /\ TwoLeg!Notify(u, LegOf(w))
      /\ ~IsLeg(w) => LegQueues' = LegQueues /\ CallQueues' = CallQueues
  BY <1>1, DepartLegs DEF Commit
<1>3. /\ postLikes' = IF w.doc = "postLike"
                        THEN Apply(postLikes, w.op, <<u, w.post>>) ELSE postLikes
      /\ userLikes' = IF w.doc = "userLike"
                        THEN Apply(userLikes, w.op, <<u, w.post>>) ELSE userLikes
      /\ skewed' = skewed /\ taps' = taps
  BY <1>1 DEF Commit
<1>4. StartedByTaps'
  BY <1>2, <1>3, LegCountsNext, NoMoreThanTaps
<1>5. CASE ~IsLeg(w)
  <2>1. postLikes' = postLikes /\ userLikes' = userLikes
    BY <1>3, <1>5 DEF IsLeg
  <2>2. taps <= taps'
    BY <1>3 DEF TypeInv
  <2> QED
    BY <1>2, <1>3, <1>5, <2>1, <2>2, LegsUntouched
<1>6. CASE IsLeg(w)
  <2>1. (LegOf(w).leg = "second") <=> (w.doc = "userLike")
    BY <1>6 DEF LegOf
  <2>2. (w.doc = "postLike") <=> (w.doc # "userLike")
    BY <1>6 DEF IsLeg
  <2>3. postLikes' = IF LegOf(w).leg = "second" THEN postLikes
                       ELSE TwoLeg!Apply(postLikes, u, LegOf(w))
    BY <1>2, <1>3, <2>1, <2>2, ApplyLeg
  <2>4. userLikes' = IF LegOf(w).leg = "second"
                       THEN TwoLeg!Apply(userLikes, u, LegOf(w)) ELSE userLikes
    BY <1>2, <1>3, <2>1, <2>2, ApplyLeg
  <2>5. PICK x : x = LegOf(w)
    OBVIOUS
  <2>6. TwoLeg!Commit(u)
    BY <1>2, <1>3, <1>6, <2>3, <2>4, <2>5, Zenon DEF TwoLeg!Commit, LegQueues, CallQueues
  <2> QED
    BY <1>4, <2>6 DEF TwoLegStep, TwoLeg!Next
<1> QED
  BY <1>5, <1>6

(* So does refusing it. *)
LEMMA RefuseIs ==
  ASSUME TypeInv, TypeInv', StartedByTaps, NEW u \in Users, Refuse(u)
  PROVE  TwoLegStep /\ StartedByTaps'
<1>1. PICK w : w = Head(outbox[u])
  OBVIOUS
<1>2. /\ w \in Write /\ NoMoreLegs
      /\ IsLeg(w) => /\ LegQueues[u] # <<>> /\ Head(LegQueues[u]) = LegOf(w)
                     /\ LegQueues' = [LegQueues EXCEPT ![u] = Tail(LegQueues[u])]
                     /\ TwoLeg!Notify(u, LegOf(w))
      /\ ~IsLeg(w) => LegQueues' = LegQueues /\ CallQueues' = CallQueues
  BY <1>1, DepartLegs DEF Refuse
<1>3. /\ postLikes' = postLikes /\ userLikes' = userLikes /\ taps' = taps
      /\ skewed' = IF ~IsLeg(w) \/ TwoLeg!Superseded(u, LegOf(w))
                     THEN skewed ELSE skewed \cup {<<u, w.post>>}
  BY <1>1 DEF Refuse, server
<1>4. StartedByTaps'
  BY <1>2, <1>3, LegCountsNext, NoMoreThanTaps
<1>5. CASE ~IsLeg(w)
  <2>1. taps <= taps' /\ skewed' = skewed
    BY <1>3, <1>5 DEF TypeInv
  <2> QED
    BY <1>2, <1>3, <1>5, <2>1, LegsUntouched
<1>6. CASE IsLeg(w)
  <2>1. LegOf(w).key = w.post
    BY DEF LegOf
  <2>2. skewed' = IF TwoLeg!Superseded(u, LegOf(w))
                    THEN skewed ELSE skewed \cup {<<u, LegOf(w).key>>}
    BY <1>3, <1>6, <2>1
  <2>3. TwoLeg!Refuse(u)
    BY <1>2, <1>3, <1>6, <2>2, Zenon DEF TwoLeg!Refuse, LegQueues, CallQueues
  <2> QED
    BY <1>4, <2>3 DEF TwoLegStep, TwoLeg!Next
<1> QED
  BY <1>5, <1>6

(* The completion of a first leg issues the second. *)
LEMMA HandleIs ==
  ASSUME TypeInv, TypeInv', StartedByTaps, NEW u \in Users, HandleFirst(u)
  PROVE  TwoLegStep /\ StartedByTaps'
<1>1. PICK h : h = Head(handlers[u])
  OBVIOUS
<1>2. outbox \in Queues(Users, Write) /\ handlers \in Queues(Users, Write)
  BY DEF TypeInv
<1>3. Popped(handlers, handlers', u)
  BY <1>2 DEF HandleFirst, Popped, ChangedAt, Queues
<1>4. h \in Write /\ h.doc = "postLike"
  BY <1>1, <1>3, CallPopped DEF HandleFirst
<1>5. PICK x : x = [h EXCEPT !.doc = "userLike"]
  OBVIOUS
<1>6. /\ x \in Write /\ IsLeg(x) /\ IsFirst(h)
      /\ LegOf(x) = [leg |-> "second", op |-> h.op, key |-> h.post]
      /\ CallOf(h) = [op |-> h.op, key |-> h.post]
  BY <1>4, <1>5 DEF Write, IsLeg, IsFirst, LegOf, CallOf
<1>7. Pushed(outbox, outbox', u, x)
  BY <1>1, <1>2, <1>5 DEF HandleFirst, Pushed, ChangedAt, Queues
<1>8. Pushed(LegQueues, LegQueues', u, LegOf(x))
  BY <1>6, <1>7, LegPushed
<1>9. Popped(CallQueues, CallQueues', u) /\ Head(CallQueues[u]) = CallOf(h)
  BY <1>1, <1>3, <1>6, CallPopped
<1>10. LegOf(x) \in TwoLeg!Write
  BY <1>4, <1>6 DEF TwoLeg!Write, Write, Ops, TwoLeg!Ops
<1>11. /\ Len(LegQueues'[u]) = Len(LegQueues[u]) + 1
       /\ LegQueues' = [LegQueues EXCEPT ![u] = Append(LegQueues[u], LegOf(x))]
       /\ \A v \in Users : v # u => LegQueues'[v] = LegQueues[v]
  BY <1>8, <1>10, QueuesMapped, PushedCount
<1>12. /\ CallQueues[u] # <<>> /\ Len(CallQueues'[u]) = Len(CallQueues[u]) - 1
       /\ CallQueues' = [CallQueues EXCEPT ![u] = Tail(CallQueues[u])]
       /\ \A v \in Users : v # u => CallQueues'[v] = CallQueues[v]
  BY <1>9, QueuesMapped, PoppedCount
<1>13. UNCHANGED <<postLikes, userLikes, skewed, taps>>
  BY DEF HandleFirst, server
<1>14. LegOf(x) = [leg |-> "second", op |-> Head(CallQueues[u]).op,
                   key |-> Head(CallQueues[u]).key]
  BY <1>6, <1>9
<1>15. TwoLeg!Handle(u)
  BY <1>11, <1>12, <1>13, <1>14, Zenon DEF TwoLeg!Handle, LegQueues, CallQueues
<1>16. NoMoreLegs
  <2>1. SUFFICES ASSUME NEW v \in Users
                 PROVE  Len(LegQueues'[v]) + Len(CallQueues'[v])
                          <= Len(LegQueues[v]) + Len(CallQueues[v])
    BY DEF NoMoreLegs
  <2>2. PICK a, b : a = Len(LegQueues[v]) /\ b = Len(CallQueues[v])
    OBVIOUS
  <2>3. a \in Nat /\ b \in Nat
    BY <2>2, LegCounts
  <2>4. \/ Len(CallQueues'[v]) = b /\ Len(LegQueues'[v]) = a
        \/ Len(CallQueues'[v]) = b - 1 /\ Len(LegQueues'[v]) = a + 1
    BY <1>11, <1>12, <2>2, Zenon
  <2>5. a + b <= a + b /\ (a + 1) + (b - 1) <= a + b
    BY <2>3
  <2> QED
    BY <2>2, <2>4, <2>5
<1>17. StartedByTaps'
  BY <1>13, <1>16, LegCountsNext, NoMoreThanTaps
<1> QED
  BY <1>15, <1>17 DEF TwoLegStep, TwoLeg!Next

(* The completion of a second leg is nothing the two legs see. *)
LEMMA SecondIs ==
  ASSUME TypeInv, TypeInv', StartedByTaps, NEW u \in Users, HandleSecond(u)
  PROVE  TwoLegStep /\ StartedByTaps'
<1>1. PICK h : h = Head(handlers[u])
  OBVIOUS
<1>2. outbox \in Queues(Users, Write) /\ handlers \in Queues(Users, Write)
  BY DEF TypeInv
<1>3. Popped(handlers, handlers', u)
  BY <1>2 DEF HandleSecond, Popped, ChangedAt, Queues
<1>4. h \in Write /\ h.doc = "userLike"
  BY <1>1, <1>3, CallPopped DEF HandleSecond
<1>5. CallQueues' = CallQueues
  BY <1>1, <1>3, <1>4, CallPopped DEF IsFirst
<1>6. LegQueues' = LegQueues
  <2>1. PICK x : x = [doc |-> "notification", op |-> "set", post |-> h.post,
                      val |-> 0, cell |-> "nobody"]
    OBVIOUS
  <2>2. x \in Write /\ ~IsLeg(x)
    BY <1>4, <2>1 DEF Write, Ops, IsLeg
  <2>3. outbox' = outbox \/ outbox' = [outbox EXCEPT ![u] = Append(@, x)]
    BY <1>1, <2>1 DEF HandleSecond, AddNotification
  <2>4. outbox' = outbox \/ Pushed(outbox, outbox', u, x)
    BY <1>2, <2>3 DEF Pushed, ChangedAt, Queues
  <2>5. CASE outbox' = outbox
    BY <2>5 DEF LegQueues
  <2>6. CASE Pushed(outbox, outbox', u, x)
    BY <2>2, <2>6, LegPushed
  <2> QED
    BY <2>4, <2>5, <2>6
<1>7. UNCHANGED <<postLikes, userLikes, skewed, taps>> /\ taps <= taps'
  BY DEF HandleSecond, server, TypeInv
<1> QED
  BY <1>5, <1>6, <1>7, LegsUntouched

(* Neither is the answer of a read, asked for, queued or handled. *)
LEMMA AnswerIs ==
  ASSUME TypeInv, TypeInv', StartedByTaps, NEW u \in Users,
         \/ HandleArrival(u) \/ HandleCheck(u)
         \/ \E p \in Posts : Arrive(u, p) \/ CheckAnswer(u, p)
  PROVE  TwoLegStep /\ StartedByTaps'
<1>1. handlers \in Queues(Users, Write)
  BY DEF TypeInv
<1>2. UNCHANGED <<outbox, postLikes, userLikes, skewed, taps>> /\ taps <= taps'
  <2>1. CASE HandleArrival(u)
    BY <2>1 DEF HandleArrival, server, TypeInv
  <2>2. CASE HandleCheck(u)
    BY <2>2 DEF HandleCheck, server, TypeInv
  <2>3. ASSUME NEW p \in Posts, Arrive(u, p) \/ CheckAnswer(u, p)
        PROVE  UNCHANGED <<outbox, postLikes, userLikes, skewed, taps>> /\ taps <= taps'
    BY <2>3 DEF Arrive, CheckAnswer, server, TypeInv
  <2> QED
    BY <2>1, <2>2, <2>3
<1>3. LegQueues' = LegQueues
  BY <1>2 DEF LegQueues
<1>4. CASE HandleArrival(u) \/ HandleCheck(u)
  <2>1. Popped(handlers, handlers', u) /\ Head(handlers[u]).doc # "postLike"
    BY <1>1, <1>4 DEF HandleArrival, HandleCheck, Popped, ChangedAt, Queues
  <2>2. CallQueues' = CallQueues
    BY <2>1, CallPopped DEF IsFirst
  <2> QED
    BY <1>2, <1>3, <2>2, LegsUntouched
<1>5. CASE \E p \in Posts : Arrive(u, p) \/ CheckAnswer(u, p)
  <2>1. PICK p \in Posts : Arrive(u, p) \/ CheckAnswer(u, p)
    BY <1>5
  <2>2. PICK x : /\ x.doc # "postLike"
                 /\ handlers' = [handlers EXCEPT ![u] = Append(@, x)]
    BY <2>1 DEF Arrive, CheckAnswer
  <2>3. Pushed(handlers, handlers', u, x)
    BY <1>1, <2>2 DEF Pushed, ChangedAt, Queues
  <2>4. x \in Write
    <3>1. handlers'[u] = Append(handlers[u], x) /\ handlers'[u] \in Seq(Write)
      BY <1>1, <2>2 DEF TypeInv, Queues
    <3>2. PICK s : s = handlers[u]
      OBVIOUS
    <3>3. s \in Seq(Write) /\ Append(s, x) \in Seq(Write)
      BY <1>1, <3>1, <3>2 DEF Queues
    <3>4. Append(s, x)[Len(s) + 1] = x /\ Len(s) + 1 \in DOMAIN Append(s, x)
      BY <3>3
    <3> QED
      BY <3>3, <3>4, SeqFacts
  <2>5. CallQueues' = CallQueues
    BY <2>2, <2>3, <2>4, CallPushed DEF IsFirst
  <2> QED
    BY <1>2, <1>3, <2>5, LegsUntouched
<1> QED
  BY <1>4, <1>5

(* Nor a screen that is loaded, filled or scrolled. *)
LEMMA ScreenIs ==
  ASSUME TypeInv, TypeInv', StartedByTaps, NEW u \in Users,
         \/ Load(u)
         \/ \E v \in Users : FetchPosts(u, v)
         \/ \E p \in Posts : \/ ArriveError(u, p) \/ CheckError(u, p) \/ OpenPost(u, p)
                             \/ \E c \in Cells : Scroll(u, c, p)
  PROVE  TwoLegStep /\ StartedByTaps'
<1>1. UNCHANGED <<outbox, handlers, postLikes, userLikes, skewed, taps>> /\ taps <= taps'
  BY DEF Load, FetchPosts, ArriveError, CheckError, OpenPost, Scroll, server, TypeInv
<1>2. LegQueues' = LegQueues /\ CallQueues' = CallQueues
  BY <1>1 DEF LegQueues, CallQueues
<1> QED
  BY <1>1, <1>2, LegsUntouched

(* Nor does closing a screen change a leg: it changes where it reports to. *)
LEMMA CloseIs ==
  ASSUME TypeInv, TypeInv', StartedByTaps, NEW u \in Users, ClosePost(u)
  PROVE  TwoLegStep /\ StartedByTaps'
<1> DEFINE o == [i \in DOMAIN outbox[u] |-> Gone(outbox[u][i])]
           g == [i \in DOMAIN handlers[u] |-> Gone(handlers[u][i])]
<1>1. UNCHANGED <<postLikes, userLikes, skewed, taps>> /\ taps <= taps'
  BY DEF ClosePost, server, TypeInv
<1>2. /\ outbox \in Queues(Users, Write) /\ outbox[u] \in Seq(Write)
      /\ handlers \in Queues(Users, Write) /\ handlers[u] \in Seq(Write)
  BY DEF TypeInv, Queues
<1>3. /\ outbox' = [outbox EXCEPT ![u] = o]
      /\ handlers' = [handlers EXCEPT ![u] = g]
  BY DEF ClosePost
<1>4. /\ o = [i \in DOMAIN outbox[u] |-> o[i]]
      /\ g = [i \in DOMAIN handlers[u] |-> g[i]]
  OBVIOUS
<1>5. /\ \A i \in DOMAIN outbox[u] : outbox[u][i] \in Write /\ o[i] = Gone(outbox[u][i])
      /\ \A i \in DOMAIN handlers[u] : handlers[u][i] \in Write /\ g[i] = Gone(handlers[u][i])
  BY <1>2, SeqFacts
<1> HIDE DEF o, g
<1>6. /\ \A i \in DOMAIN outbox[u] : o[i] \in Write
      /\ \A i \in DOMAIN handlers[u] : g[i] \in Write
  BY <1>5, GoneEffect
<1>7. Rewritten(outbox, outbox', u, o, Write) /\ Rewritten(handlers, handlers', u, g, Write)
  BY <1>2, <1>3, <1>4, <1>6 DEF Rewritten, ChangedAt, Queues
<1>8. \A w \in Write : /\ IsLeg(Gone(w)) <=> IsLeg(w)
                       /\ IsFirst(Gone(w)) <=> IsFirst(w)
                       /\ LegOf(Gone(w)) = LegOf(w)
                       /\ CallOf(Gone(w)) = CallOf(w)
  BY DEF Write, Gone, IsLeg, IsFirst, LegOf, CallOf
<1>9. \A i \in DOMAIN outbox[u] :
        /\ outbox[u][i] \in DOMAIN LegMap <=> o[i] \in DOMAIN LegMap
        /\ outbox[u][i] \in DOMAIN LegMap => LegMap[o[i]] = LegMap[outbox[u][i]]
  BY <1>5, <1>6, <1>8, LegMaps
<1>10. \A i \in DOMAIN handlers[u] :
        /\ handlers[u][i] \in DOMAIN CallMap <=> g[i] \in DOMAIN CallMap
        /\ handlers[u][i] \in DOMAIN CallMap => CallMap[g[i]] = CallMap[handlers[u][i]]
  BY <1>5, <1>6, <1>8, LegMaps
<1>11. Maps(LegMap, Write, TwoLeg!Write) /\ Maps(CallMap, Write, TwoLeg!Handler)
  BY LegMaps
<1>12. MapQueues(outbox', LegMap) = MapQueues(outbox, LegMap)
  BY <1>2, <1>7, <1>9, <1>11, MappedSame
<1>13. MapQueues(handlers', CallMap) = MapQueues(handlers, CallMap)
  BY <1>2, <1>7, <1>10, <1>11, MappedSame
<1>14. LegQueues' = LegQueues /\ CallQueues' = CallQueues
  BY <1>12, <1>13, QueuesMapped
<1> QED
  BY <1>1, <1>14, LegsUntouched

(* A restart orphans the first legs and forgets their completions. *)
LEMMA KillIs ==
  ASSUME TypeInv, TypeInv', StartedByTaps, NEW u \in Users, Kill(u)
  PROVE  TwoLegStep /\ StartedByTaps'
<1> DEFINE o == [i \in DOMAIN outbox[u] |-> Orphan(outbox[u][i])]
           h == [x \in TwoLeg!Write |-> TwoLeg!Orphan(x)]
<1>1. UNCHANGED <<postLikes, userLikes, taps>>
  BY DEF Kill, server
<1>2. /\ outbox \in Queues(Users, Write) /\ outbox[u] \in Seq(Write)
      /\ handlers \in Queues(Users, Write)
  BY DEF TypeInv, Queues
<1>3. outbox' = [outbox EXCEPT ![u] = o] /\ handlers' = [handlers EXCEPT ![u] = <<>>]
  BY DEF Kill
<1>4. o = [i \in DOMAIN outbox[u] |-> o[i]]
  OBVIOUS
<1>5. \A i \in DOMAIN outbox[u] : outbox[u][i] \in Write /\ o[i] = Orphan(outbox[u][i])
  BY <1>2, SeqFacts
<1>6. \A x \in TwoLeg!Write : h[x] = TwoLeg!Orphan(x)
  OBVIOUS
<1> HIDE DEF o, h
<1>7. \A i \in DOMAIN outbox[u] : o[i] \in Write
  BY <1>5, OrphanEffect
<1>8. Rewritten(outbox, outbox', u, o, Write)
  BY <1>2, <1>3, <1>4, <1>7 DEF Rewritten, ChangedAt, Queues
<1>9. ASSUME NEW w \in Write
      PROVE  /\ IsLeg(Orphan(w)) <=> IsLeg(w)
             /\ IsLeg(w) => LegOf(Orphan(w)) = h[LegOf(w)]
  <2>1. Orphan(w).doc = w.doc /\ Orphan(w).op = w.op /\ Orphan(w).post = w.post
        /\ Orphan(w).cell = "nobody"
    BY DEF Orphan, Write
  <2>2. LegOf(w) \in TwoLeg!Write
    BY DEF LegOf, Write, TwoLeg!Write, Ops, TwoLeg!Ops
  <2>3. IsLeg(Orphan(w)) <=> IsLeg(w)
    BY <2>1 DEF IsLeg
  <2>4. LegOf(Orphan(w)) = TwoLeg!Orphan(LegOf(w))
    BY <2>1 DEF LegOf, TwoLeg!Orphan
  <2> QED
    BY <1>6, <2>2, <2>3, <2>4
<1>10. \A i \in DOMAIN outbox[u] :
         /\ outbox[u][i] \in DOMAIN LegMap <=> o[i] \in DOMAIN LegMap
         /\ outbox[u][i] \in DOMAIN LegMap => LegMap[o[i]] = h[LegMap[outbox[u][i]]]
  BY <1>5, <1>7, <1>9, LegMaps
<1>11. Maps(LegMap, Write, TwoLeg!Write) /\ Maps(CallMap, Write, TwoLeg!Handler)
  BY LegMaps
<1>12. PICK F, G : F = LegQueues /\ G = LegQueues'
  OBVIOUS
<1>13. /\ F = MapQueues(outbox, LegMap) /\ G = MapQueues(outbox', LegMap)
       /\ F \in Queues(Users, TwoLeg!Write)
  BY <1>12, QueuesMapped
<1>14. PICK t : t = [i \in DOMAIN F[u] |-> h[F[u][i]]]
  OBVIOUS
<1>15. ChangedAt(F, G, u, t)
  BY <1>2, <1>8, <1>10, <1>11, <1>13, <1>14, MappedRewritten
<1>16. F[u] \in Seq(TwoLeg!Write) /\ \A i \in DOMAIN F[u] : F[u][i] \in TwoLeg!Write
  BY <1>13, SeqFacts DEF Queues
<1>17. t = [i \in DOMAIN F[u] |-> TwoLeg!Orphan(F[u][i])]
  BY <1>6, <1>14, <1>16
<1>18. G = [F EXCEPT ![u] = t]
  BY <1>13, <1>15, ChangedIs
<1>19. CallQueues' = [CallQueues EXCEPT ![u] = <<>>]
  <2>1. PICK e : e = <<>>
    OBVIOUS
  <2>2. ChangedAt(handlers, handlers', u, e)
    BY <1>2, <1>3, <2>1 DEF ChangedAt, Queues
  <2>3. ChangedAt(MapQueues(handlers, CallMap), MapQueues(handlers', CallMap), u,
                  CompactMap(e, CallMap))
    BY <1>2, <1>11, <2>2, MappedChange
  <2>4. CompactMap(e, CallMap) = e
    BY <2>1, MapEmpty
  <2>5. CallQueues \in Queues(Users, TwoLeg!Handler) /\ ChangedAt(CallQueues, CallQueues', u, e)
    BY <2>3, <2>4, QueuesMapped
  <2>6. CallQueues' = [CallQueues EXCEPT ![u] = e]
    BY <2>5, ChangedIs
  <2> QED
    BY <2>1, <2>6
<1>20. DOMAIN LegQueues = Users /\ DOMAIN CallQueues = Users
  BY DEF LegQueues, CallQueues
<1>21. skewed' = skewed \cup
         {<<u, p>> : p \in {p \in Posts : \/ TwoLeg!HasLeg(LegQueues[u], "first", p)
                                          \/ TwoLeg!HasKey(CallQueues[u], p)}}
  BY DEF Kill, LegQueues, CallQueues
<1>22. LegQueues' = [LegQueues EXCEPT ![u] =
                       [i \in DOMAIN LegQueues[u] |-> TwoLeg!Orphan(LegQueues[u][i])]]
  BY <1>12, <1>17, <1>18
<1>23. TwoLeg!Kill(u)
  BY <1>1, <1>19, <1>21, <1>22, Zenon DEF TwoLeg!Kill, LegQueues, CallQueues
<1>24. NoMoreLegs
  <2>1. /\ Len(LegQueues'[u]) = Len(LegQueues[u])
        /\ \A v \in Users : v # u => LegQueues'[v] = LegQueues[v]
    <3>1. G[u] = t /\ \A v \in Users : v # u => G[v] = F[v]
      BY <1>13, <1>15 DEF ChangedAt, Queues
    <3>2. DOMAIN t = DOMAIN F[u] /\ \A i \in DOMAIN F[u] : t[i] \in TwoLeg!Write
      <4>1. \A x \in TwoLeg!Write : TwoLeg!Orphan(x) \in TwoLeg!Write
        BY DEF TwoLeg!Orphan, TwoLeg!Write
      <4> QED
        BY <1>16, <1>17, <4>1
    <3>3. t = [i \in DOMAIN F[u] |-> t[i]]
      BY <1>14
    <3>4. Len(t) = Len(F[u])
      BY <1>16, <3>2, <3>3, Replaced
    <3> QED
      BY <1>12, <3>1, <3>4
  <2>2. /\ Len(CallQueues'[u]) = 0
        /\ \A v \in Users : v # u => CallQueues'[v] = CallQueues[v]
    BY <1>19, <1>20
  <2>3. SUFFICES ASSUME NEW v \in Users
                 PROVE  Len(LegQueues'[v]) + Len(CallQueues'[v])
                          <= Len(LegQueues[v]) + Len(CallQueues[v])
    BY DEF NoMoreLegs
  <2>4. PICK a, b : a = Len(LegQueues[v]) /\ b = Len(CallQueues[v])
    OBVIOUS
  <2>5. a \in Nat /\ b \in Nat
    BY <2>4, LegCounts
  <2>6. Len(LegQueues'[v]) = a /\ (Len(CallQueues'[v]) = b \/ Len(CallQueues'[v]) = 0)
    BY <2>1, <2>2, <2>4, Zenon
  <2>7. a + b <= a + b /\ a + 0 <= a + b
    BY <2>5
  <2> QED
    BY <2>4, <2>6, <2>7
<1>25. StartedByTaps'
  BY <1>1, <1>24, LegCountsNext, NoMoreThanTaps
<1> QED
  BY <1>23, <1>25 DEF TwoLegStep, TwoLeg!Next

(* The number of likes and the first leg, put into the pipeline together, *)
(* are a first leg to the two-leg write.                                  *)
LEMMA TapIs ==
  ASSUME TypeInv, TypeInv', StartedByTaps, NEW u \in Users, NEW c \in AllCells,
         LikePost(u, c) \/ UnlikePost(u, c)
  PROVE  TwoLegStep /\ StartedByTaps'
<1> DEFINE vm == cells[u][c]
<1>1. /\ UNCHANGED <<postLikes, userLikes, handlers>>
      /\ vm.shown /\ taps + faults < MaxEvents /\ taps' = taps + 1
  BY DEF LikePost, UnlikePost, Toggle, server
<1>2. vm \in Shown
  <2>1. vm \in Shown \cup {Absent}
    BY DEF TypeInv
  <2> QED
    BY <1>1, <2>1 DEF Absent
<1>3. vm.post \in Posts /\ vm.likes \in Int
  BY <1>2 DEF Shown
<1>4. \/ outbox' = outbox /\ skewed' = skewed
      \/ \E op \in Ops, val \in Int :
           /\ outbox' = [outbox EXCEPT ![u] = @ \o Writes(op, vm, val, c)]
           /\ skewed' = skewed \ {<<u, vm.post>>}
  <2>1. CASE LikePost(u, c)
    <3>1. /\ outbox' = [outbox EXCEPT ![u] = @ \o Writes("set", vm, vm.likes + 1, c)]
          /\ skewed' = skewed \ {<<u, vm.post>>}
      BY <2>1 DEF LikePost
    <3>2. vm.likes + 1 \in Int /\ "set" \in Ops
      BY <1>3 DEF Ops
    <3> QED
      BY <3>1, <3>2
  <2>2. CASE UnlikePost(u, c)
    <3>1. \/ /\ outbox' = [outbox EXCEPT ![u] = @ \o Writes("delete", vm, vm.likes - 1, c)]
             /\ skewed' = skewed \ {<<u, vm.post>>}
          \/ outbox' = outbox /\ skewed' = skewed
      BY <2>2 DEF UnlikePost
    <3>2. vm.likes - 1 \in Int /\ "delete" \in Ops
      BY <1>3 DEF Ops
    <3> QED
      BY <3>1, <3>2
  <2> QED
    BY <2>1, <2>2
<1>5. CallQueues' = CallQueues
  BY <1>1 DEF CallQueues
<1>6. CASE outbox' = outbox /\ skewed' = skewed
  <2>1. LegQueues' = LegQueues
    BY <1>6 DEF LegQueues
  <2>2. taps <= taps'
    BY <1>1 DEF TypeInv
  <2> QED
    BY <1>1, <1>5, <1>6, <2>1, <2>2, LegsUntouched
<1>7. ASSUME NEW op \in Ops, NEW val \in Int,
             outbox' = [outbox EXCEPT ![u] = @ \o Writes(op, vm, val, c)],
             skewed' = skewed \ {<<u, vm.post>>}
      PROVE  TwoLegStep /\ StartedByTaps'
  <2>1. PICK s, n, w :
          /\ s = outbox[u]
          /\ n = [doc |-> "counter", op |-> op, post |-> vm.post, val |-> val,
                  cell |-> "nobody"]
          /\ w = [doc |-> "postLike", op |-> op, post |-> vm.post, val |-> val, cell |-> c]
    OBVIOUS
  <2>2. n \in Write /\ w \in Write /\ ~IsLeg(n) /\ IsLeg(w)
    BY <1>3, <2>1 DEF Write, AllCells, IsLeg
  <2>3. c # "nobody"
    BY LikesAssumption DEF AllCells
  <2>4. LegOf(w) = [leg |-> "first", op |-> op, key |-> vm.post]
    BY <2>1, <2>3 DEF LegOf
  <2>5. s \in Seq(Write) /\ outbox \in Queues(Users, Write)
    BY <2>1 DEF TypeInv, Queues
  <2>6. Writes(op, vm, val, c) = <<n, w>>
    BY <2>1 DEF Writes
  <2>7. s \o <<n, w>> = Append(Append(s, n), w)
    BY <2>2, <2>5
  <2>8. PICK m : m = [outbox EXCEPT ![u] = Append(s, n)]
    OBVIOUS
  <2>9. Pushed(outbox, m, u, n) /\ m[u] = Append(s, n)
    BY <2>1, <2>5, <2>8 DEF Pushed, ChangedAt, Queues
  <2>10. m \in Queues(Users, Write)
    BY <2>2, <2>5, <2>9, QueuePushed
  <2>11. outbox' = [outbox EXCEPT ![u] = Append(m[u], w)]
    <3>1. outbox' = [outbox EXCEPT ![u] = s \o <<n, w>>]
      BY <1>7, <2>1, <2>6, Zenon
    <3> QED
      BY <2>7, <2>9, <3>1, Zenon
  <2>12. Pushed(m, outbox', u, w)
    BY <2>5, <2>8, <2>10, <2>11 DEF Pushed, ChangedAt, Queues
  <2>13. Maps(LegMap, Write, TwoLeg!Write)
    BY LegMaps
  <2>14. MapQueues(m, LegMap) = MapQueues(outbox, LegMap)
    <3>1. n \notin DOMAIN LegMap
      BY <2>2, LegMaps
    <3> QED
      BY <2>2, <2>5, <2>9, <2>13, <3>1, MappedPushed
  <2>15. Pushed(MapQueues(m, LegMap), MapQueues(outbox', LegMap), u, LegMap[w])
    <3>1. w \in DOMAIN LegMap
      BY <2>2, LegMaps
    <3> QED
      BY <2>2, <2>10, <2>12, <2>13, <3>1, MappedPushed
  <2>16. Pushed(LegQueues, LegQueues', u, LegOf(w))
    BY <2>2, <2>14, <2>15, LegMaps, QueuesMapped
  <2> HIDE DEF vm
  <2> QED
    BY <1>1, <1>3, <1>5, <1>7, <2>4, <2>16, StartIs
<1> QED
  BY <1>4, <1>6, <1>7

(* Every step is one of the two-leg write, or none. *)
LEMMA TwoLegSteps ==
  ASSUME TypeInv, TypeInv', StartedByTaps, [Next]_vars
  PROVE  TwoLegStep /\ StartedByTaps'
<1>1. ASSUME NEW u \in Users,
             \/ Load(u) \/ ClosePost(u) \/ Commit(u) \/ Refuse(u) \/ HandleFirst(u)
             \/ HandleSecond(u) \/ HandleArrival(u) \/ HandleCheck(u) \/ Kill(u)
             \/ \E v \in Users : FetchPosts(u, v)
      PROVE  TwoLegStep /\ StartedByTaps'
  BY <1>1, ScreenIs, CloseIs, CommitIs, RefuseIs, HandleIs, SecondIs, AnswerIs, KillIs
<1>2. ASSUME NEW u \in Users, NEW c \in AllCells, LikePost(u, c) \/ UnlikePost(u, c)
      PROVE  TwoLegStep /\ StartedByTaps'
  BY <1>2, TapIs
<1>3. ASSUME NEW u \in Users, NEW p \in Posts,
             \/ Arrive(u, p) \/ ArriveError(u, p) \/ OpenPost(u, p) \/ CheckAnswer(u, p)
             \/ CheckError(u, p) \/ \E c \in Cells : Scroll(u, c, p)
      PROVE  TwoLegStep /\ StartedByTaps'
  BY <1>3, AnswerIs, ScreenIs
<1>4. CASE UNCHANGED vars
  <2>1. UNCHANGED <<outbox, handlers, postLikes, userLikes, skewed, taps>> /\ taps <= taps'
    BY <1>4 DEF vars, server, TypeInv
  <2>2. LegQueues' = LegQueues /\ CallQueues' = CallQueues
    BY <2>1 DEF LegQueues, CallQueues
  <2> QED
    BY <2>1, <2>2, LegsUntouched
<1> QED
  BY <1>1, <1>2, <1>3, <1>4 DEF Next

(* The likes start as the two-leg write does. *)
LEMMA TwoLegInit == Init => TwoLeg!Init /\ StartedByTaps
<1>1. SUFFICES ASSUME Init PROVE TwoLeg!Init /\ StartedByTaps
  OBVIOUS
<1>2. \A u \in Users : Legs(outbox[u]) = <<>> /\ Calls(handlers[u]) = <<>>
  <2>1. \A u \in Users : outbox[u] = <<>> /\ handlers[u] = <<>>
    BY <1>1 DEF Init
  <2> QED
    BY <2>1, MapEmpty DEF Legs, Calls
<1>3. TwoLeg!Init
  BY <1>1, <1>2 DEF Init, TwoLeg!Init
<1>4. \A u \in Users : LegQueues[u] = <<>> /\ CallQueues[u] = <<>>
  BY <1>2 DEF LegQueues, CallQueues
<1>5. StartedByTaps
  <2>1. taps = 0 /\ Len(<<>>) + Len(<<>>) <= 0
    BY <1>1 DEF Init
  <2> QED
    BY <1>4, <2>1 DEF StartedByTaps
<1> QED
  BY <1>3, <1>5

(* Likes and unlikes, with the taps, refusals and restarts that cut into    *)
(* them and whatever else the pipeline carries, are two-leg writes: all     *)
(* that TwoLegWriteProofs proves holds of Post/likes and User/likes.        *)
THEOREM LikesImplementTwoLeg == Spec => ImplementsTwoLeg
<1>1. Init => TwoLeg!Init /\ StartedByTaps
  BY TwoLegInit
<1>2. TypeInv /\ TypeInv' /\ StartedByTaps /\ [Next]_vars
        => [TwoLeg!Next]_TwoLeg!vars /\ StartedByTaps'
  BY TwoLegSteps DEF TwoLegStep
<1>3. LikesInv => TypeInv
  BY DEF LikesInv
<1> QED
  BY <1>1, <1>2, <1>3, LikesInvAlways, PTL DEF Spec, ImplementsTwoLeg, TwoLeg!Spec
=============================================================================
