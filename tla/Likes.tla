------------------------------- MODULE Likes -------------------------------
(***************************************************************************)
(* Liking a post from a feed cell: FeedController.didLike with             *)
(* PostService.likePost, unlikePost and isUserLikedPost.                   *)
(*                                                                         *)
(* A like is kept three times: as the number "likes" in the post, as a     *)
(* document under the post and as a document under the user.  What the     *)
(* tap writes is computed from the copy of the post in the cell: a number  *)
(* read some time ago and a didLike flag that the tap itself toggles.      *)
(* Copies are made from the rows of the screen, rows from the posts that   *)
(* were fetched, and a completion writes into whatever its cell shows now. *)
(***************************************************************************)
EXTENDS Integers, Sequences, SequencesExt, Selection

CONSTANTS Users,       \* accounts, each signed in on one device
          Posts,       \* post documents, all of them in everybody's feed
          Owner,       \* the ownerUid of each post
          Cells,       \* the reusable cells of a feed screen
          MaxLoads,    \* bound on the loads of feed and single-post screens
          MaxEvents    \* bound on the taps on like buttons, the refused
                       \* writes, failed reads and restarts, taken together

ASSUME LikesAssumption ==
  /\ Owner \in [Posts -> Users]
  /\ Cells \cap {"single", "gone", "nobody"} = {}
  /\ MaxLoads \in Nat
  /\ MaxEvents \in Nat

VARIABLES likes,       \* the "likes" field of each post
          postLikes,   \* <<u, p>>: Post/p/likes/u exists
          userLikes,   \* <<u, p>>: User/u/likes/p exists
          notified,    \* <<u, p>>: p's owner has a like notification of u
          outbox,      \* per device, the write pipeline of its Firestore client
          handlers,    \* per device, completions waiting for the main queue
          rows,        \* per device, FeedController.posts
          cells,       \* per device, the post in the view model of each cell
          arriving,    \* per device, posts the current load still waits for
          arrived,     \* per device, posts the current load has received
          checks,      \* per device and post, isUserLikedPost calls that are out
          album,       \* per device and post, the numbers of likes in the
                       \* copies that profile screens have fetched
          loads,       \* loads so far
          taps,        \* taps so far
          faults,      \* faults so far
          skewed       \* auxiliary: pairs one of whose legs was lost

server == <<likes, postLikes, userLikes, notified>>
screen == <<rows, cells, arriving, arrived, checks, album, loads>>
vars == <<server, outbox, handlers, screen, taps, faults, skewed>>

(* The post of a FeedController in single-post mode has a cell of its own. *)
AllCells == Cells \cup {"single"}
Absent == [shown |-> FALSE]
Row == [shown : {TRUE}, likes : Int, didLike : BOOLEAN]
Shown == [shown : {TRUE}, post : Posts, likes : Int, didLike : BOOLEAN]
ShowRow(p, r) == [shown |-> TRUE, post |-> p, likes |-> r.likes, didLike |-> r.didLike]

(***************************************************************************)
(* A write, or the completion of one.  "val" is the number of likes that   *)
(* the write stores or that its completion shows, in the cell it captured. *)
(* A "check" is the answer of isUserLikedPost, "set" for true; an          *)
(* "arrival" is the answer of fetchPost.                                   *)
(***************************************************************************)
Ops == {"set", "delete"}
Write == [doc : {"counter", "postLike", "userLike", "notification", "check",
                 "arrival"},
          op : Ops, post : Posts, val : Int,
          cell : AllCells \cup {"gone", "nobody"}]

Apply(docs, op, doc) == IF op = "set" THEN docs \cup {doc} ELSE docs \ {doc}

----------------------------------------------------------------------------
(* The two legs inside the outbox and the handlers, as TwoLegWrite sees them. *)
IsLeg(w) == w.doc \in {"postLike", "userLike"}
IsFirst(w) == w.doc = "postLike"

LegOf(w) ==
  [leg |-> IF w.doc = "userLike" THEN "second"
             ELSE IF w.cell = "nobody" THEN "bare" ELSE "first",
   op |-> w.op, key |-> w.post]

CallOf(h) == [op |-> h.op, key |-> h.post]

Legs(s) == CompactMap(s, [w \in {w \in Write : IsLeg(w)} |-> LegOf(w)])
Calls(s) == CompactMap(s, [h \in {h \in Write : IsFirst(h)} |-> CallOf(h)])

TwoLeg == INSTANCE TwoLegWrite WITH
            Clients <- Users, Keys <- Posts, MaxPending <- MaxEvents,
            primary <- postLikes, mirror <- userLikes,
            outbox <- [u \in Users |-> Legs(outbox[u])],
            handlers <- [u \in Users |-> Calls(handlers[u])]

----------------------------------------------------------------------------
Init ==
  /\ likes = [p \in Posts |-> 0]
  /\ postLikes = {}
  /\ userLikes = {}
  /\ notified = {}
  /\ outbox = [u \in Users |-> <<>>]
  /\ handlers = [u \in Users |-> <<>>]
  /\ rows = [u \in Users |-> [p \in Posts |-> Absent]]
  /\ cells = [u \in Users |-> [c \in AllCells |-> Absent]]
  /\ arriving = [u \in Users |-> {}]
  /\ arrived = [u \in Users |-> {}]
  /\ checks = [u \in Users |-> [p \in Posts |-> 0]]
  /\ album = [u \in Users |-> [p \in Posts |-> {}]]
  /\ loads = 0
  /\ taps = 0
  /\ faults = 0
  /\ skewed = {}

(* One more fault. *)
Fault == taps + faults < MaxEvents /\ faults' = faults + 1

(* The last pending write of u to a document of p, seen in its local cache. *)
Pending(u, doc, p) == {i \in DOMAIN outbox[u] : /\ outbox[u][i].doc = doc
                                                /\ outbox[u][i].post = p}
LocalLikes(u, p) ==
  LET is == Pending(u, "counter", p)
  IN  IF is = {} THEN likes[p] ELSE outbox[u][Max(is)].val

LocallyLiked(u, p) ==
  LET is == Pending(u, "userLike", p)
  IN  IF is = {} THEN <<u, p>> \in userLikes ELSE outbox[u][Max(is)].op = "set"

(* FeedController.fetchPosts, on viewDidLoad or a pull to refresh, once the *)
(* load before is through.                                                  *)
Load(u) ==
  /\ loads < MaxLoads
  /\ arriving[u] = {}
  /\ \A i \in DOMAIN handlers[u] : handlers[u][i].doc # "arrival"
  /\ loads' = loads + 1
  /\ arriving' = [arriving EXCEPT ![u] = Posts]
  /\ arrived' = [arrived EXCEPT ![u] = {}]
  /\ UNCHANGED <<server, outbox, handlers, rows, cells, checks, album, taps, faults,
                 skewed>>

(* reloadData: the cells show the rows again and forget their own copies. *)
Reload(u, newRows) ==
  cells' = [cells EXCEPT ![u] =
    [c \in AllCells |->
       IF c = "single" \/ ~cells[u][c].shown THEN cells[u][c]
       ELSE IF newRows[cells[u][c].post].shown
              THEN ShowRow(cells[u][c].post, newRows[cells[u][c].post])
              ELSE Absent]]

(* fetchPost answers for one post of the load; its handler is queued. *)
Arrive(u, p) ==
  /\ p \in arriving[u]
  /\ arriving' = [arriving EXCEPT ![u] = @ \ {p}]
  /\ handlers' = [handlers EXCEPT ![u] = Append(@,
       [doc |-> "arrival", op |-> "set", post |-> p, val |-> LocalLikes(u, p),
        cell |-> "gone"])]
  /\ UNCHANGED <<server, outbox, rows, cells, arrived, checks, album, loads, taps, faults, skewed>>

(* The handler of fetchPost: the list received so far, in which no post is *)
(* marked as liked, becomes the rows of the screen, and isUserLikedPost is *)
(* called for every post in it.                                            *)
HandleArrival(u) ==
  /\ handlers[u] # <<>>
  /\ LET h == Head(handlers[u])
         newRows == [q \in Posts |->
           IF q = h.post
             THEN [shown |-> TRUE, likes |-> h.val, didLike |-> FALSE]
           ELSE IF q \in arrived[u] THEN [rows[u][q] EXCEPT !.didLike = FALSE]
           ELSE Absent]
     IN  /\ h.doc = "arrival"
         /\ arrived' = [arrived EXCEPT ![u] = @ \cup {h.post}]
         /\ rows' = [rows EXCEPT ![u] = newRows]
         /\ Reload(u, newRows)
         /\ checks' = [checks EXCEPT ![u] =
              [q \in Posts |-> IF newRows[q].shown THEN @[q] + 1 ELSE @[q]]]
  /\ handlers' = [handlers EXCEPT ![u] = Tail(@)]
  /\ UNCHANGED <<server, outbox, arriving, album, loads, taps, faults, skewed>>

(* fetchPost fails: its guards return and the post is missing. *)
ArriveError(u, p) ==
  /\ Fault
  /\ p \in arriving[u]
  /\ arriving' = [arriving EXCEPT ![u] = @ \ {p}]
  /\ UNCHANGED <<server, outbox, handlers, rows, cells, arrived, checks, album, loads,
                 taps, skewed>>

(* cellForItemAt while scrolling: cell c is (re)used for the row of p. *)
Scroll(u, c, p) ==
  /\ rows[u][p].shown
  /\ \A d \in Cells : cells[u][d].shown => cells[u][d].post # p
  /\ cells' = [cells EXCEPT ![u][c] = ShowRow(p, rows[u][p])]
  /\ UNCHANGED <<server, outbox, handlers, rows, arriving, arrived, checks,
                 album, loads, taps, faults, skewed>>

(* ProfileController.fetchPosts: a profile screen of v gets copies of the   *)
(* posts of v, and keeps them.                                              *)
FetchPosts(u, v) ==
  /\ loads < MaxLoads
  /\ loads' = loads + 1
  /\ album' = [album EXCEPT ![u] =
       [p \in Posts |-> IF Owner[p] = v THEN @[p] \cup {LocalLikes(u, p)} ELSE @[p]]]
  /\ UNCHANGED <<server, outbox, handlers, rows, cells, arriving, arrived, checks,
                 taps, faults, skewed>>

(* A FeedController with a post of its own: a copy that a profile fetched    *)
(* some time ago, or one fetched for a notification just now.  fetchPosts    *)
(* returns at once and didLike is never looked up.                           *)
OpenPost(u, p) ==
  /\ loads < MaxLoads
  /\ ~cells[u]["single"].shown
  /\ loads' = loads + 1
  /\ \E n \in album[u][p] \cup {LocalLikes(u, p)} :
       cells' = [cells EXCEPT ![u]["single"] =
         [shown |-> TRUE, post |-> p, likes |-> n, didLike |-> FALSE]]
  /\ UNCHANGED <<server, outbox, handlers, rows, arriving, arrived, checks, album,
                 taps, faults, skewed>>

(* Its completions outlive the screen, but nobody sees their cell. *)
Gone(w) == IF w.cell = "single" THEN [w EXCEPT !.cell = "gone"] ELSE w

ClosePost(u) ==
  /\ cells[u]["single"].shown
  /\ cells' = [cells EXCEPT ![u]["single"] = Absent]
  /\ outbox' = [outbox EXCEPT ![u] = [i \in DOMAIN @ |-> Gone(@[i])]]
  /\ handlers' = [handlers EXCEPT ![u] = [i \in DOMAIN @ |-> Gone(@[i])]]
  /\ UNCHANGED <<server, rows, arriving, arrived, checks, album, loads, taps, faults, skewed>>

(* The two writes a like or an unlike starts with: the number, computed    *)
(* from the copy vm in the cell, and the document under the post.          *)
Writes(op, vm, val, c) ==
  << [doc |-> "counter", op |-> op, post |-> vm.post, val |-> val,
      cell |-> "nobody"],
     [doc |-> "postLike", op |-> op, post |-> vm.post, val |-> val, cell |-> c] >>

(* didLike toggles the flag of the cell before anything else. *)
Toggle(u, c) ==
  /\ taps + faults < MaxEvents
  /\ cells[u][c].shown
  /\ cells' = [cells EXCEPT ![u][c].didLike = ~@]
  /\ taps' = taps + 1
  /\ UNCHANGED <<server, handlers, rows, arriving, arrived, checks, album, loads,
                 faults>>

(* A tap on an empty heart: PostService.likePost. *)
LikePost(u, c) ==
  LET vm == cells[u][c]
  IN  /\ Toggle(u, c)
      /\ ~vm.didLike
      /\ outbox' = [outbox EXCEPT ![u] = @ \o Writes("set", vm, vm.likes + 1, c)]
      /\ skewed' = skewed \ {<<u, vm.post>>}

(* Mutant: unlikePost without its guard. *)
UnlikeUnguarded(u, c) ==
  LET vm == cells[u][c]
  IN  /\ Toggle(u, c)
      /\ vm.didLike
      /\ outbox' = [outbox EXCEPT ![u] = @ \o Writes("delete", vm, vm.likes - 1, c)]
      /\ skewed' = skewed \ {<<u, vm.post>>}

(* A tap on a full heart: PostService.unlikePost, which returns at once, *)
(* the flag already toggled, when the copy shows no likes.               *)
UnlikePost(u, c) ==
  LET vm == cells[u][c]
  IN  /\ Toggle(u, c)
      /\ vm.didLike
      /\ \/ /\ vm.likes > 0
            /\ outbox' = [outbox EXCEPT ![u] = @ \o Writes("delete", vm, vm.likes - 1, c)]
            /\ skewed' = skewed \ {<<u, vm.post>>}
         \/ /\ vm.likes <= 0
            /\ UNCHANGED <<outbox, skewed>>

(* The front of the pipeline leaves it; its completion, if any, is queued. *)
Depart(u) ==
  LET w == Head(outbox[u])
  IN  /\ outbox[u] # <<>>
      /\ outbox' = [outbox EXCEPT ![u] = Tail(@)]
      /\ handlers' = IF w.cell = "nobody" THEN handlers
                       ELSE [handlers EXCEPT ![u] = Append(@, w)]

(* The backend applies the front of the pipeline and acknowledges it. *)
Commit(u) ==
  /\ Depart(u)
  /\ LET w == Head(outbox[u])
     IN  /\ likes' = IF w.doc = "counter" THEN [likes EXCEPT ![w.post] = w.val]
                                          ELSE likes
         /\ postLikes' = IF w.doc = "postLike"
                           THEN Apply(postLikes, w.op, <<u, w.post>>) ELSE postLikes
         /\ userLikes' = IF w.doc = "userLike"
                           THEN Apply(userLikes, w.op, <<u, w.post>>) ELSE userLikes
         /\ notified' = IF w.doc = "notification"
                          THEN notified \cup {<<u, w.post>>} ELSE notified
  /\ UNCHANGED <<screen, taps, faults, skewed>>

(* The backend refuses it for good.  No completion looks at the error. *)
Refuse(u) ==
  /\ Fault
  /\ Depart(u)
  /\ LET w == Head(outbox[u])
     IN skewed' = IF ~IsLeg(w) \/ TwoLeg!Superseded(u, LegOf(w))
                    THEN skewed ELSE skewed \cup {<<u, w.post>>}
  /\ UNCHANGED <<server, screen, taps>>

(* Mutant: unlikePost's handler writes the document under the user. *)
HandleFirstSets(u) ==
  /\ handlers[u] # <<>>
  /\ Head(handlers[u]).doc = "postLike"
  /\ outbox' = [outbox EXCEPT ![u] =
       Append(@, [Head(handlers[u]) EXCEPT !.doc = "userLike", !.op = "set"])]
  /\ handlers' = [handlers EXCEPT ![u] = Tail(@)]
  /\ UNCHANGED <<server, screen, taps, faults, skewed>>

(* The handler of the write under the post issues the one under the user. *)
HandleFirst(u) ==
  /\ handlers[u] # <<>>
  /\ LET h == Head(handlers[u])
     IN  /\ h.doc = "postLike"
         /\ outbox' = [outbox EXCEPT ![u] = Append(@, [h EXCEPT !.doc = "userLike"])]
  /\ handlers' = [handlers EXCEPT ![u] = Tail(@)]
  /\ UNCHANGED <<server, screen, taps, faults, skewed>>

(* Mutant: the guard of addNotification is the wrong way round. *)
AddNotificationToSelf(u, p) ==
  outbox' = IF Owner[p] # u THEN outbox
              ELSE [outbox EXCEPT ![u] =
                      Append(@, [doc |-> "notification", op |-> "set", post |-> p,
                                 val |-> 0, cell |-> "nobody"])]

(* NotificationService.addNotification: nobody notifies themselves. *)
AddNotification(u, p) ==
  outbox' = IF Owner[p] = u THEN outbox
              ELSE [outbox EXCEPT ![u] =
                      Append(@, [doc |-> "notification", op |-> "set", post |-> p,
                                 val |-> 0, cell |-> "nobody"])]

(* Mutant: the completion, not the tap alone, toggles the flag. *)
HandleSecondToggles(u) ==
  /\ handlers[u] # <<>>
  /\ LET h == Head(handlers[u])
     IN  /\ h.doc = "userLike"
         /\ cells' = IF h.cell \in AllCells /\ cells[u][h.cell].shown
                       THEN [cells EXCEPT ![u][h.cell].likes = h.val,
                                          ![u][h.cell].didLike = ~@] ELSE cells
         /\ IF h.op = "set" THEN AddNotification(u, h.post) ELSE UNCHANGED outbox
  /\ handlers' = [handlers EXCEPT ![u] = Tail(@)]
  /\ UNCHANGED <<server, rows, arriving, arrived, checks, album, loads, taps, faults, skewed>>

(* The completion didLike passed in: the cell, whatever post it shows by *)
(* now, gets the number of likes of the post that was tapped.            *)
HandleSecond(u) ==
  /\ handlers[u] # <<>>
  /\ LET h == Head(handlers[u])
     IN  /\ h.doc = "userLike"
         /\ cells' = IF h.cell \in AllCells /\ cells[u][h.cell].shown
                       THEN [cells EXCEPT ![u][h.cell].likes = h.val] ELSE cells
         /\ IF h.op = "set" THEN AddNotification(u, h.post) ELSE UNCHANGED outbox
  /\ handlers' = [handlers EXCEPT ![u] = Tail(@)]
  /\ UNCHANGED <<server, rows, arriving, arrived, checks, album, loads, taps, faults, skewed>>

(* The document asked for by isUserLikedPost arrives, or does not. *)
CheckAnswer(u, p) ==
  /\ checks[u][p] > 0
  /\ checks' = [checks EXCEPT ![u][p] = @ - 1]
  /\ handlers' = [handlers EXCEPT ![u] = Append(@,
       [doc |-> "check", op |-> IF LocallyLiked(u, p) THEN "set" ELSE "delete",
        post |-> p, val |-> 0, cell |-> "gone"])]
  /\ UNCHANGED <<server, outbox, rows, cells, arriving, arrived, album, loads, taps, faults, skewed>>

CheckError(u, p) ==
  /\ Fault
  /\ checks[u][p] > 0
  /\ checks' = [checks EXCEPT ![u][p] = @ - 1]
  /\ UNCHANGED <<server, outbox, handlers, rows, cells, arriving, arrived, album, loads,
                 taps, skewed>>

(* The handler of isUserLikedPost marks the row, if it is still there; *)
(* the assignment reloads the screen.                                  *)
HandleCheck(u) ==
  /\ handlers[u] # <<>>
  /\ LET h == Head(handlers[u])
     IN  /\ h.doc = "check"
         /\ \/ /\ rows[u][h.post].shown
               /\ rows' = [rows EXCEPT ![u][h.post].didLike = (h.op = "set")]
               /\ Reload(u, rows'[u])
            \/ /\ ~rows[u][h.post].shown
               /\ UNCHANGED <<rows, cells>>
  /\ handlers' = [handlers EXCEPT ![u] = Tail(@)]
  /\ UNCHANGED <<server, outbox, arriving, arrived, checks, album, loads, taps, faults, skewed>>

(* A write whose completion died with the process. *)
Orphan(w) == [w EXCEPT !.cell = "nobody"]

(* The process dies: pending writes are restored from disk when it is *)
(* started again; completions, calls and screens are gone.            *)
Kill(u) ==
  /\ Fault
  /\ skewed' = skewed \cup
       {<<u, p>> : p \in {p \in Posts : \/ TwoLeg!HasLeg(Legs(outbox[u]), "first", p)
                                        \/ TwoLeg!HasKey(Calls(handlers[u]), p)}}
  /\ outbox' = [outbox EXCEPT ![u] = [i \in DOMAIN @ |-> Orphan(@[i])]]
  /\ handlers' = [handlers EXCEPT ![u] = <<>>]
  /\ rows' = [rows EXCEPT ![u] = [p \in Posts |-> Absent]]
  /\ cells' = [cells EXCEPT ![u] = [c \in AllCells |-> Absent]]
  /\ arriving' = [arriving EXCEPT ![u] = {}]
  /\ arrived' = [arrived EXCEPT ![u] = {}]
  /\ checks' = [checks EXCEPT ![u] = [p \in Posts |-> 0]]
  /\ album' = [album EXCEPT ![u] = [p \in Posts |-> {}]]
  /\ UNCHANGED <<server, loads, taps>>

Next ==
  \E u \in Users :
    \/ Load(u)
    \/ ClosePost(u)
    \/ Commit(u)
    \/ Refuse(u)
    \/ HandleFirst(u)
    \/ HandleSecond(u)
    \/ HandleArrival(u)
    \/ HandleCheck(u)
    \/ Kill(u)
    \/ \E v \in Users : FetchPosts(u, v)
    \/ \E c \in AllCells : LikePost(u, c) \/ UnlikePost(u, c)
    \/ \E p \in Posts :
         \/ Arrive(u, p)
         \/ ArriveError(u, p)
         \/ OpenPost(u, p)
         \/ CheckAnswer(u, p)
         \/ CheckError(u, p)
         \/ \E c \in Cells : Scroll(u, c, p)

Spec == Init /\ [][Next]_vars
----------------------------------------------------------------------------
(* However stale the copies are that taps compute it from, and whichever   *)
(* cell a completion has put its number into, the likes of a post never    *)
(* become negative and never exceed the number of taps: the guard of       *)
(* unlikePost looks at the same copy the new number is computed from.      *)
CounterInRange == \A p \in Posts : 0 <= likes[p] /\ likes[p] <= taps

(* Nothing about p is still on its way on the device of u. *)
Quiet(u, p) ==
  /\ \A i \in DOMAIN outbox[u] : outbox[u][i].post # p
  /\ \A i \in DOMAIN handlers[u] : handlers[u][i].post # p

(* Without faults, when all is done, the owner of a post has heard of      *)
(* everybody else who likes it, and never of a like of their own.          *)
LikersAnnounced ==
  \A u \in Users, p \in Posts :
    /\ Quiet(u, p) /\ <<u, p>> \in postLikes /\ Owner[p] # u /\ faults = 0
         => <<u, p>> \in notified
    /\ Owner[p] = u => <<u, p>> \notin notified

(* Every step of a like, of its faults and of everything else is a step of *)
(* the two-leg write or leaves it alone, so that the likes under the post  *)
(* and under the user agree at rest as TwoLegWrite promises.               *)
ImplementsTwoLeg == TwoLeg!Spec

(* The heart of a cell, full or empty, is what its taps have asked for so *)
(* far: the last write in the pipeline counts, or else the backend.       *)
HeartRight(u, c) ==
  LET p == cells[u][c].post
      is == Pending(u, "postLike", p)
  IN  cells[u][c].didLike <=> IF is = {} THEN <<u, p>> \in postLikes
                                         ELSE outbox[u][Max(is)].op = "set"

(* A heart that is right goes wrong in three ways only, however taps,      *)
(* completions and reused cells overlap: by a tap that unlikePost's guard  *)
(* drops after the flag was toggled, which the copy's lack of likes shows; *)
(* by a tap on another cell of the same post; or when the cell is filled   *)
(* again from a row that no tap has updated.  Commits and completions of   *)
(* likes never do it.                                                      *)
HeartKept ==
  [][\A u \in Users, c \in AllCells :
       /\ cells[u][c].shown /\ HeartRight(u, c)
       /\ cells'[u][c].shown /\ ~HeartRight(u, c)'
       => \/ faults' > faults
          \/ taps' > taps /\ outbox' = outbox /\ cells[u][c].likes <= 0
          \/ /\ taps' > taps
             /\ \E d \in AllCells \ {c} : /\ cells'[u][d] # cells[u][d]
                                          /\ cells'[u][d].post = cells'[u][c].post
          \/ /\ c \in Cells
             /\ cells'[u][c] = ShowRow(cells'[u][c].post, rows'[u][cells'[u][c].post])]_vars

(* What likePost says of its first write, "Update likes counter increment  *)
(* +1": when the backend applies it for an account that does not like the  *)
(* post yet, the post has one like more than before.                       *)
LikeIncrements ==
  [][\A u \in Users :
       LET w == Head(outbox[u])
       IN  /\ outbox[u] # <<>>
           /\ w.doc = "counter" /\ w.op = "set"
           /\ <<u, w.post>> \notin postLikes
           /\ outbox'[u] = Tail(outbox[u]) /\ faults' = faults
           => likes'[w.post] = likes[w.post] + 1]_vars
============================================================================
