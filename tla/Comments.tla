------------------------------ MODULE Comments ------------------------------
(***************************************************************************)
(* The comments of one post: CommentController with                        *)
(* CommentService.uploadComment and fetchComments.                         *)
(*                                                                         *)
(* Every comment screen registers a snapshot listener that is never        *)
(* removed and appends what the listener calls "added" to a list of its    *)
(* own; it ignores "removed".  The Firestore client shows a comment of     *)
(* this device before the backend has it, and takes it back when the       *)
(* backend refuses it.  The input field is cleared when the backend has    *)
(* answered, whatever was typed meanwhile.                                 *)
(***************************************************************************)
EXTENDS Integers, Sequences, FiniteSets, SequencesExt

CONSTANTS Users,       \* accounts, each signed in on one device
          Owner,       \* the ownerUid of the post
          MaxComments, \* bound on the comments made
          MaxScreens,  \* bound on the comment screens that are in memory
          MaxTexts,    \* bound on the texts typed
          MaxFaults    \* bound on refused comments and restarts

ASSUME CommentsAssumption ==
  /\ Owner \in Users
  /\ MaxComments \in Nat
  /\ MaxScreens \in Nat
  /\ MaxTexts \in Nat
  /\ MaxFaults \in Nat

VARIABLES made,        \* the comments made so far; a comment is an index of it
          comments,    \* the collection Post/.../comments on the backend
          announced,   \* comments whose notification the owner has
          cache,       \* per device, comments its Firestore client has cached
          outbox,      \* per device, the write pipeline of its Firestore client
          handlers,    \* per device, callbacks waiting for the main queue
          screens,     \* per device, the comment screens opened, by age
          texts,       \* texts typed so far
          faults,      \* faults so far
          refused,     \* auxiliary: comments that the backend has refused
          calm         \* auxiliary: texts typed when nothing was on its way

vars == <<made, comments, announced, cache, outbox, handlers, screens, texts,
          faults, refused, calm>>

Ids == 1 .. MaxComments
Nothing == 0           \* the text of an empty input field
Comment == [author : Users, text : 0 .. MaxTexts]
Screen == [open : BOOLEAN, list : Seq(Ids), input : 0 .. MaxTexts]

(***************************************************************************)
(* A write names the screen whose completion it has, 0 for none.  A        *)
(* callback is the completion of a comment's write or a snapshot, the      *)
(* comments that the listener of a screen is told were added.              *)
(***************************************************************************)
Write == [kind : {"comment", "notification"}, id : Ids, screen : 0 .. MaxScreens]
Callback == [kind : {"posted", "snapshot"}, ids : Seq(Ids), screen : 1 .. MaxScreens]

Init ==
  /\ made = <<>>
  /\ comments = {}
  /\ announced = {}
  /\ cache = [u \in Users |-> {}]
  /\ outbox = [u \in Users |-> <<>>]
  /\ handlers = [u \in Users |-> <<>>]
  /\ screens = [u \in Users |-> <<>>]
  /\ texts = 0
  /\ faults = 0
  /\ refused = {}
  /\ calm = {}

(* The query's documents on a device: pending comments of its own count. *)
View(u) ==
  cache[u] \cup {outbox[u][i].id : i \in {i \in DOMAIN outbox[u] :
                                            outbox[u][i].kind = "comment"}}

(* "order(by: timestamp, descending: true)": the youngest comes first. *)
NewestFirst(S) ==
  CHOOSE r \in SetToSeqs(S) : \A i, j \in DOMAIN r : i < j => r[i] > r[j]

(* One snapshot for each of the listeners of the screens from first to last. *)
Snapshots(first, last, added) ==
  IF added = {} THEN <<>>
  ELSE [i \in 1 .. last - first + 1 |->
          [kind |-> "snapshot", ids |-> NewestFirst(added), screen |-> first + i - 1]]

(* viewDidLoad: the new listener is told of all that is known. *)
Open(u) ==
  /\ Cardinality(UNION {{v} \X DOMAIN screens[v] : v \in Users}) < MaxScreens
  /\ screens' = [screens EXCEPT ![u] =
                   Append(@, [open |-> TRUE, list |-> <<>>, input |-> Nothing])]
  /\ handlers' = [handlers EXCEPT ![u] =
                    @ \o Snapshots(Len(screens[u]) + 1, Len(screens[u]) + 1, View(u))]
  /\ UNCHANGED <<made, comments, announced, cache, outbox, texts, faults,
                 refused, calm>>

(* The screen goes away; its listener and its completions stay. *)
Close(u, s) ==
  /\ screens[u][s].open
  /\ screens' = [screens EXCEPT ![u][s].open = FALSE]
  /\ UNCHANGED <<made, comments, announced, cache, outbox, handlers, texts, faults,
                 refused, calm>>

(* Comments of the screen whose completion has not run yet. *)
PostsOf(u, s) ==
  {outbox[u][i].id : i \in {i \in DOMAIN outbox[u] : outbox[u][i].screen = s}}
    \cup {Head(handlers[u][i].ids) :
            i \in {i \in DOMAIN handlers[u] : /\ handlers[u][i].kind = "posted"
                                             /\ handlers[u][i].screen = s}}

(* The user replaces the text of the input field. *)
Type(u, s) ==
  /\ screens[u][s].open
  /\ texts < MaxTexts
  /\ texts' = texts + 1
  /\ screens' = [screens EXCEPT ![u][s].input = texts + 1]
  /\ calm' = (calm \ {screens[u][s].input})
               \cup (IF PostsOf(u, s) = {} THEN {texts + 1} ELSE {})
  /\ UNCHANGED <<made, comments, announced, cache, outbox, handlers, faults,
                 refused>>

(* The Post button, CommentController.inputView(_:uploadText:) and          *)
(* uploadComment.  Nothing asks whether the field is empty or whether the   *)
(* comment before is still on its way.                                      *)
OnTapPost(u, s) ==
  LET id == Len(made) + 1
  IN  /\ screens[u][s].open
      /\ Len(made) < MaxComments
      /\ made' = Append(made, [author |-> u, text |-> screens[u][s].input])
      /\ outbox' = [outbox EXCEPT ![u] =
                      Append(@, [kind |-> "comment", id |-> id, screen |-> s])]
      /\ handlers' = [handlers EXCEPT ![u] =
                        @ \o Snapshots(1, Len(screens[u]), {id})]
      /\ UNCHANGED <<comments, announced, cache, screens, texts, faults,
                 refused, calm>>

(* The front of the pipeline leaves it; its completion, if any, is queued. *)
Depart(u) ==
  LET w == Head(outbox[u])
  IN  /\ outbox[u] # <<>>
      /\ outbox' = [outbox EXCEPT ![u] = Tail(@)]
      /\ handlers' = IF w.screen = 0 THEN handlers
                       ELSE [handlers EXCEPT ![u] = Append(@,
                              [kind |-> "posted", ids |-> <<w.id>>, screen |-> w.screen])]

(* The backend applies the front of the pipeline and acknowledges it; the *)
(* client keeps what it wrote in its cache.                               *)
Commit(u) ==
  /\ Depart(u)
  /\ LET w == Head(outbox[u])
     IN  \/ /\ w.kind = "comment"
            /\ comments' = comments \cup {w.id}
            /\ cache' = [cache EXCEPT ![u] = @ \cup {w.id}]
            /\ UNCHANGED announced
         \/ /\ w.kind = "notification"
            /\ announced' = announced \cup {w.id}
            /\ UNCHANGED <<comments, cache>>
  /\ UNCHANGED <<made, screens, texts, faults,
                 refused, calm>>

(* One more fault. *)
Fault == faults < MaxFaults /\ faults' = faults + 1

(* The backend refuses it.  The completion does not look at the error, and *)
(* the listeners are told of a removal, which they ignore.                 *)
Refuse(u) ==
  /\ Fault
  /\ Depart(u)
  /\ LET w == Head(outbox[u])
     IN refused' = IF w.kind = "comment" THEN refused \cup {w.id} ELSE refused
  /\ UNCHANGED <<made, comments, announced, cache, screens, texts, calm>>

(* The backend tells the listeners of a device what it has by now. *)
Sync(u) ==
  /\ screens[u] # <<>>
  /\ cache[u] # comments
  /\ cache' = [cache EXCEPT ![u] = comments]
  /\ handlers' = [handlers EXCEPT ![u] =
                    @ \o Snapshots(1, Len(screens[u]), comments \ View(u))]
  /\ UNCHANGED <<made, comments, announced, outbox, screens, texts, faults,
                 refused, calm>>

(* Mutant: every snapshot starts a new list. *)
HandleSnapshotAnew(u) ==
  /\ handlers[u] # <<>>
  /\ LET h == Head(handlers[u])
     IN  /\ h.kind = "snapshot"
         /\ screens' = [screens EXCEPT ![u][h.screen].list = h.ids]
  /\ handlers' = [handlers EXCEPT ![u] = Tail(@)]
  /\ UNCHANGED <<made, comments, announced, cache, outbox, texts, faults,
                 refused, calm>>

(* The listener: what was added goes to the end of the list. *)
HandleSnapshot(u) ==
  /\ handlers[u] # <<>>
  /\ LET h == Head(handlers[u])
     IN  /\ h.kind = "snapshot"
         /\ screens' = [screens EXCEPT ![u][h.screen].list = @ \o h.ids]
  /\ handlers' = [handlers EXCEPT ![u] = Tail(@)]
  /\ UNCHANGED <<made, comments, announced, cache, outbox, texts, faults,
                 refused, calm>>

(* Mutant: owners are told of their own comments. *)
AddNotificationToAll(u, id) ==
  outbox' = [outbox EXCEPT ![u] =
               Append(@, [kind |-> "notification", id |-> id, screen |-> 0])]

(* NotificationService.addNotification: nobody notifies themselves. *)
AddNotification(u, id) ==
  outbox' = IF Owner = u THEN outbox
              ELSE [outbox EXCEPT ![u] =
                      Append(@, [kind |-> "notification", id |-> id, screen |-> 0])]

(* Mutant: the input field keeps its text. *)
HandlePostedKeeps(u) ==
  /\ handlers[u] # <<>>
  /\ Head(handlers[u]).kind = "posted"
  /\ AddNotification(u, Head(Head(handlers[u]).ids))
  /\ handlers' = [handlers EXCEPT ![u] = Tail(@)]
  /\ UNCHANGED <<made, comments, announced, cache, screens, texts, faults,
                 refused, calm>>

(* Mutant: the input fields of all comment screens are cleared. *)
HandlePostedEverywhere(u) ==
  /\ handlers[u] # <<>>
  /\ LET h == Head(handlers[u])
     IN  /\ h.kind = "posted"
         /\ screens' = [screens EXCEPT ![u] =
              [s \in DOMAIN @ |-> [@[s] EXCEPT !.input = Nothing]]]
         /\ AddNotification(u, Head(h.ids))
  /\ handlers' = [handlers EXCEPT ![u] = Tail(@)]
  /\ UNCHANGED <<made, comments, announced, cache, texts, faults,
                 refused, calm>>

(* The completion of uploadComment: clearInputText and addNotification. *)
HandlePosted(u) ==
  /\ handlers[u] # <<>>
  /\ LET h == Head(handlers[u])
     IN  /\ h.kind = "posted"
         /\ screens' = [screens EXCEPT ![u][h.screen].input = Nothing]
         /\ AddNotification(u, Head(h.ids))
  /\ handlers' = [handlers EXCEPT ![u] = Tail(@)]
  /\ UNCHANGED <<made, comments, announced, cache, texts, faults,
                 refused, calm>>

(* The process dies: pending writes and the cache are on disk, callbacks, *)
(* listeners and screens are gone.                                        *)
Kill(u) ==
  /\ Fault
  /\ outbox' = [outbox EXCEPT ![u] =
                  [i \in DOMAIN @ |-> [@[i] EXCEPT !.screen = 0]]]
  /\ handlers' = [handlers EXCEPT ![u] = <<>>]
  /\ screens' = [screens EXCEPT ![u] = <<>>]
  /\ calm' = calm \ {screens[u][s].input : s \in DOMAIN screens[u]}
  /\ UNCHANGED <<made, comments, announced, cache, texts, refused>>

Handle(u) == HandleSnapshot(u) \/ HandlePosted(u)

Next ==
  \E u \in Users :
    \/ Open(u)
    \/ Commit(u)
    \/ Refuse(u)
    \/ Sync(u)
    \/ Handle(u)
    \/ Kill(u)
    \/ \E s \in DOMAIN screens[u] :
         \/ Close(u, s)
         \/ Type(u, s)
         \/ OnTapPost(u, s)

Spec == Init /\ [][Next]_vars

(* The network and the main queue make progress; users need not. *)
Fairness == \A u \in Users : WF_vars(Commit(u)) /\ WF_vars(Sync(u)) /\ WF_vars(Handle(u))

FairSpec == Spec /\ Fairness
----------------------------------------------------------------------------
(* Nothing is on its way on the device of u, in either direction. *)
Quiet(u) == outbox[u] = <<>> /\ handlers[u] = <<>> /\ cache[u] = comments

(* No comment is ever listed twice, and a screen that has come to rest     *)
(* lists every comment of the backend and nothing else but comments that   *)
(* were refused: whatever was shown before the backend had it, and however *)
(* the listeners of several screens, the cache and restarts overlapped.    *)
ListExact ==
  \A u \in Users : \A s \in DOMAIN screens[u] :
    LET list == screens[u][s].list
    IN  /\ IsInjective(list)
        /\ Quiet(u) => /\ comments \subseteq Range(list)
                       /\ Range(list) \subseteq comments \cup refused

(* Without faults, the owner is told of everybody else's comments when all *)
(* is done, and never of their own.                                        *)
CommentersAnnounced ==
  \A i \in DOMAIN made :
    IF made[i].author = Owner THEN i \notin announced
    ELSE Quiet(made[i].author) /\ i \in comments /\ faults = 0 => i \in announced

(* A text is posted a second time only while the completion of the first   *)
(* time is out: an acknowledged comment is never repeated by one more tap. *)
RepeatedOnlyWhilePending ==
  [][\A i \in DOMAIN made :
       Len(made') > Len(made) /\ Last(made') = made[i] /\ made[i].text # Nothing =>
         LET u == made[i].author
         IN  \/ \E k \in DOMAIN outbox[u] :
                  outbox[u][k].kind = "comment" /\ outbox[u][k].id = i
             \/ \E k \in DOMAIN handlers[u] :
                  handlers[u][k].kind = "posted" /\ handlers[u][k].ids = <<i>>]_vars

(* A text is lost without having been posted only when it was typed while  *)
(* a comment of the same screen was on its way, whose completion then      *)
(* clears the field: one that was typed before or after is still in its    *)
(* field or has become a comment.                                          *)
TypedKept ==
  \A t \in calm :
    \/ \E u \in Users : \E s \in DOMAIN screens[u] : screens[u][s].input = t
    \/ \E i \in DOMAIN made : made[i].text = t

(* Without faults, in the end every comment screen lists every comment. *)
CommentsArrive ==
  \A u \in Users :
    <>[](\/ faults > 0
         \/ \A s \in DOMAIN screens[u] : Range(screens[u][s].list) = comments)
============================================================================
