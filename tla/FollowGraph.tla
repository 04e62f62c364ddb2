---------------------------- MODULE FollowGraph ----------------------------
(***************************************************************************)
(* Following a user from profile screens, any number of which may be open  *)
(* for the same user: the Following and Follower collections               *)
(* (UserService), the button of a screen (ProfileController), the          *)
(* notification it sends (NotificationService) and the feed documents it   *)
(* writes and removes (PostService).                                       *)
(*                                                                         *)
(* A tap starts a chain of asynchronous steps, each the completion of the  *)
(* one before: write Following, write Follower, then set the button of the *)
(* tapped screen, send the notification, query the posts of the user and   *)
(* write or delete one feed document for each.  Nothing stops a second tap *)
(* while a chain runs, and nothing tells another screen of the same user.  *)
(***************************************************************************)
EXTENDS Naturals, Sequences, FiniteSets, SequencesExt, Selection

CONSTANTS Users,       \* accounts
          Devices,     \* accounts that are signed in on a device
          Screens,     \* slots for the profile screens of one user on a device
          Posts,       \* post documents
          Owner,       \* the ownerUid of each post
          OldPosts,    \* posts that exist from the start
          MaxOpens,    \* bound on the profile screens opened
          MaxEvents    \* bound on the taps on follow buttons, the posts
                       \* published, the refused writes, failed queries and
                       \* restarts, taken together

ASSUME FollowAssumption ==
  /\ Devices \subseteq Users
  /\ Screens \cap {"gone", "nobody"} = {}
  /\ Owner \in [Posts -> Users]
  /\ OldPosts \subseteq Posts /\ IsFiniteSet(OldPosts)
  /\ MaxOpens \in Nat
  /\ MaxEvents \in Nat

VARIABLES following,   \* <<u, v>>: Following/u/user-following/v exists
          follower,    \* <<u, v>>: Follower/v/user-followers/u exists
          feeds,       \* <<u, p>>: User/u/feeds/p exists
          notified,    \* <<u, v>>: a follow notification of u lies in v's list
          published,   \* the Post collection
          outbox,      \* per device, the write pipeline of its Firestore client
          handlers,    \* per device, completions waiting for the main queue
          queries,     \* per device and user, post queries not yet answered
          button,      \* per device, user and slot, what the screen offers
          loading,     \* <<u, v, s>>: isUserFollowed of an open screen is out
          opens,       \* profile screens opened so far
          taps,        \* taps so far
          faults,      \* faults so far
          skewed,      \* auxiliary: pairs one of whose legs was lost
          stale        \* auxiliary: <<u, v, s>>: another screen of v has been
                       \* tapped since s was opened or tapped last

server == <<following, follower, feeds, notified, published>>
screen == <<button, loading, opens, stale>>
vars == <<server, outbox, handlers, queries, screen, taps, faults, skewed>>

Pairs == Devices \X Users
Ops == {"set", "delete"}

(***************************************************************************)
(* A write, or the completion of one.  "from" is the screen the completion *)
(* reports to: an open one, one that is gone, or nobody, when the write    *)
(* has no completion or lost it in a restart.  A completion of kind "load" *)
(* carries the answer of isUserFollowed, "set" for true, one of kind       *)
(* "query" the posts that updateUserFeed or removeUserFeed asked for.      *)
(***************************************************************************)
Write == [doc : {"following", "follower", "notification", "feed", "load", "query"},
          op : Ops, uid : Users, posts : SUBSET Posts,
          from : Screens \cup {"gone", "nobody"}]

About(doc, op, v, from) ==
  [doc |-> doc, op |-> op, uid |-> v, posts |-> {}, from |-> from]

Apply(docs, op, doc) == IF op = "set" THEN docs \cup {doc} ELSE docs \ {doc}

----------------------------------------------------------------------------
(* The two legs inside the outbox and the handlers, as TwoLegWrite sees them. *)
IsLeg(w) == w.doc \in {"following", "follower"}
IsFirst(w) == w.doc = "following"

LegOf(w) ==
  [leg |-> IF w.doc = "follower" THEN "second"
             ELSE IF w.from = "nobody" THEN "bare" ELSE "first",
   op |-> w.op, key |-> w.uid]

CallOf(h) == [op |-> h.op, key |-> h.uid]

Legs(s) == CompactMap(s, [w \in {w \in Write : IsLeg(w)} |-> LegOf(w)])
Calls(s) == CompactMap(s, [h \in {h \in Write : IsFirst(h)} |-> CallOf(h)])

TwoLeg == INSTANCE TwoLegWrite WITH
            Clients <- Devices, Keys <- Users, MaxPending <- MaxEvents,
            primary <- following, mirror <- follower,
            outbox <- [u \in Devices |-> Legs(outbox[u])],
            handlers <- [u \in Devices |-> Calls(handlers[u])]

----------------------------------------------------------------------------
Init ==
  /\ following = {}
  /\ follower = {}
  /\ feeds = {}
  /\ notified = {}
  /\ published = OldPosts
  /\ outbox = [u \in Devices |-> <<>>]
  /\ handlers = [u \in Devices |-> <<>>]
  /\ queries = [u \in Devices |-> [v \in Users |-> <<>>]]
  /\ button = [u \in Devices |-> [v \in Users |-> [s \in Screens |-> "closed"]]]
  /\ loading = {}
  /\ opens = 0
  /\ taps = 0
  /\ faults = 0
  /\ skewed = {}
  /\ stale = {}

(* The events there were so far. *)
Events == taps + faults + Cardinality(published \ OldPosts)

(* One more fault. *)
Fault == Events < MaxEvents /\ faults' = faults + 1

(* A search row, the feed's username or a notification pushes a new        *)
(* ProfileController, in its tab's own stack, whatever screens of the same *)
(* user are open already.  The button says Follow until viewDidLoad's      *)
(* isUserFollowed is answered.                                             *)
Open(u, v, s) ==
  /\ u # v
  /\ opens < MaxOpens
  /\ opens' = opens + 1
  /\ button[u][v][s] = "closed"
  /\ button' = [button EXCEPT ![u][v][s] = "Follow"]
  /\ loading' = loading \cup {<<u, v, s>>}
  /\ UNCHANGED <<server, outbox, handlers, queries, taps, faults, skewed, stale>>

(* The screen goes away.  Its completions still run, but what they set is *)
(* the user of a controller that nobody sees any more.                    *)
Gone(v, s, w) == IF w.uid = v /\ w.from = s THEN [w EXCEPT !.from = "gone"]
                                            ELSE w

Close(u, v, s) ==
  /\ button[u][v][s] # "closed"
  /\ button' = [button EXCEPT ![u][v][s] = "closed"]
  /\ loading' = loading \ {<<u, v, s>>}
  /\ stale' = stale \ {<<u, v, s>>}
  /\ outbox' = [outbox EXCEPT ![u] = [i \in DOMAIN @ |-> Gone(v, s, @[i])]]
  /\ handlers' = [handlers EXCEPT ![u] = [i \in DOMAIN @ |-> Gone(v, s, @[i])]]
  /\ UNCHANGED <<server, queries, opens, taps, faults, skewed>>

(* Mutant: the answer ignores the writes that are still in the pipeline. *)
LocallyFollowsOnServer(u, v) == <<u, v>> \in following

(* The Following document of v as the client of u sees it: the server's, *)
(* overlaid with the writes that are still in the pipeline.              *)
LocallyFollows(u, v) ==
  LET pending == {i \in DOMAIN outbox[u] : /\ outbox[u][i].doc = "following"
                                           /\ outbox[u][i].uid = v}
  IN  IF pending = {} THEN <<u, v>> \in following
                      ELSE outbox[u][Max(pending)].op = "set"

(* The document asked for by isUserFollowed arrives; its handler is queued. *)
LoadAnswer(u, v, s) ==
  /\ <<u, v, s>> \in loading
  /\ handlers' = [handlers EXCEPT ![u] =
       Append(@, About("load", IF LocallyFollows(u, v) THEN "set" ELSE "delete",
                       v, s))]
  /\ loading' = loading \ {<<u, v, s>>}
  /\ UNCHANGED <<server, outbox, queries, button, opens, taps, faults, skewed, stale>>

(* isUserFollowed fails: "guard let isFollowed" returns without an answer. *)
LoadError(u, v, s) ==
  /\ Fault
  /\ <<u, v, s>> \in loading
  /\ loading' = loading \ {<<u, v, s>>}
  /\ UNCHANGED <<server, outbox, handlers, queries, button, opens, taps, skewed, stale>>

(* The screens of v that are open beside s. *)
Others(u, v, s) == {t \in Screens \ {s} : button[u][v][t] # "closed"}

(* A tap on the button: UserService.follow or unFollow, as the user the *)
(* header shows is followed or not.                                     *)
Tap(u, v, s) ==
  /\ Events < MaxEvents
  /\ button[u][v][s] # "closed"
  /\ LET op == IF button[u][v][s] = "Following" THEN "delete" ELSE "set"
     IN outbox' = [outbox EXCEPT ![u] =
                     Append(@, About("following", op, v, s))]
  /\ taps' = taps + 1
  /\ skewed' = skewed \ {<<u, v>>}
  /\ stale' = (stale \ {<<u, v, s>>}) \cup ({u} \X {v} \X Others(u, v, s))
  /\ UNCHANGED <<server, handlers, queries, button, loading, opens, faults>>

(* Some account's postAnImage reaches the Post collection. *)
Publish(p) ==
  /\ Events < MaxEvents
  /\ p \notin published
  /\ published' = published \cup {p}
  /\ UNCHANGED <<following, follower, feeds, notified, outbox, handlers,
                 queries, screen, taps, faults, skewed>>

(* The front of the pipeline leaves it; its completion, if any, is queued. *)
Depart(u) ==
  LET w == Head(outbox[u])
  IN  /\ outbox[u] # <<>>
      /\ outbox' = [outbox EXCEPT ![u] = Tail(@)]
      /\ handlers' = IF w.from = "nobody" THEN handlers
                       ELSE [handlers EXCEPT ![u] = Append(@, w)]

(* The backend applies the front of the pipeline and acknowledges it. *)
Commit(u) ==
  /\ Depart(u)
  /\ LET w == Head(outbox[u])
     IN  /\ following' = IF w.doc = "following"
                           THEN Apply(following, w.op, <<u, w.uid>>) ELSE following
         /\ follower' = IF w.doc = "follower"
                          THEN Apply(follower, w.op, <<u, w.uid>>) ELSE follower
         /\ notified' = IF w.doc = "notification"
                          THEN notified \cup {<<u, w.uid>>} ELSE notified
         /\ feeds' = IF w.doc = "feed"
                       THEN (IF w.op = "set" THEN feeds \cup ({u} \X w.posts)
                                        ELSE feeds \ ({u} \X w.posts))
                       ELSE feeds
  /\ UNCHANGED <<published, queries, screen, taps, faults, skewed>>

(* The backend refuses it for good.  No completion looks at the error. *)
Refuse(u) ==
  /\ Fault
  /\ Depart(u)
  /\ LET w == Head(outbox[u])
     IN skewed' = IF ~IsLeg(w) \/ TwoLeg!Superseded(u, LegOf(w))
                    THEN skewed ELSE skewed \cup {<<u, w.uid>>}
  /\ UNCHANGED <<server, queries, screen, taps>>

(* Mutant: unFollow's handler writes the Follower document like follow's. *)
HandleFirstSets(u) ==
  /\ handlers[u] # <<>>
  /\ Head(handlers[u]).doc = "following"
  /\ outbox' = [outbox EXCEPT ![u] =
       Append(@, [Head(handlers[u]) EXCEPT !.doc = "follower", !.op = "set"])]
  /\ handlers' = [handlers EXCEPT ![u] = Tail(@)]
  /\ UNCHANGED <<server, queries, screen, taps, faults, skewed>>

(* Mutant: the handler of the Following write stops there. *)
HandleFirstOnly(u) ==
  /\ handlers[u] # <<>>
  /\ Head(handlers[u]).doc = "following"
  /\ handlers' = [handlers EXCEPT ![u] = Tail(@)]
  /\ UNCHANGED <<server, outbox, queries, screen, taps, faults, skewed>>

(* The handler of the Following write issues the Follower write. *)
HandleFirst(u) ==
  /\ handlers[u] # <<>>
  /\ LET h == Head(handlers[u])
     IN  /\ h.doc = "following"
         /\ outbox' = [outbox EXCEPT ![u] = Append(@, [h EXCEPT !.doc = "follower"])]
  /\ handlers' = [handlers EXCEPT ![u] = Tail(@)]
  /\ UNCHANGED <<server, queries, screen, taps, faults, skewed>>

(* self.user.isFollowed = ... followed by the reload of the header. *)
ShowFollowed(u, h) ==
  button' = IF h.from \in Screens
              THEN [button EXCEPT ![u][h.uid][h.from] =
                      IF h.op = "set" THEN "Following" ELSE "Follow"]
              ELSE button

(* Mutant: the completion of follow forgets addNotification. *)
HandleSecondSilent(u) ==
  /\ handlers[u] # <<>>
  /\ Head(handlers[u]).doc = "follower"
  /\ ShowFollowed(u, Head(handlers[u]))
  /\ queries' = [queries EXCEPT ![u][Head(handlers[u]).uid] =
                   Append(@, Head(handlers[u]).op)]
  /\ handlers' = [handlers EXCEPT ![u] = Tail(@)]
  /\ UNCHANGED <<server, outbox, loading, opens, taps, faults, skewed, stale>>

(* The handler of the Follower write, the completion the screen passed in: *)
(* isFollowed, addNotification when following, then updateUserFeed or      *)
(* removeUserFeed, both of which first query the posts of the user.        *)
HandleSecond(u) ==
  /\ handlers[u] # <<>>
  /\ LET h == Head(handlers[u])
     IN  /\ h.doc = "follower"
         /\ ShowFollowed(u, h)
         /\ outbox' = IF h.op = "set"
                        THEN [outbox EXCEPT ![u] =
                                Append(@, About("notification", "set", h.uid, "nobody"))]
                        ELSE outbox
         /\ queries' = [queries EXCEPT ![u][h.uid] = Append(@, h.op)]
  /\ handlers' = [handlers EXCEPT ![u] = Tail(@)]
  /\ UNCHANGED <<server, loading, opens, taps, faults, skewed, stale>>

(* The handler of isUserFollowed. *)
HandleLoad(u) ==
  /\ handlers[u] # <<>>
  /\ LET h == Head(handlers[u])
     IN h.doc = "load" /\ ShowFollowed(u, h)
  /\ handlers' = [handlers EXCEPT ![u] = Tail(@)]
  /\ UNCHANGED <<server, outbox, queries, loading, opens, taps, faults, skewed, stale>>

PostsOf(v) == {p \in published : Owner[p] = v}

(* Mutant: the youngest query is answered first. *)
QueryAnswerYoungest(u, v) ==
  /\ queries[u][v] # <<>>
  /\ handlers' = [handlers EXCEPT ![u] =
       Append(@, [About("query", Last(queries[u][v]), v, "gone")
                    EXCEPT !.posts = PostsOf(v)])]
  /\ queries' = [queries EXCEPT ![u][v] = Front(@)]
  /\ UNCHANGED <<server, outbox, screen, taps, faults, skewed>>

(* The oldest query about v is answered with the posts v has by now. *)
QueryAnswer(u, v) ==
  /\ queries[u][v] # <<>>
  /\ handlers' = [handlers EXCEPT ![u] =
       Append(@, [About("query", Head(queries[u][v]), v, "gone")
                    EXCEPT !.posts = PostsOf(v)])]
  /\ queries' = [queries EXCEPT ![u][v] = Tail(@)]
  /\ UNCHANGED <<server, outbox, screen, taps, faults, skewed>>

(* The handler of the query: one feed write or deletion for every post, in *)
(* the order of the documents.                                             *)
HandleQuery(u) ==
  /\ handlers[u] # <<>>
  /\ LET h == Head(handlers[u])
         docs == SetToSeq(h.posts)
     IN  /\ h.doc = "query"
         /\ outbox' = [outbox EXCEPT ![u] = @ \o
              [i \in DOMAIN docs |-> [About("feed", h.op, h.uid, "nobody")
                                        EXCEPT !.posts = {docs[i]}]]]
  /\ handlers' = [handlers EXCEPT ![u] = Tail(@)]
  /\ UNCHANGED <<server, queries, screen, taps, faults, skewed>>

(* A write whose completion died with the process. *)
Orphan(w) == [w EXCEPT !.from = "nobody"]

(* The process of u dies: pending writes are restored from disk when it is *)
(* started again, while completions, queries and screens are gone.         *)
Die(u) ==
  /\ Fault
  /\ skewed' = skewed \cup
       {<<u, v>> : v \in {v \in Users : \/ TwoLeg!HasLeg(Legs(outbox[u]), "first", v)
                                        \/ TwoLeg!HasKey(Calls(handlers[u]), v)}}
  /\ outbox' = [outbox EXCEPT ![u] = [i \in DOMAIN @ |-> Orphan(@[i])]]
  /\ handlers' = [handlers EXCEPT ![u] = <<>>]
  /\ queries' = [queries EXCEPT ![u] = [v \in Users |-> <<>>]]
  /\ button' = [button EXCEPT ![u] = [v \in Users |-> [s \in Screens |-> "closed"]]]
  /\ loading' = {l \in loading : l[1] # u}
  /\ stale' = {l \in stale : l[1] # u}
  /\ UNCHANGED <<server, opens, taps>>

(* The query of updateUserFeed fails: "guard let documents" gives up. *)
UpdateError(u, v) ==
  /\ Fault
  /\ queries[u][v] # <<>>
  /\ Head(queries[u][v]) = "set"
  /\ queries' = [queries EXCEPT ![u][v] = Tail(@)]
  /\ UNCHANGED <<server, outbox, handlers, screen, taps, skewed>>

(* The query of removeUserFeed fails: "snapshot!" ends the process. *)
RemoveError(u, v) ==
  /\ queries[u][v] # <<>>
  /\ Head(queries[u][v]) = "delete"
  /\ Die(u)

Handle(u) ==
  \/ HandleFirst(u)
  \/ HandleSecond(u)
  \/ HandleLoad(u)
  \/ HandleQuery(u)

Next ==
  \/ \E u \in Devices :
       \/ Commit(u)
       \/ Handle(u)
       \/ Refuse(u)
       \/ Die(u)
       \/ \E v \in Users :
            \/ QueryAnswer(u, v)
            \/ UpdateError(u, v)
            \/ RemoveError(u, v)
            \/ \E s \in Screens :
                 \/ Open(u, v, s)
                 \/ Close(u, v, s)
                 \/ Tap(u, v, s)
                 \/ LoadAnswer(u, v, s)
                 \/ LoadError(u, v, s)
  \/ \E p \in Posts : Publish(p)

Spec == Init /\ [][Next]_vars

(* The network and the main queue make progress; users need not. *)
Fairness ==
  \A u \in Devices :
    /\ WF_vars(Commit(u))
    /\ WF_vars(Handle(u))
    /\ \A v \in Users :
         /\ WF_vars(QueryAnswer(u, v))
         /\ \A s \in Screens : WF_vars(LoadAnswer(u, v, s))

FairSpec == Spec /\ Fairness
----------------------------------------------------------------------------
(* Nothing about v is still on its way on the device of u. *)
Quiet(u, v) ==
  /\ \A i \in DOMAIN outbox[u] : outbox[u][i].uid # v
  /\ \A i \in DOMAIN handlers[u] : handlers[u][i].uid # v
  /\ queries[u][v] = <<>>
  /\ \A s \in Screens : <<u, v, s>> \notin loading

(* The screen is open, and no other screen of v has been tapped since it    *)
(* was opened or tapped itself.                                             *)
Current(u, v, s) == button[u][v][s] # "closed" /\ <<u, v, s>> \notin stale

(* Without faults, a profile screen that has come to rest offers "Follow"  *)
(* exactly for the users that are not followed: however its taps, its load *)
(* of isUserFollowed, chains of other screens of the same user that are    *)
(* still running and the closing and reopening of screens overlapped.      *)
(* Only a screen that a later tap on another one passed over is left out:  *)
(* nothing tells it.                                                       *)
ButtonTruthful ==
  \A u \in Devices, v \in Users, s \in Screens :
    Quiet(u, v) /\ Current(u, v, s) /\ faults = 0
      => (button[u][v][s] = "Following" <=> <<u, v>> \in following)

(* Without faults, once nothing is on its way, the feed of u holds every   *)
(* post that a followed user had when the system started, and no post at   *)
(* all of a user who is not followed: updateUserFeed and removeUserFeed    *)
(* of overlapping chains undo each other in the order of the taps.         *)
FeedMatchesFollow ==
  \A u \in Devices, v \in Users :
    Quiet(u, v) /\ faults = 0 =>
      IF <<u, v>> \in following
        THEN \A p \in OldPosts : Owner[p] = v => <<u, p>> \in feeds
        ELSE \A p \in Posts : Owner[p] = v => <<u, p>> \notin feeds

(* Without faults, nobody is followed in silence: when all is done, the *)
(* followed user has the notification of addNotification.               *)
FollowersAnnounced ==
  \A u \in Devices, v \in Users :
    Quiet(u, v) /\ <<u, v>> \in follower /\ faults = 0 => <<u, v>> \in notified

(* Every step of the follow chain, of its faults and of everything else in *)
(* the pipeline is a step of the two-leg write or leaves it alone, so that *)
(* Following and Follower agree at rest as TwoLegWrite promises.  This is  *)
(* TwoLeg!Spec, written so that stutters, which are most steps, come first.*)
ImplementsTwoLeg ==
  TwoLeg!Init /\ [][UNCHANGED TwoLeg!vars \/ TwoLeg!Next]_(TwoLeg!vars)

(* Without faults, the copies and the open screens, but for those passed   *)
(* over by a later tap on another one, agree for good in the end: every    *)
(* chain that was started is finished, its button included.                *)
ChainsSettle ==
  \A u \in Devices, v \in Users :
    <>[](\/ faults > 0
         \/ /\ <<u, v>> \in following <=> <<u, v>> \in follower
            /\ \A s \in Screens : Current(u, v, s) =>
                 (button[u][v][s] = "Following" <=> <<u, v>> \in follower))
============================================================================
