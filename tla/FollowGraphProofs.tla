-------------------------- MODULE FollowGraphProofs --------------------------
(***************************************************************************)
(* Proofs that, however the taps of a device overlap and however its       *)
(* profile screens come and go, without faults the buttons, the feed and   *)
(* the notifications at rest are those of whom its user follows, for any   *)
(* users, posts and screens and any number of taps; and that following,    *)
(* faults included, refines the abstract two-leg write.                    *)
(***************************************************************************)
EXTENDS FollowGraph, SequenceLemmas

----------------------------------------------------------------------------
(* A write or a completion about finitely many posts. *)
Message == {w \in Write : IsFiniteSet(w.posts)}

(* The types of what the properties depend on. *)
TypeInv ==
  /\ outbox \in Queues(Devices, Message)
  /\ handlers \in Queues(Devices, Message)
  /\ queries \in [Devices -> [Users -> Seq(Ops)]]
  /\ button \in [Devices -> [Users -> [Screens -> {"closed", "Follow", "Following"}]]]
  /\ published \subseteq Posts
  /\ OldPosts \subseteq published
  /\ IsFiniteSet(published)
  /\ faults \in Nat

(* The writes and completions about v; those of one kind, all of them or    *)
(* those of the screen s; those with an operation; those that the screen s  *)
(* waits for, and those that set its button.                                *)
Concerning(v) == {w \in Message : w.uid = v}
Stage(doc, v) == {w \in Message : w.doc = doc /\ w.uid = v}
OpenLeg(doc, v, s) == {w \in Message : w.doc = doc /\ w.uid = v /\ w.from = s}
OpIs(op) == {w \in Message : w.op = op}
OpenOf(v, s) == {w \in Message : w.uid = v /\ w.from = s}
Setting(v, s) == {w \in Message : w.uid = v /\ w.from = s /\ w.doc \in {"load", "follower"}}
SetFollower(v) == {w \in Message : w.doc = "follower" /\ w.uid = v /\ w.op = "set"}
FeedOf(v, p) == {w \in Message : w.doc = "feed" /\ w.uid = v /\ w.posts = {p}}
AnsweredWith(v, p) == {w \in Message : w.doc = "query" /\ w.uid = v /\ p \in w.posts}
AnsweredWithout(v, p) == {w \in Message : w.doc = "query" /\ w.uid = v /\ p \notin w.posts}

(* What a device has under way is what the handlers above put there. *)
Issued(w) ==
  /\ w.doc \in {"following", "follower", "notification", "feed"}
  /\ w.doc \in {"following", "follower"} => w.from # "nobody"
  /\ w.doc \in {"notification", "feed"} => w.from = "nobody"
  /\ w.doc = "feed" => \E p \in Posts : w.posts = {p} /\ Owner[p] = w.uid

Completed(h, docs) ==
  /\ h.doc \in {"following", "follower", "load", "query"}
  /\ h.doc \in {"following", "follower"} => h.from # "nobody"
  /\ h.doc = "query" =>
       /\ h.from = "gone"
       /\ h.posts \subseteq docs
       /\ \A p \in h.posts : Owner[p] = h.uid
       /\ \A p \in OldPosts : Owner[p] = h.uid => p \in h.posts

WellFormed ==
  \A u \in Devices :
    /\ \A w \in ToSet(outbox[u]) : Issued(w)
    /\ \A h \in ToSet(handlers[u]) : Completed(h, published)

(* What the backend says of u and v, and what the device will make of it. *)
Followed(u, v) == IF <<u, v>> \in following THEN "set" ELSE "delete"

Target(u, v, op) ==
  IF Has(outbox[u], Stage("following", v))
    THEN LastIn(outbox[u], Stage("following", v), OpIs(op))
    ELSE op = Followed(u, v)

(* How far the chains about v have got: one of them is before the step that *)
(* writes Following, handles it, writes Follower, handles it, queries the   *)
(* posts or handles the answer.                                             *)
ToWrite(u, v) == Has(outbox[u], Stage("following", v))
ToHandle(u, v) == ToWrite(u, v) \/ Has(handlers[u], Stage("following", v))
ToMirror(u, v) == ToHandle(u, v) \/ Has(outbox[u], Stage("follower", v))
ToFinish(u, v) == ToMirror(u, v) \/ Has(handlers[u], Stage("follower", v))
ToQuery(u, v) == ToFinish(u, v) \/ Has(queries[u][v], Ops)
ToFeed(u, v) == ToQuery(u, v) \/ Has(handlers[u], Stage("query", v))

(* Chains keep the order of the taps: when no chain is behind a stage, the  *)
(* last one of the stage is about what the backend has.                     *)
ChainInOrder(u, v) ==
  LET now == OpIs(Followed(u, v))
  IN  /\ ~ToWrite(u, v) => LastIn(handlers[u], Stage("following", v), now)
      /\ ~ToHandle(u, v) => LastIn(outbox[u], Stage("follower", v), now)
      /\ ~ToMirror(u, v) => LastIn(handlers[u], Stage("follower", v), now)
      /\ ~ToFinish(u, v) => LastIn(queries[u][v], Ops, {Followed(u, v)})
      /\ ~ToQuery(u, v) => LastIn(handlers[u], Stage("query", v), now)

(* The feed document of p is as it has to be, or its last write will make   *)
(* it so, when no chain about its owner is before its feed writes.          *)
FeedInOrder(u, v, p) ==
  ~ToFeed(u, v) =>
    /\ LastIn(outbox[u], FeedOf(v, p), OpIs(Followed(u, v)))
    /\ \/ Has(outbox[u], FeedOf(v, p))
       \/ /\ Followed(u, v) = "set" /\ p \in OldPosts => <<u, p>> \in feeds
          /\ Followed(u, v) = "delete" => <<u, p>> \notin feeds

(* A post that is in the feed or about to be is part of every later answer. *)
FeedCovered(u, v, p) ==
  /\ <<u, p>> \in feeds \/ Has(outbox[u], FeedOf(v, p)) =>
       p \in published /\ ~Has(handlers[u], AnsweredWithout(v, p))
  /\ NoneAfter(handlers[u], AnsweredWith(v, p), AnsweredWithout(v, p))

FeedsFollow(u, v) ==
  \A p \in Posts : Owner[p] = v => FeedInOrder(u, v, p) /\ FeedCovered(u, v, p)

(* The notification of a Follower document is there or on its way. *)
Announced(u, v) ==
  <<u, v>> \in follower =>
    \/ <<u, v>> \in notified
    \/ Has(handlers[u], SetFollower(v))
    \/ Has(outbox[u], Stage("notification", v))

(* Nothing waits for a screen that is closed. *)
ClosedForgotten(u, v, s) ==
  button[u][v][s] = "closed" =>
    /\ ~Has(outbox[u], OpenOf(v, s))
    /\ ~Has(handlers[u], OpenOf(v, s))
    /\ <<u, v, s>> \notin loading

(* A chain of the screen s has a write to be made or to be issued. *)
Busy(u, v, s) ==
  Has(outbox[u], OpenOf(v, s)) \/ Has(handlers[u], OpenLeg("following", v, s))

(* While a chain of the screen s is busy, the last chain about v is one of s. *)
OwnLast(u, v, s) ==
  Busy(u, v, s) =>
    /\ LastIn(outbox[u], Stage("following", v), OpenOf(v, s))
    /\ ~ToWrite(u, v) => LastIn(handlers[u], Stage("following", v), OpenOf(v, s))
    /\ ~ToHandle(u, v) => LastIn(outbox[u], Stage("follower", v), OpenOf(v, s))

(* When no chain of the screen s is busy, the last handler that sets its    *)
(* button sets it to what the device will make of it, or it is so already.  *)
ButtonInOrder(u, v, s) ==
  \A op \in Ops :
    button[u][v][s] # "closed" /\ ~Busy(u, v, s) /\ Target(u, v, op)
    => /\ LastIn(handlers[u], Setting(v, s), OpIs(op))
       /\ \/ Has(handlers[u], Setting(v, s))
          \/ <<u, v, s>> \in loading
          \/ button[u][v][s] = "Following" <=> op = "set"

(* What a screen needs, unless a tap on another one has passed it over. *)
ScreenInv(u, v, s) ==
  /\ ClosedForgotten(u, v, s)
  /\ <<u, v, s>> \notin stale => OwnLast(u, v, s) /\ ButtonInOrder(u, v, s)

PairInv(u, v) ==
  /\ ChainInOrder(u, v)
  /\ FeedsFollow(u, v)
  /\ Announced(u, v)
  /\ \A s \in Screens : ScreenInv(u, v, s)

FaultFree == WellFormed /\ \A u \in Devices, v \in Users : PairInv(u, v)

FollowInv == TypeInv /\ (faults = 0 => FaultFree)
----------------------------------------------------------------------------
(* Which of the sets above a write is in. *)
LEMMA Members ==
  ASSUME NEW w \in Message, NEW v
  PROVE  /\ w \in Concerning(v) <=> w.uid = v
         /\ \A doc : w \in Stage(doc, v) <=> w.doc = doc /\ w.uid = v
         /\ \A doc, s : w \in OpenLeg(doc, v, s) <=> w.doc = doc /\ w.uid = v /\ w.from = s
         /\ \A op : w \in OpIs(op) <=> w.op = op
         /\ \A s : w \in OpenOf(v, s) <=> w.uid = v /\ w.from = s
         /\ \A s : w \in Setting(v, s) <=>
                     w.uid = v /\ w.from = s /\ w.doc \in {"load", "follower"}
         /\ w \in SetFollower(v) <=> w.doc = "follower" /\ w.uid = v /\ w.op = "set"
BY DEF Concerning, Stage, OpenLeg, OpIs, OpenOf, Setting, SetFollower

(* Which of the sets about a post it is in. *)
LEMMA PostMembers ==
  ASSUME NEW w \in Message, NEW v, NEW p
  PROVE  /\ w \in FeedOf(v, p) <=> w.doc = "feed" /\ w.uid = v /\ w.posts = {p}
         /\ w \in AnsweredWith(v, p) <=> w.doc = "query" /\ w.uid = v /\ p \in w.posts
         /\ w \in AnsweredWithout(v, p) <=> w.doc = "query" /\ w.uid = v /\ p \notin w.posts
BY DEF FeedOf, AnsweredWith, AnsweredWithout

(* All of them are about one user. *)
LEMMA AboutOne ==
  ASSUME NEW v
  PROVE  /\ \A doc : Stage(doc, v) \in SUBSET Concerning(v)
         /\ \A doc, s : OpenLeg(doc, v, s) \in SUBSET Concerning(v)
         /\ \A s : OpenOf(v, s) \in SUBSET Concerning(v)
         /\ \A s : Setting(v, s) \in SUBSET Concerning(v)
         /\ SetFollower(v) \in SUBSET Concerning(v)
         /\ \A p : /\ FeedOf(v, p) \in SUBSET Concerning(v)
                   /\ AnsweredWith(v, p) \in SUBSET Concerning(v)
                   /\ AnsweredWithout(v, p) \in SUBSET Concerning(v)
BY DEF Concerning, Stage, OpenLeg, OpenOf, Setting, SetFollower, FeedOf, AnsweredWith,
       AnsweredWithout

(* What a screen waits for includes its legs and what sets its button. *)
LEMMA LegParts ==
  ASSUME NEW r, NEW v, NEW s
  PROVE  /\ \A doc : Has(r, OpenLeg(doc, v, s)) => Has(r, OpenOf(v, s))
         /\ \A doc : Has(r, OpenLeg(doc, v, s)) => Has(r, Stage(doc, v))
         /\ Has(r, Setting(v, s)) => Has(r, OpenOf(v, s))
BY DEF Has, Stage, OpenLeg, OpenOf, Setting

(* The last of a kind is a leg of s when it is of s. *)
LEMMA OwnLeg ==
  ASSUME NEW r \in Seq(Message), NEW doc, NEW v, NEW s,
         LastIn(r, Stage(doc, v), OpenOf(v, s)), Has(r, Stage(doc, v))
  PROVE  Has(r, OpenLeg(doc, v, s))
<1>1. PICK x \in Stage(doc, v) : \A Y : LastIn(r, Stage(doc, v), Y) <=> x \in Y
  BY LastExists
<1>2. LastIn(r, Stage(doc, v), ToSet(r))
  BY DEF LastIn, ToSet
<1>3. x \in OpenOf(v, s) /\ x \in ToSet(r)
  BY <1>1, <1>2
<1>4. x \in OpenLeg(doc, v, s)
  BY <1>1, <1>3 DEF Stage, OpenOf, OpenLeg
<1> QED
  BY <1>3, <1>4, HasElement

(* What the code makes a write of is a write. *)
LEMMA AboutIs ==
  ASSUME NEW doc \in {"following", "follower", "notification", "feed", "load", "query"},
         NEW op \in Ops, NEW v \in Users, NEW from \in Screens \cup {"gone", "nobody"}
  PROVE  /\ About(doc, op, v, from) \in Message
         /\ About(doc, op, v, from).doc = doc
         /\ About(doc, op, v, from).op = op
         /\ About(doc, op, v, from).uid = v
         /\ About(doc, op, v, from).from = from
BY FS_EmptySet DEF About, Message, Write

(* A closed screen and a restart change who waits for a write, no more. *)
LEMMA GoneIs ==
  ASSUME NEW w \in Message, NEW v, NEW s \in Screens
  PROVE  /\ Gone(v, s, w) \in Message
         /\ Gone(v, s, w).doc = w.doc /\ Gone(v, s, w).op = w.op
         /\ Gone(v, s, w).uid = w.uid /\ Gone(v, s, w).posts = w.posts
         /\ Gone(v, s, w).uid = v => Gone(v, s, w).from # s
         /\ \A r \in Screens : r # s => (Gone(v, s, w).from = r <=> w.from = r)
         /\ w.uid # v => Gone(v, s, w) = w
         /\ Gone(v, s, w).from = "nobody" <=> w.from = "nobody"
         /\ w.from = "gone" => Gone(v, s, w).from = "gone"
BY FollowAssumption DEF Gone, Message, Write

(* A restart leaves a write a write. *)
LEMMA OrphanIs ==
  ASSUME NEW w \in Message
  PROVE  Orphan(w) \in Message
BY DEF Orphan, Message, Write

----------------------------------------------------------------------------
(* The types are kept by every step. *)
LEMMA TypeInit == ASSUME Init PROVE TypeInv
<1>1. <<>> \in Seq(Message) /\ <<>> \in Seq(Ops)
  OBVIOUS
<1> QED
  BY <1>1, FollowAssumption DEF Init, TypeInv, Queues

(* A write leaves the pipeline for the handlers. *)
LEMMA DepartTypes ==
  ASSUME TypeInv, NEW u \in Devices, Depart(u)
  PROVE  outbox' \in Queues(Devices, Message) /\ handlers' \in Queues(Devices, Message)
<1> DEFINE w == Head(outbox[u])
<1>1. Popped(outbox, outbox', u)
  BY DEF TypeInv, Queues, Depart, Popped, ChangedAt
<1>2. outbox' \in Queues(Devices, Message) /\ w \in Message
  BY <1>1, QueuePopped DEF TypeInv
<1>3. handlers' = handlers \/ Pushed(handlers, handlers', u, w)
  BY DEF TypeInv, Queues, Depart, Pushed, ChangedAt
<1> HIDE DEF w
<1> QED
  BY <1>2, <1>3, QueuePushed DEF TypeInv

(* The process of a device that dies keeps its writes. *)
LEMMA DieTypes ==
  ASSUME TypeInv, NEW u \in Devices, Die(u)
  PROVE  TypeInv' /\ faults' # 0
<1> DEFINE t == [i \in DOMAIN outbox[u] |-> Orphan(outbox[u][i])]
<1>1. /\ outbox' = [outbox EXCEPT ![u] = t]
      /\ handlers' = [handlers EXCEPT ![u] = <<>>]
      /\ queries' = [queries EXCEPT ![u] = [v \in Users |-> <<>>]]
      /\ button' = [button EXCEPT ![u] = [v \in Users |-> [s \in Screens |-> "closed"]]]
      /\ published' = published /\ faults' = faults + 1
  BY DEF Die, Fault, server
<1>2. outbox[u] \in Seq(Message)
  BY DEF TypeInv, Queues
<1>3. \A i \in DOMAIN outbox[u] : t[i] \in Message
  BY <1>2, OrphanIs, SeqFacts
<1>4. t \in Seq(Message)
  <2>1. t = [i \in DOMAIN outbox[u] |-> t[i]]
    OBVIOUS
  <2> HIDE DEF t
  <2> QED
    BY <1>2, <1>3, <2>1, Replaced
<1> HIDE DEF t
<1>5. <<>> \in Seq(Message) /\ <<>> \in Seq(Ops)
  OBVIOUS
<1>6. outbox' \in Queues(Devices, Message) /\ handlers' \in Queues(Devices, Message)
  BY <1>1, <1>4, <1>5 DEF TypeInv, Queues
<1>7. queries' \in [Devices -> [Users -> Seq(Ops)]]
  BY <1>1, <1>5 DEF TypeInv
<1> QED
  BY <1>1, <1>6, <1>7 DEF TypeInv

(* The first completion of a device is handled. *)
LEMMA Handled ==
  ASSUME TypeInv, NEW u \in Devices, Popped(handlers, handlers', u)
  PROVE  /\ handlers' \in Queues(Devices, Message)
         /\ Head(handlers[u]) \in Message
         /\ Head(handlers[u]) \in ToSet(handlers[u])
<1>1. handlers \in Queues(Devices, Message)
  BY DEF TypeInv
<1>2. /\ handlers' \in Queues(Devices, Message)
      /\ Head(handlers[u]) \in Message
      /\ ToSet(handlers[u]) = {Head(handlers[u])} \cup ToSet(handlers'[u])
  BY <1>1, QueuePopped
<1> QED
  BY <1>2

(* The writes that the handler of a query issues, one for each post. *)
FeedWrites(h, t) ==
  /\ t \in Seq(Message)
  /\ \A i \in DOMAIN t : /\ t[i].doc = "feed" /\ t[i].op = h.op /\ t[i].uid = h.uid
                         /\ t[i].from = "nobody"
                         /\ \E p \in h.posts : t[i].posts = {p}
  /\ \A p \in h.posts : \E i \in DOMAIN t : t[i].posts = {p}

(* The handler of a query issues feed writes for the posts it was told of. *)
LEMMA FeedWritesIs ==
  ASSUME NEW h \in Message
  PROVE  LET docs == SetToSeq(h.posts)
         IN  FeedWrites(h, [i \in DOMAIN docs |->
               [About("feed", h.op, h.uid, "nobody") EXCEPT !.posts = {docs[i]}]])
<1> DEFINE docs == SetToSeq(h.posts)
           t == [i \in DOMAIN docs |->
                  [About("feed", h.op, h.uid, "nobody") EXCEPT !.posts = {docs[i]}]]
<1>1. docs \in Seq(h.posts) /\ ToSet(docs) = h.posts
  BY SetToSeqIs DEF Message
<1>2. /\ \A i \in DOMAIN docs : docs[i] \in h.posts
      /\ \A p \in h.posts : \E i \in DOMAIN docs : docs[i] = p
  BY <1>1 DEF ToSet
<1> HIDE DEF docs
<1>3. h.posts \in SUBSET Posts /\ h.op \in Ops /\ h.uid \in Users
  BY DEF Message, Write
<1>4. \A i \in DOMAIN docs : /\ t[i] \in Message /\ t[i].doc = "feed" /\ t[i].op = h.op
                             /\ t[i].uid = h.uid /\ t[i].from = "nobody"
                             /\ t[i].posts = {docs[i]}
  BY <1>2, <1>3, FS_Singleton DEF Message, Write, About
<1>5. t = [i \in DOMAIN docs |-> t[i]] /\ DOMAIN t = DOMAIN docs
  OBVIOUS
<1> HIDE DEF t
<1>6. t \in Seq(Message)
  BY <1>1, <1>4, <1>5, Replaced
<1>7. \A i \in DOMAIN t : \E p \in h.posts : t[i].posts = {p}
  BY <1>2, <1>4, <1>5
<1>8. \A p \in h.posts : \E i \in DOMAIN t : t[i].posts = {p}
  BY <1>2, <1>4, <1>5
<1>9. FeedWrites(h, t)
  BY <1>4, <1>5, <1>6, <1>7, <1>8 DEF FeedWrites
<1> QED
  BY <1>9 DEF t, docs

(* The button of a screen is one of its three states. *)
LEMMA ShowTypes ==
  ASSUME TypeInv, NEW u \in Devices, NEW h \in Message, ShowFollowed(u, h)
  PROVE  button' \in [Devices -> [Users -> [Screens -> {"closed", "Follow", "Following"}]]]
<1>1. h.uid \in Users
  BY DEF Message, Write
<1>2. CASE h.from \in Screens
  BY <1>1, <1>2 DEF TypeInv, ShowFollowed
<1>3. CASE h.from \notin Screens
  BY <1>3 DEF TypeInv, ShowFollowed
<1> QED
  BY <1>2, <1>3

(* The handlers of a device keep the types. *)
LEMMA HandleTypes ==
  ASSUME TypeInv, NEW u \in Devices, Handle(u)
  PROVE  TypeInv'
<1> DEFINE h == Head(handlers[u])
<1>1. /\ Popped(handlers, handlers', u)
      /\ published' = published /\ faults' = faults
  BY DEF Handle, HandleFirst, HandleSecond, HandleLoad, HandleQuery, TypeInv, Queues,
         Popped, ChangedAt, server
<1>2. handlers' \in Queues(Devices, Message) /\ h \in Message
  BY <1>1, Handled
<1>3. h.op \in Ops /\ h.uid \in Users
  BY <1>2 DEF Message, Write
<1>4. CASE HandleFirst(u)
  <2> DEFINE x == [h EXCEPT !.doc = "follower"]
  <2>1. x \in Message
    <3> HIDE DEF h
    <3> QED
      BY <1>2 DEF Message, Write
  <2>2. Pushed(outbox, outbox', u, x) /\ queries' = queries /\ button' = button
    BY <1>4 DEF HandleFirst, TypeInv, Queues, Pushed, ChangedAt, screen
  <2> HIDE DEF x, h
  <2>3. outbox' \in Queues(Devices, Message)
    BY <2>1, <2>2, QueuePushed DEF TypeInv
  <2> QED
    BY <1>1, <1>2, <2>2, <2>3 DEF TypeInv
<1>5. CASE HandleSecond(u)
  <2> DEFINE x == About("notification", "set", h.uid, "nobody")
  <2>1. x \in Message
    BY <1>3, AboutIs DEF Ops
  <2>2. /\ Pushed(outbox, outbox', u, x) \/ outbox' = outbox
        /\ queries' = [queries EXCEPT ![u][h.uid] = Append(queries[u][h.uid], h.op)]
        /\ ShowFollowed(u, h)
    BY <1>5 DEF HandleSecond, TypeInv, Queues, Pushed, ChangedAt
  <2> HIDE DEF x, h
  <2>3. outbox' \in Queues(Devices, Message)
    BY <2>1, <2>2, QueuePushed DEF TypeInv
  <2>4. queries' \in [Devices -> [Users -> Seq(Ops)]]
    <3>1. queries[u][h.uid] \in Seq(Ops)
      BY <1>3 DEF TypeInv
    <3>2. Append(queries[u][h.uid], h.op) \in Seq(Ops)
      BY <1>3, <3>1
    <3> QED
      BY <1>3, <2>2, <3>2 DEF TypeInv
  <2> QED
    BY <1>1, <1>2, <2>2, <2>3, <2>4, ShowTypes DEF TypeInv
<1>6. CASE HandleLoad(u)
  <2>1. outbox' = outbox /\ queries' = queries /\ ShowFollowed(u, h)
    BY <1>6 DEF HandleLoad
  <2> HIDE DEF h
  <2> QED
    BY <1>1, <1>2, <2>1, ShowTypes DEF TypeInv
<1>7. CASE HandleQuery(u)
  <2> DEFINE docs == SetToSeq(h.posts)
             t == [i \in DOMAIN docs |-> [About("feed", h.op, h.uid, "nobody")
                                            EXCEPT !.posts = {docs[i]}]]
  <2>1. FeedWrites(h, t)
    <3> HIDE DEF h
    <3> QED
      BY <1>2, FeedWritesIs
  <2>2. /\ outbox' = [outbox EXCEPT ![u] = outbox[u] \o t]
        /\ queries' = queries /\ button' = button
    BY <1>7 DEF HandleQuery, screen
  <2> HIDE DEF t, h
  <2>3. Extended(outbox, outbox', u, t, Message)
    BY <2>1, <2>2 DEF FeedWrites, TypeInv, Queues, Extended, ChangedAt
  <2>4. outbox' \in Queues(Devices, Message)
    <3>1. outbox \in Queues(Devices, Message)
      BY DEF TypeInv
    <3> QED
      BY <2>3, <3>1, QueueExtended
  <2> QED
    BY <1>1, <1>2, <2>2, <2>4 DEF TypeInv
<1> QED
  BY <1>4, <1>5, <1>6, <1>7 DEF Handle

(* So do the steps of the screens and the backend. *)
LEMMA TypeStep ==
  ASSUME TypeInv, [Next]_vars
  PROVE  TypeInv'
<1>1. CASE UNCHANGED vars
  BY <1>1 DEF TypeInv, vars, server, screen
<1>2. ASSUME NEW u \in Devices, Commit(u) \/ Refuse(u) PROVE TypeInv'
  <2>1. /\ Depart(u) /\ published' = published /\ queries' = queries /\ button' = button
        /\ faults' \in Nat
    BY <1>2 DEF Commit, Refuse, Fault, server, screen, TypeInv
  <2>2. outbox' \in Queues(Devices, Message) /\ handlers' \in Queues(Devices, Message)
    BY <2>1, DepartTypes
  <2> QED
    BY <2>1, <2>2 DEF TypeInv
<1>3. ASSUME NEW u \in Devices, NEW v \in Users, NEW s \in Screens,
             Open(u, v, s) \/ LoadError(u, v, s)
      PROVE  TypeInv'
  <2>1. /\ outbox' = outbox /\ handlers' = handlers /\ queries' = queries
        /\ published' = published /\ faults' \in Nat
        /\ button' = button \/ button' = [button EXCEPT ![u][v][s] = "Follow"]
    BY <1>3 DEF Open, LoadError, Fault, server, TypeInv
  <2>2. button' \in [Devices -> [Users -> [Screens -> {"closed", "Follow", "Following"}]]]
    <3>1. CASE button' = button
      BY <3>1 DEF TypeInv
    <3>2. CASE button' = [button EXCEPT ![u][v][s] = "Follow"]
      BY <3>2 DEF TypeInv
    <3> QED
      BY <2>1, <3>1, <3>2
  <2> QED
    BY <2>1, <2>2 DEF TypeInv
<1>4. ASSUME NEW u \in Devices, NEW v \in Users, NEW s \in Screens, Close(u, v, s)
      PROVE  TypeInv'
  <2> DEFINE gone(r) == [i \in DOMAIN r |-> Gone(v, s, r[i])]
  <2>1. /\ outbox' = [outbox EXCEPT ![u] = gone(outbox[u])]
        /\ handlers' = [handlers EXCEPT ![u] = gone(handlers[u])]
        /\ queries' = queries /\ published' = published /\ faults' = faults
        /\ button' = [button EXCEPT ![u][v][s] = "closed"]
    BY <1>4 DEF Close, server
  <2>2. ASSUME NEW r \in Seq(Message) PROVE gone(r) \in Seq(Message)
    <3> DEFINE t == gone(r)
    <3>1. \A i \in DOMAIN r : t[i] \in Message
      BY SeqFacts, GoneIs
    <3>2. t = [i \in DOMAIN r |-> t[i]]
      OBVIOUS
    <3>3. t \in Seq(Message)
      <4> HIDE DEF t
      <4> QED
        BY <3>1, <3>2, Replaced
    <3> QED
      BY <3>3
  <2>3. gone(outbox[u]) \in Seq(Message) /\ gone(handlers[u]) \in Seq(Message)
    BY <2>2 DEF TypeInv, Queues
  <2> HIDE DEF gone
  <2>4. button' \in [Devices -> [Users -> [Screens -> {"closed", "Follow", "Following"}]]]
    BY <2>1 DEF TypeInv
  <2> QED
    BY <2>1, <2>3, <2>4 DEF TypeInv, Queues
<1>5. ASSUME NEW u \in Devices, NEW v \in Users, NEW s \in Screens, Tap(u, v, s)
      PROVE  TypeInv'
  <2> DEFINE x == About("following", IF button[u][v][s] = "Following" THEN "delete" ELSE "set",
                        v, s)
  <2>1. x \in Message
    BY AboutIs DEF Ops
  <2>2. /\ Pushed(outbox, outbox', u, x)
        /\ handlers' = handlers /\ queries' = queries /\ button' = button
        /\ published' = published /\ faults' = faults
    BY <1>5 DEF Tap, TypeInv, Queues, Pushed, ChangedAt, server
  <2> HIDE DEF x
  <2>3. outbox' \in Queues(Devices, Message)
    BY <2>1, <2>2, QueuePushed DEF TypeInv
  <2> QED
    BY <2>2, <2>3 DEF TypeInv
<1>6. ASSUME NEW u \in Devices, NEW v \in Users, NEW s \in Screens, LoadAnswer(u, v, s)
      PROVE  TypeInv'
  <2> DEFINE x == About("load", IF LocallyFollows(u, v) THEN "set" ELSE "delete", v, s)
  <2>1. x \in Message
    BY AboutIs DEF Ops
  <2>2. /\ Pushed(handlers, handlers', u, x)
        /\ outbox' = outbox /\ queries' = queries /\ button' = button
        /\ published' = published /\ faults' = faults
    BY <1>6 DEF LoadAnswer, TypeInv, Queues, Pushed, ChangedAt, server
  <2> HIDE DEF x
  <2>3. handlers' \in Queues(Devices, Message)
    BY <2>1, <2>2, QueuePushed DEF TypeInv
  <2> QED
    BY <2>2, <2>3 DEF TypeInv
<1>7. ASSUME NEW u \in Devices, NEW v \in Users, QueryAnswer(u, v) PROVE TypeInv'
  <2> DEFINE x == [About("query", Head(queries[u][v]), v, "gone") EXCEPT !.posts = PostsOf(v)]
  <2>1. queries[u][v] \in Seq(Ops) /\ queries[u][v] # <<>>
    BY <1>7 DEF QueryAnswer, TypeInv
  <2>2. Head(queries[u][v]) \in Ops /\ Tail(queries[u][v]) \in Seq(Ops)
    BY <2>1
  <2>3. x \in Message
    <3>1. PostsOf(v) \subseteq Posts /\ IsFiniteSet(PostsOf(v))
      <4>1. PostsOf(v) \subseteq published
        BY DEF PostsOf
      <4> QED
        BY <4>1, FS_Subset DEF TypeInv
    <3> HIDE DEF PostsOf
    <3> QED
      BY <2>2, <3>1 DEF About, Message, Write
  <2>4. /\ Pushed(handlers, handlers', u, x)
        /\ queries' = [queries EXCEPT ![u][v] = Tail(queries[u][v])]
        /\ outbox' = outbox /\ button' = button
        /\ published' = published /\ faults' = faults
    BY <1>7 DEF QueryAnswer, TypeInv, Queues, Pushed, ChangedAt, server, screen
  <2> HIDE DEF x
  <2>5. handlers' \in Queues(Devices, Message)
    BY <2>3, <2>4, QueuePushed DEF TypeInv
  <2>6. queries' \in [Devices -> [Users -> Seq(Ops)]]
    BY <2>2, <2>4 DEF TypeInv
  <2> QED
    BY <2>4, <2>5, <2>6 DEF TypeInv
<1>8. ASSUME NEW u \in Devices, NEW v \in Users, UpdateError(u, v) PROVE TypeInv'
  <2>1. queries[u][v] \in Seq(Ops) /\ queries[u][v] # <<>>
    BY <1>8 DEF UpdateError, TypeInv
  <2>2. Tail(queries[u][v]) \in Seq(Ops)
    BY <2>1
  <2>3. /\ queries' = [queries EXCEPT ![u][v] = Tail(queries[u][v])]
        /\ outbox' = outbox /\ handlers' = handlers /\ button' = button
        /\ published' = published /\ faults' \in Nat
    BY <1>8 DEF UpdateError, Fault, server, screen, TypeInv
  <2>4. queries' \in [Devices -> [Users -> Seq(Ops)]]
    BY <2>2, <2>3 DEF TypeInv
  <2> QED
    BY <2>3, <2>4 DEF TypeInv
<1>9. ASSUME NEW p \in Posts, Publish(p) PROVE TypeInv'
  <2>1. /\ published' = published \cup {p}
        /\ outbox' = outbox /\ handlers' = handlers /\ queries' = queries
        /\ button' = button /\ faults' = faults
    BY <1>9 DEF Publish, screen
  <2>2. IsFiniteSet(published \cup {p})
    BY FS_AddElement DEF TypeInv
  <2> QED
    BY <2>1, <2>2 DEF TypeInv
<1>10. ASSUME NEW u \in Devices, NEW v \in Users, RemoveError(u, v) PROVE TypeInv'
  BY <1>10, DieTypes DEF RemoveError
<1> QED
  BY <1>1, <1>2, <1>3, <1>4, <1>5, <1>6, <1>7, <1>8, <1>9, <1>10, HandleTypes, DieTypes
     DEF Next

----------------------------------------------------------------------------
(* A step changes nothing but what concerns v on the device of u. *)
OnlyAbout(s, t, v) == \A other \in Users : other # v => Alike(s, t, Concerning(other))

Untouched(u, v) ==
  /\ queries'[u][v] = queries[u][v]
  /\ button'[u][v] = button[u][v]
  /\ \A s \in Screens : /\ <<u, v, s>> \in loading' <=> <<u, v, s>> \in loading
                        /\ <<u, v, s>> \in stale' <=> <<u, v, s>> \in stale
  /\ Followed(u, v)' = Followed(u, v)
  /\ <<u, v>> \in follower' <=> <<u, v>> \in follower
  /\ <<u, v>> \in notified' <=> <<u, v>> \in notified
  /\ \A p \in Posts : Owner[p] = v => (<<u, p>> \in feeds' <=> <<u, p>> \in feeds)

Confined(u, v) ==
  /\ \A d \in Devices : d # u => outbox'[d] = outbox[d] /\ handlers'[d] = handlers[d]
  /\ OnlyAbout(outbox[u], outbox'[u], v)
  /\ OnlyAbout(handlers[u], handlers'[u], v)
  /\ \A d \in Devices, other \in Users : d # u \/ other # v => Untouched(d, other)

(* Messages about v that come and go leave the others alone. *)
LEMMA OnlyAboutSame ==
  ASSUME NEW s, NEW v
  PROVE  OnlyAbout(s, s, v)
BY AlikeSame DEF OnlyAbout

(* A message about v that comes. *)
LEMMA OnlyAboutGained ==
  ASSUME NEW s \in Seq(Message), NEW x \in Message, NEW t, Gained(s, t, x)
  PROVE  OnlyAbout(s, t, x.uid)
<1>1. SUFFICES ASSUME NEW other \in Users, other # x.uid
               PROVE  Alike(s, t, Concerning(other))
  BY DEF OnlyAbout
<1>2. x \notin Concerning(other)
  BY <1>1 DEF Concerning
<1> QED
  BY <1>2, AlikeGained

(* A message about v that leaves. *)
LEMMA OnlyAboutLost ==
  ASSUME NEW s \in Seq(Message), NEW x, NEW t, Lost(s, t, x)
  PROVE  OnlyAbout(s, t, x.uid)
<1>1. SUFFICES ASSUME NEW other \in Users, other # x.uid
               PROVE  Alike(s, t, Concerning(other))
  BY DEF OnlyAbout
<1>2. x \notin Concerning(other)
  BY <1>1 DEF Concerning
<1> QED
  BY <1>2, AlikeLost

(* What a screen needs is kept by a step that it does not see. *)
LEMMA ScreenKept ==
  ASSUME NEW u, NEW v, NEW s, ScreenInv(u, v, s),
         button'[u][v][s] = button[u][v][s],
         <<u, v, s>> \in loading' <=> <<u, v, s>> \in loading,
         <<u, v, s>> \in stale => <<u, v, s>> \in stale',
         Has(outbox'[u], OpenOf(v, s)) <=> Has(outbox[u], OpenOf(v, s)),
         Has(handlers'[u], OpenOf(v, s)) => Has(handlers[u], OpenOf(v, s)),
         Has(handlers'[u], OpenLeg("following", v, s)) <=>
           Has(handlers[u], OpenLeg("following", v, s)),
         Has(handlers'[u], Setting(v, s)) <=> Has(handlers[u], Setting(v, s)),
         \A op : LastIn(handlers[u], Setting(v, s), OpIs(op)) =>
                   LastIn(handlers'[u], Setting(v, s), OpIs(op)),
         OwnLast(u, v, s) => OwnLast(u, v, s)',
         \A op : Target(u, v, op)' => Target(u, v, op)
  PROVE  ScreenInv(u, v, s)'
<1>1. ClosedForgotten(u, v, s)'
  BY DEF ScreenInv, ClosedForgotten
<1>2. Busy(u, v, s)' <=> Busy(u, v, s)
  BY DEF Busy
<1>3. ButtonInOrder(u, v, s) => ButtonInOrder(u, v, s)'
  BY <1>2 DEF ButtonInOrder
<1> QED
  BY <1>1, <1>3 DEF ScreenInv

(* What a pair needs is kept by a step that does not concern it. *)
LEMMA PairElsewhere ==
  ASSUME NEW u \in Devices, NEW v \in Users, PairInv(u, v), Untouched(u, v),
         Alike(outbox[u], outbox'[u], Concerning(v)),
         Alike(handlers[u], handlers'[u], Concerning(v)),
         published \subseteq published'
  PROVE  PairInv(u, v)'
<1> DEFINE O == outbox[u]  P == outbox'[u]  H == handlers[u]  I == handlers'[u]
<1>1. /\ \A X \in SUBSET Concerning(v) : Has(P, X) <=> Has(O, X)
      /\ \A X \in SUBSET Concerning(v) : \A Y : LastIn(P, X, Y) <=> LastIn(O, X, Y)
      /\ \A A, B \in SUBSET Concerning(v) : NoneAfter(O, A, B) => NoneAfter(P, A, B)
  BY DEF Alike
<1>2. /\ \A X \in SUBSET Concerning(v) : Has(I, X) <=> Has(H, X)
      /\ \A X \in SUBSET Concerning(v) : \A Y : LastIn(I, X, Y) <=> LastIn(H, X, Y)
      /\ \A A, B \in SUBSET Concerning(v) : NoneAfter(H, A, B) => NoneAfter(I, A, B)
  BY DEF Alike
<1>3. /\ queries'[u][v] = queries[u][v]
      /\ button'[u][v] = button[u][v]
      /\ \A s \in Screens : /\ <<u, v, s>> \in loading' <=> <<u, v, s>> \in loading
                            /\ <<u, v, s>> \in stale' <=> <<u, v, s>> \in stale
      /\ Followed(u, v)' = Followed(u, v)
      /\ <<u, v>> \in follower' <=> <<u, v>> \in follower
      /\ <<u, v>> \in notified' <=> <<u, v>> \in notified
      /\ \A p \in Posts : Owner[p] = v => (<<u, p>> \in feeds' <=> <<u, p>> \in feeds)
  BY DEF Untouched
<1>4. \A doc : /\ Has(P, Stage(doc, v)) <=> Has(O, Stage(doc, v))
               /\ \A Y : LastIn(P, Stage(doc, v), Y) <=> LastIn(O, Stage(doc, v), Y)
               /\ Has(I, Stage(doc, v)) <=> Has(H, Stage(doc, v))
               /\ \A Y : LastIn(I, Stage(doc, v), Y) <=> LastIn(H, Stage(doc, v), Y)
  BY <1>1, <1>2, AboutOne
<1>5. \A s : /\ Has(P, OpenOf(v, s)) <=> Has(O, OpenOf(v, s))
             /\ Has(I, OpenOf(v, s)) <=> Has(H, OpenOf(v, s))
             /\ Has(I, OpenLeg("following", v, s)) <=> Has(H, OpenLeg("following", v, s))
             /\ Has(I, Setting(v, s)) <=> Has(H, Setting(v, s))
             /\ \A Y : LastIn(I, Setting(v, s), Y) <=> LastIn(H, Setting(v, s), Y)
  BY <1>1, <1>2, AboutOne
<1>6. Has(I, SetFollower(v)) <=> Has(H, SetFollower(v))
  BY <1>2, AboutOne
<1>7. \A p : /\ Has(P, FeedOf(v, p)) <=> Has(O, FeedOf(v, p))
             /\ Has(I, AnsweredWithout(v, p)) <=> Has(H, AnsweredWithout(v, p))
             /\ \A Y : LastIn(P, FeedOf(v, p), Y) <=> LastIn(O, FeedOf(v, p), Y)
             /\ NoneAfter(H, AnsweredWith(v, p), AnsweredWithout(v, p)) =>
                  NoneAfter(I, AnsweredWith(v, p), AnsweredWithout(v, p))
  BY <1>1, <1>2, AboutOne
<1>8. /\ ToWrite(u, v)' <=> ToWrite(u, v)
      /\ ToHandle(u, v)' <=> ToHandle(u, v)
      /\ ToMirror(u, v)' <=> ToMirror(u, v)
      /\ ToFinish(u, v)' <=> ToFinish(u, v)
      /\ ToQuery(u, v)' <=> ToQuery(u, v)
      /\ ToFeed(u, v)' <=> ToFeed(u, v)
  BY <1>3, <1>4 DEF ToWrite, ToHandle, ToMirror, ToFinish, ToQuery, ToFeed
<1>9. ChainInOrder(u, v)'
  BY <1>3, <1>4, <1>8 DEF PairInv, ChainInOrder
<1>10. FeedsFollow(u, v)'
  <2>1. SUFFICES ASSUME NEW p \in Posts, Owner[p] = v
                 PROVE  FeedInOrder(u, v, p)' /\ FeedCovered(u, v, p)'
    BY DEF FeedsFollow
  <2>2. FeedInOrder(u, v, p) /\ FeedCovered(u, v, p)
    BY <2>1 DEF PairInv, FeedsFollow
  <2>3. FeedInOrder(u, v, p)'
    BY <1>3, <1>7, <1>8, <2>1, <2>2 DEF FeedInOrder
  <2>4. FeedCovered(u, v, p)'
    BY <1>3, <1>7, <2>1, <2>2 DEF FeedCovered
  <2> QED
    BY <2>3, <2>4
<1>11. Announced(u, v)'
  BY <1>3, <1>4, <1>6 DEF PairInv, Announced
<1>12. \A op : Target(u, v, op)' <=> Target(u, v, op)
  BY <1>3, <1>4 DEF Target
<1>13. ASSUME NEW s \in Screens PROVE ScreenInv(u, v, s)'
  <2>1. ScreenInv(u, v, s)
    BY DEF PairInv
  <2>2. OwnLast(u, v, s) => OwnLast(u, v, s)'
    BY <1>4, <1>5, <1>8 DEF OwnLast, Busy
  <2> QED
    BY <1>3, <1>5, <1>12, <2>1, <2>2, ScreenKept
<1> QED
  BY <1>9, <1>10, <1>11, <1>13 DEF PairInv

(* A step that concerns u and v alone keeps what all the pairs need. *)
LEMMA ConfinedStep ==
  ASSUME NEW u \in Devices, NEW v \in Users, FaultFree, Confined(u, v),
         published \subseteq published', WellFormed', PairInv(u, v)'
  PROVE  FaultFree'
<1>1. ASSUME NEW d \in Devices, NEW other \in Users, d # u \/ other # v
      PROVE  PairInv(d, other)'
  <2>1. PairInv(d, other) /\ Untouched(d, other)
    BY <1>1 DEF FaultFree, Confined
  <2>2. Alike(outbox[d], outbox'[d], Concerning(other))
    BY <1>1, AlikeSame DEF Confined, OnlyAbout
  <2>3. Alike(handlers[d], handlers'[d], Concerning(other))
    BY <1>1, AlikeSame DEF Confined, OnlyAbout
  <2> QED
    BY <2>1, <2>2, <2>3, PairElsewhere
<1>2. ASSUME NEW d \in Devices, NEW other \in Users
      PROVE  PairInv(d, other)'
  BY <1>1
<1> QED
  BY <1>2 DEF FaultFree

(* The messages of a device stay well-formed when the new ones are. *)
LEMMA FormsKept ==
  ASSUME WellFormed, published \subseteq published', NEW u \in Devices, NEW v,
         Confined(u, v),
         \A w \in ToSet(outbox'[u]) : w \in ToSet(outbox[u]) \/ Issued(w),
         \A h \in ToSet(handlers'[u]) : h \in ToSet(handlers[u]) \/ Completed(h, published')
  PROVE  WellFormed'
<1>1. \A h : Completed(h, published) => Completed(h, published')
  BY DEF Completed
<1>2. ASSUME NEW d \in Devices
      PROVE  /\ \A w \in ToSet(outbox'[d]) : Issued(w)
             /\ \A h \in ToSet(handlers'[d]) : Completed(h, published')
  <2>1. CASE d = u
    BY <1>1, <2>1 DEF WellFormed
  <2>2. CASE d # u
    <3>1. outbox'[d] = outbox[d] /\ handlers'[d] = handlers[d]
      BY <2>2 DEF Confined
    <3> QED
      BY <1>1, <3>1 DEF WellFormed
  <2> QED
    BY <2>1, <2>2
<1> QED
  BY <1>2 DEF WellFormed

----------------------------------------------------------------------------
(* A screen that is opened waits for its load alone. *)
LEMMA OpenStep ==
  ASSUME TypeInv, FaultFree, NEW u \in Devices, NEW v \in Users, NEW s \in Screens,
         Open(u, v, s)
  PROVE  FaultFree'
<1>1. /\ button[u][v][s] = "closed"
      /\ button' = [button EXCEPT ![u][v][s] = "Follow"]
      /\ loading' = loading \cup {<<u, v, s>>} /\ stale' = stale
      /\ outbox' = outbox /\ handlers' = handlers /\ queries' = queries
      /\ following' = following /\ follower' = follower /\ notified' = notified
      /\ feeds' = feeds /\ published' = published
  BY DEF Open, server
<1>2. /\ button'[u][v][s] = "Follow"
      /\ \A other \in Screens : other # s => button'[u][v][other] = button[u][v][other]
      /\ \A d \in Devices, other \in Users :
           d # u \/ other # v => button'[d][other] = button[d][other]
  BY <1>1 DEF TypeInv
<1>3. Confined(u, v)
  <2>1. \A d \in Devices, other \in Users : d # u \/ other # v => Untouched(d, other)
    BY <1>1, <1>2 DEF Untouched, Followed
  <2> QED
    BY <1>1, <2>1, OnlyAboutSame DEF Confined
<1>4. WellFormed'
  BY <1>1 DEF FaultFree, WellFormed
<1>5. PairInv(u, v)
  BY DEF FaultFree
<1>6. ChainInOrder(u, v)'
  BY <1>1, <1>5 DEF PairInv, ChainInOrder, Followed, ToWrite, ToHandle, ToMirror, ToFinish, ToQuery
<1>7. FeedsFollow(u, v)'
  BY <1>1, <1>5 DEF PairInv, FeedsFollow, FeedInOrder, FeedCovered, Followed, ToWrite, ToHandle,
                    ToMirror, ToFinish, ToQuery, ToFeed
<1>8. Announced(u, v)'
  BY <1>1, <1>5 DEF PairInv, Announced
<1>9. ~Has(outbox[u], OpenOf(v, s)) /\ ~Has(handlers[u], OpenOf(v, s))
  BY <1>1, <1>5 DEF PairInv, ScreenInv, ClosedForgotten
<1>10. /\ ~Busy(u, v, s)'
       /\ \A Y : LastIn(handlers'[u], Setting(v, s), Y)
  BY <1>1, <1>9, LegParts, HasNone DEF Busy
<1>11. ScreenInv(u, v, s)'
  BY <1>1, <1>2, <1>10 DEF ScreenInv, ClosedForgotten, OwnLast, ButtonInOrder
<1>12. ASSUME NEW other \in Screens, other # s PROVE ScreenInv(u, v, other)'
  <2>1. ScreenInv(u, v, other)
    BY <1>5 DEF PairInv
  <2>2. OwnLast(u, v, other) => OwnLast(u, v, other)'
    BY <1>1 DEF OwnLast, Busy, ToWrite, ToHandle
  <2>3. \A op : Target(u, v, op)' => Target(u, v, op)
    BY <1>1 DEF Target, Followed
  <2> QED
    BY <1>1, <1>2, <1>12, <2>1, <2>2, <2>3, ScreenKept
<1>13. PairInv(u, v)'
  BY <1>6, <1>7, <1>8, <1>11, <1>12 DEF PairInv
<1> QED
  BY <1>1, <1>3, <1>4, <1>13, ConfinedStep

(* A tap adds a chain behind all the others, and passes the other screens   *)
(* of the user over.                                                        *)
LEMMA TapStep ==
  ASSUME TypeInv, FaultFree, NEW u \in Devices, NEW v \in Users, NEW s \in Screens,
         Tap(u, v, s)
  PROVE  FaultFree'
<1> DEFINE op == IF button[u][v][s] = "Following" THEN "delete" ELSE "set"
           x == About("following", op, v, s)
<1>1. /\ button[u][v][s] # "closed"
      /\ stale' = (stale \ {<<u, v, s>>}) \cup ({u} \X {v} \X Others(u, v, s))
      /\ Pushed(outbox, outbox', u, x)
      /\ handlers' = handlers /\ queries' = queries /\ button' = button /\ loading' = loading
      /\ following' = following /\ follower' = follower /\ notified' = notified
      /\ feeds' = feeds /\ published' = published
  BY DEF Tap, TypeInv, Queues, Pushed, ChangedAt, server
<1>2. /\ x \in Message /\ x.doc = "following" /\ x.uid = v /\ x.from = s
  BY AboutIs DEF Ops
<1> HIDE DEF x
<1>3. /\ outbox[u] \in Seq(Message)
      /\ Gained(outbox[u], outbox'[u], x)
      /\ \A d \in Devices : d # u => outbox'[d] = outbox[d]
  BY <1>1, OnePushed DEF TypeInv
<1>4. /\ ToSet(outbox'[u]) = ToSet(outbox[u]) \cup {x}
      /\ \A X : Has(outbox'[u], X) <=> Has(outbox[u], X) \/ x \in X
      /\ \A X, Y : x \in X => (LastIn(outbox'[u], X, Y) <=> x \in Y)
      /\ \A X, Y : x \notin X => (LastIn(outbox'[u], X, Y) <=> LastIn(outbox[u], X, Y))
      /\ \A A, B : NoneAfter(outbox[u], A, B) /\ (x \in B => ~Has(outbox[u], A))
                     => NoneAfter(outbox'[u], A, B)
  BY <1>2, <1>3, GainedFacts
<1>5. /\ x \in Stage("following", v)
      /\ \A r : x \in OpenOf(v, r) <=> r = s
      /\ x \notin Stage("notification", v)
      /\ x \notin Stage("follower", v)
      /\ \A p : x \notin FeedOf(v, p)
  BY <1>2, Members, PostMembers
<1>6. Confined(u, v)
  <2>1. \A d \in Devices, other \in Users : d # u \/ other # v => Untouched(d, other)
    BY <1>1 DEF Untouched, Followed
  <2> QED
    BY <1>1, <1>2, <1>3, <2>1, OnlyAboutSame, OnlyAboutGained DEF Confined
<1>7. WellFormed'
  <2>1. Issued(x)
    BY <1>2, FollowAssumption DEF Issued
  <2>2. \A w \in ToSet(outbox'[u]) : w \in ToSet(outbox[u]) \/ Issued(w)
    BY <1>4, <2>1
  <2>3. \A h \in ToSet(handlers'[u]) : h \in ToSet(handlers[u]) \/ Completed(h, published')
    BY <1>1
  <2> QED
    BY <1>1, <1>6, <2>2, <2>3, FormsKept DEF FaultFree
<1>8. PairInv(u, v)
  BY DEF FaultFree
<1>9. ToWrite(u, v)'
  BY <1>4, <1>5 DEF ToWrite
<1>10. ChainInOrder(u, v)'
  BY <1>9 DEF ChainInOrder, ToHandle, ToMirror, ToFinish, ToQuery
<1>11. FeedsFollow(u, v)'
  <2>1. \A p \in Posts : FeedInOrder(u, v, p)'
    BY <1>9 DEF FeedInOrder, ToHandle, ToMirror, ToFinish, ToQuery, ToFeed
  <2>2. \A p \in Posts : FeedCovered(u, v, p) => FeedCovered(u, v, p)'
    BY <1>1, <1>4, <1>5 DEF FeedCovered
  <2> QED
    BY <1>8, <2>1, <2>2 DEF PairInv, FeedsFollow
<1>12. Announced(u, v)'
  BY <1>1, <1>4, <1>8 DEF PairInv, Announced
<1>13. ASSUME NEW r \in Screens PROVE ScreenInv(u, v, r)'
  <2>1. ScreenInv(u, v, r)
    BY <1>8 DEF PairInv
  <2>2. ClosedForgotten(u, v, r)'
    BY <1>1, <1>4, <1>5, <2>1 DEF ScreenInv, ClosedForgotten
  <2>3. CASE r = s
    <3>1. Busy(u, v, r)' /\ OwnLast(u, v, r)'
      BY <1>4, <1>5, <1>9, <2>3 DEF Busy, OwnLast, ToHandle
    <3> QED
      BY <2>2, <3>1 DEF ScreenInv, ButtonInOrder
  <2>4. CASE r # s
    <3>1. CASE button[u][v][r] = "closed"
      <4>1. ~Has(outbox'[u], OpenOf(v, r)) /\ ~Has(handlers'[u], OpenOf(v, r))
        BY <1>1, <1>4, <1>5, <2>1, <2>4, <3>1 DEF ScreenInv, ClosedForgotten
      <4>2. ~Busy(u, v, r)'
        BY <4>1, LegParts DEF Busy
      <4> QED
        BY <1>1, <2>2, <3>1, <4>2 DEF ScreenInv, OwnLast, ButtonInOrder
    <3>2. CASE button[u][v][r] # "closed"
      <4>1. <<u, v, r>> \in stale'
        BY <1>1, <2>4, <3>2 DEF Others
      <4> QED
        BY <2>2, <4>1 DEF ScreenInv
    <3> QED
      BY <3>1, <3>2
  <2> QED
    BY <2>3, <2>4
<1>14. PairInv(u, v)'
  BY <1>10, <1>11, <1>12, <1>13 DEF PairInv
<1> QED
  BY <1>1, <1>6, <1>7, <1>14, ConfinedStep

(* A new post changes nothing but what later answers hold. *)
LEMMA PublishStep ==
  ASSUME TypeInv, FaultFree, NEW q \in Posts, Publish(q)
  PROVE  FaultFree'
<1>1. /\ outbox' = outbox /\ handlers' = handlers /\ queries' = queries
      /\ button' = button /\ loading' = loading /\ stale' = stale
      /\ following' = following /\ follower' = follower /\ notified' = notified
      /\ feeds' = feeds /\ published \subseteq published'
  BY DEF Publish, screen
<1>2. ASSUME NEW u \in Devices, NEW v \in Users PROVE PairInv(u, v)'
  <2>1. PairInv(u, v) /\ Untouched(u, v)
    BY <1>1 DEF FaultFree, Untouched, Followed
  <2> QED
    BY <1>1, <2>1, AlikeSame, PairElsewhere
<1>3. \A h : Completed(h, published) => Completed(h, published')
  BY <1>1 DEF Completed
<1>4. WellFormed'
  BY <1>1, <1>3 DEF FaultFree, WellFormed
<1> QED
  BY <1>2, <1>4 DEF FaultFree

(* The answer of isUserFollowed is what the device will make of it. *)
LEMMA TargetIs ==
  ASSUME TypeInv, NEW u \in Devices, NEW v \in Users, NEW op \in Ops, Target(u, v, op)
  PROVE  op = IF LocallyFollows(u, v) THEN "set" ELSE "delete"
<1> DEFINE pending == {i \in DOMAIN outbox[u] : /\ outbox[u][i].doc = "following"
                                                /\ outbox[u][i].uid = v}
           m == Max(pending)
<1>1. outbox[u] \in Seq(Message)
  BY DEF TypeInv, Queues
<1>2. \A i \in DOMAIN outbox[u] : outbox[u][i] \in Message /\ i \in Int
  BY <1>1
<1>3. \A i \in DOMAIN outbox[u] : i \in pending <=> outbox[u][i] \in Stage("following", v)
  BY <1>2 DEF Stage
<1>4. LocallyFollows(u, v) <=> IF pending = {} THEN <<u, v>> \in following
                                               ELSE outbox[u][m].op = "set"
  BY DEF LocallyFollows
<1>5. pending \in SUBSET DOMAIN outbox[u]
  OBVIOUS
<1> HIDE DEF pending, m
<1>6. CASE pending = {}
  <2>1. ~Has(outbox[u], Stage("following", v))
    BY <1>3, <1>6 DEF Has
  <2>2. op = Followed(u, v)
    BY <2>1 DEF Target
  <2> QED
    BY <1>4, <1>6, <2>2 DEF Followed
<1>7. CASE pending # {}
  <2>1. m \in pending /\ \A i \in pending : i <= m
    BY <1>1, <1>5, <1>7, LastPosition DEF m
  <2>2. m \in DOMAIN outbox[u] /\ outbox[u][m] \in Stage("following", v)
    BY <1>3, <1>5, <2>1
  <2>3. \A i \in DOMAIN outbox[u] : i > m => outbox[u][i] \notin Stage("following", v)
    BY <1>2, <1>3, <2>1, <2>2
  <2>4. LastIn(outbox[u], Stage("following", v), OpIs(op))
    BY <2>2 DEF Target, Has
  <2>5. outbox[u][m] \in OpIs(op)
    BY <2>2, <2>3, <2>4 DEF LastIn
  <2>6. outbox[u][m].op = op
    BY <2>5 DEF OpIs
  <2> QED
    BY <1>4, <1>7, <2>6 DEF Ops
<1> QED
  BY <1>6, <1>7

(* The answer of isUserFollowed comes behind the handlers it overtakes. *)
LEMMA LoadAnswerStep ==
  ASSUME TypeInv, FaultFree, NEW u \in Devices, NEW v \in Users, NEW s \in Screens,
         LoadAnswer(u, v, s)
  PROVE  FaultFree'
<1> DEFINE local == IF LocallyFollows(u, v) THEN "set" ELSE "delete"
           x == About("load", local, v, s)
<1>1. /\ <<u, v, s>> \in loading
      /\ Pushed(handlers, handlers', u, x)
      /\ loading' = loading \ {<<u, v, s>>} /\ stale' = stale
      /\ outbox' = outbox /\ queries' = queries /\ button' = button
      /\ following' = following /\ follower' = follower /\ notified' = notified
      /\ feeds' = feeds /\ published' = published
  BY DEF LoadAnswer, TypeInv, Queues, Pushed, ChangedAt, server
<1>2. local \in Ops
  BY DEF Ops
<1>3. \A op \in Ops : Target(u, v, op) => op = local
  BY TargetIs
<1> HIDE DEF local
<1>4. /\ x \in Message /\ x.doc = "load" /\ x.uid = v /\ x.from = s /\ x.op = local
  BY <1>2, AboutIs
<1> HIDE DEF x
<1>5. /\ handlers[u] \in Seq(Message)
      /\ Gained(handlers[u], handlers'[u], x)
      /\ \A d \in Devices : d # u => handlers'[d] = handlers[d]
  BY <1>1, OnePushed DEF TypeInv
<1>6. /\ ToSet(handlers'[u]) = ToSet(handlers[u]) \cup {x}
      /\ \A X : Has(handlers'[u], X) <=> Has(handlers[u], X) \/ x \in X
      /\ \A X, Y : x \in X => (LastIn(handlers'[u], X, Y) <=> x \in Y)
      /\ \A X, Y : x \notin X => (LastIn(handlers'[u], X, Y) <=> LastIn(handlers[u], X, Y))
      /\ \A A, B : NoneAfter(handlers[u], A, B) /\ (x \in B => ~Has(handlers[u], A))
                     => NoneAfter(handlers'[u], A, B)
  BY <1>4, <1>5, GainedFacts
<1>7. /\ \A doc : doc # "load" => x \notin Stage(doc, v)
      /\ \A r : x \notin OpenLeg("following", v, r)
      /\ \A r : x \in Setting(v, r) <=> r = s
      /\ \A r : x \in OpenOf(v, r) <=> r = s
      /\ x \in OpIs(local)
      /\ \A p : x \notin AnsweredWith(v, p) /\ x \notin AnsweredWithout(v, p)
  BY <1>4, Members, PostMembers
<1>8. Confined(u, v)
  <2>1. \A d \in Devices, other \in Users : d # u \/ other # v => Untouched(d, other)
    BY <1>1 DEF Untouched, Followed
  <2> QED
    BY <1>1, <1>4, <1>5, <2>1, OnlyAboutSame, OnlyAboutGained DEF Confined
<1>9. WellFormed'
  <2>1. Completed(x, published')
    BY <1>4 DEF Completed
  <2> QED
    BY <1>1, <1>6, <1>8, <2>1, FormsKept DEF FaultFree
<1>10. PairInv(u, v)
  BY DEF FaultFree
<1>11. /\ ToWrite(u, v)' <=> ToWrite(u, v)
       /\ ToHandle(u, v)' <=> ToHandle(u, v)
       /\ ToMirror(u, v)' <=> ToMirror(u, v)
       /\ ToFinish(u, v)' <=> ToFinish(u, v)
       /\ ToQuery(u, v)' <=> ToQuery(u, v)
       /\ ToFeed(u, v)' <=> ToFeed(u, v)
  BY <1>1, <1>6, <1>7 DEF ToWrite, ToHandle, ToMirror, ToFinish, ToQuery, ToFeed
<1>12. Followed(u, v)' = Followed(u, v)
  BY <1>1 DEF Followed
<1>13. ChainInOrder(u, v)'
  BY <1>1, <1>6, <1>7, <1>10, <1>11, <1>12 DEF PairInv, ChainInOrder
<1>14. FeedsFollow(u, v)'
  <2>1. \A p \in Posts : FeedInOrder(u, v, p) => FeedInOrder(u, v, p)'
    BY <1>1, <1>11, <1>12 DEF FeedInOrder
  <2>2. \A p \in Posts : FeedCovered(u, v, p) => FeedCovered(u, v, p)'
    BY <1>1, <1>6, <1>7 DEF FeedCovered
  <2> QED
    BY <1>10, <2>1, <2>2 DEF PairInv, FeedsFollow
<1>15. Announced(u, v)'
  BY <1>1, <1>6, <1>10 DEF PairInv, Announced
<1>16. \A op : Target(u, v, op)' <=> Target(u, v, op)
  BY <1>1, <1>12 DEF Target
<1>17. ASSUME NEW r \in Screens PROVE ScreenInv(u, v, r)'
  <2>1. ScreenInv(u, v, r)
    BY <1>10 DEF PairInv
  <2>2. Busy(u, v, r)' <=> Busy(u, v, r)
    BY <1>1, <1>6, <1>7 DEF Busy
  <2>3. OwnLast(u, v, r) => OwnLast(u, v, r)'
    BY <1>1, <1>6, <1>7, <1>11, <2>2 DEF OwnLast
  <2>4. CASE r = s
    <3>1. ClosedForgotten(u, v, r)'
      BY <1>1, <2>1, <2>4 DEF ScreenInv, ClosedForgotten
    <3>2. ButtonInOrder(u, v, r)'
      BY <1>3, <1>6, <1>7, <1>16, <2>4 DEF ButtonInOrder
    <3> QED
      BY <1>1, <2>1, <2>3, <3>1, <3>2 DEF ScreenInv
  <2>5. CASE r # s
    BY <1>1, <1>6, <1>7, <1>16, <2>1, <2>3, <2>5, ScreenKept
  <2> QED
    BY <2>4, <2>5
<1>18. PairInv(u, v)'
  BY <1>13, <1>14, <1>15, <1>17 DEF PairInv
<1> QED
  BY <1>1, <1>8, <1>9, <1>18, ConfinedStep

(* The second leg of a chain is issued behind those of the earlier chains. *)
LEMMA HandleFirstStep ==
  ASSUME TypeInv, FaultFree, NEW u \in Devices, HandleFirst(u)
  PROVE  FaultFree'
<1> DEFINE h == Head(handlers[u])  x == [h EXCEPT !.doc = "follower"]
<1>1. /\ h.doc = "following"
      /\ Popped(handlers, handlers', u)
      /\ Pushed(outbox, outbox', u, x)
      /\ queries' = queries /\ button' = button /\ loading' = loading /\ stale' = stale
      /\ following' = following /\ follower' = follower /\ notified' = notified
      /\ feeds' = feeds /\ published' = published
  BY DEF HandleFirst, TypeInv, Queues, Pushed, Popped, ChangedAt, server, screen
<1>2. h \in Message /\ h \in ToSet(handlers[u])
  BY <1>1, Handled
<1>3. Completed(h, published)
  BY <1>2 DEF FaultFree, WellFormed
<1>4. /\ handlers[u] \in Seq(Message)
      /\ Lost(handlers[u], handlers'[u], h)
      /\ \A d \in Devices : d # u => handlers'[d] = handlers[d]
  BY <1>1, OnePopped DEF TypeInv
<1> HIDE DEF h
<1> PICK v \in Users : v = h.uid
  BY <1>2 DEF Message, Write
<1>5. x \in Message /\ x.doc = "follower" /\ x.uid = v /\ x.from = h.from /\ x.op = h.op
  BY <1>2 DEF Message, Write
<1> HIDE DEF x
<1>6. /\ outbox[u] \in Seq(Message)
      /\ Gained(outbox[u], outbox'[u], x)
      /\ \A d \in Devices : d # u => outbox'[d] = outbox[d]
  BY <1>1, OnePushed DEF TypeInv
<1>7. /\ ToSet(handlers[u]) = {h} \cup ToSet(handlers'[u])
      /\ \A X : Has(handlers[u], X) <=> Has(handlers'[u], X) \/ h \in X
      /\ \A X, Y : LastIn(handlers[u], X, Y) => LastIn(handlers'[u], X, Y)
      /\ \A X, Y : LastIn(handlers[u], X, Y) /\ h \in X /\ ~Has(handlers'[u], X) => h \in Y
      /\ \A A, B : NoneAfter(handlers[u], A, B) =>
           NoneAfter(handlers'[u], A, B) /\ (h \in A => ~Has(handlers'[u], B))
  BY <1>4, LostFacts
<1>8. /\ ToSet(outbox'[u]) = ToSet(outbox[u]) \cup {x}
      /\ \A X : Has(outbox'[u], X) <=> Has(outbox[u], X) \/ x \in X
      /\ \A X, Y : x \in X => (LastIn(outbox'[u], X, Y) <=> x \in Y)
      /\ \A X, Y : x \notin X => (LastIn(outbox'[u], X, Y) <=> LastIn(outbox[u], X, Y))
      /\ \A A, B : NoneAfter(outbox[u], A, B) /\ (x \in B => ~Has(outbox[u], A))
                     => NoneAfter(outbox'[u], A, B)
  BY <1>5, <1>6, GainedFacts
<1>9. /\ \A doc : doc # "follower" => x \notin Stage(doc, v)
      /\ x \in Stage("follower", v)
      /\ \A s : x \in OpenOf(v, s) <=> h.from = s
      /\ \A op : x \in OpIs(op) <=> h.op = op
      /\ \A p : x \notin FeedOf(v, p)
  BY <1>5, Members, PostMembers
<1>10. /\ \A doc : doc # "following" => h \notin Stage(doc, v)
       /\ h \in Stage("following", v)
       /\ \A s : h \in OpenLeg("following", v, s) <=> h.from = s
       /\ \A s : h \in OpenOf(v, s) <=> h.from = s
       /\ \A s : h \notin Setting(v, s)
       /\ h \notin SetFollower(v)
       /\ \A op : h \in OpIs(op) <=> h.op = op
       /\ \A p : h \notin AnsweredWith(v, p) /\ h \notin AnsweredWithout(v, p)
  BY <1>1, <1>2, Members, PostMembers
<1>11. Confined(u, v)
  <2>1. \A d \in Devices, other \in Users : Untouched(d, other)
    BY <1>1 DEF Untouched, Followed
  <2>2. OnlyAbout(outbox[u], outbox'[u], v)
    BY <1>5, <1>6, OnlyAboutGained
  <2>3. OnlyAbout(handlers[u], handlers'[u], v)
    BY <1>4, OnlyAboutLost
  <2> QED
    BY <1>4, <1>6, <2>1, <2>2, <2>3 DEF Confined
<1>12. WellFormed'
  <2>1. Issued(x)
    BY <1>1, <1>3, <1>5 DEF Issued, Completed
  <2> QED
    BY <1>1, <1>7, <1>8, <1>11, <2>1, FormsKept DEF FaultFree
<1>13. PairInv(u, v)
  BY <1>5 DEF FaultFree
<1>14. /\ ToWrite(u, v)' <=> ToWrite(u, v)
       /\ ToMirror(u, v)'
       /\ ToHandle(u, v)' <=> ToWrite(u, v) \/ Has(handlers'[u], Stage("following", v))
  BY <1>8, <1>9 DEF ToWrite, ToHandle, ToMirror
<1>15. Followed(u, v)' = Followed(u, v)
  BY <1>1 DEF Followed
<1>16. ChainInOrder(u, v)'
  <2>1. ~ToWrite(u, v)' => LastIn(handlers'[u], Stage("following", v), OpIs(Followed(u, v)))
    BY <1>7, <1>13, <1>14 DEF PairInv, ChainInOrder
  <2>2. ~ToHandle(u, v)' => LastIn(outbox'[u], Stage("follower", v), OpIs(Followed(u, v)))
    BY <1>7, <1>8, <1>9, <1>10, <1>13, <1>14 DEF PairInv, ChainInOrder
  <2> QED
    BY <1>14, <1>15, <2>1, <2>2 DEF ChainInOrder, ToFinish, ToQuery
<1>17. FeedsFollow(u, v)'
  <2>1. \A p \in Posts : FeedInOrder(u, v, p)'
    BY <1>14 DEF FeedInOrder, ToFinish, ToQuery, ToFeed
  <2>2. \A p \in Posts : FeedCovered(u, v, p) => FeedCovered(u, v, p)'
    BY <1>1, <1>7, <1>8, <1>9 DEF FeedCovered
  <2> QED
    BY <1>13, <2>1, <2>2 DEF PairInv, FeedsFollow
<1>18. Announced(u, v)'
  BY <1>1, <1>7, <1>8, <1>10, <1>13 DEF PairInv, Announced
<1>19. \A op : Target(u, v, op)' <=> Target(u, v, op)
  BY <1>8, <1>9, <1>15 DEF Target
<1>20. ASSUME NEW s \in Screens PROVE ScreenInv(u, v, s)'
  <2>1. ScreenInv(u, v, s)
    BY <1>13 DEF PairInv
  <2>2. ClosedForgotten(u, v, s)'
    BY <1>1, <1>7, <1>8, <1>9, <1>10, <2>1 DEF ScreenInv, ClosedForgotten
  <2>3. Busy(u, v, s)' <=> Busy(u, v, s)
    BY <1>7, <1>8, <1>9, <1>10 DEF Busy
  <2>4. ASSUME OwnLast(u, v, s) PROVE OwnLast(u, v, s)'
    <3>1. SUFFICES ASSUME Busy(u, v, s)
                   PROVE  /\ LastIn(outbox'[u], Stage("following", v), OpenOf(v, s))
                          /\ ~ToWrite(u, v)' =>
                               LastIn(handlers'[u], Stage("following", v), OpenOf(v, s))
                          /\ ~ToHandle(u, v)' =>
                               LastIn(outbox'[u], Stage("follower", v), OpenOf(v, s))
      BY <2>3 DEF OwnLast
    <3>2. LastIn(outbox'[u], Stage("following", v), OpenOf(v, s))
      BY <1>8, <1>9, <2>4, <3>1 DEF OwnLast
    <3>3. ~ToWrite(u, v)' => LastIn(handlers'[u], Stage("following", v), OpenOf(v, s))
      BY <1>7, <1>14, <2>4, <3>1 DEF OwnLast
    <3>4. ~ToHandle(u, v)' => h.from = s
      BY <1>7, <1>10, <1>14, <2>4, <3>1 DEF OwnLast
    <3> QED
      BY <1>8, <1>9, <3>2, <3>3, <3>4
  <2>5. ButtonInOrder(u, v, s) => ButtonInOrder(u, v, s)'
    BY <1>1, <1>7, <1>10, <1>19, <2>3 DEF ButtonInOrder
  <2> QED
    BY <1>1, <2>1, <2>2, <2>4, <2>5 DEF ScreenInv
<1>21. PairInv(u, v)'
  BY <1>16, <1>17, <1>18, <1>20 DEF PairInv
<1> QED
  BY <1>1, <1>5, <1>11, <1>12, <1>21, ConfinedStep

(* A handler that sets the button leaves it right when it was the last. *)
LEMMA ShowStep ==
  ASSUME TypeInv, NEW u \in Devices, NEW v \in Users, NEW h \in Message, h.uid = v,
         h.doc \in {"load", "follower"},
         \A s \in Screens : ScreenInv(u, v, s),
         Lost(handlers[u], handlers'[u], h), ShowFollowed(u, h),
         loading' = loading, stale' = stale,
         \A s \in Screens : Has(outbox'[u], OpenOf(v, s)) <=> Has(outbox[u], OpenOf(v, s)),
         \A doc \in {"following", "follower"} : \A Y :
           LastIn(outbox[u], Stage(doc, v), Y) => LastIn(outbox'[u], Stage(doc, v), Y),
         ToWrite(u, v)' <=> ToWrite(u, v),
         \A op : Target(u, v, op)' <=> Target(u, v, op)
  PROVE  /\ \A s \in Screens : ScreenInv(u, v, s)'
         /\ \A d \in Devices, other \in Users :
              d # u \/ other # v => button'[d][other] = button[d][other]
<1>1. handlers[u] \in Seq(Message)
  BY DEF TypeInv, Queues
<1>2. /\ \A X : Has(handlers[u], X) <=> Has(handlers'[u], X) \/ h \in X
      /\ \A X, Y : LastIn(handlers[u], X, Y) => LastIn(handlers'[u], X, Y)
      /\ \A X, Y : LastIn(handlers[u], X, Y) /\ h \in X /\ ~Has(handlers'[u], X) => h \in Y
  BY <1>1, LostFacts
<1>3. /\ \A s : h \in OpenOf(v, s) <=> h.from = s
      /\ \A s : h \in Setting(v, s) <=> h.from = s
      /\ \A s : h \notin OpenLeg("following", v, s)
      /\ h \notin Stage("following", v)
      /\ \A op : h \in OpIs(op) <=> h.op = op
  BY Members
<1>4. \A d \in Devices, other \in Users :
        d # u \/ other # v => button'[d][other] = button[d][other]
  BY DEF ShowFollowed, TypeInv
<1>5. \A s \in Screens : h.from = s =>
        button'[u][v][s] = IF h.op = "set" THEN "Following" ELSE "Follow"
  BY DEF ShowFollowed, TypeInv
<1>6. \A s \in Screens : h.from # s => button'[u][v][s] = button[u][v][s]
  BY DEF ShowFollowed, TypeInv
<1>7. ToHandle(u, v)' <=> ToHandle(u, v)
  BY <1>2, <1>3 DEF ToHandle
<1>8. ASSUME NEW s \in Screens PROVE ScreenInv(u, v, s)'
  <2>1. ScreenInv(u, v, s)
    OBVIOUS
  <2>2. h.from = s => button[u][v][s] # "closed"
    BY <1>2, <1>3, <2>1 DEF ScreenInv, ClosedForgotten
  <2>3. ClosedForgotten(u, v, s)'
    BY <1>2, <1>3, <1>5, <1>6, <2>1, <2>2 DEF ScreenInv, ClosedForgotten
  <2>4. Busy(u, v, s)' <=> Busy(u, v, s)
    BY <1>2, <1>3 DEF Busy
  <2>5. OwnLast(u, v, s) => OwnLast(u, v, s)'
    BY <1>2, <1>7, <2>4 DEF OwnLast
  <2>6. ASSUME ButtonInOrder(u, v, s) PROVE ButtonInOrder(u, v, s)'
    <3>1. SUFFICES ASSUME NEW op \in Ops, button'[u][v][s] # "closed", ~Busy(u, v, s),
                          Target(u, v, op)
                   PROVE  /\ LastIn(handlers'[u], Setting(v, s), OpIs(op))
                          /\ \/ Has(handlers'[u], Setting(v, s))
                             \/ <<u, v, s>> \in loading
                             \/ button'[u][v][s] = "Following" <=> op = "set"
      BY <2>4 DEF ButtonInOrder
    <3>2. button[u][v][s] # "closed"
      BY <1>6, <2>2, <3>1
    <3>3. /\ LastIn(handlers[u], Setting(v, s), OpIs(op))
          /\ \/ Has(handlers[u], Setting(v, s))
             \/ <<u, v, s>> \in loading
             \/ button[u][v][s] = "Following" <=> op = "set"
      BY <2>6, <3>1, <3>2 DEF ButtonInOrder
    <3>4. CASE h.from = s
      <4>1. ~Has(handlers'[u], Setting(v, s)) => h.op = op
        BY <1>2, <1>3, <3>3, <3>4
      <4> QED
        BY <1>2, <1>5, <3>3, <3>4, <4>1
    <3>5. CASE h.from # s
      BY <1>2, <1>3, <1>6, <3>3, <3>5
    <3> QED
      BY <3>4, <3>5
  <2> QED
    BY <2>1, <2>3, <2>5, <2>6 DEF ScreenInv
<1> QED
  BY <1>4, <1>8

(* The completion of a chain sets the button, sends the notification and    *)
(* queries the posts.                                                       *)
LEMMA HandleSecondStep ==
  ASSUME TypeInv, FaultFree, NEW u \in Devices, HandleSecond(u)
  PROVE  FaultFree'
<1> DEFINE h == Head(handlers[u])
<1>1. /\ h.doc = "follower"
      /\ Popped(handlers, handlers', u)
      /\ ShowFollowed(u, h)
      /\ h.op = "set" => Pushed(outbox, outbox', u, About("notification", "set", h.uid, "nobody"))
      /\ h.op # "set" => outbox' = outbox
      /\ queries' = [queries EXCEPT ![u][h.uid] = Append(queries[u][h.uid], h.op)]
      /\ loading' = loading /\ stale' = stale
      /\ following' = following /\ follower' = follower /\ notified' = notified
      /\ feeds' = feeds /\ published' = published
  BY DEF HandleSecond, TypeInv, Queues, Pushed, Popped, ChangedAt, server
<1>2. h \in Message
  BY <1>1, Handled
<1>3. /\ handlers[u] \in Seq(Message)
      /\ Lost(handlers[u], handlers'[u], h)
      /\ \A d \in Devices : d # u => handlers'[d] = handlers[d]
  BY <1>1, OnePopped DEF TypeInv
<1> HIDE DEF h
<1> PICK v \in Users : v = h.uid
  BY <1>2 DEF Message, Write
<1> DEFINE x == About("notification", "set", v, "nobody")
<1>4. x \in Message /\ x.doc = "notification" /\ x.uid = v /\ x.from = "nobody"
  BY AboutIs DEF Ops
<1>5. h.op \in Ops
  BY <1>2 DEF Message, Write
<1>6. outbox[u] \in Seq(Message)
  BY DEF TypeInv, Queues
<1>7. h.op = "set" => /\ Gained(outbox[u], outbox'[u], x)
                      /\ \A d \in Devices : d # u => outbox'[d] = outbox[d]
  <2>1. h.op = "set" => Pushed(outbox, outbox', u, x)
    BY <1>1
  <2> HIDE DEF x
  <2> QED
    BY <2>1, OnePushed DEF TypeInv
<1> HIDE DEF x
<1>8. /\ queries[u][v] \in Seq(Ops)
      /\ Gained(queries[u][v], queries'[u][v], h.op)
      /\ \A d \in Devices, other \in Users :
           d # u \/ other # v => queries'[d][other] = queries[d][other]
  BY <1>1 DEF TypeInv, Gained
<1>9. /\ ToSet(handlers[u]) = {h} \cup ToSet(handlers'[u])
      /\ \A X : Has(handlers[u], X) <=> Has(handlers'[u], X) \/ h \in X
      /\ \A X, Y : LastIn(handlers[u], X, Y) => LastIn(handlers'[u], X, Y)
      /\ \A X, Y : LastIn(handlers[u], X, Y) /\ h \in X /\ ~Has(handlers'[u], X) => h \in Y
      /\ \A A, B : NoneAfter(handlers[u], A, B) => NoneAfter(handlers'[u], A, B)
  BY <1>3, LostFacts
<1>10. /\ \A X : x \notin X => (Has(outbox'[u], X) <=> Has(outbox[u], X))
       /\ \A X, Y : x \notin X => (LastIn(outbox'[u], X, Y) <=> LastIn(outbox[u], X, Y))
       /\ \A A, B : x \notin B /\ NoneAfter(outbox[u], A, B) => NoneAfter(outbox'[u], A, B)
       /\ \A w \in ToSet(outbox'[u]) : w \in ToSet(outbox[u]) \/ w = x
       /\ \A X : Has(outbox[u], X) => Has(outbox'[u], X)
       /\ h.op = "set" /\ x \in Stage("notification", v) =>
            Has(outbox'[u], Stage("notification", v))
  <2>1. CASE h.op = "set"
    <3>1. /\ ToSet(outbox'[u]) = ToSet(outbox[u]) \cup {x}
          /\ \A X : Has(outbox'[u], X) <=> Has(outbox[u], X) \/ x \in X
          /\ \A X, Y : x \notin X => (LastIn(outbox'[u], X, Y) <=> LastIn(outbox[u], X, Y))
          /\ \A A, B : NoneAfter(outbox[u], A, B) /\ (x \in B => ~Has(outbox[u], A))
                         => NoneAfter(outbox'[u], A, B)
      BY <1>4, <1>6, <1>7, <2>1, GainedFacts
    <3> QED
      BY <3>1
  <2>2. CASE h.op # "set"
    BY <1>1, <2>2
  <2> QED
    BY <2>1, <2>2
<1>11. /\ \A doc : doc # "notification" => x \notin Stage(doc, v)
       /\ x \in Stage("notification", v)
       /\ \A s \in Screens : x \notin OpenOf(v, s)
       /\ \A p : x \notin FeedOf(v, p)
  BY <1>4, Members, PostMembers, FollowAssumption
<1>12. /\ \A doc : doc # "follower" => h \notin Stage(doc, v)
       /\ h \in Stage("follower", v)
       /\ h \in SetFollower(v) <=> h.op = "set"
       /\ \A op : h \in OpIs(op) <=> h.op = op
       /\ \A p : h \notin AnsweredWith(v, p) /\ h \notin AnsweredWithout(v, p)
  BY <1>1, <1>2, Members, PostMembers, ZenonT(60)
<1>13. PairInv(u, v)
  BY DEF FaultFree
<1>14. Followed(u, v)' = Followed(u, v)
  BY <1>1 DEF Followed
<1>15. \A op : Target(u, v, op)' <=> Target(u, v, op)
  BY <1>10, <1>11, <1>14 DEF Target
<1>16. /\ \A s \in Screens : ScreenInv(u, v, s)'
       /\ \A d \in Devices, other \in Users :
            d # u \/ other # v => button'[d][other] = button[d][other]
  <2>1. ToWrite(u, v)' <=> ToWrite(u, v)
    BY <1>10, <1>11 DEF ToWrite
  <2>2. \A doc \in {"following", "follower"} : \A Y :
          LastIn(outbox[u], Stage(doc, v), Y) => LastIn(outbox'[u], Stage(doc, v), Y)
    BY <1>10, <1>11
  <2>3. \A s \in Screens : Has(outbox'[u], OpenOf(v, s)) <=> Has(outbox[u], OpenOf(v, s))
    BY <1>10, <1>11
  <2> QED
    BY <1>1, <1>2, <1>3, <1>13, <1>15, <2>1, <2>2, <2>3, ShowStep DEF PairInv
<1>17. Confined(u, v)
  <2>1. \A d \in Devices, other \in Users : d # u \/ other # v => Untouched(d, other)
    BY <1>1, <1>8, <1>16 DEF Untouched, Followed
  <2>2. OnlyAbout(outbox[u], outbox'[u], v)
    BY <1>1, <1>4, <1>6, <1>7, OnlyAboutGained, OnlyAboutSame
  <2>3. OnlyAbout(handlers[u], handlers'[u], v)
    BY <1>3, OnlyAboutLost
  <2> QED
    BY <1>1, <1>3, <1>7, <2>1, <2>2, <2>3 DEF Confined
<1>18. WellFormed'
  <2>1. Issued(x)
    BY <1>4 DEF Issued
  <2> QED
    BY <1>1, <1>9, <1>10, <1>17, <2>1, FormsKept DEF FaultFree
<1>19. /\ Has(queries'[u][v], Ops)
       /\ LastIn(queries'[u][v], Ops, {Followed(u, v)}) <=> h.op = Followed(u, v)
  <2>1. /\ \A X : Has(queries'[u][v], X) <=> Has(queries[u][v], X) \/ h.op \in X
        /\ \A X, Y : h.op \in X => (LastIn(queries'[u][v], X, Y) <=> h.op \in Y)
    BY <1>5, <1>8, GainedFacts
  <2> QED
    BY <1>5, <2>1
<1>20. /\ ToWrite(u, v)' <=> ToWrite(u, v)
       /\ ToHandle(u, v)' <=> ToHandle(u, v)
       /\ ToMirror(u, v)' <=> ToMirror(u, v)
       /\ ToFinish(u, v)' <=> ToMirror(u, v) \/ Has(handlers'[u], Stage("follower", v))
       /\ ToQuery(u, v)'
  BY <1>9, <1>10, <1>11, <1>12, <1>19 DEF ToWrite, ToHandle, ToMirror, ToFinish, ToQuery
<1>21. ChainInOrder(u, v)'
  <2>1. ~ToWrite(u, v)' => LastIn(handlers'[u], Stage("following", v), OpIs(Followed(u, v)))
    BY <1>9, <1>13, <1>20 DEF PairInv, ChainInOrder
  <2>2. ~ToHandle(u, v)' => LastIn(outbox'[u], Stage("follower", v), OpIs(Followed(u, v)))
    BY <1>10, <1>11, <1>13, <1>20 DEF PairInv, ChainInOrder
  <2>3. ~ToMirror(u, v)' => LastIn(handlers'[u], Stage("follower", v), OpIs(Followed(u, v)))
    BY <1>9, <1>13, <1>20 DEF PairInv, ChainInOrder
  <2>4. ~ToFinish(u, v)' => LastIn(queries'[u][v], Ops, {Followed(u, v)})
    BY <1>9, <1>12, <1>13, <1>19, <1>20 DEF PairInv, ChainInOrder
  <2> QED
    BY <1>14, <1>20, <2>1, <2>2, <2>3, <2>4 DEF ChainInOrder
<1>22. FeedsFollow(u, v)'
  <2>1. \A p \in Posts : FeedInOrder(u, v, p)'
    BY <1>20 DEF FeedInOrder, ToFeed
  <2>2. \A p \in Posts : FeedCovered(u, v, p) => FeedCovered(u, v, p)'
    BY <1>1, <1>9, <1>10, <1>11 DEF FeedCovered
  <2> QED
    BY <1>13, <2>1, <2>2 DEF PairInv, FeedsFollow
<1>23. Announced(u, v)'
  BY <1>1, <1>9, <1>10, <1>11, <1>12, <1>13 DEF PairInv, Announced
<1>24. PairInv(u, v)'
  BY <1>16, <1>21, <1>22, <1>23 DEF PairInv
<1> QED
  BY <1>1, <1>17, <1>18, <1>24, ConfinedStep

(* The handler of isUserFollowed sets the button and nothing else. *)
LEMMA HandleLoadStep ==
  ASSUME TypeInv, FaultFree, NEW u \in Devices, HandleLoad(u)
  PROVE  FaultFree'
<1> DEFINE h == Head(handlers[u])
<1>1. /\ h.doc = "load"
      /\ Popped(handlers, handlers', u)
      /\ ShowFollowed(u, h)
      /\ outbox' = outbox /\ queries' = queries /\ loading' = loading
      /\ stale' = stale
      /\ following' = following /\ follower' = follower /\ notified' = notified
      /\ feeds' = feeds /\ published' = published
  BY DEF HandleLoad, TypeInv, Queues, Popped, ChangedAt, server
<1>2. h \in Message
  BY <1>1, Handled
<1>3. /\ handlers[u] \in Seq(Message)
      /\ Lost(handlers[u], handlers'[u], h)
      /\ \A d \in Devices : d # u => handlers'[d] = handlers[d]
  BY <1>1, OnePopped DEF TypeInv
<1> HIDE DEF h
<1> PICK v \in Users : v = h.uid
  BY <1>2 DEF Message, Write
<1>4. /\ ToSet(handlers[u]) = {h} \cup ToSet(handlers'[u])
      /\ \A X : Has(handlers[u], X) <=> Has(handlers'[u], X) \/ h \in X
      /\ \A X, Y : LastIn(handlers[u], X, Y) => LastIn(handlers'[u], X, Y)
      /\ \A A, B : NoneAfter(handlers[u], A, B) => NoneAfter(handlers'[u], A, B)
  BY <1>3, LostFacts
<1>5. /\ \A doc : doc # "load" => h \notin Stage(doc, v)
      /\ h \notin SetFollower(v)
      /\ \A p : h \notin AnsweredWith(v, p) /\ h \notin AnsweredWithout(v, p)
  BY <1>1, <1>2, Members, PostMembers
<1>6. PairInv(u, v)
  BY DEF FaultFree
<1>7. Followed(u, v)' = Followed(u, v)
  BY <1>1 DEF Followed
<1>8. \A op : Target(u, v, op)' <=> Target(u, v, op)
  BY <1>1, <1>7 DEF Target
<1>9. /\ \A s \in Screens : ScreenInv(u, v, s)'
      /\ \A d \in Devices, other \in Users :
           d # u \/ other # v => button'[d][other] = button[d][other]
  <2>1. ToWrite(u, v)' <=> ToWrite(u, v)
    BY <1>1 DEF ToWrite
  <2> QED
    BY <1>1, <1>2, <1>3, <1>6, <1>8, <2>1, ShowStep DEF PairInv
<1>10. Confined(u, v)
  <2>1. \A d \in Devices, other \in Users : d # u \/ other # v => Untouched(d, other)
    BY <1>1, <1>9 DEF Untouched, Followed
  <2>2. OnlyAbout(handlers[u], handlers'[u], v)
    BY <1>3, OnlyAboutLost
  <2> QED
    BY <1>1, <1>3, <2>1, <2>2, OnlyAboutSame DEF Confined
<1>11. WellFormed'
  BY <1>1, <1>4, <1>10, FormsKept DEF FaultFree
<1>12. /\ ToWrite(u, v)' <=> ToWrite(u, v)
       /\ ToHandle(u, v)' <=> ToHandle(u, v)
       /\ ToMirror(u, v)' <=> ToMirror(u, v)
       /\ ToFinish(u, v)' <=> ToFinish(u, v)
       /\ ToQuery(u, v)' <=> ToQuery(u, v)
       /\ ToFeed(u, v)' <=> ToFeed(u, v)
  BY <1>1, <1>4, <1>5 DEF ToWrite, ToHandle, ToMirror, ToFinish, ToQuery, ToFeed
<1>13. ChainInOrder(u, v)'
  BY <1>1, <1>4, <1>6, <1>7, <1>12 DEF PairInv, ChainInOrder
<1>14. FeedsFollow(u, v)'
  <2>1. \A p \in Posts : FeedInOrder(u, v, p) => FeedInOrder(u, v, p)'
    BY <1>1, <1>7, <1>12 DEF FeedInOrder
  <2>2. \A p \in Posts : FeedCovered(u, v, p) => FeedCovered(u, v, p)'
    BY <1>1, <1>4 DEF FeedCovered
  <2> QED
    BY <1>6, <2>1, <2>2 DEF PairInv, FeedsFollow
<1>15. Announced(u, v)'
  BY <1>1, <1>4, <1>5, <1>6 DEF PairInv, Announced
<1>16. PairInv(u, v)'
  BY <1>9, <1>13, <1>14, <1>15 DEF PairInv
<1> QED
  BY <1>1, <1>10, <1>11, <1>16, ConfinedStep

(* An answer holds every post that an earlier answer, the feed or its       *)
(* writes know of.                                                          *)
LEMMA QueryAnswerStep ==
  ASSUME TypeInv, FaultFree, NEW u \in Devices, NEW v \in Users, QueryAnswer(u, v)
  PROVE  FaultFree'
<1> DEFINE op == Head(queries[u][v])
           x == [About("query", op, v, "gone") EXCEPT !.posts = PostsOf(v)]
<1>1. /\ queries[u][v] # <<>>
      /\ Pushed(handlers, handlers', u, x)
      /\ queries' = [queries EXCEPT ![u][v] = Tail(queries[u][v])]
      /\ outbox' = outbox /\ button' = button /\ loading' = loading
      /\ stale' = stale
      /\ following' = following /\ follower' = follower /\ notified' = notified
      /\ feeds' = feeds /\ published' = published
  BY DEF QueryAnswer, TypeInv, Queues, Pushed, ChangedAt, server, screen
<1>2. /\ queries[u][v] \in Seq(Ops)
      /\ Lost(queries[u][v], queries'[u][v], op)
      /\ \A d \in Devices, other \in Users :
           d # u \/ other # v => queries'[d][other] = queries[d][other]
  BY <1>1 DEF TypeInv, Lost
<1>3. op \in Ops
  BY <1>1, <1>2
<1>4. /\ PostsOf(v) \subseteq published
      /\ IsFiniteSet(PostsOf(v))
      /\ \A p \in Posts : Owner[p] = v => (p \in PostsOf(v) <=> p \in published)
      /\ \A p \in PostsOf(v) : Owner[p] = v
  <2>1. /\ PostsOf(v) \subseteq published
        /\ \A p \in Posts : Owner[p] = v => (p \in PostsOf(v) <=> p \in published)
        /\ \A p \in PostsOf(v) : Owner[p] = v
    BY DEF PostsOf
  <2>2. IsFiniteSet(PostsOf(v))
    BY <2>1, FS_Subset DEF TypeInv
  <2> QED
    BY <2>1, <2>2
<1> HIDE DEF op, PostsOf
<1>5. /\ x \in Message /\ x.doc = "query" /\ x.uid = v /\ x.from = "gone" /\ x.op = op
      /\ x.posts = PostsOf(v)
  BY <1>3, <1>4 DEF About, Message, Write, TypeInv
<1> HIDE DEF x
<1>6. /\ handlers[u] \in Seq(Message)
      /\ Gained(handlers[u], handlers'[u], x)
      /\ \A d \in Devices : d # u => handlers'[d] = handlers[d]
  BY <1>1, OnePushed DEF TypeInv
<1>7. /\ ToSet(handlers'[u]) = ToSet(handlers[u]) \cup {x}
      /\ \A X : Has(handlers'[u], X) <=> Has(handlers[u], X) \/ x \in X
      /\ \A X, Y : x \in X => (LastIn(handlers'[u], X, Y) <=> x \in Y)
      /\ \A X, Y : x \notin X => (LastIn(handlers'[u], X, Y) <=> LastIn(handlers[u], X, Y))
      /\ \A A, B : NoneAfter(handlers[u], A, B) /\ (x \in B => ~Has(handlers[u], A))
                     => NoneAfter(handlers'[u], A, B)
  BY <1>5, <1>6, GainedFacts
<1>8. /\ \A X : Has(queries[u][v], X) <=> Has(queries'[u][v], X) \/ op \in X
      /\ \A X, Y : LastIn(queries[u][v], X, Y) => LastIn(queries'[u][v], X, Y)
      /\ \A X, Y : LastIn(queries[u][v], X, Y) /\ op \in X /\ ~Has(queries'[u][v], X) => op \in Y
  BY <1>2, LostFacts
<1>9. /\ \A doc : doc # "query" => x \notin Stage(doc, v)
      /\ x \in Stage("query", v)
      /\ \A s \in Screens : /\ x \notin Setting(v, s) /\ x \notin OpenOf(v, s)
                             /\ x \notin OpenLeg("following", v, s)
      /\ \A o : x \in OpIs(o) <=> op = o
      /\ \A p : x \in AnsweredWithout(v, p) <=> p \notin PostsOf(v)
  BY <1>5, Members, PostMembers, FollowAssumption
<1>10. Confined(u, v)
  <2>1. \A d \in Devices, other \in Users : d # u \/ other # v => Untouched(d, other)
    BY <1>1, <1>2 DEF Untouched, Followed
  <2> QED
    BY <1>1, <1>5, <1>6, <2>1, OnlyAboutSame, OnlyAboutGained DEF Confined
<1>11. WellFormed'
  <2>1. Completed(x, published')
    BY <1>1, <1>4, <1>5 DEF Completed, TypeInv
  <2> QED
    BY <1>1, <1>7, <1>10, <2>1, FormsKept DEF FaultFree
<1>12. PairInv(u, v)
  BY DEF FaultFree
<1>13. /\ ToWrite(u, v)' <=> ToWrite(u, v)
       /\ ToHandle(u, v)' <=> ToHandle(u, v)
       /\ ToMirror(u, v)' <=> ToMirror(u, v)
       /\ ToFinish(u, v)' <=> ToFinish(u, v)
       /\ ToQuery(u, v)' <=> ToFinish(u, v) \/ Has(queries'[u][v], Ops)
       /\ ToFeed(u, v)'
  BY <1>1, <1>7, <1>9 DEF ToWrite, ToHandle, ToMirror, ToFinish, ToQuery, ToFeed
<1>14. Followed(u, v)' = Followed(u, v)
  BY <1>1 DEF Followed
<1>15. ChainInOrder(u, v)'
  <2>1. ~ToQuery(u, v)' => LastIn(handlers'[u], Stage("query", v), OpIs(Followed(u, v)))
    BY <1>3, <1>7, <1>8, <1>9, <1>12, <1>13 DEF PairInv, ChainInOrder
  <2>2. ~ToFinish(u, v)' => LastIn(queries'[u][v], Ops, {Followed(u, v)})
    BY <1>8, <1>12, <1>13 DEF PairInv, ChainInOrder
  <2>3. /\ ~ToWrite(u, v)' => LastIn(handlers'[u], Stage("following", v), OpIs(Followed(u, v)))
        /\ ~ToHandle(u, v)' => LastIn(outbox'[u], Stage("follower", v), OpIs(Followed(u, v)))
        /\ ~ToMirror(u, v)' => LastIn(handlers'[u], Stage("follower", v), OpIs(Followed(u, v)))
    BY <1>1, <1>7, <1>9, <1>12, <1>13 DEF PairInv, ChainInOrder
  <2> QED
    BY <1>14, <2>1, <2>2, <2>3 DEF ChainInOrder
<1>16. FeedsFollow(u, v)'
  <2>1. \A p \in Posts : FeedInOrder(u, v, p)'
    BY <1>13 DEF FeedInOrder
  <2>2. ASSUME NEW p \in Posts, Owner[p] = v PROVE FeedCovered(u, v, p)'
    <3>1. FeedCovered(u, v, p)
      BY <1>12, <2>2 DEF PairInv, FeedsFollow
    <3>2. Has(handlers[u], AnsweredWith(v, p)) => p \in published
      <4>1. SUFFICES ASSUME NEW h \in ToSet(handlers[u]), h \in AnsweredWith(v, p)
                     PROVE  p \in published
        BY HasElement
      <4>2. Completed(h, published)
        BY <4>1 DEF FaultFree, WellFormed
      <4> QED
        BY <4>1, <4>2 DEF Completed, AnsweredWith
    <3>3. x \in AnsweredWithout(v, p) <=> p \notin published
      BY <1>4, <1>9, <2>2
    <3> QED
      BY <1>1, <1>7, <3>1, <3>2, <3>3 DEF FeedCovered
  <2> QED
    BY <2>1, <2>2 DEF FeedsFollow
<1>17. Announced(u, v)'
  BY <1>1, <1>7, <1>12 DEF PairInv, Announced
<1>18. \A o : Target(u, v, o)' <=> Target(u, v, o)
  BY <1>1, <1>14 DEF Target
<1>19. ASSUME NEW s \in Screens PROVE ScreenInv(u, v, s)'
  <2>1. ScreenInv(u, v, s)
    BY <1>12 DEF PairInv
  <2>2. OwnLast(u, v, s) => OwnLast(u, v, s)'
    BY <1>1, <1>7, <1>9, <1>13 DEF OwnLast, Busy
  <2> QED
    BY <1>1, <1>7, <1>9, <1>18, <2>1, <2>2, ScreenKept
<1>20. PairInv(u, v)'
  BY <1>15, <1>16, <1>17, <1>19 DEF PairInv
<1> QED
  BY <1>1, <1>10, <1>11, <1>20, ConfinedStep

(* The handler of the last answer writes every post the feed may hold. *)
LEMMA HandleQueryStep ==
  ASSUME TypeInv, FaultFree, NEW u \in Devices, HandleQuery(u)
  PROVE  FaultFree'
<1> DEFINE h == Head(handlers[u])
           docs == SetToSeq(h.posts)
           writes == [i \in DOMAIN docs |-> [About("feed", h.op, h.uid, "nobody")
                                               EXCEPT !.posts = {docs[i]}]]
<1>1. /\ h.doc = "query"
      /\ Popped(handlers, handlers', u)
      /\ outbox' = [outbox EXCEPT ![u] = outbox[u] \o writes]
      /\ queries' = queries /\ button' = button /\ loading' = loading /\ stale' = stale
      /\ following' = following /\ follower' = follower /\ notified' = notified
      /\ feeds' = feeds /\ published' = published
  BY DEF HandleQuery, TypeInv, Queues, Popped, ChangedAt, server, screen
<1>2. h \in Message /\ h \in ToSet(handlers[u])
  BY <1>1, Handled
<1>3. Completed(h, published)
  BY <1>2 DEF FaultFree, WellFormed
<1>4. /\ handlers[u] \in Seq(Message)
      /\ Lost(handlers[u], handlers'[u], h)
      /\ \A d \in Devices : d # u => handlers'[d] = handlers[d]
  BY <1>1, OnePopped DEF TypeInv
<1> HIDE DEF h
<1>5. FeedWrites(h, writes)
  BY <1>2, FeedWritesIs
<1> PICK v \in Users : v = h.uid
  BY <1>2 DEF Message, Write
<1>6. PICK r : r = writes
  OBVIOUS
<1>7. FeedWrites(h, r) /\ outbox' = [outbox EXCEPT ![u] = outbox[u] \o r]
  BY <1>1, <1>5, <1>6
<1> HIDE DEF writes
<1>8. /\ r \in Seq(Message)
      /\ \A i \in DOMAIN r : /\ r[i] \in Message /\ r[i].doc = "feed" /\ r[i].op = h.op
                             /\ r[i].uid = v /\ r[i].from = "nobody"
                             /\ \E p \in h.posts : r[i].posts = {p}
      /\ \A p \in h.posts : \E i \in DOMAIN r : r[i].posts = {p}
  BY <1>7, SeqFacts DEF FeedWrites
<1>9. /\ outbox[u] \in Seq(Message)
      /\ outbox'[u] = outbox[u] \o r
      /\ \A d \in Devices : d # u => outbox'[d] = outbox[d]
  BY <1>7 DEF TypeInv, Queues
<1>10. /\ ToSet(outbox'[u]) = ToSet(outbox[u]) \cup ToSet(r)
       /\ \A X, Y : /\ Has(outbox'[u], X) <=> Has(outbox[u], X) \/ Has(r, X)
                    /\ Has(r, X) /\ LastIn(r, X, Y) => LastIn(outbox'[u], X, Y)
                    /\ ~Has(r, X) => (LastIn(outbox'[u], X, Y) <=> LastIn(outbox[u], X, Y))
                    /\ NoneAfter(outbox[u], X, Y) /\ ~Has(r, Y) => NoneAfter(outbox'[u], X, Y)
  <2>1. ToSet(outbox'[u]) = ToSet(outbox[u]) \cup ToSet(r)
    BY <1>8, <1>9, ToSetConcat
  <2>2. ASSUME NEW X, NEW Y
        PROVE  /\ Has(outbox'[u], X) <=> Has(outbox[u], X) \/ Has(r, X)
               /\ Has(r, X) /\ LastIn(r, X, Y) => LastIn(outbox'[u], X, Y)
               /\ ~Has(r, X) => (LastIn(outbox'[u], X, Y) <=> LastIn(outbox[u], X, Y))
               /\ NoneAfter(outbox[u], X, Y) /\ ~Has(r, Y) => NoneAfter(outbox'[u], X, Y)
    BY <1>8, <1>9, LastConcat
  <2> QED
    BY <2>1, <2>2
<1>11. /\ ToSet(handlers[u]) = {h} \cup ToSet(handlers'[u])
       /\ \A X : Has(handlers[u], X) <=> Has(handlers'[u], X) \/ h \in X
       /\ \A X, Y : LastIn(handlers[u], X, Y) => LastIn(handlers'[u], X, Y)
       /\ \A X, Y : LastIn(handlers[u], X, Y) /\ h \in X /\ ~Has(handlers'[u], X) => h \in Y
       /\ \A X, Y : h \notin X => (LastIn(handlers'[u], X, Y) <=> LastIn(handlers[u], X, Y))
       /\ \A A, B : NoneAfter(handlers[u], A, B) =>
            NoneAfter(handlers'[u], A, B) /\ (h \in A => ~Has(handlers'[u], B))
  BY <1>4, LostFacts
<1>12. /\ \A doc : doc # "feed" => ~Has(r, Stage(doc, v))
       /\ \A s \in Screens : ~Has(r, OpenOf(v, s))
       /\ \A p : Has(r, FeedOf(v, p)) <=> p \in h.posts
       /\ \A p : LastIn(r, FeedOf(v, p), OpIs(h.op))
       /\ \A other : other # v => ~Has(r, Concerning(other))
  <2>1. ASSUME NEW i \in DOMAIN r
        PROVE  /\ \A doc : doc # "feed" => r[i] \notin Stage(doc, v)
               /\ \A s \in Screens : r[i] \notin OpenOf(v, s)
               /\ r[i] \in OpIs(h.op)
               /\ \A other : other # v => r[i] \notin Concerning(other)
               /\ \A p : r[i] \in FeedOf(v, p) <=> r[i].posts = {p}
    <3>1. /\ r[i] \in Message /\ r[i].doc = "feed" /\ r[i].op = h.op
          /\ r[i].uid = v /\ r[i].from = "nobody"
      BY <1>8
    <3>2. /\ \A doc : doc # "feed" => r[i] \notin Stage(doc, v)
          /\ \A s \in Screens : r[i] \notin OpenOf(v, s)
          /\ r[i] \in OpIs(h.op)
      BY <3>1, Members, FollowAssumption
    <3>3. \A other : other # v => r[i] \notin Concerning(other)
      BY <3>1 DEF Concerning
    <3>4. \A p : r[i] \in FeedOf(v, p) <=> r[i].posts = {p}
      BY <3>1, PostMembers
    <3> QED
      BY <3>2, <3>3, <3>4
  <2>2. ASSUME NEW p PROVE Has(r, FeedOf(v, p)) <=> p \in h.posts
    <3>1. \A i \in DOMAIN r : r[i] \in FeedOf(v, p) <=> r[i].posts = {p}
      BY <2>1
    <3>2. \A i \in DOMAIN r : r[i].posts = {p} => p \in h.posts
      BY <1>8
    <3>3. p \in h.posts => \E i \in DOMAIN r : r[i].posts = {p}
      BY <1>8
    <3> QED
      BY <3>1, <3>2, <3>3 DEF Has
  <2>3. \A p : LastIn(r, FeedOf(v, p), OpIs(h.op))
    BY <2>1 DEF LastIn
  <2> QED
    BY <2>1, <2>2, <2>3 DEF Has
<1>13. /\ \A doc : doc # "query" => h \notin Stage(doc, v)
       /\ h \in Stage("query", v)
       /\ h \notin SetFollower(v)
       /\ \A s : h \notin Setting(v, s) /\ h \notin OpenLeg("following", v, s)
       /\ \A op : h \in OpIs(op) <=> h.op = op
       /\ \A p : h \in AnsweredWith(v, p) <=> p \in h.posts
       /\ \A p : h \in AnsweredWithout(v, p) <=> p \notin h.posts
  BY <1>1, <1>2, Members, PostMembers
<1>14. Confined(u, v)
  <2>1. \A d \in Devices, other \in Users : Untouched(d, other)
    BY <1>1 DEF Untouched, Followed
  <2>2. OnlyAbout(outbox[u], outbox'[u], v)
    BY <1>8, <1>9, <1>12, AlikeConcat DEF OnlyAbout
  <2>3. OnlyAbout(handlers[u], handlers'[u], v)
    BY <1>4, OnlyAboutLost
  <2> QED
    BY <1>4, <1>9, <2>1, <2>2, <2>3 DEF Confined
<1>15. h.posts \subseteq published /\ \A p \in h.posts : Owner[p] = v
  BY <1>1, <1>3 DEF Completed
<1>16. WellFormed'
  <2>1. \A w \in ToSet(r) : Issued(w)
    <3>1. \A i \in DOMAIN r : Issued(r[i])
      BY <1>8, <1>15 DEF Issued, TypeInv
    <3> QED
      BY <3>1 DEF ToSet
  <2> QED
    BY <1>1, <1>10, <1>11, <1>14, <2>1, FormsKept DEF FaultFree
<1>17. PairInv(u, v)
  BY DEF FaultFree
<1>18. /\ ToWrite(u, v)' <=> ToWrite(u, v)
       /\ ToHandle(u, v)' <=> ToHandle(u, v)
       /\ ToMirror(u, v)' <=> ToMirror(u, v)
       /\ ToFinish(u, v)' <=> ToFinish(u, v)
       /\ ToQuery(u, v)' <=> ToQuery(u, v)
       /\ ToFeed(u, v)' <=> ToQuery(u, v) \/ Has(handlers'[u], Stage("query", v))
  BY <1>1, <1>10, <1>11, <1>12, <1>13
     DEF ToWrite, ToHandle, ToMirror, ToFinish, ToQuery, ToFeed
<1>19. Followed(u, v)' = Followed(u, v)
  BY <1>1 DEF Followed
<1>20. ChainInOrder(u, v)'
  BY <1>1, <1>10, <1>11, <1>12, <1>17, <1>18, <1>19 DEF PairInv, ChainInOrder
<1>21. FeedsFollow(u, v)'
  <2>1. SUFFICES ASSUME NEW p \in Posts, Owner[p] = v
                 PROVE  FeedInOrder(u, v, p)' /\ FeedCovered(u, v, p)'
    BY DEF FeedsFollow
  <2>2. FeedInOrder(u, v, p) /\ FeedCovered(u, v, p)
    BY <1>17, <2>1 DEF PairInv, FeedsFollow
  <2>3. FeedCovered(u, v, p)'
    BY <1>1, <1>10, <1>11, <1>12, <1>13, <1>15, <2>2 DEF FeedCovered
  <2>4. FeedInOrder(u, v, p)'
    <3>1. SUFFICES ASSUME ~ToQuery(u, v), ~Has(handlers'[u], Stage("query", v))
                   PROVE  /\ LastIn(outbox'[u], FeedOf(v, p), OpIs(Followed(u, v)))
                          /\ \/ Has(outbox'[u], FeedOf(v, p))
                             \/ /\ Followed(u, v) = "set" /\ p \in OldPosts => <<u, p>> \in feeds
                                /\ Followed(u, v) = "delete" => <<u, p>> \notin feeds
      BY <1>1, <1>18, <1>19 DEF FeedInOrder
    <3>2. h.op = Followed(u, v)
      BY <1>11, <1>13, <1>17, <3>1 DEF PairInv, ChainInOrder
    <3>3. CASE p \in h.posts
      BY <1>10, <1>12, <3>2, <3>3
    <3>4. CASE p \notin h.posts
      <4>1. <<u, p>> \notin feeds /\ ~Has(outbox[u], FeedOf(v, p))
        BY <1>11, <1>13, <2>2, <3>4 DEF FeedCovered
      <4>2. p \notin OldPosts
        BY <1>1, <1>3, <2>1, <3>4 DEF Completed
      <4>3. LastIn(outbox[u], FeedOf(v, p), OpIs(Followed(u, v)))
        BY <4>1, HasNone
      <4> QED
        BY <1>10, <1>12, <3>4, <4>1, <4>2, <4>3
    <3> QED
      BY <3>3, <3>4
  <2> QED
    BY <2>3, <2>4
<1>22. Announced(u, v)'
  BY <1>1, <1>10, <1>11, <1>13, <1>17 DEF PairInv, Announced
<1>23. \A op : Target(u, v, op)' <=> Target(u, v, op)
  BY <1>10, <1>12, <1>19 DEF Target
<1>24. ASSUME NEW s \in Screens PROVE ScreenInv(u, v, s)'
  <2>1. ScreenInv(u, v, s)
    BY <1>17 DEF PairInv
  <2>2. Busy(u, v, s)' <=> Busy(u, v, s)
    BY <1>10, <1>11, <1>12, <1>13 DEF Busy
  <2>3. OwnLast(u, v, s) => OwnLast(u, v, s)'
    BY <1>10, <1>11, <1>12, <1>18, <2>2 DEF OwnLast
  <2> QED
    BY <1>1, <1>10, <1>11, <1>12, <1>13, <1>23, <2>1, <2>3, ScreenKept
<1>25. PairInv(u, v)'
  BY <1>20, <1>21, <1>22, <1>24 DEF PairInv
<1> QED
  BY <1>1, <1>14, <1>16, <1>25, ConfinedStep

----------------------------------------------------------------------------
(* What the backend's acknowledgement of the write w of u changes. *)
Committed(u, w) ==
  /\ Lost(outbox[u], outbox'[u], w)
  /\ w.from # "nobody" => Gained(handlers[u], handlers'[u], w)
  /\ w.from = "nobody" => handlers'[u] = handlers[u]
  /\ following' = IF w.doc = "following" THEN Apply(following, w.op, <<u, w.uid>>)
                                         ELSE following
  /\ follower' = IF w.doc = "follower" THEN Apply(follower, w.op, <<u, w.uid>>)
                                       ELSE follower
  /\ notified' = IF w.doc = "notification" THEN notified \cup {<<u, w.uid>>} ELSE notified
  /\ feeds' = IF w.doc = "feed" THEN (IF w.op = "set" THEN feeds \cup ({u} \X w.posts)
                                                      ELSE feeds \ ({u} \X w.posts))
                                ELSE feeds
  /\ queries' = queries /\ button' = button /\ loading' = loading
  /\ stale' = stale /\ published' = published

(* An acknowledgement concerns the write at the front, nobody else's. *)
LEMMA CommitFacts ==
  ASSUME TypeInv, FaultFree, NEW u \in Devices, Commit(u),
         NEW w, w = Head(outbox[u]), NEW v, v = w.uid
  PROVE  /\ w \in Message /\ Issued(w) /\ v \in Users
         /\ Committed(u, w)
         /\ Confined(u, v)
         /\ WellFormed'
<1>1. Popped(outbox, outbox', u)
  BY DEF Commit, Depart, TypeInv, Queues, Popped, ChangedAt
<1>2. outbox \in Queues(Devices, Message) /\ handlers \in Queues(Devices, Message)
  BY DEF TypeInv
<1>3. /\ outbox[u] \in Seq(Message)
      /\ Lost(outbox[u], outbox'[u], w)
      /\ \A d \in Devices : d # u => outbox'[d] = outbox[d]
  BY <1>1, <1>2, OnePopped
<1>4. /\ w \in Message
      /\ ToSet(outbox[u]) = {w} \cup ToSet(outbox'[u])
  BY <1>3, LostFacts
<1>5. Issued(w)
  BY <1>4 DEF FaultFree, WellFormed
<1>6. v \in Users
  BY <1>4 DEF Message, Write
<1>7. /\ w.from # "nobody" => Pushed(handlers, handlers', u, w)
      /\ w.from = "nobody" => handlers' = handlers
  BY DEF Commit, Depart, TypeInv, Queues, Pushed, ChangedAt
<1>8. /\ handlers[u] \in Seq(Message)
      /\ w.from # "nobody" => Gained(handlers[u], handlers'[u], w)
      /\ \A d \in Devices : d # u => handlers'[d] = handlers[d]
  <2>1. w.from # "nobody" => /\ Gained(handlers[u], handlers'[u], w)
                             /\ \A d \in Devices : d # u => handlers'[d] = handlers[d]
    BY <1>2, <1>7, OnePushed
  <2> QED
    BY <1>2, <1>7, <2>1 DEF Queues
<1>9. Committed(u, w)
  <2>1. /\ following' = IF w.doc = "following" THEN Apply(following, w.op, <<u, w.uid>>)
                                               ELSE following
        /\ follower' = IF w.doc = "follower" THEN Apply(follower, w.op, <<u, w.uid>>)
                                             ELSE follower
        /\ notified' = IF w.doc = "notification" THEN notified \cup {<<u, w.uid>>} ELSE notified
        /\ feeds' = IF w.doc = "feed" THEN (IF w.op = "set" THEN feeds \cup ({u} \X w.posts)
                                                            ELSE feeds \ ({u} \X w.posts))
                                      ELSE feeds
        /\ queries' = queries /\ button' = button /\ loading' = loading
        /\ stale' = stale /\ published' = published
    BY DEF Commit, screen
  <2> QED
    BY <1>3, <1>7, <1>8, <2>1 DEF Committed
<1>10. \A d \in Devices, other \in Users : d # u \/ other # v => Untouched(d, other)
  <2>1. SUFFICES ASSUME NEW d \in Devices, NEW other \in Users, d # u \/ other # v
                 PROVE  Untouched(d, other)
    OBVIOUS
  <2>2. <<d, other>> # <<u, w.uid>>
    BY <2>1
  <2>3. /\ <<d, other>> \in following' <=> <<d, other>> \in following
        /\ <<d, other>> \in follower' <=> <<d, other>> \in follower
        /\ <<d, other>> \in notified' <=> <<d, other>> \in notified
    BY <1>9, <2>2 DEF Committed, Apply
  <2>4. ASSUME NEW p \in Posts, Owner[p] = other
        PROVE  <<d, p>> \in feeds' <=> <<d, p>> \in feeds
    <3>1. w.doc = "feed" => <<d, p>> \notin {u} \X w.posts
      BY <1>5, <2>1, <2>4 DEF Issued
    <3> QED
      BY <1>9, <3>1 DEF Committed
  <2> QED
    BY <1>9, <2>3, <2>4 DEF Untouched, Committed, Followed
<1>11. Confined(u, v)
  <2>1. OnlyAbout(outbox[u], outbox'[u], v)
    BY <1>3, OnlyAboutLost
  <2>2. OnlyAbout(handlers[u], handlers'[u], v)
    <3>1. CASE w.from = "nobody"
      BY <1>7, <3>1, OnlyAboutSame
    <3>2. CASE w.from # "nobody"
      BY <1>4, <1>8, <3>2, OnlyAboutGained
    <3> QED
      BY <3>1, <3>2
  <2> QED
    BY <1>3, <1>8, <1>10, <2>1, <2>2 DEF Confined
<1>12. WellFormed'
  <2>1. w.from # "nobody" => Completed(w, published')
    BY <1>5 DEF Issued, Completed
  <2>2. \A h \in ToSet(handlers'[u]) : h \in ToSet(handlers[u]) \/ Completed(h, published')
    <3>1. CASE w.from = "nobody"
      BY <1>7, <3>1
    <3>2. CASE w.from # "nobody"
      <4>1. ToSet(handlers'[u]) = ToSet(handlers[u]) \cup {w}
        BY <1>4, <1>8, <3>2, GainedFacts
      <4> QED
        BY <2>1, <3>2, <4>1
    <3> QED
      BY <3>1, <3>2
  <2>3. published \subseteq published'
    BY <1>9 DEF Committed
  <2> QED
    BY <1>4, <1>11, <2>2, <2>3, FormsKept DEF FaultFree
<1> QED
  BY <1>4, <1>5, <1>6, <1>9, <1>11, <1>12

(* The front leaves the pipeline for the handlers. *)
LEMMA Moved ==
  ASSUME TypeInv, NEW u \in Devices, NEW w \in Message, Committed(u, w), w.from # "nobody"
  PROVE  /\ \A X : Has(outbox[u], X) <=> Has(outbox'[u], X) \/ w \in X
         /\ \A X, Y : LastIn(outbox[u], X, Y) => LastIn(outbox'[u], X, Y)
         /\ \A X, Y : LastIn(outbox[u], X, Y) /\ w \in X /\ ~Has(outbox'[u], X) => w \in Y
         /\ \A X, Y : w \notin X => (LastIn(outbox'[u], X, Y) <=> LastIn(outbox[u], X, Y))
         /\ \A X, Y : Has(outbox'[u], X) /\ LastIn(outbox'[u], X, Y) => LastIn(outbox[u], X, Y)
         /\ \A X, Y : ~Has(outbox'[u], X) /\ w \in Y => LastIn(outbox[u], X, Y)
         /\ \A A, B : NoneAfter(outbox[u], A, B) =>
              NoneAfter(outbox'[u], A, B) /\ (w \in A => ~Has(outbox'[u], B))
         /\ \A X : Has(handlers'[u], X) <=> Has(handlers[u], X) \/ w \in X
         /\ \A X, Y : w \in X => (LastIn(handlers'[u], X, Y) <=> w \in Y)
         /\ \A X, Y : w \notin X => (LastIn(handlers'[u], X, Y) <=> LastIn(handlers[u], X, Y))
         /\ \A A, B : NoneAfter(handlers[u], A, B) /\ (w \in B => ~Has(handlers[u], A))
                        => NoneAfter(handlers'[u], A, B)
<1>1. outbox[u] \in Seq(Message) /\ handlers[u] \in Seq(Message)
  BY DEF TypeInv, Queues
<1>2. Lost(outbox[u], outbox'[u], w) /\ Gained(handlers[u], handlers'[u], w)
  BY DEF Committed
<1>3. /\ \A X : Has(outbox[u], X) <=> Has(outbox'[u], X) \/ w \in X
      /\ \A X, Y : LastIn(outbox[u], X, Y) => LastIn(outbox'[u], X, Y)
      /\ \A X, Y : LastIn(outbox[u], X, Y) /\ w \in X /\ ~Has(outbox'[u], X) => w \in Y
      /\ \A X, Y : w \notin X => (LastIn(outbox'[u], X, Y) <=> LastIn(outbox[u], X, Y))
      /\ \A X, Y : Has(outbox'[u], X) /\ LastIn(outbox'[u], X, Y) => LastIn(outbox[u], X, Y)
      /\ \A X, Y : ~Has(outbox'[u], X) /\ w \in Y => LastIn(outbox[u], X, Y)
      /\ \A A, B : NoneAfter(outbox[u], A, B) =>
           NoneAfter(outbox'[u], A, B) /\ (w \in A => ~Has(outbox'[u], B))
  BY <1>1, <1>2, LostFacts
<1>4. /\ \A X : Has(handlers'[u], X) <=> Has(handlers[u], X) \/ w \in X
      /\ \A X, Y : w \in X => (LastIn(handlers'[u], X, Y) <=> w \in Y)
      /\ \A X, Y : w \notin X => (LastIn(handlers'[u], X, Y) <=> LastIn(handlers[u], X, Y))
      /\ \A A, B : NoneAfter(handlers[u], A, B) /\ (w \in B => ~Has(handlers[u], A))
                     => NoneAfter(handlers'[u], A, B)
  BY <1>1, <1>2, GainedFacts
<1> QED
  BY <1>3, <1>4

(* The Following document is written: the backend has caught up with the    *)
(* chain, which has its other steps before it.                              *)
LEMMA CommitFirst ==
  ASSUME TypeInv, NEW u \in Devices, NEW v \in Users, PairInv(u, v),
         NEW w \in Message, w.uid = v, w.doc = "following", Issued(w), Committed(u, w)
  PROVE  PairInv(u, v)'
<1>1. w.from # "nobody"
  BY DEF Issued
<1>2. /\ \A X : Has(outbox[u], X) <=> Has(outbox'[u], X) \/ w \in X
      /\ \A X, Y : LastIn(outbox[u], X, Y) => LastIn(outbox'[u], X, Y)
      /\ \A X, Y : Has(outbox'[u], X) /\ LastIn(outbox'[u], X, Y) => LastIn(outbox[u], X, Y)
      /\ \A X, Y : ~Has(outbox'[u], X) /\ w \in Y => LastIn(outbox[u], X, Y)
      /\ \A A, B : NoneAfter(outbox[u], A, B) =>
           NoneAfter(outbox'[u], A, B) /\ (w \in A => ~Has(outbox'[u], B))
      /\ \A X, Y : LastIn(outbox[u], X, Y) /\ w \in X /\ ~Has(outbox'[u], X) => w \in Y
  BY <1>1, Moved
<1>3. /\ \A X : Has(handlers'[u], X) <=> Has(handlers[u], X) \/ w \in X
      /\ \A X, Y : w \in X => (LastIn(handlers'[u], X, Y) <=> w \in Y)
      /\ \A X, Y : w \notin X => (LastIn(handlers'[u], X, Y) <=> LastIn(handlers[u], X, Y))
      /\ \A A, B : NoneAfter(handlers[u], A, B) /\ (w \in B => ~Has(handlers[u], A))
                     => NoneAfter(handlers'[u], A, B)
  BY <1>1, Moved
<1>4. /\ \A doc : doc # "following" => w \notin Stage(doc, v)
      /\ w \in Stage("following", v)
      /\ \A s : w \in OpenLeg("following", v, s) <=> w.from = s
      /\ \A s : w \in OpenOf(v, s) <=> w.from = s
      /\ \A s : w \notin Setting(v, s)
      /\ \A op : w \in OpIs(op) <=> w.op = op
  <2>1. /\ \A doc : w \in Stage(doc, v) <=> w.doc = doc /\ w.uid = v
        /\ \A doc, s : w \in OpenLeg(doc, v, s) <=> w.doc = doc /\ w.uid = v /\ w.from = s
        /\ \A op : w \in OpIs(op) <=> w.op = op
        /\ \A s : w \in OpenOf(v, s) <=> w.uid = v /\ w.from = s
        /\ \A s : w \in Setting(v, s) <=>
                    w.uid = v /\ w.from = s /\ w.doc \in {"load", "follower"}
    BY Members
  <2> QED
    BY <2>1
<1>5. \A p : w \notin FeedOf(v, p) /\ w \notin AnsweredWith(v, p) /\ w \notin AnsweredWithout(v, p)
  BY PostMembers
<1>6. /\ Followed(u, v)' = w.op
      /\ follower' = follower /\ notified' = notified /\ feeds' = feeds
      /\ queries' = queries /\ button' = button /\ loading' = loading
      /\ stale' = stale /\ published' = published
  <2>1. w.op \in Ops
    BY DEF Message, Write
  <2>2. following' = Apply(following, w.op, <<u, v>>)
    BY DEF Committed
  <2>3. Followed(u, v)' = w.op
    BY <2>1, <2>2 DEF Followed, Apply, Ops
  <2> QED
    BY <2>3 DEF Committed
<1>7. ToHandle(u, v)' /\ ToMirror(u, v)' /\ ToFinish(u, v)' /\ ToQuery(u, v)' /\ ToFeed(u, v)'
  BY <1>3, <1>4 DEF ToHandle, ToMirror, ToFinish, ToQuery, ToFeed
<1>8. ChainInOrder(u, v)'
  BY <1>3, <1>4, <1>6, <1>7 DEF ChainInOrder
<1>9. FeedsFollow(u, v)'
  <2>1. \A p \in Posts : FeedInOrder(u, v, p)'
    BY <1>7 DEF FeedInOrder
  <2>2. \A p \in Posts : FeedCovered(u, v, p) => FeedCovered(u, v, p)'
    BY <1>2, <1>3, <1>5, <1>6 DEF FeedCovered
  <2> QED
    BY <2>1, <2>2 DEF PairInv, FeedsFollow
<1>10. Announced(u, v)'
  BY <1>2, <1>3, <1>4, <1>6 DEF PairInv, Announced
<1>11. ASSUME NEW op \in Ops, Target(u, v, op)' PROVE Target(u, v, op)
  <2>1. Has(outbox[u], Stage("following", v))
    BY <1>2, <1>4
  <2>2. CASE Has(outbox'[u], Stage("following", v))
    BY <1>2, <1>11, <2>1, <2>2 DEF Target
  <2>3. CASE ~Has(outbox'[u], Stage("following", v))
    <3>1. op = w.op
      BY <1>6, <1>11, <2>3 DEF Target
    <3> QED
      BY <1>2, <1>4, <2>1, <2>3, <3>1 DEF Target
  <2> QED
    BY <2>2, <2>3
<1>12. ASSUME NEW s \in Screens PROVE ScreenInv(u, v, s)'
  <2>1. ScreenInv(u, v, s)
    BY DEF PairInv
  <2>2. ClosedForgotten(u, v, s)'
    BY <1>2, <1>3, <1>6, <2>1 DEF ScreenInv, ClosedForgotten
  <2>3. Busy(u, v, s)' => Busy(u, v, s)
    BY <1>2, <1>3, <1>4 DEF Busy
  <2>4. ASSUME OwnLast(u, v, s) PROVE OwnLast(u, v, s)'
    <3>1. SUFFICES ASSUME Busy(u, v, s)
                   PROVE  /\ LastIn(outbox'[u], Stage("following", v), OpenOf(v, s))
                          /\ ~ToWrite(u, v)' => w \in OpenOf(v, s)
      BY <1>3, <1>4, <1>7, <2>3 DEF OwnLast
    <3>2. LastIn(outbox[u], Stage("following", v), OpenOf(v, s))
      BY <2>4, <3>1 DEF OwnLast
    <3> QED
      BY <1>2, <1>4, <3>2 DEF ToWrite
  <2>5. ASSUME ButtonInOrder(u, v, s) PROVE ButtonInOrder(u, v, s)'
    <3>1. SUFFICES ASSUME NEW op \in Ops, button[u][v][s] # "closed", ~Busy(u, v, s)',
                          Target(u, v, op)'
                   PROVE  /\ LastIn(handlers'[u], Setting(v, s), OpIs(op))
                          /\ \/ Has(handlers'[u], Setting(v, s))
                             \/ <<u, v, s>> \in loading
                             \/ button[u][v][s] = "Following" <=> op = "set"
      BY <1>6 DEF ButtonInOrder
    <3>2. ~Busy(u, v, s)
      BY <1>2, <1>3, <1>4, <3>1 DEF Busy
    <3>3. Target(u, v, op)
      BY <1>11, <3>1
    <3>4. /\ LastIn(handlers[u], Setting(v, s), OpIs(op))
          /\ \/ Has(handlers[u], Setting(v, s))
             \/ <<u, v, s>> \in loading
             \/ button[u][v][s] = "Following" <=> op = "set"
      BY <2>5, <3>1, <3>2, <3>3 DEF ButtonInOrder
    <3> QED
      BY <1>3, <1>4, <3>4
  <2> QED
    BY <1>6, <2>1, <2>2, <2>4, <2>5 DEF ScreenInv
<1> QED
  BY <1>8, <1>9, <1>10, <1>12 DEF PairInv

(* The Follower document is written: when the chain was the last of its     *)
(* screen, no chain is left behind it and its completion sets the button to *)
(* what the backend has.                                                    *)
LEMMA CommitSecond ==
  ASSUME TypeInv, NEW u \in Devices, NEW v \in Users, PairInv(u, v),
         NEW w \in Message, w.uid = v, w.doc = "follower", Issued(w), Committed(u, w)
  PROVE  PairInv(u, v)'
<1>1. w.from # "nobody"
  BY DEF Issued
<1>2. /\ \A X : Has(outbox[u], X) <=> Has(outbox'[u], X) \/ w \in X
      /\ \A X, Y : LastIn(outbox[u], X, Y) => LastIn(outbox'[u], X, Y)
      /\ \A X, Y : LastIn(outbox[u], X, Y) /\ w \in X /\ ~Has(outbox'[u], X) => w \in Y
      /\ \A X, Y : w \notin X => (LastIn(outbox'[u], X, Y) <=> LastIn(outbox[u], X, Y))
      /\ \A A, B : NoneAfter(outbox[u], A, B) =>
           NoneAfter(outbox'[u], A, B) /\ (w \in A => ~Has(outbox'[u], B))
  BY <1>1, Moved
<1>3. /\ \A X : Has(handlers'[u], X) <=> Has(handlers[u], X) \/ w \in X
      /\ \A X, Y : w \in X => (LastIn(handlers'[u], X, Y) <=> w \in Y)
      /\ \A X, Y : w \notin X => (LastIn(handlers'[u], X, Y) <=> LastIn(handlers[u], X, Y))
      /\ \A A, B : NoneAfter(handlers[u], A, B) /\ (w \in B => ~Has(handlers[u], A))
                     => NoneAfter(handlers'[u], A, B)
  BY <1>1, Moved
<1>4. /\ \A doc : doc # "follower" => w \notin Stage(doc, v)
      /\ w \in Stage("follower", v)
      /\ \A s : w \notin OpenLeg("following", v, s)
      /\ \A s : w \in OpenOf(v, s) <=> w.from = s
      /\ \A s : w \in Setting(v, s) <=> w.from = s
      /\ w \in SetFollower(v) <=> w.op = "set"
      /\ \A op : w \in OpIs(op) <=> w.op = op
  BY Members
<1>5. \A p : w \notin FeedOf(v, p) /\ w \notin AnsweredWith(v, p) /\ w \notin AnsweredWithout(v, p)
  BY PostMembers
<1>6. /\ Followed(u, v)' = Followed(u, v)
      /\ w.op # "set" => <<u, v>> \notin follower'
      /\ notified' = notified /\ feeds' = feeds
      /\ queries' = queries /\ button' = button /\ loading' = loading
      /\ stale' = stale /\ published' = published
  BY DEF Committed, Apply, Followed
<1>7. /\ ToWrite(u, v)' <=> ToWrite(u, v)
      /\ ToHandle(u, v)' <=> ToHandle(u, v)
      /\ ToMirror(u, v)' <=> ToHandle(u, v) \/ Has(outbox'[u], Stage("follower", v))
      /\ ToFinish(u, v)' /\ ToQuery(u, v)' /\ ToFeed(u, v)'
  BY <1>2, <1>3, <1>4 DEF ToWrite, ToHandle, ToMirror, ToFinish, ToQuery, ToFeed
<1>8. ChainInOrder(u, v)'
  <2>1. /\ ~ToWrite(u, v)' => LastIn(handlers'[u], Stage("following", v), OpIs(Followed(u, v)))
        /\ ~ToHandle(u, v)' => LastIn(outbox'[u], Stage("follower", v), OpIs(Followed(u, v)))
    BY <1>2, <1>3, <1>4, <1>7 DEF PairInv, ChainInOrder
  <2>2. ~ToMirror(u, v)' => LastIn(handlers'[u], Stage("follower", v), OpIs(Followed(u, v)))
    BY <1>2, <1>3, <1>4, <1>7 DEF PairInv, ChainInOrder
  <2> QED
    BY <1>6, <1>7, <2>1, <2>2 DEF ChainInOrder
<1>9. FeedsFollow(u, v)'
  <2>1. \A p \in Posts : FeedInOrder(u, v, p)'
    BY <1>7 DEF FeedInOrder
  <2>2. \A p \in Posts : FeedCovered(u, v, p) => FeedCovered(u, v, p)'
    BY <1>2, <1>3, <1>5, <1>6 DEF FeedCovered
  <2> QED
    BY <2>1, <2>2 DEF PairInv, FeedsFollow
<1>10. Announced(u, v)'
  BY <1>3, <1>4, <1>6 DEF Announced
<1>11. outbox'[u] \in Seq(Message) /\ handlers'[u] \in Seq(Message)
  <2>1. outbox[u] \in Seq(Message) /\ handlers[u] \in Seq(Message)
    BY DEF TypeInv, Queues
  <2>2. /\ outbox[u] # <<>> /\ outbox'[u] = Tail(outbox[u])
        /\ handlers'[u] = Append(handlers[u], w)
    BY <1>1 DEF Committed, Lost, Gained
  <2> QED
    BY <2>1, <2>2
<1>12. \A op : Target(u, v, op)' <=> Target(u, v, op)
  BY <1>2, <1>4, <1>6 DEF Target
<1>13. ASSUME NEW s \in Screens PROVE ScreenInv(u, v, s)'
  <2>1. ScreenInv(u, v, s)
    BY DEF PairInv
  <2>2. ClosedForgotten(u, v, s)'
    BY <1>2, <1>3, <1>6, <2>1 DEF ScreenInv, ClosedForgotten
  <2>3. Busy(u, v, s)' => Busy(u, v, s)
    BY <1>2, <1>3, <1>4 DEF Busy
  <2>4. OwnLast(u, v, s) => OwnLast(u, v, s)'
    BY <1>2, <1>3, <1>4, <1>7, <2>3 DEF OwnLast
  <2>5. ASSUME OwnLast(u, v, s), ButtonInOrder(u, v, s) PROVE ButtonInOrder(u, v, s)'
    <3>1. SUFFICES ASSUME NEW op \in Ops, button[u][v][s] # "closed", ~Busy(u, v, s)',
                          Target(u, v, op)
                   PROVE  /\ LastIn(handlers'[u], Setting(v, s), OpIs(op))
                          /\ \/ Has(handlers'[u], Setting(v, s))
                             \/ <<u, v, s>> \in loading
                             \/ button[u][v][s] = "Following" <=> op = "set"
      BY <1>6, <1>12 DEF ButtonInOrder
    <3>2. CASE w.from = s
      <4>1. Busy(u, v, s)
        BY <1>2, <1>4, <3>2 DEF Busy
      <4>2. /\ ~Has(outbox'[u], OpenOf(v, s))
            /\ ~Has(outbox'[u], OpenLeg("following", v, s))
            /\ ~Has(outbox'[u], OpenLeg("follower", v, s))
            /\ ~Has(handlers'[u], OpenLeg("following", v, s))
        BY <3>1, LegParts DEF Busy
      <4>3. ~ToWrite(u, v)
        <5>1. LastIn(outbox'[u], Stage("following", v), OpenOf(v, s))
          BY <1>2, <2>5, <4>1 DEF OwnLast
        <5>2. ~Has(outbox'[u], Stage("following", v))
          BY <1>11, <4>2, <5>1, OwnLeg
        <5> QED
          BY <1>2, <1>4, <5>2 DEF ToWrite
      <4>4. ~ToHandle(u, v)
        <5>1. LastIn(handlers'[u], Stage("following", v), OpenOf(v, s))
          BY <1>3, <1>4, <2>5, <4>1, <4>3 DEF OwnLast
        <5>2. ~Has(handlers'[u], Stage("following", v))
          BY <1>11, <4>2, <5>1, OwnLeg
        <5> QED
          BY <1>3, <1>4, <4>3, <5>2 DEF ToHandle
      <4>5. ~Has(outbox'[u], Stage("follower", v))
        <5>1. LastIn(outbox'[u], Stage("follower", v), OpenOf(v, s))
          BY <1>2, <2>5, <4>1, <4>4 DEF OwnLast
        <5> QED
          BY <1>11, <4>2, <5>1, OwnLeg
      <4>6. w.op = Followed(u, v)
        BY <1>2, <1>4, <4>4, <4>5 DEF PairInv, ChainInOrder
      <4>7. op = Followed(u, v)
        BY <3>1, <4>3 DEF Target, ToWrite
      <4> QED
        BY <1>3, <1>4, <3>2, <4>6, <4>7
    <3>3. CASE w.from # s
      <4>1. ~Busy(u, v, s)
        BY <1>2, <1>3, <1>4, <3>1, <3>3 DEF Busy
      <4>2. /\ LastIn(handlers[u], Setting(v, s), OpIs(op))
            /\ \/ Has(handlers[u], Setting(v, s))
               \/ <<u, v, s>> \in loading
               \/ button[u][v][s] = "Following" <=> op = "set"
        BY <2>5, <3>1, <4>1 DEF ButtonInOrder
      <4> QED
        BY <1>3, <1>4, <3>3, <4>2
    <3> QED
      BY <3>2, <3>3
  <2> QED
    BY <1>6, <2>1, <2>2, <2>4, <2>5 DEF ScreenInv
<1> QED
  BY <1>8, <1>9, <1>10, <1>13 DEF PairInv

(* A notification or a feed document is written; nobody is told. *)
LEMMA CommitLast ==
  ASSUME TypeInv, NEW u \in Devices, NEW v \in Users, PairInv(u, v),
         NEW w \in Message, w.uid = v, w.doc \in {"notification", "feed"}, Issued(w),
         Committed(u, w)
  PROVE  PairInv(u, v)'
<1>1. w.from = "nobody"
  BY DEF Issued
<1>2. /\ handlers'[u] = handlers[u] /\ Lost(outbox[u], outbox'[u], w)
      /\ following' = following /\ follower' = follower
      /\ queries' = queries /\ button' = button /\ loading' = loading
      /\ stale' = stale /\ published' = published
  BY <1>1 DEF Committed
<1>3. /\ \A X : Has(outbox[u], X) <=> Has(outbox'[u], X) \/ w \in X
      /\ \A X, Y : LastIn(outbox[u], X, Y) => LastIn(outbox'[u], X, Y)
      /\ \A X, Y : LastIn(outbox[u], X, Y) /\ w \in X /\ ~Has(outbox'[u], X) => w \in Y
      /\ \A X, Y : w \notin X => (LastIn(outbox'[u], X, Y) <=> LastIn(outbox[u], X, Y))
      /\ \A A, B : NoneAfter(outbox[u], A, B) => NoneAfter(outbox'[u], A, B)
  <2>1. outbox[u] \in Seq(Message)
    BY DEF TypeInv, Queues
  <2> QED
    BY <1>2, <2>1, LostFacts
<1>4. /\ \A doc : doc \in {"following", "follower"} => w \notin Stage(doc, v)
      /\ w \in Stage("notification", v) => w.doc = "notification"
      /\ \A s \in Screens : w \notin OpenOf(v, s)
      /\ \A op : w \in OpIs(op) <=> w.op = op
  BY <1>1, Members, FollowAssumption
<1>5. Followed(u, v)' = Followed(u, v)
  BY <1>2 DEF Followed
<1>6. /\ ToWrite(u, v)' <=> ToWrite(u, v)
      /\ ToHandle(u, v)' <=> ToHandle(u, v)
      /\ ToMirror(u, v)' <=> ToMirror(u, v)
      /\ ToFinish(u, v)' <=> ToFinish(u, v)
      /\ ToQuery(u, v)' <=> ToQuery(u, v)
      /\ ToFeed(u, v)' <=> ToFeed(u, v)
  BY <1>2, <1>3, <1>4 DEF ToWrite, ToHandle, ToMirror, ToFinish, ToQuery, ToFeed
<1>7. ChainInOrder(u, v)'
  BY <1>2, <1>3, <1>5, <1>6 DEF PairInv, ChainInOrder
<1>8. FeedsFollow(u, v)'
  <2>1. SUFFICES ASSUME NEW p \in Posts, Owner[p] = v
                 PROVE  FeedInOrder(u, v, p)' /\ FeedCovered(u, v, p)'
    BY DEF FeedsFollow
  <2>2. FeedInOrder(u, v, p) /\ FeedCovered(u, v, p)
    BY <2>1 DEF PairInv, FeedsFollow
  <2>3. w \in FeedOf(v, p) => /\ w.op = "set" => <<u, p>> \in feeds'
                              /\ w.op = "delete" => <<u, p>> \notin feeds'
    <3>1. w \in FeedOf(v, p) => w.doc = "feed" /\ w.posts = {p}
      BY PostMembers
    <3> QED
      BY <3>1 DEF Committed
  <2>4. w \notin FeedOf(v, p) => (<<u, p>> \in feeds' <=> <<u, p>> \in feeds)
    <3>1. ASSUME w \notin FeedOf(v, p), w.doc = "feed" PROVE p \notin w.posts
      <4>1. PICK q \in Posts : w.posts = {q}
        BY <3>1 DEF Issued
      <4>2. w.posts # {p}
        BY <3>1, PostMembers
      <4> QED
        BY <4>1, <4>2
    <3> QED
      BY <3>1 DEF Committed
  <2>5. FeedCovered(u, v, p)'
    BY <1>2, <1>3, <2>2, <2>4 DEF FeedCovered
  <2>6. FeedInOrder(u, v, p)'
    <3>1. SUFFICES ASSUME ~ToFeed(u, v)
                   PROVE  /\ LastIn(outbox'[u], FeedOf(v, p), OpIs(Followed(u, v)))
                          /\ \/ Has(outbox'[u], FeedOf(v, p))
                             \/ /\ Followed(u, v) = "set" /\ p \in OldPosts => <<u, p>> \in feeds'
                                /\ Followed(u, v) = "delete" => <<u, p>> \notin feeds'
      BY <1>5, <1>6 DEF FeedInOrder
    <3>2. LastIn(outbox[u], FeedOf(v, p), OpIs(Followed(u, v)))
      BY <2>2, <3>1 DEF FeedInOrder
    <3>3. CASE w \in FeedOf(v, p)
      BY <1>3, <1>4, <2>3, <3>2, <3>3
    <3>4. CASE w \notin FeedOf(v, p)
      BY <1>3, <2>2, <2>4, <3>1, <3>2, <3>4 DEF FeedInOrder
    <3> QED
      BY <3>3, <3>4
  <2> QED
    BY <2>5, <2>6
<1>9. Announced(u, v)'
  <2>1. notified \subseteq notified' /\ (w.doc = "notification" => <<u, v>> \in notified')
    BY DEF Committed
  <2> QED
    BY <1>2, <1>3, <1>4, <2>1 DEF PairInv, Announced
<1>10. \A op : Target(u, v, op)' <=> Target(u, v, op)
  BY <1>3, <1>4, <1>5 DEF Target
<1>11. ASSUME NEW s \in Screens PROVE ScreenInv(u, v, s)'
  <2>1. ScreenInv(u, v, s)
    BY DEF PairInv
  <2>2. Busy(u, v, s)' <=> Busy(u, v, s)
    BY <1>2, <1>3, <1>4 DEF Busy
  <2>3. OwnLast(u, v, s) => OwnLast(u, v, s)'
    BY <1>2, <1>3, <1>6, <2>2 DEF OwnLast
  <2> QED
    BY <1>2, <1>3, <1>4, <1>10, <2>1, <2>3, ScreenKept
<1> QED
  BY <1>7, <1>8, <1>9, <1>11 DEF PairInv

(* Whatever the backend acknowledges, it keeps what the pairs need. *)
LEMMA CommitStep ==
  ASSUME TypeInv, FaultFree, NEW u \in Devices, Commit(u)
  PROVE  FaultFree'
<1>1. PICK w : w = Head(outbox[u])
  OBVIOUS
<1>2. PICK v : v = w.uid
  OBVIOUS
<1>3. /\ w \in Message /\ Issued(w) /\ v \in Users
      /\ Committed(u, w)
      /\ Confined(u, v)
      /\ WellFormed'
  BY <1>1, <1>2, CommitFacts
<1>4. PairInv(u, v) /\ published \subseteq published'
  BY <1>3 DEF FaultFree, Committed
<1>5. w.doc \in {"following", "follower", "notification", "feed"}
  BY <1>3 DEF Issued
<1>6. PairInv(u, v)'
  BY <1>2, <1>3, <1>4, <1>5, CommitFirst, CommitSecond, CommitLast
<1> QED
  BY <1>3, <1>4, <1>6, ConfinedStep

----------------------------------------------------------------------------
(* The messages of a device when the screen c of v is closed. *)
LEMMA ForgottenIs ==
  ASSUME NEW s \in Seq(Message), NEW v, NEW c \in Screens, NEW t,
         t = [i \in DOMAIN s |-> Gone(v, c, s[i])]
  PROVE  /\ \A doc, op : /\ Has(t, Stage(doc, v)) <=> Has(s, Stage(doc, v))
                         /\ LastIn(t, Stage(doc, v), OpIs(op)) <=> LastIn(s, Stage(doc, v), OpIs(op))
         /\ Has(t, SetFollower(v)) <=> Has(s, SetFollower(v))
         /\ \A p, op : /\ Has(t, FeedOf(v, p)) <=> Has(s, FeedOf(v, p))
                       /\ LastIn(t, FeedOf(v, p), OpIs(op)) <=> LastIn(s, FeedOf(v, p), OpIs(op))
         /\ \A p : Has(t, AnsweredWithout(v, p)) <=> Has(s, AnsweredWithout(v, p))
         /\ \A p : NoneAfter(s, AnsweredWith(v, p), AnsweredWithout(v, p)) =>
                     NoneAfter(t, AnsweredWith(v, p), AnsweredWithout(v, p))
         /\ ~Has(t, OpenOf(v, c))
         /\ \A r \in Screens : r # c =>
              /\ Has(t, OpenOf(v, r)) <=> Has(s, OpenOf(v, r))
              /\ Has(t, OpenLeg("following", v, r)) <=> Has(s, OpenLeg("following", v, r))
              /\ Has(t, Setting(v, r)) <=> Has(s, Setting(v, r))
              /\ \A op : LastIn(t, Setting(v, r), OpIs(op)) <=> LastIn(s, Setting(v, r), OpIs(op))
              /\ \A doc : LastIn(t, Stage(doc, v), OpenOf(v, r)) <=>
                            LastIn(s, Stage(doc, v), OpenOf(v, r))
         /\ OnlyAbout(s, t, v)
<1>1. DOMAIN t = DOMAIN s
  OBVIOUS
<1>2. ASSUME NEW i \in DOMAIN s
      PROVE  /\ s[i] \in Message /\ t[i] \in Message
             /\ t[i].doc = s[i].doc /\ t[i].op = s[i].op /\ t[i].uid = s[i].uid
             /\ t[i].posts = s[i].posts
             /\ t[i].uid = v => t[i].from # c
             /\ \A r \in Screens : r # c => (t[i].from = r <=> s[i].from = r)
             /\ s[i].uid # v => t[i] = s[i]
  <2>1. s[i] \in Message /\ t[i] = Gone(v, c, s[i])
    OBVIOUS
  <2> QED
    BY <2>1, GoneIs
<1>3. ASSUME NEW i \in DOMAIN s
      PROVE  /\ \A doc : t[i] \in Stage(doc, v) <=> s[i] \in Stage(doc, v)
             /\ \A op : t[i] \in OpIs(op) <=> s[i] \in OpIs(op)
             /\ t[i] \in SetFollower(v) <=> s[i] \in SetFollower(v)
             /\ \A p : /\ t[i] \in FeedOf(v, p) <=> s[i] \in FeedOf(v, p)
                       /\ t[i] \in AnsweredWith(v, p) <=> s[i] \in AnsweredWith(v, p)
                       /\ t[i] \in AnsweredWithout(v, p) <=> s[i] \in AnsweredWithout(v, p)
             /\ t[i] \notin OpenOf(v, c)
             /\ \A r \in Screens : r # c =>
                  /\ t[i] \in OpenOf(v, r) <=> s[i] \in OpenOf(v, r)
                  /\ t[i] \in OpenLeg("following", v, r) <=> s[i] \in OpenLeg("following", v, r)
                  /\ t[i] \in Setting(v, r) <=> s[i] \in Setting(v, r)
             /\ \A other : other # v /\ s[i] \in Concerning(other) => t[i] = s[i]
             /\ \A other : t[i] \in Concerning(other) <=> s[i] \in Concerning(other)
  BY <1>2 DEF Stage, OpIs, SetFollower, FeedOf, AnsweredWith, AnsweredWithout, OpenOf, OpenLeg,
              Setting, Concerning
<1>4. ASSUME NEW doc, NEW op
      PROVE  /\ Has(t, Stage(doc, v)) <=> Has(s, Stage(doc, v))
             /\ LastIn(t, Stage(doc, v), OpIs(op)) <=> LastIn(s, Stage(doc, v), OpIs(op))
  BY <1>1, <1>3, SameKinds
<1>5. Has(t, SetFollower(v)) <=> Has(s, SetFollower(v))
  BY <1>1, <1>3, SameKinds
<1>6. ASSUME NEW p, NEW op
      PROVE  /\ Has(t, FeedOf(v, p)) <=> Has(s, FeedOf(v, p))
             /\ LastIn(t, FeedOf(v, p), OpIs(op)) <=> LastIn(s, FeedOf(v, p), OpIs(op))
  BY <1>1, <1>3, SameKinds
<1>7. ASSUME NEW p
      PROVE  /\ Has(t, AnsweredWithout(v, p)) <=> Has(s, AnsweredWithout(v, p))
             /\ NoneAfter(s, AnsweredWith(v, p), AnsweredWithout(v, p)) =>
                  NoneAfter(t, AnsweredWith(v, p), AnsweredWithout(v, p))
  BY <1>1, <1>3, SameKinds
<1>8. ~Has(t, OpenOf(v, c))
  BY <1>1, <1>3 DEF Has
<1>9. ASSUME NEW r \in Screens, r # c, NEW doc, NEW op
       PROVE  /\ Has(t, OpenOf(v, r)) <=> Has(s, OpenOf(v, r))
              /\ Has(t, OpenLeg("following", v, r)) <=> Has(s, OpenLeg("following", v, r))
              /\ Has(t, Setting(v, r)) <=> Has(s, Setting(v, r))
              /\ LastIn(t, Setting(v, r), OpIs(op)) <=> LastIn(s, Setting(v, r), OpIs(op))
              /\ LastIn(t, Stage(doc, v), OpenOf(v, r)) <=> LastIn(s, Stage(doc, v), OpenOf(v, r))
  <2>1. /\ Has(t, OpenOf(v, r)) <=> Has(s, OpenOf(v, r))
        /\ Has(t, OpenLeg("following", v, r)) <=> Has(s, OpenLeg("following", v, r))
    BY <1>1, <1>3, <1>9, SameKinds
  <2>2. /\ Has(t, Setting(v, r)) <=> Has(s, Setting(v, r))
        /\ LastIn(t, Setting(v, r), OpIs(op)) <=> LastIn(s, Setting(v, r), OpIs(op))
    BY <1>1, <1>3, <1>9, SameKinds
  <2>3. LastIn(t, Stage(doc, v), OpenOf(v, r)) <=> LastIn(s, Stage(doc, v), OpenOf(v, r))
    BY <1>1, <1>3, <1>9, SameKinds
  <2> QED
    BY <2>1, <2>2, <2>3
<1>10. ASSUME NEW other \in Users, other # v PROVE Alike(s, t, Concerning(other))
  <2>1. \A i \in DOMAIN s : t[i] = s[i] \/ (s[i] \notin Concerning(other) /\ t[i] \notin Concerning(other))
    BY <1>3, <1>10
  <2> QED
    BY <1>1, <2>1, AlikeReplaced
<1> QED
  BY <1>4, <1>5, <1>6, <1>7, <1>8, <1>9, <1>10 DEF OnlyAbout

(* A screen that is closed is forgotten by everything on its way. *)
LEMMA CloseStep ==
  ASSUME TypeInv, FaultFree, NEW u \in Devices, NEW v \in Users, NEW s \in Screens,
         Close(u, v, s)
  PROVE  FaultFree'
<1>1. /\ button' = [button EXCEPT ![u][v][s] = "closed"]
      /\ loading' = loading \ {<<u, v, s>>} /\ stale' = stale \ {<<u, v, s>>}
      /\ queries' = queries
      /\ following' = following /\ follower' = follower /\ notified' = notified
      /\ feeds' = feeds /\ published' = published
  BY DEF Close, server
<1>2. /\ button'[u][v][s] = "closed"
      /\ \A r \in Screens : r # s => button'[u][v][r] = button[u][v][r]
      /\ \A d \in Devices, other \in Users :
           d # u \/ other # v => button'[d][other] = button[d][other]
  BY <1>1 DEF TypeInv
<1>3. /\ outbox[u] \in Seq(Message) /\ handlers[u] \in Seq(Message)
      /\ outbox'[u] = [i \in DOMAIN outbox[u] |-> Gone(v, s, outbox[u][i])]
      /\ handlers'[u] = [i \in DOMAIN handlers[u] |-> Gone(v, s, handlers[u][i])]
      /\ \A d \in Devices : d # u => outbox'[d] = outbox[d] /\ handlers'[d] = handlers[d]
  BY DEF Close, TypeInv, Queues
<1> DEFINE O == outbox[u]  P == outbox'[u]  H == handlers[u]  I == handlers'[u]
<1>4. /\ \A doc, op : /\ Has(P, Stage(doc, v)) <=> Has(O, Stage(doc, v))
                      /\ LastIn(P, Stage(doc, v), OpIs(op)) <=> LastIn(O, Stage(doc, v), OpIs(op))
      /\ \A p, op : /\ Has(P, FeedOf(v, p)) <=> Has(O, FeedOf(v, p))
                    /\ LastIn(P, FeedOf(v, p), OpIs(op)) <=> LastIn(O, FeedOf(v, p), OpIs(op))
      /\ ~Has(P, OpenOf(v, s))
      /\ \A r \in Screens : r # s =>
           /\ Has(P, OpenOf(v, r)) <=> Has(O, OpenOf(v, r))
           /\ Has(P, OpenLeg("following", v, r)) <=> Has(O, OpenLeg("following", v, r))
           /\ Has(P, Setting(v, r)) <=> Has(O, Setting(v, r))
           /\ \A op : LastIn(P, Setting(v, r), OpIs(op)) <=> LastIn(O, Setting(v, r), OpIs(op))
           /\ \A doc : LastIn(P, Stage(doc, v), OpenOf(v, r)) <=>
                         LastIn(O, Stage(doc, v), OpenOf(v, r))
      /\ OnlyAbout(O, P, v)
  BY <1>3, ForgottenIs
<1>5. /\ \A doc, op : /\ Has(I, Stage(doc, v)) <=> Has(H, Stage(doc, v))
                      /\ LastIn(I, Stage(doc, v), OpIs(op)) <=> LastIn(H, Stage(doc, v), OpIs(op))
      /\ Has(I, SetFollower(v)) <=> Has(H, SetFollower(v))
      /\ \A p : Has(I, AnsweredWithout(v, p)) <=> Has(H, AnsweredWithout(v, p))
      /\ \A p : NoneAfter(H, AnsweredWith(v, p), AnsweredWithout(v, p)) =>
                  NoneAfter(I, AnsweredWith(v, p), AnsweredWithout(v, p))
      /\ ~Has(I, OpenOf(v, s))
      /\ \A r \in Screens : r # s =>
           /\ Has(I, OpenOf(v, r)) <=> Has(H, OpenOf(v, r))
           /\ Has(I, OpenLeg("following", v, r)) <=> Has(H, OpenLeg("following", v, r))
           /\ Has(I, Setting(v, r)) <=> Has(H, Setting(v, r))
           /\ \A op : LastIn(I, Setting(v, r), OpIs(op)) <=> LastIn(H, Setting(v, r), OpIs(op))
           /\ \A doc : LastIn(I, Stage(doc, v), OpenOf(v, r)) <=>
                         LastIn(H, Stage(doc, v), OpenOf(v, r))
      /\ OnlyAbout(H, I, v)
  BY <1>3, ForgottenIs
<1>6. Confined(u, v)
  <2>1. \A d \in Devices, other \in Users : d # u \/ other # v => Untouched(d, other)
    BY <1>1, <1>2 DEF Untouched, Followed
  <2> QED
    BY <1>3, <1>4, <1>5, <2>1 DEF Confined
<1>7. WellFormed'
  <2>1. ASSUME NEW i \in DOMAIN outbox[u] PROVE Issued(outbox'[u][i])
    <3>1. PICK w : w = outbox[u][i]
      OBVIOUS
    <3>2. w \in Message /\ w \in ToSet(outbox[u])
      BY <1>3, <3>1, ToSetType
    <3>3. Issued(w)
      BY <3>2 DEF FaultFree, WellFormed
    <3>4. outbox'[u][i] = Gone(v, s, w)
      BY <1>3, <3>1
    <3>5. Issued(Gone(v, s, w))
      <4>1. /\ Gone(v, s, w).doc = w.doc /\ Gone(v, s, w).uid = w.uid /\ Gone(v, s, w).posts = w.posts
            /\ Gone(v, s, w).from = "nobody" <=> w.from = "nobody"
        BY <3>2, GoneIs
      <4> HIDE DEF Gone
      <4> QED
        BY <3>3, <4>1 DEF Issued
    <3> QED
      BY <3>4, <3>5
  <2>2. ASSUME NEW i \in DOMAIN handlers[u] PROVE Completed(handlers'[u][i], published')
    <3>1. PICK h : h = handlers[u][i]
      OBVIOUS
    <3>2. h \in Message /\ h \in ToSet(handlers[u])
      BY <1>3, <3>1, ToSetType
    <3>3. Completed(h, published')
      BY <1>1, <3>2 DEF FaultFree, WellFormed
    <3>4. handlers'[u][i] = Gone(v, s, h)
      BY <1>3, <3>1
    <3>5. Completed(Gone(v, s, h), published')
      <4>1. /\ Gone(v, s, h).doc = h.doc /\ Gone(v, s, h).uid = h.uid /\ Gone(v, s, h).posts = h.posts
            /\ Gone(v, s, h).from = "nobody" <=> h.from = "nobody"
            /\ h.from = "gone" => Gone(v, s, h).from = "gone"
        BY <3>2, GoneIs
      <4> HIDE DEF Gone
      <4> QED
        BY <3>3, <4>1 DEF Completed
    <3> QED
      BY <3>4, <3>5
  <2>3. \A w \in ToSet(outbox'[u]) : Issued(w)
    BY <1>3, <2>1 DEF ToSet
  <2>4. \A h \in ToSet(handlers'[u]) : Completed(h, published')
    BY <1>3, <2>2 DEF ToSet
  <2> QED
    BY <1>1, <1>6, <2>3, <2>4, FormsKept DEF FaultFree
<1>8. PairInv(u, v)
  BY DEF FaultFree
<1>9. Followed(u, v)' = Followed(u, v)
  BY <1>1 DEF Followed
<1>10. /\ ToWrite(u, v)' <=> ToWrite(u, v)
       /\ ToHandle(u, v)' <=> ToHandle(u, v)
       /\ ToMirror(u, v)' <=> ToMirror(u, v)
       /\ ToFinish(u, v)' <=> ToFinish(u, v)
       /\ ToQuery(u, v)' <=> ToQuery(u, v)
       /\ ToFeed(u, v)' <=> ToFeed(u, v)
  BY <1>1, <1>4, <1>5 DEF ToWrite, ToHandle, ToMirror, ToFinish, ToQuery, ToFeed
<1>11. ChainInOrder(u, v)'
  BY <1>1, <1>4, <1>5, <1>8, <1>9, <1>10 DEF PairInv, ChainInOrder
<1>12. FeedsFollow(u, v)'
  <2>1. \A p \in Posts : FeedInOrder(u, v, p) => FeedInOrder(u, v, p)'
    BY <1>1, <1>4, <1>9, <1>10 DEF FeedInOrder
  <2>2. \A p \in Posts : FeedCovered(u, v, p) => FeedCovered(u, v, p)'
    BY <1>1, <1>4, <1>5 DEF FeedCovered
  <2> QED
    BY <1>8, <2>1, <2>2 DEF PairInv, FeedsFollow
<1>13. Announced(u, v)'
  BY <1>1, <1>4, <1>5, <1>8 DEF PairInv, Announced
<1>14. \A op : Target(u, v, op)' <=> Target(u, v, op)
  BY <1>4, <1>9 DEF Target
<1>15. ScreenInv(u, v, s)'
  <2>1. ~Busy(u, v, s)'
    BY <1>4, <1>5, LegParts DEF Busy
  <2> QED
    BY <1>1, <1>2, <1>4, <1>5, <2>1 DEF ScreenInv, ClosedForgotten, OwnLast, ButtonInOrder
<1>16. ASSUME NEW r \in Screens, r # s PROVE ScreenInv(u, v, r)'
  <2>1. ScreenInv(u, v, r)
    BY <1>8 DEF PairInv
  <2>2. OwnLast(u, v, r) => OwnLast(u, v, r)'
    BY <1>4, <1>5, <1>10, <1>16 DEF OwnLast, Busy
  <2> QED
    BY <1>1, <1>2, <1>4, <1>5, <1>14, <1>16, <2>1, <2>2, ScreenKept
<1>17. PairInv(u, v)'
  BY <1>11, <1>12, <1>13, <1>15, <1>16 DEF PairInv
<1> QED
  BY <1>1, <1>6, <1>7, <1>17, ConfinedStep

----------------------------------------------------------------------------
(* Nothing is on its way at the start. *)
LEMMA FollowInit == ASSUME Init PROVE FollowInv
<1>1. TypeInv
  BY TypeInit
<1>2. ASSUME NEW u \in Devices
      PROVE  /\ outbox[u] = <<>> /\ handlers[u] = <<>>
             /\ \A v \in Users : /\ queries[u][v] = <<>>
                                /\ \A s \in Screens : button[u][v][s] = "closed"
  BY <1>2 DEF Init
<1>3. following = {} /\ follower = {} /\ feeds = {} /\ loading = {}
  BY DEF Init
<1>4. \A X : ~Has(<<>>, X)
  BY DEF Has
<1>5. \A X, Y : LastIn(<<>>, X, Y) /\ NoneAfter(<<>>, X, Y)
  BY <1>4, HasNone
<1>6. WellFormed
  BY <1>2, ToSetEmpty DEF WellFormed
<1>7. ASSUME NEW u \in Devices, NEW v \in Users PROVE PairInv(u, v)
  <2>1. Followed(u, v) = "delete"
    BY <1>3 DEF Followed
  <2>2. ChainInOrder(u, v)
    BY <1>2, <1>5 DEF ChainInOrder
  <2>3. FeedsFollow(u, v)
    BY <1>2, <1>3, <1>4, <1>5, <2>1 DEF FeedsFollow, FeedInOrder, FeedCovered
  <2>4. Announced(u, v)
    BY <1>3 DEF Announced
  <2>5. ASSUME NEW s \in Screens PROVE ScreenInv(u, v, s)
    BY <1>2, <1>3, <1>4 DEF ScreenInv, ClosedForgotten, Busy, OwnLast, ButtonInOrder
  <2> QED
    BY <2>2, <2>3, <2>4, <2>5 DEF PairInv
<1> QED
  BY <1>1, <1>6, <1>7 DEF FollowInv, FaultFree

(* After a fault nothing more is claimed. *)
LEMMA FaultCounted ==
  ASSUME TypeInv, Fault
  PROVE  faults' # 0
BY DEF Fault, TypeInv

(* The inductive step. *)
LEMMA FollowStep ==
  ASSUME FollowInv, [Next]_vars
  PROVE  FollowInv'
<1>1. TypeInv /\ TypeInv'
  BY TypeStep DEF FollowInv
<1>2. SUFFICES ASSUME faults' = 0 PROVE FaultFree'
  BY <1>1 DEF FollowInv
<1>3. ~Fault
  BY <1>1, <1>2, FaultCounted
<1>4. faults = 0
  <2>1. UNCHANGED vars => faults' = faults
    BY Zenon DEF vars
  <2>2. ASSUME NEW u \in Devices PROVE Commit(u) \/ Handle(u) => faults' = faults
    BY Zenon DEF Commit, Handle, HandleFirst, HandleSecond, HandleLoad, HandleQuery
  <2>3. ASSUME NEW u \in Devices PROVE Refuse(u) \/ Die(u) => Fault
    BY DEF Refuse, Die
  <2>4. ASSUME NEW u \in Devices, NEW v \in Users
        PROVE  /\ QueryAnswer(u, v) => faults' = faults
               /\ UpdateError(u, v) \/ RemoveError(u, v) => Fault
    BY <2>3 DEF QueryAnswer, UpdateError, RemoveError
  <2>5. ASSUME NEW u \in Devices, NEW v \in Users, NEW s \in Screens
        PROVE  /\ Open(u, v, s) \/ Close(u, v, s) \/ Tap(u, v, s) => faults' = faults
               /\ LoadAnswer(u, v, s) => faults' = faults
               /\ LoadError(u, v, s) => Fault
    BY DEF Open, Close, Tap, LoadAnswer, LoadError
  <2>6. ASSUME NEW p \in Posts PROVE Publish(p) => faults' = faults
    BY DEF Publish
  <2> QED
    BY <1>2, <1>3, <2>1, <2>2, <2>3, <2>4, <2>5, <2>6 DEF Next
<1>5. FaultFree
  BY <1>4 DEF FollowInv
<1>6. CASE UNCHANGED vars
  <2>1. \A u \in Devices, v \in Users : Untouched(u, v)
    BY <1>6 DEF vars, server, screen, Untouched, Followed
  <2>2. outbox' = outbox /\ handlers' = handlers /\ published' = published
    BY <1>6 DEF vars, server
  <2>3. ASSUME NEW u \in Devices, NEW v \in Users PROVE PairInv(u, v)'
    <3>1. PairInv(u, v)
      BY <1>5 DEF FaultFree
    <3> QED
      BY <2>1, <2>2, <3>1, AlikeSame, PairElsewhere
  <2>4. WellFormed'
    BY <1>5, <2>2 DEF FaultFree, WellFormed
  <2> QED
    BY <2>3, <2>4 DEF FaultFree
<1>7. ASSUME NEW u \in Devices, Commit(u) PROVE FaultFree'
  BY <1>1, <1>5, <1>7, CommitStep
<1>8. ASSUME NEW u \in Devices, Handle(u) PROVE FaultFree'
  BY <1>1, <1>5, <1>8, HandleFirstStep, HandleSecondStep, HandleLoadStep, HandleQueryStep
     DEF Handle
<1>9. ASSUME NEW u \in Devices, Refuse(u) \/ Die(u) PROVE FaultFree'
  BY <1>3, <1>9 DEF Refuse, Die
<1>10. ASSUME NEW u \in Devices, NEW v \in Users, UpdateError(u, v) \/ RemoveError(u, v)
       PROVE  FaultFree'
  BY <1>3, <1>10 DEF UpdateError, RemoveError, Die
<1>11. ASSUME NEW u \in Devices, NEW v \in Users, QueryAnswer(u, v) PROVE FaultFree'
  BY <1>1, <1>5, <1>11, QueryAnswerStep
<1>12. ASSUME NEW u \in Devices, NEW v \in Users, NEW s \in Screens,
              Open(u, v, s) \/ Close(u, v, s) \/ Tap(u, v, s) \/ LoadAnswer(u, v, s)
       PROVE  FaultFree'
  BY <1>1, <1>5, <1>12, OpenStep, CloseStep, TapStep, LoadAnswerStep
<1>13. ASSUME NEW u \in Devices, NEW v \in Users, NEW s \in Screens, LoadError(u, v, s)
       PROVE  FaultFree'
  BY <1>3, <1>13 DEF LoadError
<1>14. ASSUME NEW p \in Posts, Publish(p) PROVE FaultFree'
  BY <1>1, <1>5, <1>14, PublishStep
<1> QED
  BY <1>6, <1>7, <1>8, <1>9, <1>10, <1>11, <1>12, <1>13, <1>14 DEF Next

(* The invariant holds in every reachable state. *)
LEMMA FollowInvAlways == Spec => []FollowInv
<1>1. Init => FollowInv
  BY FollowInit
<1>2. FollowInv /\ [Next]_vars => FollowInv'
  BY FollowStep
<1> QED
  BY <1>1, <1>2, PTL DEF Spec

(* At rest nothing about v is in the pipeline, the handlers or the queries. *)
LEMMA AtRest ==
  ASSUME TypeInv, NEW u \in Devices, NEW v \in Users, Quiet(u, v)
  PROVE  /\ \A X \in SUBSET Concerning(v) : ~Has(outbox[u], X) /\ ~Has(handlers[u], X)
         /\ ~ToFeed(u, v)
         /\ \A s \in Screens : <<u, v, s>> \notin loading
<1>1. \A X \in SUBSET Concerning(v) : ~Has(outbox[u], X) /\ ~Has(handlers[u], X)
  BY DEF Quiet, Has, Concerning
<1>2. queries[u][v] = <<>> /\ \A s \in Screens : <<u, v, s>> \notin loading
  BY DEF Quiet
<1>3. ~Has(queries[u][v], Ops)
  BY <1>2 DEF Has
<1>4. ~ToFeed(u, v)
  BY <1>1, <1>3, AboutOne DEF ToFeed, ToQuery, ToFinish, ToMirror, ToHandle, ToWrite
<1> QED
  BY <1>1, <1>2, <1>4

(* Without faults a profile screen at rest offers "Follow" exactly for the  *)
(* users who are not followed, unless another screen of the user has been   *)
(* tapped since: the chain of its own last tap is the last to set the       *)
(* button, and isUserFollowed answers what the pipeline will make true.     *)
THEOREM ButtonCorrect == Spec => []ButtonTruthful
<1>1. FollowInv => ButtonTruthful
  <2>1. SUFFICES ASSUME FollowInv, NEW u \in Devices, NEW v \in Users, NEW s \in Screens,
                        Quiet(u, v), Current(u, v, s), faults = 0
                 PROVE  button[u][v][s] = "Following" <=> <<u, v>> \in following
    BY DEF ButtonTruthful
  <2>2. TypeInv /\ PairInv(u, v)
    BY <2>1 DEF FollowInv, FaultFree
  <2>3. /\ \A X \in SUBSET Concerning(v) : ~Has(outbox[u], X) /\ ~Has(handlers[u], X)
        /\ <<u, v, s>> \notin loading
    BY <2>1, <2>2, AtRest
  <2>4. /\ ~Has(outbox[u], Stage("following", v)) /\ ~Busy(u, v, s)
        /\ ~Has(handlers[u], Setting(v, s))
    BY <2>3, AboutOne DEF Busy
  <2>5. Target(u, v, Followed(u, v)) /\ Followed(u, v) \in Ops
    BY <2>4 DEF Target, Followed, Ops
  <2>6. button[u][v][s] = "Following" <=> Followed(u, v) = "set"
    BY <2>1, <2>2, <2>3, <2>4, <2>5 DEF PairInv, ScreenInv, ButtonInOrder, Current
  <2> QED
    BY <2>6 DEF Followed
<1> QED
  BY <1>1, FollowInvAlways, PTL

(* Without faults the feed at rest holds the posts a followed user always   *)
(* had and none of a user who is not followed: the last chain's query knows *)
(* every post that an earlier chain wrote to the feed.                      *)
THEOREM FeedCorrect == Spec => []FeedMatchesFollow
<1>1. FollowInv => FeedMatchesFollow
  <2>1. SUFFICES ASSUME FollowInv, NEW u \in Devices, NEW v \in Users, Quiet(u, v), faults = 0
                 PROVE  IF <<u, v>> \in following
                          THEN \A p \in OldPosts : Owner[p] = v => <<u, p>> \in feeds
                          ELSE \A p \in Posts : Owner[p] = v => <<u, p>> \notin feeds
    BY DEF FeedMatchesFollow
  <2>2. TypeInv /\ PairInv(u, v)
    BY <2>1 DEF FollowInv, FaultFree
  <2>3. /\ \A X \in SUBSET Concerning(v) : ~Has(outbox[u], X)
        /\ ~ToFeed(u, v)
    BY <2>1, <2>2, AtRest
  <2>4. ASSUME NEW p \in Posts, Owner[p] = v
        PROVE  /\ Followed(u, v) = "set" /\ p \in OldPosts => <<u, p>> \in feeds
               /\ Followed(u, v) = "delete" => <<u, p>> \notin feeds
    <3>1. FeedInOrder(u, v, p)
      BY <2>2, <2>4 DEF PairInv, FeedsFollow
    <3>2. ~Has(outbox[u], FeedOf(v, p))
      BY <2>3, AboutOne
    <3> QED
      BY <2>3, <3>1, <3>2 DEF FeedInOrder
  <2> QED
    BY <2>4, FollowAssumption DEF Followed
<1> QED
  BY <1>1, FollowInvAlways, PTL

(* Without faults every follower at rest has been announced: the completion *)
(* of the Follower write sends the notification before anything else can    *)
(* bring the chain to an end.                                               *)
THEOREM AnnouncedCorrect == Spec => []FollowersAnnounced
<1>1. FollowInv => FollowersAnnounced
  <2>1. SUFFICES ASSUME FollowInv, NEW u \in Devices, NEW v \in Users,
                        Quiet(u, v), <<u, v>> \in follower, faults = 0
                 PROVE  <<u, v>> \in notified
    BY DEF FollowersAnnounced
  <2>2. TypeInv /\ PairInv(u, v)
    BY <2>1 DEF FollowInv, FaultFree
  <2>3. ~Has(outbox[u], Stage("notification", v)) /\ ~Has(handlers[u], SetFollower(v))
    BY <2>1, <2>2, AtRest, AboutOne
  <2> QED
    BY <2>1, <2>2, <2>3 DEF PairInv, Announced
<1> QED
  BY <1>1, FollowInvAlways, PTL

----------------------------------------------------------------------------
(***************************************************************************)
(* Following implements the two-leg write. What TwoLegWrite sees of the    *)
(* pipeline are its legs, and of the completions those of the first legs.  *)
(***************************************************************************)
LegMap == [w \in {w \in Write : IsLeg(w)} |-> LegOf(w)]
CallMap == [h \in {h \in Write : IsFirst(h)} |-> CallOf(h)]
LegQueues == [u \in Devices |-> Legs(outbox[u])]
CallQueues == [u \in Devices |-> Calls(handlers[u])]

(* Every unfinished two-leg write was started by a tap of its own. *)
StartedByTaps ==
  /\ taps \in Nat
  /\ \A u \in Devices : Len(LegQueues[u]) + Len(CallQueues[u]) <= taps

(* A step of the two-leg write, or none. *)
TwoLegStep == TwoLeg!Next \/ UNCHANGED TwoLeg!vars

(* A leg is a write of TwoLegWrite, a first completion one of its handlers. *)
LEMMA LegMaps ==
  /\ Maps(LegMap, Message, TwoLeg!Write)
  /\ Maps(CallMap, Message, TwoLeg!Handler)
  /\ \A w \in Message : w \in DOMAIN LegMap <=> IsLeg(w)
  /\ \A w \in Message : IsLeg(w) => LegMap[w] = LegOf(w)
  /\ \A w \in Message : w \in DOMAIN CallMap <=> IsFirst(w)
  /\ \A w \in Message : IsFirst(w) => CallMap[w] = CallOf(w)
<1>1. \A w \in Message : LegOf(w) \in TwoLeg!Write
  BY DEF Message, Write, LegOf, TwoLeg!Write, Ops, TwoLeg!Ops
<1>2. \A w \in Message : CallOf(w) \in TwoLeg!Handler
  BY DEF Message, Write, CallOf, TwoLeg!Handler, Ops, TwoLeg!Ops
<1>3. \A w \in Message : w \in Write
  BY DEF Message
<1> QED
  BY <1>1, <1>2, <1>3, Zenon DEF Maps, LegMap, CallMap

(* The legs of all the pipelines, and the first completions. *)
LEMMA LegQueuesAre ==
  ASSUME NEW f \in Queues(Devices, Message)
  PROVE  /\ [u \in Devices |-> Legs(f[u])] = MapQueues(f, LegMap)
         /\ [u \in Devices |-> Calls(f[u])] = MapQueues(f, CallMap)
<1>1. DOMAIN f = Devices
  BY DEF Queues
<1> QED
  BY <1>1, Zenon DEF MapQueues, Legs, Calls, LegMap, CallMap

(* Now and after a step that keeps the types. *)
LEMMA QueuesMapped ==
  ASSUME TypeInv, TypeInv'
  PROVE  /\ LegQueues = MapQueues(outbox, LegMap)
         /\ LegQueues' = MapQueues(outbox', LegMap)
         /\ CallQueues = MapQueues(handlers, CallMap)
         /\ CallQueues' = MapQueues(handlers', CallMap)
         /\ LegQueues \in Queues(Devices, TwoLeg!Write)
         /\ CallQueues \in Queues(Devices, TwoLeg!Handler)
<1>1. /\ outbox \in Queues(Devices, Message) /\ outbox' \in Queues(Devices, Message)
      /\ handlers \in Queues(Devices, Message) /\ handlers' \in Queues(Devices, Message)
  BY DEF TypeInv
<1>2. /\ LegQueues = MapQueues(outbox, LegMap)
      /\ LegQueues' = MapQueues(outbox', LegMap)
  BY <1>1, LegQueuesAre DEF LegQueues
<1>3. /\ CallQueues = MapQueues(handlers, CallMap)
      /\ CallQueues' = MapQueues(handlers', CallMap)
  BY <1>1, LegQueuesAre DEF CallQueues
<1>4. /\ MapQueues(outbox, LegMap) \in Queues(Devices, TwoLeg!Write)
      /\ MapQueues(handlers, CallMap) \in Queues(Devices, TwoLeg!Handler)
  BY <1>1, LegMaps, MappedType
<1> QED
  BY <1>2, <1>3, <1>4

(* A write joins a pipeline: a leg, or something the two legs do not see. *)
LEMMA LegPushed ==
  ASSUME TypeInv, TypeInv', NEW u \in Devices, NEW w \in Message,
         Pushed(outbox, outbox', u, w)
  PROVE  /\ IsLeg(w) => Pushed(LegQueues, LegQueues', u, LegOf(w))
         /\ ~IsLeg(w) => LegQueues' = LegQueues
<1>1. outbox \in Queues(Devices, Message)
  BY DEF TypeInv
<1>2. Maps(LegMap, Message, TwoLeg!Write)
  BY LegMaps
<1>3. /\ w \in DOMAIN LegMap =>
            Pushed(MapQueues(outbox, LegMap), MapQueues(outbox', LegMap), u, LegMap[w])
      /\ w \notin DOMAIN LegMap => MapQueues(outbox', LegMap) = MapQueues(outbox, LegMap)
  BY <1>1, <1>2, MappedPushed
<1> QED
  BY <1>3, LegMaps, QueuesMapped

(* The front leaves a pipeline. *)
LEMMA LegPopped ==
  ASSUME TypeInv, TypeInv', NEW u \in Devices, Popped(outbox, outbox', u)
  PROVE  /\ Head(outbox[u]) \in Message
         /\ IsLeg(Head(outbox[u])) => /\ Popped(LegQueues, LegQueues', u)
                                      /\ Head(LegQueues[u]) = LegOf(Head(outbox[u]))
         /\ ~IsLeg(Head(outbox[u])) => LegQueues' = LegQueues
<1>1. outbox \in Queues(Devices, Message)
  BY DEF TypeInv
<1>2. Maps(LegMap, Message, TwoLeg!Write)
  BY LegMaps
<1>3. PICK w : w = Head(outbox[u])
  OBVIOUS
<1>4. w \in Message
  BY <1>1, <1>3, QueuePopped
<1>5. /\ w \in DOMAIN LegMap =>
            /\ Popped(MapQueues(outbox, LegMap), MapQueues(outbox', LegMap), u)
            /\ Head(MapQueues(outbox, LegMap)[u]) = LegMap[w]
      /\ w \notin DOMAIN LegMap => MapQueues(outbox', LegMap) = MapQueues(outbox, LegMap)
  BY <1>1, <1>2, <1>3, MappedPopped
<1> QED
  BY <1>3, <1>4, <1>5, LegMaps, QueuesMapped

(* A completion joins the main queue: a first one, or another. *)
LEMMA CallPushed ==
  ASSUME TypeInv, TypeInv', NEW u \in Devices, NEW w \in Message,
         Pushed(handlers, handlers', u, w)
  PROVE  /\ IsFirst(w) => Pushed(CallQueues, CallQueues', u, CallOf(w))
         /\ ~IsFirst(w) => CallQueues' = CallQueues
<1>1. handlers \in Queues(Devices, Message)
  BY DEF TypeInv
<1>2. Maps(CallMap, Message, TwoLeg!Handler)
  BY LegMaps
<1>3. /\ w \in DOMAIN CallMap =>
            Pushed(MapQueues(handlers, CallMap), MapQueues(handlers', CallMap), u, CallMap[w])
      /\ w \notin DOMAIN CallMap => MapQueues(handlers', CallMap) = MapQueues(handlers, CallMap)
  BY <1>1, <1>2, MappedPushed
<1> QED
  BY <1>3, LegMaps, QueuesMapped

(* A completion leaves the main queue. *)
LEMMA CallPopped ==
  ASSUME TypeInv, TypeInv', NEW u \in Devices, Popped(handlers, handlers', u)
  PROVE  /\ Head(handlers[u]) \in Message
         /\ IsFirst(Head(handlers[u])) =>
              /\ Popped(CallQueues, CallQueues', u)
              /\ Head(CallQueues[u]) = CallOf(Head(handlers[u]))
         /\ ~IsFirst(Head(handlers[u])) => CallQueues' = CallQueues
<1>1. handlers \in Queues(Devices, Message)
  BY DEF TypeInv
<1>2. Maps(CallMap, Message, TwoLeg!Handler)
  BY LegMaps
<1>3. PICK w : w = Head(handlers[u])
  OBVIOUS
<1>4. w \in Message
  BY <1>1, <1>3, QueuePopped
<1>5. /\ w \in DOMAIN CallMap =>
            /\ Popped(MapQueues(handlers, CallMap), MapQueues(handlers', CallMap), u)
            /\ Head(MapQueues(handlers, CallMap)[u]) = CallMap[w]
      /\ w \notin DOMAIN CallMap => MapQueues(handlers', CallMap) = MapQueues(handlers, CallMap)
  BY <1>1, <1>2, <1>3, MappedPopped
<1> QED
  BY <1>3, <1>4, <1>5, LegMaps, QueuesMapped

(* How many legs and first completions there are. *)
LEMMA LegCounts ==
  ASSUME TypeInv, TypeInv', NEW u \in Devices
  PROVE  /\ LegQueues[u] \in Seq(TwoLeg!Write) /\ Len(LegQueues[u]) \in Nat
         /\ CallQueues[u] \in Seq(TwoLeg!Handler) /\ Len(CallQueues[u]) \in Nat
<1>1. LegQueues[u] \in Seq(TwoLeg!Write) /\ CallQueues[u] \in Seq(TwoLeg!Handler)
  BY QueuesMapped DEF Queues
<1> QED
  BY <1>1, SeqFacts

(* A step in which the two legs see nothing happen. *)
LEMMA LegsUntouched ==
  ASSUME TypeInv, TypeInv', StartedByTaps, taps' = taps,
         LegQueues' = LegQueues, CallQueues' = CallQueues,
         UNCHANGED <<following, follower, skewed>>
  PROVE  TwoLegStep /\ StartedByTaps'
<1>1. UNCHANGED TwoLeg!vars
  BY DEF TwoLeg!vars, LegQueues, CallQueues
<1>2. ASSUME NEW u \in Devices
      PROVE  Len(LegQueues'[u]) + Len(CallQueues'[u]) <= taps'
  <2>1. Len(LegQueues[u]) + Len(CallQueues[u]) <= taps
    BY DEF StartedByTaps
  <2>2. taps \in Nat /\ taps' = taps
    BY DEF StartedByTaps
  <2>3. Len(LegQueues[u]) \in Nat /\ Len(CallQueues[u]) \in Nat
    BY LegCounts
  <2>4. PICK a, b : a = Len(LegQueues[u]) /\ b = Len(CallQueues[u])
    OBVIOUS
  <2>5. a \in Nat /\ b \in Nat /\ a + b <= taps
    BY <2>1, <2>3, <2>4, Zenon
  <2>6. a + b <= taps'
    BY <2>2, <2>5
  <2> QED
    BY <2>4, <2>6
<1> QED
  BY <1>1, <1>2 DEF TwoLegStep, StartedByTaps

(* A tap starts a two-leg write. *)
LEMMA StartIs ==
  ASSUME TypeInv, TypeInv', StartedByTaps, NEW u \in Devices, NEW op \in Ops, NEW p \in Users,
         Events < MaxEvents, taps' = taps + 1,
         NEW x, x = [leg |-> "first", op |-> op, key |-> p],
         Pushed(LegQueues, LegQueues', u, x), CallQueues' = CallQueues,
         UNCHANGED <<following, follower>>, skewed' = skewed \ {<<u, p>>}
  PROVE  TwoLegStep /\ StartedByTaps'
<1>1. x \in TwoLeg!Write
  BY DEF TwoLeg!Write, TwoLeg!Ops, Ops
<1>2. LegQueues \in Queues(Devices, TwoLeg!Write)
  BY QueuesMapped
<1>3. /\ Len(LegQueues'[u]) = Len(LegQueues[u]) + 1
      /\ LegQueues' = [LegQueues EXCEPT ![u] = Append(LegQueues[u], x)]
      /\ \A v \in Devices : v # u => LegQueues'[v] = LegQueues[v]
  BY <1>1, <1>2, PushedCount
<1>4. taps \in Nat /\ MaxEvents \in Nat /\ taps < MaxEvents
  <2>1. taps \in Nat /\ faults \in Nat /\ MaxEvents \in Nat
    BY FollowAssumption DEF TypeInv, StartedByTaps
  <2>2. Cardinality(published \ OldPosts) \in Nat
    BY FS_Difference, FS_CardinalityType DEF TypeInv
  <2> QED
    BY <2>1, <2>2 DEF Events
<1>5. ASSUME NEW v \in Devices
      PROVE  /\ Len(LegQueues[v]) \in Nat /\ Len(CallQueues[v]) \in Nat
             /\ Len(LegQueues[v]) + Len(CallQueues[v]) <= taps
  BY LegCounts DEF StartedByTaps
<1>6. Len(LegQueues[u]) + Len(CallQueues[u]) < MaxEvents
  <2>1. PICK a, b : a = Len(LegQueues[u]) /\ b = Len(CallQueues[u])
    OBVIOUS
  <2>2. a \in Nat /\ b \in Nat /\ a + b <= taps
    BY <1>5, <2>1, Zenon
  <2>3. a + b < MaxEvents
    BY <1>4, <2>2
  <2> QED
    BY <2>1, <2>3
<1>7. TwoLeg!Start(u, op, p)
  BY <1>3, <1>6, Zenon DEF TwoLeg!Start, LegQueues, CallQueues
<1>8. TwoLegStep
  BY <1>7 DEF TwoLegStep, TwoLeg!Next, TwoLeg!Ops, Ops
<1>9. ASSUME NEW v \in Devices
      PROVE  Len(LegQueues'[v]) + Len(CallQueues'[v]) <= taps'
  <2>1. PICK a, b : a = Len(LegQueues[v]) /\ b = Len(CallQueues[v])
    OBVIOUS
  <2>2. a \in Nat /\ b \in Nat /\ a + b <= taps
    BY <1>5, <2>1, Zenon
  <2>3. Len(CallQueues'[v]) = b /\ (Len(LegQueues'[v]) = a \/ Len(LegQueues'[v]) = a + 1)
    BY <1>3, <2>1, Zenon
  <2>4. a + b <= taps + 1 /\ (a + 1) + b <= taps + 1
    BY <1>4, <2>2
  <2> QED
    BY <2>3, <2>4
<1>10. taps' \in Nat
  BY <1>4
<1> QED
  BY <1>8, <1>9, <1>10 DEF StartedByTaps

(* No two-leg write is added. *)
NoMoreLegs ==
  \A v \in Devices : Len(LegQueues'[v]) + Len(CallQueues'[v])
                     <= Len(LegQueues[v]) + Len(CallQueues[v])

(* Then the taps still account for all of them. *)
LEMMA NoMoreThanTaps ==
  ASSUME TypeInv, TypeInv', StartedByTaps, NoMoreLegs, taps' = taps,
         \A v \in Devices : Len(LegQueues'[v]) \in Nat /\ Len(CallQueues'[v]) \in Nat
  PROVE  StartedByTaps'
<1>1. ASSUME NEW v \in Devices
      PROVE  Len(LegQueues'[v]) + Len(CallQueues'[v]) <= taps'
  <2>1. PICK a, b, c, d : /\ a = Len(LegQueues[v]) /\ b = Len(CallQueues[v])
                          /\ c = Len(LegQueues'[v]) /\ d = Len(CallQueues'[v])
    OBVIOUS
  <2>2. a \in Nat /\ b \in Nat
    BY <2>1, LegCounts
  <2>3. a + b <= taps /\ c + d <= a + b /\ c \in Nat /\ d \in Nat
    BY <2>1, Zenon DEF StartedByTaps, NoMoreLegs
  <2>4. taps \in Nat
    BY DEF StartedByTaps
  <2>5. c + d <= taps
    BY <2>2, <2>3, <2>4
  <2> QED
    BY <2>1, <2>5
<1> QED
  BY <1>1 DEF StartedByTaps

(* How many there are after a step. *)
LEMMA LegCountsNext ==
  ASSUME TypeInv'
  PROVE  \A v \in Devices : Len(LegQueues'[v]) \in Nat /\ Len(CallQueues'[v]) \in Nat
<1>1. outbox' \in Queues(Devices, Message) /\ handlers' \in Queues(Devices, Message)
  BY DEF TypeInv
<1>2. LegQueues' = MapQueues(outbox', LegMap) /\ CallQueues' = MapQueues(handlers', CallMap)
  BY <1>1, LegQueuesAre DEF LegQueues, CallQueues
<1>3. /\ LegQueues' \in Queues(Devices, TwoLeg!Write)
      /\ CallQueues' \in Queues(Devices, TwoLeg!Handler)
  BY <1>1, <1>2, LegMaps, MappedType
<1> QED
  BY <1>3, SeqFacts DEF Queues

(* What the departure of a write does to the legs and the completions. *)
LEMMA DepartLegs ==
  ASSUME TypeInv, TypeInv', NEW u \in Devices, Depart(u), NEW w, w = Head(outbox[u])
  PROVE  /\ w \in Message
         /\ IsLeg(w) => /\ LegQueues[u] # <<>> /\ Head(LegQueues[u]) = LegOf(w)
                        /\ LegQueues' = [LegQueues EXCEPT ![u] = Tail(LegQueues[u])]
                        /\ TwoLeg!Notify(u, LegOf(w))
         /\ ~IsLeg(w) => LegQueues' = LegQueues /\ CallQueues' = CallQueues
         /\ NoMoreLegs
<1>1. outbox \in Queues(Devices, Message) /\ handlers \in Queues(Devices, Message)
  BY DEF TypeInv
<1>2. Popped(outbox, outbox', u)
  BY <1>1 DEF Depart, Popped, ChangedAt, Queues
<1>3. handlers' = IF w.from = "nobody" THEN handlers
                    ELSE [handlers EXCEPT ![u] = Append(@, w)]
  BY DEF Depart
<1>4. /\ w \in Message
      /\ IsLeg(w) => Popped(LegQueues, LegQueues', u) /\ Head(LegQueues[u]) = LegOf(w)
      /\ ~IsLeg(w) => LegQueues' = LegQueues
  BY <1>2, LegPopped
<1>5. IsFirst(w) => IsLeg(w)
  BY DEF IsFirst, IsLeg
<1>6. IsLeg(w) /\ w.from # "nobody" /\ IsFirst(w) <=> IsLeg(w) /\ LegOf(w).leg = "first"
  BY DEF IsFirst, IsLeg, LegOf
<1>7. CASE w.from = "nobody" \/ ~IsFirst(w)
  <2>1. CallQueues' = CallQueues
    <3>1. CASE w.from = "nobody"
      BY <1>3, <3>1 DEF CallQueues
    <3>2. CASE w.from # "nobody"
      <4>1. Pushed(handlers, handlers', u, w)
        BY <1>1, <1>3, <3>2 DEF Pushed, ChangedAt, Queues
      <4> QED
        BY <1>4, <1>7, <3>2, <4>1, CallPushed
    <3> QED
      BY <3>1, <3>2
  <2>2. IsLeg(w) => TwoLeg!Notify(u, LegOf(w))
    BY <1>6, <1>7, <2>1 DEF TwoLeg!Notify, CallQueues
  <2>3. IsLeg(w) => /\ LegQueues[u] # <<>> /\ Len(LegQueues'[u]) = Len(LegQueues[u]) - 1
                    /\ LegQueues' = [LegQueues EXCEPT ![u] = Tail(LegQueues[u])]
                    /\ \A v \in Devices : v # u => LegQueues'[v] = LegQueues[v]
    BY <1>4, QueuesMapped, PoppedCount
  <2>4. NoMoreLegs
    <3>1. SUFFICES ASSUME NEW v \in Devices
                   PROVE  Len(LegQueues'[v]) + Len(CallQueues'[v])
                            <= Len(LegQueues[v]) + Len(CallQueues[v])
      BY DEF NoMoreLegs
    <3>2. PICK a, b : a = Len(LegQueues[v]) /\ b = Len(CallQueues[v])
      OBVIOUS
    <3>3. a \in Nat /\ b \in Nat
      BY <3>2, LegCounts
    <3>4. Len(CallQueues'[v]) = b /\ (Len(LegQueues'[v]) = a \/ Len(LegQueues'[v]) = a - 1)
      BY <1>4, <2>1, <2>3, <3>2, Zenon
    <3>5. a + b <= a + b /\ (a - 1) + b <= a + b
      BY <3>3
    <3> QED
      BY <3>2, <3>4, <3>5
  <2> QED
    BY <1>4, <2>1, <2>2, <2>3, <2>4
<1>8. CASE w.from # "nobody" /\ IsFirst(w)
  <2>1. Pushed(handlers, handlers', u, w)
    BY <1>1, <1>3, <1>8 DEF Pushed, ChangedAt, Queues
  <2>2. Pushed(CallQueues, CallQueues', u, CallOf(w))
    BY <1>4, <1>8, <2>1, CallPushed
  <2>3. CallOf(w) \in TwoLeg!Handler
    BY <1>4 DEF CallOf, TwoLeg!Handler, Message, Write, Ops, TwoLeg!Ops
  <2>4. /\ Len(CallQueues'[u]) = Len(CallQueues[u]) + 1
        /\ CallQueues' = [CallQueues EXCEPT ![u] = Append(CallQueues[u], CallOf(w))]
        /\ \A v \in Devices : v # u => CallQueues'[v] = CallQueues[v]
    BY <2>2, <2>3, QueuesMapped, PushedCount
  <2>5. CallOf(w) = [op |-> LegOf(w).op, key |-> LegOf(w).key] /\ LegOf(w).leg = "first"
    BY <1>4, <1>5, <1>6, <1>8 DEF CallOf, LegOf
  <2>6. TwoLeg!Notify(u, LegOf(w))
    BY <2>4, <2>5, Zenon DEF TwoLeg!Notify, CallQueues
  <2>7. /\ LegQueues[u] # <<>> /\ Len(LegQueues'[u]) = Len(LegQueues[u]) - 1
        /\ LegQueues' = [LegQueues EXCEPT ![u] = Tail(LegQueues[u])]
        /\ \A v \in Devices : v # u => LegQueues'[v] = LegQueues[v]
    BY <1>4, <1>5, <1>8, QueuesMapped, PoppedCount
  <2>8. NoMoreLegs
    <3>1. SUFFICES ASSUME NEW v \in Devices
                   PROVE  Len(LegQueues'[v]) + Len(CallQueues'[v])
                            <= Len(LegQueues[v]) + Len(CallQueues[v])
      BY DEF NoMoreLegs
    <3>2. PICK a, b : a = Len(LegQueues[v]) /\ b = Len(CallQueues[v])
      OBVIOUS
    <3>3. a \in Nat /\ b \in Nat
      BY <3>2, LegCounts
    <3>4. \/ Len(CallQueues'[v]) = b /\ Len(LegQueues'[v]) = a
          \/ Len(CallQueues'[v]) = b + 1 /\ Len(LegQueues'[v]) = a - 1
      BY <2>4, <2>7, <3>2, Zenon
    <3>5. a + b <= a + b /\ (a - 1) + (b + 1) <= a + b
      BY <3>3
    <3> QED
      BY <3>2, <3>4, <3>5
  <2> QED
    BY <1>4, <1>5, <1>8, <2>6, <2>7, <2>8
<1> QED
  BY <1>7, <1>8

(* Applying a leg to one of the two collections. *)
LEMMA ApplyLeg ==
  ASSUME NEW docs, NEW u, NEW w \in Message
  PROVE  TwoLeg!Apply(docs, u, LegOf(w)) = Apply(docs, w.op, <<u, w.uid>>)
BY DEF TwoLeg!Apply, Apply, LegOf

(* Committing a write commits a leg, or nothing the two legs see. *)
LEMMA CommitIs ==
  ASSUME TypeInv, TypeInv', StartedByTaps, NEW u \in Devices, Commit(u)
  PROVE  TwoLegStep /\ StartedByTaps'
<1>1. PICK w : w = Head(outbox[u])
  OBVIOUS
<1>2. /\ w \in Message /\ NoMoreLegs
      /\ IsLeg(w) => /\ LegQueues[u] # <<>> /\ Head(LegQueues[u]) = LegOf(w)
                     /\ LegQueues' = [LegQueues EXCEPT ![u] = Tail(LegQueues[u])]
                     /\ TwoLeg!Notify(u, LegOf(w))
      /\ ~IsLeg(w) => LegQueues' = LegQueues /\ CallQueues' = CallQueues
  BY <1>1, DepartLegs DEF Commit
<1>3. /\ following' = IF w.doc = "following"
                        THEN Apply(following, w.op, <<u, w.uid>>) ELSE following
      /\ follower' = IF w.doc = "follower"
                        THEN Apply(follower, w.op, <<u, w.uid>>) ELSE follower
      /\ skewed' = skewed /\ taps' = taps
  BY <1>1 DEF Commit
<1>4. StartedByTaps'
  BY <1>2, <1>3, LegCountsNext, NoMoreThanTaps
<1>5. CASE ~IsLeg(w)
  <2>1. following' = following /\ follower' = follower
    BY <1>3, <1>5 DEF IsLeg
  <2>2. taps' = taps
    BY <1>3 DEF TypeInv
  <2> QED
    BY <1>2, <1>3, <1>5, <2>1, <2>2, LegsUntouched
<1>6. CASE IsLeg(w)
  <2>1. (LegOf(w).leg = "second") <=> (w.doc = "follower")
    BY <1>6 DEF LegOf
  <2>2. (w.doc = "following") <=> (w.doc # "follower")
    BY <1>6 DEF IsLeg
  <2>3. following' = IF LegOf(w).leg = "second" THEN following
                       ELSE TwoLeg!Apply(following, u, LegOf(w))
    BY <1>2, <1>3, <2>1, <2>2, ApplyLeg
  <2>4. follower' = IF LegOf(w).leg = "second"
                       THEN TwoLeg!Apply(follower, u, LegOf(w)) ELSE follower
    BY <1>2, <1>3, <2>1, <2>2, ApplyLeg
  <2>5. PICK x : x = LegOf(w)
    OBVIOUS
  <2>6. TwoLeg!Commit(u)
    BY <1>2, <1>3, <1>6, <2>3, <2>4, <2>5, Zenon DEF TwoLeg!Commit, LegQueues, CallQueues
  <2> QED
    BY <1>4, <2>6 DEF TwoLegStep, TwoLeg!Next
<1> QED
  BY <1>5, <1>6

(* So does refusing it. *)
LEMMA RefuseIs ==
  ASSUME TypeInv, TypeInv', StartedByTaps, NEW u \in Devices, Refuse(u)
  PROVE  TwoLegStep /\ StartedByTaps'
<1>1. PICK w : w = Head(outbox[u])
  OBVIOUS
<1>2. /\ w \in Message /\ NoMoreLegs
      /\ IsLeg(w) => /\ LegQueues[u] # <<>> /\ Head(LegQueues[u]) = LegOf(w)
                     /\ LegQueues' = [LegQueues EXCEPT ![u] = Tail(LegQueues[u])]
                     /\ TwoLeg!Notify(u, LegOf(w))
      /\ ~IsLeg(w) => LegQueues' = LegQueues /\ CallQueues' = CallQueues
  BY <1>1, DepartLegs DEF Refuse
<1>3. /\ following' = following /\ follower' = follower /\ taps' = taps
      /\ skewed' = IF ~IsLeg(w) \/ TwoLeg!Superseded(u, LegOf(w))
                     THEN skewed ELSE skewed \cup {<<u, w.uid>>}
  BY <1>1 DEF Refuse, server
<1>4. StartedByTaps'
  BY <1>2, <1>3, LegCountsNext, NoMoreThanTaps
<1>5. CASE ~IsLeg(w)
  <2>1. taps' = taps /\ skewed' = skewed
    BY <1>3, <1>5 DEF TypeInv
  <2> QED
    BY <1>2, <1>3, <1>5, <2>1, LegsUntouched
<1>6. CASE IsLeg(w)
  <2>1. LegOf(w).key = w.uid
    BY DEF LegOf
  <2>2. skewed' = IF TwoLeg!Superseded(u, LegOf(w))
                    THEN skewed ELSE skewed \cup {<<u, LegOf(w).key>>}
    BY <1>3, <1>6, <2>1
  <2>3. TwoLeg!Refuse(u)
    BY <1>2, <1>3, <1>6, <2>2, Zenon DEF TwoLeg!Refuse, LegQueues, CallQueues
  <2> QED
    BY <1>4, <2>3 DEF TwoLegStep, TwoLeg!Next
<1> QED
  BY <1>5, <1>6

(* The completion of a first leg issues the second. *)
LEMMA HandleIs ==
  ASSUME TypeInv, TypeInv', StartedByTaps, NEW u \in Devices, HandleFirst(u)
  PROVE  TwoLegStep /\ StartedByTaps'
<1>1. PICK h : h = Head(handlers[u])
  OBVIOUS
<1>2. outbox \in Queues(Devices, Message) /\ handlers \in Queues(Devices, Message)
  BY DEF TypeInv
<1>3. Popped(handlers, handlers', u)
  BY <1>2 DEF HandleFirst, Popped, ChangedAt, Queues
<1>4. h \in Message /\ h.doc = "following"
  BY <1>1, <1>3, CallPopped DEF HandleFirst
<1>5. PICK x : x = [h EXCEPT !.doc = "follower"]
  OBVIOUS
<1>6. /\ x \in Message /\ IsLeg(x) /\ IsFirst(h)
      /\ LegOf(x) = [leg |-> "second", op |-> h.op, key |-> h.uid]
      /\ CallOf(h) = [op |-> h.op, key |-> h.uid]
  BY <1>4, <1>5 DEF Message, Write, IsLeg, IsFirst, LegOf, CallOf
<1>7. Pushed(outbox, outbox', u, x)
  BY <1>1, <1>2, <1>5 DEF HandleFirst, Pushed, ChangedAt, Queues
<1>8. Pushed(LegQueues, LegQueues', u, LegOf(x))
  BY <1>6, <1>7, LegPushed
<1>9. Popped(CallQueues, CallQueues', u) /\ Head(CallQueues[u]) = CallOf(h)
  BY <1>1, <1>3, <1>6, CallPopped
<1>10. LegOf(x) \in TwoLeg!Write
  BY <1>4, <1>6 DEF TwoLeg!Write, Message, Write, Ops, TwoLeg!Ops
<1>11. /\ Len(LegQueues'[u]) = Len(LegQueues[u]) + 1
       /\ LegQueues' = [LegQueues EXCEPT ![u] = Append(LegQueues[u], LegOf(x))]
       /\ \A v \in Devices : v # u => LegQueues'[v] = LegQueues[v]
  BY <1>8, <1>10, QueuesMapped, PushedCount
<1>12. /\ CallQueues[u] # <<>> /\ Len(CallQueues'[u]) = Len(CallQueues[u]) - 1
       /\ CallQueues' = [CallQueues EXCEPT ![u] = Tail(CallQueues[u])]
       /\ \A v \in Devices : v # u => CallQueues'[v] = CallQueues[v]
  BY <1>9, QueuesMapped, PoppedCount
<1>13. UNCHANGED <<following, follower, skewed, taps>>
  BY DEF HandleFirst, server
<1>14. LegOf(x) = [leg |-> "second", op |-> Head(CallQueues[u]).op,
                   key |-> Head(CallQueues[u]).key]
  BY <1>6, <1>9
<1>15. TwoLeg!Handle(u)
  BY <1>11, <1>12, <1>13, <1>14, Zenon DEF TwoLeg!Handle, LegQueues, CallQueues
<1>16. NoMoreLegs
  <2>1. SUFFICES ASSUME NEW v \in Devices
                 PROVE  Len(LegQueues'[v]) + Len(CallQueues'[v])
                          <= Len(LegQueues[v]) + Len(CallQueues[v])
    BY DEF NoMoreLegs
  <2>2. PICK a, b : a = Len(LegQueues[v]) /\ b = Len(CallQueues[v])
    OBVIOUS
  <2>3. a \in Nat /\ b \in Nat
    BY <2>2, LegCounts
  <2>4. \/ Len(CallQueues'[v]) = b /\ Len(LegQueues'[v]) = a
        \/ Len(CallQueues'[v]) = b - 1 /\ Len(LegQueues'[v]) = a + 1
    BY <1>11, <1>12, <2>2, Zenon
  <2>5. a + b <= a + b /\ (a + 1) + (b - 1) <= a + b
    BY <2>3
  <2> QED
    BY <2>2, <2>4, <2>5
<1>17. StartedByTaps'
  BY <1>13, <1>16, LegCountsNext, NoMoreThanTaps
<1> QED
  BY <1>15, <1>17 DEF TwoLegStep, TwoLeg!Next

(* Messages that are no legs join a pipeline unseen. *)
LEMMA LegsNotExtended ==
  ASSUME TypeInv, TypeInv', NEW u \in Devices, NEW t, Extended(outbox, outbox', u, t, Message),
         \A i \in DOMAIN t : ~IsLeg(t[i])
  PROVE  LegQueues' = LegQueues
<1>1. outbox \in Queues(Devices, Message) /\ outbox[u] \in Seq(Message) /\ t \in Seq(Message)
  BY DEF TypeInv, Queues, Extended
<1>2. Maps(LegMap, Message, TwoLeg!Write)
  BY LegMaps
<1>3. PICK s, e : s = outbox[u] \o t /\ e = CompactMap(t, LegMap)
  OBVIOUS
<1>4. ChangedAt(outbox, outbox', u, s)
  BY <1>3 DEF Extended
<1>5. e = <<>>
  <2>1. ToSet(t) \cap DOMAIN LegMap = {}
    <3>1. \A i \in DOMAIN t : t[i] \in Message
      BY <1>1, SeqFacts
    <3> QED
      BY <3>1, LegMaps DEF ToSet
  <2>2. ToSet(e) = {} /\ e \in Seq(TwoLeg!Write)
    BY <1>1, <1>2, <1>3, <2>1, MapElements, MapType
  <2>3. \A i \in DOMAIN e : e[i] \in ToSet(e)
    BY DEF ToSet
  <2>4. e # <<>> => 1 \in DOMAIN e
    BY <2>2
  <2> QED
    BY <2>2, <2>3, <2>4
<1>6. PICK b, r, q : b = outbox[u] /\ r = CompactMap(b, LegMap) /\ q = CompactMap(s, LegMap)
  OBVIOUS
<1>7. q = r \o e /\ r \in Seq(TwoLeg!Write)
  <2>1. b \in Seq(Message) /\ s = b \o t
    BY <1>1, <1>3, <1>6
  <2>2. CompactMap(b \o t, LegMap) = CompactMap(b, LegMap) \o CompactMap(t, LegMap)
    BY <1>1, <1>2, <2>1, MapConcat
  <2> QED
    BY <1>2, <1>3, <1>6, <2>1, <2>2, MapType
<1>8. q = r
  BY <1>5, <1>7
<1>9. PICK F, G : F = MapQueues(outbox, LegMap) /\ G = MapQueues(outbox', LegMap)
  OBVIOUS
<1>10. F \in Queues(Devices, TwoLeg!Write) /\ F[u] = r /\ ChangedAt(F, G, u, q)
  BY <1>1, <1>2, <1>4, <1>6, <1>9, MappedType, MappedChange
<1>11. G = F
  BY <1>8, <1>10, ChangedToSame
<1> QED
  BY <1>9, <1>11, QueuesMapped

(* The completion of a second leg, of a load or of a query is nothing the *)
(* two legs see.                                                          *)
LEMMA OtherIs ==
  ASSUME TypeInv, TypeInv', StartedByTaps, NEW u \in Devices,
         HandleSecond(u) \/ HandleLoad(u) \/ HandleQuery(u)
  PROVE  TwoLegStep /\ StartedByTaps'
<1>1. PICK h : h = Head(handlers[u])
  OBVIOUS
<1>2. outbox \in Queues(Devices, Message) /\ handlers \in Queues(Devices, Message)
  BY DEF TypeInv
<1>3. Popped(handlers, handlers', u)
  BY <1>2 DEF HandleSecond, HandleLoad, HandleQuery, Popped, ChangedAt, Queues
<1>4. h \in Message /\ h.doc # "following"
  BY <1>1, <1>3, CallPopped DEF HandleSecond, HandleLoad, HandleQuery
<1>5. CallQueues' = CallQueues
  BY <1>1, <1>3, <1>4, CallPopped DEF IsFirst
<1>6. LegQueues' = LegQueues
  <2>1. CASE HandleSecond(u)
    <3>1. PICK x : x = About("notification", "set", h.uid, "nobody")
      OBVIOUS
    <3>2. x \in Message /\ ~IsLeg(x)
      <4>1. h.uid \in Users
        BY <1>4 DEF Message, Write
      <4> QED
        BY <3>1, <4>1, FS_EmptySet DEF Message, Write, Ops, IsLeg, About
    <3>3. outbox' = outbox \/ outbox' = [outbox EXCEPT ![u] = Append(@, x)]
      BY <1>1, <2>1, <3>1 DEF HandleSecond
    <3>4. outbox' = outbox \/ Pushed(outbox, outbox', u, x)
      BY <1>2, <3>3 DEF Pushed, ChangedAt, Queues
    <3>5. CASE outbox' = outbox
      BY <3>5 DEF LegQueues
    <3>6. CASE Pushed(outbox, outbox', u, x)
      BY <3>2, <3>6, LegPushed
    <3> QED
      BY <3>4, <3>5, <3>6
  <2>2. CASE HandleLoad(u)
    BY <2>2 DEF HandleLoad, LegQueues
  <2>3. CASE HandleQuery(u)
    <3>1. PICK t : /\ FeedWrites(h, t)
                   /\ outbox' = [outbox EXCEPT ![u] = @ \o t]
      BY <1>1, <1>4, <2>3, FeedWritesIs DEF HandleQuery
    <3>2. t \in Seq(Message) /\ \A i \in DOMAIN t : ~IsLeg(t[i])
      BY <3>1 DEF FeedWrites, IsLeg
    <3>3. Extended(outbox, outbox', u, t, Message)
      BY <1>2, <3>1, <3>2 DEF Extended, ChangedAt, Queues
    <3> QED
      BY <3>2, <3>3, LegsNotExtended
  <2> QED
    BY <2>1, <2>2, <2>3
<1>7. UNCHANGED <<following, follower, skewed, taps>>
  BY DEF HandleSecond, HandleLoad, HandleQuery, server
<1> QED
  BY <1>5, <1>6, <1>7, LegsUntouched

(* Neither is the answer of a load or of a query. *)
LEMMA AnswerIs ==
  ASSUME TypeInv, TypeInv', StartedByTaps, NEW u \in Devices, NEW v \in Users,
         (\E s \in Screens : LoadAnswer(u, v, s)) \/ QueryAnswer(u, v)
  PROVE  TwoLegStep /\ StartedByTaps'
<1>1. handlers \in Queues(Devices, Message)
  BY DEF TypeInv
<1>2. UNCHANGED <<outbox, following, follower, skewed, taps>>
  BY DEF LoadAnswer, QueryAnswer, server
<1>3. LegQueues' = LegQueues
  BY <1>2 DEF LegQueues
<1>4. PICK x : /\ x.doc # "following"
               /\ handlers' = [handlers EXCEPT ![u] = Append(@, x)]
  BY DEF LoadAnswer, QueryAnswer, About
<1>5. Pushed(handlers, handlers', u, x)
  BY <1>1, <1>4 DEF Pushed, ChangedAt, Queues
<1>6. x \in Message
  <2>1. handlers'[u] = Append(handlers[u], x) /\ handlers'[u] \in Seq(Message)
    BY <1>1, <1>4 DEF TypeInv, Queues
  <2>2. PICK s : s = handlers[u]
    OBVIOUS
  <2>3. s \in Seq(Message) /\ Append(s, x) \in Seq(Message)
    BY <1>1, <2>1, <2>2 DEF Queues
  <2>4. Append(s, x)[Len(s) + 1] = x /\ Len(s) + 1 \in DOMAIN Append(s, x)
    BY <2>3
  <2> QED
    BY <2>3, <2>4, SeqFacts
<1>7. CallQueues' = CallQueues
  BY <1>4, <1>5, <1>6, CallPushed DEF IsFirst
<1> QED
  BY <1>2, <1>3, <1>7, LegsUntouched

(* Nor a screen that is opened, a read that fails or a post that appears. *)
LEMMA ScreenIs ==
  ASSUME TypeInv, TypeInv', StartedByTaps,
         \/ \E u \in Devices, v \in Users :
              \/ UpdateError(u, v)
              \/ \E s \in Screens : Open(u, v, s) \/ LoadError(u, v, s)
         \/ \E p \in Posts : Publish(p)
  PROVE  TwoLegStep /\ StartedByTaps'
<1>1. UNCHANGED <<outbox, handlers, following, follower, skewed, taps>>
  BY DEF Open, LoadError, UpdateError, Publish, server, screen
<1>2. LegQueues' = LegQueues /\ CallQueues' = CallQueues
  BY <1>1 DEF LegQueues, CallQueues
<1> QED
  BY <1>1, <1>2, LegsUntouched

(* Nor does closing a screen change a leg: it changes where it reports to. *)
LEMMA CloseIs ==
  ASSUME TypeInv, TypeInv', StartedByTaps, NEW u \in Devices, NEW v \in Users,
         NEW s \in Screens, Close(u, v, s)
  PROVE  TwoLegStep /\ StartedByTaps'
<1> DEFINE o == [i \in DOMAIN outbox[u] |-> Gone(v, s, outbox[u][i])]
           g == [i \in DOMAIN handlers[u] |-> Gone(v, s, handlers[u][i])]
<1>1. UNCHANGED <<following, follower, skewed, taps>> /\ taps' = taps
  BY DEF Close, server, TypeInv
<1>2. /\ outbox \in Queues(Devices, Message) /\ outbox[u] \in Seq(Message)
      /\ handlers \in Queues(Devices, Message) /\ handlers[u] \in Seq(Message)
  BY DEF TypeInv, Queues
<1>3. /\ outbox' = [outbox EXCEPT ![u] = o]
      /\ handlers' = [handlers EXCEPT ![u] = g]
  BY DEF Close
<1>4. /\ o = [i \in DOMAIN outbox[u] |-> o[i]]
      /\ g = [i \in DOMAIN handlers[u] |-> g[i]]
  OBVIOUS
<1>5. /\ \A i \in DOMAIN outbox[u] : outbox[u][i] \in Message /\ o[i] = Gone(v, s, outbox[u][i])
      /\ \A i \in DOMAIN handlers[u] : handlers[u][i] \in Message /\ g[i] = Gone(v, s, handlers[u][i])
  BY <1>2, SeqFacts
<1> HIDE DEF o, g
<1>6. /\ \A i \in DOMAIN outbox[u] : o[i] \in Message
      /\ \A i \in DOMAIN handlers[u] : g[i] \in Message
  BY <1>5, GoneIs
<1>7. Rewritten(outbox, outbox', u, o, Message) /\ Rewritten(handlers, handlers', u, g, Message)
  BY <1>2, <1>3, <1>4, <1>6 DEF Rewritten, ChangedAt, Queues
<1>8. \A i \in DOMAIN outbox[u] :
        /\ outbox[u][i] \in DOMAIN LegMap <=> o[i] \in DOMAIN LegMap
        /\ outbox[u][i] \in DOMAIN LegMap => LegMap[o[i]] = LegMap[outbox[u][i]]
  <2>1. SUFFICES ASSUME NEW i \in DOMAIN outbox[u]
                 PROVE  /\ outbox[u][i] \in DOMAIN LegMap <=> o[i] \in DOMAIN LegMap
                        /\ outbox[u][i] \in DOMAIN LegMap => LegMap[o[i]] = LegMap[outbox[u][i]]
    OBVIOUS
  <2>2. PICK w, x : w = outbox[u][i] /\ x = o[i]
    OBVIOUS
  <2>3. w \in Message /\ x \in Message /\ x = Gone(v, s, w)
    BY <1>5, <1>6, <2>2
  <2>4. /\ w \in DOMAIN LegMap <=> x \in DOMAIN LegMap
        /\ w \in DOMAIN LegMap => LegMap[x] = LegMap[w]
    <3>1. /\ x.doc = w.doc /\ x.op = w.op /\ x.uid = w.uid
          /\ x.from = "nobody" <=> w.from = "nobody"
      BY <2>3, GoneIs
    <3>2. (IsLeg(x) <=> IsLeg(w)) /\ LegOf(x) = LegOf(w)
      BY <3>1 DEF IsLeg, LegOf
    <3> QED
      BY <2>3, <3>2, LegMaps, Zenon
  <2> QED
    BY <2>2, <2>4
<1>9. \A i \in DOMAIN handlers[u] :
        /\ handlers[u][i] \in DOMAIN CallMap <=> g[i] \in DOMAIN CallMap
        /\ handlers[u][i] \in DOMAIN CallMap => CallMap[g[i]] = CallMap[handlers[u][i]]
  <2>1. SUFFICES ASSUME NEW i \in DOMAIN handlers[u]
                 PROVE  /\ handlers[u][i] \in DOMAIN CallMap <=> g[i] \in DOMAIN CallMap
                        /\ handlers[u][i] \in DOMAIN CallMap => CallMap[g[i]] = CallMap[handlers[u][i]]
    OBVIOUS
  <2>2. PICK w, x : w = handlers[u][i] /\ x = g[i]
    OBVIOUS
  <2>3. w \in Message /\ x \in Message /\ x = Gone(v, s, w)
    BY <1>5, <1>6, <2>2
  <2>4. /\ w \in DOMAIN CallMap <=> x \in DOMAIN CallMap
        /\ w \in DOMAIN CallMap => CallMap[x] = CallMap[w]
    <3>1. /\ x.doc = w.doc /\ x.op = w.op /\ x.uid = w.uid
          /\ x.from = "nobody" <=> w.from = "nobody"
      BY <2>3, GoneIs
    <3>2. (IsFirst(x) <=> IsFirst(w)) /\ CallOf(x) = CallOf(w)
      BY <3>1 DEF IsFirst, CallOf
    <3> QED
      BY <2>3, <3>2, LegMaps, Zenon
  <2> QED
    BY <2>2, <2>4
<1>10. Maps(LegMap, Message, TwoLeg!Write) /\ Maps(CallMap, Message, TwoLeg!Handler)
  BY LegMaps
<1>11. MapQueues(outbox', LegMap) = MapQueues(outbox, LegMap)
  BY <1>2, <1>7, <1>8, <1>10, MappedSame
<1>12. MapQueues(handlers', CallMap) = MapQueues(handlers, CallMap)
  BY <1>2, <1>7, <1>9, <1>10, MappedSame
<1>13. LegQueues' = LegQueues /\ CallQueues' = CallQueues
  BY <1>11, <1>12, QueuesMapped
<1> QED
  BY <1>1, <1>13, LegsUntouched

(* A restart orphans the first legs and forgets their completions. *)
LEMMA KillIs ==
  ASSUME TypeInv, TypeInv', StartedByTaps, NEW u \in Devices, Die(u)
  PROVE  TwoLegStep /\ StartedByTaps'
<1> DEFINE o == [i \in DOMAIN outbox[u] |-> Orphan(outbox[u][i])]
           h == [x \in TwoLeg!Write |-> TwoLeg!Orphan(x)]
<1>1. UNCHANGED <<following, follower, taps>>
  BY DEF Die, server
<1>2. /\ outbox \in Queues(Devices, Message) /\ outbox[u] \in Seq(Message)
      /\ handlers \in Queues(Devices, Message)
  BY DEF TypeInv, Queues
<1>3. outbox' = [outbox EXCEPT ![u] = o] /\ handlers' = [handlers EXCEPT ![u] = <<>>]
  BY DEF Die
<1>4. o = [i \in DOMAIN outbox[u] |-> o[i]]
  OBVIOUS
<1>5. \A i \in DOMAIN outbox[u] : outbox[u][i] \in Message /\ o[i] = Orphan(outbox[u][i])
  BY <1>2, SeqFacts
<1>6. \A x \in TwoLeg!Write : h[x] = TwoLeg!Orphan(x)
  OBVIOUS
<1> HIDE DEF o, h
<1>7. \A i \in DOMAIN outbox[u] : o[i] \in Message
  BY <1>5, OrphanIs
<1>8. Rewritten(outbox, outbox', u, o, Message)
  BY <1>2, <1>3, <1>4, <1>7 DEF Rewritten, ChangedAt, Queues
<1>9. ASSUME NEW w \in Message
      PROVE  /\ IsLeg(Orphan(w)) <=> IsLeg(w)
             /\ IsLeg(w) => LegOf(Orphan(w)) = h[LegOf(w)]
  <2>1. Orphan(w).doc = w.doc /\ Orphan(w).op = w.op /\ Orphan(w).uid = w.uid
        /\ Orphan(w).from = "nobody"
    BY DEF Orphan, Message, Write
  <2>2. LegOf(w) \in TwoLeg!Write
    BY DEF LegOf, Message, Write, TwoLeg!Write, Ops, TwoLeg!Ops
  <2>3. IsLeg(Orphan(w)) <=> IsLeg(w)
    BY <2>1 DEF IsLeg
  <2>4. LegOf(Orphan(w)) = TwoLeg!Orphan(LegOf(w))
    BY <2>1 DEF LegOf, TwoLeg!Orphan
  <2> QED
    BY <1>6, <2>2, <2>3, <2>4
<1>10. \A i \in DOMAIN outbox[u] :
         /\ outbox[u][i] \in DOMAIN LegMap <=> o[i] \in DOMAIN LegMap
         /\ outbox[u][i] \in DOMAIN LegMap => LegMap[o[i]] = h[LegMap[outbox[u][i]]]
  BY <1>5, <1>7, <1>9, LegMaps
<1>11. Maps(LegMap, Message, TwoLeg!Write) /\ Maps(CallMap, Message, TwoLeg!Handler)
  BY LegMaps
<1>12. PICK F, G : F = LegQueues /\ G = LegQueues'
  OBVIOUS
<1>13. /\ F = MapQueues(outbox, LegMap) /\ G = MapQueues(outbox', LegMap)
       /\ F \in Queues(Devices, TwoLeg!Write)
  BY <1>12, QueuesMapped
<1>14. PICK t : t = [i \in DOMAIN F[u] |-> h[F[u][i]]]
  OBVIOUS
<1>15. ChangedAt(F, G, u, t)
  BY <1>2, <1>8, <1>10, <1>11, <1>13, <1>14, MappedRewritten
<1>16. F[u] \in Seq(TwoLeg!Write) /\ \A i \in DOMAIN F[u] : F[u][i] \in TwoLeg!Write
  BY <1>13, SeqFacts DEF Queues
<1>17. t = [i \in DOMAIN F[u] |-> TwoLeg!Orphan(F[u][i])]
  BY <1>6, <1>14, <1>16
<1>18. G = [F EXCEPT ![u] = t]
  BY <1>13, <1>15, ChangedIs
<1>19. CallQueues' = [CallQueues EXCEPT ![u] = <<>>]
  <2>1. PICK e : e = <<>>
    OBVIOUS
  <2>2. ChangedAt(handlers, handlers', u, e)
    BY <1>2, <1>3, <2>1 DEF ChangedAt, Queues
  <2>3. ChangedAt(MapQueues(handlers, CallMap), MapQueues(handlers', CallMap), u,
                  CompactMap(e, CallMap))
    BY <1>2, <1>11, <2>2, MappedChange
  <2>4. CompactMap(e, CallMap) = e
    BY <2>1, MapEmpty
  <2>5. CallQueues \in Queues(Devices, TwoLeg!Handler) /\ ChangedAt(CallQueues, CallQueues', u, e)
    BY <2>3, <2>4, QueuesMapped
  <2>6. CallQueues' = [CallQueues EXCEPT ![u] = e]
    BY <2>5, ChangedIs
  <2> QED
    BY <2>1, <2>6
<1>20. DOMAIN LegQueues = Devices /\ DOMAIN CallQueues = Devices
  BY DEF LegQueues, CallQueues
<1>21. skewed' = skewed \cup
         {<<u, p>> : p \in {p \in Users : \/ TwoLeg!HasLeg(LegQueues[u], "first", p)
                                          \/ TwoLeg!HasKey(CallQueues[u], p)}}
  BY DEF Die, LegQueues, CallQueues
<1>22. LegQueues' = [LegQueues EXCEPT ![u] =
                       [i \in DOMAIN LegQueues[u] |-> TwoLeg!Orphan(LegQueues[u][i])]]
  BY <1>12, <1>17, <1>18
<1>23. TwoLeg!Kill(u)
  BY <1>1, <1>19, <1>21, <1>22, Zenon DEF TwoLeg!Kill, LegQueues, CallQueues
<1>24. NoMoreLegs
  <2>1. /\ Len(LegQueues'[u]) = Len(LegQueues[u])
        /\ \A v \in Devices : v # u => LegQueues'[v] = LegQueues[v]
    <3>1. G[u] = t /\ \A v \in Devices : v # u => G[v] = F[v]
      BY <1>13, <1>15 DEF ChangedAt, Queues
    <3>2. DOMAIN t = DOMAIN F[u] /\ \A i \in DOMAIN F[u] : t[i] \in TwoLeg!Write
      <4>1. \A x \in TwoLeg!Write : TwoLeg!Orphan(x) \in TwoLeg!Write
        BY DEF TwoLeg!Orphan, TwoLeg!Write
      <4> QED
        BY <1>16, <1>17, <4>1
    <3>3. t = [i \in DOMAIN F[u] |-> t[i]]
      BY <1>14
    <3>4. Len(t) = Len(F[u])
      BY <1>16, <3>2, <3>3, Replaced
    <3> QED
      BY <1>12, <3>1, <3>4
  <2>2. /\ Len(CallQueues'[u]) = 0
        /\ \A v \in Devices : v # u => CallQueues'[v] = CallQueues[v]
    BY <1>19, <1>20
  <2>3. SUFFICES ASSUME NEW v \in Devices
                 PROVE  Len(LegQueues'[v]) + Len(CallQueues'[v])
                          <= Len(LegQueues[v]) + Len(CallQueues[v])
    BY DEF NoMoreLegs
  <2>4. PICK a, b : a = Len(LegQueues[v]) /\ b = Len(CallQueues[v])
    OBVIOUS
  <2>5. a \in Nat /\ b \in Nat
    BY <2>4, LegCounts
  <2>6. Len(LegQueues'[v]) = a /\ (Len(CallQueues'[v]) = b \/ Len(CallQueues'[v]) = 0)
    BY <2>1, <2>2, <2>4, Zenon
  <2>7. a + b <= a + b /\ a + 0 <= a + b
    BY <2>5
  <2> QED
    BY <2>4, <2>6, <2>7
<1>25. StartedByTaps'
  BY <1>1, <1>24, LegCountsNext, NoMoreThanTaps
<1> QED
  BY <1>23, <1>25 DEF TwoLegStep, TwoLeg!Next

(* A tap puts a first leg into the pipeline. *)
LEMMA TapIs ==
  ASSUME TypeInv, TypeInv', StartedByTaps, NEW u \in Devices, NEW v \in Users,
         NEW s \in Screens, Tap(u, v, s)
  PROVE  TwoLegStep /\ StartedByTaps'
<1>1. PICK op \in Ops : outbox' = [outbox EXCEPT ![u] =
                                     Append(@, About("following", op, v, s))]
  BY DEF Tap, Ops
<1>2. PICK w : w = About("following", op, v, s)
  OBVIOUS
<1>3. /\ UNCHANGED <<following, follower, handlers>>
      /\ Events < MaxEvents /\ taps' = taps + 1 /\ skewed' = skewed \ {<<u, v>>}
  BY DEF Tap, server
<1>4. outbox \in Queues(Devices, Message)
  BY DEF TypeInv
<1>5. w \in Message /\ IsLeg(w) /\ LegOf(w) = [leg |-> "first", op |-> op, key |-> v]
  BY <1>2, FS_EmptySet, FollowAssumption DEF Message, Write, About, IsLeg, LegOf
<1>6. Pushed(outbox, outbox', u, w)
  BY <1>1, <1>2, <1>4 DEF Pushed, ChangedAt, Queues
<1>7. Pushed(LegQueues, LegQueues', u, LegOf(w))
  BY <1>5, <1>6, LegPushed
<1>8. CallQueues' = CallQueues
  BY <1>3 DEF CallQueues
<1> QED
  BY <1>3, <1>5, <1>7, <1>8, StartIs

(* Every step is one of the two-leg write, or none. *)
LEMMA TwoLegSteps ==
  ASSUME TypeInv, TypeInv', StartedByTaps, [Next]_vars
  PROVE  TwoLegStep /\ StartedByTaps'
<1>1. ASSUME NEW u \in Devices, Commit(u) \/ Handle(u) \/ Refuse(u) \/ Die(u)
      PROVE  TwoLegStep /\ StartedByTaps'
  BY <1>1, CommitIs, RefuseIs, HandleIs, OtherIs, KillIs DEF Handle
<1>2. ASSUME NEW u \in Devices, NEW v \in Users,
             QueryAnswer(u, v) \/ UpdateError(u, v) \/ RemoveError(u, v)
      PROVE  TwoLegStep /\ StartedByTaps'
  BY <1>2, ScreenIs, AnswerIs, KillIs DEF RemoveError
<1>3. ASSUME NEW u \in Devices, NEW v \in Users, NEW s \in Screens,
             \/ Open(u, v, s) \/ Close(u, v, s) \/ Tap(u, v, s)
             \/ LoadAnswer(u, v, s) \/ LoadError(u, v, s)
      PROVE  TwoLegStep /\ StartedByTaps'
  BY <1>3, ScreenIs, CloseIs, TapIs, AnswerIs
<1>4. ASSUME NEW p \in Posts, Publish(p)
      PROVE  TwoLegStep /\ StartedByTaps'
  BY <1>4, ScreenIs
<1>5. CASE UNCHANGED vars
  <2>1. UNCHANGED <<outbox, handlers, following, follower, skewed, taps>>
    BY <1>5 DEF vars, server
  <2>2. LegQueues' = LegQueues /\ CallQueues' = CallQueues
    BY <2>1 DEF LegQueues, CallQueues
  <2> QED
    BY <2>1, <2>2, LegsUntouched
<1> QED
  BY <1>1, <1>2, <1>3, <1>4, <1>5 DEF Next

(* Following starts as the two-leg write does. *)
LEMMA TwoLegInit == Init => TwoLeg!Init /\ StartedByTaps
<1>1. SUFFICES ASSUME Init PROVE TwoLeg!Init /\ StartedByTaps
  OBVIOUS
<1>2. \A u \in Devices : Legs(outbox[u]) = <<>> /\ Calls(handlers[u]) = <<>>
  <2>1. \A u \in Devices : outbox[u] = <<>> /\ handlers[u] = <<>>
    BY <1>1 DEF Init
  <2> QED
    BY <2>1, MapEmpty DEF Legs, Calls
<1>3. TwoLeg!Init
  BY <1>1, <1>2 DEF Init, TwoLeg!Init
<1>4. \A u \in Devices : LegQueues[u] = <<>> /\ CallQueues[u] = <<>>
  BY <1>2 DEF LegQueues, CallQueues
<1>5. StartedByTaps
  <2>1. taps = 0 /\ taps \in Nat /\ Len(<<>>) + Len(<<>>) <= 0
    BY <1>1 DEF Init
  <2> QED
    BY <1>4, <2>1 DEF StartedByTaps
<1> QED
  BY <1>3, <1>5

(* Following and unfollowing, with the taps, refusals and restarts that cut *)
(* into them and whatever else the pipeline carries, are two-leg writes:    *)
(* all that TwoLegWriteProofs proves holds of Following and Follower.       *)
THEOREM FollowsImplementTwoLeg == Spec => ImplementsTwoLeg
<1>1. Init => TwoLeg!Init /\ StartedByTaps
  BY TwoLegInit
<1>2. TypeInv /\ TypeInv' /\ StartedByTaps /\ [Next]_vars
        => [UNCHANGED TwoLeg!vars \/ TwoLeg!Next]_(TwoLeg!vars) /\ StartedByTaps'
  BY TwoLegSteps DEF TwoLegStep
<1>3. FollowInv => TypeInv
  BY DEF FollowInv
<1> QED
  BY <1>1, <1>2, <1>3, FollowInvAlways, PTL DEF Spec, ImplementsTwoLeg
=============================================================================
