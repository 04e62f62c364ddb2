-------------------------- MODULE UploadPostProofs --------------------------
(***************************************************************************)
(* Proofs about the feed and the upload screen over it: loads that overlap *)
(* never mix their rows, the hearts are those of the posts that are liked, *)
(* and a screen publishes its post, once, for any posts, any number of     *)
(* loads, screens and shares, and any errors.                              *)
(*                                                                         *)
(* The second half is about editing the profile: chains that change the    *)
(* image may overlap in any number, yet the image the User document ends   *)
(* up with exists, its posts carry it and the profile shows it.            *)
(***************************************************************************)
EXTENDS UploadPost, ProfileEdit, SequenceLemmas

----------------------------------------------------------------------------
(* A row, a load, and a call of postAnImage. *)
Row == Posts \X BOOLEAN
Load == [phase : {"asked", "posts"}, docs : SUBSET Posts, waiting : SUBSET Posts,
         list : Seq(Posts), failed : SUBSET Posts]
Chain == [screen : Nat, phase : Phases]

(* The types of what the properties depend on. *)
FeedTypes ==
  /\ feed \subseteq Posts
  /\ loads \in Seq(Load)
  /\ rows \in Seq(Row)

PostTypes ==
  /\ screens \in Nat
  /\ screen \in 0 .. screens
  /\ chains \in Seq(Chain)
  /\ \A i \in DOMAIN chains : chains[i].screen \in 1 .. screens
  /\ published \subseteq DOMAIN chains

(* Every post a load asked for is on its way, was lost or is in its list,  *)
(* which holds it once.                                                    *)
Sound(r) ==
  /\ r.waiting \subseteq r.docs \ r.failed
  /\ ToSet(r.list) = (r.docs \ r.failed) \ r.waiting
  /\ IsInjective(r.list)
  /\ r.phase = "asked" => r.docs = {} /\ r.list = <<>> /\ r.failed = {}

LoadsSound == \A l \in DOMAIN loads : Sound(loads[l])

(* The rows are the list of one of the loads, as far as it has got. *)
Shows(r, list) == Len(r) = Len(list) /\ \A i \in DOMAIN r : r[i][1] = list[i]

RowsOfOneLoad == \E l \in DOMAIN loads : Shows(rows, loads[l].list)

(* A heart is right, will be checked, or could not be kept right. *)
HeartsComing ==
  \A i \in DOMAIN rows :
    \/ rows[i][1] \in checks
    \/ rows[i][1] \in touched
    \/ rows[i][2] <=> rows[i][1] \in liked

(* A post is published when its document was taken, and not before; once   *)
(* its handler has run, its screen is gone.                                *)
PublishedInOrder ==
  \A i \in DOMAIN chains :
    /\ i \in published => chains[i].phase \in {"done", "over"}
    /\ chains[i].phase = "done" => i \in published
    /\ i \in published /\ chains[i].phase = "over" => chains[i].screen # screen

(* A screen that nobody shared in haste was shared again only after what   *)
(* came before had failed.                                                 *)
SharedAgainAfterFailure ==
  \A i, j \in DOMAIN chains :
    i < j /\ chains[i].screen = chains[j].screen /\ chains[i].screen \notin hasty
      => chains[i].phase = "over" /\ i \notin published

(* A screen that went away was cancelled or has published. *)
GoneForAReason ==
  \A s \in 1 .. screens :
    \/ s = screen
    \/ s \in cancelled
    \/ \E i \in published : chains[i].screen = s

FeedInv == FeedTypes /\ LoadsSound /\ RowsOfOneLoad /\ HeartsComing
PostInv == PostTypes /\ PublishedInOrder /\ SharedAgainAfterFailure /\ GoneForAReason
UploadInv == FeedInv /\ PostInv
----------------------------------------------------------------------------
(* A load that has just been started. *)
LEMMA NewLoadSound == NewLoad \in Load /\ Sound(NewLoad) /\ NewLoad.list = <<>>
<1>1. <<>> \in Seq(Posts) /\ ToSet(<<>>) = {} /\ IsInjective(<<>>)
  BY ToSetEmpty DEF IsInjective
<1>2. /\ NewLoad.phase = "asked" /\ NewLoad.docs = {} /\ NewLoad.waiting = {}
      /\ NewLoad.list = <<>> /\ NewLoad.failed = {}
  BY DEF NewLoad
<1>3. NewLoad \in Load
  BY <1>1 DEF NewLoad, Load
<1> QED
  BY <1>1, <1>2, <1>3 DEF Sound

(* The invariant holds when the feed is shown for the first time. *)
LEMMA InitUpload == Init => UploadInv
<1>1. SUFFICES ASSUME Init PROVE UploadInv
  OBVIOUS
<1>2. /\ feed \subseteq Posts /\ loads = <<NewLoad>> /\ rows = <<>>
      /\ screen = 0 /\ screens = 0 /\ chains = <<>> /\ published = {}
  BY <1>1, FeedAssumption DEF Init, FeedInit
<1>3. loads \in Seq(Load) /\ DOMAIN loads = {1} /\ loads[1] = NewLoad
  BY <1>2, NewLoadSound
<1>4. rows \in Seq(Row) /\ DOMAIN rows = {} /\ Len(rows) = 0
  BY <1>2
<1>5. chains \in Seq(Chain) /\ DOMAIN chains = {}
  BY <1>2
<1>6. FeedInv
  <2>1. Shows(rows, loads[1].list)
    BY <1>2, <1>3, <1>4, NewLoadSound DEF Shows
  <2> QED
    BY <1>2, <1>3, <1>4, <2>1, NewLoadSound
       DEF FeedInv, FeedTypes, LoadsSound, RowsOfOneLoad, HeartsComing
<1>7. PostInv
  BY <1>2, <1>5 DEF PostInv, PostTypes, PublishedInOrder, SharedAgainAfterFailure,
                    GoneForAReason
<1> QED
  BY <1>6, <1>7 DEF UploadInv

----------------------------------------------------------------------------
(* What the completion of a load does to the rows. *)
LEMMA CompletionShows ==
  ASSUME NEW list \in Seq(Posts), Completion(list)
  PROVE  /\ rows' \in Seq(Row)
         /\ Shows(rows', list)
         /\ \A i \in DOMAIN rows' : rows'[i][1] \in checks'
<1>1. /\ rows' = [i \in DOMAIN list |-> <<list[i], FALSE>>]
      /\ checks' = checks \cup ToSet(list)
  BY DEF Completion
<1>2. \A i \in DOMAIN list : list[i] \in Posts /\ list[i] \in ToSet(list)
  BY SeqFacts, ToSetType
<1>3. \A i \in DOMAIN list : /\ rows'[i] = <<list[i], FALSE>>
                            /\ rows'[i] \in Row
                            /\ rows'[i][1] = list[i]
  BY <1>1, <1>2 DEF Row
<1>4. rows' = [i \in DOMAIN list |-> rows'[i]]
  BY <1>1
<1>5. /\ rows' \in Seq(Row) /\ Len(rows') = Len(list)
      /\ DOMAIN rows' = DOMAIN list
  BY <1>3, <1>4, Replaced
<1> QED
  BY <1>1, <1>2, <1>3, <1>5 DEF Shows

(* What a step does to the loads when it changes one of them to r: the rows *)
(* stay those of one load, if its list stays, or are the new list of this.  *)
LEMMA OneLoadChanged ==
  ASSUME FeedInv, NEW l \in DOMAIN loads, NEW r \in Load, Sound(r),
         PutAt(loads, loads', l, r),
         \/ r.list = loads[l].list /\ rows' = rows
         \/ Shows(rows', r.list)
  PROVE  loads' \in Seq(Load) /\ LoadsSound' /\ RowsOfOneLoad'
<1>1. loads \in Seq(Load)
  BY DEF FeedInv, FeedTypes
<1>2. /\ loads' \in Seq(Load)
      /\ DOMAIN loads' = DOMAIN loads
      /\ loads'[l] = r
      /\ \A k \in DOMAIN loads : k # l => loads'[k] = loads[k]
  BY <1>1, PutAtIs
<1>3. LoadsSound'
  BY <1>2 DEF FeedInv, LoadsSound
<1>4. RowsOfOneLoad'
  <2>1. CASE Shows(rows', r.list)
    BY <1>2, <2>1 DEF RowsOfOneLoad
  <2>2. CASE r.list = loads[l].list /\ rows' = rows
    <3>1. PICK k \in DOMAIN loads : Shows(rows, loads[k].list)
      BY DEF FeedInv, RowsOfOneLoad
    <3>2. loads'[k].list = loads[k].list /\ k \in DOMAIN loads'
      BY <1>2, <2>2, <3>1
    <3>3. Shows(rows', loads'[k].list)
      BY <2>2, <3>1, <3>2
    <3> QED
      BY <3>2, <3>3 DEF RowsOfOneLoad
  <2> QED
    BY <2>1, <2>2
<1> QED
  BY <1>2, <1>3, <1>4

(* A pull, or the end of an upload, starts one more load. *)
LEMMA FetchPostsStep ==
  ASSUME FeedInv, FetchPosts, UNCHANGED <<feed, liked, rows, checks, touched>>
  PROVE  FeedInv'
<1>1. loads \in Seq(Load) /\ NewLoad \in Load /\ loads' = Append(loads, NewLoad)
  BY NewLoadSound DEF FeedInv, FeedTypes, FetchPosts
<1>2. /\ loads' \in Seq(Load)
      /\ DOMAIN loads' = DOMAIN loads \cup {Len(loads) + 1}
      /\ \A l \in DOMAIN loads : loads'[l] = loads[l]
      /\ loads'[Len(loads) + 1] = NewLoad
  BY <1>1, Appended
<1>3. FeedTypes'
  BY <1>2 DEF FeedInv, FeedTypes
<1>4. LoadsSound' /\ RowsOfOneLoad' /\ HeartsComing'
  BY <1>2, NewLoadSound DEF FeedInv, LoadsSound, RowsOfOneLoad, HeartsComing
<1> QED
  BY <1>3, <1>4 DEF FeedInv

(* The feed changes, or the user likes a post or does not any more. *)
LEMMA ChangeStep ==
  ASSUME FeedInv, NEW p \in Posts, Change(p)
  PROVE  FeedInv'
<1>1. /\ feed' \subseteq Posts
      /\ touched \subseteq touched'
      /\ \A q \in Posts : q \notin touched' => (q \in liked' <=> q \in liked)
      /\ UNCHANGED <<loads, rows, checks>>
  BY DEF Change, SymDiff, FeedInv, FeedTypes
<1>2. \A i \in DOMAIN rows : rows[i][1] \in Posts
  <2>1. rows \in Seq(Row)
    BY DEF FeedInv, FeedTypes
  <2>2. \A i \in DOMAIN rows : rows[i] \in Row
    BY <2>1, SeqFacts
  <2> QED
    BY <2>2 DEF Row
<1>3. FeedTypes' /\ LoadsSound' /\ RowsOfOneLoad'
  BY <1>1 DEF FeedInv, FeedTypes, LoadsSound, RowsOfOneLoad
<1>4. HeartsComing'
  BY <1>1, <1>2 DEF FeedInv, HeartsComing
<1> QED
  BY <1>3, <1>4 DEF FeedInv

(* The feed documents arrive. *)
LEMMA DocsAnswerStep ==
  ASSUME FeedInv, NEW l \in DOMAIN loads, DocsAnswer(l)
  PROVE  FeedInv'
<1> DEFINE o == loads[l]
           r == [o EXCEPT !.phase = "posts", !.docs = feed, !.waiting = feed]
<1>1. /\ o.phase = "asked" /\ loads' = [loads EXCEPT ![l] = r]
      /\ IF feed = {} THEN Completion(<<>>) ELSE UNCHANGED <<rows, checks>>
      /\ UNCHANGED <<feed, liked, touched>>
  BY DEF DocsAnswer
<1>2. loads \in Seq(Load) /\ feed \subseteq Posts /\ rows \in Seq(Row)
  BY DEF FeedInv, FeedTypes
<1>3. o \in Load /\ Sound(o)
  BY <1>2, SeqFacts DEF FeedInv, LoadsSound
<1> HIDE DEF o
<1>4. /\ r \in Load /\ r.phase = "posts" /\ r.docs = feed /\ r.waiting = feed
      /\ r.list = o.list /\ r.failed = o.failed
  BY <1>2, <1>3 DEF Load
<1>5. PutAt(loads, loads', l, r)
  BY <1>1 DEF PutAt
<1> HIDE DEF r
<1>6. r.list = <<>> /\ Sound(r)
  BY <1>1, <1>3, <1>4, ToSetEmpty DEF Sound
<1>7. CASE feed = {}
  <2>1. <<>> \in Seq(Posts) /\ Completion(<<>>)
    BY <1>1, <1>7
  <2>2. /\ rows' \in Seq(Row) /\ Shows(rows', <<>>)
        /\ \A i \in DOMAIN rows' : rows'[i][1] \in checks'
    BY <2>1, CompletionShows
  <2>3. loads' \in Seq(Load) /\ LoadsSound' /\ RowsOfOneLoad'
    BY <1>4, <1>5, <1>6, <2>2, OneLoadChanged
  <2> QED
    BY <1>1, <1>2, <2>2, <2>3 DEF FeedInv, FeedTypes, HeartsComing
<1>8. CASE feed # {}
  <2>1. UNCHANGED <<rows, checks>>
    BY <1>1, <1>8
  <2>2. loads' \in Seq(Load) /\ LoadsSound' /\ RowsOfOneLoad'
    BY <1>4, <1>5, <1>6, <2>1, OneLoadChanged DEF o
  <2> QED
    BY <1>1, <1>2, <2>1, <2>2 DEF FeedInv, FeedTypes, HeartsComing
<1> QED
  BY <1>7, <1>8

(* The query of the feed documents fails. *)
LEMMA DocsFailStep ==
  ASSUME FeedInv, NEW l \in DOMAIN loads, DocsFail(l)
  PROVE  FeedInv'
<1> DEFINE o == loads[l]
           r == [o EXCEPT !.phase = "posts"]
<1>1. /\ o.phase = "asked" /\ loads' = [loads EXCEPT ![l] = r]
      /\ Completion(<<>>) /\ UNCHANGED <<feed, liked, touched>>
  BY DEF DocsFail
<1>2. loads \in Seq(Load) /\ feed \subseteq Posts
  BY DEF FeedInv, FeedTypes
<1>3. o \in Load /\ Sound(o)
  BY <1>2, SeqFacts DEF FeedInv, LoadsSound
<1> HIDE DEF o
<1>4. /\ r \in Load /\ r.phase = "posts" /\ r.docs = o.docs /\ r.waiting = o.waiting
      /\ r.list = o.list /\ r.failed = o.failed
  BY <1>3 DEF Load
<1>5. PutAt(loads, loads', l, r)
  BY <1>1 DEF PutAt
<1> HIDE DEF r
<1>6. r.list = <<>> /\ Sound(r)
  BY <1>1, <1>3, <1>4 DEF Sound
<1>7. <<>> \in Seq(Posts)
  OBVIOUS
<1>8. /\ rows' \in Seq(Row) /\ Shows(rows', <<>>)
      /\ \A i \in DOMAIN rows' : rows'[i][1] \in checks'
  BY <1>1, <1>7, CompletionShows
<1>9. loads' \in Seq(Load) /\ LoadsSound' /\ RowsOfOneLoad'
  BY <1>4, <1>5, <1>6, <1>8, OneLoadChanged
<1> QED
  BY <1>1, <1>2, <1>8, <1>9 DEF FeedInv, FeedTypes, HeartsComing

(* A post of a load arrives: the whole list of the load becomes the rows. *)
LEMMA PostAnswerStep ==
  ASSUME FeedInv, NEW l \in DOMAIN loads, NEW p \in Posts, PostAnswer(l, p)
  PROVE  FeedInv'
<1> DEFINE o == loads[l]
           r == [o EXCEPT !.waiting = o.waiting \ {p}, !.list = Append(o.list, p)]
<1>1. /\ p \in o.waiting /\ loads' = [loads EXCEPT ![l] = r]
      /\ Completion(loads'[l].list) /\ UNCHANGED <<feed, liked, touched>>
  BY DEF PostAnswer
<1>2. loads \in Seq(Load) /\ feed \subseteq Posts
  BY DEF FeedInv, FeedTypes
<1>3. o \in Load /\ Sound(o)
  BY <1>2, SeqFacts DEF FeedInv, LoadsSound
<1>4. loads'[l] = r
  BY <1>1
<1>5. PutAt(loads, loads', l, r)
  BY <1>1 DEF PutAt
<1> HIDE DEF o
<1>6. o.list \in Seq(Posts) /\ o.waiting \subseteq Posts
  BY <1>3 DEF Load
<1>7. Append(o.list, p) \in Seq(Posts) /\ ToSet(Append(o.list, p)) = ToSet(o.list) \cup {p}
  BY <1>6, ToSetAppend
<1>8. /\ r \in Load /\ r.phase = o.phase /\ r.docs = o.docs
      /\ r.waiting = o.waiting \ {p} /\ r.list = Append(o.list, p) /\ r.failed = o.failed
  BY <1>3, <1>7 DEF Load
<1> HIDE DEF r
<1>9. Sound(r)
  <2>1. /\ o.waiting \subseteq o.docs \ o.failed
        /\ ToSet(o.list) = (o.docs \ o.failed) \ o.waiting
        /\ IsInjective(o.list)
        /\ o.phase = "asked" => o.docs = {}
    BY <1>3 DEF Sound
  <2>2. p \in o.docs \ o.failed /\ p \notin ToSet(o.list) /\ o.phase # "asked"
    BY <1>1, <2>1
  <2>3. IsInjective(r.list)
    BY <1>6, <1>8, <2>1, <2>2, InjectiveAppend
  <2>4. ToSet(r.list) = (r.docs \ r.failed) \ r.waiting
    BY <1>1, <1>7, <1>8, <2>1, <2>2
  <2> QED
    BY <1>8, <2>1, <2>2, <2>3, <2>4 DEF Sound
<1>10. r.list \in Seq(Posts) /\ Completion(r.list)
  BY <1>1, <1>4, <1>7, <1>8
<1>11. /\ rows' \in Seq(Row) /\ Shows(rows', r.list)
       /\ \A i \in DOMAIN rows' : rows'[i][1] \in checks'
  BY <1>10, CompletionShows
<1>12. loads' \in Seq(Load) /\ LoadsSound' /\ RowsOfOneLoad'
  BY <1>5, <1>8, <1>9, <1>11, OneLoadChanged
<1> QED
  BY <1>1, <1>2, <1>11, <1>12 DEF FeedInv, FeedTypes, HeartsComing

(* A post of a load could not be read. *)
LEMMA PostFailsStep ==
  ASSUME FeedInv, NEW l \in DOMAIN loads, NEW p \in Posts, PostFails(l, p)
  PROVE  FeedInv'
<1> DEFINE o == loads[l]
           r == [o EXCEPT !.waiting = o.waiting \ {p}, !.failed = o.failed \cup {p}]
<1>1. /\ p \in o.waiting /\ loads' = [loads EXCEPT ![l] = r]
      /\ UNCHANGED <<feed, liked, rows, checks, touched>>
  BY DEF PostFails
<1>2. loads \in Seq(Load)
  BY DEF FeedInv, FeedTypes
<1>3. o \in Load /\ Sound(o)
  BY <1>2, SeqFacts DEF FeedInv, LoadsSound
<1>4. PutAt(loads, loads', l, r)
  BY <1>1 DEF PutAt
<1> HIDE DEF o
<1>5. /\ r \in Load /\ r.phase = o.phase /\ r.docs = o.docs
      /\ r.waiting = o.waiting \ {p} /\ r.list = o.list /\ r.failed = o.failed \cup {p}
  BY <1>3 DEF Load
<1> HIDE DEF r
<1>6. Sound(r)
  BY <1>1, <1>3, <1>5 DEF Sound
<1>7. loads' \in Seq(Load) /\ LoadsSound' /\ RowsOfOneLoad'
  BY <1>1, <1>4, <1>5, <1>6, OneLoadChanged DEF o
<1> QED
  BY <1>1, <1>7 DEF FeedInv, FeedTypes, HeartsComing

(* isUserLikedPost is answered: the rows of the post are right again. *)
LEMMA CheckAnswerStep ==
  ASSUME FeedInv, NEW p \in Posts, CheckAnswer(p)
  PROVE  FeedInv'
<1> DEFINE b == p \in liked
<1>1. /\ checks \subseteq checks' \cup {p}
      /\ rows' = [i \in DOMAIN rows |-> IF rows[i][1] = p THEN <<p, b>> ELSE rows[i]]
      /\ touched' = touched \ {p}
      /\ UNCHANGED <<feed, liked, loads>>
  BY DEF CheckAnswer
<1>2. b \in BOOLEAN /\ (b <=> p \in liked)
  OBVIOUS
<1> HIDE DEF b
<1>3. rows \in Seq(Row)
  BY DEF FeedInv, FeedTypes
<1>4. /\ \A i \in DOMAIN rows : rows'[i] \in Row
      /\ \A i \in DOMAIN rows : rows'[i][1] = rows[i][1]
      /\ \A i \in DOMAIN rows : rows[i][1] = p => rows'[i] = <<p, b>>
      /\ \A i \in DOMAIN rows : rows[i][1] # p => rows'[i] = rows[i]
  <2>1. SUFFICES ASSUME NEW i \in DOMAIN rows
                 PROVE  /\ rows'[i] \in Row
                        /\ rows'[i][1] = rows[i][1]
                        /\ rows[i][1] = p => rows'[i] = <<p, b>>
                        /\ rows[i][1] # p => rows'[i] = rows[i]
    OBVIOUS
  <2>2. rows[i] \in Row
    BY <1>3, SeqFacts
  <2>3. rows'[i] = IF rows[i][1] = p THEN <<p, b>> ELSE rows[i]
    BY <1>1
  <2> QED
    BY <1>2, <2>2, <2>3 DEF Row
<1>5. rows' = [i \in DOMAIN rows |-> rows'[i]]
  BY <1>1
<1>6. rows' \in Seq(Row) /\ Len(rows') = Len(rows) /\ DOMAIN rows' = DOMAIN rows
  BY <1>3, <1>4, <1>5, Replaced
<1>7. FeedTypes' /\ LoadsSound'
  BY <1>1, <1>6 DEF FeedInv, FeedTypes, LoadsSound
<1>8. RowsOfOneLoad'
  <2>1. PICK l \in DOMAIN loads : Shows(rows, loads[l].list)
    BY DEF FeedInv, RowsOfOneLoad
  <2>2. Shows(rows', loads[l].list)
    BY <1>4, <1>6, <2>1 DEF Shows
  <2> QED
    BY <1>1, <2>1, <2>2 DEF RowsOfOneLoad
<1>9. HeartsComing'
  <2>1. SUFFICES ASSUME NEW i \in DOMAIN rows
                 PROVE  \/ rows'[i][1] \in checks'
                        \/ rows'[i][1] \in touched'
                        \/ rows'[i][2] <=> rows'[i][1] \in liked
    BY <1>1, <1>6 DEF HeartsComing
  <2>2. CASE rows[i][1] = p
    <3>1. rows'[i] = <<p, b>>
      BY <1>4, <2>2
    <3>2. rows'[i][1] = p /\ rows'[i][2] = b
      BY <3>1
    <3> QED
      BY <1>2, <3>2
  <2>3. CASE rows[i][1] # p
    BY <1>1, <1>4, <2>3 DEF FeedInv, HeartsComing
  <2> QED
    BY <2>2, <2>3
<1> QED
  BY <1>7, <1>8, <1>9 DEF FeedInv

(* isUserLikedPost fails, which touched remembers. *)
LEMMA CheckFailsStep ==
  ASSUME FeedInv, NEW p \in Posts, CheckFails(p)
  PROVE  FeedInv'
<1>1. /\ checks \subseteq checks' \cup {p} /\ touched' = touched \cup {p}
      /\ UNCHANGED <<feed, liked, loads, rows>>
  BY DEF CheckFails
<1>2. FeedTypes' /\ LoadsSound' /\ RowsOfOneLoad'
  BY <1>1 DEF FeedInv, FeedTypes, LoadsSound, RowsOfOneLoad
<1>3. HeartsComing'
  BY <1>1 DEF FeedInv, HeartsComing
<1> QED
  BY <1>2, <1>3 DEF FeedInv

(* The feed invariant holds after every step, of the feed or of an upload. *)
LEMMA FeedInvStep ==
  ASSUME FeedInv, [Next]_vars
  PROVE  FeedInv'
<1>1. CASE Pull
  BY <1>1, FetchPostsStep DEF Pull
<1>2. CASE \E p \in Posts : Change(p) \/ CheckAnswer(p) \/ CheckFails(p)
  BY <1>2, ChangeStep, CheckAnswerStep, CheckFailsStep
<1>3. CASE \E l \in DOMAIN loads : DocsAnswer(l) \/ DocsFail(l)
  BY <1>3, DocsAnswerStep, DocsFailStep
<1>4. CASE \E l \in DOMAIN loads : \E p \in Posts : PostAnswer(l, p) \/ PostFails(l, p)
  BY <1>4, PostAnswerStep, PostFailsStep
<1>5. CASE \E i \in 1 .. MaxTaps : Finish(i)
  BY <1>5, FetchPostsStep DEF Finish
<1>6. CASE UNCHANGED <<feed, liked, loads, rows, checks, touched>>
  BY <1>6 DEF FeedInv, FeedTypes, LoadsSound, RowsOfOneLoad, HeartsComing
<1>7. CASE FeedNext
  BY <1>1, <1>2, <1>3, <1>4, <1>7 DEF FeedNext
<1>8. CASE UploadNext
  BY <1>5, <1>6, <1>8 DEF UploadNext, Open, Share, Cancel, Uploaded, Commit, Fail, feedVars
<1>9. CASE UNCHANGED vars
  BY <1>6, <1>9 DEF vars, feedVars
<1> QED
  BY <1>7, <1>8, <1>9 DEF Next

----------------------------------------------------------------------------
(* A call of postAnImage goes on. *)
LEMMA Advanced ==
  ASSUME PostInv, NEW i, NEW from \in Phases, NEW to \in Phases, Advance(i, from, to)
  PROVE  /\ chains' \in Seq(Chain)
         /\ DOMAIN chains' = DOMAIN chains
         /\ i \in DOMAIN chains /\ chains[i].phase = from /\ chains'[i].phase = to
         /\ \A j \in DOMAIN chains : chains'[j].screen = chains[j].screen
         /\ \A j \in DOMAIN chains : j # i => chains'[j].phase = chains[j].phase
<1> DEFINE o == chains[i]
           c == [o EXCEPT !.phase = to]
<1>1. i \in DOMAIN chains /\ o.phase = from /\ chains' = [chains EXCEPT ![i] = c]
  BY DEF Advance
<1>2. chains \in Seq(Chain)
  BY DEF PostInv, PostTypes
<1>3. o \in Chain
  BY <1>1, <1>2, SeqFacts
<1>4. PutAt(chains, chains', i, c)
  BY <1>1 DEF PutAt
<1> HIDE DEF o
<1>5. c \in Chain /\ c.phase = to /\ c.screen = o.screen
  BY <1>3 DEF Chain
<1> HIDE DEF c
<1>6. /\ chains' \in Seq(Chain)
      /\ DOMAIN chains' = DOMAIN chains
      /\ chains'[i] = c
      /\ \A j \in DOMAIN chains : j # i => chains'[j] = chains[j]
  BY <1>1, <1>2, <1>4, <1>5, PutAtIs
<1> QED
  BY <1>1, <1>5, <1>6 DEF o

(* A picked image opens a new screen, which nobody has shared. *)
LEMMA OpenStep ==
  ASSUME PostInv, Open
  PROVE  PostInv'
<1>1. /\ screen = 0 /\ screens' = screens + 1 /\ screen' = screens + 1
      /\ UNCHANGED <<chains, published, cancelled, hasty>>
  BY DEF Open
<1>2. screens \in Nat /\ \A i \in DOMAIN chains : chains[i].screen \in 1 .. screens
  BY DEF PostInv, PostTypes
<1>3. PostTypes'
  BY <1>1, <1>2 DEF PostInv, PostTypes
<1>4. \A i \in DOMAIN chains : chains[i].screen # screen'
  BY <1>1, <1>2
<1>5. PublishedInOrder' /\ SharedAgainAfterFailure'
  BY <1>1, <1>4 DEF PostInv, PublishedInOrder, SharedAgainAfterFailure
<1>6. GoneForAReason'
  <2>1. \A s \in 1 .. screens' : s = screen' \/ (s \in 1 .. screens /\ s # screen)
    BY <1>1, <1>2
  <2> QED
    BY <1>1, <2>1 DEF PostInv, GoneForAReason
<1> QED
  BY <1>3, <1>5, <1>6 DEF PostInv

(* A tap on Share: while another share of the screen runs, hasty says so. *)
LEMMA ShareStep ==
  ASSUME PostInv, Share
  PROVE  PostInv'
<1> DEFINE c == [screen |-> screen, phase |-> "upload"]
           n == Len(chains) + 1
<1>1. /\ screen # 0 /\ chains' = Append(chains, c)
      /\ hasty' = (IF \E i \in DOMAIN chains : chains[i].screen = screen
                                               /\ chains[i].phase # "over"
                     THEN hasty \cup {screen} ELSE hasty)
      /\ UNCHANGED <<screen, screens, published, cancelled>>
  BY DEF Share
<1>2. /\ chains \in Seq(Chain) /\ screens \in Nat /\ screen \in 0 .. screens
      /\ published \subseteq DOMAIN chains
      /\ \A i \in DOMAIN chains : chains[i].screen \in 1 .. screens
  BY DEF PostInv, PostTypes
<1>3. c \in Chain /\ c.screen = screen /\ c.phase = "upload" /\ screen \in 1 .. screens
  BY <1>1, <1>2 DEF Chain, Phases
<1> HIDE DEF c
<1>4. /\ chains' \in Seq(Chain)
      /\ n \notin DOMAIN chains
      /\ DOMAIN chains' = DOMAIN chains \cup {n}
      /\ \A i \in DOMAIN chains : chains'[i] = chains[i]
      /\ chains'[n] = c
  BY <1>1, <1>2, <1>3, Appended
<1>5. \A i \in DOMAIN chains : ~(n < i) /\ i \in Nat
  BY <1>2
<1>6. ~(n < n)
  BY <1>2
<1> HIDE DEF n
<1>7. PostTypes'
  BY <1>1, <1>2, <1>3, <1>4 DEF PostTypes
<1>8. PublishedInOrder'
  BY <1>1, <1>2, <1>3, <1>4 DEF PostInv, PublishedInOrder
<1>9. SharedAgainAfterFailure'
  <2>1. SUFFICES ASSUME NEW i \in DOMAIN chains', NEW j \in DOMAIN chains', i < j,
                        chains'[i].screen = chains'[j].screen,
                        chains'[i].screen \notin hasty'
                 PROVE  chains'[i].phase = "over" /\ i \notin published
    BY <1>1 DEF SharedAgainAfterFailure
  <2>2. i \in DOMAIN chains /\ chains'[i] = chains[i] /\ chains[i].screen \notin hasty
    BY <1>1, <1>4, <1>5, <1>6, <2>1
  <2>3. CASE j \in DOMAIN chains
    BY <1>4, <2>1, <2>2, <2>3 DEF PostInv, SharedAgainAfterFailure
  <2>4. CASE j = n
    <3>1. chains[i].screen = screen
      BY <1>3, <1>4, <2>1, <2>2, <2>4
    <3>2. chains[i].phase = "over"
      BY <1>1, <2>1, <2>2, <3>1
    <3> QED
      BY <2>2, <3>1, <3>2 DEF PostInv, PublishedInOrder
  <2> QED
    BY <1>4, <2>1, <2>3, <2>4
<1>10. GoneForAReason'
  BY <1>1, <1>2, <1>4 DEF PostInv, GoneForAReason
<1> QED
  BY <1>7, <1>8, <1>9, <1>10 DEF PostInv

(* Cancel closes the screen, and what was shared goes on. *)
LEMMA CancelStep ==
  ASSUME PostInv, Cancel
  PROVE  PostInv'
<1>1. /\ screen' = 0 /\ cancelled' = cancelled \cup {screen}
      /\ UNCHANGED <<screens, chains, published, hasty>>
  BY DEF Cancel
<1>2. PostTypes'
  BY <1>1 DEF PostInv, PostTypes
<1>3. \A i \in DOMAIN chains : chains[i].screen # screen'
  BY <1>1 DEF PostInv, PostTypes
<1>4. PublishedInOrder' /\ SharedAgainAfterFailure' /\ GoneForAReason'
  BY <1>1, <1>3 DEF PostInv, PublishedInOrder, SharedAgainAfterFailure, GoneForAReason
<1> QED
  BY <1>2, <1>4 DEF PostInv

(* The image is uploaded, or the upload or the write of the document fails. *)
LEMMA UnpublishedStep ==
  ASSUME PostInv, NEW i, NEW from \in {"upload", "doc"}, NEW to \in {"doc", "over"},
         Advance(i, from, to), UNCHANGED <<screen, screens, published, cancelled, hasty>>
  PROVE  PostInv'
<1>1. from \in Phases /\ to \in Phases
  BY DEF Phases
<1>2. /\ chains' \in Seq(Chain)
      /\ DOMAIN chains' = DOMAIN chains
      /\ i \in DOMAIN chains /\ chains[i].phase = from /\ chains'[i].phase = to
      /\ \A j \in DOMAIN chains : chains'[j].screen = chains[j].screen
      /\ \A j \in DOMAIN chains : j # i => chains'[j].phase = chains[j].phase
  BY <1>1, Advanced
<1>3. i \notin published
  BY <1>2 DEF PostInv, PublishedInOrder
<1>4. PostTypes'
  BY <1>2 DEF PostInv, PostTypes
<1>5. PublishedInOrder'
  BY <1>2, <1>3 DEF PostInv, PublishedInOrder
<1>6. SharedAgainAfterFailure'
  <2>1. chains[i].phase # "over"
    BY <1>2
  <2> QED
    BY <1>2, <1>3, <2>1 DEF PostInv, SharedAgainAfterFailure
<1>7. GoneForAReason'
  BY <1>2 DEF PostInv, PostTypes, GoneForAReason
<1> QED
  BY <1>4, <1>5, <1>6, <1>7 DEF PostInv

(* The backend takes the document. *)
LEMMA CommitStep ==
  ASSUME PostInv, NEW i, Commit(i)
  PROVE  PostInv'
<1>1. /\ Advance(i, "doc", "done") /\ published' = published \cup {i}
      /\ UNCHANGED <<screen, screens, cancelled, hasty>>
  BY DEF Commit
<1>2. "doc" \in Phases /\ "done" \in Phases
  BY DEF Phases
<1>3. /\ chains' \in Seq(Chain)
      /\ DOMAIN chains' = DOMAIN chains
      /\ i \in DOMAIN chains /\ chains[i].phase = "doc" /\ chains'[i].phase = "done"
      /\ \A j \in DOMAIN chains : chains'[j].screen = chains[j].screen
      /\ \A j \in DOMAIN chains : j # i => chains'[j].phase = chains[j].phase
  BY <1>1, <1>2, Advanced
<1>4. PostTypes'
  BY <1>1, <1>3 DEF PostInv, PostTypes
<1>5. PublishedInOrder'
  BY <1>1, <1>3 DEF PostInv, PublishedInOrder
<1>6. SharedAgainAfterFailure'
  BY <1>1, <1>3 DEF PostInv, SharedAgainAfterFailure
<1>7. GoneForAReason'
  BY <1>1, <1>3 DEF PostInv, PostTypes, GoneForAReason
<1> QED
  BY <1>4, <1>5, <1>6, <1>7 DEF PostInv

(* didFinishUploadPost: the screen goes, and its post is there. *)
LEMMA FinishStep ==
  ASSUME PostInv, NEW i, Finish(i)
  PROVE  PostInv'
<1>1. /\ Advance(i, "done", "over")
      /\ screen' = (IF screen = chains[i].screen THEN 0 ELSE screen)
      /\ UNCHANGED <<screens, published, cancelled, hasty>>
  BY DEF Finish
<1>2. "over" \in Phases /\ "done" \in Phases
  BY DEF Phases
<1>3. /\ chains' \in Seq(Chain)
      /\ DOMAIN chains' = DOMAIN chains
      /\ i \in DOMAIN chains /\ chains[i].phase = "done" /\ chains'[i].phase = "over"
      /\ \A j \in DOMAIN chains : chains'[j].screen = chains[j].screen
      /\ \A j \in DOMAIN chains : j # i => chains'[j].phase = chains[j].phase
  BY <1>1, <1>2, Advanced
<1>4. i \in published
  BY <1>3 DEF PostInv, PublishedInOrder
<1>5. screens \in Nat /\ \A j \in DOMAIN chains : chains[j].screen \in 1 .. screens
  BY DEF PostInv, PostTypes
<1>6. PostTypes'
  BY <1>1, <1>3 DEF PostInv, PostTypes
<1>7. PublishedInOrder'
  <2>1. chains'[i].screen # screen'
    BY <1>1, <1>3, <1>5
  <2>2. \A j \in DOMAIN chains : chains[j].screen # screen => chains[j].screen # screen'
    BY <1>1, <1>5
  <2> QED
    BY <1>1, <1>3, <1>4, <2>1, <2>2 DEF PostInv, PublishedInOrder
<1>8. SharedAgainAfterFailure'
  <2>1. chains[i].phase # "over"
    BY <1>3
  <2> QED
    BY <1>1, <1>3, <2>1 DEF PostInv, SharedAgainAfterFailure
<1>9. GoneForAReason'
  <2>1. \A s \in 1 .. screens : s # screen' => s # screen \/ s = chains[i].screen
    BY <1>1
  <2> QED
    BY <1>1, <1>3, <1>4, <2>1 DEF PostInv, PostTypes, GoneForAReason
<1> QED
  BY <1>6, <1>7, <1>8, <1>9 DEF PostInv

(* The upload invariant holds after every step, of an upload or of the feed. *)
LEMMA PostInvStep ==
  ASSUME PostInv, [Next]_vars
  PROVE  PostInv'
<1>1. CASE Open \/ Share \/ Cancel
  BY <1>1, OpenStep, ShareStep, CancelStep
<1>2. CASE \E i \in 1 .. MaxTaps : Uploaded(i) \/ Fail(i)
  <2>1. PICK i \in 1 .. MaxTaps : Uploaded(i) \/ Fail(i)
    BY <1>2
  <2>2. /\ \/ Advance(i, "upload", "doc")
           \/ Advance(i, "upload", "over")
           \/ Advance(i, "doc", "over")
        /\ UNCHANGED <<screen, screens, published, cancelled, hasty>>
    BY <2>1 DEF Uploaded, Fail
  <2> QED
    BY <2>2, UnpublishedStep
<1>3. CASE \E i \in 1 .. MaxTaps : Commit(i) \/ Finish(i)
  BY <1>3, CommitStep, FinishStep
<1>4. CASE UNCHANGED uploadVars
  BY <1>4 DEF uploadVars, PostInv, PostTypes, PublishedInOrder, SharedAgainAfterFailure,
              GoneForAReason
<1>5. CASE UploadNext
  BY <1>1, <1>2, <1>3, <1>5 DEF UploadNext
<1>6. CASE UNCHANGED vars
  BY <1>4, <1>6 DEF vars
<1> QED
  BY <1>4, <1>5, <1>6 DEF Next

(* UploadInv holds in every reachable state. *)
LEMMA UploadInvAlways == Spec => []UploadInv
<1>1. UploadInv /\ [Next]_vars => UploadInv'
  BY FeedInvStep, PostInvStep DEF UploadInv
<1> QED
  BY <1>1, InitUpload, PTL DEF Spec

----------------------------------------------------------------------------
(* When all loads are done, the rows are the posts that one load saw, each   *)
(* once and without those that could not be read: loads that overlap replace *)
(* each other's rows and never mix.                                          *)
THEOREM RowsCorrect == Spec => []RowsWhole
<1>1. UploadInv => RowsWhole
  <2>1. SUFFICES ASSUME UploadInv, Loaded
                 PROVE  \E l \in DOMAIN loads :
                          LET seen == loads[l].docs \ loads[l].failed
                          IN  /\ {rows[i][1] : i \in DOMAIN rows} = seen
                              /\ Len(rows) = Cardinality(seen)
    BY DEF RowsWhole
  <2>2. PICK l \in DOMAIN loads : Shows(rows, loads[l].list)
    BY <2>1 DEF UploadInv, FeedInv, RowsOfOneLoad
  <2> DEFINE r == loads[l]
  <2>3. r.waiting = {} /\ Sound(r) /\ Shows(rows, r.list)
    BY <2>1, <2>2 DEF Loaded, UploadInv, FeedInv, LoadsSound
  <2>4. loads \in Seq(Load) /\ rows \in Seq(Row)
    BY <2>1 DEF UploadInv, FeedInv, FeedTypes
  <2>5. r \in Load
    BY <2>2, <2>4, SeqFacts
  <2> HIDE DEF r
  <2> DEFINE list == r.list
  <2>6. list \in Seq(Posts)
    BY <2>5 DEF Load
  <2>7. ToSet(list) = r.docs \ r.failed /\ IsInjective(list)
    BY <2>3 DEF Sound
  <2>8. Len(rows) = Len(list) /\ \A i \in DOMAIN rows : rows[i][1] = list[i]
    BY <2>3 DEF Shows
  <2> HIDE DEF list
  <2>9. Cardinality(ToSet(list)) = Len(list)
    BY <2>6, <2>7, InjectiveCount
  <2>10. DOMAIN rows = DOMAIN list
    BY <2>4, <2>6, <2>8, SeqFacts
  <2>11. {rows[i][1] : i \in DOMAIN rows} = ToSet(list)
    BY <2>8, <2>10 DEF ToSet
  <2> QED
    BY <2>2, <2>7, <2>8, <2>9, <2>11 DEF r
<1> QED
  BY <1>1, UploadInvAlways, PTL

(* When nothing is asked for any more, a row shows a heart exactly for a     *)
(* post that is liked, unless it was liked or unliked since it was checked,  *)
(* or could not be checked.                                                  *)
THEOREM HeartsCorrect == Spec => []HeartsTruthful
<1>1. UploadInv => HeartsTruthful
  BY DEF UploadInv, FeedInv, HeartsComing, HeartsTruthful
<1> QED
  BY <1>1, UploadInvAlways, PTL

(* A screen that went away without Cancel has published its post, and one    *)
(* that was shared again only after a failure has not published it twice.    *)
THEOREM PublishedCorrect == Spec => []PublishedOnce
<1>1. UploadInv => PublishedOnce
  <2>1. SUFFICES ASSUME UploadInv, NEW s \in 1 .. screens
                 PROVE  LET out == {i \in published : chains[i].screen = s}
                        IN  /\ s # screen /\ s \notin cancelled => out # {}
                            /\ s \notin hasty => Cardinality(out) <= 1
    BY DEF PublishedOnce
  <2> DEFINE out == {i \in published : chains[i].screen = s}
  <2>2. s # screen /\ s \notin cancelled => out # {}
    BY <2>1 DEF UploadInv, PostInv, GoneForAReason
  <2>3. ASSUME s \notin hasty PROVE Cardinality(out) <= 1
    <3>1. chains \in Seq(Chain) /\ published \subseteq DOMAIN chains
      BY <2>1 DEF UploadInv, PostInv, PostTypes
    <3>2. DOMAIN chains \subseteq Nat
      BY <3>1
    <3>3. \A i, j \in out : ~(i < j)
      BY <2>1, <2>3, <3>1 DEF UploadInv, PostInv, SharedAgainAfterFailure
    <3>4. out \subseteq Nat
      BY <3>1, <3>2
    <3> HIDE DEF out
    <3>5. \A i, j \in out : i = j
      BY <3>3, <3>4
    <3>6. CASE out = {}
      <4>1. Cardinality(out) = 0
        BY <3>6, FS_EmptySet
      <4> QED
        BY <4>1
    <3>7. CASE out # {}
      <4>1. PICK i \in out : TRUE
        BY <3>7
      <4>2. out = {i}
        BY <3>5, <4>1
      <4>3. Cardinality(out) = 1
        BY <4>2, FS_Singleton
      <4> QED
        BY <4>3
    <3> QED
      BY <3>6, <3>7
  <2> QED
    BY <2>2, <2>3
<1> QED
  BY <1>1, UploadInvAlways, PTL

----------------------------------------------------------------------------
(***************************************************************************)
(* Editing the profile (module ProfileEdit), whose chains rewrite the      *)
(* posts of the user.                                                      *)
(***************************************************************************)

(* Users, writes, completions, edit screens and uploads, with any number for *)
(* an image or a screen.                                                     *)
Account == [name : Names, image : Nat]
DocLetter == [kind : {"save", "saveFirst", "image"}, user : Account, editor : Nat]
PostLetter == [kind : {"copy", "post"}, post : OwnPosts, image : Nat, editor : {0}]
Letter == DocLetter \cup PostLetter
Notice == [kind : {"save", "saveFirst", "image"}, user : Account, editor : Nat, failed : BOOLEAN]
Sheet == [open : BOOLEAN, picking : BOOLEAN, user : Account, infoChanged : BOOLEAN,
          picked : BOOLEAN]
Task == [image : Nat, editor : Nat, phase : {"put", "url"}]

(* The writes that store the image i; the writes with a completion and the   *)
(* completions, of a change of the image, of a change of the names, of both; *)
(* those about the image i; the writes to a post, those that add it.         *)
Storing(i) == {x \in DocLetter : x.user.image = i}
ImageWrites == {x \in DocLetter : x.kind = "image" /\ x.editor # 0}
SaveWrites == {x \in DocLetter : x.kind = "save" /\ x.editor # 0}
ImageDone == {x \in Notice : x.kind = "image" /\ ~x.failed}
SaveDone == {x \in Notice : x.kind = "save"}
Told(i) == {x \in ImageDone : x.user.image = i}
Early == {x \in DocLetter \cup Notice : x.kind = "saveFirst" /\ x.editor # 0}
Tells(i) == {x \in DocLetter \cup Notice : x.kind = "image" /\ x.editor # 0 /\ x.user.image = i}
OfPost(p) == {x \in PostLetter : x.post = p}
Copying(p, i) == {x \in PostLetter : x.post = p /\ x.image = i}
Adding(p) == {x \in PostLetter : x.kind = "post" /\ x.post = p}

EditTypes ==
  /\ doc \in Account /\ profile \in Account /\ tab \in Account
  /\ IsFiniteSet(DOMAIN copies) /\ DOMAIN copies \subseteq OwnPosts
  /\ outbox \in Seq(Letter) /\ handlers \in Seq(Notice) /\ queries \in Seq(Nat)
  /\ editors \in Seq(Sheet) /\ uploads \subseteq Task /\ made \in Nat

(* What is on its way belongs to a screen that was opened. *)
EditorsKnown ==
  /\ \A x \in ToSet(outbox) : x.editor = 0 \/ x.editor \in DOMAIN editors
  /\ \A x \in ToSet(handlers) : x.editor \in DOMAIN editors
  /\ \A t \in uploads : t.editor \in DOMAIN editors

(* No image is known that was not made. *)
Numbered ==
  /\ doc.image <= made /\ profile.image <= made
  /\ \A x \in ToSet(outbox) : x \in DocLetter => x.user.image <= made
  /\ \A e \in DOMAIN editors : editors[e].user.image <= made
  /\ \A i \in deleting : i \in Nat /\ i <= made

(* The image i is being uploaded; its URL is on its way; nobody knows it. *)
Uploading(i) == \E t \in uploads : t.image = i
Underway(i) == Has(outbox, Tells(i)) \/ Has(handlers, Tells(i))
Secret(i) ==
  /\ profile.image # i /\ i \notin deleting /\ i <= made
  /\ \A e \in DOMAIN editors : editors[e].user.image # i

(* An image is uploaded once and its URL told once, and until then it is a   *)
(* secret: nobody can have it deleted.                                       *)
OnceOnly(i) ==
  /\ \A s, t \in uploads : s.image = i /\ t.image = i => s = t
  /\ Uploading(i) => ~Underway(i)
  /\ LoneIn(outbox, handlers, Tells(i))
  /\ Uploading(i) \/ Underway(i) => Secret(i)

UrlsStored == \A t \in uploads : t.phase = "url" => t.image \in stored

EditSound ==
  /\ EditTypes /\ EditorsKnown /\ Numbered /\ UrlsStored
  /\ \A i \in Nat : OnceOnly(i)

(* A new image is still to be stored. *)
Changing == uploads # {} \/ Has(outbox, Early) \/ Has(handlers, Early)

(* The client sees the post p.  The User document will have the image i, and *)
(* so will the post p.                                                       *)
Present(p) == p \in DOMAIN copies \/ Has(outbox, Adding(p))
ImageIs(i) == IF Has(outbox, DocLetter) THEN LastIn(outbox, DocLetter, Storing(i))
                                        ELSE doc.image = i
CopyIs(p, i) == IF Has(outbox, OfPost(p)) THEN LastIn(outbox, OfPost(p), Copying(p, i))
                                          ELSE copies[p] = i

(* The image i exists; the last write that tells the profile something tells *)
(* it i; or else the last completion does; or else the profile has it, the   *)
(* posts will be given it by the last query, or else have it.                *)
Alive(i) == i = 0 \/ (i \in stored /\ i \notin deleting)
Sent(i) == Has(outbox, ImageWrites) =>
             LastIn(outbox, ImageWrites \cup SaveWrites, ImageWrites \cap Storing(i))
Answered(i) ==
  ~Has(outbox, ImageWrites) /\ Has(handlers, ImageDone) =>
    ~Has(outbox, SaveWrites) /\ LastIn(handlers, ImageDone \cup SaveDone, Told(i))
Handed == ~Has(outbox, ImageWrites) /\ ~Has(handlers, ImageDone)
Shown(i) ==
  Handed =>
    /\ profile.image = i
    /\ \A x \in ToSet(outbox) : x \in SaveWrites => editors[x.editor].user.image = i
    /\ \A x \in ToSet(handlers) : x \in SaveDone => editors[x.editor].user.image = i
Copied(i) ==
  Handed => IF Has(queries, Nat) THEN LastIn(queries, Nat, {i})
                                 ELSE \A p : Present(p) => CopyIs(p, i) \/ p \in late

Settled(i) == Alive(i) /\ Sent(i) /\ Answered(i) /\ Shown(i) /\ Copied(i)

(* The inductive invariant behind ImageAlive, CopiesFollow and               *)
(* ProfileShowsImage.                                                        *)
EditTruthful == ~disturbed /\ ~Changing => \A i \in Nat : ImageIs(i) => Settled(i)

EditInv == EditSound /\ EditTruthful

(* The kinds of writes and completions. *)
LEMMA LetterKinds ==
  /\ \A x \in Letter : x.kind \in {"save", "saveFirst", "image"} <=> x \in DocLetter
  /\ \A x \in Letter : x.kind \in {"copy", "post"} <=> x \in PostLetter
  /\ \A x \in DocLetter : x \notin PostLetter
  /\ \A x \in PostLetter : x \notin DocLetter /\ x.editor = 0
  /\ \A x \in Notice : x \notin DocLetter /\ x \notin PostLetter
BY DEF Letter, DocLetter, PostLetter, Notice

(* What the client reads of the image is what the pipeline makes of it. *)
LEMMA LocalImageIs ==
  ASSUME EditTypes
  PROVE  /\ LocalImage \in Nat
         /\ ImageIs(LocalImage)
         /\ \A i \in Nat : ImageIs(i) => i = LocalImage
<1> DEFINE images == {j \in DOMAIN outbox : outbox[j].kind \in {"save", "saveFirst", "image"}}
           k == Max(images)
<1>1. outbox \in Seq(Letter) /\ doc \in Account
  BY DEF EditTypes
<1>2. \A j \in DOMAIN outbox : outbox[j] \in Letter /\ j \in Nat
  BY <1>1
<1>3. \A j \in DOMAIN outbox : j \in images <=> outbox[j] \in DocLetter
  BY <1>2, LetterKinds
<1>4. LocalImage = IF images = {} THEN doc.image ELSE outbox[k].user.image
  BY DEF LocalImage, Pending, Max
<1>5. images \in SUBSET DOMAIN outbox
  OBVIOUS
<1> HIDE DEF images, k
<1>6. CASE images = {}
  <2>1. ~Has(outbox, DocLetter)
    BY <1>3, <1>6 DEF Has
  <2> QED
    BY <1>1, <1>4, <1>6, <2>1 DEF ImageIs, Account
<1>7. CASE images # {}
  <2>1. k \in images /\ \A j \in images : j <= k
    BY <1>1, <1>5, <1>7, LastPosition DEF k
  <2>2. k \in DOMAIN outbox /\ outbox[k] \in DocLetter
    BY <1>3, <1>5, <2>1
  <2>3. \A j \in DOMAIN outbox : j > k => outbox[j] \notin DocLetter
    BY <1>2, <1>3, <2>1, <2>2
  <2>4. \A i \in DOMAIN outbox :
          /\ outbox[i] \in DocLetter
          /\ \A j \in DOMAIN outbox : j > i => outbox[j] \notin DocLetter
          => i = k
    <3>1. SUFFICES ASSUME NEW i \in DOMAIN outbox, outbox[i] \in DocLetter,
                          \A j \in DOMAIN outbox : j > i => outbox[j] \notin DocLetter
                   PROVE  i = k
      OBVIOUS
    <3>2. ~(k > i) /\ i <= k
      BY <1>3, <2>1, <2>2, <3>1
    <3> QED
      BY <1>2, <2>2, <3>2
  <2>5. \A i : LastIn(outbox, DocLetter, Storing(i)) <=> outbox[k] \in Storing(i)
    BY <2>2, <2>3, <2>4 DEF LastIn
  <2>6. Has(outbox, DocLetter)
    BY <2>2 DEF Has
  <2>7. outbox[k].user.image \in Nat /\ \A i : outbox[k] \in Storing(i) <=> outbox[k].user.image = i
    BY <2>2 DEF Storing, DocLetter, Account
  <2> QED
    BY <1>4, <1>7, <2>5, <2>6, <2>7 DEF ImageIs
<1> QED
  BY <1>6, <1>7

(* The posts the client reads. *)
LEMMA LocalPostsAre ==
  ASSUME EditTypes
  PROVE  /\ \A p : p \in LocalPosts <=> Present(p)
         /\ IsFiniteSet(LocalPosts) /\ LocalPosts \subseteq OwnPosts
<1> DEFINE pending == {j \in DOMAIN outbox : outbox[j].kind \in {"post"}}
           posts == {outbox[j].post : j \in pending}
<1>1. outbox \in Seq(Letter) /\ IsFiniteSet(DOMAIN copies) /\ DOMAIN copies \subseteq OwnPosts
  BY DEF EditTypes
<1>2. \A j \in DOMAIN outbox : outbox[j] \in Letter
  BY <1>1
<1>3. \A j \in DOMAIN outbox : j \in pending <=> outbox[j] \in Adding(outbox[j].post)
  BY <1>2, LetterKinds DEF Adding
<1>4. LocalPosts = DOMAIN copies \cup posts
  BY DEF LocalPosts, Pending
<1>5. \A p : p \in posts <=> Has(outbox, Adding(p))
  <2>1. \A j \in DOMAIN outbox : \A p : outbox[j] \in Adding(p) => outbox[j].post = p
    BY DEF Adding
  <2> QED
    BY <1>3, <2>1 DEF Has
<1>6. IsFiniteSet(posts)
  <2>1. Len(outbox) \in Nat /\ DOMAIN outbox = 1 .. Len(outbox)
    BY <1>1
  <2>2. IsFiniteSet(DOMAIN outbox)
    BY <2>1, FS_Interval
  <2>3. IsFiniteSet(pending)
    BY <2>2, FS_Subset
  <2>4. PICK f : f = [j \in pending |-> outbox[j].post]
    OBVIOUS
  <2>5. f \in Surjection(pending, posts)
    BY <2>4 DEF Surjection
  <2> QED
    BY <2>3, <2>5, FS_Surjection
<1>7. posts \subseteq OwnPosts
  BY <1>2, <1>3 DEF Adding, PostLetter
<1> HIDE DEF posts
<1>8. IsFiniteSet(DOMAIN copies \cup posts)
  BY <1>1, <1>6, FS_Union
<1> QED
  BY <1>1, <1>4, <1>5, <1>7, <1>8 DEF Present

----------------------------------------------------------------------------
(* The URL of i comes up nowhere it was not, and is told once. *)
UrlKept(i) == (Underway(i)' => Underway(i)) /\ LoneIn(outbox', handlers', Tells(i))

(* What keeps the secret keeps the whole. *)
LEMMA OnceKept ==
  ASSUME NEW i, OnceOnly(i), uploads' \subseteq uploads, UrlKept(i), Secret(i) => Secret(i)'
  PROVE  OnceOnly(i)'
<1>1. Uploading(i)' => Uploading(i)
  BY DEF Uploading
<1>2. (Underway(i)' => Underway(i)) /\ LoneIn(outbox', handlers', Tells(i))
  BY DEF UrlKept
<1>3. (\A s, t \in uploads' : s.image = i /\ t.image = i => s = t)
  BY DEF OnceOnly
<1> QED
  BY <1>1, <1>2, <1>3 DEF OnceOnly

(* The queues are the same. *)
LEMMA UrlSame ==
  ASSUME NEW i, OnceOnly(i), outbox' = outbox, handlers' = handlers
  PROVE  UrlKept(i)
BY DEF UrlKept, Underway, OnceOnly

(* A write of something else joins the pipeline. *)
LEMMA UrlGained ==
  ASSUME EditTypes, NEW i, OnceOnly(i), NEW x \in Letter, x \notin Tells(i),
         Gained(outbox, outbox', x), handlers' = handlers
  PROVE  UrlKept(i)
<1>1. outbox \in Seq(Letter)
  BY DEF EditTypes
<1>2. Has(outbox', Tells(i)) <=> Has(outbox, Tells(i)) \/ x \in Tells(i)
  BY <1>1, GainedFacts
<1>3. Single(outbox, Tells(i)) /\ Single(handlers, Tells(i))
      /\ ~(Has(outbox, Tells(i)) /\ Has(handlers, Tells(i)))
  BY DEF OnceOnly, LoneIn
<1>4. Single(outbox', Tells(i))
  BY <1>1, <1>3, LoneGained
<1> QED
  BY <1>2, <1>3, <1>4 DEF UrlKept, Underway, LoneIn

(* A completion is handled. *)
LEMMA UrlHandled ==
  ASSUME EditTypes, NEW i, OnceOnly(i), NEW h, Lost(handlers, handlers', h), outbox' = outbox
  PROVE  UrlKept(i) /\ (h \in Tells(i) => ~Underway(i)')
<1>1. handlers \in Seq(Notice)
  BY DEF EditTypes
<1>2. Has(handlers, Tells(i)) <=> Has(handlers', Tells(i)) \/ h \in Tells(i)
  BY <1>1, LostFacts
<1>3. Single(outbox, Tells(i)) /\ Single(handlers, Tells(i))
      /\ ~(Has(outbox, Tells(i)) /\ Has(handlers, Tells(i)))
  BY DEF OnceOnly, LoneIn
<1>4. Single(handlers', Tells(i)) /\ (h \in Tells(i) => ~Has(handlers', Tells(i)))
  BY <1>1, <1>3, LoneLost
<1> QED
  BY <1>2, <1>3, <1>4 DEF UrlKept, Underway, LoneIn

(* A write without a completion leaves the pipeline. *)
LEMMA UrlLost ==
  ASSUME EditTypes, NEW i, OnceOnly(i), NEW w, Lost(outbox, outbox', w), w \notin Tells(i),
         handlers' = handlers
  PROVE  UrlKept(i)
<1>1. outbox \in Seq(Letter)
  BY DEF EditTypes
<1>2. Has(outbox, Tells(i)) <=> Has(outbox', Tells(i)) \/ w \in Tells(i)
  BY <1>1, LostFacts
<1>3. Single(outbox, Tells(i)) /\ Single(handlers, Tells(i))
      /\ ~(Has(outbox, Tells(i)) /\ Has(handlers, Tells(i)))
  BY DEF OnceOnly, LoneIn
<1>4. Single(outbox', Tells(i))
  BY <1>1, <1>3, LoneLost
<1> QED
  BY <1>2, <1>3, <1>4 DEF UrlKept, Underway, LoneIn

(* A write leaves the pipeline and its completion is queued. *)
LEMMA UrlMoved ==
  ASSUME EditTypes, NEW i, OnceOnly(i), NEW w, Lost(outbox, outbox', w),
         NEW h \in Notice, Gained(handlers, handlers', h), w \in Tells(i) <=> h \in Tells(i)
  PROVE  UrlKept(i)
<1>1. outbox \in Seq(Letter) /\ handlers \in Seq(Notice)
  BY DEF EditTypes
<1>2. PICK X : X = Tells(i)
  OBVIOUS
<1>3. LoneIn(outbox, handlers, X) /\ (w \in X <=> h \in X)
  BY <1>2 DEF OnceOnly
<1>4. /\ Has(outbox', X) \/ Has(handlers', X) <=> Has(outbox, X) \/ Has(handlers, X)
      /\ LoneIn(outbox', handlers', X)
  BY <1>1, <1>3, LoneMoved
<1> QED
  BY <1>2, <1>4 DEF UrlKept, Underway

(* Writes to posts join the pipeline. *)
LEMMA UrlJoined ==
  ASSUME EditTypes, NEW i, OnceOnly(i), NEW r \in Seq(PostLetter), outbox' = outbox \o r,
         handlers' = handlers
  PROVE  UrlKept(i)
<1>1. outbox \in Seq(Letter) /\ r \in Seq(Letter)
  BY DEF EditTypes, Letter
<1>2. \A j \in DOMAIN r : r[j] \in PostLetter
  BY SeqFacts
<1>3. \A x \in PostLetter : x \notin Tells(i)
  BY LetterKinds DEF Tells
<1>4. \A j \in DOMAIN r : r[j] \notin Tells(i)
  BY <1>2, <1>3
<1>5. ~Has(r, Tells(i))
  BY <1>4 DEF Has
<1>6. Has(outbox', Tells(i)) <=> Has(outbox, Tells(i)) \/ Has(r, Tells(i))
  BY <1>1, LastConcat
<1>7. Single(outbox, Tells(i)) /\ Single(handlers, Tells(i))
      /\ ~(Has(outbox, Tells(i)) /\ Has(handlers, Tells(i)))
  BY DEF OnceOnly, LoneIn
<1>8. Single(outbox', Tells(i))
  <2>1. /\ Len(outbox) \in Nat /\ DOMAIN outbox = 1 .. Len(outbox)
        /\ Len(r) \in Nat /\ DOMAIN r = 1 .. Len(r)
    BY <1>1, SeqFacts
  <2>2. /\ DOMAIN outbox' = 1 .. Len(outbox) + Len(r)
        /\ \A j \in 1 .. Len(outbox) + Len(r) :
             outbox'[j] = IF j <= Len(outbox) THEN outbox[j] ELSE r[j - Len(outbox)]
    BY <1>1, ConcatFacts
  <2>3. \A j \in DOMAIN outbox' : j \in DOMAIN outbox \/ j - Len(outbox) \in DOMAIN r
    BY <2>1, <2>2
  <2>4. \A j \in DOMAIN outbox' : outbox'[j] \in Tells(i) =>
          j \in DOMAIN outbox /\ outbox[j] \in Tells(i)
    BY <1>4, <2>1, <2>2
  <2> QED
    BY <1>7, <2>4 DEF Single
<1> QED
  BY <1>5, <1>6, <1>7, <1>8 DEF UrlKept, Underway, LoneIn

----------------------------------------------------------------------------
(* Edit screens come, and none learns of another image than the profile's. *)
Reopened ==
  /\ editors' \in Seq(Sheet)
  /\ DOMAIN editors \subseteq DOMAIN editors'
  /\ \A e \in DOMAIN editors : editors'[e].user.image = editors[e].user.image
  /\ \A e \in DOMAIN editors' : e \in DOMAIN editors \/ editors'[e].user.image = profile.image

(* One screen changes, and knows the same image. *)
LEMMA SameScreens ==
  ASSUME EditTypes, NEW e \in DOMAIN editors, NEW x \in Sheet,
         editors' = [editors EXCEPT ![e] = x], x.user.image = editors[e].user.image
  PROVE  Reopened
<1>1. editors \in Seq(Sheet)
  BY DEF EditTypes
<1>2. /\ editors' = [d \in DOMAIN editors |-> editors'[d]]
      /\ \A d \in DOMAIN editors : editors'[d] = IF d = e THEN x ELSE editors[d]
  BY <1>1
<1>3. \A d \in DOMAIN editors : editors'[d] \in Sheet
  BY <1>1, <1>2, SeqFacts
<1>4. editors' \in Seq(Sheet) /\ DOMAIN editors' = DOMAIN editors
  BY <1>1, <1>2, <1>3, Replaced
<1> QED
  BY <1>2, <1>4 DEF Reopened

(* What happens on the screens. *)
ScreenStep ==
  \/ ShowEditProfileController
  \/ \E e \in DOMAIN editors : \/ HandleCancel(e)
                               \/ DidTapChangeProfilePhoto(e)
                               \/ DidFinishPicking(e)
                               \/ \E n \in Names : UpdateUserInfo(e, n)

(* A step on the screens is one of those. *)
LEMMA ScreenStepIs ==
  ASSUME EditTypes, ScreenStep
  PROVE  /\ Reopened
         /\ UNCHANGED <<server, outbox, handlers, storage, queries, profile, tab,
                        dones, mishaps, auxiliary>>
<1>1. editors \in Seq(Sheet) /\ profile \in Account
  BY DEF EditTypes
<1>2. CASE ShowEditProfileController
  <2> DEFINE x == [open |-> TRUE, picking |-> FALSE, user |-> profile, infoChanged |-> FALSE,
                    picked |-> FALSE]
  <2>1. x \in Sheet /\ x.user = profile
    BY <1>1 DEF Sheet
  <2>2. editors' = Append(editors, x)
    BY <1>2 DEF ShowEditProfileController
  <2> HIDE DEF x
  <2>3. editors' \in Seq(Sheet)
    BY <1>1, <2>1, <2>2, ToSetAppend
  <2>4. /\ Len(editors) + 1 \notin DOMAIN editors
        /\ DOMAIN editors' = DOMAIN editors \cup {Len(editors) + 1}
        /\ \A d \in DOMAIN editors : editors'[d] = editors[d]
        /\ editors'[Len(editors) + 1] = x
    BY <1>1, <2>1, <2>2, Appended
  <2>5. Reopened
    BY <2>1, <2>3, <2>4 DEF Reopened
  <2> QED
    BY <1>2, <2>5 DEF ShowEditProfileController
<1>3. ASSUME NEW e \in DOMAIN editors, HandleCancel(e)
      PROVE  Reopened
  <2>1. editors[e] \in Sheet
    BY <1>1, SeqFacts
  <2>2. PICK x : x = [editors[e] EXCEPT !.open = FALSE]
    OBVIOUS
  <2>3. x \in Sheet /\ x.user.image = editors[e].user.image
    BY <2>1, <2>2 DEF Sheet
  <2>4. editors' = [editors EXCEPT ![e] = x]
    BY <1>3, <2>2 DEF HandleCancel
  <2> QED
    BY <2>3, <2>4, SameScreens
<1>4. ASSUME NEW e \in DOMAIN editors, DidFinishPicking(e)
      PROVE  Reopened
  <2>1. editors[e] \in Sheet
    BY <1>1, SeqFacts
  <2>2. PICK chosen \in BOOLEAN :
          editors' = [editors EXCEPT ![e].picking = FALSE, ![e].picked = @ \/ chosen]
    BY <1>4 DEF DidFinishPicking
  <2>3. PICK x : x = [editors[e] EXCEPT !.picking = FALSE, !.picked = @ \/ chosen]
    OBVIOUS
  <2>4. x \in Sheet /\ x.user.image = editors[e].user.image
    BY <2>1, <2>3 DEF Sheet
  <2>5. editors' = [editors EXCEPT ![e] = x]
    BY <1>1, <2>2, <2>3
  <2> QED
    BY <2>4, <2>5, SameScreens
<1>6. ASSUME NEW e \in DOMAIN editors, DidTapChangeProfilePhoto(e)
      PROVE  Reopened
  <2>1. editors[e] \in Sheet
    BY <1>1, SeqFacts
  <2>2. PICK x : x = [editors[e] EXCEPT !.picking = TRUE]
    OBVIOUS
  <2>3. x \in Sheet /\ x.user.image = editors[e].user.image
    BY <2>1, <2>2 DEF Sheet
  <2>4. editors' = [editors EXCEPT ![e] = x]
    BY <1>6, <2>2 DEF DidTapChangeProfilePhoto
  <2> QED
    BY <2>3, <2>4, SameScreens
<1>5. ASSUME NEW e \in DOMAIN editors, NEW n \in Names, UpdateUserInfo(e, n)
      PROVE  Reopened
  <2>1. editors[e] \in Sheet
    BY <1>1, SeqFacts
  <2>2. PICK x : x = [editors[e] EXCEPT !.infoChanged = TRUE, !.user.name = n]
    OBVIOUS
  <2>3. x \in Sheet /\ x.user.image = editors[e].user.image
    BY <2>1, <2>2 DEF Sheet, Account
  <2>4. editors' = [editors EXCEPT ![e] = x]
    BY <1>1, <1>5, <2>2 DEF UpdateUserInfo
  <2> QED
    BY <2>3, <2>4, SameScreens
<1>7. CASE \E e \in DOMAIN editors : \/ HandleCancel(e)
                                     \/ DidTapChangeProfilePhoto(e)
                                     \/ DidFinishPicking(e)
                                     \/ \E n \in Names : UpdateUserInfo(e, n)
  <2>1. Reopened
    BY <1>3, <1>4, <1>5, <1>7, <1>6
  <2> QED
    BY <1>7, <2>1 DEF HandleCancel, DidTapChangeProfilePhoto, DidFinishPicking,
       UpdateUserInfo
<1> QED
  BY <1>2, <1>7 DEF ScreenStep

(* The secret is kept while the profile, the deletions and the images made   *)
(* stay and the screens learn of nothing else.                               *)
LEMMA SecretKept ==
  ASSUME NEW i, Secret(i), Reopened \/ editors' = editors, profile'.image = profile.image,
         deleting' \subseteq deleting, made' = made
  PROVE  Secret(i)'
<1>1. \A e \in DOMAIN editors' : editors'[e].user.image # i
  BY DEF Secret, Reopened
<1> QED
  BY <1>1 DEF Secret

(* A step on the screens keeps the bookkeeping of images. *)
LEMMA ScreensSound ==
  ASSUME EditSound, ScreenStep
  PROVE  EditSound'
<1>1. EditTypes /\ EditorsKnown /\ Numbered /\ UrlsStored /\ \A i \in Nat : OnceOnly(i)
  BY DEF EditSound
<1>2. Reopened
  BY <1>1, ScreenStepIs
<1>3. /\ doc' = doc /\ copies' = copies /\ stored' = stored /\ outbox' = outbox
      /\ handlers' = handlers /\ deleting' = deleting /\ uploads' = uploads /\ made' = made
      /\ queries' = queries /\ profile' = profile /\ tab' = tab
  BY <1>1, ScreenStepIs DEF server, storage
<1>4. EditTypes'
  BY <1>1, <1>2, <1>3 DEF EditTypes, Reopened
<1>5. EditorsKnown'
  BY <1>1, <1>2, <1>3 DEF EditorsKnown, Reopened
<1>6. \A e \in DOMAIN editors' : editors'[e].user.image <= made
  BY <1>1, <1>2 DEF Numbered, Reopened
<1>7. Numbered'
  BY <1>1, <1>3, <1>6 DEF Numbered
<1>8. UrlsStored'
  BY <1>1, <1>3 DEF UrlsStored
<1>9. ASSUME NEW i \in Nat PROVE OnceOnly(i)'
  <2>1. UrlKept(i)
    BY <1>1, <1>3, UrlSame
  <2>2. Secret(i) => Secret(i)'
    BY <1>2, <1>3, SecretKept
  <2>3. uploads' \subseteq uploads
    BY <1>3
  <2> QED
    BY <1>1, <2>1, <2>2, <2>3, OnceKept
<1> QED
  BY <1>4, <1>5, <1>7, <1>8, <1>9 DEF EditSound

----------------------------------------------------------------------------
(* The user the client reads is one, with an image that was made. *)
LEMMA LocalDocIs ==
  ASSUME EditTypes, Numbered
  PROVE  /\ LocalDoc \in Account
         /\ LocalDoc.image = LocalImage
         /\ LocalImage <= made
<1> DEFINE names == {j \in DOMAIN outbox : outbox[j].kind \in {"save", "saveFirst"}}
           k == Max(names)
<1>1. outbox \in Seq(Letter) /\ doc \in Account
  BY DEF EditTypes
<1>2. \A j \in DOMAIN outbox : outbox[j] \in Letter
  BY <1>1
<1>3. LocalName = IF names = {} THEN doc.name ELSE outbox[k].user.name
  BY DEF LocalName, Pending, Max
<1>4. names \in SUBSET DOMAIN outbox
  OBVIOUS
<1>5. \A j \in names : outbox[j] \in DocLetter
  BY <1>2, LetterKinds
<1> HIDE DEF names, k
<1>6. LocalName \in Names
  <2>1. CASE names = {}
    BY <1>1, <1>3, <2>1 DEF Account
  <2>2. CASE names # {}
    <3>1. k \in names
      BY <1>1, <1>4, <2>2, LastPosition DEF k
    <3> QED
      BY <1>3, <1>5, <2>2, <3>1 DEF DocLetter, Account
  <2> QED
    BY <2>1, <2>2
<1>7. PICK i \in Nat : i = LocalImage /\ ImageIs(i)
  BY LocalImageIs
<1>8. LocalDoc \in Account /\ LocalDoc.image = i
  BY <1>6, <1>7 DEF LocalDoc, Account
<1>9. i <= made
  <2>1. CASE ~Has(outbox, DocLetter)
    BY <1>7, <2>1 DEF ImageIs, Numbered
  <2>2. CASE Has(outbox, DocLetter)
    <3>1. PICK x \in DocLetter : \A Y : LastIn(outbox, DocLetter, Y) <=> x \in Y
      BY <1>1, <2>2, LastExists
    <3>2. x \in Storing(i)
      BY <1>7, <2>2, <3>1 DEF ImageIs
    <3>3. LastIn(outbox, DocLetter, ToSet(outbox))
      BY <1>1, ToSetType DEF LastIn
    <3>4. x \in ToSet(outbox)
      BY <3>1, <3>3
    <3> QED
      BY <3>1, <3>2, <3>4 DEF Numbered, Storing
  <2> QED
    BY <2>1, <2>2
<1> QED
  BY <1>7, <1>8, <1>9

(* A write, not of a new image, joins the pipeline. *)
WriteAdded(x) ==
  /\ x \in Letter /\ Gained(outbox, outbox', x)
  /\ x.editor = 0 \/ x.editor \in DOMAIN editors
  /\ x \in DocLetter => x.kind # "image" /\ x.user.image <= made
  /\ UNCHANGED <<server, handlers, storage, queries, profile, tab, editors>>

(* A write that joins the pipeline keeps the bookkeeping of images. *)
LEMMA WriteSound ==
  ASSUME EditSound, NEW x, WriteAdded(x)
  PROVE  EditSound'
<1>1. EditTypes /\ EditorsKnown /\ Numbered /\ UrlsStored /\ \A i \in Nat : OnceOnly(i)
  BY DEF EditSound
<1>2. /\ doc' = doc /\ copies' = copies /\ stored' = stored /\ handlers' = handlers
      /\ deleting' = deleting /\ uploads' = uploads /\ made' = made
      /\ queries' = queries /\ profile' = profile /\ tab' = tab /\ editors' = editors
  BY DEF WriteAdded, server, storage
<1>3. /\ x \in Letter /\ Gained(outbox, outbox', x) /\ (x.editor = 0 \/ x.editor \in DOMAIN editors)
      /\ (x \in DocLetter => x.kind # "image" /\ x.user.image <= made)
  BY DEF WriteAdded
<1>4. outbox \in Seq(Letter)
  BY <1>1 DEF EditTypes
<1>5. outbox' \in Seq(Letter) /\ ToSet(outbox') = ToSet(outbox) \cup {x}
  BY <1>3, <1>4, GainedFacts
<1>6. EditTypes'
  BY <1>1, <1>2, <1>5 DEF EditTypes
<1>7. EditorsKnown'
  BY <1>1, <1>2, <1>3, <1>5 DEF EditorsKnown
<1>8. Numbered'
  BY <1>1, <1>2, <1>3, <1>5 DEF Numbered
<1>9. UrlsStored'
  BY <1>1, <1>2 DEF UrlsStored
<1>10. ASSUME NEW i \in Nat PROVE OnceOnly(i)'
  <2>1. x \notin Tells(i)
    BY <1>3, LetterKinds DEF Tells, Letter
  <2>2. UrlKept(i)
    BY <1>1, <1>2, <1>3, <2>1, UrlGained
  <2>3. Secret(i) => Secret(i)'
    BY <1>2, SecretKept
  <2>4. uploads' \subseteq uploads
    BY <1>2
  <2> QED
    BY <1>1, <2>2, <2>3, <2>4, OnceKept
<1> QED
  BY <1>6, <1>7, <1>8, <1>9, <1>10 DEF EditSound

(* The writes that are added by Done and Share. *)
LEMMA SaveIs ==
  ASSUME EditSound, NEW e \in DOMAIN editors, NEW k \in {"save", "saveFirst"},
         SaveUserData(e, k),
         UNCHANGED <<server, handlers, storage, queries, profile, tab, editors>>
  PROVE  \E x \in DocLetter : /\ WriteAdded(x) /\ x.kind = k /\ x.editor = e /\ x.editor # 0
                              /\ x.user = editors[e].user
<1>1. editors \in Seq(Sheet)
  BY DEF EditSound, EditTypes
<1>2. editors[e] \in Sheet /\ e \in Nat /\ e # 0
  BY <1>1
<1>3. PICK u : u = editors[e].user
  OBVIOUS
<1>4. u \in Account /\ u.image <= made
  BY <1>2, <1>3 DEF Sheet, EditSound, Numbered
<1>5. PICK x : x = [kind |-> k, user |-> u, editor |-> e]
  OBVIOUS
<1>6. x \in DocLetter /\ x.kind = k /\ x.user = u /\ x.editor = e
  BY <1>2, <1>4, <1>5 DEF DocLetter
<1>7. Gained(outbox, outbox', x)
  BY <1>3, <1>5 DEF SaveUserData, Gained
<1>8. WriteAdded(x)
  BY <1>4, <1>6, <1>7 DEF WriteAdded, Letter
<1> QED
  BY <1>2, <1>3, <1>6, <1>8

(* Share adds the write of a post, with the image of the tab controller. *)
LEMMA ShareIs ==
  ASSUME EditSound, NEW p \in OwnPosts, SharePost(p)
  PROVE  \E x \in PostLetter : /\ WriteAdded(x) /\ x.kind = "post" /\ x.post = p
                               /\ x.image = tab.image
<1>1. PICK i : i = tab.image
  OBVIOUS
<1>2. i \in Nat
  BY <1>1 DEF EditSound, EditTypes, Account
<1>3. PICK x : x = [kind |-> "post", post |-> p, image |-> i, editor |-> 0]
  OBVIOUS
<1>4. x \in PostLetter /\ x.kind = "post" /\ x.post = p /\ x.image = i /\ x.editor = 0
  BY <1>2, <1>3 DEF PostLetter
<1>5. Gained(outbox, outbox', x)
  BY <1>1, <1>3 DEF SharePost, Gained
<1>6. UNCHANGED <<server, handlers, storage, queries, profile, tab, editors>>
  BY DEF SharePost
<1>7. WriteAdded(x)
  BY <1>4, <1>5, <1>6, LetterKinds DEF WriteAdded, Letter
<1> QED
  BY <1>1, <1>4, <1>7

(* A chain begins to upload: the new image is nobody's yet. *)
LEMMA UpdateSound ==
  ASSUME EditSound, NEW e \in DOMAIN editors, UpdateProfileImage(e),
         handlers' = handlers \/ \E h : Lost(handlers, handlers', h)
  PROVE  EditSound' /\ uploads' # {}
<1>1. EditTypes /\ EditorsKnown /\ Numbered /\ UrlsStored /\ \A i \in Nat : OnceOnly(i)
  BY DEF EditSound
<1>2. PICK c, n, t : /\ c = editors[e].user.image /\ n = made + 1
                     /\ t = [image |-> n, editor |-> e, phase |-> "put"]
  OBVIOUS
<1>3. /\ doc' = doc /\ copies' = copies /\ stored' = stored /\ outbox' = outbox
      /\ queries' = queries /\ profile' = profile /\ tab' = tab /\ editors' = editors
      /\ deleting' = deleting \cup {c} /\ uploads' = uploads \cup {t} /\ made' = n
  BY <1>2 DEF UpdateProfileImage, server
<1>4. editors \in Seq(Sheet) /\ made \in Nat /\ handlers \in Seq(Notice)
  BY <1>1 DEF EditTypes
<1>5. n \in Nat /\ e \in Nat /\ editors[e] \in Sheet
  BY <1>2, <1>4
<1>6. t \in Task /\ t.image = n /\ t.editor = e /\ t.phase = "put"
  BY <1>2, <1>5 DEF Task
<1>7. c \in Nat /\ c <= made
  BY <1>1, <1>2, <1>5 DEF Numbered, Sheet, Account
<1>8. handlers' \in Seq(Notice) /\ ToSet(handlers') \subseteq ToSet(handlers)
  BY <1>4, LostFacts
<1>9. EditTypes'
  BY <1>1, <1>3, <1>5, <1>6, <1>8 DEF EditTypes
<1>10. EditorsKnown'
  BY <1>1, <1>3, <1>6, <1>8 DEF EditorsKnown
<1>11. \A i \in Nat : i <= made => i <= n
  BY <1>2, <1>4
<1>12. Numbered'
  <2>1. /\ doc.image \in Nat /\ profile.image \in Nat
        /\ \A x \in ToSet(outbox) : x \in DocLetter => x.user.image \in Nat
        /\ \A d \in DOMAIN editors : editors[d].user.image \in Nat
    <3>1. doc.image \in Nat /\ profile.image \in Nat
      BY <1>1 DEF EditTypes, Account
    <3>2. \A x \in DocLetter : x.user.image \in Nat
      BY DEF DocLetter, Account
    <3>3. \A x \in Sheet : x.user.image \in Nat
      BY DEF Sheet, Account
    <3>4. \A d \in DOMAIN editors : editors[d] \in Sheet
      BY <1>4, SeqFacts
    <3> QED
      BY <3>1, <3>2, <3>3, <3>4
  <2> QED
    BY <1>1, <1>3, <1>7, <1>11, <2>1 DEF Numbered
<1>13. UrlsStored'
  BY <1>1, <1>3, <1>6 DEF UrlsStored
<1>14. ASSUME NEW i \in Nat PROVE OnceOnly(i)'
  <2>1. UrlKept(i)
    BY <1>1, <1>3, UrlSame, UrlHandled
  <2>2. OnceOnly(i)
    BY <1>1
  <2>3. CASE i # n
    <3>1. \A s \in uploads' : s.image = i => s \in uploads
      BY <1>3, <1>6, <2>3
    <3>2. Uploading(i)' => Uploading(i)
      BY <3>1 DEF Uploading
    <3>3. Secret(i) => Secret(i)'
      BY <1>2, <1>3, <1>11 DEF Secret
    <3>4. \A s, r \in uploads' : s.image = i /\ r.image = i => s = r
      BY <2>2, <3>1 DEF OnceOnly
    <3> QED
      BY <2>1, <2>2, <3>2, <3>3, <3>4 DEF OnceOnly, UrlKept
  <2>4. CASE i = n
    <3>1. ~(i <= made)
      BY <1>2, <1>4, <2>4
    <3>2. ~Uploading(i) /\ ~Underway(i)
      BY <2>2, <3>1 DEF OnceOnly, Secret
    <3>3. \A s \in uploads' : s.image = i => s = t
      BY <1>3, <3>2 DEF Uploading
    <3>4. Secret(i)'
      BY <1>1, <1>3, <1>7, <2>4, <3>1, <1>5 DEF Secret, Numbered
    <3> QED
      BY <2>1, <3>2, <3>3, <3>4 DEF OnceOnly, UrlKept
  <2> QED
    BY <2>3, <2>4
<1> QED
  BY <1>3, <1>9, <1>10, <1>12, <1>13, <1>14 DEF EditSound

(* Images are deleted, or not; nobody can have one deleted that is uploaded. *)
LEMMA DeleteSound ==
  ASSUME EditSound, NEW c \in deleting, DeleteAnswer(c) \/ DeleteError(c)
  PROVE  EditSound'
<1>1. EditTypes /\ EditorsKnown /\ Numbered /\ UrlsStored /\ \A i \in Nat : OnceOnly(i)
  BY DEF EditSound
<1>2. /\ doc' = doc /\ copies' = copies /\ outbox' = outbox /\ handlers' = handlers
      /\ uploads' = uploads /\ made' = made /\ queries' = queries /\ profile' = profile
      /\ tab' = tab /\ editors' = editors /\ deleting' = deleting \ {c}
      /\ stored \ {c} \subseteq stored'
  BY DEF DeleteAnswer, DeleteError, server
<1>3. EditTypes' /\ EditorsKnown' /\ Numbered'
  BY <1>1, <1>2 DEF EditTypes, EditorsKnown, Numbered
<1>4. \A t \in uploads : t.image # c
  <2>1. \A t \in uploads : t.image \in Nat /\ Uploading(t.image)
    BY <1>1 DEF EditTypes, Task, Uploading
  <2> QED
    BY <1>1, <2>1 DEF OnceOnly, Secret
<1>5. UrlsStored'
  BY <1>1, <1>2, <1>4 DEF UrlsStored
<1>6. ASSUME NEW i \in Nat PROVE OnceOnly(i)'
  <2>1. UrlKept(i)
    BY <1>1, <1>2, UrlSame
  <2>2. Secret(i) => Secret(i)'
    BY <1>2, SecretKept
  <2>3. uploads' \subseteq uploads
    BY <1>2
  <2> QED
    BY <1>1, <2>1, <2>2, <2>3, OnceKept
<1> QED
  BY <1>3, <1>5, <1>6 DEF EditSound

(* An upload is through. *)
LEMMA PutSound ==
  ASSUME EditSound, NEW t \in uploads, PutAnswer(t)
  PROVE  EditSound' /\ uploads' # {}
<1>1. EditTypes /\ EditorsKnown /\ Numbered /\ UrlsStored /\ \A i \in Nat : OnceOnly(i)
  BY DEF EditSound
<1>2. PICK r : r = [t EXCEPT !.phase = "url"]
  OBVIOUS
<1>3. /\ doc' = doc /\ copies' = copies /\ outbox' = outbox /\ handlers' = handlers
      /\ deleting' = deleting /\ made' = made /\ queries' = queries /\ profile' = profile
      /\ tab' = tab /\ editors' = editors
      /\ stored' = stored \cup {t.image} /\ uploads' = (uploads \ {t}) \cup {r}
  BY <1>2 DEF PutAnswer
<1>4. t \in Task
  BY <1>1 DEF EditTypes
<1>5. r \in Task /\ r.image = t.image /\ r.editor = t.editor
  BY <1>2, <1>4 DEF Task
<1>6. EditTypes'
  BY <1>1, <1>3, <1>5 DEF EditTypes
<1>7. EditorsKnown'
  BY <1>1, <1>3, <1>5 DEF EditorsKnown
<1>8. Numbered' /\ UrlsStored'
  BY <1>1, <1>3, <1>5 DEF Numbered, UrlsStored
<1>9. ASSUME NEW i \in Nat PROVE OnceOnly(i)'
  <2>1. OnceOnly(i)
    BY <1>1
  <2>2. UrlKept(i)
    BY <1>3, <2>1, UrlSame
  <2>3. Uploading(i)' => Uploading(i)
    BY <1>3, <1>5 DEF Uploading
  <2>4. Secret(i) => Secret(i)'
    BY <1>3, SecretKept
  <2>5. \A s \in uploads' : \/ s \in uploads /\ s # t
                            \/ s = r
    BY <1>3
  <2>6. \A s, v \in uploads' : s.image = i /\ v.image = i => s = v
    BY <1>5, <2>1, <2>5 DEF OnceOnly
  <2> QED
    BY <2>1, <2>2, <2>3, <2>4, <2>6 DEF OnceOnly, UrlKept
<1> QED
  BY <1>3, <1>6, <1>7, <1>8, <1>9 DEF EditSound

(* An upload fails. *)
LEMMA UploadErrorSound ==
  ASSUME EditSound, NEW t \in uploads, UploadError(t)
  PROVE  EditSound'
<1>1. EditTypes /\ EditorsKnown /\ Numbered /\ UrlsStored /\ \A i \in Nat : OnceOnly(i)
  BY DEF EditSound
<1>2. /\ doc' = doc /\ copies' = copies /\ outbox' = outbox /\ handlers' = handlers
      /\ deleting' = deleting /\ made' = made /\ queries' = queries /\ profile' = profile
      /\ tab' = tab /\ editors' = editors /\ stored' = stored /\ uploads' = uploads \ {t}
  BY DEF UploadError, server
<1>3. EditTypes' /\ EditorsKnown' /\ Numbered' /\ UrlsStored'
  BY <1>1, <1>2 DEF EditTypes, EditorsKnown, Numbered, UrlsStored
<1>4. ASSUME NEW i \in Nat PROVE OnceOnly(i)'
  <2>1. UrlKept(i)
    BY <1>1, <1>2, UrlSame
  <2>2. Secret(i) => Secret(i)'
    BY <1>2, SecretKept
  <2>3. uploads' \subseteq uploads
    BY <1>2
  <2> QED
    BY <1>1, <2>1, <2>2, <2>3, OnceKept
<1> QED
  BY <1>3, <1>4 DEF EditSound

(* The URL of an upload is written: the image is on its way and no upload. *)
LEMMA UrlSound ==
  ASSUME EditSound, NEW t \in uploads, UrlAnswer(t)
  PROVE  /\ EditSound'
         /\ \E x \in ImageWrites : Gained(outbox, outbox', x) /\ x.user.image = t.image
<1>1. EditTypes /\ EditorsKnown /\ Numbered /\ UrlsStored /\ \A i \in Nat : OnceOnly(i)
  BY DEF EditSound
<1>2. PICK u : u = [editors[t.editor].user EXCEPT !.image = t.image]
  OBVIOUS
<1>3. PICK x : x = [kind |-> "image", editor |-> t.editor, user |-> u]
  OBVIOUS
<1>4. /\ doc' = doc /\ copies' = copies /\ handlers' = handlers /\ stored' = stored
      /\ deleting' = deleting /\ made' = made /\ queries' = queries /\ profile' = profile
      /\ tab' = tab /\ editors' = editors /\ uploads' = uploads \ {t}
      /\ Gained(outbox, outbox', x)
  BY <1>2, <1>3 DEF UrlAnswer, server, Gained
<1>5. t \in Task /\ t.editor \in DOMAIN editors /\ editors \in Seq(Sheet) /\ outbox \in Seq(Letter)
  BY <1>1 DEF EditTypes, EditorsKnown
<1>6. t.image \in Nat /\ t.editor \in Nat /\ t.editor # 0 /\ editors[t.editor] \in Sheet
  BY <1>5 DEF Task
<1>7. u \in Account /\ u.image = t.image
  BY <1>2, <1>6 DEF Sheet, Account
<1>8. x \in DocLetter /\ x.kind = "image" /\ x.editor = t.editor /\ x.user = u
  BY <1>3, <1>6, <1>7 DEF DocLetter
<1>9. Uploading(t.image)
  BY DEF Uploading
<1>10. Secret(t.image) /\ ~Underway(t.image)
  BY <1>1, <1>6, <1>9 DEF OnceOnly
<1>11. x \in Letter
  BY <1>8 DEF Letter
<1>12. outbox' \in Seq(Letter) /\ ToSet(outbox') = ToSet(outbox) \cup {x}
  BY <1>4, <1>5, <1>11, GainedFacts
<1>13. EditTypes' /\ UrlsStored'
  BY <1>1, <1>4, <1>12 DEF EditTypes, UrlsStored
<1>14. EditorsKnown'
  BY <1>1, <1>4, <1>5, <1>8, <1>12 DEF EditorsKnown
<1>15. x.user.image <= made
  BY <1>7, <1>8, <1>10 DEF Secret
<1>16. Numbered'
  BY <1>1, <1>4, <1>12, <1>15 DEF Numbered
<1>17. ASSUME NEW i \in Nat PROVE OnceOnly(i)'
  <2>1. Secret(i) => Secret(i)'
    BY <1>4, SecretKept
  <2>2. uploads' \subseteq uploads
    BY <1>4
  <2>3. CASE i # t.image
    <3>1. x \notin Tells(i)
      BY <1>7, <1>8, <2>3 DEF Tells
    <3>2. UrlKept(i)
      BY <1>1, <1>4, <1>11, <3>1, UrlGained
    <3> QED
      BY <1>1, <2>1, <2>2, <3>2, OnceKept
  <2>4. CASE i = t.image
    <3>1. ~Uploading(i)'
      BY <1>1, <1>4, <2>4 DEF Uploading, OnceOnly
    <3>2. ~Has(outbox, Tells(i)) /\ ~Has(handlers, Tells(i))
      BY <1>10, <2>4 DEF Underway
    <3>3. Single(outbox, Tells(i)) /\ Single(handlers, Tells(i))
      BY <1>1 DEF OnceOnly, LoneIn
    <3>4. Single(outbox', Tells(i))
      BY <1>4, <1>5, <1>11, <3>2, <3>3, LoneGained
    <3>5. LoneIn(outbox', handlers', Tells(i))
      BY <1>4, <3>2, <3>3, <3>4 DEF LoneIn
    <3>6. \A s, v \in uploads' : s.image = i /\ v.image = i => s = v
      BY <3>1 DEF Uploading
    <3> QED
      BY <1>10, <2>1, <2>4, <3>1, <3>5, <3>6 DEF OnceOnly
  <2> QED
    BY <2>3, <2>4
<1>18. x \in ImageWrites /\ x.user.image = t.image
  BY <1>6, <1>7, <1>8 DEF ImageWrites
<1> QED
  BY <1>4, <1>13, <1>14, <1>16, <1>17, <1>18 DEF EditSound

----------------------------------------------------------------------------
(* A write w leaves the pipeline; its completion, if any, says whether it failed. *)
Reported(w, h, f) ==
  /\ w \in DocLetter /\ w.editor # 0 /\ Gained(handlers, handlers', h)
  /\ h.kind = w.kind /\ h.user = w.user /\ h.editor = w.editor /\ h.failed = f

Departed(w, f) ==
  /\ w \in Letter /\ Lost(outbox, outbox', w)
  /\ \/ w.editor = 0 /\ handlers' = handlers
     \/ \E h \in Notice : Reported(w, h, f)
  /\ UNCHANGED <<stored, storage, queries, profile, tab, editors>>

(* Depart takes the front of the pipeline. *)
LEMMA DepartIs ==
  ASSUME EditSound, NEW f \in BOOLEAN, Depart(f)
  PROVE  \E w \in Letter : Departed(w, f) /\ w = Head(outbox)
<1>1. outbox \in Seq(Letter)
  BY DEF EditSound, EditTypes
<1>2. PICK w : w = Head(outbox)
  OBVIOUS
<1>3. outbox # <<>> /\ outbox' = Tail(outbox)
  BY DEF Depart
<1>4. Lost(outbox, outbox', w)
  BY <1>2, <1>3 DEF Lost
<1>5. w \in Letter
  BY <1>1, <1>4, LostFacts
<1>6. UNCHANGED <<stored, storage, queries, profile, tab, editors>>
  BY DEF Depart
<1>7. CASE w.editor = 0
  <2>1. handlers' = handlers
    BY <1>2, <1>7 DEF Depart
  <2> QED
    BY <1>2, <1>4, <1>5, <1>6, <1>7, <2>1 DEF Departed
<1>8. CASE w.editor # 0
  <2>1. w \in DocLetter
    BY <1>5, <1>8, LetterKinds DEF Letter
  <2>2. PICK h : h = [kind |-> w.kind, user |-> w.user, editor |-> w.editor, failed |-> f]
    OBVIOUS
  <2>3. h \in Notice /\ h.kind = w.kind /\ h.user = w.user /\ h.editor = w.editor /\ h.failed = f
    BY <2>1, <2>2 DEF DocLetter, Notice
  <2>4. Gained(handlers, handlers', h)
    BY <1>2, <1>8, <2>2 DEF Depart, Gained
  <2>5. Reported(w, h, f)
    BY <1>8, <2>1, <2>3, <2>4 DEF Reported
  <2> QED
    BY <1>2, <1>4, <1>5, <1>6, <2>3, <2>5 DEF Departed
<1> QED
  BY <1>7, <1>8

(* What the backend keeps when a write arrives. *)
LEMMA StoreIs ==
  ASSUME EditTypes, NEW w \in Letter
  PROVE  /\ w \in DocLetter => /\ Store(doc, w) \in Account
                               /\ Store(doc, w).image = w.user.image
                               /\ StoreCopy(copies, w) = copies
         /\ w \in PostLetter => Store(doc, w) = doc
<1>1. doc \in Account
  BY DEF EditTypes
<1>2. CASE w \in DocLetter
  <2>1. w.kind \in {"save", "saveFirst", "image"} /\ w.user \in Account
    BY <1>2 DEF DocLetter
  <2> QED
    BY <1>1, <1>2, <2>1, LetterKinds DEF Store, StoreCopy, Account
<1>3. CASE w \in PostLetter
  <2>1. w.kind \in {"copy", "post"}
    BY <1>3 DEF PostLetter
  <2> QED
    BY <1>3, <2>1, LetterKinds DEF Store
<1> QED
  BY <1>2, <1>3 DEF Letter

(* A write to a post changes that post only, and adds it if it is its first. *)
LEMMA StoreCopyIs ==
  ASSUME EditTypes, NEW w \in PostLetter, NEW c, c = StoreCopy(copies, w)
  PROVE  /\ IsFiniteSet(DOMAIN c) /\ DOMAIN c \subseteq OwnPosts
         /\ DOMAIN copies \subseteq DOMAIN c
         /\ \A p \in DOMAIN c : p \in DOMAIN copies \/ w \in Adding(p)
         /\ \A p : w \in Adding(p) => p \in DOMAIN c
         /\ \A p \in DOMAIN c : IF w \in OfPost(p) THEN c[p] = w.image ELSE c[p] = copies[p]
<1>1. IsFiniteSet(DOMAIN copies) /\ DOMAIN copies \subseteq OwnPosts
  BY DEF EditTypes
<1>2. w.kind \in {"copy", "post"} /\ w.post \in OwnPosts
  BY DEF PostLetter
<1>3. (\A p : w \in Adding(p) <=> w.kind = "post" /\ p = w.post) /\ (\A p : w \in OfPost(p) <=> p = w.post)
  BY DEF Adding, OfPost
<1>4. CASE w.kind = "post" \/ (w.kind = "copy" /\ w.post \in DOMAIN copies)
  <2>1. c = [p \in DOMAIN copies \cup {w.post} |-> IF p = w.post THEN w.image ELSE copies[p]]
    BY <1>4 DEF StoreCopy
  <2>2. DOMAIN c = DOMAIN copies \cup {w.post}
    BY <2>1
  <2>3. \A p \in DOMAIN c : c[p] = IF p = w.post THEN w.image ELSE copies[p]
    BY <2>1
  <2>4. IsFiniteSet(DOMAIN c)
    BY <1>1, <2>2, FS_AddElement
  <2> QED
    BY <1>1, <1>2, <1>3, <1>4, <2>2, <2>3, <2>4
<1>5. CASE ~(w.kind = "post" \/ (w.kind = "copy" /\ w.post \in DOMAIN copies))
  <2>1. c = copies
    BY <1>5 DEF StoreCopy
  <2> QED
    BY <1>1, <1>2, <1>3, <1>5, <2>1
<1> QED
  BY <1>4, <1>5

(* What the backend has when w was committed or refused. *)
Kept(d, c) ==
  /\ d \in Account /\ d.image <= made
  /\ IsFiniteSet(DOMAIN c) /\ DOMAIN c \subseteq OwnPosts

(* Whatever the backend makes of a write, the document names a made image. *)
LEMMA StoreSound ==
  ASSUME EditSound, NEW w, Lost(outbox, outbox', w)
  PROVE  Kept(Store(doc, w), StoreCopy(copies, w)) /\ Kept(doc, copies)
<1>1. EditTypes /\ Numbered
  BY DEF EditSound
<1>2. outbox \in Seq(Letter)
  BY <1>1 DEF EditTypes
<1>3. w \in Letter /\ w \in ToSet(outbox)
  BY <1>2, LostFacts
<1>4. Kept(doc, copies)
  BY <1>1 DEF EditTypes, Numbered, Kept
<1>5. CASE w \in DocLetter
  <2>1. w.user.image <= made
    BY <1>1, <1>3, <1>5 DEF Numbered
  <2>2. PICK d, c : d = Store(doc, w) /\ c = StoreCopy(copies, w)
    OBVIOUS
  <2>3. d \in Account /\ d.image = w.user.image /\ c = copies
    BY <1>1, <1>3, <1>5, <2>2, StoreIs
  <2>4. Kept(d, c)
    BY <1>4, <2>1, <2>3 DEF Kept
  <2> QED
    BY <1>4, <2>2, <2>4
<1>6. CASE w \in PostLetter
  <2>1. PICK d, c : d = Store(doc, w) /\ c = StoreCopy(copies, w)
    OBVIOUS
  <2>2. d = doc
    BY <1>1, <1>3, <1>6, <2>1, StoreIs
  <2>3. IsFiniteSet(DOMAIN c) /\ DOMAIN c \subseteq OwnPosts
    BY <1>1, <1>6, <2>1, StoreCopyIs
  <2>4. Kept(d, c)
    BY <1>4, <2>2, <2>3 DEF Kept
  <2> QED
    BY <1>4, <2>1, <2>4
<1> QED
  BY <1>3, <1>5, <1>6 DEF Letter

(* A write that leaves keeps the bookkeeping of images. *)
LEMMA DepartSound ==
  ASSUME EditSound, NEW f \in BOOLEAN, NEW w, Departed(w, f), Kept(doc', copies')
  PROVE  EditSound'
<1>1. EditTypes /\ EditorsKnown /\ Numbered /\ UrlsStored /\ \A i \in Nat : OnceOnly(i)
  BY DEF EditSound
<1>2. /\ stored' = stored /\ deleting' = deleting /\ uploads' = uploads /\ made' = made
      /\ queries' = queries /\ profile' = profile /\ tab' = tab /\ editors' = editors
  BY DEF Departed, storage
<1>3. w \in Letter /\ Lost(outbox, outbox', w)
  BY DEF Departed
<1>4. outbox \in Seq(Letter) /\ handlers \in Seq(Notice)
  BY <1>1 DEF EditTypes
<1>5. outbox' \in Seq(Letter) /\ ToSet(outbox) = {w} \cup ToSet(outbox')
  BY <1>3, <1>4, LostFacts
<1>6. /\ handlers' \in Seq(Notice)
      /\ \A x \in ToSet(handlers') : x.editor \in DOMAIN editors
      /\ \A i \in Nat : UrlKept(i)
  <2>1. CASE w.editor = 0 /\ handlers' = handlers
    <3>1. \A i \in Nat : w \notin Tells(i)
      BY <2>1 DEF Tells
    <3> QED
      BY <1>1, <1>3, <1>4, <2>1, <3>1, UrlLost DEF EditorsKnown
  <2>2. ASSUME NEW h \in Notice, Reported(w, h, f)
        PROVE  /\ handlers' \in Seq(Notice)
               /\ \A x \in ToSet(handlers') : x.editor \in DOMAIN editors
               /\ \A i \in Nat : UrlKept(i)
    <3>1. /\ w \in DocLetter /\ w.editor # 0 /\ Gained(handlers, handlers', h)
          /\ h.kind = w.kind /\ h.user = w.user /\ h.editor = w.editor
      BY <2>2 DEF Reported
    <3>2. handlers' \in Seq(Notice) /\ ToSet(handlers') = ToSet(handlers) \cup {h}
      BY <1>4, <3>1, GainedFacts
    <3>3. h.editor \in DOMAIN editors
      BY <1>1, <1>5, <3>1 DEF EditorsKnown
    <3>4. \A i \in Nat : w \in Tells(i) <=> h \in Tells(i)
      BY <3>1 DEF Tells
    <3>5. \A i \in Nat : UrlKept(i)
      BY <1>1, <1>3, <3>1, <3>4, UrlMoved
    <3> QED
      BY <1>1, <3>2, <3>3, <3>5 DEF EditorsKnown
  <2> QED
    BY <2>1, <2>2 DEF Departed
<1>7. EditTypes'
  BY <1>1, <1>2, <1>5, <1>6 DEF EditTypes, Kept
<1>8. EditorsKnown'
  BY <1>1, <1>2, <1>5, <1>6 DEF EditorsKnown
<1>9. Numbered' /\ UrlsStored'
  BY <1>1, <1>2, <1>5 DEF Numbered, UrlsStored, Kept
<1>10. ASSUME NEW i \in Nat PROVE OnceOnly(i)'
  <2>1. UrlKept(i)
    BY <1>6
  <2>2. Secret(i) => Secret(i)'
    BY <1>2, SecretKept
  <2>3. uploads' \subseteq uploads
    BY <1>2
  <2> QED
    BY <1>1, <2>1, <2>2, <2>3, OnceKept
<1> QED
  BY <1>7, <1>8, <1>9, <1>10 DEF EditSound

----------------------------------------------------------------------------
(* The screen e and the profile come to know the image i. *)
HandedOver(e, i) ==
  /\ editors' \in Seq(Sheet) /\ profile' \in Account /\ DOMAIN editors' = DOMAIN editors
  /\ profile'.image = i /\ e \in DOMAIN editors /\ editors'[e].user.image = i
  /\ \A d \in DOMAIN editors : d # e => editors'[d].user.image = editors[d].user.image

(* WantsToUpdate hands the user over to the screen and to the profile. *)
LEMMA WantsToUpdateIs ==
  ASSUME EditTypes, NEW e \in DOMAIN editors, NEW u \in Account, WantsToUpdate(e, u)
  PROVE  HandedOver(e, u.image)
<1>1. editors \in Seq(Sheet)
  BY DEF EditTypes
<1>2. editors[e] \in Sheet
  BY <1>1, SeqFacts
<1>3. PICK x : x = [editors[e] EXCEPT !.open = @ /\ editors[e].picking,
                                      !.picking = FALSE, !.user = u]
  OBVIOUS
<1>4. x \in Sheet /\ x.user = u
  BY <1>2, <1>3 DEF Sheet
<1>5. editors' = [editors EXCEPT ![e] = x] /\ profile' = u
  BY <1>1, <1>3 DEF WantsToUpdate
<1>6. /\ editors' = [d \in DOMAIN editors |-> editors'[d]]
      /\ \A d \in DOMAIN editors : editors'[d] = IF d = e THEN x ELSE editors[d]
  BY <1>1, <1>5
<1>7. \A d \in DOMAIN editors : editors'[d] \in Sheet
  BY <1>1, <1>4, <1>6, SeqFacts
<1>8. editors' \in Seq(Sheet) /\ DOMAIN editors' = DOMAIN editors
  BY <1>1, <1>6, <1>7, Replaced
<1> QED
  BY <1>4, <1>5, <1>6, <1>8 DEF HandedOver

(* The completions as they are handled. *)
SaveHandled(h) ==
  /\ h \in SaveDone /\ Lost(handlers, handlers', h)
  /\ HandedOver(h.editor, editors[h.editor].user.image)
  /\ UNCHANGED <<server, outbox, storage, queries, tab, auxiliary>>

ImageHandled(h) ==
  /\ h \in ImageDone /\ Lost(handlers, handlers', h)
  /\ HandedOver(h.editor, h.user.image) /\ Gained(queries, queries', h.user.image)
  /\ UNCHANGED <<server, outbox, storage, tab, auxiliary>>

ImageFailed(h) ==
  /\ h \in Notice /\ h.kind = "image" /\ h.failed /\ Lost(handlers, handlers', h)
  /\ UNCHANGED <<server, outbox, storage, queries, profile, tab, editors, auxiliary>>

(* HandleSave hands over what the screen of the completion knows. *)
LEMMA HandleSaveIs ==
  ASSUME EditSound, HandleSave
  PROVE  \E h \in Notice : SaveHandled(h)
<1>1. EditTypes /\ EditorsKnown
  BY DEF EditSound
<1>2. handlers \in Seq(Notice) /\ editors \in Seq(Sheet)
  BY <1>1 DEF EditTypes
<1>3. PICK h : h = Head(handlers)
  OBVIOUS
<1>4. Lost(handlers, handlers', h)
  BY <1>3 DEF HandleSave, Lost
<1>5. h \in Notice /\ h \in ToSet(handlers)
  BY <1>2, <1>4, LostFacts
<1>6. h.editor \in DOMAIN editors
  BY <1>1, <1>5 DEF EditorsKnown
<1>7. PICK e, u : e = h.editor /\ u = editors[h.editor].user
  OBVIOUS
<1>8. editors[e] \in Sheet
  BY <1>2, <1>6, <1>7, SeqFacts
<1>9. u \in Account
  BY <1>7, <1>8 DEF Sheet
<1>10. h.kind = "save" /\ WantsToUpdate(e, u)
  BY <1>3, <1>7 DEF HandleSave
<1>11. HandedOver(e, u.image)
  BY <1>1, <1>6, <1>7, <1>9, <1>10, WantsToUpdateIs
<1>12. UNCHANGED <<server, outbox, storage, queries, tab, auxiliary>>
  BY DEF HandleSave
<1>13. h \in SaveDone
  BY <1>5, <1>10 DEF SaveDone
<1> QED
  BY <1>4, <1>5, <1>7, <1>11, <1>12, <1>13 DEF SaveHandled

(* HandleImage hands over the new image, unless its write failed. *)
LEMMA HandleImageIs ==
  ASSUME EditSound, HandleImage
  PROVE  \E h \in Notice : ImageHandled(h) \/ ImageFailed(h)
<1>1. EditTypes /\ EditorsKnown
  BY DEF EditSound
<1>2. handlers \in Seq(Notice) /\ editors \in Seq(Sheet)
  BY <1>1 DEF EditTypes
<1>3. PICK h : h = Head(handlers)
  OBVIOUS
<1>4. Lost(handlers, handlers', h)
  BY <1>3 DEF HandleImage, Lost
<1>5. h \in Notice /\ h \in ToSet(handlers)
  BY <1>2, <1>4, LostFacts
<1>6. h.editor \in DOMAIN editors
  BY <1>1, <1>5 DEF EditorsKnown
<1>7. PICK e, i, u : e = h.editor /\ i = h.user.image /\ u = [editors[e].user EXCEPT !.image = i]
  OBVIOUS
<1>8. editors[e] \in Sheet /\ i \in Nat
  BY <1>2, <1>5, <1>6, <1>7, SeqFacts DEF Notice, Account
<1>9. u \in Account /\ u.image = i
  BY <1>7, <1>8 DEF Sheet, Account
<1>10. h.kind = "image"
  BY <1>3 DEF HandleImage
<1>11. UNCHANGED <<server, outbox, storage, tab, auxiliary>>
  BY DEF HandleImage
<1>12. \/ ~h.failed /\ queries' = Append(queries, i) /\ WantsToUpdate(e, u)
       \/ h.failed /\ UNCHANGED <<queries, profile, editors>>
  BY <1>3, <1>7 DEF HandleImage
<1>13. CASE ~h.failed /\ queries' = Append(queries, i) /\ WantsToUpdate(e, u)
  <2>1. HandedOver(e, u.image)
    BY <1>1, <1>6, <1>7, <1>9, <1>13, WantsToUpdateIs
  <2>2. h \in ImageDone
    BY <1>5, <1>10, <1>13 DEF ImageDone
  <2>3. Gained(queries, queries', i)
    BY <1>13 DEF Gained
  <2>4. ImageHandled(h)
    BY <1>4, <1>7, <1>9, <1>11, <2>1, <2>2, <2>3 DEF ImageHandled
  <2> QED
    BY <1>5, <2>4
<1>14. CASE h.failed /\ UNCHANGED <<queries, profile, editors>>
  <2>1. ImageFailed(h)
    BY <1>4, <1>5, <1>10, <1>11, <1>14 DEF ImageFailed
  <2> QED
    BY <1>5, <2>1
<1> QED
  BY <1>12, <1>13, <1>14

(* A completed change of the names keeps the bookkeeping of images. *)
LEMMA SaveHandledSound ==
  ASSUME EditSound, NEW h, SaveHandled(h)
  PROVE  EditSound'
<1>1. EditTypes /\ EditorsKnown /\ Numbered /\ UrlsStored /\ \A i \in Nat : OnceOnly(i)
  BY DEF EditSound
<1>2. /\ doc' = doc /\ copies' = copies /\ stored' = stored /\ outbox' = outbox /\ made' = made
      /\ deleting' = deleting /\ uploads' = uploads /\ queries' = queries /\ tab' = tab
  BY DEF SaveHandled, server, storage
<1>3. Lost(handlers, handlers', h) /\ handlers \in Seq(Notice)
  BY <1>1 DEF SaveHandled, EditTypes
<1>4. handlers' \in Seq(Notice) /\ ToSet(handlers') \subseteq ToSet(handlers)
  BY <1>3, LostFacts
<1>5. PICK e, n : e = h.editor /\ n = editors[e].user.image
  OBVIOUS
<1>6. HandedOver(e, n)
  BY <1>5 DEF SaveHandled
<1>7. /\ editors' \in Seq(Sheet) /\ profile' \in Account /\ DOMAIN editors' = DOMAIN editors
      /\ profile'.image = n /\ e \in DOMAIN editors
      /\ \A d \in DOMAIN editors : editors'[d].user.image = editors[d].user.image
  BY <1>5, <1>6 DEF HandedOver
<1>8. EditTypes'
  BY <1>1, <1>2, <1>4, <1>7 DEF EditTypes
<1>9. EditorsKnown'
  BY <1>1, <1>2, <1>4, <1>7 DEF EditorsKnown
<1>10. Numbered' /\ UrlsStored'
  BY <1>1, <1>2, <1>5, <1>7 DEF Numbered, UrlsStored
<1>11. ASSUME NEW i \in Nat PROVE OnceOnly(i)'
  <2>1. UrlKept(i)
    BY <1>1, <1>2, <1>3, UrlHandled
  <2>2. Secret(i) => Secret(i)'
    BY <1>2, <1>5, <1>7 DEF Secret
  <2>3. uploads' \subseteq uploads
    BY <1>2
  <2> QED
    BY <1>1, <2>1, <2>2, <2>3, OnceKept
<1> QED
  BY <1>8, <1>9, <1>10, <1>11 DEF EditSound

(* The image handed over is not told a second time. *)
LEMMA ImageHandledSound ==
  ASSUME EditSound, NEW h, ImageHandled(h)
  PROVE  EditSound'
<1>1. EditTypes /\ EditorsKnown /\ Numbered /\ UrlsStored /\ \A i \in Nat : OnceOnly(i)
  BY DEF EditSound
<1>2. /\ doc' = doc /\ copies' = copies /\ stored' = stored /\ outbox' = outbox /\ made' = made
      /\ deleting' = deleting /\ uploads' = uploads /\ tab' = tab
  BY DEF ImageHandled, server, storage
<1>3. /\ Lost(handlers, handlers', h) /\ handlers \in Seq(Notice) /\ queries \in Seq(Nat)
      /\ h \in ImageDone
  BY <1>1 DEF ImageHandled, EditTypes
<1>4. /\ handlers' \in Seq(Notice) /\ ToSet(handlers') \subseteq ToSet(handlers)
      /\ h \in ToSet(handlers) /\ \A X : Has(handlers, X) <=> Has(handlers', X) \/ h \in X
  BY <1>3, LostFacts
<1>5. PICK e, n : e = h.editor /\ n = h.user.image
  OBVIOUS
<1>6. n \in Nat /\ e # 0
  <2>1. n \in Nat
    BY <1>3, <1>5 DEF ImageDone, Notice, Account
  <2>2. editors \in Seq(Sheet) /\ e \in DOMAIN editors
    BY <1>1, <1>4, <1>5 DEF EditTypes, EditorsKnown
  <2> QED
    BY <2>1, <2>2
<1>7. HandedOver(e, n) /\ Gained(queries, queries', n)
  BY <1>5 DEF ImageHandled
<1>8. queries' \in Seq(Nat)
  BY <1>3, <1>6, <1>7, GainedFacts
<1>9. /\ editors' \in Seq(Sheet) /\ profile' \in Account /\ DOMAIN editors' = DOMAIN editors
      /\ profile'.image = n /\ e \in DOMAIN editors /\ editors'[e].user.image = n
      /\ \A d \in DOMAIN editors : d # e => editors'[d].user.image = editors[d].user.image
  BY <1>7 DEF HandedOver
<1>10. h \in Tells(n)
  BY <1>3, <1>5, <1>6 DEF Tells, ImageDone
<1>11. Underway(n)
  BY <1>4, <1>10 DEF Underway
<1>12. Secret(n) /\ ~Uploading(n)
  BY <1>1, <1>6, <1>11 DEF OnceOnly
<1>13. EditTypes'
  BY <1>1, <1>2, <1>4, <1>8, <1>9 DEF EditTypes
<1>14. EditorsKnown'
  BY <1>1, <1>2, <1>4, <1>9 DEF EditorsKnown
<1>15. n <= made
  BY <1>12 DEF Secret
<1>16. \A d \in DOMAIN editors' : editors'[d].user.image <= made
  BY <1>1, <1>9, <1>15 DEF Numbered
<1>17. Numbered' /\ UrlsStored'
  BY <1>1, <1>2, <1>9, <1>15, <1>16 DEF Numbered, UrlsStored
<1>18. ASSUME NEW i \in Nat PROVE OnceOnly(i)'
  <2>1. UrlKept(i) /\ (h \in Tells(i) => ~Underway(i)')
    BY <1>1, <1>2, <1>3, UrlHandled
  <2>2. uploads' \subseteq uploads
    BY <1>2
  <2>3. CASE i # n
    <3>1. Secret(i) => Secret(i)'
      BY <1>2, <1>9, <2>3 DEF Secret
    <3> QED
      BY <1>1, <2>1, <2>2, <3>1, OnceKept
  <2>4. CASE i = n
    <3>1. ~Underway(i)' /\ ~Uploading(i)'
      BY <1>2, <1>10, <1>12, <2>1, <2>4 DEF Uploading
    <3>2. \A s, t \in uploads' : s.image = i /\ t.image = i => s = t
      BY <1>1, <1>2 DEF OnceOnly
    <3> QED
      BY <2>1, <3>1, <3>2 DEF OnceOnly, UrlKept
  <2> QED
    BY <2>3, <2>4
<1> QED
  BY <1>13, <1>14, <1>17, <1>18 DEF EditSound

(* A failed change of the image keeps the bookkeeping of images. *)
LEMMA ImageFailedSound ==
  ASSUME EditSound, NEW h, ImageFailed(h)
  PROVE  EditSound'
<1>1. EditTypes /\ EditorsKnown /\ Numbered /\ UrlsStored /\ \A i \in Nat : OnceOnly(i)
  BY DEF EditSound
<1>2. /\ doc' = doc /\ copies' = copies /\ stored' = stored /\ outbox' = outbox /\ made' = made
      /\ deleting' = deleting /\ uploads' = uploads /\ queries' = queries /\ tab' = tab
      /\ profile' = profile /\ editors' = editors
  BY DEF ImageFailed, server, storage
<1>3. Lost(handlers, handlers', h) /\ handlers \in Seq(Notice)
  BY <1>1 DEF ImageFailed, EditTypes
<1>4. handlers' \in Seq(Notice) /\ ToSet(handlers') \subseteq ToSet(handlers)
  BY <1>3, LostFacts
<1>5. EditTypes' /\ EditorsKnown'
  BY <1>1, <1>2, <1>4 DEF EditTypes, EditorsKnown
<1>6. Numbered' /\ UrlsStored'
  BY <1>1, <1>2 DEF Numbered, UrlsStored
<1>7. ASSUME NEW i \in Nat PROVE OnceOnly(i)'
  <2>1. UrlKept(i)
    BY <1>1, <1>2, <1>3, UrlHandled
  <2>2. Secret(i) => Secret(i)'
    BY <1>2, SecretKept
  <2>3. uploads' \subseteq uploads
    BY <1>2
  <2> QED
    BY <1>1, <2>1, <2>2, <2>3, OnceKept
<1> QED
  BY <1>5, <1>6, <1>7 DEF EditSound

----------------------------------------------------------------------------
(* The oldest query, for i, is answered and every post is to be written. *)
Rewriting(i, r) ==
  /\ i \in Nat /\ Lost(queries, queries', i)
  /\ r \in Seq(PostLetter) /\ outbox' = outbox \o r
  /\ \A j \in DOMAIN r : r[j].kind = "copy" /\ r[j].image = i
  /\ \A p \in LocalPosts : Has(r, OfPost(p))
  /\ UNCHANGED <<server, handlers, storage, profile, tab, editors, auxiliary>>

(* QueryAnswer has every post written that the client sees. *)
LEMMA QueryAnswerIs ==
  ASSUME EditSound, QueryAnswer
  PROVE  \E i \in Nat : \E r \in Seq(PostLetter) : Rewriting(i, r)
<1>1. EditTypes /\ queries \in Seq(Nat)
  BY DEF EditSound, EditTypes
<1>2. PICK i, ps : i = Head(queries) /\ ps = SetToSeq(LocalPosts)
  OBVIOUS
<1>3. Lost(queries, queries', i)
  BY <1>2 DEF QueryAnswer, Lost
<1>4. i \in Nat
  BY <1>1, <1>3, LostFacts
<1>5. PICK S : S = LocalPosts
  OBVIOUS
<1>6. IsFiniteSet(S) /\ S \subseteq OwnPosts
  BY <1>1, <1>5, LocalPostsAre
<1>7. ps = SetToSeq(S)
  <2>1. Cardinality(S) = Cardinality(S)
    BY DEF Cardinality
  <2> QED
    BY <1>2, <1>5, <2>1 DEF SetToSeq, IsInjective
<1>8. ps \in Seq(S) /\ ToSet(ps) = S
  BY <1>6, <1>7, SetToSeqIs
<1>9. PICK r : r = [j \in DOMAIN ps |-> [kind |-> "copy", post |-> ps[j], image |-> i, editor |-> 0]]
  OBVIOUS
<1>10. outbox' = outbox \o r
  BY <1>2, <1>9 DEF QueryAnswer
<1>11. DOMAIN r = DOMAIN ps /\ r = [j \in DOMAIN ps |-> r[j]]
  BY <1>9
<1>12. \A j \in DOMAIN ps : ps[j] \in S
  BY <1>8, SeqFacts
<1>13. \A j \in DOMAIN ps : /\ r[j] \in PostLetter /\ r[j].kind = "copy" /\ r[j].image = i
                            /\ r[j].post = ps[j]
  BY <1>4, <1>6, <1>9, <1>12 DEF PostLetter
<1>14. r \in Seq(PostLetter)
  BY <1>8, <1>11, <1>13, Replaced
<1>15. ASSUME NEW p \in S PROVE Has(r, OfPost(p))
  <2>1. PICK j \in DOMAIN ps : ps[j] = p
    BY <1>8 DEF ToSet
  <2>2. r[j] \in OfPost(p)
    BY <1>13, <2>1 DEF OfPost
  <2> QED
    BY <1>11, <2>2 DEF Has
<1>16. UNCHANGED <<server, handlers, storage, profile, tab, editors, auxiliary>>
  BY DEF QueryAnswer
<1>17. Rewriting(i, r)
  BY <1>3, <1>4, <1>5, <1>10, <1>11, <1>13, <1>14, <1>15, <1>16 DEF Rewriting
<1> QED
  BY <1>4, <1>14, <1>17

(* The answer of a query keeps the bookkeeping of images. *)
LEMMA RewritingSound ==
  ASSUME EditSound, NEW i, NEW r, Rewriting(i, r)
  PROVE  EditSound'
<1>1. EditTypes /\ EditorsKnown /\ Numbered /\ UrlsStored /\ \A c \in Nat : OnceOnly(c)
  BY DEF EditSound
<1>2. /\ doc' = doc /\ copies' = copies /\ stored' = stored /\ handlers' = handlers /\ made' = made
      /\ deleting' = deleting /\ uploads' = uploads /\ tab' = tab
      /\ profile' = profile /\ editors' = editors
  BY DEF Rewriting, server, storage
<1>3. Lost(queries, queries', i) /\ r \in Seq(PostLetter) /\ outbox' = outbox \o r
  BY DEF Rewriting
<1>4. queries \in Seq(Nat) /\ outbox \in Seq(Letter) /\ r \in Seq(Letter)
  BY <1>1, <1>3 DEF EditTypes, Letter
<1>5. queries' \in Seq(Nat)
  BY <1>3, <1>4, LostFacts
<1>6. outbox' \in Seq(Letter) /\ ToSet(outbox') = ToSet(outbox) \cup ToSet(r)
  BY <1>3, <1>4, ToSetConcat
<1>7. \A x \in ToSet(r) : x \notin DocLetter /\ x.editor = 0
  BY <1>3, ToSetType, LetterKinds
<1>8. EditTypes'
  BY <1>1, <1>2, <1>5, <1>6 DEF EditTypes
<1>9. EditorsKnown'
  BY <1>1, <1>2, <1>6, <1>7 DEF EditorsKnown
<1>10. Numbered' /\ UrlsStored'
  BY <1>1, <1>2, <1>6, <1>7 DEF Numbered, UrlsStored
<1>11. ASSUME NEW c \in Nat PROVE OnceOnly(c)'
  <2>1. UrlKept(c)
    BY <1>1, <1>2, <1>3, UrlJoined
  <2>2. Secret(c) => Secret(c)'
    BY <1>2, SecretKept
  <2>3. uploads' \subseteq uploads
    BY <1>2
  <2> QED
    BY <1>1, <2>1, <2>2, <2>3, OnceKept
<1> QED
  BY <1>8, <1>9, <1>10, <1>11 DEF EditSound

(* The error of a query keeps the bookkeeping of images. *)
LEMMA QueryErrorSound ==
  ASSUME EditSound, QueryError
  PROVE  EditSound'
<1>1. EditTypes /\ EditorsKnown /\ Numbered /\ UrlsStored /\ \A c \in Nat : OnceOnly(c)
  BY DEF EditSound
<1>2. /\ doc' = doc /\ copies' = copies /\ stored' = stored /\ handlers' = handlers /\ made' = made
      /\ deleting' = deleting /\ uploads' = uploads /\ tab' = tab /\ outbox' = outbox
      /\ profile' = profile /\ editors' = editors
  BY DEF QueryError, server, storage
<1>3. queries \in Seq(Nat) /\ queries # <<>> /\ queries' = Tail(queries)
  BY <1>1 DEF EditTypes, QueryError
<1>4. queries' \in Seq(Nat)
  BY <1>3
<1>5. EditTypes' /\ EditorsKnown' /\ Numbered' /\ UrlsStored'
  BY <1>1, <1>2, <1>4 DEF EditTypes, EditorsKnown, Numbered, UrlsStored
<1>6. ASSUME NEW c \in Nat PROVE OnceOnly(c)'
  <2>1. UrlKept(c)
    BY <1>1, <1>2, UrlSame
  <2>2. Secret(c) => Secret(c)'
    BY <1>2, SecretKept
  <2>3. uploads' \subseteq uploads
    BY <1>2
  <2> QED
    BY <1>1, <2>1, <2>2, <2>3, OnceKept
<1> QED
  BY <1>5, <1>6 DEF EditSound

(* The process ends: nothing is told to anybody any more. *)
LEMMA DieSound ==
  ASSUME EditSound, Die
  PROVE  EditSound'
<1>1. EditTypes /\ EditorsKnown /\ Numbered /\ UrlsStored /\ \A c \in Nat : OnceOnly(c)
  BY DEF EditSound
<1>2. /\ doc' = doc /\ copies' = copies /\ stored' = stored /\ handlers' = <<>> /\ made' = made
      /\ deleting' = {} /\ uploads' = {} /\ tab' = LocalDoc /\ queries' = <<>>
      /\ profile' = LocalDoc
  BY DEF Die, server
<1>3. /\ outbox' = [j \in DOMAIN outbox |-> [outbox[j] EXCEPT !.editor = 0]]
      /\ editors' = [e \in DOMAIN editors |->
                       [editors[e] EXCEPT !.open = FALSE, !.picking = FALSE]]
  BY DEF Die
<1>4. outbox \in Seq(Letter) /\ editors \in Seq(Sheet)
  BY <1>1 DEF EditTypes
<1>5. \A x \in Letter : /\ [x EXCEPT !.editor = 0] \in Letter /\ [x EXCEPT !.editor = 0].editor = 0
                        /\ [x EXCEPT !.editor = 0] \in DocLetter => x \in DocLetter
                        /\ [x EXCEPT !.editor = 0].user = x.user
  <2>1. \A x \in DocLetter : /\ [x EXCEPT !.editor = 0] \in DocLetter /\ [x EXCEPT !.editor = 0].editor = 0
                             /\ [x EXCEPT !.editor = 0].user = x.user
    BY DEF DocLetter
  <2>2. \A x \in PostLetter : [x EXCEPT !.editor = 0] = x /\ x.editor = 0
    BY DEF PostLetter
  <2> QED
    BY <2>1, <2>2, LetterKinds DEF Letter
<1>6. \A j \in DOMAIN outbox : /\ outbox[j] \in ToSet(outbox) /\ outbox'[j] \in Letter
                               /\ outbox'[j].editor = 0
                               /\ outbox'[j] \in DocLetter => outbox[j] \in DocLetter
                               /\ outbox'[j].user = outbox[j].user
  <2>1. \A j \in DOMAIN outbox : /\ outbox[j] \in ToSet(outbox) /\ outbox[j] \in Letter
                                 /\ outbox'[j] = [outbox[j] EXCEPT !.editor = 0]
    BY <1>3, <1>4, SeqFacts, ToSetType
  <2>2. ASSUME NEW j \in DOMAIN outbox
        PROVE  /\ outbox[j] \in ToSet(outbox) /\ outbox'[j] \in Letter
               /\ outbox'[j].editor = 0
               /\ outbox'[j] \in DocLetter => outbox[j] \in DocLetter
               /\ outbox'[j].user = outbox[j].user
    <3>1. PICK x, y : x = outbox[j] /\ y = [x EXCEPT !.editor = 0]
      OBVIOUS
    <3>2. x \in ToSet(outbox) /\ x \in Letter /\ outbox'[j] = y
      BY <2>1, <3>1
    <3>3. y \in Letter /\ y.editor = 0 /\ (y \in DocLetter => x \in DocLetter) /\ y.user = x.user
      BY <1>5, <3>1, <3>2
    <3> QED
      BY <3>1, <3>2, <3>3
  <2> QED
    BY <2>2
<1>7. outbox' = [j \in DOMAIN outbox |-> outbox'[j]]
  BY <1>3
<1>8. outbox' \in Seq(Letter) /\ DOMAIN outbox' = DOMAIN outbox
  BY <1>4, <1>6, <1>7, Replaced
<1>9. \A e \in DOMAIN editors : editors'[e] \in Sheet /\ editors'[e].user = editors[e].user
  <2>1. \A e \in DOMAIN editors :
          /\ editors[e] \in Sheet
          /\ editors'[e] = [editors[e] EXCEPT !.open = FALSE, !.picking = FALSE]
    BY <1>3, <1>4, SeqFacts
  <2>2. \A x \in Sheet :
          /\ [x EXCEPT !.open = FALSE, !.picking = FALSE] \in Sheet
          /\ [x EXCEPT !.open = FALSE, !.picking = FALSE].user = x.user
    BY DEF Sheet
  <2> QED
    BY <2>1, <2>2
<1>10. editors' = [e \in DOMAIN editors |-> editors'[e]]
  BY <1>3
<1>11. editors' \in Seq(Sheet) /\ DOMAIN editors' = DOMAIN editors
  BY <1>4, <1>9, <1>10, Replaced
<1>12. \A x \in ToSet(outbox') : x.editor = 0 /\ \E y \in ToSet(outbox) :
                                    (x \in DocLetter => y \in DocLetter) /\ x.user = y.user
  BY <1>6, <1>8 DEF ToSet
<1>13. LocalDoc \in Account /\ LocalDoc.image <= made
  BY <1>1, LocalDocIs
<1>14. <<>> \in Seq(Notice) /\ <<>> \in Seq(Nat)
  OBVIOUS
<1>15. EditTypes'
  BY <1>1, <1>2, <1>8, <1>11, <1>13, <1>14 DEF EditTypes
<1>16. EditorsKnown'
  BY <1>2, <1>12, ToSetEmpty DEF EditorsKnown
<1>17. \A x \in ToSet(outbox') : x \in DocLetter => x.user.image <= made
  BY <1>1, <1>12 DEF Numbered
<1>18. Numbered' /\ UrlsStored'
  BY <1>1, <1>2, <1>9, <1>11, <1>13, <1>17 DEF Numbered, UrlsStored
<1>19. ASSUME NEW c \in Nat PROVE OnceOnly(c)'
  <2>1. \A j \in DOMAIN outbox' : outbox'[j] \notin Tells(c)
    BY <1>6, <1>8 DEF Tells
  <2>2. DOMAIN handlers' = {}
    BY <1>2
  <2>3. LoneIn(outbox', handlers', Tells(c)) /\ ~Underway(c)' /\ ~Uploading(c)'
    BY <1>2, <2>1, <2>2 DEF LoneIn, Single, Has, Underway, Uploading
  <2> QED
    BY <1>2, <2>3 DEF OnceOnly
<1> QED
  BY <1>15, <1>16, <1>18, <1>19 DEF EditSound

----------------------------------------------------------------------------
(* Writes to posts are no others; the writes and completions tell their kinds. *)
LEMMA OtherKinds ==
  /\ \A x \in PostLetter : /\ x \notin DocLetter /\ x \notin ImageWrites /\ x \notin SaveWrites
                           /\ x \notin Early
  /\ \A x \in DocLetter : \A p : x \notin OfPost(p) /\ x \notin Adding(p)
  /\ \A x : x \in ImageWrites \/ x \in SaveWrites => x \in DocLetter /\ x \notin Early
  /\ \A x \in SaveWrites : x \notin ImageWrites
  /\ \A x \in SaveDone : x \in Notice /\ x \notin ImageDone /\ x \notin Early
  /\ \A x \in ImageDone : x \in Notice /\ x \notin SaveDone /\ x \notin Early
  /\ \A p : Adding(p) \subseteq OfPost(p)
<1>1. \A x \in PostLetter : /\ x \notin DocLetter /\ x \notin ImageWrites /\ x \notin SaveWrites
                            /\ x \notin Early
  BY LetterKinds DEF ImageWrites, SaveWrites, Early
<1>2. \A x \in DocLetter : \A p : x \notin OfPost(p) /\ x \notin Adding(p)
  BY LetterKinds DEF OfPost, Adding
<1>3. \A x : x \in ImageWrites \/ x \in SaveWrites => x \in DocLetter /\ x \notin Early
  BY DEF ImageWrites, SaveWrites, Early
<1>4. \A x \in SaveWrites : x \notin ImageWrites
  BY DEF ImageWrites, SaveWrites
<1>5. \A x \in SaveDone : x \in Notice /\ x \notin ImageDone /\ x \notin Early
  BY DEF ImageDone, SaveDone, Early
<1>6. \A x \in ImageDone : x \in Notice /\ x \notin SaveDone /\ x \notin Early
  BY DEF ImageDone, SaveDone, Early
<1>7. \A p : Adding(p) \subseteq OfPost(p)
  BY DEF Adding, OfPost
<1> QED
  BY <1>1, <1>2, <1>3, <1>4, <1>5, <1>6, <1>7

(* What is last is there. *)
LEMMA LastElement ==
  ASSUME NEW T, NEW s \in Seq(T), NEW X, NEW Y, Has(s, X), LastIn(s, X, Y)
  PROVE  Has(s, X \cap Y)
<1>1. PICK x \in X : \A Z : LastIn(s, X, Z) <=> x \in Z
  BY LastExists
<1>2. LastIn(s, X, ToSet(s))
  BY ToSetType DEF LastIn
<1>3. x \in ToSet(s) /\ x \in X \cap Y
  BY <1>1, <1>2
<1> QED
  BY <1>3, HasElement

(* An image that somebody knows was handed over. *)
LEMMA HandedWhenKnown ==
  ASSUME EditSound, NEW i \in Nat, Settled(i), ~Secret(i)
  PROVE  Handed
<1>1. EditTypes /\ EditorsKnown /\ OnceOnly(i)
  BY DEF EditSound
<1>2. outbox \in Seq(Letter) /\ handlers \in Seq(Notice) /\ editors \in Seq(Sheet)
  BY <1>1 DEF EditTypes
<1>3. ~Has(outbox, Tells(i)) /\ ~Has(handlers, Tells(i))
  BY <1>1 DEF OnceOnly, Underway
<1>4. ~Has(outbox, ImageWrites)
  <2>1. SUFFICES ASSUME Has(outbox, ImageWrites) PROVE FALSE
    OBVIOUS
  <2>2. Has(outbox, ImageWrites \cup SaveWrites)
    BY <2>1 DEF Has
  <2>3. LastIn(outbox, ImageWrites \cup SaveWrites, ImageWrites \cap Storing(i))
    BY <2>1 DEF Settled, Sent
  <2>4. PICK X, Y : X = ImageWrites \cup SaveWrites /\ Y = ImageWrites \cap Storing(i)
    OBVIOUS
  <2>5. Has(outbox, X \cap Y)
    BY <1>2, <2>2, <2>3, <2>4, LastElement
  <2>6. X \cap Y \subseteq Tells(i)
    BY <2>4 DEF ImageWrites, Storing, Tells
  <2> QED
    BY <1>3, <2>5, <2>6 DEF Has
<1>5. ~Has(handlers, ImageDone)
  <2>1. SUFFICES ASSUME Has(handlers, ImageDone) PROVE FALSE
    OBVIOUS
  <2>2. Has(handlers, ImageDone \cup SaveDone)
    BY <2>1 DEF Has
  <2>3. LastIn(handlers, ImageDone \cup SaveDone, Told(i))
    BY <1>4, <2>1 DEF Settled, Answered
  <2>4. PICK X : X = ImageDone \cup SaveDone
    OBVIOUS
  <2>5. Has(handlers, X \cap Told(i))
    BY <1>2, <2>2, <2>3, <2>4, LastElement
  <2>6. PICK x \in ToSet(handlers) : x \in Told(i)
    BY <2>5, HasElement
  <2>7. x.editor \in DOMAIN editors
    BY <1>1, <2>6 DEF EditorsKnown
  <2>8. x.editor # 0
    BY <1>2, <2>7
  <2>9. x \in Tells(i)
    BY <2>6, <2>8 DEF Told, ImageDone, Tells
  <2> QED
    BY <1>3, <2>6, <2>9, HasElement
<1> QED
  BY <1>4, <1>5 DEF Handed

(* The screens: nothing changes but what the new ones know. *)
LEMMA ScreensTruthful ==
  ASSUME EditInv, ScreenStep
  PROVE  EditTruthful'
<1>1. EditSound /\ EditTruthful /\ EditTypes /\ EditorsKnown
  BY DEF EditInv, EditSound
<1>2. Reopened
  BY <1>1, ScreenStepIs
<1>3. /\ doc' = doc /\ copies' = copies /\ stored' = stored /\ outbox' = outbox
      /\ handlers' = handlers /\ deleting' = deleting /\ uploads' = uploads
      /\ queries' = queries /\ profile' = profile /\ disturbed' = disturbed /\ late' = late
  BY <1>1, ScreenStepIs DEF server, storage, auxiliary
<1>4. SUFFICES ASSUME ~disturbed', ~Changing', NEW i \in Nat, ImageIs(i)'
               PROVE  Settled(i)'
  BY DEF EditTruthful
<1>5. Settled(i)
  BY <1>1, <1>3, <1>4 DEF EditTruthful, Changing, ImageIs
<1>6. Alive(i)' /\ Sent(i)' /\ Answered(i)'
  BY <1>3, <1>5 DEF Settled, Alive, Sent, Answered
<1>7. Handed' <=> Handed
  BY <1>3 DEF Handed
<1>8. Shown(i)'
  <2>1. SUFFICES ASSUME Handed PROVE Shown(i)'
    BY <1>7 DEF Shown
  <2>2. \A x \in ToSet(outbox) : x \in SaveWrites => editors'[x.editor].user.image = i
    <3>1. \A x \in ToSet(outbox) : x \in SaveWrites => x.editor \in DOMAIN editors
      BY <1>1 DEF EditorsKnown, SaveWrites
    <3> QED
      BY <1>2, <1>5, <2>1, <3>1 DEF Settled, Shown, Reopened
  <2>3. \A x \in ToSet(handlers) : x \in SaveDone => editors'[x.editor].user.image = i
    BY <1>1, <1>2, <1>5, <2>1 DEF Settled, Shown, Reopened, EditorsKnown
  <2> QED
    BY <1>3, <1>5, <2>1, <2>2, <2>3 DEF Settled, Shown
<1>9. Copied(i)'
  BY <1>3, <1>5, <1>7 DEF Settled, Copied, Present, CopyIs
<1> QED
  BY <1>6, <1>8, <1>9 DEF Settled

(* Done with new names: the screen stores the image that the document has. *)
LEMMA InfoTruthful ==
  ASSUME EditInv, NEW e \in DOMAIN editors, DoneInfo(e)
  PROVE  EditTruthful'
<1>1. EditSound /\ EditTruthful /\ EditTypes /\ outbox \in Seq(Letter)
  BY DEF EditInv, EditSound, EditTypes
<1>2. /\ SaveUserData(e, "save") /\ disturbed' = (disturbed \/ editors[e].user.image # LocalImage)
      /\ UNCHANGED <<late, server, handlers, storage, queries, profile, tab, editors>>
  BY DEF DoneInfo
<1>3. PICK x \in DocLetter : /\ WriteAdded(x) /\ x.kind = "save" /\ x.editor = e /\ x.editor # 0
                             /\ x.user = editors[e].user
  BY <1>1, <1>2, SaveIs
<1>4. /\ copies' = copies /\ stored' = stored /\ handlers' = handlers /\ deleting' = deleting
      /\ uploads' = uploads /\ queries' = queries /\ profile' = profile /\ editors' = editors
      /\ late' = late
  BY <1>2 DEF server, storage
<1>5. Gained(outbox, outbox', x) /\ x \in Letter
  BY <1>3 DEF WriteAdded
<1>6. /\ ToSet(outbox') = ToSet(outbox) \cup {x}
      /\ \A X : Has(outbox', X) <=> Has(outbox, X) \/ x \in X
      /\ \A X, Y : x \in X => (LastIn(outbox', X, Y) <=> x \in Y)
      /\ \A X, Y : x \notin X => (LastIn(outbox', X, Y) <=> LastIn(outbox, X, Y))
  BY <1>1, <1>5, GainedFacts
<1>7. x \in SaveWrites /\ x \notin ImageWrites /\ x \notin Early
  BY <1>3, OtherKinds DEF SaveWrites
<1>8. SUFFICES ASSUME ~disturbed', ~Changing', NEW i \in Nat, ImageIs(i)'
               PROVE  Settled(i)'
  BY DEF EditTruthful
<1>9. x \in Storing(i)
  BY <1>3, <1>6, <1>8 DEF ImageIs
<1>10. editors[e].user.image = i
  BY <1>3, <1>9 DEF Storing
<1>11. ~disturbed /\ i = LocalImage
  BY <1>2, <1>8, <1>10
<1>12. ImageIs(i)
  BY <1>1, <1>11, LocalImageIs
<1>13. ~Changing
  BY <1>4, <1>6, <1>8 DEF Changing
<1>14. Settled(i)
  BY <1>1, <1>11, <1>12, <1>13 DEF EditTruthful
<1>15. ~Secret(i)
  BY <1>10 DEF Secret
<1>16. Handed
  BY <1>1, <1>14, <1>15, HandedWhenKnown
<1>17. Handed'
  BY <1>4, <1>6, <1>7, <1>16 DEF Handed
<1>18. Alive(i)' /\ Sent(i)' /\ Answered(i)'
  BY <1>4, <1>14, <1>17 DEF Settled, Alive, Sent, Answered, Handed
<1>19. Shown(i)'
  BY <1>3, <1>4, <1>6, <1>10, <1>14, <1>16 DEF Settled, Shown
<1>20. \A p : x \notin OfPost(p) /\ x \notin Adding(p)
  BY <1>3, OtherKinds
<1>21. \A p : (Present(p)' <=> Present(p)) /\ (CopyIs(p, i)' <=> CopyIs(p, i))
  BY <1>4, <1>6, <1>20 DEF Present, CopyIs
<1>22. Copied(i)'
  BY <1>4, <1>14, <1>16, <1>21 DEF Settled, Copied
<1> QED
  BY <1>18, <1>19, <1>22 DEF Settled

(* A new post has the image of the document, or is one of the late ones. *)
LEMMA ShareTruthful ==
  ASSUME EditInv, NEW q \in OwnPosts, SharePost(q)
  PROVE  EditTruthful'
<1>1. EditSound /\ EditTruthful /\ EditTypes /\ outbox \in Seq(Letter)
  BY DEF EditInv, EditSound, EditTypes
<1>2. PICK x \in PostLetter : /\ WriteAdded(x) /\ x.kind = "post" /\ x.post = q
                              /\ x.image = tab.image
  BY <1>1, ShareIs
<1>3. /\ doc' = doc /\ copies' = copies /\ stored' = stored /\ handlers' = handlers
      /\ deleting' = deleting /\ uploads' = uploads /\ queries' = queries
      /\ profile' = profile /\ editors' = editors /\ disturbed' = disturbed
  BY DEF SharePost, server, storage
<1>4. Gained(outbox, outbox', x) /\ x \in Letter
  BY <1>2 DEF WriteAdded
<1>5. /\ ToSet(outbox') = ToSet(outbox) \cup {x}
      /\ \A X : Has(outbox', X) <=> Has(outbox, X) \/ x \in X
      /\ \A X, Y : x \in X => (LastIn(outbox', X, Y) <=> x \in Y)
      /\ \A X, Y : x \notin X => (LastIn(outbox', X, Y) <=> LastIn(outbox, X, Y))
  BY <1>1, <1>4, GainedFacts
<1>6. x \notin DocLetter /\ x \notin ImageWrites /\ x \notin SaveWrites /\ x \notin Early
  BY OtherKinds
<1>7. SUFFICES ASSUME ~disturbed', ~Changing', NEW i \in Nat, ImageIs(i)'
               PROVE  Settled(i)'
  BY DEF EditTruthful
<1>8. ImageIs(i) /\ ~Changing /\ ~disturbed
  BY <1>3, <1>5, <1>6, <1>7 DEF ImageIs, Changing
<1>9. Settled(i) /\ i = LocalImage
  BY <1>1, <1>8, LocalImageIs DEF EditTruthful
<1>10. x \notin ImageWrites \cup SaveWrites
  BY <1>6
<1>11. Handed' <=> Handed
  BY <1>3, <1>5, <1>6 DEF Handed
<1>12. Alive(i)' /\ Sent(i)' /\ Answered(i)'
  <2>1. Alive(i) /\ Sent(i) /\ Answered(i)
    BY <1>9 DEF Settled
  <2>2. Alive(i)' /\ Sent(i)'
    BY <1>3, <1>5, <1>6, <1>10, <2>1 DEF Alive, Sent
  <2>3. Answered(i)'
    BY <1>3, <1>5, <1>6, <2>1 DEF Answered
  <2> QED
    BY <2>2, <2>3
<1>13. Shown(i)'
  BY <1>3, <1>5, <1>6, <1>9, <1>11 DEF Settled, Shown
<1>14. ASSUME NEW p, Present(p)', ~Has(queries, Nat), Handed
       PROVE  CopyIs(p, i)' \/ p \in late'
  <2>1. late \subseteq late' /\ (x.image = LocalImage \/ q \in late')
    BY <1>2 DEF SharePost
  <2>2. CASE p = q
    <3>1. x \in OfPost(p) /\ (x \in Copying(p, i) <=> x.image = i)
      BY <1>2, <2>2 DEF OfPost, Copying
    <3>2. CopyIs(p, i)' <=> x.image = i
      BY <1>5, <3>1 DEF CopyIs
    <3> QED
      BY <1>9, <2>1, <2>2, <3>2
  <2>3. CASE p # q
    <3>1. x \notin OfPost(p) /\ x \notin Adding(p)
      BY <1>2, <2>3 DEF OfPost, Adding
    <3>2. Present(p) /\ (CopyIs(p, i)' <=> CopyIs(p, i))
      BY <1>3, <1>5, <1>14, <3>1 DEF Present, CopyIs
    <3>3. CopyIs(p, i) \/ p \in late
      BY <1>9, <1>14, <3>2 DEF Settled, Copied
    <3> QED
      BY <2>1, <3>2, <3>3
  <2> QED
    BY <2>2, <2>3
<1>15. Copied(i)'
  BY <1>3, <1>9, <1>11, <1>14 DEF Settled, Copied
<1> QED
  BY <1>12, <1>13, <1>15 DEF Settled

(* A deletion does not hit the image of the document. *)
LEMMA DeleteTruthful ==
  ASSUME EditInv, NEW c \in deleting, DeleteAnswer(c) \/ DeleteError(c)
  PROVE  EditTruthful'
<1>1. EditTruthful
  BY DEF EditInv
<1>2. /\ doc' = doc /\ copies' = copies /\ outbox' = outbox /\ handlers' = handlers
      /\ uploads' = uploads /\ queries' = queries /\ profile' = profile
      /\ editors' = editors /\ deleting' = deleting \ {c} /\ stored \ {c} \subseteq stored'
      /\ disturbed' = disturbed /\ late' = late
  BY DEF DeleteAnswer, DeleteError, server, auxiliary
<1>3. SUFFICES ASSUME ~disturbed', ~Changing', NEW i \in Nat, ImageIs(i)'
               PROVE  Settled(i)'
  BY DEF EditTruthful
<1>4. Settled(i)
  BY <1>1, <1>2, <1>3 DEF EditTruthful, Changing, ImageIs
<1>5. Alive(i)'
  BY <1>2, <1>4 DEF Settled, Alive
<1>6. Sent(i)' /\ Answered(i)'
  BY <1>2, <1>4 DEF Settled, Sent, Answered
<1>7. Handed' <=> Handed
  BY <1>2 DEF Handed
<1>8. Shown(i)'
  BY <1>2, <1>4, <1>7 DEF Settled, Shown
<1>9. Copied(i)'
  BY <1>2, <1>4, <1>7 DEF Settled, Copied, Present, CopyIs
<1> QED
  BY <1>5, <1>6, <1>8, <1>9 DEF Settled

(* The image whose URL is written is stored, and nobody has it deleted. *)
LEMMA UrlTruthful ==
  ASSUME EditInv, NEW t \in uploads, UrlAnswer(t)
  PROVE  EditTruthful'
<1>1. EditSound /\ EditTypes /\ outbox \in Seq(Letter) /\ UrlsStored /\ \A i \in Nat : OnceOnly(i)
  BY DEF EditInv, EditSound, EditTypes
<1>2. PICK x \in ImageWrites : Gained(outbox, outbox', x) /\ x.user.image = t.image
  BY <1>1, UrlSound
<1>3. x \in DocLetter
  BY OtherKinds
<1>4. x \in Letter
  BY <1>3 DEF Letter
<1>5. /\ \A X : Has(outbox', X) <=> Has(outbox, X) \/ x \in X
      /\ \A X, Y : x \in X => (LastIn(outbox', X, Y) <=> x \in Y)
  BY <1>1, <1>2, <1>4, GainedFacts
<1>6. SUFFICES ASSUME NEW i \in Nat, ImageIs(i)'
               PROVE  Settled(i)'
  BY DEF EditTruthful
<1>7. x \in Storing(i)
  BY <1>3, <1>5, <1>6 DEF ImageIs
<1>8. i = t.image
  BY <1>2, <1>7 DEF Storing
<1>9. t.phase = "url" /\ stored' = stored /\ deleting' = deleting
  BY DEF UrlAnswer, server
<1>10. Secret(i)
  BY <1>1, <1>8 DEF OnceOnly, Uploading
<1>11. Alive(i)'
  BY <1>1, <1>8, <1>9, <1>10 DEF UrlsStored, Secret, Alive
<1>12. x \in ImageWrites \cup SaveWrites /\ x \in ImageWrites \cap Storing(i)
  BY <1>7
<1>13. Sent(i)'
  BY <1>5, <1>12 DEF Sent
<1>14. Has(outbox', ImageWrites)
  BY <1>5
<1> QED
  BY <1>11, <1>13, <1>14 DEF Settled, Answered, Shown, Copied, Handed

----------------------------------------------------------------------------
(* A write is stored: what will be is now, or still will be. *)
LEMMA CommitTruthful ==
  ASSUME EditInv, CommitWrite
  PROVE  EditTruthful'
<1>1. EditSound /\ EditTruthful /\ EditTypes /\ outbox \in Seq(Letter) /\ handlers \in Seq(Notice)
  BY DEF EditInv, EditSound, EditTypes
<1>2. /\ Depart(FALSE) /\ doc' = Store(doc, Head(outbox))
      /\ copies' = StoreCopy(copies, Head(outbox)) /\ disturbed' = disturbed /\ late' = late
  BY DEF CommitWrite, auxiliary
<1>3. PICK w \in Letter : Departed(w, FALSE) /\ w = Head(outbox)
  BY <1>1, <1>2, DepartIs
<1>4. /\ stored' = stored /\ deleting' = deleting /\ uploads' = uploads
      /\ queries' = queries /\ profile' = profile /\ editors' = editors
  BY <1>3 DEF Departed, storage
<1>5. Lost(outbox, outbox', w)
  BY <1>3 DEF Departed
<1>6. /\ ToSet(outbox) = {w} \cup ToSet(outbox')
      /\ \A X : Has(outbox, X) <=> Has(outbox', X) \/ w \in X
      /\ \A X, Y : LastIn(outbox, X, Y) => LastIn(outbox', X, Y)
      /\ \A X, Y : LastIn(outbox, X, Y) /\ w \in X /\ ~Has(outbox', X) => w \in Y
      /\ \A X, Y : Has(outbox', X) /\ LastIn(outbox', X, Y) => LastIn(outbox, X, Y)
      /\ \A X, Y : ~Has(outbox', X) /\ w \in Y => LastIn(outbox, X, Y)
  BY <1>1, <1>5, LostFacts
<1>7. outbox' \in Seq(Letter)
  BY <1>1, <1>5, LostFacts
<1> DEFINE Passed ==
          /\ w \in Early => Has(handlers', Early)
          /\ w \in ImageWrites => \A i : Has(handlers', ImageDone)
               /\ (w \in Storing(i) => LastIn(handlers', ImageDone \cup SaveDone, Told(i)))
          /\ w \notin ImageWrites => (Has(handlers', ImageDone) <=> Has(handlers, ImageDone))
          /\ w \notin ImageWrites /\ w \notin SaveWrites => \A i : LastIn(handlers, ImageDone \cup SaveDone, Told(i))
               => LastIn(handlers', ImageDone \cup SaveDone, Told(i))
          /\ \A h \in ToSet(handlers') : h \in SaveDone =>
               h \in ToSet(handlers) \/ (w \in SaveWrites /\ h.editor = w.editor)
          /\ Has(handlers, Early) => Has(handlers', Early)
<1>8. Passed
  <2>1. CASE w.editor = 0 /\ handlers' = handlers
    BY <2>1 DEF Early, ImageWrites, SaveWrites
  <2>2. ASSUME NEW h \in Notice, Reported(w, h, FALSE)
        PROVE  Passed
    <3>1. /\ w \in DocLetter /\ w.editor # 0 /\ Gained(handlers, handlers', h)
          /\ h.kind = w.kind /\ h.user = w.user /\ h.editor = w.editor /\ h.failed = FALSE
      BY <2>2 DEF Reported
    <3>2. /\ ToSet(handlers') = ToSet(handlers) \cup {h}
          /\ \A X : Has(handlers', X) <=> Has(handlers, X) \/ h \in X
          /\ \A X, Y : h \in X => (LastIn(handlers', X, Y) <=> h \in Y)
          /\ \A X, Y : h \notin X => (LastIn(handlers', X, Y) <=> LastIn(handlers, X, Y))
      BY <1>1, <3>1, GainedFacts
    <3>3. /\ w \in Early <=> h \in Early
          /\ w \in ImageWrites <=> h \in ImageDone
          /\ w \in SaveWrites <=> h \in SaveDone
          /\ \A i : h \in ImageDone => (w \in Storing(i) <=> h \in Told(i))
      BY <3>1 DEF Early, ImageWrites, SaveWrites, ImageDone, SaveDone, Storing, Told
    <3>4. h \in ImageDone \cup SaveDone <=> h \in ImageDone \/ h \in SaveDone
      OBVIOUS
    <3> QED
      BY <3>1, <3>2, <3>3, <3>4
  <2> QED
    BY <1>3, <2>1, <2>2 DEF Departed
<1>9. SUFFICES ASSUME ~disturbed', ~Changing', NEW i \in Nat, ImageIs(i)'
               PROVE  Settled(i)'
  BY DEF EditTruthful
<1>10. ~disturbed /\ ~Changing
  BY <1>2, <1>4, <1>6, <1>8, <1>9 DEF Changing
<1>11. ImageIs(i)
  <2>1. CASE Has(outbox', DocLetter)
    BY <1>6, <1>9, <2>1 DEF ImageIs
  <2>2. CASE ~Has(outbox', DocLetter) /\ w \in DocLetter
    <3>1. doc'.image = i /\ doc'.image = w.user.image
      BY <1>1, <1>2, <1>3, <1>9, <2>2, StoreIs DEF ImageIs
    <3>2. w \in Storing(i)
      BY <2>2, <3>1 DEF Storing
    <3> QED
      BY <1>6, <2>2, <3>2 DEF ImageIs
  <2>3. CASE ~Has(outbox', DocLetter) /\ w \notin DocLetter
    <3>1. doc' = doc
      BY <1>1, <1>2, <1>3, <2>3, StoreIs DEF Letter
    <3> QED
      BY <1>6, <1>9, <2>3, <3>1 DEF ImageIs
  <2> QED
    BY <2>1, <2>2, <2>3
<1>12. Settled(i)
  BY <1>1, <1>10, <1>11 DEF EditTruthful
<1>13. Alive(i)'
  BY <1>4, <1>12 DEF Settled, Alive
<1>14. Sent(i)'
  BY <1>6, <1>12 DEF Settled, Sent
<1>15. Answered(i)'
  <2>1. SUFFICES ASSUME ~Has(outbox', ImageWrites), Has(handlers', ImageDone)
                 PROVE  /\ ~Has(outbox', SaveWrites)
                        /\ LastIn(handlers', ImageDone \cup SaveDone, Told(i))
    BY DEF Answered
  <2>2. CASE w \in ImageWrites
    <3>1. PICK X, Y : X = ImageWrites \cup SaveWrites /\ Y = ImageWrites \cap Storing(i)
      OBVIOUS
    <3>2. LastIn(outbox, X, Y) /\ w \in X
      BY <1>6, <1>12, <2>2, <3>1 DEF Settled, Sent
    <3>3. ~Has(outbox', X)
      <4>1. SUFFICES ASSUME Has(outbox', X) PROVE FALSE
        OBVIOUS
      <4>2. LastIn(outbox', X, Y)
        BY <1>6, <3>2
      <4>3. Has(outbox', X \cap Y)
        BY <1>7, <4>1, <4>2, LastElement
      <4> QED
        BY <2>1, <3>1, <4>3 DEF Has
    <3>4. w \in Y
      BY <1>6, <3>2, <3>3
    <3>5. ~Has(outbox', SaveWrites)
      BY <3>1, <3>3 DEF Has
    <3> QED
      BY <1>8, <2>2, <3>1, <3>4, <3>5
  <2>3. CASE w \notin ImageWrites
    <3>1. ~Has(outbox, ImageWrites) /\ Has(handlers, ImageDone)
      BY <1>6, <1>8, <2>1, <2>3
    <3>2. ~Has(outbox, SaveWrites) /\ LastIn(handlers, ImageDone \cup SaveDone, Told(i))
      BY <1>12, <3>1 DEF Settled, Answered
    <3>3. ~Has(outbox', SaveWrites) /\ w \notin SaveWrites
      BY <1>6, <3>2
    <3> QED
      BY <1>8, <2>3, <3>2, <3>3
  <2> QED
    BY <2>2, <2>3
<1>16. Handed' => Handed
  BY <1>6, <1>8 DEF Handed
<1>17. Shown(i)'
  <2>1. SUFFICES ASSUME Handed PROVE Shown(i)'
    BY <1>16 DEF Shown
  <2>2. /\ profile.image = i
        /\ \A x \in ToSet(outbox) : x \in SaveWrites => editors[x.editor].user.image = i
        /\ \A x \in ToSet(handlers) : x \in SaveDone => editors[x.editor].user.image = i
    BY <1>12, <2>1 DEF Settled, Shown
  <2>3. \A x \in ToSet(handlers') : x \in SaveDone => editors[x.editor].user.image = i
    BY <1>6, <1>8, <2>2
  <2> QED
    BY <1>4, <1>6, <2>2, <2>3 DEF Shown
<1>18. /\ \A p : p \in DOMAIN copies' => p \in DOMAIN copies \/ w \in Adding(p)
       /\ \A p \in DOMAIN copies' : w \in OfPost(p) => copies'[p] = w.image
       /\ \A p \in DOMAIN copies' : w \notin OfPost(p) => copies'[p] = copies[p]
  <2>1. CASE w \in DocLetter
    <3>1. copies' = copies
      BY <1>1, <1>2, <1>3, <2>1, StoreIs
    <3> QED
      BY <2>1, <3>1, OtherKinds
  <2>2. CASE w \in PostLetter
    BY <1>1, <1>2, <1>3, <2>2, StoreCopyIs
  <2> QED
    BY <2>1, <2>2 DEF Letter
<1>19. ASSUME NEW p, Present(p)', CopyIs(p, i) PROVE CopyIs(p, i)'
  <2>1. CASE Has(outbox', OfPost(p))
    BY <1>6, <1>19, <2>1 DEF CopyIs
  <2>2. CASE ~Has(outbox', OfPost(p))
    <3>1. ~Has(outbox', Adding(p))
      BY <2>2, OtherKinds DEF Has
    <3>2. p \in DOMAIN copies'
      BY <1>19, <3>1 DEF Present
    <3>3. CASE w \in OfPost(p)
      <4>1. w \in Copying(p, i)
        BY <1>6, <1>19, <2>2, <3>3 DEF CopyIs
      <4> QED
        BY <1>18, <2>2, <3>2, <3>3, <4>1 DEF CopyIs, Copying
    <3>4. CASE w \notin OfPost(p)
      <4>1. copies[p] = i
        BY <1>6, <1>19, <2>2, <3>4 DEF CopyIs
      <4> QED
        BY <1>18, <2>2, <3>2, <3>4, <4>1 DEF CopyIs
    <3> QED
      BY <3>3, <3>4
  <2> QED
    BY <2>1, <2>2
<1>20. \A p : Present(p)' => Present(p)
  BY <1>6, <1>18 DEF Present
<1>21. Copied(i)'
  BY <1>2, <1>4, <1>12, <1>16, <1>19, <1>20 DEF Settled, Copied
<1> QED
  BY <1>13, <1>14, <1>15, <1>17, <1>21 DEF Settled

(* The profile is handed the image that the screen knows. *)
LEMMA SaveHandledTruthful ==
  ASSUME EditInv, NEW h, SaveHandled(h)
  PROVE  EditTruthful'
<1>1. EditSound /\ EditTruthful /\ EditTypes /\ EditorsKnown /\ handlers \in Seq(Notice)
  BY DEF EditInv, EditSound, EditTypes
<1>2. /\ doc' = doc /\ copies' = copies /\ stored' = stored /\ outbox' = outbox
      /\ deleting' = deleting /\ uploads' = uploads /\ queries' = queries
      /\ disturbed' = disturbed /\ late' = late
  BY DEF SaveHandled, server, storage, auxiliary
<1>3. h \in SaveDone /\ Lost(handlers, handlers', h)
  BY DEF SaveHandled
<1>4. /\ ToSet(handlers) = {h} \cup ToSet(handlers')
      /\ \A X : Has(handlers, X) <=> Has(handlers', X) \/ h \in X
      /\ \A X, Y : LastIn(handlers, X, Y) => LastIn(handlers', X, Y)
  BY <1>1, <1>3, LostFacts
<1>5. h \notin ImageDone /\ h \notin Early
  BY <1>3, OtherKinds
<1>6. SUFFICES ASSUME ~disturbed', ~Changing', NEW i \in Nat, ImageIs(i)'
               PROVE  Settled(i)'
  BY DEF EditTruthful
<1>7. ImageIs(i) /\ ~Changing /\ ~disturbed
  BY <1>2, <1>4, <1>5, <1>6 DEF ImageIs, Changing
<1>8. Settled(i)
  BY <1>1, <1>7 DEF EditTruthful
<1>9. Alive(i)' /\ Sent(i)'
  BY <1>2, <1>8 DEF Settled, Alive, Sent
<1>10. Answered(i)'
  BY <1>2, <1>4, <1>5, <1>8 DEF Settled, Answered
<1>11. Handed' <=> Handed
  BY <1>2, <1>4, <1>5 DEF Handed
<1>12. Shown(i)'
  <2>1. SUFFICES ASSUME Handed PROVE Shown(i)'
    BY <1>11 DEF Shown
  <2>2. PICK e, n : e = h.editor /\ n = editors[e].user.image
    OBVIOUS
  <2>3. HandedOver(e, n)
    BY <2>2 DEF SaveHandled
  <2>4. /\ profile'.image = n /\ e \in DOMAIN editors
        /\ \A d \in DOMAIN editors : editors'[d].user.image = editors[d].user.image
    BY <2>2, <2>3 DEF HandedOver
  <2>5. /\ \A x \in ToSet(outbox) : x \in SaveWrites => editors[x.editor].user.image = i
        /\ \A x \in ToSet(handlers) : x \in SaveDone => editors[x.editor].user.image = i
    BY <1>8, <2>1 DEF Settled, Shown
  <2>6. n = i
    BY <1>3, <1>4, <2>2, <2>5
  <2>7. \A x \in ToSet(outbox) : x \in SaveWrites => x.editor \in DOMAIN editors
    BY <1>1 DEF EditorsKnown, SaveWrites
  <2>8. \A x \in ToSet(handlers') : x \in ToSet(handlers) /\ x.editor \in DOMAIN editors
    BY <1>1, <1>4 DEF EditorsKnown
  <2> QED
    BY <1>2, <2>4, <2>5, <2>6, <2>7, <2>8 DEF Shown
<1>13. Copied(i)'
  BY <1>2, <1>8, <1>11 DEF Settled, Copied, Present, CopyIs
<1> QED
  BY <1>9, <1>10, <1>12, <1>13 DEF Settled

(* The profile is handed the new image and the posts are queried for it. *)
LEMMA ImageHandledTruthful ==
  ASSUME EditInv, NEW h, ImageHandled(h)
  PROVE  EditTruthful'
<1>1. EditSound /\ EditTruthful /\ EditTypes /\ handlers \in Seq(Notice) /\ queries \in Seq(Nat)
  BY DEF EditInv, EditSound, EditTypes
<1>2. /\ doc' = doc /\ copies' = copies /\ stored' = stored /\ outbox' = outbox
      /\ deleting' = deleting /\ uploads' = uploads /\ disturbed' = disturbed /\ late' = late
  BY DEF ImageHandled, server, storage, auxiliary
<1>3. h \in ImageDone /\ Lost(handlers, handlers', h)
  BY DEF ImageHandled
<1>4. /\ handlers' \in Seq(Notice)
      /\ \A X : Has(handlers, X) <=> Has(handlers', X) \/ h \in X
      /\ \A X, Y : LastIn(handlers, X, Y) => LastIn(handlers', X, Y)
      /\ \A X, Y : LastIn(handlers, X, Y) /\ h \in X /\ ~Has(handlers', X) => h \in Y
  BY <1>1, <1>3, LostFacts
<1>5. h \notin SaveDone /\ h \notin Early
  BY <1>3, OtherKinds
<1>6. SUFFICES ASSUME ~disturbed', ~Changing', NEW i \in Nat, ImageIs(i)'
               PROVE  Settled(i)'
  BY DEF EditTruthful
<1>7. ImageIs(i) /\ ~Changing /\ ~disturbed
  BY <1>2, <1>4, <1>5, <1>6 DEF ImageIs, Changing
<1>8. Settled(i)
  BY <1>1, <1>7 DEF EditTruthful
<1>9. Alive(i)' /\ Sent(i)'
  BY <1>2, <1>8 DEF Settled, Alive, Sent
<1>10. Answered(i)'
  BY <1>2, <1>3, <1>4, <1>8 DEF Settled, Answered
<1>11. CASE ~Handed'
  BY <1>9, <1>10, <1>11 DEF Settled, Shown, Copied
<1>12. CASE Handed'
  <2>1. ~Has(outbox, ImageWrites) /\ ~Has(handlers', ImageDone)
    BY <1>2, <1>12 DEF Handed
  <2>2. PICK X : X = ImageDone \cup SaveDone
    OBVIOUS
  <2>3. ~Has(outbox, SaveWrites) /\ LastIn(handlers, X, Told(i))
    BY <1>3, <1>4, <1>8, <2>1, <2>2 DEF Settled, Answered
  <2>4. ~Has(handlers', X)
    <3>1. SUFFICES ASSUME Has(handlers', X) PROVE FALSE
      OBVIOUS
    <3>2. LastIn(handlers', X, Told(i))
      BY <1>4, <2>3
    <3>3. Has(handlers', X \cap Told(i))
      BY <1>4, <3>1, <3>2, LastElement
    <3> QED
      BY <2>1, <3>3 DEF Has, Told
  <2>5. h \in Told(i)
    BY <1>3, <1>4, <2>2, <2>3, <2>4
  <2>6. HandedOver(h.editor, i) /\ Gained(queries, queries', i)
    BY <2>5 DEF ImageHandled, Told
  <2>7. /\ \A x \in ToSet(outbox') : x \notin SaveWrites
        /\ \A x \in ToSet(handlers') : x \notin SaveDone
    BY <1>2, <2>2, <2>3, <2>4, HasElement
  <2>8. Shown(i)'
    BY <2>6, <2>7 DEF Shown, HandedOver
  <2>9. Has(queries', Nat) /\ LastIn(queries', Nat, {i})
    <3>1. i \in Nat /\ i \in {i}
      OBVIOUS
    <3>2. /\ \A Z : Has(queries', Z) <=> Has(queries, Z) \/ i \in Z
          /\ \A Z, Y : i \in Z => (LastIn(queries', Z, Y) <=> i \in Y)
      BY <1>1, <2>6, <3>1, GainedFacts
    <3> QED
      BY <3>1, <3>2
  <2>10. Copied(i)'
    BY <2>9 DEF Copied
  <2> QED
    BY <1>9, <1>10, <2>8, <2>10 DEF Settled
<1> QED
  BY <1>11, <1>12

(* A failed write of an image ends its chain. *)
LEMMA ImageFailedTruthful ==
  ASSUME EditInv, NEW h, ImageFailed(h)
  PROVE  EditTruthful'
<1>1. EditTruthful /\ handlers \in Seq(Notice)
  BY DEF EditInv, EditSound, EditTypes
<1>2. /\ doc' = doc /\ copies' = copies /\ stored' = stored /\ outbox' = outbox
      /\ deleting' = deleting /\ uploads' = uploads /\ queries' = queries /\ profile' = profile
      /\ editors' = editors /\ disturbed' = disturbed /\ late' = late
  BY DEF ImageFailed, server, storage, auxiliary
<1>3. h \in Notice /\ h.kind = "image" /\ h.failed /\ Lost(handlers, handlers', h)
  BY DEF ImageFailed
<1>4. /\ ToSet(handlers) = {h} \cup ToSet(handlers')
      /\ \A X : Has(handlers, X) <=> Has(handlers', X) \/ h \in X
      /\ \A X, Y : LastIn(handlers, X, Y) => LastIn(handlers', X, Y)
  BY <1>1, <1>3, LostFacts
<1>5. h \notin ImageDone /\ h \notin Early
  BY <1>3 DEF ImageDone, Early
<1>6. SUFFICES ASSUME ~disturbed', ~Changing', NEW i \in Nat, ImageIs(i)'
               PROVE  Settled(i)'
  BY DEF EditTruthful
<1>7. ImageIs(i) /\ ~Changing /\ ~disturbed
  BY <1>2, <1>4, <1>5, <1>6 DEF ImageIs, Changing
<1>8. Settled(i)
  BY <1>1, <1>7 DEF EditTruthful
<1>9. Alive(i)' /\ Sent(i)'
  BY <1>2, <1>8 DEF Settled, Alive, Sent
<1>10. Answered(i)'
  BY <1>2, <1>4, <1>5, <1>8 DEF Settled, Answered
<1>11. Handed' <=> Handed
  BY <1>2, <1>4, <1>5 DEF Handed
<1>12. Shown(i)'
  BY <1>2, <1>4, <1>8, <1>11 DEF Settled, Shown
<1>13. Copied(i)'
  BY <1>2, <1>8, <1>11 DEF Settled, Copied, Present, CopyIs
<1> QED
  BY <1>9, <1>10, <1>12, <1>13 DEF Settled

(* The last query finds every post there is. *)
LEMMA RewritingTruthful ==
  ASSUME EditInv, NEW c, NEW r, Rewriting(c, r)
  PROVE  EditTruthful'
<1>1. EditTruthful /\ EditTypes /\ outbox \in Seq(Letter) /\ queries \in Seq(Nat)
  BY DEF EditInv, EditSound, EditTypes
<1>2. /\ doc' = doc /\ copies' = copies /\ stored' = stored /\ handlers' = handlers
      /\ deleting' = deleting /\ uploads' = uploads /\ profile' = profile
      /\ editors' = editors /\ disturbed' = disturbed /\ late' = late
  BY DEF Rewriting, server, storage, auxiliary
<1>3. /\ c \in Nat /\ Lost(queries, queries', c) /\ r \in Seq(PostLetter) /\ outbox' = outbox \o r
      /\ \A j \in DOMAIN r : r[j].kind = "copy" /\ r[j].image = c
      /\ \A p \in LocalPosts : Has(r, OfPost(p))
  BY DEF Rewriting
<1>4. r \in Seq(Letter) /\ \A j \in DOMAIN r : r[j] \in PostLetter
  BY <1>3, SeqFacts DEF Letter
<1>5. ASSUME NEW X, NEW Y
      PROVE  /\ Has(outbox', X) <=> Has(outbox, X) \/ Has(r, X)
             /\ Has(r, X) /\ LastIn(r, X, Y) => LastIn(outbox', X, Y)
             /\ ~Has(r, X) => (LastIn(outbox', X, Y) <=> LastIn(outbox, X, Y))
  BY <1>1, <1>3, <1>4, LastConcat
<1>6. ~Has(r, DocLetter) /\ ~Has(r, ImageWrites) /\ ~Has(r, SaveWrites) /\ ~Has(r, Early)
  BY <1>4, OtherKinds DEF Has
<1>7. ~Has(r, ImageWrites \cup SaveWrites)
  BY <1>6 DEF Has
<1>8. /\ Has(queries, Nat) <=> Has(queries', Nat) \/ c \in Nat
      /\ \A Y : LastIn(queries, Nat, Y) => LastIn(queries', Nat, Y)
      /\ \A Y : LastIn(queries, Nat, Y) /\ ~Has(queries', Nat) => c \in Y
  BY <1>1, <1>3, LostFacts
<1>9. SUFFICES ASSUME ~disturbed', ~Changing', NEW i \in Nat, ImageIs(i)'
               PROVE  Settled(i)'
  BY DEF EditTruthful
<1>10. ImageIs(i) /\ ~Changing /\ ~disturbed
  BY <1>2, <1>5, <1>6, <1>9 DEF ImageIs, Changing
<1>11. Settled(i)
  BY <1>1, <1>10 DEF EditTruthful
<1>12. Alive(i)'
  BY <1>2, <1>11 DEF Settled, Alive
<1>13. (Has(outbox', ImageWrites) <=> Has(outbox, ImageWrites))
       /\ (Has(outbox', SaveWrites) <=> Has(outbox, SaveWrites))
  BY <1>5, <1>6
<1>14. Sent(i)'
  BY <1>5, <1>7, <1>11, <1>13 DEF Settled, Sent
<1>15. Answered(i)'
  BY <1>2, <1>11, <1>13 DEF Settled, Answered
<1>16. Handed' <=> Handed
  BY <1>2, <1>13 DEF Handed
<1>17. Shown(i)'
  <2>1. SUFFICES ASSUME Handed PROVE Shown(i)'
    BY <1>16 DEF Shown
  <2>2. ToSet(outbox') = ToSet(outbox) \cup ToSet(r)
    BY <1>1, <1>3, <1>4, ToSetConcat
  <2>3. \A x \in ToSet(r) : x \notin SaveWrites
    BY <1>6, HasElement
  <2> QED
    BY <1>2, <1>11, <2>1, <2>2, <2>3 DEF Settled, Shown
<1>18. CASE ~Handed'
  BY <1>12, <1>14, <1>15, <1>17, <1>18 DEF Settled, Copied
<1>19. CASE Handed'
  <2>1. LastIn(queries, Nat, {i})
    BY <1>3, <1>8, <1>11, <1>16, <1>19 DEF Settled, Copied
  <2>2. CASE Has(queries', Nat)
    <3>1. Copied(i)'
      BY <1>8, <2>1, <2>2 DEF Copied
    <3> QED
      BY <1>12, <1>14, <1>15, <1>17, <3>1 DEF Settled
  <2>3. CASE ~Has(queries', Nat)
    <3>1. c = i
      BY <1>8, <2>1, <2>3
    <3>2. ASSUME NEW p, Present(p)' PROVE CopyIs(p, i)'
      <4>1. ~Has(r, Adding(p))
        BY <1>3 DEF Has, Adding
      <4>2. Present(p)
        BY <1>2, <1>5, <3>2, <4>1 DEF Present
      <4>3. p \in LocalPosts
        BY <1>1, <4>2, LocalPostsAre
      <4>4. Has(r, OfPost(p))
        BY <1>3, <4>3
      <4>5. \A j \in DOMAIN r : r[j] \in OfPost(p) => r[j] \in Copying(p, i)
        BY <1>3, <3>1 DEF OfPost, Copying
      <4>6. LastIn(r, OfPost(p), Copying(p, i))
        BY <4>5 DEF LastIn
      <4> QED
        BY <1>5, <4>4, <4>6 DEF CopyIs
    <3>3. Copied(i)'
      BY <2>3, <3>2 DEF Copied
    <3> QED
      BY <1>12, <1>14, <1>15, <1>17, <3>3 DEF Settled
  <2> QED
    BY <2>2, <2>3
<1> QED
  BY <1>18, <1>19

(* An empty queue has nothing. *)
LEMMA NothingThere == \A X : ~Has(<<>>, X)
BY DEF Has

(* A restart in a quiet moment shows what the document says. *)
LEMMA DieTruthful ==
  ASSUME EditInv, Die
  PROVE  EditTruthful'
<1>1. EditSound /\ EditTruthful /\ EditTypes /\ Numbered
  BY DEF EditInv, EditSound
<1>2. /\ doc' = doc /\ copies' = copies /\ stored' = stored /\ late' = late
      /\ handlers' = <<>> /\ deleting' = {} /\ queries' = <<>> /\ profile' = LocalDoc
      /\ disturbed' = (disturbed \/ ~Quiet)
  BY DEF Die, server
<1>3. SUFFICES ASSUME ~disturbed', ~Changing', NEW i \in Nat, ImageIs(i)'
               PROVE  Settled(i)'
  BY DEF EditTruthful
<1>4. /\ ~disturbed /\ outbox = <<>> /\ handlers = <<>> /\ queries = <<>> /\ uploads = {}
  BY <1>2, <1>3 DEF Quiet
<1>5. outbox' = <<>>
  <2>1. outbox' = [j \in DOMAIN outbox |-> [outbox[j] EXCEPT !.editor = 0]]
    BY DEF Die
  <2> QED
    BY <1>4, <2>1
<1>6. /\ \A X : ~Has(outbox, X) /\ ~Has(outbox', X) /\ ~Has(handlers, X) /\ ~Has(handlers', X)
      /\ ~Has(queries, Nat) /\ ~Has(queries', Nat)
  BY <1>2, <1>4, <1>5, NothingThere
<1>7. ImageIs(i) /\ ~Changing
  BY <1>2, <1>3, <1>4, <1>6 DEF ImageIs, Changing
<1>8. Settled(i) /\ i = LocalImage
  BY <1>1, <1>4, <1>7, LocalImageIs DEF EditTruthful
<1>9. profile'.image = i
  BY <1>1, <1>2, <1>8, LocalDocIs
<1>10. Alive(i)'
  BY <1>2, <1>8 DEF Settled, Alive
<1>11. Sent(i)' /\ Answered(i)'
  BY <1>6 DEF Sent, Answered
<1>12. ToSet(outbox') = {} /\ ToSet(handlers') = {}
  BY <1>2, <1>5, ToSetEmpty
<1>13. Shown(i)'
  BY <1>9, <1>12 DEF Shown
<1>14. Handed
  BY <1>6 DEF Handed
<1>15. Copied(i)'
  BY <1>2, <1>6, <1>8, <1>14 DEF Settled, Copied, Present, CopyIs
<1> QED
  BY <1>10, <1>11, <1>13, <1>15 DEF Settled

(* At the start the document names the image there is, and so do the posts. *)
LEMMA EditStarts ==
  ASSUME EditInit
  PROVE  EditInv
<1>1. /\ FirstName \in Names /\ OldPosts \subseteq OwnPosts /\ IsFiniteSet(OldPosts)
      /\ FirstImages \subseteq {0, 1}
  BY ProfileEditAssumption DEF IsFiniteSet, Foreign
<1>2. /\ doc \in [name : {FirstName}, image : FirstImages]
      /\ copies = [p \in OldPosts |-> doc.image] /\ stored = {doc.image} \ {0}
      /\ outbox = <<>> /\ handlers = <<>> /\ deleting = {} /\ uploads = {} /\ queries = <<>>
      /\ profile = doc /\ tab = doc /\ editors = <<>> /\ made = 1
  BY DEF EditInit, Foreign
<1>3. doc \in Account /\ doc.image \in {0, 1}
  <2>1. doc \in [name : {FirstName}, image : FirstImages]
    BY <1>2
  <2>2. doc.name = FirstName /\ doc.image \in FirstImages
    BY <2>1
  <2>3. doc.name \in Names /\ doc.image \in {0, 1} /\ doc.image \in Nat
    <3>1. doc.name \in Names
      BY <1>1, <2>2
    <3>2. doc.image \in {0, 1}
      BY <1>1, <2>2
    <3> QED
      BY <3>1, <3>2
  <2>4. doc = [name |-> doc.name, image |-> doc.image]
    BY <2>1
  <2> QED
    BY <2>3, <2>4 DEF Account
<1>4. /\ <<>> \in Seq(Letter) /\ <<>> \in Seq(Notice) /\ <<>> \in Seq(Nat) /\ <<>> \in Seq(Sheet)
      /\ DOMAIN <<>> = {}
  OBVIOUS
<1>5. DOMAIN copies = OldPosts /\ \A p \in OldPosts : copies[p] = doc.image
  BY <1>2
<1>6. EditTypes
  BY <1>1, <1>2, <1>3, <1>4, <1>5 DEF EditTypes
<1>7. ToSet(outbox) = {} /\ ToSet(handlers) = {} /\ DOMAIN editors = {}
  BY <1>2, <1>4, ToSetEmpty
<1>8. EditorsKnown /\ UrlsStored
  BY <1>2, <1>7 DEF EditorsKnown, UrlsStored
<1>9. Numbered
  BY <1>2, <1>3, <1>7 DEF Numbered
<1>10. \A X : ~Has(outbox, X) /\ ~Has(handlers, X) /\ ~Has(queries, X)
  BY <1>2, NothingThere
<1>11. \A i \in Nat : OnceOnly(i)
  <2>1. DOMAIN outbox = {} /\ DOMAIN handlers = {}
    BY <1>2, <1>4
  <2> QED
    BY <1>2, <1>10, <2>1 DEF OnceOnly, LoneIn, Single, Uploading, Underway
<1>12. EditSound
  BY <1>6, <1>8, <1>9, <1>11 DEF EditSound
<1>13. ASSUME NEW i \in Nat, ImageIs(i) PROVE Settled(i)
  <2>1. doc.image = i
    BY <1>10, <1>13 DEF ImageIs
  <2>2. Alive(i)
    BY <1>2, <2>1 DEF Alive
  <2>3. Sent(i) /\ Answered(i)
    BY <1>10 DEF Sent, Answered
  <2>4. Shown(i)
    BY <1>2, <1>7, <2>1 DEF Shown
  <2>5. Copied(i)
    BY <1>5, <1>10, <2>1 DEF Copied, Present, CopyIs
  <2> QED
    BY <2>2, <2>3, <2>4, <2>5 DEF Settled
<1> QED
  BY <1>12, <1>13 DEF EditInv, EditTruthful

----------------------------------------------------------------------------
(* Every Done keeps the invariant. *)
LEMMA DoneKept ==
  ASSUME EditInv, NEW e \in DOMAIN editors, HandleDone(e)
  PROVE  EditInv'
<1>1. EditSound
  BY DEF EditInv
<1>2. DoneImage(e) \/ DoneInfo(e) \/ DoneBoth(e)
  BY DEF HandleDone
<1>3. CASE DoneImage(e)
  <2>1. \/ UpdateProfileImage(e) /\ UNCHANGED handlers
        \/ Die
    BY <1>3 DEF DoneImage, Trap
  <2>2. CASE UpdateProfileImage(e) /\ UNCHANGED handlers
    <3>1. EditSound' /\ uploads' # {}
      BY <1>1, <2>2, UpdateSound
    <3> QED
      BY <3>1 DEF EditInv, EditTruthful, Changing
  <2>3. CASE Die
    BY <1>1, <2>3, DieSound, DieTruthful DEF EditInv
  <2> QED
    BY <2>1, <2>2, <2>3
<1>4. CASE DoneInfo(e)
  <2>1. /\ SaveUserData(e, "save")
        /\ UNCHANGED <<server, handlers, storage, queries, profile, tab, editors>>
    BY <1>4 DEF DoneInfo
  <2>2. \E x \in DocLetter : WriteAdded(x)
    BY <1>1, <2>1, SaveIs
  <2>3. EditSound'
    BY <1>1, <2>2, WriteSound
  <2> QED
    BY <1>4, <2>3, InfoTruthful DEF EditInv
<1>5. CASE DoneBoth(e)
  <2>1. /\ SaveUserData(e, "saveFirst")
        /\ UNCHANGED <<server, handlers, storage, queries, profile, tab, editors>>
    BY <1>5 DEF DoneBoth
  <2>2. PICK x \in DocLetter : WriteAdded(x) /\ x.kind = "saveFirst" /\ x.editor # 0
    BY <1>1, <2>1, SaveIs
  <2>3. EditSound'
    BY <1>1, <2>2, WriteSound
  <2>4. outbox \in Seq(Letter) /\ x \in Letter /\ Gained(outbox, outbox', x)
    BY <1>1, <2>2 DEF EditSound, EditTypes, WriteAdded
  <2>5. x \in Early
    BY <2>2 DEF Early
  <2>6. Has(outbox', Early)
    BY <2>4, <2>5, GainedFacts
  <2> QED
    BY <2>3, <2>6 DEF EditInv, EditTruthful, Changing
<1> QED
  BY <1>2, <1>3, <1>4, <1>5

(* Every answer to an upload keeps the invariant. *)
LEMMA UploadKept ==
  ASSUME EditInv, NEW t \in uploads, PutAnswer(t) \/ UrlAnswer(t) \/ UploadError(t)
  PROVE  EditInv'
<1>1. EditSound
  BY DEF EditInv
<1>2. CASE PutAnswer(t)
  <2>1. EditSound' /\ uploads' # {}
    BY <1>1, <1>2, PutSound
  <2> QED
    BY <2>1 DEF EditInv, EditTruthful, Changing
<1>3. CASE UrlAnswer(t)
  BY <1>1, <1>3, UrlSound, UrlTruthful DEF EditInv
<1>4. CASE UploadError(t)
  <2>1. EditSound' /\ disturbed'
    BY <1>1, <1>4, UploadErrorSound DEF UploadError
  <2> QED
    BY <2>1 DEF EditInv, EditTruthful
<1> QED
  BY <1>2, <1>3, <1>4

(* Every answer to a write keeps the invariant. *)
LEMMA DepartKept ==
  ASSUME EditInv, CommitWrite \/ Refuse
  PROVE  EditInv'
<1>1. EditSound
  BY DEF EditInv
<1>2. CASE CommitWrite
  <2>1. Depart(FALSE) /\ doc' = Store(doc, Head(outbox))
        /\ copies' = StoreCopy(copies, Head(outbox))
    BY <1>2 DEF CommitWrite
  <2>2. PICK w \in Letter : Departed(w, FALSE) /\ w = Head(outbox)
    BY <1>1, <2>1, DepartIs
  <2>3. Lost(outbox, outbox', w)
    BY <2>2 DEF Departed
  <2>4. Kept(doc', copies')
    BY <1>1, <2>1, <2>2, <2>3, StoreSound
  <2>5. EditSound'
    BY <1>1, <2>2, <2>4, DepartSound
  <2> QED
    BY <1>2, <2>5, CommitTruthful DEF EditInv
<1>3. CASE Refuse
  <2>1. Depart(TRUE) /\ doc' = doc /\ copies' = copies /\ disturbed'
    BY <1>3 DEF Refuse
  <2>2. PICK w \in Letter : Departed(w, TRUE)
    BY <1>1, <2>1, DepartIs
  <2>3. Lost(outbox, outbox', w)
    BY <2>2 DEF Departed
  <2>4. Kept(doc', copies')
    BY <1>1, <2>1, <2>3, StoreSound
  <2>5. EditSound'
    BY <1>1, <2>2, <2>4, DepartSound
  <2> QED
    BY <2>1, <2>5 DEF EditInv, EditTruthful
<1> QED
  BY <1>2, <1>3

(* Every completion keeps the invariant. *)
LEMMA HandleKept ==
  ASSUME EditInv, Handle
  PROVE  EditInv'
<1>1. EditSound /\ EditTypes /\ EditorsKnown /\ handlers \in Seq(Notice)
  BY DEF EditInv, EditSound, EditTypes
<1>2. CASE HandleSave
  <2>1. PICK h \in Notice : SaveHandled(h)
    BY <1>1, <1>2, HandleSaveIs
  <2> QED
    BY <1>1, <2>1, SaveHandledSound, SaveHandledTruthful DEF EditInv
<1>3. CASE HandleSaveFirst
  <2>1. PICK h, e : h = Head(handlers) /\ e = h.editor
    OBVIOUS
  <2>2. /\ handlers # <<>>
        /\ \/ UpdateProfileImage(e) /\ handlers' = Tail(handlers)
           \/ Die
    BY <1>3, <2>1 DEF HandleSaveFirst, Trap
  <2>3. CASE UpdateProfileImage(e) /\ handlers' = Tail(handlers)
    <3>1. Lost(handlers, handlers', h)
      BY <2>1, <2>2, <2>3 DEF Lost
    <3>2. h \in ToSet(handlers)
      BY <1>1, <3>1, LostFacts
    <3>3. e \in DOMAIN editors
      BY <1>1, <2>1, <3>2 DEF EditorsKnown
    <3>4. EditSound' /\ uploads' # {}
      BY <1>1, <2>3, <3>1, <3>3, UpdateSound
    <3> QED
      BY <3>4 DEF EditInv, EditTruthful, Changing
  <2>4. CASE Die
    BY <1>1, <2>4, DieSound, DieTruthful DEF EditInv
  <2> QED
    BY <2>2, <2>3, <2>4
<1>4. CASE HandleImage
  <2>1. PICK h \in Notice : ImageHandled(h) \/ ImageFailed(h)
    BY <1>1, <1>4, HandleImageIs
  <2>2. CASE ImageHandled(h)
    BY <1>1, <2>2, ImageHandledSound, ImageHandledTruthful DEF EditInv
  <2>3. CASE ImageFailed(h)
    BY <1>1, <2>3, ImageFailedSound, ImageFailedTruthful DEF EditInv
  <2> QED
    BY <2>1, <2>2, <2>3
<1> QED
  BY <1>2, <1>3, <1>4 DEF Handle

(* Every step keeps the invariant. *)
LEMMA EditStep ==
  ASSUME EditInv, [EditNext]_editVars
  PROVE  EditInv'
<1>1. EditSound
  BY DEF EditInv
<1>2. CASE UNCHANGED editVars
  <2>1. /\ doc' = doc /\ copies' = copies /\ stored' = stored /\ outbox' = outbox
        /\ handlers' = handlers /\ deleting' = deleting /\ uploads' = uploads
        /\ queries' = queries /\ profile' = profile /\ tab' = tab /\ editors' = editors
        /\ made' = made /\ disturbed' = disturbed /\ late' = late
    BY <1>2 DEF editVars, server, storage, auxiliary
  <2>2. EditTypes' /\ EditorsKnown' /\ Numbered' /\ UrlsStored'
    BY <1>1, <2>1 DEF EditSound, EditTypes, EditorsKnown, Numbered, UrlsStored
  <2>3. \A i \in Nat : OnceOnly(i)'
    BY <1>1, <2>1 DEF EditSound, OnceOnly, Uploading, Underway, Secret
  <2>4. ASSUME NEW i \in Nat PROVE (ImageIs(i)' => ImageIs(i)) /\ (Settled(i) => Settled(i)')
    BY <2>1 DEF ImageIs, Settled, Alive, Sent, Answered, Shown, Copied, Handed, Present, CopyIs
  <2>5. EditTruthful'
    BY <2>1, <2>4 DEF EditInv, EditTruthful, Changing
  <2> QED
    BY <2>2, <2>3, <2>5 DEF EditInv, EditSound
<1>3. CASE ScreenStep
  BY <1>1, <1>3, ScreensSound, ScreensTruthful DEF EditInv
<1>4. ASSUME NEW e \in DOMAIN editors, HandleDone(e) PROVE EditInv'
  BY <1>4, DoneKept
<1>5. ASSUME NEW p \in OwnPosts, SharePost(p) PROVE EditInv'
  <2>1. \E x \in PostLetter : WriteAdded(x)
    BY <1>1, <1>5, ShareIs
  <2>2. EditSound'
    BY <1>1, <2>1, WriteSound
  <2> QED
    BY <1>5, <2>2, ShareTruthful DEF EditInv
<1>6. ASSUME NEW i \in deleting, DeleteAnswer(i) \/ DeleteError(i) PROVE EditInv'
  BY <1>1, <1>6, DeleteSound, DeleteTruthful DEF EditInv
<1>7. ASSUME NEW t \in uploads, PutAnswer(t) \/ UrlAnswer(t) \/ UploadError(t)
      PROVE  EditInv'
  BY <1>7, UploadKept
<1>8. CASE CommitWrite \/ Refuse
  BY <1>8, DepartKept
<1>9. CASE Handle
  BY <1>9, HandleKept
<1>10. CASE QueryAnswer
  <2>1. PICK i \in Nat, r \in Seq(PostLetter) : Rewriting(i, r)
    BY <1>1, <1>10, QueryAnswerIs
  <2> QED
    BY <1>1, <2>1, RewritingSound, RewritingTruthful DEF EditInv
<1>11. CASE QueryError
  <2>1. EditSound' /\ disturbed'
    BY <1>1, <1>11, QueryErrorSound DEF QueryError
  <2> QED
    BY <2>1 DEF EditInv, EditTruthful
<1>12. CASE Kill
  <2>1. Die
    BY <1>12 DEF Kill
  <2> QED
    BY <1>1, <2>1, DieSound, DieTruthful DEF EditInv
<1> QED
  BY <1>2, <1>3, <1>4, <1>5, <1>6, <1>7, <1>8, <1>9, <1>10, <1>11, <1>12
  DEF EditNext, ScreenStep

(* When nothing is on its way, what will be is what is. *)
LEMMA QuietIs ==
  ASSUME EditInv, Quiet, ~disturbed
  PROVE  /\ doc.image \in Nat /\ Alive(doc.image) /\ profile.image = doc.image
         /\ \A p \in DOMAIN copies : copies[p] = doc.image \/ p \in late
<1>1. outbox = <<>> /\ handlers = <<>> /\ queries = <<>> /\ uploads = {}
  BY DEF Quiet
<1>2. \A X : ~Has(outbox, X) /\ ~Has(handlers, X) /\ ~Has(queries, X)
  BY <1>1, NothingThere
<1>3. PICK i : i = doc.image
  OBVIOUS
<1>4. i \in Nat
  BY <1>3 DEF EditInv, EditSound, EditTypes, Account
<1>5. ~Changing /\ ImageIs(i)
  BY <1>1, <1>2, <1>3 DEF Changing, ImageIs
<1>6. Settled(i)
  BY <1>4, <1>5 DEF EditInv, EditTruthful
<1>7. Handed
  BY <1>2 DEF Handed
<1>8. Alive(i) /\ profile.image = i
  BY <1>6, <1>7 DEF Settled, Shown
<1>9. \A p : Present(p) => CopyIs(p, i) \/ p \in late
  BY <1>2, <1>6, <1>7 DEF Settled, Copied
<1>10. \A p \in DOMAIN copies : copies[p] = i \/ p \in late
  BY <1>2, <1>9 DEF Present, CopyIs
<1> QED
  BY <1>3, <1>4, <1>8, <1>10

(* The invariant holds of every execution: images are made, told and shown   *)
(* once, and unless a fault disturbed it, the last change comes through.     *)
THEOREM EditInvAlways == EditSpec => []EditInv
<1>1. EditInit => EditInv
  BY EditStarts
<1>2. EditInv /\ [EditNext]_editVars => EditInv'
  BY EditStep
<1> QED
  BY <1>1, <1>2, PTL DEF EditSpec

(* EditProfileController: however the chains overlap, once nothing is on its *)
(* way and nothing went wrong, the User document names an image that exists. *)
THEOREM ImageAliveAlways == EditSpec => []ImageAlive
<1>1. EditInv => ImageAlive
  BY QuietIs DEF ImageAlive, Foreign, Alive
<1>2. EditSpec => []EditInv
  BY EditInvAlways
<1> QED
  BY <1>1, <1>2, PTL

(* Under the same conditions the posts carry that image, unless they were    *)
(* shared with the old one after the change.                                 *)
THEOREM CopiesFollowAlways == EditSpec => []CopiesFollow
<1>1. EditInv => CopiesFollow
  BY QuietIs DEF CopiesFollow
<1>2. EditSpec => []EditInv
  BY EditInvAlways
<1> QED
  BY <1>1, <1>2, PTL

(* Under the same conditions the profile screen shows it.                    *)
THEOREM ProfileShowsImageAlways == EditSpec => []ProfileShowsImage
<1>1. EditInv => ProfileShowsImage
  BY QuietIs DEF ProfileShowsImage
<1>2. EditSpec => []EditInv
  BY EditInvAlways
<1> QED
  BY <1>1, <1>2, PTL
=============================================================================
