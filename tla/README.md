# A TLA+ model of InstagramClone

InstagramClone is an iOS app (Swift, UIKit) without a server of its own: accounts,
documents and images live in Firebase Auth, Firestore and Storage, and every
consistency rule is kept, or not, by the completion handlers of the app. This
directory models those handlers and the part of the Firestore client they rest on,
checks them with TLC and proves their safety properties with TLAPS.

The app's code is under `src/InstagramClone/InstagramClone`; paths below are
relative to it.

## 1. Inventory

| Component | State | Operations | Talks to |
|---|---|---|---|
| Firestore client (vendored): `SyncEngine`, `LocalStore`, `RemoteStore`, `WriteStream` | mutation queues, batch ids, write pipeline, stream, completions | setData, updateData, delete, getDocument(s), addSnapshotListener; handshake, responses, restart, change of account | the backend; everything below |
| Following (`API/UserService`, `Controller/ProfileController`) | `Following/u/user-following/v`, `Follower/v/user-followers/u`, `user.isFollowed` of the screen | follow, unFollow, isUserFollowed | notifications, feed documents |
| Feed documents and feed screen (`API/PostService`, `Controller/FeedController`) | `User/u/feeds/p`; rows, hearts, refresh control | updateUserFeed, removeUserFeed, fetchFeedPosts, refresh | follow chain, likes, upload |
| Likes (`API/PostService`, `Controller/FeedController`, `View/FeedCell`) | `Post/p.likes`, `Post/p/likes/u`, `User/u/likes/p`; rows, cells | likePost, unlikePost, isUserLikedPost | notifications |
| Comments (`API/CommentService`, `Controller/CommentController`) | `Post/p/comments`, list and input field of each screen | uploadComment, fetchComments | notifications |
| Notifications (`API/NotificationService`, `Controller/NotificationController`) | `Notification/v/user-notifications`; rows, cells | addNotification, fetchNotifications, follow from a cell | following |
| Profile editing (`Controller/EditProfileController`, `API/UserService`, `API/ImageUploaderService`) | User document, image in Storage, `ownerProfileImage` of posts | saveUserData, updateProfileImage, uploadImage | Storage, posts, profile screen |
| Session (`API/AuthService`, `Controller/MainTabController`, Login and Registration) | signed-in account, `MainTabController.user`, login screen | loginUser, registerUser, registerGoogleUser, logoutUser, fetchUser | every screen |
| Uploading a post (`Controller/UploadPostController`) | screen, upload | Share, Cancel | Storage, posts, feed screen |
| Search (`Controller/SearchController`) | users, filtered users | fetchUsers, filter | profile screen |
| Forms, view models, model structs | none beyond one record | pure functions | all screens |

Components interact in three ways: a completion handler that calls the next
service, a delegate call from a view to its controller, and documents that one
component writes and another reads.

What is hard here:

* **Interleaving.** No button is disabled while its chain of callbacks runs, and
  a screen can be closed, and opened again, in the middle of one.
* **Copies.** A relation or a value is stored two or three times (Following and
  Follower; likes under post and user and as a number; the profile image in the
  User document and in posts) by separate writes without a transaction.
* **Ignored errors.** Most completions do not look at their error argument.
* **Death of the process.** The Firestore client restores pending writes from
  disk; the completion handlers that continue the chain are gone.
* **Stale copies.** Values are computed from structs captured by a cell, a
  screen or a closure some time ago.
* **Correlation by position.** Responses of the write stream carry no id, batch ids
  are chosen anew after every change of account, and a broken stream makes the
  client send everything again.

What makes each component correct is stated by the properties of section 4. The
complete list of hazards, each with its line, is in `PROJECT.json`.

## 2. Modules

| Module | Models |
|---|---|
| `WriteQueue` | abstract: what the Firestore client promises about writes and completions |
| `WritePipeline` | the client's way from a write to its completion; implements `WriteQueue` |
| `TwoLegWrite` | abstract: a relation kept in a primary and a mirror document; the promise that follow and like share |
| `TwoLegWriteProofs` | its theorems; in sections of their own `TwoLegWriteProofs` also holds those about `NotificationScreen`, `SessionProofs` those about `Search` and `UploadPostProofs` those about `ProfileEdit`, whose components they share documents or screens with. These three name their specifications `NoteSpec`, `SearchSpec` and `EditSpec`, and their own variables apart, so that one module can extend both |
| `Selection` | lists out of lists: filter, and what a refinement mapping keeps of a queue |
| `SequenceLemmas` | what the proofs use about queues and about `Selection` |
| `WritePipelineProofs`, `FollowGraphProofs`, `LikesProofs`, `SessionProofs`, `UploadPostProofs`, `CommentsProofs` | the theorems about `WritePipeline`, `FollowGraph`, `Likes` (each with its refinement), `Session`, `FeedScreen` with `UploadPost`, and `Comments` |
| `FollowGraph` | following from the profile screens, several of which may be open for one user, with notification and feed documents; implements `TwoLegWrite` |
| `NotificationScreen` | following from the reused cells of the notification list |
| `Likes` | liking from reused feed cells and from single-post screens with the copies of profiles; implements `TwoLegWrite` |
| `FeedScreen` | the first tab: overlapping loads of the feed, rows, hearts, refresh control |
| `UploadPost` | publishing a post; extends `FeedScreen`, which it loads again |
| `ProfileEdit` | changing names and image of one's own profile, with the image picker |
| `Comments` | comments of a post, with listeners |
| `Session` | sign-in, registration, Google sign-in, logout, the tabs |
| `Search` | the user list, the filtered list and the table |
| `MC*` | constants for TLC |

### The Firestore client

`WritePipeline` models the client itself. The queue of each account is on disk;
`FillWritePipeline` takes up to `MaxPendingWrites` (10 in the code) of the current
account's writes into the pipeline and sends them if the stream has completed its
handshake; a response is taken for the front of the pipeline
(`OnMutationResult`), and so is a permanent error that closes the stream
(`OnRejected`). A break (`OnBreak`) loses the responses under way and makes the client
send the pipeline again; so do `OnConnectivity`, a change of account or token
(`HandleCredentialChange`) and the death of the process (`Kill`). The idle timer
stops the stream (`OnIdle`). The backend, which reads writes in order and closes the
stream after the first one it refuses, is external (`ServerApply`, `ServerReject`).

What the client has sent is out of its hands when a stream ends: a graceful stop lets
gRPC flush it (`Stream::Close` with `WriteStream::TearDown`), and after a break it may
still be on the network. `DropStream` therefore moves the wire to `stray`, from which the
backend may read at any later time (`ServerApplyStray`), each old stream in its own
order and all of them at their own pace. It refuses such a write without anybody
noticing, which is the same as not reading it.

`WriteQueue` is what is left of this for code that writes through it: per account
a queue whose oldest write is settled, a completion that is called at most once and
in order, and restarts that lose completions and no write. The refinement maps the
abstract documents to the auxiliary `settled`, the last write the client was told
of: with nothing queued, `DocsExplained` says, that is what the backend holds, unless
it has read a write once more from an old stream after answering it on a later one
(`tardy`).

This is what the other modules assume of the client:

* `outbox` (`pipeline` in `NotificationScreen`): the writes, in order. Only the front is committed or refused.
  `Commit` is the backend applying the write and the client learning of it in one
  step, as in `WriteQueue`: a client sees its own pending write and its acknowledged
  write alike, and a write that is applied twice is a write that is still queued.
  That is an assumption where `WritePipeline` has its exception: the modules leave
  out a late copy of a write that was answered on a later stream.
* `handlers` (there `completions`): callbacks in the order in which they were dispatched to the main
  queue. A handler runs as one step and nothing else runs on the main queue
  meanwhile. Where a callback only forwards what it is given and its source may
  answer at any moment anyway (queries and uploads in `ProfileEdit`, loads in
  `FeedScreen`), answer and handler are one step: a late handler is the same as a
  late answer.
* Reads return the backend's document overlaid with the device's pending writes
  (`LocallyFollows`, `LocalLikes`, `LocalDoc`, `LocallyExists`, `View`).
* `Refuse`: the backend rejects a write for good; the completion runs with an
  error.
* `Kill` / `Die`: the process dies and is started again. The outbox (and the
  cache) survive, without completions; screens, queries and uploads do not.
* Two queries with the same condition on one device are answered in the order in
  which they were sent: they share one target of the watch stream. Queries about
  different things, and uploads, are answered in any order.

Accounts that read and write disjoint documents do not influence each other, and
the security rules of the backend are not in the repository: `Refuse` may happen
to any write.

### Correspondence

`PROJECT.json` maps every definition to its lines. The pattern is the same
everywhere: a tap is an action guarded by what the screen offers
(`Tap`, `LikePost`, `OnTapPost`, `HandleDone`, `Share`, `TapLogin`), and one
action per completion handler (`HandleFirst`, `HandleSecond`, `HandleQuery`,
`HandleImage`, `HandleRegister`, ...) does everything that handler does, the writes
and queries it issues included. `guard ... else { return }` paths are actions of
their own where something can fail (`LoadError`, `CheckFails`, `UploadError`,
`FetchFails`, `DocsFail`), and the two places where the code traps end the process:
`snapshot!` in removeUserFeed (`RemoveError`) and `Storage.reference(forURL:)` on the
picture of a Google account (`Trap`). Documents are reduced to what the properties
tell apart: a relation is a set of pairs, an image a number, a text a number or the
set of searches it answers.

`guard let tab.user` at the head of several taps is always satisfied: the tabs,
and with them all these screens, are created when `user` is set, and it is never
set back to nil.

Screens that are closed are not forgotten: their completions still run. In
`FollowGraph` a completion of a closed screen has `from = "gone"` and only its
writes matter, where `from` otherwise names the one of the user's open screens that
was tapped; in `Likes` and `NotificationScreen` a completion writes into the cell
it captured whatever that cell shows by now; in `ProfileEdit` the user of a closed
edit screen is still handed to the profile; in `UploadPost` a cancelled screen still
publishes; in `Comments` closed screens keep their listeners, because the code drops
the registration.

**`FollowGraph`.** The search, the feed and the notifications each push a
ProfileController of their own, so that a device may have several screens of one user
(`Screens`), each with its copy of isFollowed. Any of them can be tapped; the chain
reports to that one alone.

**`Likes`.** A single-post screen shows the copy that it is handed: one that a profile
screen fetched at some time (`FetchPosts`; `album` holds the numbers of likes of all such
copies, because the screens that hold them are not told apart) or one that was fetched
for a notification just now. There is one single-post screen per account at a time.

**`ProfileEdit`.** The image picker is presented by the edit screen and covers it. The end
of a chain calls `dismiss` on the edit screen, which takes the picker when one is up and
the screen when none is (`WantsToUpdate`).

**`Session`.** A sign-in is a record in `calls` with the phase it waits in. Firebase
Auth sets the current user when it answers (`AuthAnswer`), before the completion
runs; setData goes into the queue of whoever is signed in when the completion runs
(`HandleRegister`), and is sent only while that account is signed in (`Depart`).
authenticationDidComplete dismisses whatever is presented.

**`NotificationScreen`.** Every change of a row reloads the table, and UIKit hands
out cells as it likes (`Places`). The completion of follow and of unFollow toggles
the cell and leaves the row alone.

**`FeedScreen`.** A load is a record with the list that its completions share; each
post that arrives appends to it and the list replaces the rows. A call of
isUserLikedPost may be one of several about a post: `checks` is a set, and an answer
may or may not be the last for its post. Likes and changes of the feed that other
components make are the action `Change`.

### Auxiliary variables

No guard reads them; they let a property name its exceptions.

| Variable | Records |
|---|---|
| `skewed` (`TwoLegWrite`), `disturbed` (`ProfileEdit`) | a fault spoilt a key or a change; cleared by the next call that restates the value, so the properties also say that such a call repairs the damage |
| `late` (`ProfileEdit`, `Search`) | a post was shared with an old image; the users came after the last keystroke |
| `refused`, `calm` (`Comments`) | refused comments; texts typed while no comment of their screen was on its way |
| `stale` (`FollowGraph`) | another screen of the same user was tapped since this one was opened or tapped last |
| `settled`, `done` (`WritePipeline`) | what the client was told, and told its callers |
| `tardy` (`WritePipeline`) | a document that was last written from an old stream, with a write already answered |
| `overlapped`, `cut`, `stale` (`Session`) | two sign-ins ran at a time; the User document of an account was refused or its setData lost or issued under another account; the last fetchUser came late or failed |
| `touched`, `blurred` (`NotificationScreen`), `touched` (`FeedScreen`) | changed since it was checked; its button was toggled by crossing chains or reloaded over |
| `cancelled`, `hasty` (`UploadPost`) | closed by Cancel; shared again while a share ran |

## 3. Bounds

Every bound is a constant. `MaxEvents` bounds what users tap and what fails (in
`FollowGraph` also the posts they share) *taken together*, in `FollowGraph`, `Likes`,
`ProfileEdit` and `NotificationScreen`: a run
with `MaxEvents = 3` has behaviours of three taps, of two taps and a fault, and so on.
`MaxOpens`, `MaxLoads`, `MaxEditors`, `MaxComments`, `MaxScreens`, `MaxTexts`,
`MaxStarts`, `MaxLogouts`, `MaxTaps`, `MaxKeys` and `MaxWrites` bound what users do,
`MaxFaults`, `MaxFailures` and `MaxUpsets` what fails (the latter also what other components
change); all of them in the guards of those actions only, and nothing the system
does is bounded. `MaxPending` of `TwoLegWrite` bounds unfinished calls and is a
parameter of the proofs. Because users run out of taps, runs may stop, and deadlock
is not checked except for `TwoLegWrite`, which never stops.

Races between chains need two chains; a third event makes "the middle one is lost"
possible. Properties that hold only without faults say `faults = 0` themselves, so
that one run covers both. One device is enough where devices write disjoint
documents (following), two where they share one (the number of likes, the
comments). Two screens suffice for "a completion of the screen before" and for
"opened while the other one's chain runs".

* `WritePipeline`: a pipeline of two with three writes is full, has a queue behind
  it and is refilled; three faults allow a break while the resent pipeline is under
  way, several old streams that are read at a time, or a change of account and back
  with a kill. One document suffices: the order of writes to the same document is
  what can go wrong.
* `FollowGraph`: two slots for the screens of one user, of which any two may be opened
  in a behaviour, at a time or one after the other. A post that is published counts as
  an event: two taps with one, or three without.
* `Session`: a known account and an unknown one; three sign-ins allow two that
  overlap and one after them.
* `NotificationScreen`: two notifications, of one sender or of two, and two cells:
  enough for a completion that finds its cell showing another row. The cells and
  senders are symmetric.
* `UploadPost`: an empty feed and one of two posts; two taps (pulls and shares) on
  top of the first load give three loads at a time.
* `Search`: a user found by name, one by full name, one with capital letters.

## 4. Runs

| Run | Checks | Shows |
|---|---|---|
| `two_leg` | `TypeOK`, `MirrorAtRest`, `IInv` | four unfinished calls on two keys, refusals and restarts: copies agree at rest unless a leg was lost and not restated; the inductive invariant of the proofs |
| `follow` | `ButtonTruthful`, `FeedMatchesFollow`, `FollowersAnnounced`, `ImplementsTwoLeg`, `ChainsSettle` | three taps, new posts and faults on two screens of one user: without faults the buttons, the feed and the notification agree with Following at rest, and for good in the end, but for the button of a screen that a later tap on another one has passed over; with them, following refines `TwoLegWrite` |
| `likes` | `LikersAnnounced`, `HeartKept` | two accounts, one post, faults: owners hear of lasting likes of others and never of their own; a right heart goes wrong only by the taps and reloads that the property names |
| `likes_faults` | `CounterInRange`, `ImplementsTwoLeg` | two posts, one reused cell, all faults: the number of likes stays between 0 and the number of taps, and liking refines `TwoLegWrite` |
| `likes_increment` | `LikeIncrements` (violated) | two accounts, one number, no refusal: likePost does not increment, see section 6 |
| `profile` | `ImageAlive`, `CopiesFollow`, `ProfileShowsImage`, `DoneDismisses` | three Dones, shares and faults on two edit screens: image, copies and profile agree at rest after a change that ran undisturbed, and its screen goes away unless the image picker was up and went instead |
| `comments` | `ListExact`, `CommentersAnnounced`, `TypedKept`, `RepeatedOnlyWhilePending`, `CommentsArrive` | two comments on two screens, refusals and restarts: lists are exact at rest, owners are told, typed texts survive unless a comment of their screen was under way, nothing is posted again after its acknowledgement |
| `write_pipeline` | `TypeOK`, `PipelineIsFront`, `ResponsesMatch`, `CallbacksMatch`, `DocsExplained`, `ImplementsWriteQueue`, `QueueDrains` | the client keeps responses, completions and queues apart under breaks, late writes of old streams, changes of account and kills, a document at rest holds what the client was told or a late copy of an answered write, and the client refines `WriteQueue`; with the network up, queues drain |
| `session` | `ModalAgrees`, `TabsBelong`, `NoDeadEnd`, `SessionSettles` | at rest, the login screen is presented exactly when nobody is signed in, tabs belong to the signed-in account and nobody is stranded, save for overlapping sign-ins, cut registrations and failed reads |
| `notifications` | `RowsTruthful`, `ButtonTruthful` | rows agree with Following at rest unless tapped after their check; buttons too, one tap later included, unless chains, reloads or scrolling crossed |
| `upload` | `RowsWhole`, `HeartsTruthful`, `RefreshEnds`, `PublishedOnce`, `ShareEnds` | overlapping loads never mix their rows, hearts are right once answered, the refresh control stops, one share publishes one post and leads back to the feed |
| `search` | `TableFollowsSearch` | the table shows what the present text asks for, and a row opens the user it shows |

Every property of a passing run has a mutant, a definition named in
`PROJECT.json` that changes one handler the way a plausible bug would, under
which TLC finds the property violated.

**Fairness.** `FairSpec` (`EditFairSpec` of `ProfileEdit`) assumes weak fairness of `Commit`, of the handlers and of
the answers of reads, listeners and uploads: the network and the main queue make
progress. The Firestore client retries until it gets an answer and the main queue
is drained in order, so this is what the code may count on while the device is
online. `WritePipeline` shows the first of these: from weak fairness of the stream's
own callbacks (`OnStreamOpen`, `OnHandshakeComplete`, `OnMutationResult`,
`OnRejected`) and of the backend it concludes that the queue drains, breaks being
finitely many. In `Session` users need not do anything and Google's sheet need not
be filled in. In `FeedScreen` the reads of a load are answered; isUserLikedPost need
not be. Nothing is assumed of users or of faults: the liveness properties make
their exception for behaviours with faults where the chain really may stop for good.

## 5. Proofs

Eight modules hold proofs, all of them for every value of the constants that
satisfies the named assumptions (any accounts, posts, cells, any number of taps,
screens and faults). Each component has one inductive invariant, which TLC was given
as an invariant of the corresponding run before it was proved. Every invariant, every
action property and every refinement that a run checks is a theorem; what is left to
TLC alone is liveness.

| Module | Theorems | Assumption on the constants |
|---|---|---|
| `TwoLegWriteProofs` | `TypeCorrect`, `Inductive`, `CopiesAgree` | `MaxPendingAssumption` |
| | `RowsTruthfulAlways`, `ButtonTruthfulAlways` (of `NotificationScreen`) | `NotificationAssumption`: enough cells, a query lists a notification once |
| `WritePipelineProofs` | `PipelineTypeCorrect`, `PipelineFrontCorrect`, `ResponsesCorrect`, `CallbacksCorrect`, `DocsCorrect`, `PipelineImplementsQueue` | `PipelineAssumption`: bounds are numbers, room for one write |
| `FollowGraphProofs` | `ButtonCorrect`, `FeedCorrect`, `AnnouncedCorrect`, `FollowsImplementTwoLeg` | `FollowAssumption`: posts have owners, finitely many old posts, two names are not screens |
| `LikesProofs` | `CounterCorrect`, `LikersCorrect`, `HeartKeptCorrect`, `LikesImplementTwoLeg` | `LikesAssumption`: posts have owners, three names are not cells |
| `SessionProofs` | `ModalCorrect`, `TabsCorrect`, `NoDeadEndCorrect` | `SessionAssumption`: known accounts, `NoOne` is not an account |
| | `TableFollowsSearchAlways` (of `Search`) | `SearchAssumption`: an order of the users, lower case is idempotent |
| `UploadPostProofs` | `RowsCorrect`, `HeartsCorrect` (of `FeedScreen`), `PublishedCorrect` | `FeedAssumption`, `UploadAssumption` |
| | `ImageAliveAlways`, `CopiesFollowAlways`, `ProfileShowsImageAlways` (of `ProfileEdit`) | `ProfileEditAssumption`: finitely many old posts, one first image |
| `CommentsProofs` | `ListsCorrect`, `CommentersCorrect`, `TypedCorrect`, `RepeatsCorrect` | `CommentsAssumption`: the owner is an account |
| `SequenceLemmas` | lemmas only | none |

`SequenceLemmas` says what appending to, taking from, joining, changing and
shortening a queue does to the questions the invariants ask of it: what is in it
(`ToSet`, `Has`), which element of a kind is the last (`LastIn`), whether one kind
comes before another (`NoneAfter`), whether an element is the only one in one queue
(`Single`) or in two (`LoneIn`) and whether there are repetitions (`IsInjective`). The
library's `SelectSeq` and `FoldLeft` mean nothing to the provers, so the lists that a
filter makes are a recursive function, `Selection!CompactMap`, about which
`SequenceLemmas` proves what the modules need: what it makes of a longer, a shorter or
a joined list (`MapAppend`, `MapHead`, `MapConcat`), which elements it keeps
(`FilterElements`) and that it repeats none (`FilterInjective`). The induction over
positions is by smallest counterexample (`Smallest`, `UpTo`).

**Two legs.** `MirrorAtRest` speaks of keys at rest only and is not inductive: a step
that brings a key to rest must know what the last write was. `IInv` adds

* `YoungestAgrees`: once no first leg of a key is queued, the youngest thing on
  its way to the mirror (the last waiting handler of the key or, when there is
  none, its last queued second leg) carries the operation that produced the
  present primary document, and with nothing on its way the copies agree;
* `BareBeforeFirst`: first legs that lost their handler in a restart lie before
  all first legs issued since. Without it, a later bare leg could change the
  primary document after the chain that `skewed` gave credit to.

The argument is one of order: handlers are queued in the order of the first legs
and issue second legs in that order, and all of a client's writes go through one
FIFO, so the last first leg is also the last second leg.

**Write pipeline.** `PipelineInv` tells everything by its place in the queue on disk:

* `IdsFresh`: ids grow along each queue, no two queues share one, and the next id
  is larger than all of them. This is what makes the choice of a new first id
  after a change of account safe;
* `NumbersDistinct`, `CallbacksQueued`: writes are told apart, and each completion
  in memory is that of a write on disk;
* `StreamNeeded`: the pipeline is the front of the queue, and a stream that is
  starting or not idle has something to send;
* `OnTheWay`: the acknowledgements under way answer the first writes of the
  pipeline, all of them valid, and are followed by what the backend has not read or
  by the one write it refused. `ResponsesMatch` alone is not inductive: it does not
  say that a write the backend refuses was never acknowledged;
* `Explained`: what the backend holds is what the client was told or a valid write on
  disk (`HeldIn`), and for an acknowledgement under way a write on disk that is not
  before its own. A write read late keeps this up as long as it is still to be answered,
  because then it will be sent again; otherwise the document is `tardy` until the next
  write of it. No order between old streams is needed.

The refinement follows action by action: issuing a write is `WriteQueue`'s issue,
`OnMutationResult` and `OnRejected` are its settling of the oldest write, `Kill` its
restart, and everything that happens on the stream or at the backend is a stutter,
because the abstract documents change only when the client is told.

**Following.** `FollowInv` is about types and, while there was no fault, about each
user `u` and profile `v` separately (`PairInv`). A tap starts a chain that passes
through seven queues: the outbox, the handler, the outbox again, the handler again,
the query for posts, its handler, and the outbox a third time.

* `ChainInOrder`: when nothing is left in the earlier stages, the last element of a
  stage says what the backend says. Each stage needs the one before it;
* `FeedInOrder`, `FeedCovered`: the last feed write of each post does too, and a
  post that is in the feed is part of every later answer, so that an unfollow's
  answer cannot miss a post that an earlier follow put there;
* `Announced`: a Follower document without its notification has it on its way;
* `ScreenInv`, about each screen `s`: nothing waits for a closed one (`ClosedForgotten`);
  and for an open one that no later tap has passed over, as long as a chain of its own
  is busy, the last chain about the user is its own (`OwnLast`), and when none is, the
  last handler that sets the button sets it to what the device will have written
  (`ButtonInOrder`, `Target`). Chains of other screens, open, closed or opened again,
  may run before that.

Most of the proof is that a step about one pair leaves the others alone (`Confined`,
`PairElsewhere`), although all pairs of a device share its queues.

**Likes.** `LikesInv`: every number in a cell, a row, a write or a callback, not only
the stored one, is between 0 and the taps so far (`CopiesInRange`); a write whose
completion is needed has one (`LegsComplete`); a like under a post is announced or
on its way to be (`LikesUnderway`); no notification of an owner's own like was ever
issued (`OwnersSilent`). Numbers stay in range because `unlikePost` guards and
computes with one and the same copy; no relation between copies is needed. The copies
that profiles keep are in range too (`AlbumInRange`).
`HeartKeptCorrect` is an action property and takes one lemma per kind of step: `Wanted` is
what the last pending write under the post asks for, or else what the backend holds;
a commit moves its write from the one to the other and leaves `Wanted` as it was, a
completion writes no heart, a tap that is not dropped makes `Wanted` what its heart
shows, and the remaining steps are the exceptions the property names.

**Session.** `SessionInv`: as long as no sign-ins overlapped there is one chain, which
runs in front of the login or registration screen and, once Auth has answered, is
about the current user (`ChainKept`); each account's User document exists, is on its
way or was cut (`ProfilesComing`); the current user's tabs are there, coming, or the
property's exception applies (`TabsFollow`). The three properties are `SessionInv` at
rest.

**Feed and upload.** `UploadInv`: a load's list holds each post it has received once
(`LoadsSound`); the rows are the list of one load, as far as it has got
(`RowsOfOneLoad`); each heart is right, asked for again, or disturbed
(`HeartsComing`). For the share screen: a post is published once its document was
taken, and its screen goes when the handler runs (`PublishedInOrder`); only after a
failure was it shared again (`SharedAgainAfterFailure`); a screen that is gone was
cancelled or has published (`GoneForAReason`).

**Comments.** `CommentsInv` has three parts that do not depend on each other.

* Lists. `ToldOnce` says of each screen and each comment: it is in the list or in
  exactly one snapshot that waits for the screen, never in both, and it is one or the
  other exactly when the client knows of it (in its cache or its outbox) or the
  backend refused it. `WrittenOnce` keeps a comment from being queued when the backend
  already has or has refused it, so that a later snapshot cannot name it again.
  `NewestFirst` is a choice, and that there is something to choose, that every finite
  set of numbers can be put into descending order, is `SortedExists`: of the sets that
  could not be, one without its smallest number would be smaller still;
* Announcements. `AnnouncedInTime`: while there was no fault, a comment on the backend
  is announced, or its completion or its notification is queued;
* Texts. `TextsFresh`: a text is in one field only. `FieldsPending`: a text that is
  still in its field after it was posted belongs to a comment of this screen whose
  completion is out. `CalmKept`: a calm text whose field a completion is about to clear
  has been posted. The last two need each other's view of which completions are out.

`RepeatsCorrect` is about steps: `FieldsPending` before the tap names the queued write
or completion.

**Refinements of `TwoLegWrite`.** `FollowGraph` and `Likes` are shown to implement it.
Their abstract queues are what `CompactMap` keeps of the outbox and of the handlers:
the two legs of a chain, and the completions of first legs. There is a lemma per
action: a tap is `Start` (`TapIs`), a commit, a refusal, a completion and a kill are
the abstract steps of the same name when they are about a leg, and everything else
(answers, screens, feed writes, notifications, the counter) leaves the abstract queues
as they were. `Start` is bounded by `MaxPending`; `StartedByTaps` says that there are no
more unfinished calls than taps.

**Notification screen.** `NoteInv` is about each notification `n`. `Truth(u)` is what the
client will have written about `u`: the last queued first leg or, without one, the
backend.

* `RowCurrent`: unless the row was touched, the last answer still to come tells the
  truth or, with none to come, the row does;
* `TappedOrIdle`: a button that is vouched for has no chain, or it was tapped;
* `ButtonCurrent`: the button has no chain and tells the truth, or one step of its own
  chain is left, in the outbox or as a completion (`LoneIn`), and will toggle it to the
  truth; no step of another chain will toggle the same cell. That two rows do not share
  a cell rests on a query listing a document once, `IsInjective(Latest)`.

**Search.** `SearchInv`: the table is what the controller would list, the users of the
filtered list match the text, and all that match are in it unless the users arrived
during the search (`FilteredFits`).

**Profile.** `EditInv` is `EditSound` and `EditTruthful`.

* `EditSound`: an image is uploaded once, its URL is told once, and until the completion
  hands it over it is a secret: no screen holds it, so nobody can have it deleted
  (`OnceOnly`);
* `EditTruthful`: unless something disturbed the change, and as long as no new image is
  still to be stored (`Changing`), the image `i` that the pipeline will leave in the
  document is `Settled(i)`: it exists (`Alive`), the last write that tells the profile an
  image tells it `i` (`Sent`), or else the last completion does (`Answered`), or else
  the profile has it (`Shown`) and the posts have it or will be given it by the last
  query (`Copied`). As with following, each stage needs the one before it.

What a client sees of a document is the youngest pending write (`Pending`), not a fold
over all of them. The updates of the posts are queued one by one in the order the query
lists them, a sequence of the posts, which exists because they are finitely many
(`IsFiniteSet(OldPosts)`). TLC checked `EditInv` with one event more than the run has.

Only model-checked: liveness (`ChainsSettle`, `DoneDismisses`, `CommentsArrive`,
`QueueDrains`, `SessionSettles`, `RefreshEnds`, `ShareEnds`), because fairness and ENABLED
are out of the prover's reach. `LikeIncrements` is a finding and false.

## 6. Findings and observations

**Finding** (`likes_increment`). The comment above likePost's first write says
"Update likes counter increment +1" (`API/PostService.swift:62`); the write stores
`post.likes + 1`, computed from the copy in the cell. Two accounts that loaded the
same number and like the post add one like between them. In TLC's trace both open the post,
both like it, and both counter writes are applied; none is refused.

The following is what the code does and the models reproduce; nothing in the
repository says otherwise.

* A kill between the two legs leaves Following and Follower (or the two likes)
  different until the user taps again; so does a refused write.
* Two open profile screens of one user, say one pushed by the search and one by a
  notification, have a flag each. A tap on one sets nothing on the other, whose button
  stays wrong, without any fault, until that screen is tapped or opened again; a tap
  there repeats the operation. `ButtonTruthful` and `ChainsSettle` make this exception
  (`stale`) and no other. The buttons of notification cells are not told either.
* Posts published after a follow never reach the follower's feed documents:
  `FeedMatchesFollow` promises the old posts only. An unfollow removes all.
* With follow, follow and unfollow overlapping, the second follow notification
  may be sent after the Follower document is gone.
* The heart is toggled before unlikePost's guard looks at the number: a double tap
  on a post without likes, faster than the completion, shows an empty heart on a
  liked post.
* A single-post screen never asks whether the post is liked; a like from there
  counts again.
* An edit screen opened while a change of the image is under way stores the old,
  deleted URL when only names are edited there (`DoneInfo` sets `disturbed`).
* Names edited between Done and its completion are shown by the profile and not
  stored: the completion hands over the user of now, the write took the one of
  then. This is why `ProfileShowsImage` is about the image.
* The end of a chain of Done dismisses whatever the edit screen shows. If the image
  picker is up at that moment the picker goes and the edit screen stays
  (`DoneDismisses` makes this exception). Another Done from there starts a new chain.
* A failed upload leaves the User document with the URL of a deleted image.
* An account with a Google picture cannot change it: the process ends.
* `MainTabController.user` is not updated by an edit: posts shared afterwards carry
  the old image (`CopiesFollow` allows it for new posts).
* A refused comment stays on the screens that showed it, and its notification is
  sent. New comments go to the end of a list whose first load is newest first.
* The text typed into the field of a comment screen while a comment is on its way is
  cleared by that comment's completion: `TypedKept` vouches for the others only.
* A user's own posts never reach their own feed: updateUserFeed is called for those
  who are followed, and postAnImage writes the Post document alone. The reload after
  an upload shows what was there before.
* Follow from a notification writes the two documents and nothing else: no
  notification, no feed documents, unlike follow from a profile.
* The follow button of a notification cell is toggled by the completion of follow
  and of unFollow alike: two taps in a row send the same operation twice and toggle
  twice, so that the button shows what it did before.
* The screen of a single post has a refresh control too, whose fetchPosts returns at
  once (`Controller/FeedController.swift:58`): pulled down there, it spins until the
  screen is left.
* A write that a stopped or broken stream had sent may be applied once more after the
  backend has answered it on the next stream, and then is the last word until the
  next write of that document: an old Following document, for one, over a newer
  delete. Nothing in the client prevents it.
* With every post of a load unreadable, no completion stops the refresh control.
* A second tap on Share during the upload publishes the post twice; Cancel closes the
  screen and the post is published all the same, with a reload of the feed.
* registerGoogleUser writes the whole User document at every sign-in: an edited name
  or image is replaced by Google's.
* An account whose registration was cut between createUser and setData is signed in
  without a User document: fetchUser's guard returns, the tabs are never built, and
  with the login screen gone nothing can be tapped (`NoDeadEnd`, `cut`). A kill does
  not help; the address is taken.
* A logout can be undone by a sign-in that was still under way; the login screen
  is dismissed by its completion, and the tabs are those of that account.
* setData of a registration is queued under whoever is signed in when createUser's
  completion runs; with another sign-in in between it is another account's write.
* `ImageUploaderService` divides two integers for its progress: it is 0 until it is 1.
* The search text is put into lower case, usernames are not: a username with capital
  letters is never found by them (`TableFollowsSearch` makes the exception). A list
  of users that arrives during a search is not filtered until the next keystroke.
* A comment is written with the key "postOwnerId" and read with another.

## 7. Not modelled, and the plan

Not modelled, with the reason:

* layout and drawing, labels, colours, formatting, the caption's length check and the
  validity of forms: pure functions of one record, or no state that outlives a frame;
* reading and writing the fields of documents (`Model/*`): one line per field;
* fetchUserStats: three counting reads that change labels only;
* opening a profile or a post from a list: a read followed by a new screen, which is
  where `FollowGraph` and `Likes` start;
* a second screen of one's own profile, and answers of queries from a partial cache
  while the device is offline;
* a write stream that the backend closes with status OK: `RemoteStore` takes a close
  without an error for one it asked for, and its assertion
  (`remote_store.cc:478-483`) ends the process if writes are pending;
* the watch stream, transforms, transactions and indexes of the Firestore client:
  the modules assume of reads what section 2 lists; the app uses no transaction;
* the other vendored libraries (gRPC, BoringSSL, Auth, Storage, the image picker,
  most of the repository's lines): third-party code that the app only calls;
* build and release scripts, and the test targets, which are empty templates.

Nothing of safety is left to prove; the liveness properties stay with TLC.

No module uses a RECURSIVE operator.
