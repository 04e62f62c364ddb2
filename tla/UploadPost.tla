----------------------------- MODULE UploadPost -----------------------------
(***************************************************************************)
(* Publishing a post: the screen opened by the image picker                *)
(* (UploadPostController), PostService.postAnImage behind its Share button *)
(* and what MainTabController does when it is finished, which is to go     *)
(* back to the feed and to load it again.  Share stays enabled during the  *)
(* upload, and Cancel closes the screen without stopping anything.         *)
(***************************************************************************)
EXTENDS FeedScreen

CONSTANT MaxScreens  \* bound on the upload screens opened

ASSUME UploadAssumption == MaxScreens \in Nat

VARIABLES screen,      \* the number of the open upload screen, or 0
          screens,     \* upload screens opened so far
          chains,      \* postAnImage calls: the screen of each and its phase
          published,   \* the posts on the backend: chains that got that far
          cancelled,   \* auxiliary: screens closed by Cancel
          hasty        \* auxiliary: screens shared again while a share ran

uploadVars == <<screen, screens, chains, published, cancelled, hasty>>
vars == <<feedVars, uploadVars>>

(* "upload" the image, write the "doc", run the "done" handler, "over". *)
Phases == {"upload", "doc", "done", "over"}

Init ==
  /\ FeedInit
  /\ screen = 0
  /\ screens = 0
  /\ chains = <<>>
  /\ published = {}
  /\ cancelled = {}
  /\ hasty = {}

(* didFinishPickingMedia *)
Open ==
  /\ screen = 0
  /\ screens < MaxScreens
  /\ screens' = screens + 1
  /\ screen' = screens + 1
  /\ UNCHANGED <<feedVars, chains, published, cancelled, hasty>>

(* onTapShare: postAnImage uploads the image first. *)
Share ==
  /\ screen # 0
  /\ taps < MaxTaps
  /\ taps' = taps + 1
  /\ chains' = Append(chains, [screen |-> screen, phase |-> "upload"])
  /\ hasty' = IF \E i \in DOMAIN chains : chains[i].screen = screen
                                          /\ chains[i].phase # "over"
                THEN hasty \cup {screen} ELSE hasty
  /\ UNCHANGED <<feed, liked, loads, rows, refreshing, checks, changes, faults,
                 touched, screen, screens, published, cancelled>>

(* onTapCancel *)
Cancel ==
  /\ screen # 0
  /\ screen' = 0
  /\ cancelled' = cancelled \cup {screen}
  /\ UNCHANGED <<feedVars, screens, chains, published, hasty>>

Advance(i, from, to) ==
  /\ i \in DOMAIN chains
  /\ chains[i].phase = from
  /\ chains' = [chains EXCEPT ![i].phase = to]

(* The image and its address are there: addDocument. *)
Uploaded(i) ==
  /\ Advance(i, "upload", "doc")
  /\ UNCHANGED <<feedVars, screen, screens, published, cancelled, hasty>>

(* The backend takes the document. *)
Commit(i) ==
  /\ Advance(i, "doc", "done")
  /\ published' = published \cup {i}
  /\ UNCHANGED <<feedVars, screen, screens, cancelled, hasty>>

(* uploadImage fails and never calls back, or the document is refused and *)
(* the completion prints and returns.                                     *)
Fail(i) ==
  /\ changes + faults < MaxUpsets
  /\ faults' = faults + 1
  /\ Advance(i, "upload", "over") \/ Advance(i, "doc", "over")
  /\ UNCHANGED <<feed, liked, loads, rows, refreshing, checks, taps, changes,
                 touched, screen, screens, published, cancelled, hasty>>

(* Mutant: the screen is closed as soon as the document is written. *)
FinishEarly(i) ==
  /\ Advance(i, "doc", "done")
  /\ screen' = IF screen = chains[i].screen THEN 0 ELSE screen
  /\ FetchPosts
  /\ UNCHANGED <<feed, liked, rows, refreshing, checks, taps, changes, faults,
                 touched, screens, published, cancelled, hasty>>

(* Mutant: the completion does not tell its delegate. *)
FinishSilent(i) ==
  /\ Advance(i, "done", "over")
  /\ UNCHANGED <<feedVars, screen, screens, published, cancelled, hasty>>

(* didFinishUploadPost: the screen is dismissed, if it is still the one that  *)
(* is presented, and the feed is loaded again.                                *)
Finish(i) ==
  /\ Advance(i, "done", "over")
  /\ screen' = IF screen = chains[i].screen THEN 0 ELSE screen
  /\ FetchPosts
  /\ UNCHANGED <<feed, liked, rows, refreshing, checks, taps, changes, faults,
                 touched, screens, published, cancelled, hasty>>

UploadNext ==
  \/ Open
  \/ Share
  \/ Cancel
  \/ \E i \in 1 .. MaxTaps : Uploaded(i) \/ Commit(i) \/ Fail(i) \/ Finish(i)

Next == (FeedNext /\ UNCHANGED uploadVars) \/ UploadNext

Spec == Init /\ [][Next]_vars

Fairness ==
  /\ FeedFairness
  /\ \A i \in 1 .. MaxTaps :
       WF_vars(Uploaded(i)) /\ WF_vars(Commit(i)) /\ WF_vars(Finish(i))

FairSpec == Spec /\ Fairness
----------------------------------------------------------------------------
(* A screen that went away without Cancel has published its post, and one    *)
(* that was shared again only after an earlier attempt had failed has not    *)
(* published it twice.                                                       *)
PublishedOnce ==
  \A s \in 1 .. screens :
    LET out == {i \in published : chains[i].screen = s}
    IN  /\ s # screen /\ s \notin cancelled => out # {}
        /\ s \notin hasty => Cardinality(out) <= 1

(* Without errors, who taps Share is taken back to the feed in the end. *)
ShareEnds ==
  \A s \in 1 .. MaxScreens :
    (\E i \in DOMAIN chains : chains[i].screen = s) ~> (screen # s \/ faults > 0)
============================================================================
