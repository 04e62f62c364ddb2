----------------------------- MODULE FeedScreen -----------------------------
(***************************************************************************)
(* The first tab (FeedController) and how it loads its posts               *)
(* (PostService.fetchFeedPosts, fetchPost and isUserLikedPost).            *)
(*                                                                         *)
(* A load asks for the documents of User/uid/feeds, then for each post;    *)
(* every post that arrives is appended to the list the load has captured   *)
(* and the whole list replaces the rows.  Loads may overlap, their answers *)
(* come in any order, and each replacement starts the hearts anew.         *)
(* The screen of a single post, the same controller, never loads anything  *)
(* here: its cell is in Likes.                                             *)
(***************************************************************************)
EXTENDS Naturals, Sequences, FiniteSets, FiniteSetsExt, SequencesExt

CONSTANTS Posts,       \* post documents
          MaxTaps,     \* bound on the user asking for something
          Feeds,       \* what to start with: <<posts in the feed, posts liked>>
          MaxUpsets    \* bound on failed calls and on what else changes the
                       \* feed or the likes, taken together

ASSUME FeedAssumption ==
  /\ MaxTaps \in Nat
  /\ Feeds \subseteq (SUBSET Posts) \X (SUBSET Posts)
  /\ MaxUpsets \in Nat

VARIABLES feed,        \* the documents of User/uid/feeds
          liked,       \* the documents of User/uid/likes, as the client sees them
          loads,       \* the loads, each a record
          rows,        \* self.posts: <<post, didLike>>
          refreshing,  \* the refresh control spins
          checks,      \* posts with calls of isUserLikedPost not yet answered
          taps, changes, faults,  \* how many there were so far
          touched      \* auxiliary: liked or unliked since it was checked

feedVars == <<feed, liked, loads, rows, refreshing, checks, taps, changes,
              faults, touched>>

(* A load: phase "asked" until the feed documents arrive, then "posts"; docs  *)
(* is what the query saw, waiting the posts asked for, list the list that the *)
(* completions captured, failed the posts that never came.                    *)
NewLoad == [phase |-> "asked", docs |-> {}, waiting |-> {}, list |-> <<>>,
            failed |-> {}]

FeedInit ==
  /\ \E f \in Feeds : feed = f[1] /\ liked = f[2]
  /\ loads = <<NewLoad>>
  /\ rows = <<>>
  /\ refreshing = FALSE
  /\ checks = {}
  /\ taps = 0
  /\ changes = 0
  /\ faults = 0
  /\ touched = {}

(* fetchPosts.  Its guard, that the screen is not that of a single post, is *)
(* always passed by the first tab.                                          *)
FetchPosts == loads' = Append(loads, NewLoad)

(* The user pulls the list down: UIKit starts the refresh control. *)
Pull ==
  /\ ~refreshing
  /\ taps < MaxTaps
  /\ taps' = taps + 1
  /\ FetchPosts
  /\ refreshing' = TRUE
  /\ UNCHANGED <<feed, liked, rows, checks, changes, faults, touched>>

(* Somebody is followed or not any more, or a post is liked or not. *)
Change(p) ==
  /\ changes + faults < MaxUpsets
  /\ changes' = changes + 1
  /\ \/ feed' = SymDiff(feed, {p}) /\ UNCHANGED <<liked, touched>>
     \/ liked' = SymDiff(liked, {p}) /\ touched' = touched \cup {p} /\ UNCHANGED feed
  /\ UNCHANGED <<loads, rows, refreshing, checks, taps, faults>>

InRows(r, p) == \E i \in DOMAIN r : r[i][1] = p

(* Mutant: only posts that were not shown before are checked. *)
CompletionOfNew(list) ==
  /\ rows' = [i \in DOMAIN list |-> <<list[i], FALSE>>]
  /\ checks' = checks \cup {p \in ToSet(list) : ~InRows(rows, p)}
  /\ refreshing' = FALSE

(* Mutant: the refresh control is forgotten. *)
CompletionSpinning(list) ==
  /\ rows' = [i \in DOMAIN list |-> <<list[i], FALSE>>]
  /\ checks' = checks \cup ToSet(list)
  /\ UNCHANGED refreshing

(* Mutant: the posts are added to the ones that are shown. *)
CompletionAppends(list) ==
  /\ rows' = IF list = <<>> THEN rows ELSE Append(rows, <<Last(list), FALSE>>)
  /\ checks' = checks \cup ToSet(list)
  /\ refreshing' = FALSE

(* The completion that fetchPosts passes on: the rows, isUserLikedPost for *)
(* each of them, endRefreshing.                                            *)
Completion(list) ==
  /\ rows' = [i \in DOMAIN list |-> <<list[i], FALSE>>]
  /\ checks' = checks \cup ToSet(list)
  /\ refreshing' = FALSE

(* The feed documents arrive: a fetchPost for each, or an empty feed. *)
DocsAnswer(l) ==
  /\ loads[l].phase = "asked"
  /\ loads' = [loads EXCEPT ![l].phase = "posts", ![l].docs = feed,
                             ![l].waiting = feed]
  /\ IF feed = {} THEN Completion(<<>>) ELSE UNCHANGED <<rows, checks, refreshing>>
  /\ UNCHANGED <<feed, liked, taps, changes, faults, touched>>

(* The query fails: the completion gets an empty list, then the guard returns. *)
DocsFail(l) ==
  /\ changes + faults < MaxUpsets
  /\ loads[l].phase = "asked"
  /\ faults' = faults + 1
  /\ loads' = [loads EXCEPT ![l].phase = "posts"]
  /\ Completion(<<>>)
  /\ UNCHANGED <<feed, liked, taps, changes, touched>>

(* A post of the load arrives. *)
PostAnswer(l, p) ==
  /\ p \in loads[l].waiting
  /\ loads' = [loads EXCEPT ![l].waiting = @ \ {p},
                             ![l].list = Append(@, p)]
  /\ Completion(loads'[l].list)
  /\ UNCHANGED <<feed, liked, taps, changes, faults, touched>>

(* It does not: one of the guards of fetchPost returns. *)
PostFails(l, p) ==
  /\ changes + faults < MaxUpsets
  /\ p \in loads[l].waiting
  /\ faults' = faults + 1
  /\ loads' = [loads EXCEPT ![l].waiting = @ \ {p},
                             ![l].failed = @ \cup {p}]
  /\ UNCHANGED <<feed, liked, rows, refreshing, checks, taps, changes, touched>>

(* isUserLikedPost is answered: the row of the post, if there still is one, *)
(* gets the answer.  Several calls may be under way for one post: this may  *)
(* be the last of them or not.                                              *)
CheckAnswer(p) ==
  /\ p \in checks
  /\ checks' \in {checks, checks \ {p}}
  /\ rows' = [i \in DOMAIN rows |-> IF rows[i][1] = p THEN <<p, p \in liked>>
                                                    ELSE rows[i]]
  /\ touched' = touched \ {p}
  /\ UNCHANGED <<feed, liked, loads, refreshing, taps, changes, faults>>

(* isUserLikedPost fails: its guard returns. *)
CheckFails(p) ==
  /\ changes + faults < MaxUpsets
  /\ p \in checks
  /\ faults' = faults + 1
  /\ checks' \in {checks, checks \ {p}}
  /\ touched' = touched \cup {p}
  /\ UNCHANGED <<feed, liked, loads, rows, refreshing, taps, changes>>

FeedNext ==
  \/ Pull
  \/ \E p \in Posts : Change(p) \/ CheckAnswer(p) \/ CheckFails(p)
  \/ \E l \in DOMAIN loads :
       \/ DocsAnswer(l)
       \/ DocsFail(l)
       \/ \E p \in Posts : PostAnswer(l, p) \/ PostFails(l, p)

(* The network for the first n loads, and the main queue runs. *)
FeedFairness ==
  /\ \A l \in 1 .. MaxTaps + 1 :
       /\ WF_feedVars(l \in DOMAIN loads /\ DocsAnswer(l))
       /\ \A p \in Posts : WF_feedVars(l \in DOMAIN loads /\ PostAnswer(l, p))
----------------------------------------------------------------------------
Loaded ==
  \A l \in DOMAIN loads : loads[l].phase = "posts" /\ loads[l].waiting = {}

(* When all loads are done, the rows are the posts that one of them saw, in  *)
(* full and each once: loads that overlap replace each other's rows again    *)
(* and again but never mix, and only a post that could not be read is        *)
(* missing.                                                                  *)
RowsWhole ==
  Loaded => \E l \in DOMAIN loads :
              /\ {rows[i][1] : i \in DOMAIN rows} = loads[l].docs \ loads[l].failed
              /\ Len(rows) = Cardinality(loads[l].docs \ loads[l].failed)

(* When the hearts have been asked for as well, a row shows one exactly for  *)
(* the posts that are liked, although every arriving post resets them all,   *)
(* unless the post was liked or unliked since, or could not be checked.      *)
HeartsTruthful ==
  Loaded /\ checks = {}
    => \A i \in DOMAIN rows :
         rows[i][1] \notin touched => (rows[i][2] <=> rows[i][1] \in liked)

(* The refresh control stops, unless reads failed: with every post of the    *)
(* load lost no completion would be left to stop it.                         *)
RefreshEnds == refreshing ~> (~refreshing \/ faults > 0)
============================================================================
