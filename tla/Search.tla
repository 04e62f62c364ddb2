------------------------------- MODULE Search -------------------------------
(***************************************************************************)
(* Searching for users (SearchController): the list of all users that is   *)
(* fetched once, the list that every keystroke filters out of it, and the  *)
(* table that shows the one or the other.                                  *)
(***************************************************************************)
EXTENDS Naturals, Sequences, SequencesExt, Selection

CONSTANTS People,      \* accounts with a User document, now or later
          Order,       \* the order in which a query returns them
          Texts,       \* what can be typed into the search bar
          NoText,      \* the search bar is empty
          Lower,       \* lowercased()
          Username,    \* per user, the texts that occur in the username
          Fullname,    \* per user, the texts that occur in the full name
          MaxKeys,     \* bound on the keystrokes
          MaxFailures  \* bound on failed reads

ASSUME SearchAssumption ==
  /\ Order \in Seq(People) /\ Range(Order) = People
  /\ NoText \notin Texts
  /\ Lower \in [Texts -> Texts]
  /\ \A t \in Texts : Lower[Lower[t]] = Lower[t]
  /\ Username \in [People -> SUBSET Texts]
  /\ Fullname \in [People -> SUBSET Texts]
  /\ MaxKeys \in Nat /\ MaxFailures \in Nat

VARIABLES registered,  \* the User collection
          fetching,    \* fetchUsers is not answered yet
          users,       \* self.users
          filtered,    \* self.filteredUsers
          active,      \* searchController.isActive
          text,        \* the text of the search bar
          table,       \* the users in the cells of the table
          opened,      \* the row tapped last and the profile that opened, if any
          keys,        \* keystrokes so far
          failures,    \* failed reads so far
          late         \* auxiliary: the users came after the last keystroke

searchVars == <<registered, fetching, users, filtered, active, text, table, opened,
               keys, failures, late>>

IsSearchEnabled == active /\ text # NoText

(* What numberOfRowsInSection, cellForRowAt and didSelectRowAt look at. *)
Listed == IF IsSearchEnabled THEN filtered ELSE users

(* tableView.reloadData *)
ReloadData == table' = Listed'

(* viewDidLoad calls fetchUsers. *)
SearchInit ==
  /\ registered \in SUBSET People
  /\ fetching = TRUE
  /\ users = <<>>
  /\ filtered = <<>>
  /\ active = FALSE
  /\ text = NoText
  /\ table = <<>>
  /\ opened = <<>>
  /\ keys = 0
  /\ failures = 0
  /\ late = FALSE

(* Somebody registers. *)
Register(u) ==
  /\ u \notin registered
  /\ registered' = registered \cup {u}
  /\ UNCHANGED <<fetching, users, filtered, active, text, table, opened, keys,
                 failures, late>>

(* fetchUsers is answered; the filtered list is left as it is. *)
FetchUsers ==
  /\ fetching
  /\ fetching' = FALSE
  /\ users' = Filter(Order, registered)
  /\ late' = TRUE
  /\ UNCHANGED <<registered, filtered, active, text, opened, keys, failures>>
  /\ ReloadData

(* fetchUsers fails: its guard returns. *)
FetchUsersFails ==
  /\ failures < MaxFailures
  /\ fetching
  /\ failures' = failures + 1
  /\ fetching' = FALSE
  /\ UNCHANGED <<registered, users, filtered, active, text, table, opened, keys, late>>

(* username.contains(searchText) || fullname.lowercased().contains(searchText) *)
Matches(u, t) ==
  \/ Lower[t] \in Username[u]
  \/ Lower[t] \in {Lower[x] : x \in Fullname[u]}

(* Mutant: what was filtered before is filtered further. *)
UpdateSearchResultsFurther ==
  /\ filtered' = IF text' = NoText THEN users
                   ELSE Filter(filtered, {u \in People : Matches(u, text')})
  /\ late' = FALSE
  /\ ReloadData

(* updateSearchResults.  Whether a name contains the empty text is left to *)
(* the library: nobody looks at the filtered list then.                    *)
UpdateSearchResults ==
  /\ IF text' = NoText
       THEN filtered' \in {<<>>, users}
       ELSE filtered' = Filter(users, {u \in People : Matches(u, text')})
  /\ late' = FALSE
  /\ ReloadData

(* The search bar is tapped; UIKit reports that as an update. *)
Activate ==
  /\ ~active
  /\ active' = TRUE
  /\ UNCHANGED <<registered, fetching, users, text, opened, keys, failures>>
  /\ UpdateSearchResults

(* The text is changed, to nothing perhaps. *)
Type(t) ==
  /\ active
  /\ t # text
  /\ keys < MaxKeys
  /\ keys' = keys + 1
  /\ text' = t
  /\ UNCHANGED <<registered, fetching, users, active, opened, failures>>
  /\ UpdateSearchResults

(* The search bar's own Cancel: it is emptied and inactive. *)
Cancel ==
  /\ active
  /\ active' = FALSE
  /\ text' = NoText
  /\ UNCHANGED <<registered, fetching, users, opened, keys, failures>>
  /\ UpdateSearchResults

(* didSelectRowAt: the profile of the listed user with the row's number. *)
DidSelectRow(i) ==
  /\ opened' = <<table[i], Listed[i]>>
  /\ UNCHANGED <<registered, fetching, users, filtered, active, text, table, keys,
                 failures, late>>

SearchNext ==
  \/ \E u \in People : Register(u)
  \/ FetchUsers
  \/ FetchUsersFails
  \/ Activate
  \/ \E t \in Texts \cup {NoText} : Type(t)
  \/ Cancel
  \/ \E i \in DOMAIN table : DidSelectRow(i)

SearchSpec == SearchInit /\ [][SearchNext]_searchVars
----------------------------------------------------------------------------
(* The text occurs in one of the names, capital letters or not. *)
NamesAlike(u, t) == Lower[t] \in {Lower[x] : x \in Username[u] \cup Fullname[u]}

(* While somebody searches, the table holds no user whose names do not       *)
(* contain the text that is in the search bar now, and it holds every loaded *)
(* user whose names do, unless the users came after the last keystroke or    *)
(* only a username with capital letters has the text; without a search it    *)
(* holds them all, and a tap opens the profile of the user in the row.       *)
TableFollowsSearch ==
  /\ IsSearchEnabled => \A u \in Range(table) : NamesAlike(u, text)
  /\ IsSearchEnabled /\ ~late =>
       \A u \in Range(users) :
         NamesAlike(u, text) /\ u \notin Range(table)
           => Lower[text] \notin Username[u] \cup {Lower[x] : x \in Fullname[u]}
  /\ ~IsSearchEnabled => table = users
  /\ opened # <<>> => opened[1] = opened[2]
============================================================================
