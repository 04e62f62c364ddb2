-------------------------- MODULE NotificationScreen ------------------------
(***************************************************************************)
(* The list of follow notifications (NotificationController), its reused   *)
(* cells with a follow button (NotificationCell) and the follow chain of   *)
(* UserService behind the button.                                          *)
(*                                                                         *)
(* The list asks for every notification whether its sender is followed and *)
(* stores the answer in the row; every change of a row reloads the table.  *)
(* A tap on the button starts follow or unFollow, whose completion toggles *)
(* the flag of whatever the captured cell shows by then, and of no row.    *)
(***************************************************************************)
EXTENDS Naturals, Sequences, FiniteSets, SequencesExt, Selection

CONSTANTS Notifications,  \* follow notifications that may reach this account
          Senders,        \* who may have sent them
          Cells,          \* the table's reused cells
          Latest,         \* the order of their timestamps, oldest first
          MaxEvents       \* bound on the refreshes, the taps on follow buttons,
                          \* failed reads and refused writes, taken together

ASSUME NotificationAssumption ==
  /\ Cardinality(Cells) >= Cardinality(Notifications)
  /\ Latest \in Seq(Notifications) /\ IsInjective(Latest)
  /\ MaxEvents \in Nat

VARIABLES sender,       \* uid of each notification, never changed
          arrived,      \* the notifications on the backend
          following,    \* users that are followed: Following
          follower,     \* users that have this account as a follower: Follower
          rows,         \* self.notifications: <<notification, userIsFollowed>>
          cells,        \* what each cell shows, a row's value; <<>> out of the table
          place,        \* the cell each row is shown in
          queries,      \* fetchNotifications calls not yet answered
          checks,       \* per notification, isUserFollowed calls not yet answered
          pipeline,     \* the write pipeline
          completions,  \* completions waiting for the main queue
          events,       \* how many of those there were so far
          touched,      \* auxiliary: tapped since the last check was answered
          blurred       \* auxiliary: notifications whose button nobody vouches for

backend == <<sender, arrived, following, follower>>
screen == <<rows, cells, place>>
reads == <<queries, checks>>
aux == <<touched, blurred>>
noteVars == <<backend, screen, reads, pipeline, completions, events, aux>>

From(u) == {n \in Notifications : sender[n] = u}

(* A chain about u is under way: one of its writes or its completion. *)
Chained(u) ==
  \/ \E i \in DOMAIN pipeline : pipeline[i].uid = u
  \/ \E i \in DOMAIN completions : completions[i].kind \in {"first", "second"}
                                /\ completions[i].uid = u

----------------------------------------------------------------------------
(* Which cell a row gets is UIKit's choice. *)
Places(new) == {p \in [DOMAIN new -> Cells] : IsInjective(p)}

(* tableView.reloadData, or scrolling: cellForRowAt for every row.  What a *)
(* cell outside the table holds is overwritten before anybody sees it.      *)
Reload(new) ==
  /\ rows' = new
  /\ place' \in Places(new)
  /\ cells' = [c \in Cells |-> IF \E i \in DOMAIN new : place'[i] = c
                                 THEN new[CHOOSE i \in DOMAIN new : place'[i] = c]
                                 ELSE <<>>]

(* A reload shows what the rows say, not what the taps have done since, and *)
(* may hand the cell of a chain under way to any other row.                 *)
BlurTouched ==
  blurred' = IF \E u \in Senders : Chained(u) THEN Notifications
                                            ELSE blurred \cup touched

NoteInit ==
  /\ sender \in [Notifications -> Senders]
  /\ arrived = {Latest[i] : i \in 1 .. Len(Latest) - 1}
  /\ following \in SUBSET Range(sender)
  /\ follower = following
  /\ rows = <<>>
  /\ cells = [c \in Cells |-> <<>>]
  /\ place = <<>>
  /\ queries = 1
  /\ checks = [n \in Notifications |-> 0]
  /\ pipeline = <<>>
  /\ completions = <<>>
  /\ events = 0
  /\ touched = {}
  /\ blurred = {}

(* Somebody follows this account. *)
Arrive ==
  /\ \E i \in DOMAIN Latest :
       /\ Latest[i] \notin arrived
       /\ \A j \in 1 .. i - 1 : Latest[j] \in arrived
       /\ arrived' = arrived \cup {Latest[i]}
  /\ UNCHANGED <<sender, following, follower, screen, reads, pipeline, completions,
                 events, aux>>

(* onRefresh: the list is emptied and asked for again. *)
OnRefresh ==
  /\ events < MaxEvents
  /\ events' = events + 1
  /\ Reload(<<>>)
  /\ queries' = queries + 1
  /\ UNCHANGED <<backend, checks, pipeline, completions, aux>>

(* The documents by falling timestamp, each with userIsFollowed = false. *)
Listed ==
  LET l == Filter(Latest, arrived)
  IN  [i \in DOMAIN l |-> <<l[Len(l) + 1 - i], FALSE>>]

QueryAnswer ==
  /\ queries > 0
  /\ queries' = queries - 1
  /\ completions' = Append(completions, [kind |-> "list", list |-> Listed])
  /\ UNCHANGED <<backend, screen, checks, pipeline, events, aux>>

(* fetchNotifications fails: its guard returns. *)
QueryFails ==
  /\ events < MaxEvents
  /\ queries > 0
  /\ events' = events + 1
  /\ queries' = queries - 1
  /\ UNCHANGED <<backend, screen, checks, pipeline, completions, aux>>

(* checkIfUserIsFollowed: one isUserFollowed for every row. *)
CheckIfUserIsFollowed(list) ==
  checks' = [n \in Notifications |-> IF \E i \in DOMAIN list : list[i][1] = n
                                       THEN checks[n] + 1 ELSE checks[n]]

HandleKind(kind) ==
  /\ completions # <<>>
  /\ Head(completions).kind = kind
  /\ completions' = Tail(completions)

(* The answer of fetchNotifications. *)
HandleList ==
  /\ HandleKind("list")
  /\ Reload(Head(completions).list)
  /\ CheckIfUserIsFollowed(Head(completions).list)
  /\ BlurTouched
  /\ UNCHANGED <<backend, queries, pipeline, events, touched>>

(* The Following document of u as the client sees it. *)
LocallyFollows(u) ==
  LET pending == {i \in DOMAIN pipeline : pipeline[i].kind = "first" /\ pipeline[i].uid = u}
  IN  IF pending = {} THEN u \in following ELSE pipeline[Max(pending)].op = "set"

(* isUserFollowed is answered.  What it says is current, and so is the       *)
(* button it will set, unless a chain is still to toggle that one.           *)
CheckAnswer(n) ==
  /\ checks[n] > 0
  /\ checks' = [checks EXCEPT ![n] = @ - 1]
  /\ completions' = Append(completions, [kind |-> "check", n |-> n,
                                   followed |-> LocallyFollows(sender[n])])
  /\ touched' = touched \ {n}
  /\ blurred' = IF Chained(sender[n]) THEN blurred \cup {n} ELSE blurred \ {n}
  /\ UNCHANGED <<backend, screen, queries, pipeline, events>>

(* isUserFollowed fails: its guard returns. *)
CheckFails(n) ==
  /\ events < MaxEvents
  /\ checks[n] > 0
  /\ events' = events + 1
  /\ checks' = [checks EXCEPT ![n] = @ - 1]
  /\ touched' = touched \cup {n}
  /\ blurred' = blurred \cup {n}
  /\ UNCHANGED <<backend, screen, queries, pipeline, completions>>

(* Mutant: the answer is stored by position, not by id. *)
RowsWithFirst(n, followed) ==
  [i \in DOMAIN rows |-> IF i = 1 THEN <<rows[i][1], followed>> ELSE rows[i]]

(* The rows with the answer for notification n, if it is still listed. *)
RowsWith(n, followed) ==
  [i \in DOMAIN rows |-> IF rows[i][1] = n THEN <<n, followed>> ELSE rows[i]]

(* The answer of isUserFollowed; without a row there is nothing to reload. *)
HandleCheck ==
  /\ HandleKind("check")
  /\ LET h == Head(completions)
     IN  IF \E i \in DOMAIN rows : rows[i][1] = h.n
           THEN Reload(RowsWith(h.n, h.followed)) /\ BlurTouched
           ELSE UNCHANGED <<screen, blurred>>
  /\ UNCHANGED <<backend, reads, pipeline, events, touched>>

(* Scrolling takes cells out of the table and back in. *)
Scroll ==
  /\ rows # <<>>
  /\ Reload(rows)
  /\ BlurTouched
  /\ UNCHANGED <<backend, reads, pipeline, completions, events, touched>>

(* onTapFollow: unFollow for a user who is followed, else follow. *)
OpOf(followed) == IF followed THEN "delete" ELSE "set"

(* A tap on the button of the cell of row i.  The other notifications of     *)
(* the same sender are not told, and overlapping chains toggle twice.        *)
Tap(i) ==
  /\ events < MaxEvents
  /\ i \in DOMAIN rows
  /\ events' = events + 1
  /\ LET c == place[i]
         n == cells[c][1]
         u == sender[n]
     IN  /\ pipeline' = Append(pipeline, [kind |-> "first", op |-> OpOf(cells[c][2]),
                                      uid |-> u, cell |-> c])
         /\ touched' = touched \cup From(u)
         /\ blurred' = blurred \cup (IF Chained(u) THEN From(u) ELSE From(u) \ {n})
  /\ UNCHANGED <<backend, screen, reads, completions>>

ApplyOp(set, op, u) == IF op = "set" THEN set \cup {u} ELSE set \ {u}

Depart ==
  /\ pipeline # <<>>
  /\ pipeline' = Tail(pipeline)
  /\ completions' = Append(completions, Head(pipeline))

CommitWrite ==
  /\ Depart
  /\ LET w == Head(pipeline)
     IN  /\ following' = IF w.kind = "first" THEN ApplyOp(following, w.op, w.uid) ELSE following
         /\ follower' = IF w.kind = "second" THEN ApplyOp(follower, w.op, w.uid) ELSE follower
  /\ UNCHANGED <<sender, arrived, screen, reads, events, aux>>

(* The backend refuses the write; the completions do not look at the error. *)
RefuseWrite ==
  /\ events < MaxEvents
  /\ Depart
  /\ events' = events + 1
  /\ blurred' = blurred \cup From(Head(pipeline).uid)
  /\ touched' = touched \cup From(Head(pipeline).uid)
  /\ UNCHANGED <<backend, screen, reads>>

(* The handler of the Following write issues the Follower write. *)
HandleFirst ==
  /\ HandleKind("first")
  /\ pipeline' = Append(pipeline, [Head(completions) EXCEPT !.kind = "second"])
  /\ UNCHANGED <<backend, screen, reads, events, aux>>

(* Mutant: the completion does not touch the cell. *)
HandleSecondOnly ==
  /\ HandleKind("second")
  /\ UNCHANGED <<backend, screen, reads, pipeline, events, aux>>

(* The completion of follow and unFollow alike: toggle. *)
HandleSecond ==
  /\ HandleKind("second")
  /\ LET c == Head(completions).cell
     IN cells' = [cells EXCEPT ![c] = IF @ = <<>> THEN @ ELSE <<@[1], ~@[2]>>]
  /\ UNCHANGED <<backend, rows, place, reads, pipeline, events, aux>>

HandleNext == HandleList \/ HandleCheck \/ HandleFirst \/ HandleSecond

NoteNext ==
  \/ Arrive
  \/ OnRefresh
  \/ QueryAnswer
  \/ QueryFails
  \/ \E n \in Notifications : CheckAnswer(n) \/ CheckFails(n)
  \/ Scroll
  \/ \E i \in DOMAIN rows : Tap(i)
  \/ CommitWrite
  \/ RefuseWrite
  \/ HandleNext

NoteSpec == NoteInit /\ [][NoteNext]_noteVars
----------------------------------------------------------------------------
AtRest ==
  /\ queries = 0
  /\ \A n \in Notifications : checks[n] = 0
  /\ pipeline = <<>>
  /\ completions = <<>>

(* Once nothing is on its way, a row says that its sender is followed        *)
(* exactly when that is so, whatever refreshes, arrivals and answers came in *)
(* between, unless a button was tapped after the row had been checked.       *)
RowsTruthful ==
  AtRest => \A i \in DOMAIN rows :
    rows[i][1] \notin touched => (rows[i][2] <=> sender[rows[i][1]] \in following)

(* A button tells the truth at rest, a tap later too, although the           *)
(* completion only toggles: unless taps about one sender overlapped, the     *)
(* table was reloaded or scrolled after the tap, a chain ran while its row   *)
(* was checked, or another notification of the sender was tapped.            *)
ButtonTruthful ==
  AtRest => \A i \in DOMAIN rows :
    LET shown == cells[place[i]]
    IN  shown[1] \notin blurred => (shown[2] <=> sender[shown[1]] \in following)
============================================================================
