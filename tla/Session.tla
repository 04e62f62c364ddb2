------------------------------- MODULE Session ------------------------------
(***************************************************************************)
(* Signing in and out (AuthService, LoginController, RegistrationController *)
(* and FeedController.onTapLogout) and the tabs that belong to the account  *)
(* (MainTabController).                                                     *)
(*                                                                         *)
(* Every way to sign in is a chain of asynchronous calls whose last        *)
(* completion is authenticationDidComplete: it asks for the User document  *)
(* of whoever is signed in by then and dismisses what is presented.  The   *)
(* buttons stay enabled meanwhile, errors are printed and nothing else,    *)
(* and Firebase Auth changes the current user before the completion runs.  *)
(***************************************************************************)
EXTENDS Naturals, Sequences, FiniteSets, SequencesExt

CONSTANTS Users,       \* accounts that may exist
          Known,       \* accounts registered before, with their User document
          NoOne,       \* nobody is signed in
          MaxStarts,   \* bound on the sign-ins started
          MaxLogouts,  \* bound on the taps on Logout
          MaxFaults    \* bound on errors, refusals and kills

ASSUME SessionAssumption ==
  /\ Known \subseteq Users
  /\ NoOne \notin Users
  /\ MaxStarts \in Nat /\ MaxLogouts \in Nat /\ MaxFaults \in Nat

VARIABLES current,     \* Auth.auth().currentUser, kept in the keychain
          accounts,    \* the accounts of Firebase Auth
          profiles,    \* the User documents on the backend
          outbox,      \* User documents to be written, in the order of issue
          calls,       \* sign-in chains waiting for an answer
          fetches,     \* per account, fetchUser requests not yet answered
          handlers,    \* completions waiting for the main queue
          modal,       \* what is presented over the tabs
          tabs,        \* MainTabController.user, the owner of the tabs
          starts, logouts, faults,  \* how many there were so far
          overlapped,  \* auxiliary: a sign-in was started while another ran
          cut,         \* auxiliary: accounts whose setData was refused, never issued
                       \* or issued under another account
          stale        \* auxiliary: the last fetchUser came late or not at all

backend == <<accounts, profiles>>
counters == <<starts, logouts, faults>>
aux == <<overlapped, cut, stale>>
vars == <<current, backend, outbox, calls, fetches, handlers, modal, tabs,
          counters, aux>>

(* A chain: "upload" and "create" of a registration, "sheet" and "signIn" of *)
(* a Google sign-in, "signIn" of a login.                                    *)
Call == [id : 1 .. MaxStarts, kind : {"login", "register", "google"},
         uid : Users, phase : {"upload", "create", "sheet", "signIn"}]

(* The setData of a User document, the account it was issued under, and      *)
(* whether its completion is still there.                                    *)
Write == [uid : Users, by : Users \cup {NoOne}, live : BOOLEAN]

(* "user" carries the answer of fetchUser, "profile" the end of a setData,   *)
(* the others the answer of Firebase Auth.                                   *)
Handler == [kind : {"login", "register", "google", "profile", "user"}, uid : Users]

----------------------------------------------------------------------------
(* fetchUser for the current user, if there is one. *)
FetchUser(u, f) == IF u = NoOne THEN f ELSE [f EXCEPT ![u] = @ + 1]

Init ==
  /\ current \in Known \cup {NoOne}
  /\ accounts = Known
  /\ profiles = Known
  /\ outbox = <<>>
  /\ calls = {}
  /\ fetches = FetchUser(current, [u \in Users |-> 0])
  /\ handlers = <<>>
  /\ modal = IF current = NoOne THEN "login" ELSE "none"
  /\ tabs = NoOne
  /\ starts = 0 /\ logouts = 0 /\ faults = 0
  /\ overlapped = FALSE
  /\ cut = {}
  /\ stale = FALSE

(* A chain has not called its last completion yet. *)
SigningIn ==
  \/ calls # {}
  \/ \E i \in DOMAIN handlers : handlers[i].kind # "user"
  \/ \E i \in DOMAIN outbox : outbox[i].live

Start(kind, u, phase) ==
  /\ starts < MaxStarts
  /\ \A c \in calls : c.phase # "sheet"
  /\ starts' = starts + 1
  /\ calls' = calls \cup {[id |-> starts + 1, kind |-> kind, uid |-> u, phase |-> phase]}
  /\ overlapped' = (overlapped \/ SigningIn)
  /\ UNCHANGED <<current, backend, outbox, fetches, handlers, modal, tabs,
                 logouts, faults, cut, stale>>

(* LoginController.onTapLogin *)
TapLogin(u) == modal = "login" /\ Start("login", u, "signIn")

(* LoginController.onTapLoginGoogle: Google's sheet covers the screen. *)
TapLoginGoogle(u) == modal = "login" /\ Start("google", u, "sheet")

(* RegistrationController.onTapSignUp: the image is uploaded first. *)
TapSignUp(u) == modal = "registration" /\ Start("register", u, "upload")

(* LoginController.onTapRegister, and RegistrationController.onTapLogin. *)
Turn(from, to) ==
  /\ modal = from
  /\ \A c \in calls : c.phase # "sheet"
  /\ modal' = to
  /\ UNCHANGED <<current, backend, outbox, calls, fetches, handlers, tabs,
                 counters, aux>>

(* The sheet is filled in: registerGoogleUser signs out, then signs in. *)
SheetDone(c) ==
  /\ c.phase = "sheet"
  /\ current' = NoOne
  /\ calls' = (calls \ {c}) \cup {[c EXCEPT !.phase = "signIn"]}
  /\ UNCHANGED <<backend, outbox, fetches, handlers, modal, tabs, counters, aux>>

(* The image is in Storage: createUser. *)
Uploaded(c) ==
  /\ c.phase = "upload"
  /\ calls' = (calls \ {c}) \cup {[c EXCEPT !.phase = "create"]}
  /\ UNCHANGED <<current, backend, outbox, fetches, handlers, modal, tabs,
                 counters, aux>>

(* Firebase Auth answers: the account is the current user from here on, its *)
(* completion runs later.                                                   *)
AuthAnswer(c) ==
  /\ c.phase \in {"create", "signIn"}
  /\ c.kind = "login" => c.uid \in accounts
  /\ c.kind = "register" => c.uid \notin accounts
  /\ accounts' = accounts \cup {c.uid}
  /\ current' = c.uid
  /\ calls' = calls \ {c}
  /\ handlers' = Append(handlers, [kind |-> c.kind, uid |-> c.uid])
  /\ UNCHANGED <<profiles, outbox, fetches, modal, tabs, counters, aux>>

(* Mutant: the completion prints and goes on as if the call had succeeded. *)
CallFailsThrough(c) ==
  /\ calls' = calls \ {c}
  /\ handlers' = Append(handlers, [kind |-> "login", uid |-> c.uid])
  /\ UNCHANGED <<current, backend, outbox, fetches, modal, tabs, starts, logouts,
                 aux>>

(* The completion of a call that failed prints and returns. *)
CallFails(c) ==
  /\ calls' = calls \ {c}
  /\ UNCHANGED <<current, backend, outbox, fetches, handlers, modal, tabs,
                 starts, logouts, aux>>

(* An unknown or a taken address, or the sheet is cancelled. *)
Declined(c) ==
  /\ \/ c.kind = "login" /\ c.uid \notin accounts
     \/ c.phase = "create" /\ c.uid \in accounts
     \/ c.phase = "sheet"
  /\ CallFails(c)
  /\ UNCHANGED faults

(* A wrong password, or no network. *)
Fails(c) ==
  /\ faults < MaxFaults
  /\ c.phase # "sheet"
  /\ faults' = faults + 1
  /\ CallFails(c)

----------------------------------------------------------------------------
(* Mutant: the User document is not asked for again. *)
AuthenticationDidCompleteOnly ==
  /\ UNCHANGED fetches
  /\ modal' = "none"

(* MainTabController.authenticationDidComplete *)
AuthenticationDidComplete ==
  /\ fetches' = FetchUser(current, fetches)
  /\ modal' = "none"

Handle(kinds) ==
  /\ handlers # <<>>
  /\ Head(handlers).kind \in kinds
  /\ handlers' = Tail(handlers)

(* The end of a login, or of the setData of a registration. *)
HandleComplete ==
  /\ Handle({"login", "profile"})
  /\ AuthenticationDidComplete
  /\ UNCHANGED <<current, backend, outbox, calls, tabs, counters, aux>>

(* The end of createUser, or of the sign-in with Google: setData, which the *)
(* Firestore client queues under whoever is signed in by now.               *)
HandleRegister ==
  /\ Handle({"register", "google"})
  /\ LET u == Head(handlers).uid
     IN  /\ outbox' = Append(outbox, [uid |-> u, by |-> current, live |-> TRUE])
         /\ cut' = IF u = current THEN cut ELSE cut \cup {u}
  /\ UNCHANGED <<current, backend, calls, fetches, modal, tabs, counters,
                 overlapped, stale>>

(* Mutant: the tabs are built for the first user only. *)
HandleUserOnce ==
  /\ Handle({"user"})
  /\ tabs' = IF tabs = NoOne THEN Head(handlers).uid ELSE tabs
  /\ stale' = (Head(handlers).uid # current)
  /\ UNCHANGED <<current, backend, outbox, calls, fetches, modal, counters,
                 overlapped, cut>>

(* The answer of fetchUser: the tabs are built anew for its user. *)
HandleUser ==
  /\ Handle({"user"})
  /\ tabs' = Head(handlers).uid
  /\ stale' = (Head(handlers).uid # current)
  /\ UNCHANGED <<current, backend, outbox, calls, fetches, modal, counters,
                 overlapped, cut>>

(* The first write of the account that is signed in leaves the outbox. *)
Depart(i) ==
  /\ i \in DOMAIN outbox
  /\ outbox[i].by = current
  /\ \A j \in 1 .. i - 1 : outbox[j].by # current
  /\ outbox' = RemoveAt(outbox, i)

Commit(i) ==
  /\ Depart(i)
  /\ profiles' = profiles \cup {outbox[i].uid}
  /\ handlers' = IF outbox[i].live
                   THEN Append(handlers, [kind |-> "profile", uid |-> outbox[i].uid])
                   ELSE handlers
  /\ UNCHANGED <<current, accounts, calls, fetches, modal, tabs, counters, aux>>

(* The backend refuses the document: the completion prints and returns. *)
Refuse(i) ==
  /\ faults < MaxFaults
  /\ Depart(i)
  /\ faults' = faults + 1
  /\ cut' = cut \cup {outbox[i].uid}
  /\ UNCHANGED <<current, backend, calls, fetches, handlers, modal, tabs,
                 starts, logouts, overlapped, stale>>

(* The document as this device sees it: the backend's or one in the outbox. *)
LocallyExists(u) ==
  \/ u \in profiles
  \/ \E i \in DOMAIN outbox : outbox[i].uid = u /\ outbox[i].by = current

(* fetchUser is answered; without a document the guard returns. *)
FetchAnswer(u) ==
  /\ fetches[u] > 0
  /\ fetches' = [fetches EXCEPT ![u] = @ - 1]
  /\ handlers' = IF LocallyExists(u) THEN Append(handlers, [kind |-> "user", uid |-> u])
                                     ELSE handlers
  /\ UNCHANGED <<current, backend, outbox, calls, modal, tabs, counters, aux>>

(* fetchUser fails, and the same guard returns. *)
FetchFails(u) ==
  /\ faults < MaxFaults
  /\ fetches[u] > 0
  /\ faults' = faults + 1
  /\ fetches' = [fetches EXCEPT ![u] = @ - 1]
  /\ stale' = TRUE
  /\ UNCHANGED <<current, backend, outbox, calls, handlers, modal, tabs, starts,
                 logouts, overlapped, cut>>

(* FeedController.onTapLogout, on the first tab. *)
TapLogout ==
  /\ logouts < MaxLogouts
  /\ modal = "none"
  /\ tabs # NoOne
  /\ logouts' = logouts + 1
  /\ current' = NoOne
  /\ modal' = "login"
  /\ UNCHANGED <<backend, outbox, calls, fetches, handlers, tabs, starts, faults,
                 aux>>

(* The process dies and is started again: SceneDelegate builds the tabs, and  *)
(* viewDidLoad presents the login screen or fetches the user.  A createUser   *)
(* under way may still reach the backend.                                     *)
Kill ==
  /\ faults < MaxFaults
  /\ faults' = faults + 1
  /\ accounts' \in {accounts \cup s :
                      s \in SUBSET {c.uid : c \in {c \in calls : c.phase = "create"}}}
  /\ cut' = cut \cup {c.uid : c \in {c \in calls : c.phase = "create"}}
                \cup {handlers[i].uid : i \in {i \in DOMAIN handlers :
                                               handlers[i].kind \in {"register", "google"}}}
  /\ calls' = {}
  /\ handlers' = <<>>
  /\ outbox' = [i \in DOMAIN outbox |-> [outbox[i] EXCEPT !.live = FALSE]]
  /\ fetches' = FetchUser(current, [u \in Users |-> 0])
  /\ modal' = IF current = NoOne THEN "login" ELSE "none"
  /\ tabs' = NoOne
  /\ overlapped' = FALSE
  /\ stale' = FALSE
  /\ UNCHANGED <<current, profiles, starts, logouts>>

HandleNext == HandleComplete \/ HandleRegister \/ HandleUser

Answer(c) == Uploaded(c) \/ AuthAnswer(c) \/ Declined(c)

Next ==
  \/ \E u \in Users : TapLogin(u) \/ TapLoginGoogle(u) \/ TapSignUp(u)
  \/ Turn("login", "registration")
  \/ Turn("registration", "login")
  \/ \E c \in calls : SheetDone(c) \/ Answer(c) \/ Fails(c)
  \/ HandleNext
  \/ \E i \in DOMAIN outbox : Commit(i) \/ Refuse(i)
  \/ \E u \in Users : FetchAnswer(u) \/ FetchFails(u)
  \/ TapLogout
  \/ Kill

Spec == Init /\ [][Next]_vars

(* The network answers and the main queue runs; users need not do anything. *)
Fairness ==
  /\ WF_vars(HandleNext)
  /\ WF_vars(\E c \in calls : Answer(c))
  /\ WF_vars(\E i \in DOMAIN outbox : Commit(i))
  /\ \A u \in Users : WF_vars(FetchAnswer(u))

FairSpec == Spec /\ Fairness
----------------------------------------------------------------------------
(* Nothing is on its way for the account that is signed in. *)
AtRest ==
  /\ calls = {}
  /\ handlers = <<>>
  /\ \A u \in Users : fetches[u] = 0
  /\ \A i \in DOMAIN outbox : outbox[i].by # current

(* Once everything has come to rest, the login or the registration screen is *)
(* presented exactly when nobody is signed in: no error, no logout and no    *)
(* restart strands the user, unless sign-ins overlapped or a registration    *)
(* was cut short after its account had been created.                         *)
ModalAgrees ==
  AtRest /\ ~overlapped /\ current \notin cut
    => (modal = "none" <=> current # NoOne)

(* The tabs a user can tap belong to the account that writes on their        *)
(* behalf, however many sign-ins overlapped, once all is at rest, unless an  *)
(* answer to fetchUser came after its account had been signed out, or the    *)
(* account has no User document because its registration was cut short.      *)
TabsBelong ==
  AtRest /\ modal = "none" /\ tabs # NoOne /\ current # NoOne
    => tabs = current \/ stale \/ current \in cut

(* Tabs that were never built, with no screen over them and so no button to *)
(* tap, are what only overlapping sign-ins, a cut registration or a failed  *)
(* fetchUser lead to: everybody else gets in or can sign in.                *)
NoDeadEnd ==
  AtRest /\ modal = "none" /\ tabs = NoOne
    => current \in cut \/ stale \/ overlapped

(* Whoever gets past the login screen gets tabs, and in the end the right   *)
(* ones, or signs out again, unless the User document could not be had.     *)
SessionSettles ==
  \A u \in Users :
    (current = u /\ modal = "none")
      ~> (tabs = u \/ current # u \/ stale \/ u \in cut)
============================================================================
