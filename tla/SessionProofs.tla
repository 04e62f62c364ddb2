--------------------------- MODULE SessionProofs ---------------------------
(***************************************************************************)
(* Proofs that no sequence of sign-ins, registrations, logouts, errors and *)
(* restarts strands the user in front of the wrong screen or gives them    *)
(* somebody else's tabs, for any accounts and any bounds.  At the end, the *)
(* search tab: its table holds what the search bar asks for.               *)
(***************************************************************************)
EXTENDS Session, Search, SequenceLemmas

----------------------------------------------------------------------------
(* The types of what the properties depend on. *)
TypeInv ==
  /\ current \in accounts \cup {NoOne}
  /\ accounts \subseteq Users
  /\ outbox \in Seq(Write)
  /\ calls \subseteq Call
  /\ fetches \in [Users -> Nat]
  /\ handlers \in Seq(Handler)
  /\ modal \in {"none", "login", "registration"}
  /\ tabs \in Users \cup {NoOne}
  /\ starts \in 0 .. MaxStarts
  /\ overlapped \in BOOLEAN
  /\ stale \in BOOLEAN

(* The completions of a sign-in, and the User documents whose completion is *)
(* still there.                                                             *)
Completions == {h \in Handler : h.kind # "user"}
Live == {w \in Write : w.live}

(* The completion of Firebase Auth or of setData waits for the main queue. *)
Ending == \E h \in ToSet(handlers) : h.kind # "user"

(* A User document whose completion is still there waits to be written. *)
Storing == \E w \in ToSet(outbox) : w.live

(* At most one sign-in runs, and it is in one of its phases. *)
OneChain ==
  /\ \A c, d \in calls : c = d
  /\ Single(handlers, Completions)
  /\ Single(outbox, Live)
  /\ calls # {} => ~Ending /\ ~Storing
  /\ Ending => ~Storing

(* Where a sign-in that nothing overlaps has got to: it runs in front of   *)
(* the login or registration screen, and once Firebase Auth has answered   *)
(* it is about the current user.  Without one, the screen is there because *)
(* nobody is signed in or because a registration was cut short.            *)
ChainKept ==
  ~overlapped =>
    /\ modal = "none" => current # NoOne /\ calls = {} /\ ~Ending /\ ~Storing
    /\ OneChain
    /\ \A h \in ToSet(handlers) : h.kind # "user" => h.uid = current
    /\ \A w \in ToSet(outbox) : w.live => w.uid = current /\ w.by = current
    /\ modal # "none" /\ ~Ending /\ ~Storing => current = NoOne \/ current \in cut

(* The User document of every account exists, is on its way, is about to   *)
(* be issued or was cut.                                                   *)
ProfilesComing ==
  \A u \in accounts :
    \/ u \in profiles
    \/ u \in cut
    \/ \E h \in ToSet(handlers) : h.kind \in {"register", "google"} /\ h.uid = u
    \/ \E w \in ToSet(outbox) : w.uid = u /\ w.by = u

(* Something is under way that ends in tabs for u, who is signed in. *)
TabsComing(u) ==
  \/ fetches[u] > 0
  \/ \E h \in ToSet(handlers) : h.kind \in {"login", "profile"}
  \/ \E h \in ToSet(handlers) : h.kind \in {"user", "register", "google"} /\ h.uid = u
  \/ \E w \in ToSet(outbox) : w.live /\ w.uid = u /\ w.by = u

(* The tabs are the current user's, or will be, or cannot be. *)
TabsFollow ==
  current # NoOne => \/ tabs = current
                     \/ stale
                     \/ current \in cut
                     \/ TabsComing(current)

SessionInv == TypeInv /\ ChainKept /\ ProfilesComing /\ TabsFollow
----------------------------------------------------------------------------
(* A sign-in runs while one of its calls, completions or documents is there. *)
LEMMA SigningInIs == SigningIn <=> calls # {} \/ Ending \/ Storing
BY DEF SigningIn, Ending, Storing, ToSet

(* A completion is posted to the main queue. *)
LEMMA Posted ==
  ASSUME TypeInv, NEW h \in Handler, handlers' = Append(handlers, h)
  PROVE  /\ handlers' \in Seq(Handler)
         /\ ToSet(handlers') = ToSet(handlers) \cup {h}
         /\ Single(handlers, Completions) /\ (h.kind = "user" \/ ~Ending)
              => Single(handlers', Completions)
<1>1. handlers \in Seq(Handler)
  BY DEF TypeInv
<1>2. handlers' \in Seq(Handler) /\ ToSet(handlers') = ToSet(handlers) \cup {h}
  BY <1>1, ToSetAppend
<1>3. ASSUME Single(handlers, Completions), h.kind = "user" \/ ~Ending
      PROVE  Single(handlers', Completions)
  <2>1. h \in Completions => \A y \in ToSet(handlers) : y \notin Completions
    BY <1>3 DEF Completions, Ending
  <2> QED
    BY <1>1, <1>3, <2>1, SingleAppend
<1> QED
  BY <1>2, <1>3

(* The main queue takes the first completion. *)
LEMMA Taken ==
  ASSUME TypeInv, handlers # <<>>, handlers' = Tail(handlers)
  PROVE  /\ handlers' \in Seq(Handler)
         /\ Head(handlers) \in Handler
         /\ ToSet(handlers) = {Head(handlers)} \cup ToSet(handlers')
         /\ Single(handlers, Completions) =>
              /\ Single(handlers', Completions)
              /\ Head(handlers).kind # "user" => ~Ending'
<1>1. handlers \in Seq(Handler)
  BY DEF TypeInv
<1>2. /\ handlers' \in Seq(Handler)
      /\ Head(handlers) \in Handler
      /\ ToSet(handlers) = {Head(handlers)} \cup ToSet(handlers')
  BY <1>1, ToSetTail
<1>3. ASSUME Single(handlers, Completions)
      PROVE  /\ Single(handlers', Completions)
             /\ Head(handlers).kind # "user" => ~Ending'
  <2>1. /\ Single(handlers', Completions)
        /\ Head(handlers) \in Completions => \A y \in ToSet(handlers') : y \notin Completions
    BY <1>1, <1>3, SingleTail
  <2>2. ToSet(handlers') \subseteq Handler
    BY <1>2, ToSetType
  <2> QED
    BY <1>2, <2>1, <2>2 DEF Completions, Ending
<1> QED
  BY <1>2, <1>3

(* A User document is put in the outbox. *)
LEMMA Issued ==
  ASSUME TypeInv, NEW w \in Write, outbox' = Append(outbox, w)
  PROVE  /\ outbox' \in Seq(Write)
         /\ ToSet(outbox') = ToSet(outbox) \cup {w}
         /\ Single(outbox, Live) /\ ~Storing => Single(outbox', Live)
<1>1. outbox \in Seq(Write)
  BY DEF TypeInv
<1>2. outbox' \in Seq(Write) /\ ToSet(outbox') = ToSet(outbox) \cup {w}
  BY <1>1, ToSetAppend
<1>3. ASSUME Single(outbox, Live), ~Storing
      PROVE  Single(outbox', Live)
  <2>1. w \in Live => \A y \in ToSet(outbox) : y \notin Live
    BY <1>3 DEF Live, Storing
  <2> QED
    BY <1>1, <1>3, <2>1, SingleAppend
<1> QED
  BY <1>2, <1>3

(* A User document leaves the outbox. *)
LEMMA Departed ==
  ASSUME TypeInv, NEW i \in DOMAIN outbox, Depart(i)
  PROVE  /\ outbox' \in Seq(Write)
         /\ outbox[i] \in Write
         /\ outbox[i].by = current
         /\ ToSet(outbox) = {outbox[i]} \cup ToSet(outbox')
         /\ Single(outbox, Live) =>
              /\ Single(outbox', Live)
              /\ outbox[i].live => ~Storing'
<1>1. outbox \in Seq(Write) /\ outbox' = RemoveAt(outbox, i)
  BY DEF TypeInv, Depart
<1>2. /\ outbox' \in Seq(Write)
      /\ outbox[i] \in Write
      /\ ToSet(outbox) = {outbox[i]} \cup ToSet(outbox')
  BY <1>1, ToSetRemoved
<1>3. ASSUME Single(outbox, Live)
      PROVE  /\ Single(outbox', Live)
             /\ outbox[i].live => ~Storing'
  <2>1. /\ Single(outbox', Live)
        /\ outbox[i] \in Live => \A y \in ToSet(outbox') : y \notin Live
    BY <1>1, <1>3, SingleRemoved
  <2>2. ToSet(outbox') \subseteq Write
    BY <1>2, ToSetType
  <2> QED
    BY <1>2, <2>1, <2>2 DEF Live, Storing
<1> QED
  BY <1>2, <1>3 DEF Depart

(* A request for the User document of whoever is signed in. *)
LEMMA Fetching ==
  ASSUME NEW u \in Users \cup {NoOne}, NEW f \in [Users -> Nat]
  PROVE  /\ FetchUser(u, f) \in [Users -> Nat]
         /\ u # NoOne => FetchUser(u, f)[u] > 0
         /\ \A v \in Users : FetchUser(u, f)[v] >= f[v]
BY DEF FetchUser
----------------------------------------------------------------------------
(* The invariant holds when the application is started, signed in or not. *)
LEMMA InitSession == Init => SessionInv
<1>1. SUFFICES ASSUME Init PROVE SessionInv
  OBVIOUS
<1>2. /\ current \in Known \cup {NoOne} /\ accounts = Known /\ profiles = Known
      /\ outbox = <<>> /\ calls = {} /\ handlers = <<>> /\ tabs = NoOne /\ starts = 0
      /\ fetches = FetchUser(current, [u \in Users |-> 0])
      /\ modal = (IF current = NoOne THEN "login" ELSE "none")
      /\ overlapped = FALSE /\ cut = {} /\ stale = FALSE
  BY <1>1 DEF Init
<1>3. ToSet(outbox) = {} /\ ToSet(handlers) = {}
  BY <1>2, ToSetEmpty
<1>4. fetches \in [Users -> Nat] /\ (current # NoOne => fetches[current] > 0)
  <2>1. current \in Users \cup {NoOne} /\ [u \in Users |-> 0] \in [Users -> Nat]
    BY <1>2, SessionAssumption
  <2> QED
    BY <1>2, <2>1, Fetching
<1>5. TypeInv
  <2>1. outbox \in Seq(Write) /\ handlers \in Seq(Handler) /\ starts \in 0 .. MaxStarts
    BY <1>2, SessionAssumption
  <2>2. /\ modal \in {"none", "login", "registration"}
        /\ overlapped \in BOOLEAN /\ stale \in BOOLEAN
    BY <1>2
  <2> QED
    BY <1>2, <1>4, <2>1, <2>2, SessionAssumption DEF TypeInv
<1>6. ~Ending /\ ~Storing
  BY <1>3 DEF Ending, Storing
<1>7. ChainKept
  <2>1. Single(handlers, Completions) /\ Single(outbox, Live)
    BY <1>2 DEF Single
  <2> QED
    BY <1>2, <1>3, <1>6, <2>1 DEF ChainKept, OneChain
<1>8. ProfilesComing
  BY <1>2 DEF ProfilesComing
<1>9. TabsFollow
  BY <1>4 DEF TabsFollow, TabsComing
<1> QED
  BY <1>5, <1>7, <1>8, <1>9 DEF SessionInv

----------------------------------------------------------------------------
(* A sign-in is started.  When another runs, overlapped says so. *)
LEMMA StartStep ==
  ASSUME SessionInv, NEW k \in {"login", "register", "google"}, NEW u \in Users,
         NEW p \in {"upload", "sheet", "signIn"}, Start(k, u, p), modal # "none"
  PROVE  SessionInv'
<1> DEFINE c == [id |-> starts + 1, kind |-> k, uid |-> u, phase |-> p]
<1>1. /\ starts < MaxStarts /\ starts' = starts + 1 /\ calls' = calls \cup {c}
      /\ overlapped' = (overlapped \/ SigningIn)
      /\ UNCHANGED <<current, accounts, profiles, outbox, fetches, handlers, modal, tabs,
                     cut, stale>>
  BY DEF Start, backend
<1>2. TypeInv
  BY DEF SessionInv
<1>3. c \in Call
  BY <1>1, <1>2, SessionAssumption DEF TypeInv, Call
<1> HIDE DEF c
<1>4. (Ending' <=> Ending) /\ (Storing' <=> Storing)
  BY <1>1 DEF Ending, Storing
<1>5. TypeInv'
  <2>1. starts' \in 0 .. MaxStarts /\ overlapped' \in BOOLEAN
    BY <1>1, <1>2, SessionAssumption DEF TypeInv, SigningIn
  <2> QED
    BY <1>1, <1>2, <1>3, <2>1 DEF TypeInv
<1>6. ChainKept'
  <2>1. SUFFICES ASSUME ~overlapped' PROVE ChainKept'
    BY DEF ChainKept
  <2>2. ~overlapped /\ calls = {} /\ ~Ending /\ ~Storing
    BY <1>1, <2>1, SigningInIs
  <2>3. /\ OneChain
        /\ current = NoOne \/ current \in cut
        /\ \A h \in ToSet(handlers) : h.kind # "user" => h.uid = current
        /\ \A w \in ToSet(outbox) : w.live => w.uid = current /\ w.by = current
    BY <2>2 DEF SessionInv, ChainKept
  <2>4. OneChain'
    BY <1>1, <1>4, <2>2, <2>3 DEF OneChain
  <2> QED
    BY <1>1, <2>3, <2>4 DEF ChainKept
<1>7. ProfilesComing' /\ TabsFollow'
  BY <1>1 DEF SessionInv, ProfilesComing, TabsFollow, TabsComing
<1> QED
  BY <1>5, <1>6, <1>7 DEF SessionInv

(* One of the two screens takes the place of the other. *)
LEMMA TurnStep ==
  ASSUME SessionInv, NEW from \in {"login", "registration"},
         NEW to \in {"login", "registration"}, Turn(from, to)
  PROVE  SessionInv'
<1>1. /\ modal # "none" /\ modal' \in {"login", "registration"}
      /\ UNCHANGED <<current, accounts, profiles, outbox, calls, fetches, handlers, tabs,
                     starts, overlapped, cut, stale>>
  BY DEF Turn, backend, counters, aux
<1>2. TypeInv'
  BY <1>1 DEF SessionInv, TypeInv
<1>3. ChainKept'
  <2>1. (Ending' <=> Ending) /\ (Storing' <=> Storing) /\ (OneChain' <=> OneChain)
    BY <1>1 DEF Ending, Storing, OneChain
  <2> QED
    BY <1>1, <2>1 DEF SessionInv, ChainKept
<1>4. ProfilesComing' /\ TabsFollow'
  BY <1>1 DEF SessionInv, ProfilesComing, TabsFollow, TabsComing
<1> QED
  BY <1>2, <1>3, <1>4 DEF SessionInv

(* A call of a sign-in goes on to its next phase; Google's signs out first. *)
LEMMA PhaseStep ==
  ASSUME SessionInv, NEW c \in calls, SheetDone(c) \/ Uploaded(c)
  PROVE  SessionInv'
<1>1. PICK p \in {"create", "signIn"} :
        /\ calls' = (calls \ {c}) \cup {[c EXCEPT !.phase = p]}
        /\ current' = current \/ current' = NoOne
        /\ UNCHANGED <<accounts, profiles, outbox, fetches, handlers, modal, tabs,
                       starts, overlapped, cut, stale>>
  BY DEF SheetDone, Uploaded, backend, counters, aux
<1>2. TypeInv
  BY DEF SessionInv
<1>3. [c EXCEPT !.phase = p] \in Call
  <2>1. c \in Call
    BY <1>2 DEF TypeInv
  <2> QED
    BY <1>1, <2>1 DEF Call
<1>4. (Ending' <=> Ending) /\ (Storing' <=> Storing)
  BY <1>1 DEF Ending, Storing
<1>5. TypeInv'
  BY <1>1, <1>2, <1>3 DEF TypeInv
<1>6. ChainKept'
  <2>1. SUFFICES ASSUME ~overlapped' PROVE ChainKept'
    BY DEF ChainKept
  <2>2. /\ ~overlapped /\ OneChain
        /\ modal = "none" => calls = {}
        /\ modal # "none" /\ ~Ending /\ ~Storing => current = NoOne \/ current \in cut
    BY <1>1, <2>1 DEF SessionInv, ChainKept
  <2>3. calls = {c} /\ ~Ending /\ ~Storing /\ modal # "none"
    BY <2>2 DEF OneChain
  <2>4. OneChain'
    BY <1>1, <1>4, <2>2, <2>3 DEF OneChain
  <2>5. current' = NoOne \/ current' \in cut
    BY <1>1, <2>2, <2>3
  <2>6. /\ \A h \in ToSet(handlers) : h.kind = "user"
        /\ \A w \in ToSet(outbox) : ~w.live
    BY <2>3 DEF Ending, Storing
  <2> QED
    BY <1>1, <2>3, <2>4, <2>5, <2>6 DEF ChainKept
<1>7. ProfilesComing'
  BY <1>1 DEF SessionInv, ProfilesComing
<1>8. TabsFollow'
  BY <1>1 DEF SessionInv, TabsFollow, TabsComing
<1> QED
  BY <1>5, <1>6, <1>7, <1>8 DEF SessionInv

(* Firebase Auth answers: from here on the account is the current user. *)
LEMMA AuthAnswerStep ==
  ASSUME SessionInv, NEW c \in calls, AuthAnswer(c)
  PROVE  SessionInv'
<1> DEFINE h == [kind |-> c.kind, uid |-> c.uid]
<1>1. /\ c.kind = "login" => c.uid \in accounts
      /\ accounts' = accounts \cup {c.uid}
      /\ current' = c.uid
      /\ calls' = calls \ {c}
      /\ handlers' = Append(handlers, h)
      /\ UNCHANGED <<profiles, outbox, fetches, modal, tabs, starts, overlapped, cut, stale>>
  BY DEF AuthAnswer, counters, aux
<1>2. TypeInv
  BY DEF SessionInv
<1>3. c \in Call
  BY <1>2 DEF TypeInv
<1>4. c.uid \in Users /\ c.kind \in {"login", "register", "google"}
  BY <1>3 DEF Call
<1>5. h \in Handler /\ h.kind = c.kind /\ h.uid = c.uid
  BY <1>4 DEF Handler
<1> HIDE DEF h
<1>6. /\ handlers' \in Seq(Handler)
      /\ ToSet(handlers') = ToSet(handlers) \cup {h}
      /\ Single(handlers, Completions) /\ ~Ending => Single(handlers', Completions)
  BY <1>1, <1>2, <1>5, Posted
<1>7. TypeInv'
  BY <1>1, <1>2, <1>4, <1>6 DEF TypeInv
<1>8. ChainKept'
  <2>1. SUFFICES ASSUME ~overlapped' PROVE ChainKept'
    BY DEF ChainKept
  <2>2. ~overlapped /\ OneChain /\ (modal = "none" => calls = {})
    BY <1>1, <2>1 DEF SessionInv, ChainKept
  <2>3. calls = {c} /\ ~Ending /\ ~Storing /\ modal # "none"
    BY <2>2 DEF OneChain
  <2>4. calls' = {} /\ ~Storing' /\ Ending'
    BY <1>1, <1>4, <1>5, <1>6, <2>3 DEF Storing, Ending
  <2>5. OneChain'
    BY <1>1, <1>6, <2>2, <2>3, <2>4 DEF OneChain
  <2>6. /\ \A g \in ToSet(handlers) : g.kind = "user"
        /\ \A w \in ToSet(outbox) : ~w.live
    BY <2>3 DEF Ending, Storing
  <2> QED
    BY <1>1, <1>5, <1>6, <2>3, <2>4, <2>5, <2>6 DEF ChainKept
<1>9. ProfilesComing'
  <2>1. c.uid \notin accounts => h.kind \in {"register", "google"}
    BY <1>1, <1>4, <1>5
  <2> QED
    BY <1>1, <1>5, <1>6, <2>1 DEF SessionInv, ProfilesComing
<1>10. TabsFollow'
  BY <1>1, <1>4, <1>5, <1>6 DEF TabsFollow, TabsComing
<1> QED
  BY <1>7, <1>8, <1>9, <1>10 DEF SessionInv

(* A call fails: its sign-in is over, and the screen stays. *)
LEMMA CallFailsStep ==
  ASSUME SessionInv, NEW c \in calls, CallFails(c)
  PROVE  SessionInv'
<1>1. /\ calls' = calls \ {c}
      /\ UNCHANGED <<current, accounts, profiles, outbox, fetches, handlers, modal, tabs,
                     starts, overlapped, cut, stale>>
  BY DEF CallFails, backend, aux
<1>2. TypeInv'
  BY <1>1 DEF SessionInv, TypeInv
<1>3. ChainKept'
  <2>1. (Ending' <=> Ending) /\ (Storing' <=> Storing)
    BY <1>1 DEF Ending, Storing
  <2>2. OneChain => OneChain'
    BY <1>1, <2>1 DEF OneChain
  <2> QED
    BY <1>1, <2>1, <2>2 DEF SessionInv, ChainKept
<1>4. ProfilesComing' /\ TabsFollow'
  BY <1>1 DEF SessionInv, ProfilesComing, TabsFollow, TabsComing
<1> QED
  BY <1>2, <1>3, <1>4 DEF SessionInv

(* A login is over, or a registration's document is stored: the screen goes *)
(* and the User document is asked for.                                      *)
LEMMA HandleCompleteStep ==
  ASSUME SessionInv, HandleComplete
  PROVE  SessionInv'
<1> DEFINE h == Head(handlers)
<1>1. /\ handlers # <<>> /\ h.kind \in {"login", "profile"} /\ handlers' = Tail(handlers)
      /\ fetches' = FetchUser(current, fetches) /\ modal' = "none"
      /\ UNCHANGED <<current, accounts, profiles, outbox, calls, tabs, starts, overlapped,
                     cut, stale>>
  BY DEF HandleComplete, Handle, AuthenticationDidComplete, backend, counters, aux
<1>2. TypeInv
  BY DEF SessionInv
<1>3. /\ handlers' \in Seq(Handler)
      /\ h \in Handler
      /\ ToSet(handlers) = {h} \cup ToSet(handlers')
      /\ Single(handlers, Completions) => Single(handlers', Completions) /\ ~Ending'
  BY <1>1, <1>2, Taken
<1>4. h.uid \in Users /\ h.kind # "user"
  BY <1>1, <1>3 DEF Handler
<1> HIDE DEF h
<1>5. fetches' \in [Users -> Nat] /\ (current # NoOne => fetches'[current] > 0)
  <2>1. current \in Users \cup {NoOne} /\ fetches \in [Users -> Nat]
    BY <1>2 DEF TypeInv
  <2> QED
    BY <1>1, <2>1, Fetching
<1>6. TypeInv'
  BY <1>1, <1>2, <1>3, <1>5 DEF TypeInv
<1>7. ChainKept'
  <2>1. SUFFICES ASSUME ~overlapped' PROVE ChainKept'
    BY DEF ChainKept
  <2>2. /\ ~overlapped /\ OneChain
        /\ \A g \in ToSet(handlers) : g.kind # "user" => g.uid = current
    BY <1>1, <2>1 DEF SessionInv, ChainKept
  <2>3. Ending
    BY <1>3, <1>4 DEF Ending
  <2>4. current # NoOne
    BY <1>3, <1>4, <2>2, SessionAssumption
  <2>5. calls' = {} /\ ~Storing /\ ~Storing' /\ ~Ending'
    BY <1>1, <1>3, <2>2, <2>3 DEF OneChain, Storing
  <2>6. OneChain'
    BY <1>1, <1>3, <2>2, <2>5 DEF OneChain
  <2>7. /\ \A g \in ToSet(handlers') : g.kind = "user"
        /\ \A w \in ToSet(outbox') : ~w.live
    BY <2>5 DEF Ending, Storing
  <2> QED
    BY <1>1, <2>4, <2>5, <2>6, <2>7 DEF ChainKept
<1>8. ProfilesComing'
  BY <1>1, <1>3 DEF SessionInv, ProfilesComing
<1>9. TabsFollow'
  BY <1>1, <1>5 DEF TabsFollow, TabsComing
<1> QED
  BY <1>6, <1>7, <1>8, <1>9 DEF SessionInv

(* The account exists: its User document is issued, under whoever is signed *)
(* in by now.                                                               *)
LEMMA HandleRegisterStep ==
  ASSUME SessionInv, HandleRegister
  PROVE  SessionInv'
<1> DEFINE h == Head(handlers)
           w == [uid |-> h.uid, by |-> current, live |-> TRUE]
<1>1. /\ handlers # <<>> /\ h.kind \in {"register", "google"} /\ handlers' = Tail(handlers)
      /\ outbox' = Append(outbox, w)
      /\ cut' = (IF h.uid = current THEN cut ELSE cut \cup {h.uid})
      /\ UNCHANGED <<current, accounts, profiles, calls, fetches, modal, tabs, starts,
                     overlapped, stale>>
  BY DEF HandleRegister, Handle, backend, counters
<1>2. TypeInv
  BY DEF SessionInv
<1>3. /\ handlers' \in Seq(Handler)
      /\ h \in Handler
      /\ ToSet(handlers) = {h} \cup ToSet(handlers')
      /\ Single(handlers, Completions) => Single(handlers', Completions) /\ ~Ending'
  BY <1>1, <1>2, Taken
<1>4. h.uid \in Users /\ h.kind # "user" /\ current \in Users \cup {NoOne}
  BY <1>1, <1>2, <1>3 DEF Handler, TypeInv
<1> HIDE DEF h
<1>5. w \in Write /\ w.uid = h.uid /\ w.by = current /\ w.live
  BY <1>4 DEF Write
<1> HIDE DEF w
<1>6. /\ outbox' \in Seq(Write)
      /\ ToSet(outbox') = ToSet(outbox) \cup {w}
      /\ Single(outbox, Live) /\ ~Storing => Single(outbox', Live)
  BY <1>1, <1>2, <1>5, Issued
<1>7. TypeInv'
  BY <1>1, <1>2, <1>3, <1>6 DEF TypeInv
<1>8. ChainKept'
  <2>1. SUFFICES ASSUME ~overlapped' PROVE ChainKept'
    BY DEF ChainKept
  <2>2. /\ ~overlapped /\ OneChain
        /\ \A g \in ToSet(handlers) : g.kind # "user" => g.uid = current
        /\ modal = "none" => ~Ending
    BY <1>1, <2>1 DEF SessionInv, ChainKept
  <2>3. Ending
    BY <1>3, <1>4 DEF Ending
  <2>4. h.uid = current /\ modal' # "none"
    BY <1>1, <1>3, <1>4, <2>2, <2>3
  <2>5. calls' = {} /\ ~Storing /\ Storing' /\ ~Ending'
    BY <1>1, <1>3, <1>5, <1>6, <2>2, <2>3 DEF OneChain, Storing
  <2>6. OneChain'
    BY <1>3, <1>6, <2>2, <2>5 DEF OneChain
  <2>7. /\ \A g \in ToSet(handlers') : g.kind = "user"
        /\ \A x \in ToSet(outbox) : ~x.live
    BY <2>5 DEF Ending, Storing
  <2> QED
    BY <1>1, <1>5, <1>6, <2>4, <2>5, <2>6, <2>7 DEF ChainKept
<1>9. ProfilesComing'
  <2>1. SUFFICES ASSUME NEW v \in accounts
                 PROVE  \/ v \in profiles
                        \/ v \in cut'
                        \/ \E g \in ToSet(handlers') :
                             g.kind \in {"register", "google"} /\ g.uid = v
                        \/ \E x \in ToSet(outbox') : x.uid = v /\ x.by = v
    BY <1>1 DEF ProfilesComing
  <2>2. CASE v = h.uid
    BY <1>1, <1>5, <1>6, <2>2
  <2>3. CASE v # h.uid
    BY <1>1, <1>3, <1>6, <2>1, <2>3 DEF SessionInv, ProfilesComing
  <2> QED
    BY <2>2, <2>3
<1>10. TabsFollow'
  <2>1. SUFFICES ASSUME current # NoOne, tabs # current, ~stale, current \notin cut'
                 PROVE  TabsComing(current)'
    BY <1>1 DEF TabsFollow, TabsComing
  <2>2. TabsComing(current)
    BY <1>1, <2>1 DEF SessionInv, TabsFollow
  <2>3. CASE h.uid = current
    BY <1>1, <1>5, <1>6, <2>3 DEF TabsComing
  <2>4. CASE h.uid # current
    BY <1>1, <1>3, <1>6, <2>2, <2>4 DEF TabsComing
  <2> QED
    BY <2>3, <2>4
<1> QED
  BY <1>7, <1>8, <1>9, <1>10 DEF SessionInv

(* fetchUser is answered: the tabs are the answer's. *)
LEMMA HandleUserStep ==
  ASSUME SessionInv, HandleUser
  PROVE  SessionInv'
<1> DEFINE h == Head(handlers)
<1>1. /\ handlers # <<>> /\ h.kind = "user" /\ handlers' = Tail(handlers)
      /\ tabs' = h.uid /\ stale' = (h.uid # current)
      /\ UNCHANGED <<current, accounts, profiles, outbox, calls, fetches, modal, starts,
                     overlapped, cut>>
  BY DEF HandleUser, Handle, backend, counters
<1>2. TypeInv
  BY DEF SessionInv
<1>3. /\ handlers' \in Seq(Handler)
      /\ h \in Handler
      /\ ToSet(handlers) = {h} \cup ToSet(handlers')
      /\ Single(handlers, Completions) => Single(handlers', Completions)
  BY <1>1, <1>2, Taken
<1>4. h.uid \in Users
  BY <1>3 DEF Handler
<1> HIDE DEF h
<1>5. TypeInv'
  <2>1. stale' \in BOOLEAN
    BY <1>1
  <2> QED
    BY <1>1, <1>2, <1>3, <1>4, <2>1 DEF TypeInv
<1>6. ChainKept'
  <2>1. (Ending' <=> Ending) /\ (Storing' <=> Storing)
    BY <1>1, <1>3 DEF Ending, Storing
  <2>2. OneChain => OneChain'
    BY <1>1, <1>3, <2>1 DEF OneChain
  <2> QED
    BY <1>1, <1>3, <2>1, <2>2 DEF SessionInv, ChainKept
<1>7. ProfilesComing'
  BY <1>1, <1>3 DEF SessionInv, ProfilesComing
<1>8. TabsFollow'
  BY <1>1 DEF TabsFollow
<1> QED
  BY <1>5, <1>6, <1>7, <1>8 DEF SessionInv

(* The backend takes a User document, and its completion is called if it is *)
(* still there.                                                             *)
LEMMA CommitStep ==
  ASSUME SessionInv, NEW i \in DOMAIN outbox, Commit(i)
  PROVE  SessionInv'
<1> DEFINE w == outbox[i]
           h == [kind |-> "profile", uid |-> w.uid]
<1>1. /\ Depart(i)
      /\ profiles' = profiles \cup {w.uid}
      /\ handlers' = (IF w.live THEN Append(handlers, h) ELSE handlers)
      /\ UNCHANGED <<current, accounts, calls, fetches, modal, tabs, starts, overlapped,
                     cut, stale>>
  BY DEF Commit, counters, aux
<1>2. TypeInv
  BY DEF SessionInv
<1>3. /\ outbox' \in Seq(Write)
      /\ w \in Write
      /\ w.by = current
      /\ ToSet(outbox) = {w} \cup ToSet(outbox')
      /\ Single(outbox, Live) => Single(outbox', Live) /\ (w.live => ~Storing')
  BY <1>1, <1>2, Departed
<1> HIDE DEF w
<1>4. h \in Handler /\ h.kind = "profile" /\ h.uid = w.uid
  BY <1>3 DEF Handler, Write
<1> HIDE DEF h
<1>5. /\ handlers' \in Seq(Handler)
      /\ ToSet(handlers) \subseteq ToSet(handlers')
      /\ ToSet(handlers') \subseteq ToSet(handlers) \cup {h}
      /\ w.live => h \in ToSet(handlers')
      /\ Single(handlers, Completions) /\ ~Ending => Single(handlers', Completions)
  <2>1. CASE w.live
    BY <1>1, <1>2, <1>4, <2>1, Posted
  <2>2. CASE ~w.live
    BY <1>1, <1>2, <2>2 DEF TypeInv
  <2> QED
    BY <2>1, <2>2
<1>6. TypeInv'
  BY <1>1, <1>2, <1>3, <1>5 DEF TypeInv
<1>7. ChainKept'
  <2>1. SUFFICES ASSUME ~overlapped' PROVE ChainKept'
    BY DEF ChainKept
  <2>2. /\ ~overlapped /\ OneChain
        /\ \A g \in ToSet(handlers) : g.kind # "user" => g.uid = current
        /\ \A x \in ToSet(outbox) : x.live => x.uid = current /\ x.by = current
        /\ modal = "none" => current # NoOne /\ calls = {} /\ ~Ending /\ ~Storing
        /\ modal # "none" /\ ~Ending /\ ~Storing => current = NoOne \/ current \in cut
    BY <1>1, <2>1 DEF SessionInv, ChainKept
  <2>3. CASE w.live
    <3>1. Storing /\ w.uid = current
      BY <1>3, <2>2, <2>3 DEF Storing
    <3>2. calls' = {} /\ ~Ending /\ ~Storing' /\ modal' # "none"
      BY <1>1, <1>3, <2>2, <2>3, <3>1 DEF OneChain
    <3>3. Ending'
      BY <1>4, <1>5, <2>3 DEF Ending
    <3>4. OneChain'
      BY <1>3, <1>5, <2>2, <3>2 DEF OneChain
    <3>5. \A x \in ToSet(outbox') : ~x.live
      BY <3>2 DEF Storing
    <3>6. \A g \in ToSet(handlers') : g.kind # "user" => g.uid = current
      BY <1>4, <1>5, <2>2, <3>1
    <3> QED
      BY <1>1, <3>2, <3>3, <3>4, <3>5, <3>6 DEF ChainKept
  <2>4. CASE ~w.live
    <3>1. handlers' = handlers
      BY <1>1, <2>4
    <3>2. (Ending' <=> Ending) /\ (Storing' <=> Storing)
      BY <1>3, <2>4, <3>1 DEF Ending, Storing
    <3>3. OneChain'
      BY <1>1, <1>3, <2>2, <3>1, <3>2 DEF OneChain
    <3> QED
      BY <1>1, <1>3, <2>2, <3>1, <3>2, <3>3 DEF ChainKept
  <2> QED
    BY <2>3, <2>4
<1>8. ProfilesComing'
  <2>1. SUFFICES ASSUME NEW v \in accounts
                 PROVE  \/ v \in profiles'
                        \/ v \in cut
                        \/ \E g \in ToSet(handlers') :
                             g.kind \in {"register", "google"} /\ g.uid = v
                        \/ \E x \in ToSet(outbox') : x.uid = v /\ x.by = v
    BY <1>1 DEF ProfilesComing
  <2>2. CASE v = w.uid
    BY <1>1, <2>2
  <2>3. CASE v # w.uid
    BY <1>1, <1>3, <1>5, <2>1, <2>3 DEF SessionInv, ProfilesComing
  <2> QED
    BY <2>2, <2>3
<1>9. TabsFollow'
  <2>1. SUFFICES ASSUME current # NoOne, tabs # current, ~stale, current \notin cut
                 PROVE  TabsComing(current)'
    BY <1>1 DEF TabsFollow, TabsComing
  <2>2. TabsComing(current)
    BY <2>1 DEF SessionInv, TabsFollow
  <2>3. CASE w.live
    BY <1>4, <1>5, <2>3 DEF TabsComing
  <2>4. CASE ~w.live
    BY <1>1, <1>3, <1>5, <2>2, <2>4 DEF TabsComing
  <2> QED
    BY <2>3, <2>4
<1> QED
  BY <1>6, <1>7, <1>8, <1>9 DEF SessionInv

(* The backend refuses a User document: its registration was cut short. *)
LEMMA RefuseStep ==
  ASSUME SessionInv, NEW i \in DOMAIN outbox, Refuse(i)
  PROVE  SessionInv'
<1> DEFINE w == outbox[i]
<1>1. /\ Depart(i)
      /\ cut' = cut \cup {w.uid}
      /\ UNCHANGED <<current, accounts, profiles, calls, fetches, handlers, modal, tabs,
                     starts, overlapped, stale>>
  BY DEF Refuse, backend
<1>2. TypeInv
  BY DEF SessionInv
<1>3. /\ outbox' \in Seq(Write)
      /\ w \in Write
      /\ w.by = current
      /\ ToSet(outbox) = {w} \cup ToSet(outbox')
      /\ Single(outbox, Live) => Single(outbox', Live) /\ (w.live => ~Storing')
  BY <1>1, <1>2, Departed
<1> HIDE DEF w
<1>4. TypeInv'
  BY <1>1, <1>2, <1>3 DEF TypeInv
<1>5. ChainKept'
  <2>1. SUFFICES ASSUME ~overlapped' PROVE ChainKept'
    BY DEF ChainKept
  <2>2. /\ ~overlapped /\ OneChain
        /\ \A x \in ToSet(outbox) : x.live => x.uid = current /\ x.by = current
        /\ modal = "none" => current # NoOne /\ calls = {} /\ ~Ending /\ ~Storing
        /\ modal # "none" /\ ~Ending /\ ~Storing => current = NoOne \/ current \in cut
        /\ \A g \in ToSet(handlers) : g.kind # "user" => g.uid = current
    BY <1>1, <2>1 DEF SessionInv, ChainKept
  <2>3. (Ending' <=> Ending) /\ (Storing' => Storing)
    BY <1>1, <1>3 DEF Ending, Storing
  <2>4. OneChain'
    BY <1>1, <1>3, <2>2, <2>3 DEF OneChain
  <2>5. Storing /\ ~Storing' => current \in cut'
    BY <1>1, <1>3, <2>2 DEF Storing
  <2> QED
    BY <1>1, <1>3, <2>2, <2>3, <2>4, <2>5 DEF ChainKept
<1>6. ProfilesComing'
  <2>1. SUFFICES ASSUME NEW v \in accounts
                 PROVE  \/ v \in profiles
                        \/ v \in cut'
                        \/ \E g \in ToSet(handlers) :
                             g.kind \in {"register", "google"} /\ g.uid = v
                        \/ \E x \in ToSet(outbox') : x.uid = v /\ x.by = v
    BY <1>1 DEF ProfilesComing
  <2> QED
    BY <1>1, <1>3, <2>1 DEF SessionInv, ProfilesComing
<1>7. TabsFollow'
  <2>1. SUFFICES ASSUME current # NoOne, tabs # current, ~stale, current \notin cut'
                 PROVE  TabsComing(current)'
    BY <1>1 DEF TabsFollow, TabsComing
  <2>2. TabsComing(current)
    BY <1>1, <2>1 DEF SessionInv, TabsFollow
  <2> QED
    BY <1>1, <1>3, <2>1, <2>2 DEF TabsComing
<1> QED
  BY <1>4, <1>5, <1>6, <1>7 DEF SessionInv

(* fetchUser comes back, with the User document if this device has one. *)
LEMMA FetchAnswerStep ==
  ASSUME SessionInv, NEW u \in Users, FetchAnswer(u)
  PROVE  SessionInv'
<1> DEFINE h == [kind |-> "user", uid |-> u]
<1>1. /\ fetches[u] > 0
      /\ fetches' = [fetches EXCEPT ![u] = @ - 1]
      /\ handlers' = (IF LocallyExists(u) THEN Append(handlers, h) ELSE handlers)
      /\ UNCHANGED <<current, accounts, profiles, outbox, calls, modal, tabs, starts,
                     overlapped, cut, stale>>
  BY DEF FetchAnswer, backend, counters, aux
<1>2. TypeInv
  BY DEF SessionInv
<1>3. h \in Handler /\ h.kind = "user" /\ h.uid = u
  BY DEF Handler
<1> HIDE DEF h
<1>4. /\ handlers' \in Seq(Handler)
      /\ ToSet(handlers) \subseteq ToSet(handlers')
      /\ ToSet(handlers') \subseteq ToSet(handlers) \cup {h}
      /\ LocallyExists(u) => h \in ToSet(handlers')
      /\ Single(handlers, Completions) => Single(handlers', Completions)
  <2>1. CASE LocallyExists(u)
    BY <1>1, <1>2, <1>3, <2>1, Posted
  <2>2. CASE ~LocallyExists(u)
    BY <1>1, <1>2, <2>2 DEF TypeInv
  <2> QED
    BY <2>1, <2>2
<1>5. fetches' \in [Users -> Nat] /\ \A v \in Users : v # u => fetches'[v] = fetches[v]
  BY <1>1, <1>2 DEF TypeInv
<1>6. TypeInv'
  BY <1>1, <1>2, <1>4, <1>5 DEF TypeInv
<1>7. ChainKept'
  <2>1. (Ending' <=> Ending) /\ (Storing' <=> Storing)
    BY <1>1, <1>3, <1>4 DEF Ending, Storing
  <2>2. OneChain => OneChain'
    BY <1>1, <1>4, <2>1 DEF OneChain
  <2> QED
    BY <1>1, <1>3, <1>4, <2>1, <2>2 DEF SessionInv, ChainKept
<1>8. ProfilesComing'
  BY <1>1, <1>4 DEF SessionInv, ProfilesComing
<1>9. TabsFollow'
  <2>1. SUFFICES ASSUME current # NoOne, tabs # current, ~stale, current \notin cut
                 PROVE  TabsComing(current)'
    BY <1>1 DEF TabsFollow, TabsComing
  <2>2. TabsComing(current) /\ current \in accounts /\ current \in Users
    BY <1>2, <2>1 DEF SessionInv, TabsFollow, TypeInv
  <2>3. CASE current # u
    BY <1>1, <1>4, <1>5, <2>2, <2>3 DEF TabsComing
  <2>4. CASE current = u /\ LocallyExists(u)
    BY <1>1, <1>3, <1>4, <2>4 DEF TabsComing
  <2>5. CASE current = u /\ ~LocallyExists(u)
    <3>1. u \notin profiles /\ \A x \in ToSet(outbox) : ~(x.uid = u /\ x.by = u)
      BY <2>5 DEF LocallyExists, ToSet
    <3>2. \E g \in ToSet(handlers) : g.kind \in {"register", "google"} /\ g.uid = u
      BY <2>1, <2>2, <2>5, <3>1 DEF SessionInv, ProfilesComing
    <3> QED
      BY <1>1, <1>4, <2>5, <3>2 DEF TabsComing
  <2> QED
    BY <2>3, <2>4, <2>5
<1> QED
  BY <1>6, <1>7, <1>8, <1>9 DEF SessionInv

(* fetchUser fails, which stale remembers. *)
LEMMA FetchFailsStep ==
  ASSUME SessionInv, NEW u \in Users, FetchFails(u)
  PROVE  SessionInv'
<1>1. /\ fetches[u] > 0 /\ fetches' = [fetches EXCEPT ![u] = @ - 1] /\ stale' = TRUE
      /\ UNCHANGED <<current, accounts, profiles, outbox, calls, handlers, modal, tabs,
                     starts, overlapped, cut>>
  BY DEF FetchFails, backend
<1>2. TypeInv
  BY DEF SessionInv
<1>3. fetches' \in [Users -> Nat]
  BY <1>1, <1>2 DEF TypeInv
<1>4. TypeInv'
  BY <1>1, <1>2, <1>3 DEF TypeInv
<1>5. ChainKept'
  <2>1. (Ending' <=> Ending) /\ (Storing' <=> Storing) /\ (OneChain' <=> OneChain)
    BY <1>1 DEF Ending, Storing, OneChain
  <2> QED
    BY <1>1, <2>1 DEF SessionInv, ChainKept
<1>6. ProfilesComing' /\ TabsFollow'
  BY <1>1 DEF SessionInv, ProfilesComing, TabsFollow
<1> QED
  BY <1>4, <1>5, <1>6 DEF SessionInv

(* The logout button signs out and presents the login screen. *)
LEMMA TapLogoutStep ==
  ASSUME SessionInv, TapLogout
  PROVE  SessionInv'
<1>1. /\ modal = "none" /\ current' = NoOne /\ modal' = "login"
      /\ UNCHANGED <<accounts, profiles, outbox, calls, fetches, handlers, tabs, starts,
                     overlapped, cut, stale>>
  BY DEF TapLogout, backend, aux
<1>2. TypeInv'
  BY <1>1 DEF SessionInv, TypeInv
<1>3. ChainKept'
  <2>1. (Ending' <=> Ending) /\ (Storing' <=> Storing) /\ (OneChain' <=> OneChain)
    BY <1>1 DEF Ending, Storing, OneChain
  <2>2. SUFFICES ASSUME ~overlapped' PROVE ChainKept'
    BY DEF ChainKept
  <2>3. OneChain /\ ~Ending /\ ~Storing
    BY <1>1, <2>2 DEF SessionInv, ChainKept
  <2>4. /\ \A h \in ToSet(handlers) : h.kind = "user"
        /\ \A w \in ToSet(outbox) : ~w.live
    BY <2>3 DEF Ending, Storing
  <2> QED
    BY <1>1, <2>1, <2>3, <2>4 DEF ChainKept
<1>4. ProfilesComing'
  BY <1>1 DEF SessionInv, ProfilesComing
<1>5. TabsFollow'
  BY <1>1 DEF TabsFollow
<1> QED
  BY <1>2, <1>3, <1>4, <1>5 DEF SessionInv

(* The process dies: completions and calls are gone, the queued documents *)
(* stay without theirs, and the first screen is chosen anew.              *)
LEMMA KillStep ==
  ASSUME SessionInv, Kill
  PROVE  SessionInv'
<1> DEFINE lost == {c.uid : c \in {c \in calls : c.phase = "create"}}
<1>1. /\ accounts' \in {accounts \cup s : s \in SUBSET lost}
      /\ cut' = cut \cup lost
                \cup {handlers[i].uid : i \in {i \in DOMAIN handlers :
                                               handlers[i].kind \in {"register", "google"}}}
      /\ calls' = {} /\ handlers' = <<>>
      /\ outbox' = [i \in DOMAIN outbox |-> [outbox[i] EXCEPT !.live = FALSE]]
      /\ fetches' = FetchUser(current, [u \in Users |-> 0])
      /\ modal' = (IF current = NoOne THEN "login" ELSE "none")
      /\ tabs' = NoOne /\ overlapped' = FALSE /\ stale' = FALSE
      /\ UNCHANGED <<current, profiles, starts>>
  BY DEF Kill
<1>2. TypeInv
  BY DEF SessionInv
<1>3. lost \subseteq Users
  BY <1>2 DEF TypeInv, Call
<1>4. accounts \subseteq accounts' /\ accounts' \subseteq accounts \cup lost
  BY <1>1
<1>5. \A h \in ToSet(handlers) : h.kind \in {"register", "google"} => h.uid \in cut'
  BY <1>1 DEF ToSet
<1>6. cut \subseteq cut' /\ lost \subseteq cut'
  BY <1>1
<1> HIDE DEF lost
<1>7. \A i \in DOMAIN outbox : /\ outbox'[i] \in Write
                              /\ outbox'[i].uid = outbox[i].uid
                              /\ outbox'[i].by = outbox[i].by
                              /\ outbox'[i].live = FALSE
  <2>1. SUFFICES ASSUME NEW i \in DOMAIN outbox
                 PROVE  /\ outbox'[i] \in Write
                        /\ outbox'[i].uid = outbox[i].uid
                        /\ outbox'[i].by = outbox[i].by
                        /\ outbox'[i].live = FALSE
    OBVIOUS
  <2>2. outbox \in Seq(Write)
    BY <1>2 DEF TypeInv
  <2>3. outbox[i] \in Write
    BY <2>2, SeqFacts
  <2>4. outbox'[i] = [outbox[i] EXCEPT !.live = FALSE]
    BY <1>1
  <2> QED
    BY <2>3, <2>4 DEF Write
<1>8. outbox' \in Seq(Write) /\ DOMAIN outbox' = DOMAIN outbox
  <2>1. outbox \in Seq(Write) /\ outbox' = [i \in DOMAIN outbox |-> outbox'[i]]
    BY <1>1, <1>2 DEF TypeInv
  <2> QED
    BY <1>7, <2>1, Replaced
<1>9. ~Ending' /\ ~Storing' /\ ToSet(handlers') = {} /\ \A w \in ToSet(outbox') : ~w.live
  <2>1. ToSet(handlers') = {}
    BY <1>1, ToSetEmpty
  <2>2. \A w \in ToSet(outbox') : ~w.live
    BY <1>7, <1>8 DEF ToSet
  <2> QED
    BY <2>1, <2>2 DEF Ending, Storing
<1>10. fetches' \in [Users -> Nat] /\ (current # NoOne => fetches'[current] > 0)
  <2>1. current \in Users \cup {NoOne} /\ [u \in Users |-> 0] \in [Users -> Nat]
    BY <1>2 DEF TypeInv
  <2> QED
    BY <1>1, <2>1, Fetching
<1>11. TypeInv'
  <2>1. handlers' \in Seq(Handler)
    BY <1>1
  <2>2. modal' \in {"none", "login", "registration"}
    BY <1>1
  <2>3. current' \in accounts' \cup {NoOne} /\ accounts' \subseteq Users
    BY <1>1, <1>2, <1>3, <1>4 DEF TypeInv
  <2> QED
    BY <1>1, <1>2, <1>8, <1>10, <2>1, <2>2, <2>3 DEF TypeInv
<1>12. ChainKept'
  <2>1. Single(handlers', Completions) /\ Single(outbox', Live)
    <3>1. Single(handlers', Completions)
      BY <1>1 DEF Single
    <3>2. Single(outbox', Live)
      BY <1>7, <1>8 DEF Single, Live
    <3> QED
      BY <3>1, <3>2
  <2> QED
    BY <1>1, <1>9, <2>1 DEF ChainKept, OneChain
<1>13. ProfilesComing'
  <2>1. SUFFICES ASSUME NEW v \in accounts'
                 PROVE  \/ v \in profiles
                        \/ v \in cut'
                        \/ \E x \in ToSet(outbox') : x.uid = v /\ x.by = v
    BY <1>1 DEF ProfilesComing
  <2>2. CASE v \in lost
    BY <1>6, <2>2
  <2>3. CASE v \in accounts
    <3>1. CASE \E w \in ToSet(outbox) : w.uid = v /\ w.by = v
      <4>1. PICK i \in DOMAIN outbox : outbox[i].uid = v /\ outbox[i].by = v
        BY <3>1 DEF ToSet
      <4>2. i \in DOMAIN outbox' /\ outbox'[i].uid = v /\ outbox'[i].by = v
        BY <1>7, <1>8, <4>1
      <4> QED
        BY <4>2 DEF ToSet
    <3> QED
      BY <1>5, <1>6, <2>3, <3>1 DEF SessionInv, ProfilesComing
  <2> QED
    BY <1>4, <2>1, <2>2, <2>3
<1>14. TabsFollow'
  BY <1>1, <1>10 DEF TabsFollow, TabsComing
<1> QED
  BY <1>11, <1>12, <1>13, <1>14 DEF SessionInv

----------------------------------------------------------------------------
(* Every step of Session keeps SessionInv. *)
LEMMA SessionInvStep ==
  ASSUME SessionInv, [Next]_vars
  PROVE  SessionInv'
<1>1. CASE \E u \in Users : TapLogin(u) \/ TapLoginGoogle(u) \/ TapSignUp(u)
  <2>1. PICK u \in Users : TapLogin(u) \/ TapLoginGoogle(u) \/ TapSignUp(u)
    BY <1>1
  <2>2. CASE TapLogin(u)
    <3>1. modal # "none" /\ Start("login", u, "signIn")
      BY <2>2 DEF TapLogin
    <3> QED
      BY <3>1, StartStep
  <2>3. CASE TapLoginGoogle(u)
    <3>1. modal # "none" /\ Start("google", u, "sheet")
      BY <2>3 DEF TapLoginGoogle
    <3> QED
      BY <3>1, StartStep
  <2>4. CASE TapSignUp(u)
    <3>1. modal # "none" /\ Start("register", u, "upload")
      BY <2>4 DEF TapSignUp
    <3> QED
      BY <3>1, StartStep
  <2> QED
    BY <2>1, <2>2, <2>3, <2>4
<1>2. CASE Turn("login", "registration") \/ Turn("registration", "login")
  BY <1>2, TurnStep
<1>3. CASE \E c \in calls : SheetDone(c) \/ Answer(c) \/ Fails(c)
  <2>1. PICK c \in calls : \/ SheetDone(c) \/ Uploaded(c)
                          \/ AuthAnswer(c)
                          \/ CallFails(c)
    BY <1>3 DEF Answer, Declined, Fails
  <2>2. CASE SheetDone(c) \/ Uploaded(c)
    BY <2>2, PhaseStep
  <2>3. CASE AuthAnswer(c)
    BY <2>3, AuthAnswerStep
  <2>4. CASE CallFails(c)
    BY <2>4, CallFailsStep
  <2> QED
    BY <2>1, <2>2, <2>3, <2>4
<1>4. CASE HandleNext
  BY <1>4, HandleCompleteStep, HandleRegisterStep, HandleUserStep DEF HandleNext
<1>5. CASE \E i \in DOMAIN outbox : Commit(i) \/ Refuse(i)
  BY <1>5, CommitStep, RefuseStep
<1>6. CASE \E u \in Users : FetchAnswer(u) \/ FetchFails(u)
  BY <1>6, FetchAnswerStep, FetchFailsStep
<1>7. CASE TapLogout
  BY <1>7, TapLogoutStep
<1>8. CASE Kill
  BY <1>8, KillStep
<1>9. CASE UNCHANGED vars
  <2>1. UNCHANGED <<current, accounts, profiles, outbox, calls, fetches, handlers, modal,
                    tabs, starts, overlapped, cut, stale>>
    BY <1>9 DEF vars, backend, counters, aux
  <2>2. TypeInv'
    BY <2>1 DEF SessionInv, TypeInv
  <2>3. (Ending' <=> Ending) /\ (Storing' <=> Storing) /\ (OneChain' <=> OneChain)
    BY <2>1 DEF Ending, Storing, OneChain
  <2>4. ChainKept'
    BY <2>1, <2>3 DEF SessionInv, ChainKept
  <2>5. ProfilesComing' /\ TabsFollow'
    BY <2>1 DEF SessionInv, ProfilesComing, TabsFollow, TabsComing
  <2> QED
    BY <2>2, <2>4, <2>5 DEF SessionInv
<1> QED
  BY <1>1, <1>2, <1>3, <1>4, <1>5, <1>6, <1>7, <1>8, <1>9 DEF Next

(* SessionInv holds in every reachable state. *)
LEMMA SessionInvAlways == Spec => []SessionInv
<1>1. SessionInv /\ [Next]_vars => SessionInv'
  BY SessionInvStep
<1> QED
  BY <1>1, InitSession, PTL DEF Spec

(* At rest no completion and no document of the current user is left. *)
LEMMA RestIsQuiet ==
  ASSUME SessionInv, AtRest
  PROVE  /\ ~Ending
         /\ \A w \in ToSet(outbox) : w.by # current
         /\ current # NoOne => ~TabsComing(current)
         /\ ~overlapped => ~Storing
<1>1. calls = {} /\ handlers = <<>> /\ \A u \in Users : fetches[u] = 0
  BY DEF AtRest
<1>2. \A w \in ToSet(outbox) : w.by # current
  BY DEF AtRest, ToSet
<1>3. ToSet(handlers) = {}
  BY <1>1, ToSetEmpty
<1>4. ~Ending
  BY <1>3 DEF Ending
<1>5. current # NoOne => current \in Users
  BY DEF SessionInv, TypeInv
<1>6. current # NoOne => ~TabsComing(current)
  BY <1>1, <1>2, <1>3, <1>5 DEF TabsComing
<1>7. ~overlapped => ~Storing
  BY <1>2 DEF SessionInv, ChainKept, Storing
<1> QED
  BY <1>2, <1>4, <1>6, <1>7

(* Whenever nothing is under way, the login or registration screen is        *)
(* presented exactly when nobody is signed in, whatever errors, logouts and  *)
(* restarts came before, unless sign-ins overlapped (the buttons stay        *)
(* enabled) or the registration of the account was cut short.                *)
THEOREM ModalCorrect == Spec => []ModalAgrees
<1>1. SessionInv => ModalAgrees
  <2>1. SUFFICES ASSUME SessionInv, AtRest, ~overlapped, current \notin cut
                 PROVE  modal = "none" <=> current # NoOne
    BY DEF ModalAgrees
  <2>2. ~Ending /\ ~Storing
    BY <2>1, RestIsQuiet
  <2> QED
    BY <2>1, <2>2 DEF SessionInv, ChainKept
<1> QED
  BY <1>1, SessionInvAlways, PTL

(* Whenever nothing is under way, the tabs that are not covered belong to    *)
(* the account that is signed in, however many sign-ins overlapped, unless   *)
(* the last fetchUser failed or answered for an account no longer signed in, *)
(* or the account has no User document.                                      *)
THEOREM TabsCorrect == Spec => []TabsBelong
<1>1. SessionInv => TabsBelong
  <2>1. SUFFICES ASSUME SessionInv, AtRest, current # NoOne
                 PROVE  tabs = current \/ stale \/ current \in cut
    BY DEF TabsBelong
  <2>2. ~TabsComing(current)
    BY <2>1, RestIsQuiet
  <2> QED
    BY <2>1, <2>2 DEF SessionInv, TabsFollow
<1> QED
  BY <1>1, SessionInvAlways, PTL

(* Nobody is left in front of tabs that were never built, with no screen     *)
(* over them, unless sign-ins overlapped, fetchUser failed or came late, or  *)
(* the registration was cut short.                                           *)
THEOREM NoDeadEndCorrect == Spec => []NoDeadEnd
<1>1. SessionInv => NoDeadEnd
  <2>1. SUFFICES ASSUME SessionInv, AtRest, modal = "none", tabs = NoOne,
                        ~stale, ~overlapped
                 PROVE  current \in cut
    BY DEF NoDeadEnd
  <2>2. current # NoOne
    BY <2>1 DEF SessionInv, ChainKept
  <2>3. ~TabsComing(current)
    BY <2>1, <2>2, RestIsQuiet
  <2> QED
    BY <2>1, <2>2, <2>3 DEF SessionInv, TabsFollow
<1> QED
  BY <1>1, SessionInvAlways, PTL

----------------------------------------------------------------------------
(***************************************************************************)
(* Searching for users (module Search), a screen of its own.               *)
(***************************************************************************)

(* The users of the filtered list match the text; before the users come     *)
(* late, all that match are there.                                          *)
FilteredFits ==
  text # NoText =>
    /\ \A u \in ToSet(filtered) : Matches(u, text)
    /\ ~late => \A u \in ToSet(users) : Matches(u, text) => u \in ToSet(filtered)

(* The inductive invariant behind TableFollowsSearch. *)
SearchInv ==
  /\ users \in Seq(People) /\ filtered \in Seq(People)
  /\ text \in Texts \cup {NoText}
  /\ table = Listed
  /\ FilteredFits
  /\ opened # <<>> => opened[1] = opened[2]

(* A user who is found by the code has the text in one of the names. *)
LEMMA MatchesAlike ==
  ASSUME NEW u \in People, NEW t \in Texts,
         Matches(u, t)
  PROVE  NamesAlike(u, t)
<1>1. Username[u] \subseteq Texts /\ Fullname[u] \subseteq Texts
  BY SearchAssumption
<1>2. CASE Lower[t] \in Username[u]
  <2>1. Lower[t] = Lower[Lower[t]]
    BY SearchAssumption
  <2> QED
    BY <1>2, <2>1 DEF NamesAlike
<1>3. CASE Lower[t] \in {Lower[x] : x \in Fullname[u]}
  BY <1>3 DEF NamesAlike
<1> QED
  BY <1>2, <1>3 DEF Matches

(* updateSearchResults leaves the filtered list as the text asks for. *)
LEMMA FilterSearch ==
  ASSUME SearchInv, UpdateSearchResults,
         users' = users, text' \in Texts \cup {NoText}
  PROVE  /\ filtered' \in Seq(People)
         /\ FilteredFits'
         /\ table' = Listed'
<1>1. users \in Seq(People) /\ table' = Listed'
  BY DEF SearchInv, UpdateSearchResults, ReloadData
<1>2. CASE text' = NoText
  <2>1. filtered' \in {<<>>, users}
    BY <1>2 DEF UpdateSearchResults
  <2>2. filtered' \in Seq(People)
    <3>1. <<>> \in Seq(People)
      OBVIOUS
    <3> QED
      BY <1>1, <2>1, <3>1, Zenon
  <2>3. FilteredFits'
    BY <1>2 DEF FilteredFits
  <2> QED
    BY <1>1, <2>2, <2>3
<1>3. CASE text' # NoText
  <2> DEFINE S == {u \in People : Matches(u, text')}
  <2>1. filtered' = Filter(users, S)
    BY <1>3 DEF UpdateSearchResults
  <2> HIDE DEF S
  <2>2. filtered' \in Seq(People) /\ ToSet(filtered') = ToSet(users) \cap S
    BY <1>1, <2>1, FilterElements
  <2>3. ToSet(users) \subseteq People
    BY <1>1, ToSetType
  <2>4. /\ \A u \in ToSet(filtered') : Matches(u, text')
        /\ \A u \in ToSet(users') : Matches(u, text') => u \in ToSet(filtered')
    BY <2>2, <2>3 DEF S
  <2>5. FilteredFits'
    BY <2>4 DEF FilteredFits, Matches
  <2> QED
    BY <1>1, <2>2, <2>5
<1> QED
  BY <1>2, <1>3

(* The invariant holds at the start. *)
LEMMA SearchStarts ==
  SearchInit => SearchInv
BY ToSetEmpty DEF SearchInit, SearchInv, FilteredFits, Listed,
   IsSearchEnabled

(* Every step preserves it. *)
LEMMA SearchStep ==
  ASSUME SearchInv, [SearchNext]_searchVars
  PROVE  SearchInv'
<1>1. ASSUME NEW u \in People, Register(u)
      PROVE  SearchInv'
  BY <1>1 DEF Register, SearchInv, FilteredFits, Listed,
     IsSearchEnabled, Matches
<1>2. CASE FetchUsers
  <2>1. /\ users' = Filter(Order, registered) /\ late' = TRUE
        /\ filtered' = filtered /\ text' = text /\ opened' = opened
        /\ table' = Listed'
    BY <1>2, SearchAssumption DEF FetchUsers, ReloadData
  <2>2. users' \in Seq(People)
    BY <2>1, FilterElements, SearchAssumption
  <2>3. FilteredFits'
    BY <2>1 DEF SearchInv, FilteredFits, Matches
  <2> QED
    BY <2>1, <2>2, <2>3 DEF SearchInv
<1>3. CASE FetchUsersFails
  BY <1>3 DEF FetchUsersFails, SearchInv, FilteredFits, Listed,
     IsSearchEnabled, Matches
<1>4. CASE Activate
  <2>1. users' = users /\ text' = text /\ opened' = opened /\ UpdateSearchResults
    BY <1>4 DEF Activate
  <2>2. text' \in Texts \cup {NoText}
    BY <2>1 DEF SearchInv
  <2>3. filtered' \in Seq(People) /\ FilteredFits' /\ table' = Listed'
    BY <2>1, <2>2, FilterSearch
  <2> QED
    BY <2>1, <2>2, <2>3 DEF SearchInv
<1>5. ASSUME NEW t \in Texts \cup {NoText}, Type(t)
      PROVE  SearchInv'
  <2>1. users' = users /\ text' = t /\ opened' = opened /\ UpdateSearchResults
    BY <1>5 DEF Type
  <2>2. text' \in Texts \cup {NoText}
    BY <2>1
  <2>3. filtered' \in Seq(People) /\ FilteredFits' /\ table' = Listed'
    BY <2>1, <2>2, FilterSearch
  <2> QED
    BY <2>1, <2>2, <2>3 DEF SearchInv
<1>6. CASE Cancel
  <2>1. users' = users /\ text' = NoText /\ opened' = opened /\ UpdateSearchResults
    BY <1>6 DEF Cancel
  <2>2. text' \in Texts \cup {NoText}
    BY <2>1
  <2>3. filtered' \in Seq(People) /\ FilteredFits' /\ table' = Listed'
    BY <2>1, <2>2, FilterSearch
  <2> QED
    BY <2>1, <2>2, <2>3 DEF SearchInv
<1>7. ASSUME NEW i \in DOMAIN table, DidSelectRow(i)
      PROVE  SearchInv'
  <2>1. /\ opened' = <<table[i], Listed[i]>> /\ users' = users
        /\ filtered' = filtered /\ active' = active /\ text' = text
        /\ table' = table /\ late' = late
    BY <1>7 DEF DidSelectRow
  <2>2. opened'[1] = opened'[2]
    BY <2>1 DEF SearchInv
  <2>3. FilteredFits'
    BY <2>1 DEF SearchInv, FilteredFits, Matches
  <2>4. Listed' = Listed
    BY <2>1 DEF Listed, IsSearchEnabled
  <2> QED
    BY <2>1, <2>2, <2>3, <2>4 DEF SearchInv
<1>8. CASE UNCHANGED searchVars
  BY <1>8 DEF searchVars, SearchInv, FilteredFits, Listed,
     IsSearchEnabled, Matches
<1> QED
  BY <1>1, <1>2, <1>3, <1>4, <1>5, <1>6, <1>7, <1>8 DEF SearchNext

(* What the invariant says of the table. *)
LEMMA SearchInvTable ==
  ASSUME SearchInv
  PROVE  TableFollowsSearch
<1>1. /\ \A u \in ToSet(users) : u \in People
      /\ \A u \in ToSet(filtered) : u \in People
  BY ToSetType DEF SearchInv
<1>2. ToSet(users) = Range(users) /\ ToSet(table) = Range(table)
  BY DEF ToSet, Range
<1>3. ~IsSearchEnabled => table = users
  BY DEF SearchInv, Listed
<1>4. ASSUME IsSearchEnabled
      PROVE  table = filtered /\ text \in Texts /\ text # NoText /\ FilteredFits
  BY <1>4 DEF SearchInv, Listed, IsSearchEnabled
<1>5. ASSUME IsSearchEnabled, NEW u \in Range(table)
      PROVE  NamesAlike(u, text)
  <2>1. u \in People /\ Matches(u, text)
    BY <1>1, <1>2, <1>4, <1>5 DEF FilteredFits
  <2> QED
    BY <1>4, <1>5, <2>1, MatchesAlike
<1>6. ASSUME IsSearchEnabled, ~late, NEW u \in Range(users),
             u \notin Range(table)
      PROVE  Lower[text] \notin Username[u] \cup {Lower[x] : x \in Fullname[u]}
  <2>1. ~Matches(u, text)
    BY <1>2, <1>4, <1>6 DEF FilteredFits
  <2> QED
    BY <2>1 DEF Matches
<1> QED
  BY <1>3, <1>5, <1>6 DEF TableFollowsSearch, SearchInv

(* SearchController's table shows what the search bar asks for, however     *)
(* keystrokes, the late answer of fetchUsers and taps on rows interleave,   *)
(* for any number of users, texts and keystrokes.                           *)
THEOREM TableFollowsSearchAlways == SearchSpec => []TableFollowsSearch
<1>1. SearchInit => SearchInv
  BY SearchStarts
<1>2. SearchInv /\ [SearchNext]_searchVars => SearchInv'
  BY SearchStep
<1>3. SearchInv => TableFollowsSearch
  BY SearchInvTable
<1> QED
  BY <1>1, <1>2, <1>3, PTL DEF SearchSpec
=============================================================================
