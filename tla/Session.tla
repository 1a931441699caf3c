------------------------------- MODULE Session -------------------------------
(***************************************************************************)
(* Who is signed in: the redux slice AuthSlice, the copy of it that         *)
(* redux-persist keeps in AsyncStorage, and the handlers that write it, in  *)
(* login.js, signup.js, customDrawer.js, dashboard.js, accountSetting.js,   *)
(* identityInformation.js and Home.js.  A person has two profiles, one as a *)
(* buyer and one as a seller, and switches between them; a value of the     *)
(* slice is represented by the profile it belongs to.                       *)
(*                                                                         *)
(* Every request names the profile of the render that sent it, nothing      *)
(* cancels it, and its answer is written into the store of whoever is       *)
(* signed in by then.                                                       *)
(***************************************************************************)
EXTENDS Naturals, Sequences, SequencesExt

CONSTANTS
    Profiles,
    Persons,
    Person,         \* profile -> the person behind it
    None,           \* null, {} or '' in the slice; nobody
    MaxTaps,        \* bound: taps
    MaxPending,     \* bound: requests in flight when one is sent
    MaxRestarts     \* bound: crashes and restarts

VARIABLES
    store,          \* AuthSlice
    disk,           \* what redux-persist last wrote of it
    screen,         \* the focused screen
    covered,        \* the spinner of the login or sign-up form
    net,            \* requests in flight, in the order they were sent
    taps, restarts,
    owner,          \* history: who entered a password and did not sign off
    hist            \* history: what the session has been through

vars == <<store, disk, screen, covered, net, taps, restarts, owner, hist>>

Guest == {"home", "login", "signup"}                  \* screens open to all
Account == {"dashboard", "identity", "account"}       \* drawer items of users
Kinds == {"login", "signup", "restore", "switch", "balance", "verification",
          "privacy", "avatar", "deactivate"}
Passwords == {"login", "signup"}

Value == Profiles \union {None}
Store == [token : Value, userInfo : Value, visibleProfile : Value,
          profileImage : Value, verified : Value, wallet : Value]
Message == [kind : Kinds, as : Value]
History ==
    [late : SUBSET Kinds,       \* kinds of answers that met another person
     rolledBack : BOOLEAN,      \* a restart brought an older slice back
     inherited  : BOOLEAN,      \* a sign-up found fields of an earlier session
     failed     : BOOLEAN,      \* a request of a signed-in user failed
     crossed    : BOOLEAN,      \* an answer overtook an older request
     refreshed  : BOOLEAN]      \* Home gained the focus since userInfo changed

ASSUME ConstantsAssumption ==
    /\ Person \in [Profiles -> Persons]
    /\ None \notin Profiles \union Persons
    /\ MaxTaps \in Nat /\ MaxPending \in Nat /\ MaxRestarts \in Nat

TypeOK ==
    /\ store \in Store /\ disk \in Store
    /\ screen \in Guest \union Account /\ covered \in BOOLEAN
    /\ net \in Seq(Message)
    /\ taps \in Nat /\ restarts \in Nat
    /\ owner \in Persons \union {None}
    /\ hist \in History

PersonOf(p) == IF p = None THEN None ELSE Person[p]

SessionOf(p) == [token |-> p, userInfo |-> p, visibleProfile |-> p,
                 profileImage |-> p, verified |-> p, wallet |-> p]

\* initialState of AuthSlice.
SignedOut == SessionOf(None)

\* Mutant: Home does not ask for the balance.
FocusedVerifying(from, to, p) ==
    IF from = to \/ to \notin {"home", "identity"} THEN <<>>
    ELSE <<[kind |-> "verification", as |-> p]>>

\* The effects on isFocused of Home (getVerification, userBalance) and of
\* IdentityInformation (getVerification) when `to` is shown after `from`.
Focused(from, to, p) ==
    IF from = to THEN <<>>
    ELSE CASE to = "home"     -> <<[kind |-> "verification", as |-> p],
                                   [kind |-> "balance", as |-> p]>>
           [] to = "identity" -> <<[kind |-> "verification", as |-> p]>>
           [] OTHER           -> <<>>

\* The handler leaves profile p signed in and shows `to`.
Show(to, p, ms) ==
    /\ screen' = to
    /\ net' = ms \o Focused(screen, to, p)

Refreshed(to, p) == \/ to = "home" /\ screen # "home"
                    \/ hist.refreshed /\ p = store.userInfo

\* PersistGate opens the app with the session it finds on disk, or with none.
Init ==
    /\ \E p \in Value :
          /\ store = SessionOf(p)
          /\ net = Focused("", "home", p)
          /\ owner = PersonOf(p)
    /\ disk = store
    /\ screen = "home" /\ covered = FALSE
    /\ taps = 0 /\ restarts = 0
    /\ hist = [late |-> {}, rolledBack |-> FALSE, inherited |-> FALSE,
               failed |-> FALSE, crossed |-> FALSE, refreshed |-> TRUE]

-----------------------------------------------------------------------------
(* The user                                                                *)

\* The spinner of a form covers its screen.
CanTap == /\ covered => screen \notin {"login", "signup"}
          /\ taps < MaxTaps
Tapped == taps' = taps + 1 /\ UNCHANGED <<disk, restarts>>

Send(kind, p) ==
    /\ Len(net) < MaxPending
    /\ net' = Append(net, [kind |-> kind, as |-> p])

\* Drawer items, back buttons, Skip and the links between the forms.  A user
\* who is signed in is on the login form when the account is deactivated.
Navigate(to) ==
    /\ CanTap /\ to # screen /\ Len(net) < MaxPending
    /\ \/ store.userInfo = None /\ to \in Guest
       \/ store.userInfo # None /\ to \in Account \union {"home"}
       \/ screen = "login" /\ to = "signup"
       \/ screen = "signup" /\ to = "login"
    /\ Show(to, store.userInfo, net)
    /\ hist' = [hist EXCEPT !.refreshed = Refreshed(to, store.userInfo)]
    /\ Tapped /\ UNCHANGED <<store, covered, owner>>

\* login and signUpHandel; p is the profile whose password is entered.
Submit(p) ==
    /\ CanTap /\ screen \in Passwords
    /\ Send(screen, p)
    /\ covered' = TRUE
    /\ Tapped /\ UNCHANGED <<store, screen, owner, hist>>

\* A stack screen above the drawer closes: the drawer's own effect.
DrawerFocus ==
    /\ CanTap /\ Send("balance", store.userInfo)
    /\ Tapped /\ UNCHANGED <<store, screen, covered, owner, hist>>

\* The buttons of a signed-in user that only send a request: switchUser,
\* activeAccount, saveAccountSetting, deactiveAccount, uploadPhoto.  No
\* overlay covers the screen meanwhile.
Ask(kind) ==
    /\ CanTap /\ store.userInfo # None
    /\ CASE kind = "switch"                   -> TRUE
         [] kind = "restore"                  -> screen = "login"
         [] kind \in {"privacy", "deactivate"} -> screen = "account"
         [] kind = "avatar"                   -> screen = "dashboard"
         [] OTHER                             -> FALSE
    /\ Send(kind, store.userInfo)
    /\ Tapped /\ UNCHANGED <<store, screen, covered, owner, hist>>

\* Mutant: the slice is left alone.
LogoutNavigatesOnly ==
    /\ CanTap /\ store.userInfo # None
    /\ store' = store
    /\ Show("login", None, net)
    /\ owner' = None
    /\ hist' = [hist EXCEPT !.refreshed = FALSE]
    /\ Tapped /\ UNCHANGED covered

\* logout: the wallet stays, and nothing in flight is cancelled.
Logout ==
    /\ CanTap /\ store.userInfo # None
    /\ store' = [SignedOut EXCEPT !.wallet = store.wallet]
    /\ Show("login", None, net)
    /\ owner' = None
    /\ hist' = [hist EXCEPT !.refreshed = FALSE]
    /\ Tapped /\ UNCHANGED covered

-----------------------------------------------------------------------------
(* The answers.  The server, external, answers only requests that name a    *)
(* profile; switch-user returns a profile of the same person.               *)

Stray(m) == m.kind \notin Passwords /\ PersonOf(m.as) # PersonOf(store.userInfo)

\* updateToken, updateUserInfo, updateVisibleProfile: all that signUpHandel,
\* switchUser and deactiveAccount dispatch.
Admit(p) == [store EXCEPT !.token = p, !.userInfo = p, !.visibleProfile = p]

\* Mutant: login dispatches no more than signUpHandel.
AdmitOnly(p) == Admit(p)

\* login also sets the image and the verification.
AdmitLogin(p) == [Admit(p) EXCEPT !.profileImage = p, !.verified = p]

\* What the answer m leaves in the slice.
Written(m) ==
    CASE m.kind = "login"        -> {AdmitLogin(m.as)}
      [] m.kind = "signup"       -> {Admit(m.as)}
      [] m.kind = "switch"       ->
           {Admit(p) : p \in {p \in Profiles : Person[p] = Person[m.as]}}
      [] m.kind = "deactivate"   -> {Admit(None)}
      [] m.kind = "balance"      -> {[store EXCEPT !.wallet = m.as]}
      [] m.kind = "verification" -> {[store EXCEPT !.verified = m.as]}
      [] m.kind = "privacy"      -> {[store EXCEPT !.visibleProfile = m.as]}
      [] m.kind = "avatar"       -> {[store EXCEPT !.profileImage = m.as]}
      [] OTHER                   -> {store}

\* Mutant: deactiveAccount stays where it is.
DestinationStays(m) ==
    IF m.kind \in {"login", "signup", "switch", "restore"} THEN {"home"}
    ELSE {screen}

\* Where the handler navigates.  A login to a deactivated account opens the
\* sheet of the login screen instead.
Destination(m) ==
    CASE m.kind = "login"                         -> {"home", screen}
      [] m.kind \in {"signup", "switch", "restore"} -> {"home"}
      [] m.kind = "deactivate"                    -> {"login"}
      [] OTHER                                    -> {screen}

Owner(m) ==
    CASE m.kind \in Passwords                     -> Person[m.as]
      [] m.kind = "deactivate" /\ ~Stray(m)       -> None
      [] OTHER                                    -> owner

Deliver(i) ==
    LET m == net[i] IN
    /\ m.as # None
    /\ store' \in Written(m)
    /\ \E to \in Destination(m) :
          /\ Show(to, store'.userInfo, RemoveAt(net, i))
          /\ hist' = [hist EXCEPT
                !.late = IF Stray(m) THEN @ \union {m.kind} ELSE @,
                !.inherited = @ \/ /\ m.kind = "signup"
                                   /\ \/ store.profileImage # None
                                      \/ store.verified # None,
                !.crossed = @ \/ i > 1,
                !.refreshed = Refreshed(to, store'.userInfo)]
    /\ covered' = (covered /\ m.kind \notin Passwords)
    /\ owner' = Owner(m)
    /\ UNCHANGED <<disk, taps, restarts>>

\* Mutant: no setSpinner(false) in the catch.
FailCovered(i) ==
    /\ net' = RemoveAt(net, i)
    /\ hist' = [hist EXCEPT !.failed = @ \/ net[i].as # None]
    /\ UNCHANGED <<store, disk, screen, covered, taps, restarts, owner>>

\* An answer of type 'error', or the catch.
Fail(i) ==
    /\ net' = RemoveAt(net, i)
    /\ covered' = (covered /\ net[i].kind \notin Passwords)
    /\ hist' = [hist EXCEPT !.failed = @ \/ net[i].as # None]
    /\ UNCHANGED <<store, disk, screen, taps, restarts, owner>>

-----------------------------------------------------------------------------
(* redux-persist writes the slice some time after it changed, and after a   *)
(* crash or RNRestart.Restart (changeLanguage) PersistGate reads it back.   *)

Persist ==
    /\ disk # store /\ disk' = store
    /\ UNCHANGED <<store, screen, covered, net, taps, restarts, owner, hist>>

Restart ==
    /\ restarts < MaxRestarts /\ restarts' = restarts + 1
    /\ store' = disk
    /\ screen' = "home" /\ covered' = FALSE
    /\ net' = Focused("", "home", disk.userInfo)
    /\ hist' = [hist EXCEPT !.rolledBack = @ \/ disk # store,
                            !.refreshed = TRUE]
    /\ UNCHANGED <<disk, taps, owner>>

Network == \E i \in DOMAIN net : Deliver(i) \/ Fail(i)

Next ==
    \/ \E to \in Guest \union Account : Navigate(to)
    \/ \E p \in Profiles : Submit(p)
    \/ DrawerFocus \/ (\E kind \in Kinds : Ask(kind)) \/ Logout
    \/ Network \/ Persist \/ Restart

Spec == Init /\ [][Next]_vars

\* Every HTTP exchange ends; the user, the disk and crashes owe nothing.
FairSpec == Spec /\ WF_vars(Network)

-----------------------------------------------------------------------------
\* Token and userInfo are always of one profile, in the store and on disk,
\* and the screens of an account are never shown to a guest, although a
\* deactivation may be answered on any screen and in any session.
SessionWhole ==
    /\ store.token = store.userInfo /\ disk.token = disk.userInfo
    /\ screen \in Account => store.userInfo # None

\* The person signed in is the one who last entered a password and has not
\* signed off since.  Only two stray answers break it, that of switchUser,
\* which signs a user in again after logout, and that of deactiveAccount,
\* which signs the next user off; and a crash before the slice was written.
SignedInByPassword ==
    \/ owner = PersonOf(store.userInfo)
    \/ {"switch", "deactivate"} \intersect hist.late # {}
    \/ hist.rolledBack

OfSession(v) == v = None \/ PersonOf(v) = PersonOf(store.userInfo)

\* The image, the privacy and the verification shown belong to the person who
\* is signed in, unless a stray answer wrote that field or the session was
\* switched by one, or a sign-up followed a deactivation, which clears
\* neither image nor verification.
OnePerson ==
    store.userInfo # None /\ ~hist.inherited /\ "switch" \notin hist.late =>
        /\ OfSession(store.visibleProfile) \/ "privacy" \in hist.late
        /\ OfSession(store.profileImage) \/ "avatar" \in hist.late
        /\ OfSession(store.verified) \/ "verification" \in hist.late

\* With nothing in flight, verification and wallet are those of the profile
\* signed in, if no request failed, no answer overtook another and Home has
\* had the focus since the profile changed.  Switching from the drawer over
\* Home does not give it the focus.
QuietAccountFresh ==
    /\ net = <<>> /\ store.userInfo # None
    /\ ~hist.failed /\ ~hist.crossed /\ hist.refreshed
    => store.verified = store.userInfo /\ store.wallet = store.userInfo

\* The spinner of the forms comes down, whatever the server answers.
FormUncovers == covered ~> ~covered
=============================================================================
