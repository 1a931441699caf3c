---------------------------- MODULE SessionProofs ----------------------------
(***************************************************************************)
(* What Session promises for any number of people, profiles and requests,   *)
(* and HomeCategories (the instance HomeList) for any categories.           *)
(***************************************************************************)
EXTENDS MCSession, FiniteSetTheorems, TLAPS

\* Removing an answered request leaves a sequence of requests.
LEMMA RemoveAtType ==
    ASSUME NEW S, NEW s \in Seq(S), NEW i \in 1 .. Len(s)
    PROVE  RemoveAt(s, i) \in Seq(S)
<1>1. /\ Len(s) \in Nat /\ i \in Nat /\ i >= 1 /\ i <= Len(s)
    OBVIOUS
<1>2. SubSeq(s, 1, i - 1) \in Seq(S)
    BY <1>1
<1>3. SubSeq(s, i + 1, Len(s)) \in Seq(S)
    BY <1>1
<1> QED
    BY <1>2, <1>3 DEF RemoveAt

\* The requests an effect sends are requests.
LEMMA FocusedType ==
    ASSUME NEW from, NEW to, NEW p \in Value
    PROVE  Focused(from, to, p) \in Seq(Message)
<1>1. /\ [kind |-> "verification", as |-> p] \in Message
      /\ [kind |-> "balance", as |-> p] \in Message
    BY DEF Message, Kinds
<1>2. <<>> \in Seq(Message)
    OBVIOUS
<1>3. <<[kind |-> "verification", as |-> p]>> \in Seq(Message)
    BY <1>1
<1>4. <<[kind |-> "verification", as |-> p],
        [kind |-> "balance", as |-> p]>> \in Seq(Message)
    BY <1>1
<1> QED
    BY <1>2, <1>3, <1>4 DEF Focused

\* Concatenation of requests in flight and new ones.
LEMMA ShowType ==
    ASSUME TypeOK, NEW to \in Guest \union Account, NEW p \in Value,
           NEW ms \in Seq(Message), Show(to, p, ms)
    PROVE  screen' \in Guest \union Account /\ net' \in Seq(Message)
<1>1. Focused(screen, to, p) \in Seq(Message)
    BY FocusedType
<1>2. ms \o Focused(screen, to, p) \in Seq(Message)
    BY <1>1
<1> QED
    BY <1>2 DEF Show

LEMMA SessionOfType == ASSUME NEW p \in Value PROVE SessionOf(p) \in Store
    BY DEF SessionOf, Store

LEMMA AdmitType ==
    ASSUME TypeOK, NEW p \in Value
    PROVE  Admit(p) \in Store /\ AdmitLogin(p) \in Store
    BY DEF TypeOK, Admit, AdmitLogin, Store

LEMMA NoneIsValue == None \in Value
    BY DEF Value

\* Whatever an answer writes is a slice.
LEMMA WrittenType ==
    ASSUME TypeOK, NEW m \in Message, NEW s \in Written(m)
    PROVE  s \in Store
<1>1. m.as \in Value /\ m.kind \in Kinds
    BY DEF Message
<1>2. \A p \in Profiles : p \in Value
    BY DEF Value
<1>3. store \in Store
    BY DEF TypeOK
<1>4. CASE m.kind = "login"
    BY <1>1, <1>4, AdmitType DEF Written
<1>5. CASE m.kind = "signup"
    BY <1>1, <1>5, AdmitType DEF Written
<1>6. CASE m.kind = "switch"
    BY <1>2, <1>6, AdmitType DEF Written
<1>7. CASE m.kind = "deactivate"
    BY <1>7, AdmitType, NoneIsValue DEF Written
<1>8. CASE m.kind = "balance"
    BY <1>1, <1>3, <1>8 DEF Written, Store
<1>9. CASE m.kind = "verification"
    BY <1>1, <1>3, <1>9 DEF Written, Store
<1>10. CASE m.kind = "privacy"
    BY <1>1, <1>3, <1>10 DEF Written, Store
<1>11. CASE m.kind = "avatar"
    BY <1>1, <1>3, <1>11 DEF Written, Store
<1>12. CASE m.kind = "restore"
    BY <1>3, <1>12 DEF Written
<1> QED
    BY <1>1, <1>4, <1>5, <1>6, <1>7, <1>8, <1>9, <1>10, <1>11, <1>12 DEF Kinds

\* A history with new flags is a history.
LEMMA HistoryType ==
    ASSUME NEW h \in History, NEW late \in SUBSET Kinds,
           NEW rolledBack \in BOOLEAN, NEW inherited \in BOOLEAN,
           NEW failed \in BOOLEAN, NEW crossed \in BOOLEAN,
           NEW refreshed \in BOOLEAN
    PROVE  /\ [h EXCEPT !.refreshed = refreshed] \in History
           /\ [h EXCEPT !.failed = failed] \in History
           /\ [h EXCEPT !.rolledBack = rolledBack,
                        !.refreshed = refreshed] \in History
           /\ [h EXCEPT !.late = late, !.inherited = inherited,
                        !.crossed = crossed, !.refreshed = refreshed] \in History
    BY DEF History

LEMMA RefreshedType ==
    ASSUME TypeOK, NEW to, NEW p
    PROVE  Refreshed(to, p) \in BOOLEAN
    BY DEF Refreshed, TypeOK, History

LEMMA SendType ==
    ASSUME TypeOK, NEW kind \in Kinds, NEW p \in Value, Send(kind, p)
    PROVE  net' \in Seq(Message)
<1>1. [kind |-> kind, as |-> p] \in Message
    BY DEF Message
<1>2. net \in Seq(Message)
    BY DEF TypeOK
<1> QED
    BY <1>1, <1>2 DEF Send

LEMMA PersonOfType ==
    ASSUME NEW p \in Value
    PROVE  /\ PersonOf(p) \in Persons \union {None}
           /\ p \in Profiles => Person[p] \in Persons
    BY ConstantsAssumption DEF PersonOf, Value

LEMMA StoreFields ==
    ASSUME TypeOK
    PROVE  store.userInfo \in Value /\ disk.userInfo \in Value
    BY DEF TypeOK, Store

\* The parts of TypeOK that an action seldom disturbs.
LEMMA TypeRest ==
    ASSUME TypeOK, store' \in Store, disk' \in Store,
           screen' \in Guest \union Account, covered' \in BOOLEAN,
           net' \in Seq(Message), taps' \in Nat, restarts' \in Nat,
           owner' \in Persons \union {None}, hist' \in History
    PROVE  TypeOK'
    BY DEF TypeOK

LEMMA TappedType ==
    ASSUME TypeOK, Tapped
    PROVE  taps' \in Nat /\ disk' \in Store /\ restarts' \in Nat
    BY DEF TypeOK, Tapped

LEMMA NavigateType ==
    ASSUME TypeOK, NEW to \in Guest \union Account, Navigate(to)
    PROVE  TypeOK'
<1>1. screen' \in Guest \union Account /\ net' \in Seq(Message)
    BY ShowType, StoreFields DEF Navigate, TypeOK
<1>2. hist' \in History
  <2>1. hist \in History
      BY DEF TypeOK
  <2>2. Refreshed(to, store.userInfo) \in BOOLEAN
      BY RefreshedType
  <2>3. hist' = [hist EXCEPT !.refreshed = Refreshed(to, store.userInfo)]
      BY DEF Navigate
  <2> HIDE DEF Refreshed
  <2> QED
      BY <2>1, <2>2, <2>3 DEF History
<1> QED
    BY <1>1, <1>2, TypeRest, TappedType DEF Navigate, TypeOK

LEMMA SubmitType ==
    ASSUME TypeOK, NEW p \in Profiles, Submit(p)
    PROVE  TypeOK'
<1>1. screen \in Kinds /\ p \in Value
    BY DEF Submit, Passwords, Kinds, Value
<1>2. net' \in Seq(Message)
    BY <1>1, SendType DEF Submit
<1> QED
    BY <1>2, TypeRest, TappedType DEF Submit, TypeOK

LEMMA AskType ==
    ASSUME TypeOK, NEW kind \in Kinds,
           \/ DrawerFocus
           \/ Ask(kind)
    PROVE  TypeOK'
<1>1. net' \in Seq(Message)
    BY SendType, StoreFields DEF DrawerFocus, Ask, Kinds
<1> QED
    BY <1>1, TypeRest, TappedType DEF DrawerFocus, Ask, TypeOK

LEMMA LogoutType ==
    ASSUME TypeOK, Logout
    PROVE  TypeOK'
<1>1. screen' \in Guest \union Account /\ net' \in Seq(Message)
    BY ShowType, NoneIsValue DEF Logout, TypeOK, Guest
<1>2. store' \in Store
    BY SessionOfType, NoneIsValue DEF Logout, TypeOK, SignedOut, Store
<1>3. hist' \in History
    BY DEF Logout, TypeOK, History
<1>4. owner' \in Persons \union {None}
    BY DEF Logout
<1> QED
    BY <1>1, <1>2, <1>3, <1>4, TypeRest, TappedType DEF Logout, TypeOK

LEMMA NetAt ==
    ASSUME TypeOK, NEW i \in DOMAIN net
    PROVE  /\ net[i] \in Message
           /\ RemoveAt(net, i) \in Seq(Message)
           /\ i \in Nat
<1>1. net \in Seq(Message) /\ i \in 1 .. Len(net)
    BY DEF TypeOK
<1> QED
    BY <1>1, RemoveAtType

LEMMA DeliverType ==
    ASSUME TypeOK, NEW i \in DOMAIN net, Deliver(i)
    PROVE  TypeOK'
<1> DEFINE m == net[i]
<1>1. m \in Message /\ RemoveAt(net, i) \in Seq(Message) /\ i \in Nat
    BY NetAt
<1>2. m.kind \in Kinds /\ m.as \in Profiles
    BY <1>1 DEF Deliver, Message, Value
<1>3. store' \in Store
    BY <1>1, WrittenType DEF Deliver
<1>4. PICK to \in Destination(m) :
          /\ Show(to, store'.userInfo, RemoveAt(net, i))
          /\ hist' = [hist EXCEPT
                !.late = IF Stray(m) THEN @ \union {m.kind} ELSE @,
                !.inherited = @ \/ /\ m.kind = "signup"
                                   /\ \/ store.profileImage # None
                                      \/ store.verified # None,
                !.crossed = @ \/ i > 1,
                !.refreshed = Refreshed(to, store'.userInfo)]
    BY DEF Deliver
<1>5. to \in Guest \union Account
    BY <1>4 DEF Destination, Guest, TypeOK
<1>6. store'.userInfo \in Value
    BY <1>3 DEF Store
<1>7. screen' \in Guest \union Account /\ net' \in Seq(Message)
    BY <1>1, <1>4, <1>5, <1>6, ShowType
<1>8. hist' \in History
  <2> DEFINE late == IF Stray(m) THEN hist.late \union {m.kind} ELSE hist.late
             inh  == hist.inherited \/ /\ m.kind = "signup"
                                       /\ \/ store.profileImage # None
                                          \/ store.verified # None
             cro  == hist.crossed \/ i > 1
             ref  == Refreshed(to, store'.userInfo)
  <2>1. hist \in History
      BY DEF TypeOK
  <2>2. late \in SUBSET Kinds
      BY <1>2, <2>1 DEF History
  <2>3. inh \in BOOLEAN /\ cro \in BOOLEAN
      BY <2>1 DEF History
  <2>4. ref \in BOOLEAN
      BY RefreshedType
  <2>5. hist' = [hist EXCEPT !.late = late, !.inherited = inh,
                             !.crossed = cro, !.refreshed = ref]
      BY <1>4, Zenon
  <2> HIDE DEF late, inh, cro, ref
  <2> QED
      BY <2>1, <2>2, <2>3, <2>4, <2>5 DEF History
<1>9. owner' \in Persons \union {None}
  <2>1. owner' = Owner(m)
      BY DEF Deliver
  <2>2. Person[m.as] \in Persons
      BY <1>2, ConstantsAssumption
  <2> QED
      BY <2>1, <2>2 DEF Owner, TypeOK
<1> QED
    BY <1>3, <1>7, <1>8, <1>9, TypeRest DEF Deliver, TypeOK

LEMMA FailType ==
    ASSUME TypeOK, NEW i \in DOMAIN net, Fail(i)
    PROVE  TypeOK'
<1>1. net' \in Seq(Message)
    BY NetAt DEF Fail
<1>2. hist' \in History
    BY DEF Fail, TypeOK, History
<1> QED
    BY <1>1, <1>2, TypeRest DEF Fail, TypeOK

LEMMA RestartType ==
    ASSUME TypeOK, Restart
    PROVE  TypeOK'
<1>1. net' \in Seq(Message)
    BY FocusedType, StoreFields DEF Restart
<1>2. hist' \in History
    BY DEF Restart, TypeOK, History
<1>3. restarts' \in Nat /\ screen' \in Guest \union Account
  <2>1. restarts \in Nat
      BY DEF TypeOK
  <2>2. restarts' = restarts + 1 /\ screen' = "home"
      BY Zenon DEF Restart
  <2> QED
      BY <2>1, <2>2 DEF Guest
<1> QED
    BY <1>1, <1>2, <1>3, TypeRest DEF Restart, TypeOK

\* Every reachable state of the session is well typed.
THEOREM TypeCorrect == Spec => []TypeOK
<1>1. Init => TypeOK
  <2> SUFFICES ASSUME Init PROVE TypeOK
      OBVIOUS
  <2>1. PICK p \in Value : /\ store = SessionOf(p)
                           /\ net = Focused("", "home", p)
                           /\ owner = PersonOf(p)
      BY DEF Init
  <2>2. store \in Store /\ net \in Seq(Message)
      BY <2>1, SessionOfType, FocusedType
  <2>3. owner \in Persons \union {None}
      BY <2>1, PersonOfType
  <2>4. hist \in History
      BY DEF Init, History
  <2> QED
      BY <2>2, <2>3, <2>4 DEF Init, TypeOK, Guest
<1>2. TypeOK /\ [Next]_vars => TypeOK'
  <2> SUFFICES ASSUME TypeOK, [Next]_vars PROVE TypeOK'
      OBVIOUS
  <2>1. CASE \E to \in Guest \union Account : Navigate(to)
      BY <2>1, NavigateType
  <2>2. CASE \E p \in Profiles : Submit(p)
      BY <2>2, SubmitType
  <2>3. CASE DrawerFocus \/ (\E kind \in Kinds : Ask(kind))
      BY <2>3, AskType DEF Kinds
  <2>4. CASE Logout
      BY <2>4, LogoutType
  <2>5. CASE Network
      BY <2>5, DeliverType, FailType DEF Network
  <2>6. CASE Persist
      BY <2>6, TypeRest DEF Persist, TypeOK
  <2>7. CASE Restart
      BY <2>7, RestartType
  <2>8. CASE UNCHANGED vars
      BY <2>8 DEF vars, TypeOK
  <2> QED
      BY <2>1, <2>2, <2>3, <2>4, <2>5, <2>6, <2>7, <2>8 DEF Next
<1> QED
    BY <1>1, <1>2, PTL DEF Spec

-----------------------------------------------------------------------------
\* What each answer leaves in the slice, field by field.
LEMMA WrittenFields ==
    ASSUME TypeOK, NEW m \in Message, m.as # None, NEW s \in Written(m)
    PROVE  /\ m.kind \in Passwords =>
                 s.token = m.as /\ s.userInfo = m.as /\ s.visibleProfile = m.as
           /\ m.kind = "login" => s.profileImage = m.as /\ s.verified = m.as
           /\ m.kind = "switch" =>
                 \E p \in Profiles : /\ Person[p] = Person[m.as]
                                     /\ s.token = p /\ s.userInfo = p
                                     /\ s.visibleProfile = p
           /\ m.kind = "deactivate" => s.token = None /\ s.userInfo = None
           /\ m.kind \notin Passwords \union {"switch", "deactivate"} =>
                 s.token = store.token /\ s.userInfo = store.userInfo
           /\ m.kind \notin Passwords \union {"switch", "deactivate", "privacy"}
                 => s.visibleProfile = store.visibleProfile
           /\ m.kind = "privacy" => s.visibleProfile = m.as
           /\ m.kind \notin {"login", "avatar"} =>
                 s.profileImage = store.profileImage
           /\ m.kind = "avatar" => s.profileImage = m.as
           /\ m.kind \notin {"login", "verification"} =>
                 s.verified = store.verified
           /\ m.kind = "verification" => s.verified = m.as
<1>1. m.kind \in Kinds
    BY DEF Message
<1>2. store \in Store
    BY DEF TypeOK
<1>3. CASE m.kind = "login"
    BY <1>2, <1>3 DEF Written, Admit, AdmitLogin, Store, Passwords
<1>4. CASE m.kind = "signup"
    BY <1>2, <1>4 DEF Written, Admit, Store, Passwords
<1>5. CASE m.kind = "switch"
  <2>1. PICK p \in Profiles : Person[p] = Person[m.as] /\ s = Admit(p)
      BY <1>5 DEF Written
  <2> QED
      BY <1>2, <1>5, <2>1 DEF Admit, Store, Passwords
<1>6. CASE m.kind = "deactivate"
    BY <1>2, <1>6 DEF Written, Admit, Store, Passwords
<1>7. CASE m.kind = "balance"
    BY <1>2, <1>7 DEF Written, Store, Passwords
<1>8. CASE m.kind = "verification"
    BY <1>2, <1>8 DEF Written, Store, Passwords
<1>9. CASE m.kind = "privacy"
    BY <1>2, <1>9 DEF Written, Store, Passwords
<1>10. CASE m.kind = "avatar"
    BY <1>2, <1>10 DEF Written, Store, Passwords
<1>11. CASE m.kind = "restore"
    BY <1>2, <1>11 DEF Written, Store, Passwords
<1> QED
    BY <1>1, <1>3, <1>4, <1>5, <1>6, <1>7, <1>8, <1>9, <1>10, <1>11 DEF Kinds

\* What an answer does to the session apart from the slice.
LEMMA DeliverStep ==
    ASSUME TypeOK, NEW i \in DOMAIN net, Deliver(i)
    PROVE  /\ net[i] \in Message /\ net[i].as # None /\ net[i].as \in Profiles
           /\ store' \in Written(net[i]) /\ disk' = disk
           /\ screen' \in Destination(net[i])
           /\ owner' = Owner(net[i])
           /\ hist'.late = IF Stray(net[i]) THEN hist.late \union {net[i].kind}
                                            ELSE hist.late
           /\ hist'.rolledBack = hist.rolledBack
           /\ hist.inherited => hist'.inherited
           /\ /\ net[i].kind = "signup"
              /\ store.profileImage # None \/ store.verified # None
              => hist'.inherited
<1> DEFINE m == net[i]
<1>1. m \in Message
    BY NetAt
<1>2. m.as # None /\ store' \in Written(m) /\ disk' = disk /\ owner' = Owner(m)
    BY DEF Deliver
<1>3. m.as \in Profiles
    BY <1>1, <1>2 DEF Message, Value
<1>4. PICK to \in Destination(m) :
          /\ Show(to, store'.userInfo, RemoveAt(net, i))
          /\ hist' = [hist EXCEPT
                !.late = IF Stray(m) THEN @ \union {m.kind} ELSE @,
                !.inherited = @ \/ /\ m.kind = "signup"
                                   /\ \/ store.profileImage # None
                                      \/ store.verified # None,
                !.crossed = @ \/ i > 1,
                !.refreshed = Refreshed(to, store'.userInfo)]
    BY DEF Deliver
<1>5. screen' \in Destination(m)
    BY <1>4 DEF Show
<1>6. hist \in History
    BY DEF TypeOK
<1>7. /\ hist'.late = IF Stray(m) THEN hist.late \union {m.kind} ELSE hist.late
      /\ hist'.rolledBack = hist.rolledBack
      /\ hist'.inherited = (\/ hist.inherited
                            \/ /\ m.kind = "signup"
                               /\ \/ store.profileImage # None
                                  \/ store.verified # None)
    BY <1>4, <1>6, Zenon DEF History
<1> QED
    BY <1>1, <1>2, <1>3, <1>5, <1>7, Zenon

\* All other steps leave the recorded reasons alone.
LEMMA OtherStep ==
    ASSUME TypeOK, [Next]_vars,
           ~ \E i \in DOMAIN net : Deliver(i), ~Restart
    PROVE  /\ hist'.late = hist.late /\ hist'.rolledBack = hist.rolledBack
           /\ hist'.inherited = hist.inherited
           /\ \/ store' = store /\ owner' = owner
              \/ Logout
           /\ disk' = disk \/ disk' = store
<1>1. hist \in History
    BY DEF TypeOK
<1>2. CASE \E to \in Guest \union Account : Navigate(to)
    BY <1>1, <1>2 DEF Navigate, Tapped, History
<1>3. CASE \E p \in Profiles : Submit(p)
    BY <1>1, <1>3 DEF Submit, Tapped
<1>4. CASE DrawerFocus \/ (\E kind \in Kinds : Ask(kind))
    BY <1>1, <1>4 DEF DrawerFocus, Ask, Tapped
<1>5. CASE Logout
    BY <1>1, <1>5 DEF Logout, Tapped, History
<1>6. CASE \E i \in DOMAIN net : Fail(i)
    BY <1>1, <1>6 DEF Fail, History
<1>7. CASE Persist
    BY <1>7 DEF Persist
<1>8. CASE UNCHANGED vars
    BY <1>8 DEF vars
<1> QED
    BY <1>2, <1>3, <1>4, <1>5, <1>6, <1>7, <1>8 DEF Next, Network

LEMMA LogoutStep ==
    ASSUME TypeOK, Logout
    PROVE  /\ store'.token = None /\ store'.userInfo = None
           /\ owner' = None /\ screen' = "login"
<1>1. store' = [SignedOut EXCEPT !.wallet = store.wallet]
    BY DEF Logout
<1> QED
    BY <1>1 DEF Logout, Show, SignedOut, SessionOf

-----------------------------------------------------------------------------
(* The person signed in                                                    *)

LEMMA ByPasswordDeliver ==
    ASSUME TypeOK, SignedInByPassword, NEW i \in DOMAIN net, Deliver(i)
    PROVE  SignedInByPassword'
<1> DEFINE m == net[i]
<1>1. /\ m \in Message /\ m.as # None /\ m.as \in Profiles
      /\ store' \in Written(m)
      /\ owner' = Owner(m)
      /\ hist'.late = IF Stray(m) THEN hist.late \union {m.kind} ELSE hist.late
      /\ hist'.rolledBack = hist.rolledBack
    BY DeliverStep
<1>2. m.kind \in Kinds
    BY <1>1 DEF Message
<1>3. CASE hist.rolledBack \/ {"switch", "deactivate"} \intersect hist.late # {}
    BY <1>1, <1>3 DEF SignedInByPassword
<1>4. CASE owner = PersonOf(store.userInfo)
  <2>1. CASE m.kind \in Passwords
    <3>1. store'.userInfo = m.as
        BY <1>1, <2>1, WrittenFields
    <3> QED
        BY <1>1, <2>1, <3>1 DEF SignedInByPassword, Owner, PersonOf, Passwords
  <2>2. CASE m.kind = "switch"
    <3>1. PICK p \in Profiles : Person[p] = Person[m.as] /\ store'.userInfo = p
        BY <1>1, <2>2, WrittenFields
    <3>2. p # None
        BY ConstantsAssumption
    <3>3. owner' = owner
        BY <1>1, <2>2 DEF Owner, Passwords
    <3>4. CASE Stray(m)
        BY <1>1, <2>2, <3>4 DEF SignedInByPassword
    <3>5. CASE ~Stray(m)
      <4>1. Person[m.as] = owner
          BY <1>1, <1>4, <2>2, <3>5 DEF Stray, PersonOf, Passwords
      <4> QED
          BY <3>1, <3>2, <3>3, <4>1 DEF SignedInByPassword, PersonOf
    <3> QED
        BY <3>4, <3>5
  <2>3. CASE m.kind = "deactivate"
    <3>1. store'.userInfo = None
        BY <1>1, <2>3, WrittenFields
    <3>2. CASE Stray(m)
        BY <1>1, <2>3, <3>2 DEF SignedInByPassword
    <3>3. CASE ~Stray(m)
        BY <1>1, <2>3, <3>1, <3>3 DEF SignedInByPassword, Owner, PersonOf, Passwords
    <3> QED
        BY <3>2, <3>3
  <2>4. CASE m.kind \notin Passwords \union {"switch", "deactivate"}
    <3>1. store'.userInfo = store.userInfo
        BY <1>1, <2>4, WrittenFields
    <3>2. owner' = owner
        BY <1>1, <2>4 DEF Owner
    <3> QED
        BY <1>4, <3>1, <3>2 DEF SignedInByPassword, PersonOf
  <2> QED
      BY <1>2, <2>1, <2>2, <2>3, <2>4
<1> QED
    BY <1>3, <1>4 DEF SignedInByPassword

LEMMA ByPasswordRestart ==
    ASSUME TypeOK, SignedInByPassword, Restart
    PROVE  SignedInByPassword'
<1>1. hist \in History
    BY DEF TypeOK
<1>2. /\ hist'.late = hist.late
      /\ hist'.rolledBack = (hist.rolledBack \/ disk # store)
      /\ store' = disk /\ owner' = owner
    BY <1>1, Zenon DEF Restart, History
<1> QED
    BY <1>2 DEF SignedInByPassword, PersonOf

\* Whoever is signed in has entered the password and not signed off since,
\* unless a stray answer of switchUser or deactiveAccount, or a crash before
\* the slice was written, changed that.
THEOREM SignedInKnown == Spec => []SignedInByPassword
<1>1. Init => SignedInByPassword
  <2> SUFFICES ASSUME Init PROVE SignedInByPassword
      OBVIOUS
  <2>1. PICK p \in Value : store = SessionOf(p) /\ owner = PersonOf(p)
      BY DEF Init
  <2>2. store.userInfo = p
      BY <2>1 DEF SessionOf
  <2> QED
      BY <2>1, <2>2 DEF SignedInByPassword
<1>2. TypeOK /\ SignedInByPassword /\ [Next]_vars => SignedInByPassword'
  <2> SUFFICES ASSUME TypeOK, SignedInByPassword, [Next]_vars
               PROVE  SignedInByPassword'
      OBVIOUS
  <2>1. CASE \E i \in DOMAIN net : Deliver(i)
      BY <2>1, ByPasswordDeliver
  <2>2. CASE Restart
      BY <2>2, ByPasswordRestart
  <2>3. CASE ~(\E i \in DOMAIN net : Deliver(i)) /\ ~Restart
    <3>1. /\ hist'.late = hist.late /\ hist'.rolledBack = hist.rolledBack
          /\ \/ store' = store /\ owner' = owner
             \/ Logout
        BY <2>3, OtherStep
    <3>2. CASE Logout
        BY <3>2, LogoutStep DEF SignedInByPassword, PersonOf
    <3> QED
        BY <3>1, <3>2 DEF SignedInByPassword, PersonOf
  <2> QED
      BY <2>1, <2>2, <2>3
<1> QED
    BY <1>1, <1>2, TypeCorrect, PTL DEF Spec

-----------------------------------------------------------------------------
(* The session is whole                                                    *)

LEMMA WholeDeliver ==
    ASSUME TypeOK, SessionWhole, NEW i \in DOMAIN net, Deliver(i)
    PROVE  SessionWhole'
<1> DEFINE m == net[i]
<1>1. /\ m \in Message /\ m.as # None /\ m.as \in Profiles
      /\ store' \in Written(m) /\ disk' = disk
      /\ screen' \in Destination(m)
    BY DeliverStep
<1>2. m.kind \in Kinds
    BY <1>1 DEF Message
<1>3. CASE m.kind \in Passwords
  <2>1. store'.token = m.as /\ store'.userInfo = m.as
      BY <1>1, <1>3, WrittenFields
  <2> QED
      BY <1>1, <2>1 DEF SessionWhole
<1>4. CASE m.kind = "switch"
  <2>1. PICK p \in Profiles : store'.token = p /\ store'.userInfo = p
      BY <1>1, <1>4, WrittenFields
  <2>2. p # None
      BY ConstantsAssumption
  <2> QED
      BY <1>1, <2>1, <2>2 DEF SessionWhole
<1>5. CASE m.kind = "deactivate"
  <2>1. store'.token = None /\ store'.userInfo = None
      BY <1>1, <1>5, WrittenFields
  <2>2. screen' = "login"
      BY <1>1, <1>5 DEF Destination
  <2> QED
      BY <1>1, <2>1, <2>2 DEF SessionWhole, Account
<1>6. CASE m.kind \notin Passwords \union {"switch", "deactivate"}
  <2>1. store'.token = store.token /\ store'.userInfo = store.userInfo
      BY <1>1, <1>6, WrittenFields
  <2>2. screen' \in {screen, "home"}
      BY <1>1, <1>6 DEF Destination, Passwords
  <2> QED
      BY <1>1, <2>1, <2>2 DEF SessionWhole, Account
<1> QED
    BY <1>3, <1>4, <1>5, <1>6

LEMMA WholeUser ==
    ASSUME TypeOK, SessionWhole, NEW to \in Guest \union Account, Navigate(to)
    PROVE  SessionWhole'
<1>1. /\ store' = store /\ disk' = disk /\ screen' = to
      /\ \/ store.userInfo = None /\ to \in Guest
         \/ store.userInfo # None
         \/ to \in {"signup", "login"}
    BY DEF Navigate, Tapped, Show
<1>2. to \in Account => store.userInfo # None
    BY <1>1 DEF Guest, Account
<1> QED
    BY <1>1, <1>2 DEF SessionWhole

\* Token and userInfo belong together on and off the disk, and no guest is
\* ever on a screen of an account.
THEOREM SessionStaysWhole == Spec => []SessionWhole
<1>1. Init => SessionWhole
  <2> SUFFICES ASSUME Init PROVE SessionWhole
      OBVIOUS
  <2>1. PICK p \in Value : store = SessionOf(p)
      BY DEF Init
  <2>2. store.token = p /\ store.userInfo = p /\ disk = store /\ screen = "home"
      BY <2>1 DEF SessionOf, Init
  <2> QED
      BY <2>2 DEF SessionWhole, Account
<1>2. TypeOK /\ SessionWhole /\ [Next]_vars => SessionWhole'
  <2> SUFFICES ASSUME TypeOK, SessionWhole, [Next]_vars PROVE SessionWhole'
      OBVIOUS
  <2>1. CASE \E to \in Guest \union Account : Navigate(to)
      BY <2>1, WholeUser
  <2>2. CASE \E p \in Profiles : Submit(p)
      BY <2>2 DEF Submit, Tapped, SessionWhole
  <2>3. CASE DrawerFocus \/ (\E kind \in Kinds : Ask(kind))
      BY <2>3 DEF DrawerFocus, Ask, Tapped, SessionWhole
  <2>4. CASE Logout
      BY <2>4, LogoutStep DEF Logout, Tapped, SessionWhole, Account
  <2>5. CASE \E i \in DOMAIN net : Deliver(i)
      BY <2>5, WholeDeliver
  <2>6. CASE \E i \in DOMAIN net : Fail(i)
      BY <2>6 DEF Fail, SessionWhole
  <2>7. CASE Persist
      BY <2>7 DEF Persist, SessionWhole
  <2>8. CASE Restart
    <3>1. store' = disk /\ disk' = disk /\ screen' = "home"
        BY <2>8, Zenon DEF Restart
    <3> QED
        BY <3>1 DEF SessionWhole, Account
  <2>9. CASE UNCHANGED vars
      BY <2>9 DEF vars, SessionWhole
  <2> QED
      BY <2>1, <2>2, <2>3, <2>4, <2>5, <2>6, <2>7, <2>8, <2>9 DEF Next, Network
<1> QED
    BY <1>1, <1>2, TypeCorrect, PTL DEF Spec

-----------------------------------------------------------------------------
(* One person                                                              *)

Belongs(v, s) == v = None \/ PersonOf(v) = PersonOf(s.userInfo)

Consistent(s) ==
    s.userInfo # None /\ ~hist.inherited /\ "switch" \notin hist.late =>
        /\ Belongs(s.visibleProfile, s) \/ "privacy" \in hist.late
        /\ Belongs(s.profileImage, s) \/ "avatar" \in hist.late
        /\ Belongs(s.verified, s) \/ "verification" \in hist.late

\* The slice that a restart brings back has to be consistent, too.
Both == Consistent(store) /\ Consistent(disk)

LEMMA ConsistentDeliver ==
    ASSUME TypeOK, Both, NEW i \in DOMAIN net, Deliver(i)
    PROVE  Both'
<1> DEFINE m == net[i]
<1>1. /\ m \in Message /\ m.as # None /\ m.as \in Profiles
      /\ store' \in Written(m) /\ disk' = disk
      /\ hist'.late = IF Stray(m) THEN hist.late \union {m.kind} ELSE hist.late
      /\ hist.inherited => hist'.inherited
      /\ /\ m.kind = "signup"
         /\ store.profileImage # None \/ store.verified # None
         => hist'.inherited
    BY DeliverStep
<1>2. m.kind \in Kinds
    BY <1>1 DEF Message
<1>3. Consistent(disk)'
    BY <1>1 DEF Both, Consistent, Belongs, PersonOf
<1>4. ~Stray(m) /\ m.kind \notin Passwords =>
         PersonOf(m.as) = PersonOf(store.userInfo)
    BY DEF Stray
<1>5. hist.late \subseteq hist'.late /\ (Stray(m) => m.kind \in hist'.late)
    BY <1>1
<1>6. Consistent(store)
    BY DEF Both
<1>7. Consistent(store)'
  <2>1. CASE m.kind = "login"
    <3>1. /\ store'.userInfo = m.as /\ store'.visibleProfile = m.as
          /\ store'.profileImage = m.as /\ store'.verified = m.as
        BY <1>1, <2>1, WrittenFields DEF Passwords
    <3> QED
        BY <3>1 DEF Consistent, Belongs
  <2>2. CASE m.kind = "signup"
    <3>1. /\ store'.userInfo = m.as /\ store'.visibleProfile = m.as
          /\ store'.profileImage = store.profileImage
          /\ store'.verified = store.verified
        BY <1>1, <2>2, WrittenFields DEF Passwords
    <3> QED
        BY <1>1, <2>2, <3>1 DEF Consistent, Belongs
  <2>3. CASE m.kind = "switch"
    <3>1. PICK p \in Profiles :
             /\ Person[p] = Person[m.as]
             /\ store'.userInfo = p /\ store'.visibleProfile = p
        BY <1>1, <2>3, WrittenFields
    <3>2. /\ store'.profileImage = store.profileImage
          /\ store'.verified = store.verified
        BY <1>1, <2>3, WrittenFields
    <3>3. CASE Stray(m)
        BY <1>5, <2>3, <3>3 DEF Consistent
    <3>4. CASE ~Stray(m)
      <4>1. p # None
          BY ConstantsAssumption
      <4>2. PersonOf(p) = PersonOf(store.userInfo) /\ store.userInfo # None
          BY <1>1, <1>4, <2>3, <3>1, <3>4, <4>1, ConstantsAssumption
             DEF PersonOf, Passwords
      <4> QED
          BY <1>5, <1>6, <1>1, <3>1, <3>2, <4>2 DEF Consistent, Belongs, PersonOf
    <3> QED
        BY <3>3, <3>4
  <2>4. CASE m.kind = "deactivate"
    <3>1. store'.userInfo = None
        BY <1>1, <2>4, WrittenFields
    <3> QED
        BY <3>1 DEF Consistent
  <2>5. CASE m.kind \notin Passwords \union {"switch", "deactivate"}
    <3>1. store'.userInfo = store.userInfo
        BY <1>1, <2>5, WrittenFields
    <3>2. /\ m.kind # "privacy" => store'.visibleProfile = store.visibleProfile
          /\ m.kind = "privacy" => store'.visibleProfile = m.as
          /\ m.kind # "avatar" => store'.profileImage = store.profileImage
          /\ m.kind = "avatar" => store'.profileImage = m.as
          /\ m.kind # "verification" => store'.verified = store.verified
          /\ m.kind = "verification" => store'.verified = m.as
        BY <1>1, <2>5, WrittenFields DEF Passwords
    <3>3. CASE Stray(m)
        BY <1>1, <1>5, <1>6, <3>1, <3>2, <3>3 DEF Consistent, Belongs, PersonOf
    <3>4. CASE ~Stray(m)
        BY <1>1, <1>4, <1>5, <1>6, <2>5, <3>1, <3>2, <3>4
           DEF Consistent, Belongs, PersonOf
    <3> QED
        BY <3>3, <3>4
  <2> QED
      BY <1>2, <2>1, <2>2, <2>3, <2>4, <2>5 DEF Passwords
<1> QED
    BY <1>3, <1>7 DEF Both

LEMMA ConsistentRestart ==
    ASSUME TypeOK, Both, Restart
    PROVE  Both'
<1>1. hist \in History
    BY DEF TypeOK
<1>2. /\ hist'.late = hist.late /\ hist'.inherited = hist.inherited
      /\ store' = disk /\ disk' = disk
    BY <1>1, Zenon DEF Restart, History
<1> QED
    BY <1>2 DEF Both, Consistent, Belongs, PersonOf

\* The image, the privacy and the verification belong to the person signed in,
\* also after a restart; only the stray answer that wrote the field itself, a
\* stray switch or a sign-up after a deactivation can break it.
THEOREM FieldsOfOnePerson == Spec => []OnePerson
<1>1. Init => Both
  <2> SUFFICES ASSUME Init PROVE Both
      OBVIOUS
  <2>1. PICK p \in Value : store = SessionOf(p)
      BY DEF Init
  <2>2. /\ store.userInfo = p /\ store.visibleProfile = p
        /\ store.profileImage = p /\ store.verified = p /\ disk = store
      BY <2>1 DEF SessionOf, Init
  <2> QED
      BY <2>2 DEF Both, Consistent, Belongs
<1>2. TypeOK /\ Both /\ [Next]_vars => Both'
  <2> SUFFICES ASSUME TypeOK, Both, [Next]_vars PROVE Both'
      OBVIOUS
  <2>1. CASE \E i \in DOMAIN net : Deliver(i)
      BY <2>1, ConsistentDeliver
  <2>2. CASE Restart
      BY <2>2, ConsistentRestart
  <2>3. CASE ~(\E i \in DOMAIN net : Deliver(i)) /\ ~Restart
    <3>1. /\ hist'.late = hist.late /\ hist'.inherited = hist.inherited
          /\ store' = store \/ Logout
          /\ disk' = disk \/ disk' = store
        BY <2>3, OtherStep
    <3>2. Consistent(disk)'
        BY <3>1 DEF Both, Consistent, Belongs, PersonOf
    <3>3. CASE Logout
        BY <3>2, <3>3, LogoutStep DEF Both, Consistent
    <3>4. CASE store' = store
        BY <3>1, <3>2, <3>4 DEF Both, Consistent, Belongs, PersonOf
    <3> QED
        BY <3>1, <3>3, <3>4
  <2> QED
      BY <2>1, <2>2, <2>3
<1>3. Both => OnePerson
    BY DEF Both, Consistent, Belongs, OnePerson, OfSession
<1> QED
    BY <1>1, <1>2, <1>3, TypeCorrect, PTL DEF Spec

-----------------------------------------------------------------------------
(* A quiet account.                                                        *)

\* The field v, which answers of this kind write, is of profile u, or will be:
\* the last of these requests in flight names u.
Owed(ms, kind, v, u) ==
    \/ \E j \in DOMAIN ms :
          /\ ms[j].kind = kind /\ ms[j].as = u
          /\ \A k \in DOMAIN ms : k > j /\ ms[k].kind = kind => ms[k].as = u
    \/ v = u /\ \A k \in DOMAIN ms : ms[k].kind = kind => ms[k].as = u

Fresh ==
    store.userInfo # None /\ ~hist.failed /\ ~hist.crossed /\ hist.refreshed =>
        /\ Owed(net, "verification", store.verified, store.userInfo)
        /\ Owed(net, "balance", store.wallet, store.userInfo)

LEMMA RemoveAtElements ==
    ASSUME NEW S, NEW s \in Seq(S), NEW i \in 1 .. Len(s)
    PROVE  /\ DOMAIN RemoveAt(s, i) = 1 .. (Len(s) - 1)
           /\ \A k \in 1 .. (Len(s) - 1) :
                 RemoveAt(s, i)[k] = IF k < i THEN s[k] ELSE s[k + 1]
<1>1. Len(s) \in Nat /\ i \in Nat /\ i >= 1 /\ i <= Len(s)
    OBVIOUS
<1> DEFINE a == SubSeq(s, 1, i - 1)
           b == SubSeq(s, i + 1, Len(s))
<1>2. /\ a \in Seq(S) /\ Len(a) = i - 1 /\ \A k \in 1 .. (i - 1) : a[k] = s[k]
      /\ b \in Seq(S) /\ Len(b) = Len(s) - i
      /\ \A k \in 1 .. (Len(s) - i) : b[k] = s[k + i]
    BY <1>1
<1>3. RemoveAt(s, i) = a \o b
    BY DEF RemoveAt
<1> HIDE DEF a, b
<1>4. Len(a \o b) = Len(s) - 1 /\ DOMAIN (a \o b) = 1 .. Len(a \o b)
  <2>1. a \in Seq(S) /\ b \in Seq(S)
      BY <1>2
  <2>2. Len(a \o b) = Len(a) + Len(b)
      BY <2>1
  <2>3. a \o b \in Seq(S)
      BY <2>1
  <2>4. DOMAIN (a \o b) = 1 .. Len(a \o b)
      BY <2>3
  <2> QED
      BY <1>1, <1>2, <2>2, <2>4
<1>5. ASSUME NEW k \in 1 .. (Len(s) - 1)
      PROVE  (a \o b)[k] = IF k < i THEN s[k] ELSE s[k + 1]
  <2>1. CASE k < i
      BY <1>1, <1>2, <2>1
  <2>2. CASE ~(k < i)
    <3>1. (a \o b)[k] = b[k - (i - 1)] /\ k - (i - 1) \in 1 .. (Len(s) - i)
        BY <1>1, <1>2, <2>2
    <3>2. (k - (i - 1)) + i = k + 1
        BY <1>1
    <3> QED
        BY <1>2, <2>2, <3>1, <3>2
  <2> QED
      BY <2>1, <2>2
<1> QED
    BY <1>3, <1>4, <1>5

\* New requests of u, behind the others.
LEMMA OwedBehind ==
    ASSUME NEW ms \in Seq(Message), NEW ns \in Seq(Message), NEW kind, NEW v, NEW u,
           \A k \in 1 .. Len(ns) : ns[k].kind = kind => ns[k].as = u
    PROVE  /\ Owed(ms, kind, v, u) => Owed(ms \o ns, kind, v, u)
           /\ (\E k \in 1 .. Len(ns) : ns[k].kind = kind) => Owed(ms \o ns, kind, v, u)
<1> DEFINE all == ms \o ns
<1>1. /\ DOMAIN all = 1 .. (Len(ms) + Len(ns))
      /\ Len(ms) \in Nat /\ Len(ns) \in Nat
      /\ DOMAIN ms = 1 .. Len(ms)
      /\ \A k \in 1 .. Len(ms) : all[k] = ms[k]
    OBVIOUS
<1>2. \A k \in 1 .. Len(ns) : all[k + Len(ms)] = ns[k] /\ k + Len(ms) \in DOMAIN all
    BY <1>1
<1>3. \A k \in DOMAIN all : k > Len(ms) =>
         k - Len(ms) \in 1 .. Len(ns) /\ all[k] = ns[k - Len(ms)]
    BY <1>1
<1> HIDE DEF all
<1>4. \A k \in DOMAIN all : k > Len(ms) /\ all[k].kind = kind => all[k].as = u
    BY <1>3
<1>5. \A k \in DOMAIN all : k > Len(ms) \/ k \in DOMAIN ms
    BY <1>1
<1>6. ASSUME Owed(ms, kind, v, u) PROVE Owed(all, kind, v, u)
  <2>1. CASE v = u /\ \A k \in DOMAIN ms : ms[k].kind = kind => ms[k].as = u
      BY <1>1, <1>4, <1>5, <2>1 DEF Owed
  <2>2. ASSUME NEW j \in DOMAIN ms, ms[j].kind = kind, ms[j].as = u,
               \A k \in DOMAIN ms : k > j /\ ms[k].kind = kind => ms[k].as = u
        PROVE  Owed(all, kind, v, u)
    <3>1. j \in DOMAIN all /\ all[j].kind = kind /\ all[j].as = u
        BY <1>1, <2>2
    <3>2. \A k \in DOMAIN all : k > j /\ all[k].kind = kind => all[k].as = u
        BY <1>1, <1>4, <1>5, <2>2
    <3> QED
        BY <3>1, <3>2 DEF Owed
  <2> QED
      BY <1>6, <2>1, <2>2 DEF Owed
<1>7. ASSUME NEW i \in 1 .. Len(ns), ns[i].kind = kind PROVE Owed(all, kind, v, u)
  <2>1. /\ i + Len(ms) \in DOMAIN all /\ all[i + Len(ms)].kind = kind
        /\ all[i + Len(ms)].as = u
      BY <1>2, <1>7
  <2>2. \A k \in DOMAIN all : k > i + Len(ms) => k > Len(ms)
      BY <1>1
  <2> QED
      BY <1>4, <2>1, <2>2 DEF Owed
<1> QED
    BY <1>6, <1>7 DEF all

\* The oldest request is answered.
LEMMA OwedAnswered ==
    ASSUME NEW ms \in Seq(Message), 1 \in 1 .. Len(ms), NEW kind, NEW v, NEW w, NEW u,
           ms[1].kind = kind => w = ms[1].as,
           ms[1].kind # kind => w \in {u, v},
           Owed(ms, kind, v, u)
    PROVE  Owed(RemoveAt(ms, 1), kind, w, u)
<1> DEFINE r == RemoveAt(ms, 1)
<1>1. /\ DOMAIN r = 1 .. (Len(ms) - 1)
      /\ \A k \in 1 .. (Len(ms) - 1) : r[k] = IF k < 1 THEN ms[k] ELSE ms[k + 1]
    BY RemoveAtElements
<1>2. Len(ms) \in Nat /\ DOMAIN ms = 1 .. Len(ms)
    OBVIOUS
<1> HIDE DEF r
<1>3. \A k \in DOMAIN r : k + 1 \in DOMAIN ms /\ k + 1 > 1 /\ r[k] = ms[k + 1]
    BY <1>1, <1>2
<1>4. CASE v = u /\ \A k \in DOMAIN ms : ms[k].kind = kind => ms[k].as = u
  <2>1. w = u
      BY <1>2, <1>4
  <2> QED
      BY <1>3, <1>4, <2>1 DEF Owed, r
<1>5. ASSUME NEW j \in DOMAIN ms, ms[j].kind = kind, ms[j].as = u,
             \A k \in DOMAIN ms : k > j /\ ms[k].kind = kind => ms[k].as = u
      PROVE  Owed(r, kind, w, u)
  <2>1. CASE j = 1
    <3>1. w = u /\ \A k \in DOMAIN r : r[k].kind = kind => r[k].as = u
        BY <1>3, <1>5, <2>1
    <3> QED
        BY <3>1 DEF Owed
  <2>2. CASE j # 1
    <3>1. j - 1 \in DOMAIN r /\ r[j - 1] = ms[j]
        BY <1>1, <1>2, <2>2
    <3>2. \A k \in DOMAIN r : k > j - 1 => k + 1 > j
        BY <1>1, <1>2
    <3>3. \A k \in DOMAIN r : k > j - 1 /\ r[k].kind = kind => r[k].as = u
        BY <1>3, <1>5, <3>2
    <3> QED
        BY <1>5, <3>1, <3>3 DEF Owed
  <2> QED
      BY <2>1, <2>2
<1> QED
    BY <1>4, <1>5 DEF Owed, r

\* A request that names nobody goes away.
LEMMA OwedDropped ==
    ASSUME NEW ms \in Seq(Message), NEW i \in 1 .. Len(ms), NEW kind, NEW v, NEW u,
           ms[i].as # u, Owed(ms, kind, v, u)
    PROVE  Owed(RemoveAt(ms, i), kind, v, u)
<1> DEFINE r == RemoveAt(ms, i)
<1>1. /\ DOMAIN r = 1 .. (Len(ms) - 1)
      /\ \A k \in 1 .. (Len(ms) - 1) : r[k] = IF k < i THEN ms[k] ELSE ms[k + 1]
    BY RemoveAtElements
<1>2. Len(ms) \in Nat /\ DOMAIN ms = 1 .. Len(ms)
    OBVIOUS
<1> HIDE DEF r
<1>3. CASE v = u /\ \A k \in DOMAIN ms : ms[k].kind = kind => ms[k].as = u
  <2>1. \A k \in DOMAIN r : \E l \in DOMAIN ms : r[k] = ms[l]
    <3> TAKE k \in DOMAIN r
    <3>1. k \in DOMAIN ms /\ k + 1 \in DOMAIN ms
        BY <1>1, <1>2
    <3> QED
        BY <1>1, <3>1
  <2> QED
      BY <1>3, <2>1 DEF Owed, r
<1>4. ASSUME NEW j \in DOMAIN ms, ms[j].kind = kind, ms[j].as = u,
             \A k \in DOMAIN ms : k > j /\ ms[k].kind = kind => ms[k].as = u
      PROVE  Owed(r, kind, v, u)
  <2>1. j # i
      BY <1>4
  <2> DEFINE l == IF j < i THEN j ELSE j - 1
  <2>2. l \in DOMAIN r /\ r[l] = ms[j]
      BY <1>1, <1>2, <2>1
  <2>3. ASSUME NEW k \in DOMAIN r, k > l, r[k].kind = kind PROVE r[k].as = u
    <3>1. \/ k < i /\ r[k] = ms[k] /\ k \in DOMAIN ms /\ k > j
          \/ ~(k < i) /\ r[k] = ms[k + 1] /\ k + 1 \in DOMAIN ms /\ k + 1 > j
        BY <1>1, <1>2, <2>1, <2>3
    <3> QED
        BY <1>4, <2>3, <3>1
  <2> HIDE DEF l
  <2> QED
      BY <1>4, <2>2, <2>3 DEF Owed
<1> QED
    BY <1>3, <1>4 DEF Owed, r

\* What the effects send when a screen is shown.
LEMMA FocusedAsks ==
    ASSUME NEW from, NEW to, NEW p \in Value
    PROVE  LET ns == Focused(from, to, p)
           IN  /\ ns \in Seq(Message)
               /\ \A k \in 1 .. Len(ns) : ns[k].as = p
               /\ to = "home" /\ from # "home" =>
                     /\ \E k \in 1 .. Len(ns) : ns[k].kind = "verification"
                     /\ \E k \in 1 .. Len(ns) : ns[k].kind = "balance"
<1> DEFINE ns == Focused(from, to, p)
           ver == [kind |-> "verification", as |-> p]
           bal == [kind |-> "balance", as |-> p]
<1>1. ns \in Seq(Message)
    BY FocusedType
<1>2. ns \in {<<>>, <<ver>>, <<ver, bal>>}
    BY DEF Focused
<1>3. to = "home" /\ from # "home" => ns = <<ver, bal>>
    BY DEF Focused
<1>4. /\ Len(<<>>) = 0 /\ Len(<<ver>>) = 1 /\ <<ver>>[1] = ver
      /\ Len(<<ver, bal>>) = 2 /\ <<ver, bal>>[1] = ver /\ <<ver, bal>>[2] = bal
    OBVIOUS
<1>5. ver.as = p /\ bal.as = p /\ ver.kind = "verification" /\ bal.kind = "balance"
    OBVIOUS
<1> HIDE DEF ver, bal, ns
<1>6. \A k \in 1 .. Len(ns) : ns[k].as = p
  <2>1. CASE ns = <<>>
      BY <1>4, <2>1
  <2>2. CASE ns = <<ver>>
      BY <1>4, <1>5, <2>2
  <2>3. CASE ns = <<ver, bal>>
      BY <1>4, <1>5, <2>3
  <2> QED
      BY <1>2, <2>1, <2>2, <2>3
<1>7. ASSUME to = "home", from # "home"
      PROVE  /\ \E k \in 1 .. Len(ns) : ns[k].kind = "verification"
             /\ \E k \in 1 .. Len(ns) : ns[k].kind = "balance"
  <2>1. Len(ns) = 2 /\ ns[1].kind = "verification" /\ ns[2].kind = "balance"
      BY <1>3, <1>4, <1>5, <1>7
  <2> QED
      BY <2>1
<1> QED
    BY <1>1, <1>6, <1>7 DEF ns

\* A screen is shown: what was owed still is, and Home asks for all of it.
LEMMA ShowOwed ==
    ASSUME NEW ms \in Seq(Message), NEW p \in Value, NEW to, Show(to, p, ms),
           NEW kind \in {"verification", "balance"}, NEW v,
           Owed(ms, kind, v, p) \/ (to = "home" /\ screen # "home")
    PROVE  Owed(net', kind, v, p)
<1> DEFINE ns == Focused(screen, to, p)
<1>1. /\ ns \in Seq(Message)
      /\ \A k \in 1 .. Len(ns) : ns[k].as = p
      /\ to = "home" /\ screen # "home" => \E k \in 1 .. Len(ns) : ns[k].kind = kind
    BY FocusedAsks
<1>2. net' = ms \o ns
    BY DEF Show
<1> HIDE DEF ns
<1> QED
    BY <1>1, <1>2, OwedBehind

LEMMA WrittenWallet ==
    ASSUME TypeOK, NEW m \in Message, NEW s \in Written(m)
    PROVE  s.wallet = IF m.kind = "balance" THEN m.as ELSE store.wallet
<1>1. m.kind \in Kinds
    BY DEF Message
<1>2. store \in Store
    BY DEF TypeOK
<1>3. \A p : Admit(p).wallet = store.wallet /\ AdmitLogin(p).wallet = store.wallet
    BY <1>2 DEF Admit, AdmitLogin, Store
<1>4. CASE m.kind \in {"login", "signup", "switch", "deactivate"}
    BY <1>3, <1>4 DEF Written
<1>5. CASE m.kind \notin {"login", "signup", "switch", "deactivate"}
    BY <1>1, <1>2, <1>5 DEF Written, Kinds, Store
<1> QED
    BY <1>4, <1>5

LEMMA DeliverFresh ==
    ASSUME TypeOK, Fresh, NEW i \in DOMAIN net, Deliver(i) PROVE Fresh'
<1> DEFINE m == net[i]
           u == store'.userInfo
<1>1. /\ m \in Message /\ m.as # None /\ store' \in Written(m)
      /\ net \in Seq(Message) /\ i \in 1 .. Len(net) /\ hist \in History
    BY NetAt DEF Deliver, TypeOK
<1>2. PICK to \in Destination(m) :
          /\ Show(to, u, RemoveAt(net, i))
          /\ hist' = [hist EXCEPT
                !.late = IF Stray(m) THEN @ \union {m.kind} ELSE @,
                !.inherited = @ \/ /\ m.kind = "signup"
                                   /\ \/ store.profileImage # None
                                      \/ store.verified # None,
                !.crossed = @ \/ i > 1,
                !.refreshed = Refreshed(to, u)]
    BY DEF Deliver
<1>3. /\ hist'.failed = hist.failed
      /\ hist'.crossed = (hist.crossed \/ i > 1)
      /\ hist'.refreshed = Refreshed(to, u)
    BY <1>1, <1>2, Zenon DEF History
<1>4. store' \in Store /\ u \in Value /\ RemoveAt(net, i) \in Seq(Message)
    BY <1>1, WrittenType, RemoveAtType DEF Store
<1>5. /\ m.kind = "login" => store'.verified = u
      /\ m.kind \notin {"login", "verification"} => store'.verified = store.verified
      /\ m.kind = "verification" => store'.verified = m.as
    BY <1>1, WrittenFields DEF Passwords
<1>6. store'.wallet = IF m.kind = "balance" THEN m.as ELSE store.wallet
    BY <1>1, WrittenWallet
<1> HIDE DEF m, u
<1> SUFFICES ASSUME u # None, ~hist'.failed, ~hist'.crossed, hist'.refreshed
             PROVE  /\ Owed(net', "verification", store'.verified, u)
                    /\ Owed(net', "balance", store'.wallet, u)
    BY DEF Fresh, u
<1>7. i = 1
  <2>1. ~(i > 1)
      BY <1>3, Zenon
  <2> QED
      BY <1>1, <2>1
<1>8. CASE to = "home" /\ screen # "home"
    BY <1>2, <1>4, <1>8, ShowOwed
<1>9. CASE hist.refreshed /\ u = store.userInfo
  <2>1. /\ Owed(net, "verification", store.verified, u)
        /\ Owed(net, "balance", store.wallet, u)
      BY <1>3, <1>9 DEF Fresh
  <2>2. Owed(RemoveAt(net, 1), "verification", store'.verified, u)
      BY <1>1, <1>5, <1>7, <2>1, OwedAnswered DEF m
  <2>3. Owed(RemoveAt(net, 1), "balance", store'.wallet, u)
      BY <1>1, <1>6, <1>7, <2>1, OwedAnswered DEF m
  <2> QED
      BY <1>2, <1>4, <1>7, <2>2, <2>3, ShowOwed
<1> QED
    BY <1>3, <1>8, <1>9 DEF Refreshed

\* A tap that sends at most one request.
LEMMA SendFresh ==
    ASSUME TypeOK, Fresh, NEW kind \in Kinds, NEW p \in Value, Send(kind, p),
           UNCHANGED <<store, hist>>,
           kind \in {"verification", "balance"} => p = store.userInfo
    PROVE  Fresh'
<1> DEFINE n == [kind |-> kind, as |-> p]
<1>1. /\ net \in Seq(Message) /\ n \in Message /\ n.kind = kind /\ n.as = p
      /\ <<n>> \in Seq(Message) /\ Len(<<n>>) = 1 /\ <<n>>[1] = n
    BY DEF TypeOK, Message
<1>2. net' = net \o <<n>>
    BY <1>1 DEF Send
<1> HIDE DEF n
<1>3. \A k \in 1 .. Len(<<n>>) : <<n>>[k] = n
    BY <1>1
<1>4. ASSUME NEW sort \in {"verification", "balance"}, NEW v,
             Owed(net, sort, v, store.userInfo)
      PROVE  Owed(net', sort, v, store.userInfo)
    BY <1>1, <1>2, <1>3, <1>4, OwedBehind
<1> QED
    BY <1>4 DEF Fresh

LEMMA FailFresh ==
    ASSUME TypeOK, Fresh, NEW i \in DOMAIN net, Fail(i) PROVE Fresh'
<1>1. /\ store' = store /\ net' = RemoveAt(net, i) /\ hist'.crossed = hist.crossed
      /\ hist'.refreshed = hist.refreshed
      /\ hist'.failed = (hist.failed \/ net[i].as # None)
    BY DEF Fail, TypeOK, History
<1>2. net \in Seq(Message) /\ i \in 1 .. Len(net)
    BY DEF TypeOK
<1>3. ASSUME net[i].as = None, store.userInfo # None,
             NEW kind, NEW v, Owed(net, kind, v, store.userInfo)
      PROVE  Owed(net', kind, v, store.userInfo)
    BY <1>1, <1>2, <1>3, OwedDropped
<1> QED
    BY <1>1, <1>3 DEF Fresh

LEMMA NavigateFresh ==
    ASSUME TypeOK, Fresh, NEW to, Navigate(to) PROVE Fresh'
<1>1. /\ store' = store /\ Show(to, store.userInfo, net)
      /\ hist'.crossed = hist.crossed /\ hist'.failed = hist.failed
      /\ hist'.refreshed = Refreshed(to, store.userInfo)
    BY DEF Navigate, TypeOK, History
<1>2. net \in Seq(Message) /\ store.userInfo \in Value
    BY StoreFields DEF TypeOK
<1>3. CASE to = "home" /\ screen # "home"
    BY <1>1, <1>2, <1>3, ShowOwed DEF Fresh
<1>4. CASE ~(to = "home" /\ screen # "home")
    BY <1>1, <1>2, <1>4, ShowOwed DEF Fresh, Refreshed
<1> QED
    BY <1>3, <1>4

\* A start of the program: Home asks for everything.
LEMMA HomeOwed ==
    ASSUME NEW p \in Value, NEW from, from # "home",
           NEW kind \in {"verification", "balance"}, NEW v
    PROVE  Owed(Focused(from, "home", p), kind, v, p)
<1> DEFINE ns == Focused(from, "home", p)
<1>1. /\ ns \in Seq(Message)
      /\ \A k \in 1 .. Len(ns) : ns[k].as = p
      /\ \E k \in 1 .. Len(ns) : ns[k].kind = kind
    BY FocusedAsks
<1> HIDE DEF ns
<1>2. <<>> \in Seq(Message) /\ <<>> \o ns = ns
    BY <1>1
<1>3. Owed(<<>> \o ns, kind, v, p)
    BY <1>1, <1>2, OwedBehind
<1> QED
    BY <1>2, <1>3 DEF ns

LEMMA StartOwed ==
    ASSUME NEW p \in Value, NEW v
    PROVE  /\ Owed(Focused("", "home", p), "verification", v, p)
           /\ Owed(Focused("", "home", p), "balance", v, p)
<1>1. "" # "home"
    OBVIOUS
<1>2. "verification" \in {"verification", "balance"}
    OBVIOUS
<1>3. "balance" \in {"verification", "balance"}
    OBVIOUS
<1> QED
    BY <1>1, <1>2, <1>3, HomeOwed, Zenon

LEMMA StepFresh == TypeOK /\ Fresh /\ [Next]_vars => Fresh'
<1> SUFFICES ASSUME TypeOK, Fresh, [Next]_vars PROVE Fresh'
    OBVIOUS
<1>1. ASSUME NEW p \in Profiles, Submit(p) PROVE Fresh'
    BY <1>1, SendFresh DEF Submit, Passwords, Kinds, Value
<1>2. ASSUME NEW kind \in Kinds, DrawerFocus \/ Ask(kind) PROVE Fresh'
  <2>1. store.userInfo \in Value
      BY StoreFields
  <2>2. PICK sort \in Kinds : Send(sort, store.userInfo) /\ UNCHANGED <<store, hist>>
      BY <1>2 DEF DrawerFocus, Ask, Kinds
  <2> QED
      BY <2>1, <2>2, SendFresh
<1>3. CASE Logout
    BY <1>3, LogoutStep DEF Fresh
<1>4. CASE Persist
    BY <1>4 DEF Persist, Fresh
<1>5. CASE Restart
  <2>1. /\ store' = disk /\ net' = Focused("", "home", disk.userInfo)
        /\ disk.userInfo \in Value
      BY <1>5, StoreFields DEF Restart
  <2> QED
      BY <2>1, StartOwed DEF Fresh
<1>6. CASE UNCHANGED vars
    BY <1>6 DEF vars, Fresh
<1> QED
    BY <1>1, <1>2, <1>3, <1>4, <1>5, <1>6, NavigateFresh, DeliverFresh, FailFresh
    DEF Next, Network, Kinds

\* Once everything is answered, verification and wallet are those of the
\* profile signed in: what getVerification and userBalance last asked for was
\* of this profile, and no other handler writes these fields later.
THEOREM AccountsFresh == Spec => []QuietAccountFresh
<1>1. Init => Fresh
  <2> SUFFICES ASSUME Init PROVE Fresh
      OBVIOUS
  <2>1. PICK p \in Value : store = SessionOf(p) /\ net = Focused("", "home", p)
      BY DEF Init
  <2>2. store.userInfo = p
      BY <2>1 DEF SessionOf
  <2> QED
      BY <2>1, <2>2, StartOwed DEF Fresh
<1>2. TypeOK /\ Fresh => QuietAccountFresh
    BY DEF Fresh, Owed, QuietAccountFresh
<1> QED
    BY <1>1, <1>2, TypeCorrect, StepFresh, PTL DEF Spec

-----------------------------------------------------------------------------
(* HomeCategories                                                          *)

\* The operators of the library in the instance are those of the module.
LEMMA HomeRemoveAt == \A s, i : HomeList!RemoveAt(s, i) = RemoveAt(s, i)
BY DEF HomeList!RemoveAt, RemoveAt

LEMMA HomeFinite == \A S : HomeList!IsFiniteSet(S) <=> IsFiniteSet(S)
BY DEF HomeList!IsFiniteSet, IsFiniteSet

LEMMA HomeCardinality == \A S : HomeList!Cardinality(S) = Cardinality(S)
BY DEF HomeList!Cardinality, Cardinality

\* What the loop builds.
LEMMA HomeBuilt ==
    ASSUME HomeList!ConstantsAssumption,
           NEW all \in SUBSET Categories, NEW skip \in SUBSET Categories
    PROVE  /\ HomeList!Built(all, skip) \in HomeList!Lists
           /\ \A c \in all \ skip : HomeList!Built(all, skip)[c] >= 1
           /\ Cardinality(skip) <= 1 =>
                 \A c \in Categories :
                     HomeList!Built(all, skip)[c] = IF c \in all \ skip THEN 1 ELSE 0
<1>1. IsFiniteSet(Categories) /\ IsFiniteSet(skip)
  <2>1. IsFiniteSet(Categories)
    BY HomeFinite DEF HomeList!ConstantsAssumption
  <2> QED
    BY <2>1, FS_Subset
<1>2. \A c \in Categories :
         /\ Cardinality(skip \ {c}) \in Nat /\ Cardinality(skip) \in Nat
         /\ Cardinality(Categories) \in Nat
         /\ Cardinality(skip \ {c}) <= Cardinality(Categories)
         /\ c \in skip => Cardinality(skip \ {c}) = Cardinality(skip) - 1
         /\ c \notin skip => Cardinality(skip \ {c}) = Cardinality(skip)
  <2> SUFFICES ASSUME NEW c \in Categories
               PROVE  /\ Cardinality(skip \ {c}) \in Nat /\ Cardinality(skip) \in Nat
                      /\ Cardinality(Categories) \in Nat
                      /\ Cardinality(skip \ {c}) <= Cardinality(Categories)
                      /\ c \in skip => Cardinality(skip \ {c}) = Cardinality(skip) - 1
                      /\ c \notin skip => Cardinality(skip \ {c}) = Cardinality(skip)
    OBVIOUS
  <2>1. Cardinality(skip) \in Nat /\ Cardinality(Categories) \in Nat
    BY <1>1, FS_CardinalityType
  <2>2. /\ IsFiniteSet(skip \ {c})
        /\ Cardinality(skip \ {c}) = IF c \in skip THEN Cardinality(skip) - 1 ELSE Cardinality(skip)
    BY <1>1, FS_RemoveElement
  <2>3. Cardinality(skip \ {c}) \in Nat
    BY <2>2, FS_CardinalityType
  <2>4. Cardinality(skip \ {c}) <= Cardinality(Categories)
    <3>1. skip \ {c} \in SUBSET Categories
      OBVIOUS
    <3> QED
      BY <1>1, <3>1, FS_Subset
  <2> QED
    BY <2>1, <2>2, <2>3, <2>4
<1>3. /\ skip # {} => Cardinality(skip) # 0
      /\ Categories # {} => Cardinality(Categories) # 0
  BY <1>1, FS_EmptySet
<1>4. \A c \in Categories :
         HomeList!Built(all, skip)[c] =
             IF c \notin all THEN 0 ELSE IF skip = {} THEN 1 ELSE Cardinality(skip \ {c})
  BY HomeCardinality DEF HomeList!Built
<1>5. HomeList!Built(all, skip) \in HomeList!Lists
  <2>1. \A c \in Categories :
           (IF c \notin all THEN 0 ELSE IF skip = {} THEN 1 ELSE Cardinality(skip \ {c}))
               \in 0 .. Cardinality(Categories)
    <3> SUFFICES ASSUME NEW c \in Categories
                 PROVE  (IF c \notin all THEN 0
                         ELSE IF skip = {} THEN 1 ELSE Cardinality(skip \ {c}))
                            \in 0 .. Cardinality(Categories)
      OBVIOUS
    <3> QED
      BY <1>2, <1>3
  <2> QED
    BY <2>1, HomeCardinality DEF HomeList!Built, HomeList!Lists
<1>6. \A c \in all \ skip : HomeList!Built(all, skip)[c] >= 1
  <2> SUFFICES ASSUME NEW c \in all \ skip PROVE HomeList!Built(all, skip)[c] >= 1
    OBVIOUS
  <2>1. HomeList!Built(all, skip)[c] = IF skip = {} THEN 1 ELSE Cardinality(skip)
    BY <1>2, <1>4
  <2> QED
    BY <1>2, <1>3, <2>1
<1>7. ASSUME Cardinality(skip) <= 1, NEW c \in Categories
      PROVE  HomeList!Built(all, skip)[c] = IF c \in all \ skip THEN 1 ELSE 0
  <2>1. c \in skip => Cardinality(skip \ {c}) = 0
    BY <1>2, <1>7
  <2>2. c \notin skip /\ skip # {} => Cardinality(skip \ {c}) = 1
    BY <1>2, <1>3, <1>7
  <2> QED
    BY <1>4, <2>1, <2>2
<1> QED
  BY <1>5, <1>6, <1>7

\* An answer leaves a sequence of the other requests.
LEMMA HomeRemoves ==
    ASSUME HomeList!ConstantsAssumption, HomeList!TypeOK, NEW i \in DOMAIN requests,
           requests' = HomeList!RemoveAt(requests, i)
    PROVE  /\ requests' \in Seq(HomeList!Request) /\ Len(requests') <= MaxLookUps
           /\ \A k \in DOMAIN requests' : \E j \in DOMAIN requests :
                 j # i /\ requests'[k] = requests[j]
           /\ \A j \in DOMAIN requests :
                 j # i => \E k \in DOMAIN requests' : requests'[k] = requests[j]
<1>1. /\ requests \in Seq(HomeList!Request) /\ i \in 1 .. Len(requests)
      /\ Len(requests) <= MaxLookUps
  BY DEF HomeList!TypeOK
<1>2. requests' = RemoveAt(requests, i)
  BY HomeRemoveAt
<1>3. /\ requests' \in Seq(HomeList!Request)
      /\ DOMAIN requests' = 1 .. (Len(requests) - 1)
      /\ \A k \in 1 .. (Len(requests) - 1) :
            requests'[k] = IF k < i THEN requests[k] ELSE requests[k + 1]
  BY <1>1, <1>2, RemoveAtType, RemoveAtElements
<1>4. Len(requests') = Len(requests) - 1 /\ Len(requests) \in Nat
  BY <1>1, <1>3
<1>5. ASSUME NEW k \in DOMAIN requests'
      PROVE  \E j \in DOMAIN requests : j # i /\ requests'[k] = requests[j]
  BY <1>1, <1>3, <1>5
<1>6. ASSUME NEW j \in DOMAIN requests, j # i
      PROVE  \E k \in DOMAIN requests' : requests'[k] = requests[j]
  <2>1. CASE j < i
    BY <1>1, <1>3, <1>6, <2>1
  <2>2. CASE j > i
    <3>1. j - 1 \in 1 .. (Len(requests) - 1) /\ ~(j - 1 < i)
      BY <1>1, <2>2
    <3>2. (j - 1) + 1 = j
      BY <1>1
    <3>3. requests'[j - 1] = requests[(j - 1) + 1]
      BY <1>3, <3>1
    <3> QED
      BY <1>3, <3>1, <3>2, <3>3
  <2> QED
    BY <1>1, <1>6, <2>1, <2>2
<1>7. Len(requests') <= MaxLookUps
  <2>1. MaxLookUps \in Nat
    BY DEF HomeList!ConstantsAssumption
  <2> QED
    BY <1>1, <1>4, <2>1
<1> QED
  BY <1>3, <1>5, <1>6, <1>7

LEMMA HomeJoined ==
    ASSUME NEW S, NEW a \in Seq(S), NEW b \in Seq(S)
    PROVE  /\ a \o b \in Seq(S) /\ Len(a \o b) = Len(a) + Len(b)
           /\ \A k \in 1 .. Len(a) + Len(b) :
                 (a \o b)[k] = IF k <= Len(a) THEN a[k] ELSE b[k - Len(a)]
OBVIOUS

\* The look-up of categories that a focus makes is the last request.
LEMMA HomeAsks ==
    ASSUME HomeList!ConstantsAssumption, HomeList!TypeOK, NEW times \in {1, 2},
           HomeList!Ask(times)
    PROVE  /\ requests' \in Seq(HomeList!Request) /\ Len(requests') <= MaxLookUps
           /\ focuses' \in 0 .. MaxFocus
           /\ \A k \in DOMAIN requests' :
                 \/ requests'[k].kind = "settings"
                 \/ requests'[k].settings = settings
                 \/ \E j \in DOMAIN requests : requests'[k] = requests[j]
           /\ \E k \in DOMAIN requests' : requests'[k].kind = "categories"
<1> DEFINE both == <<HomeList!AskSettings, HomeList!AskCategories>>
           new == IF times = 1 THEN both
                  ELSE <<HomeList!AskCategories, HomeList!AskSettings>> \o both
<1>1. /\ requests \in Seq(HomeList!Request) /\ Len(requests) \in Nat
      /\ HomeList!AskSettings \in HomeList!Request
      /\ HomeList!AskCategories \in HomeList!Request
      /\ HomeList!AskSettings.kind = "settings" /\ HomeList!AskCategories.kind = "categories"
      /\ HomeList!AskCategories.settings = settings
  BY DEF HomeList!TypeOK, HomeList!Request, HomeList!AskSettings, HomeList!AskCategories
<1>2. /\ new \in Seq(HomeList!Request) /\ Len(new) = 2 * times
      /\ \A k \in 1 .. Len(new) :
            new[k] \in {HomeList!AskSettings, HomeList!AskCategories}
      /\ new[Len(new)] = HomeList!AskCategories
  <2>1. CASE times = 1
    BY <1>1, <2>1
  <2>2. CASE times = 2
    <3> DEFINE early == <<HomeList!AskCategories, HomeList!AskSettings>>
    <3>1. /\ early \in Seq(HomeList!Request) /\ both \in Seq(HomeList!Request)
          /\ Len(early) = 2 /\ Len(both) = 2
      BY <1>1
    <3>2. new = early \o both
      BY <2>2
    <3>3. /\ \A k \in {1, 2} : early[k] \in {HomeList!AskSettings, HomeList!AskCategories}
          /\ both[1] = HomeList!AskSettings /\ both[2] = HomeList!AskCategories
      OBVIOUS
    <3> HIDE DEF new, early, both
    <3>4. /\ new \in Seq(HomeList!Request) /\ Len(new) = Len(early) + Len(both)
          /\ \A k \in 1 .. Len(early) + Len(both) :
                new[k] = IF k <= Len(early) THEN early[k] ELSE both[k - Len(early)]
      BY <3>1, <3>2, HomeJoined
    <3>5. /\ Len(new) = 4
          /\ \A k \in 1 .. 4 : new[k] = IF k <= 2 THEN early[k] ELSE both[k - 2]
      BY <3>1, <3>4
    <3>6. \A k \in 1 .. 4 : k = 1 \/ k = 2 \/ k - 2 = 1 \/ k - 2 = 2
      OBVIOUS
    <3>7. \A k \in 1 .. 4 : new[k] \in {HomeList!AskSettings, HomeList!AskCategories}
      BY <3>3, <3>5, <3>6
    <3>8. new[4] = both[2]
      <4>1. 4 \in 1 .. 4 /\ ~(4 <= 2) /\ 4 - 2 = 2
        OBVIOUS
      <4>2. new[4] = IF 4 <= 2 THEN early[4] ELSE both[4 - 2]
        BY <3>5, <4>1
      <4> QED
        BY <4>1, <4>2
    <3>9. new[Len(new)] = HomeList!AskCategories
      BY <3>3, <3>5, <3>8
    <3>10. Len(new) = 2 * times
      BY <2>2, <3>5
    <3>11. \A k \in 1 .. Len(new) : new[k] \in {HomeList!AskSettings, HomeList!AskCategories}
      BY <3>5, <3>7
    <3> QED
      BY <3>4, <3>9, <3>10, <3>11
  <2> QED
    BY <2>1, <2>2
<1>3. /\ requests' = requests \o new /\ Len(requests) + 2 * times <= MaxLookUps
      /\ focuses < MaxFocus /\ focuses' = focuses + 1
  BY DEF HomeList!Ask
<1> HIDE DEF new
<1>4. /\ requests' \in Seq(HomeList!Request) /\ Len(requests') = Len(requests) + Len(new)
      /\ \A k \in 1 .. Len(requests') :
            requests'[k] = IF k <= Len(requests) THEN requests[k] ELSE new[k - Len(requests)]
  BY <1>1, <1>2, <1>3
<1>5. DOMAIN requests' = 1 .. Len(requests') /\ DOMAIN requests = 1 .. Len(requests)
  BY <1>1, <1>4
<1>6. ASSUME NEW k \in DOMAIN requests'
      PROVE  \/ requests'[k].kind = "settings"
             \/ requests'[k].settings = settings
             \/ \E j \in DOMAIN requests : requests'[k] = requests[j]
  <2>1. CASE k <= Len(requests)
    BY <1>1, <1>4, <1>5, <2>1
  <2>2. CASE ~(k <= Len(requests))
    <3>1. requests'[k] = new[k - Len(requests)] /\ k - Len(requests) \in 1 .. Len(new)
      BY <1>1, <1>2, <1>4, <1>5, <2>2
    <3> QED
      BY <1>1, <1>2, <3>1
  <2> QED
    BY <2>1, <2>2
<1>7. requests'[Len(requests')].kind = "categories" /\ Len(requests') \in DOMAIN requests'
  <2>1. /\ Len(requests') \in 1 .. Len(requests') /\ ~(Len(requests') <= Len(requests))
        /\ Len(requests') - Len(requests) = Len(new)
    BY <1>1, <1>2, <1>4
  <2> QED
    BY <1>1, <1>2, <1>4, <1>5, <2>1
<1>8. Len(requests') <= MaxLookUps /\ focuses' \in 0 .. MaxFocus
  <2>1. focuses \in 0 .. MaxFocus /\ MaxFocus \in Nat /\ MaxLookUps \in Nat
    BY DEF HomeList!TypeOK, HomeList!ConstantsAssumption
  <2> QED
    BY <1>1, <1>2, <1>3, <1>4, <2>1
<1> QED
  BY <1>4, <1>6, <1>7, <1>8

\* Unless something happened that the property excepts, the settings were known,
\* every look-up was made with them, and one is in flight or they were followed.
HomeFollowed ==
    IF present = {} THEN hide
    ELSE ~spinner /\ taxonomy = categories /\ categories = HomeList!Built(present, hidden)

HomeSettled ==
    why = {} /\ tab # "preloader" =>
        /\ settings = hidden
        /\ \A i \in DOMAIN requests :
              requests[i].kind = "categories" => requests[i].settings = hidden
        /\ (\E i \in DOMAIN requests : requests[i].kind = "categories") \/ HomeFollowed

HomeInv == HomeList!TypeOK /\ HomeSettled

LEMMA HomeInit == ASSUME HomeList!ConstantsAssumption, HomeList!Init PROVE HomeInv
<1>1. /\ HomeList!Empty \in HomeList!Lists
      /\ \A s \in SUBSET Categories : HomeList!Built(Categories, s) \in HomeList!Lists
  <2>1. Cardinality(Categories) \in Nat
    BY HomeFinite, FS_CardinalityType DEF HomeList!ConstantsAssumption
  <2>2. HomeList!Empty \in HomeList!Lists
    BY <2>1, HomeCardinality DEF HomeList!Empty, HomeList!Lists
  <2> QED
    BY <2>2, HomeBuilt
<1>2. requests \in Seq(HomeList!Request) /\ Len(requests) = 1
  <2>1. HomeList!AskSettings \in HomeList!Request
    BY DEF HomeList!Request, HomeList!AskSettings
  <2> QED
    BY <2>1 DEF HomeList!Init
<1>3. HomeSettled
  BY DEF HomeList!Init, HomeSettled
<1>4. 1 <= MaxLookUps /\ focuses \in 0 .. MaxFocus
  BY DEF HomeList!Init, HomeList!ConstantsAssumption
<1>5. HomeList!TypeOK
  BY <1>1, <1>2, <1>4 DEF HomeList!Init, HomeList!TypeOK
<1> QED
  BY <1>3, <1>5 DEF HomeInv

LEMMA HomeAskInv ==
    ASSUME HomeList!ConstantsAssumption, HomeInv, NEW times \in {1, 2}, HomeList!Ask(times),
           tab' = "home", times = 1 => tab # "preloader",
           UNCHANGED <<present, hidden, settings, taxonomy, categories, spinner, hide>>
    PROVE  HomeInv'
<1>1. /\ requests' \in Seq(HomeList!Request) /\ Len(requests') <= MaxLookUps
      /\ focuses' \in 0 .. MaxFocus
      /\ \A k \in DOMAIN requests' :
            \/ requests'[k].kind = "settings"
            \/ requests'[k].settings = settings
            \/ \E j \in DOMAIN requests : requests'[k] = requests[j]
      /\ \E k \in DOMAIN requests' : requests'[k].kind = "categories"
  BY HomeAsks DEF HomeInv
<1>2. why' = (IF settings = hidden THEN {} ELSE {"unknown"})
                 \union (IF \E i \in DOMAIN requests :
                                requests[i].kind = "categories" /\ requests[i].settings # hidden
                         THEN {"overtaken"} ELSE {})
  BY DEF HomeList!Ask
<1>3. HomeList!TypeOK'
  <2>1. why' \subseteq {"unknown", "overtaken", "failed"}
    BY <1>2
  <2> QED
    BY <1>1, <2>1 DEF HomeInv, HomeList!TypeOK
<1>4. ASSUME why' = {}
      PROVE  /\ settings = hidden
             /\ \A i \in DOMAIN requests :
                   requests[i].kind = "categories" => requests[i].settings = hidden
  BY <1>2, <1>4
<1>5. HomeSettled'
  <2> SUFFICES ASSUME why' = {}
               PROVE  /\ settings' = hidden'
                      /\ \A i \in DOMAIN requests' :
                            requests'[i].kind = "categories" => requests'[i].settings = hidden'
                      /\ \E i \in DOMAIN requests' : requests'[i].kind = "categories"
    BY DEF HomeSettled
  <2>1. settings' = hidden' /\ hidden' = hidden
    BY <1>4
  <2>2. ASSUME NEW i \in DOMAIN requests', requests'[i].kind = "categories"
        PROVE  requests'[i].settings = hidden
    BY <1>1, <1>4, <2>2
  <2> QED
    BY <1>1, <2>1, <2>2
<1> QED
  BY <1>3, <1>5 DEF HomeInv

\* The answer of the settings.
LEMMA HomeSettingsInv ==
    ASSUME HomeInv, NEW i \in DOMAIN requests, HomeList!DeliverSettings(i)
    PROVE  HomeInv'
<1>1. /\ requests' \in Seq(HomeList!Request) /\ Len(requests') <= MaxLookUps
      /\ \A k \in DOMAIN requests' : \E j \in DOMAIN requests :
            j # i /\ requests'[k] = requests[j]
      /\ \A j \in DOMAIN requests :
            j # i => \E k \in DOMAIN requests' : requests'[k] = requests[j]
  BY HomeRemoves, HomeAssumption DEF HomeInv, HomeList!DeliverSettings
<1>2. /\ requests[i].kind = "settings" /\ settings' = hidden
      /\ UNCHANGED <<present, hidden, taxonomy, tab, categories, spinner, hide, focuses, why>>
  BY DEF HomeList!DeliverSettings
<1>3. HomeList!TypeOK'
  BY <1>1, <1>2 DEF HomeInv, HomeList!TypeOK
<1>4. HomeSettled'
  <2> SUFFICES ASSUME why = {}, tab # "preloader"
               PROVE  /\ \A k \in DOMAIN requests' :
                            requests'[k].kind = "categories" => requests'[k].settings = hidden
                      /\ (\E k \in DOMAIN requests' : requests'[k].kind = "categories")
                         \/ HomeFollowed'
    BY <1>2 DEF HomeSettled
  <2>1. /\ \A j \in DOMAIN requests :
              requests[j].kind = "categories" => requests[j].settings = hidden
        /\ (\E j \in DOMAIN requests : requests[j].kind = "categories") \/ HomeFollowed
    BY DEF HomeInv, HomeSettled
  <2>2. HomeFollowed => HomeFollowed'
    BY <1>2 DEF HomeFollowed, HomeList!Built
  <2>3. ASSUME NEW j \in DOMAIN requests, requests[j].kind = "categories"
        PROVE  \E k \in DOMAIN requests' : requests'[k].kind = "categories"
    BY <1>1, <1>2, <2>3
  <2>4. ASSUME NEW k \in DOMAIN requests', requests'[k].kind = "categories"
        PROVE  requests'[k].settings = hidden
    BY <1>1, <2>1, <2>4
  <2> QED
    BY <2>1, <2>2, <2>3, <2>4
<1> QED
  BY <1>3, <1>4 DEF HomeInv

\* The answer of the categories: the settings of its render are the server's.
LEMMA HomeCategoriesInv ==
    ASSUME HomeList!ConstantsAssumption, HomeInv, NEW i \in DOMAIN requests,
           HomeList!DeliverCategories(i)
    PROVE  HomeInv'
<1>1. /\ requests' \in Seq(HomeList!Request) /\ Len(requests') <= MaxLookUps
      /\ \A k \in DOMAIN requests' : \E j \in DOMAIN requests :
            j # i /\ requests'[k] = requests[j]
  BY HomeRemoves, HomeAssumption DEF HomeInv, HomeList!DeliverCategories
<1>2. /\ requests[i].kind = "categories"
      /\ UNCHANGED <<present, hidden, settings, tab, focuses, why>>
  BY DEF HomeList!DeliverCategories
<1>3. /\ requests[i] \in HomeList!Request /\ present \in SUBSET Categories
      /\ hidden \in SUBSET Categories
  BY DEF HomeInv, HomeList!TypeOK
<1>4. \/ present = {} /\ hide' = TRUE /\ UNCHANGED <<categories, taxonomy, spinner>>
      \/ /\ present # {} /\ requests[i].settings = none
         /\ UNCHANGED <<categories, taxonomy, spinner, hide>>
      \/ /\ present # {} /\ requests[i].settings # none
         /\ categories' = HomeList!Built(present, requests[i].settings)
         /\ taxonomy' = categories' /\ spinner' = FALSE /\ UNCHANGED hide
  BY DEF HomeList!DeliverCategories
<1>5. HomeList!TypeOK'
  <2>1. /\ taxonomy \in HomeList!Lists /\ categories \in HomeList!Lists
        /\ spinner \in BOOLEAN /\ hide \in BOOLEAN
    BY DEF HomeInv, HomeList!TypeOK
  <2>2. requests[i].settings # none => requests[i].settings \in SUBSET Categories
    BY <1>3 DEF HomeList!Request
  <2>3. /\ taxonomy' \in HomeList!Lists /\ categories' \in HomeList!Lists
        /\ spinner' \in BOOLEAN /\ hide' \in BOOLEAN
    <3>1. CASE present # {} /\ requests[i].settings # none
      <4>1. HomeList!Built(present, requests[i].settings) \in HomeList!Lists
        <5>1. \A skip \in SUBSET Categories :
                 HomeList!Built(present, skip) \in HomeList!Lists
          BY <1>3, HomeBuilt
        <5> QED
          BY <2>2, <3>1, <5>1
      <4>2. /\ categories' = HomeList!Built(present, requests[i].settings)
            /\ taxonomy' = categories' /\ spinner' = FALSE /\ hide' = hide
        BY <1>4, <3>1
      <4>3. taxonomy' \in HomeList!Lists /\ categories' \in HomeList!Lists
        BY <4>1, <4>2
      <4>4. spinner' \in BOOLEAN
        BY <4>2
      <4>5. hide' \in BOOLEAN
        BY <2>1, <4>2
      <4> QED
        BY <4>3, <4>4, <4>5
    <3>2. CASE ~(present # {} /\ requests[i].settings # none)
      <4>1. /\ categories' = categories /\ taxonomy' = taxonomy /\ spinner' = spinner
            /\ hide' \in {TRUE, hide}
        BY <1>4, <3>2
      <4> QED
        BY <2>1, <4>1
    <3> QED
      BY <3>1, <3>2
  <2> QED
    BY <1>1, <1>2, <2>3 DEF HomeInv, HomeList!TypeOK
<1>6. HomeSettled'
  <2> SUFFICES ASSUME why = {}, tab # "preloader"
               PROVE  /\ settings = hidden
                      /\ \A k \in DOMAIN requests' :
                            requests'[k].kind = "categories" => requests'[k].settings = hidden
                      /\ HomeFollowed'
    BY <1>2 DEF HomeSettled
  <2>1. /\ settings = hidden
        /\ \A j \in DOMAIN requests :
              requests[j].kind = "categories" => requests[j].settings = hidden
    BY DEF HomeInv, HomeSettled
  <2>2. requests[i].settings = hidden /\ hidden # none
    BY <1>2, <1>3, <2>1 DEF HomeList!ConstantsAssumption
  <2>3. HomeFollowed'
    <3>1. CASE present = {}
      BY <1>2, <1>4, <3>1 DEF HomeFollowed
    <3>2. CASE present # {}
      <4>1. /\ categories' = HomeList!Built(present, hidden)
            /\ taxonomy' = categories' /\ spinner' = FALSE
        BY <1>4, <2>2, <3>2
      <4>2. HomeList!Built(present, hidden)' = HomeList!Built(present, hidden)
        BY <1>2 DEF HomeList!Built
      <4> QED
        BY <1>2, <3>2, <4>1, <4>2 DEF HomeFollowed
    <3> QED
      BY <3>1, <3>2
  <2> QED
    BY <1>1, <2>1, <2>3
<1> QED
  BY <1>5, <1>6 DEF HomeInv

LEMMA HomeFailInv ==
    ASSUME HomeInv, NEW i \in DOMAIN requests, HomeList!Fail(i) PROVE HomeInv'
<1>1. /\ requests' \in Seq(HomeList!Request) /\ Len(requests') <= MaxLookUps
      /\ \A k \in DOMAIN requests' : \E j \in DOMAIN requests :
            j # i /\ requests'[k] = requests[j]
      /\ \A j \in DOMAIN requests :
            j # i => \E k \in DOMAIN requests' : requests'[k] = requests[j]
  BY HomeRemoves, HomeAssumption DEF HomeInv, HomeList!Fail
<1>2. /\ why' = IF requests[i].kind = "categories" THEN why \union {"failed"} ELSE why
      /\ UNCHANGED <<present, hidden, settings, taxonomy, tab, categories, spinner, hide,
                     focuses>>
  BY DEF HomeList!Fail
<1>3. HomeList!TypeOK'
  <2>1. why' \subseteq {"unknown", "overtaken", "failed"}
    BY <1>2 DEF HomeInv, HomeList!TypeOK
  <2> QED
    BY <1>1, <1>2, <2>1 DEF HomeInv, HomeList!TypeOK
<1>4. HomeSettled'
  <2> SUFFICES ASSUME why' = {}, tab # "preloader"
               PROVE  /\ settings = hidden
                      /\ \A k \in DOMAIN requests' :
                            requests'[k].kind = "categories" => requests'[k].settings = hidden
                      /\ (\E k \in DOMAIN requests' : requests'[k].kind = "categories")
                         \/ HomeFollowed'
    BY <1>2 DEF HomeSettled
  <2>1. requests[i].kind # "categories" /\ why = {}
    BY <1>2
  <2>2. /\ settings = hidden
        /\ \A j \in DOMAIN requests :
              requests[j].kind = "categories" => requests[j].settings = hidden
        /\ (\E j \in DOMAIN requests : requests[j].kind = "categories") \/ HomeFollowed
    BY <2>1 DEF HomeInv, HomeSettled
  <2>3. HomeFollowed => HomeFollowed'
    BY <1>2 DEF HomeFollowed, HomeList!Built
  <2>4. ASSUME NEW j \in DOMAIN requests, requests[j].kind = "categories"
        PROVE  \E k \in DOMAIN requests' : requests'[k].kind = "categories"
    BY <1>1, <2>1, <2>4
  <2>5. ASSUME NEW k \in DOMAIN requests', requests'[k].kind = "categories"
        PROVE  requests'[k].settings = hidden
    BY <1>1, <2>2, <2>5
  <2> QED
    BY <2>2, <2>3, <2>4, <2>5
<1> QED
  BY <1>3, <1>4 DEF HomeInv

LEMMA HomeStep ==
    ASSUME HomeList!ConstantsAssumption, HomeInv, [HomeList!Next]_(HomeList!vars)
    PROVE  HomeInv'
<1>1. CASE HomeList!Mount
  BY <1>1, HomeAskInv DEF HomeList!Mount
<1>2. CASE HomeList!Focus
  BY <1>2, HomeAskInv DEF HomeList!Focus
<1>3. ASSUME NEW i \in DOMAIN requests,
             HomeList!DeliverSettings(i) \/ HomeList!DeliverCategories(i) \/ HomeList!Fail(i)
      PROVE  HomeInv'
  BY <1>3, HomeSettingsInv, HomeCategoriesInv, HomeFailInv
<1>4. CASE HomeList!Leave \/ UNCHANGED HomeList!vars
  <2>1. /\ UNCHANGED <<present, hidden, settings, taxonomy, categories, spinner, hide, requests,
                       focuses, why>>
        /\ UNCHANGED tab \/ (tab = "home" /\ tab' = "away")
    BY <1>4 DEF HomeList!Leave, HomeList!vars
  <2>2. HomeList!TypeOK'
    BY <2>1 DEF HomeInv, HomeList!TypeOK
  <2>3. HomeSettled'
    BY <2>1 DEF HomeInv, HomeSettled, HomeFollowed, HomeList!Built
  <2> QED
    BY <2>2, <2>3 DEF HomeInv
<1> QED
  BY <1>1, <1>2, <1>3, <1>4 DEF HomeList!Next

LEMMA HomeAlways == HomeList!Spec => []HomeInv
BY HomeInit, HomeStep, HomeAssumption, PTL DEF HomeList!Spec

\* Type correctness of Home's categories: the lists count every category, and the
\* requests carry the settings of a render.
THEOREM HomeTypeCorrect == HomeList!Spec => []HomeList!TypeOK
BY HomeAlways, PTL DEF HomeInv

\* Once no look-up is in flight, what getCategories built is of the categories and
\* settings of the server: every category that is not hidden is offered, and just
\* these, once each, when one or none is hidden, with the exceptions named.
THEOREM CategoriesFollow == HomeList!Spec => []CategoriesShown
<1>1. ASSUME HomeInv PROVE CategoriesShown
  <2>1. present \in SUBSET Categories /\ hidden \in SUBSET Categories
    BY <1>1 DEF HomeInv, HomeList!TypeOK
  <2>2. /\ \A c \in present \ hidden : HomeList!Built(present, hidden)[c] >= 1
        /\ Cardinality(hidden) <= 1 =>
              \A c \in Categories :
                  HomeList!Built(present, hidden)[c] = IF c \in present \ hidden THEN 1 ELSE 0
    BY <2>1, HomeBuilt, HomeAssumption
  <2>3. ASSUME tab # "preloader", HomeList!Asked("categories") = {}, why = {}
        PROVE  HomeFollowed
    BY <1>1, <2>3 DEF HomeInv, HomeSettled, HomeList!Asked
  <2> QED
    BY <2>2, <2>3, HomeCardinality DEF CategoriesShown, HomeList!CategoriesShown, HomeFollowed
<1> QED
  BY <1>1, HomeAlways, PTL
=============================================================================
