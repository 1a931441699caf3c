----------------------- MODULE ProjectActivityProofs -----------------------
(***************************************************************************)
(* Proofs about ProjectActivity for any number of screens, proposals and   *)
(* milestones, any bounds, and a network that loses and reorders anything. *)
(*                                                                         *)
(* Three inductive invariants, each resting on the one before.  Real:      *)
(* everything the program acts on is backed by the history `was` of the    *)
(* server: the rows of the screens, the boards in flight, and the rows     *)
(* behind every write in flight.  OneProposal: rows and requests belong to *)
(* the proposal of their screen.  Tracked: no milestone has two rows, and  *)
(* the rows of a screen that alone writes are the server's, or will be by  *)
(* the answers it is still owed.                                           *)
(*                                                                         *)
(* From `The shapes of the steps' on, a step of the program is replaced by *)
(* what it does to the rows, the overlay and the requests: Looks, Asks or  *)
(* Reloads for a user, Delivers, Fails and Serves for the network.         *)
(***************************************************************************)
EXTENDS ProjectActivity, TLAPS, WellFoundedInduction

\* Every row shows a status that its milestone had at some time.
RealRows(rows, w) == \A row \in rows : row.status \in w[row.key]

\* A screen holds real rows only, and its dialogs act on real rows.
RealScreen(u, w) ==
    /\ u \in Screen
    /\ RealRows(u.rows, w)
    /\ RealRows(u.painted, w)
    /\ RealRows(u.declineItem, w)
    /\ \A row \in u.declineItem : row.status = "requested"
    /\ "wallet" \in u.open => u.escrowKey \in Milestones /\ "" \in w[u.escrowKey]

\* A request asks for a status that one of its milestones' past leads to.
RealMessage(m, w) ==
    /\ m \in Message
    /\ RealRows(m.board, w)
    /\ m.kind \in {"status", "pay"} =>
          \A k \in m.keys : w[k] \intersect Contract!Before(m.status) # {}
    /\ m.kind = "checkout" => \A k \in m.keys : "" \in w[k]
    /\ m.kind = "add" /\ m.stage = "ok" => \A k \in m.keys : "" \in w[k]

RealServer ==
    /\ \A k \in Milestones : status[k] # Absent => status[k] \in was[k]
    /\ \A k \in Milestones : listed[k] # Absent => listed[k] \in was[k]
    /\ \A k \in unpaid : "" \in was[k]

Real ==
    /\ TypeOK
    /\ \A s \in Screens : RealScreen(ui[s], was)
    /\ \A m \in net : RealMessage(m, was)
    /\ RealServer
    /\ CausalLifecycle

-----------------------------------------------------------------------------
(* The setState operators keep a screen real.                              *)

LEMMA RenderReal ==
    ASSUME NEW u, NEW w, RealScreen(u, w)
    PROVE  RealScreen(Render(u), w)
  BY DEF RealScreen, Render, Screen

LEMMA RefillReal ==
    ASSUME NEW u, NEW w, RealScreen(u, w),
           NEW rows \in SUBSET Row, RealRows(rows, w)
    PROVE  RealScreen(Refill(u, rows), w)
  BY DEF RealScreen, Refill, Screen

LEMMA SetterReal ==
    ASSUME NEW u, NEW w, RealScreen(u, w), NEW b \in BOOLEAN
    PROVE  /\ RealScreen(SetLoader(u, b), w)
           /\ RealScreen(SetLoading(u, b), w)
           /\ RealScreen(SetRefreshList(u, b), w)
<1>1. RealScreen([u EXCEPT !.loader = b], w)
  BY DEF RealScreen, Screen
<1>2. RealScreen([u EXCEPT !.loading = b], w)
  BY DEF RealScreen, Screen
<1>3. RealScreen([u EXCEPT !.refreshList = b], w)
  BY DEF RealScreen, Screen
<1>4. QED
  BY <1>1, <1>2, <1>3, RenderReal DEF SetLoader, SetLoading, SetRefreshList

LEMMA ModalReal ==
    ASSUME NEW u, NEW w, RealScreen(u, w), NEW d \in Modals
    PROVE  /\ d # "wallet" => RealScreen(OpenDialog(u, d), w)
           /\ d # "wallet" => RealScreen(OpenSheet(u, d), w)
           /\ RealScreen(CloseDialog(u, d), w)
           /\ RealScreen(CloseSheet(u, d), w)
<1>1. d # "wallet" => RealScreen([u EXCEPT !.open = @ \union {d}], w)
  BY DEF RealScreen, Screen
<1>2. RealScreen([u EXCEPT !.open = @ \ {d}], w)
  BY DEF RealScreen, Screen
<1>3. QED
  BY <1>1, <1>2, RenderReal DEF OpenDialog, OpenSheet, CloseDialog, CloseSheet

\* What the server or a listing shows is real when its statuses are.
LEMMA BoardReal ==
    ASSUME NEW st \in [Milestones -> Status \union {Absent}], NEW p, NEW w,
           \A k \in Milestones : st[k] # Absent => st[k] \in w[k]
    PROVE  /\ Board(st, p) \in SUBSET Row
           /\ RealRows(Board(st, p), w)
  BY DEF Board, Row, RealRows

\* Rows stay real while the history grows.
LEMMA RealGrows ==
    ASSUME NEW w \in [Milestones -> SUBSET Status],
           NEW v \in [Milestones -> SUBSET Status],
           \A k \in Milestones : w[k] \subseteq v[k]
    PROVE  /\ \A u : RealScreen(u, w) => RealScreen(u, v)
           /\ \A m : RealMessage(m, w) => RealMessage(m, v)
<1>1. ASSUME NEW rows \in SUBSET Row, RealRows(rows, w)
      PROVE  RealRows(rows, v)
  BY <1>1 DEF RealRows, Row
<1>2. \A u : RealScreen(u, w) => RealScreen(u, v)
  BY <1>1 DEF RealScreen, Screen
<1>3. \A m : RealMessage(m, w) => RealMessage(m, v)
  BY <1>1 DEF RealMessage, Message
<1>4. QED
  BY <1>2, <1>3

-----------------------------------------------------------------------------
(* Requests                                                                *)

LEMMA NextIdNat ==
    ASSUME NEW ms \in SUBSET Message, NEW s PROVE NextId(ms, s) \in Nat
<1> DEFINE ids    == {m.id : m \in {m \in ms : m.from = s}}
           newest == {i \in ids : \A j \in ids : j <= i}
<1>1. ids \subseteq Nat
  BY DEF Message
<1>2. NextId(ms, s) = IF newest = {} THEN 1 ELSE 1 + CHOOSE i \in newest : TRUE
  BY DEF NextId
<1>3. newest # {} => (CHOOSE i \in newest : TRUE) \in newest
  OBVIOUS
<1>4. newest \subseteq Nat
  BY <1>1
<1>5. CASE newest = {}
  BY <1>2, <1>5
<1>6. CASE newest # {}
  <2>1. NextId(ms, s) = 1 + CHOOSE i \in newest : TRUE
    BY <1>2, <1>6
  <2>2. (CHOOSE i \in newest : TRUE) \in Nat
    BY <1>3, <1>4, <1>6
  <2> HIDE DEF newest
  <2>3. QED
    BY <2>1, <2>2
<1>7. QED
  BY <1>5, <1>6

LEMMA RequestReal ==
    ASSUME NEW ms \in SUBSET Message, NEW s \in Screens, NEW kind \in Kinds,
           NEW p \in Proposals, NEW keys \in SUBSET Milestones,
           NEW st \in Status, NEW r \in BOOLEAN, NEW w,
           kind \in {"status", "pay"} =>
              \A k \in keys : w[k] \intersect Contract!Before(st) # {},
           kind = "checkout" => \A k \in keys : "" \in w[k]
    PROVE  RealMessage(Request(ms, s, kind, p, keys, st, r), w)
<1>1. NextId(ms, s) \in Nat
  BY NextIdNat
<1>2. QED
  BY <1>1 DEF Request, RealMessage, Message, RealRows

LEMMA RefreshReal ==
    ASSUME NEW ms \in SUBSET Message, NEW s \in Screens,
           NEW p \in Proposals, NEW r \in BOOLEAN, NEW w,
           \A m \in ms : RealMessage(m, w)
    PROVE  \A m \in GetUpdatedAmounts(ms, s, p, r) : RealMessage(m, w)
<1>1. "" \in Status /\ "amounts" \in Kinds
  BY DEF Status, Contract!Status, Kinds
<1>2. RealMessage(Request(ms, s, "amounts", p, {}, "", r), w)
  BY <1>1, RequestReal
<1>3. QED
  BY <1>2 DEF GetUpdatedAmounts

-----------------------------------------------------------------------------
(* The initial states                                                      *)

LEMMA PastCausal ==
    ASSUME NEW st \in Status \union {Absent}
    PROVE  LET w == Contract!Past(st)
           IN  /\ w \in SUBSET Status
               /\ st # Absent => st \in w
               /\ w \intersect {"completed", "decline"} # {} => "requested" \in w
               /\ "requested" \in w => "hired" \in w
               /\ "hired" \in w => "" \in w
  BY DEF Contract!Past, Status, Contract!Status, Absent

LEMMA EffectReal ==
    ASSUME NEW u, NEW w, RealScreen(u, w),
           NEW l \in [Milestones -> Status \union {Absent}], l = listed,
           \A k \in Milestones : l[k] # Absent => l[k] \in w[k]
    PROVE  RealScreen(Effect(u), w)
<1> DEFINE filled == Refill(u, Board(listed, u.selected))
<1>1. RealScreen(filled, w)
  BY BoardReal, RefillReal
<1>2. RealScreen([filled EXCEPT !.completable = TRUE], w)
  <2> HIDE DEF filled
  <2> QED BY <1>1 DEF RealScreen, Screen
<1>3. RealScreen(Render([filled EXCEPT !.completable = TRUE]), w)
  BY <1>2, RenderReal
<1>4. QED
  BY <1>1, <1>3 DEF Effect

LEMMA InitReal == Init => Real
<1> SUFFICES ASSUME Init PROVE Real
  OBVIOUS
<1> USE ConstantsAssumption
<1>1. /\ status \in [Milestones -> Status \union {Absent}]
      /\ listed = status
      /\ was = [k \in Milestones |-> Contract!Past(status[k])]
  BY DEF Init
<1>2. \A k \in Milestones : status[k] \in Status \union {Absent}
  BY <1>1
<1>3. was \in [Milestones -> SUBSET Status]
  BY <1>1, <1>2, PastCausal
<1>4. \A k \in Milestones : status[k] # Absent => status[k] \in was[k]
  BY <1>1, <1>2, PastCausal
<1>5. CausalLifecycle
  BY <1>1, <1>2, PastCausal DEF CausalLifecycle, Contract!CausalLifecycle
<1>6. RealServer
  BY <1>1, <1>4 DEF RealServer, Init
<1>7. PICK sel \in [Screens -> Proposals], disputed \in SUBSET Proposals :
         /\ ui = [s \in Screens |-> Opened(s, sel[s], {}, disputed)]
         /\ net = UNION {GetUpdatedAmounts({}, s, sel[s], FALSE) : s \in Screens}
  BY DEF Init
<1>8. \A s \in Screens : RealScreen(Opened(s, sel[s], {}, disputed), was)
  <2> TAKE s \in Screens
  <2> DEFINE u == [selected |-> sel[s], rows |-> {}, painted |-> {},
                   refreshList |-> FALSE, loader |-> FALSE, loading |-> FALSE,
                   open |-> {}, focused |-> TRUE, declineItem |-> {},
                   escrowKey |-> NoKey, draft |-> 0, issue |-> FALSE,
                   completable |-> FALSE, ended |-> {}, disputed |-> disputed]
  <2>1. RealScreen(u, was)
    BY DEF RealScreen, Screen, RealRows
  <2>2. RealScreen(Effect(u), was)
    <3> HIDE DEF u
    <3> QED BY <2>1, <1>1, <1>4, EffectReal
  <2> QED BY <2>2 DEF Opened
<1>9. \A s \in Screens : RealScreen(ui[s], was) /\ ui[s] \in Screen
  BY <1>7, <1>8 DEF RealScreen
<1>10. \A m \in net : RealMessage(m, was)
  <2>1. \A s \in Screens : \A m \in GetUpdatedAmounts({}, s, sel[s], FALSE) :
            RealMessage(m, was)
    BY RefreshReal
  <2>2. QED
    BY <2>1, <1>7
<1>11. TypeOK
  <2>1. ui \in [Screens -> Screen]
    BY <1>7, <1>9
  <2>2. net \in SUBSET Message
    BY <1>10 DEF RealMessage
  <2>3. /\ taps \in [Screens -> Nat] /\ hist \in [Screens -> History]
        /\ unpaid \in SUBSET Milestones
    BY DEF Init, History
  <2>4. QED
    BY <2>1, <2>2, <2>3, <1>1, <1>3 DEF TypeOK
<1>12. QED
  BY <1>5, <1>6, <1>9, <1>10, <1>11 DEF Real

-----------------------------------------------------------------------------
(* A step of a user: its screen stays real, and the requests it adds are   *)
(* backed by the rows it was pressed on.                                   *)

UserShape(s) ==
    /\ \E u : RealScreen(u, was) /\ Update(s, u)
    /\ \A m \in net' : RealMessage(m, was)
    /\ ServerUnchanged
    /\ taps' \in [Screens -> Nat]
    /\ hist' \in [Screens -> History]

LEMMA ShapeTapped ==
    ASSUME NEW s \in Screens, Real, Tapped(s)
    PROVE  taps' \in [Screens -> Nat]
  BY DEF Real, TypeOK, Tapped

LEMMA ShapeUiOnly ==
    ASSUME NEW s \in Screens, Real, UiOnly, taps' \in [Screens -> Nat],
           NEW u, RealScreen(u, was), Update(s, u)
    PROVE  UserShape(s)
<1>1. \A m \in net' : RealMessage(m, was)
  BY DEF UiOnly, Real
<1>2. hist' \in [Screens -> History]
  BY DEF UiOnly, Real, TypeOK
<1>3. QED
  BY <1>1, <1>2 DEF UserShape, UiOnly

LEMMA SendReal ==
    ASSUME NEW s \in Screens, Real, NEW kind \in Kinds,
           NEW keys \in SUBSET Milestones, NEW st \in Status,
           kind \in {"status", "pay"} =>
              \A k \in keys : was[k] \intersect Contract!Before(st) # {},
           kind = "checkout" => \A k \in keys : "" \in was[k],
           Send(s, kind, keys, st)
    PROVE  \A m \in net' : RealMessage(m, was)
<1> DEFINE m == Request(net, s, kind, ui[s].selected, keys, st, ui[s].refreshList)
<1>1. /\ net \in SUBSET Message
      /\ ui[s].selected \in Proposals /\ ui[s].refreshList \in BOOLEAN
  <2>1. ui[s] \in Screen /\ net \in SUBSET Message
    BY DEF Real, TypeOK
  <2>2. QED
    BY <2>1 DEF Screen
<1>2. NextId(net, s) \in Nat
  BY <1>1, NextIdNat
<1>3. RealMessage(m, was)
  BY <1>1, <1>2 DEF Request, RealMessage, Message, RealRows
<1>4. net' = net \union {m}
  BY DEF Send
<1>5. \A x \in net : RealMessage(x, was)
  BY DEF Real
<1> HIDE DEF m
<1>6. QED
  BY <1>3, <1>4, <1>5

LEMMA ShapeSend ==
    ASSUME NEW s \in Screens, Real, taps' \in [Screens -> Nat],
           ServerUnchanged, hist' \in [Screens -> History],
           NEW u, RealScreen(u, was), Update(s, u),
           \A m \in net' : RealMessage(m, was)
    PROVE  UserShape(s)
  BY DEF UserShape

LEMMA ScreenFacts ==
    ASSUME Real, NEW s \in Screens
    PROVE  /\ RealScreen(ui[s], was) /\ ui[s] \in Screen
           /\ ui = [ui EXCEPT ![s] = ui[s]]
           /\ hist \in [Screens -> History]
           /\ \A d \in ui[s].open : d \in Modals
  BY DEF Real, TypeOK, RealScreen, Screen

LEMMA StatusFacts ==
    /\ {"", "hired", "requested", "decline", "completed"} = Status
    /\ Contract!Before("hired") = {""}
    /\ Contract!Before("requested") = {"hired", "decline"}
    /\ Contract!Before("decline") = {"requested"}
    /\ Contract!Before("completed") = {"requested"}
  BY DEF Contract!Before, Status, Contract!Status

-----------------------------------------------------------------------------
LEMMA TouchShape == ASSUME NEW s \in Screens, Real, Touch(s) PROVE UserShape(s)
<1>1. RealScreen(Render(ui[s]), was)
  BY ScreenFacts, RenderReal
<1>2. taps' \in [Screens -> Nat]
  BY DEF Touch, Real, TypeOK
<1>3. QED
  BY <1>1, <1>2, ShapeUiOnly DEF Touch

LEMMA EffectShape ==
    ASSUME NEW s \in Screens, Real, NEW u, RealScreen(u, was)
    PROVE  RealScreen(Effect(Render(u)), was)
<1>1. RealScreen(Render(u), was)
  BY RenderReal
<1>2. /\ listed \in [Milestones -> Status \union {Absent}]
      /\ \A k \in Milestones : listed[k] # Absent => listed[k] \in was[k]
  BY DEF Real, TypeOK, RealServer
<1>3. QED
  BY <1>1, <1>2, EffectReal

LEMMA RefreshShape ==
    ASSUME NEW s \in Screens, Real, NEW p \in Proposals,
           net' = GetUpdatedAmounts(net, s, p, ui[s].refreshList)
    PROVE  \A m \in net' : RealMessage(m, was)
<1>1. /\ ui[s].refreshList \in BOOLEAN /\ net \in SUBSET Message
      /\ \A m \in net : RealMessage(m, was)
  BY DEF Real, TypeOK, Screen
<1>2. QED
  BY <1>1, RefreshReal

LEMMA SetSelectedItemShape ==
    ASSUME NEW s \in Screens, Real, NEW p \in Proposals, SetSelectedItem(s, p)
    PROVE  UserShape(s)
<1>1. RealScreen([ui[s] EXCEPT !.selected = p], was)
  BY ScreenFacts DEF RealScreen, Screen
<1>2. RealScreen(Effect(Render([ui[s] EXCEPT !.selected = p])), was)
  BY <1>1, EffectShape
<1>3. \A m \in net' : RealMessage(m, was)
  BY RefreshShape DEF SetSelectedItem
<1>4. QED
  BY <1>2, <1>3, ShapeTapped, ShapeSend, ScreenFacts DEF SetSelectedItem

LEMMA RefocusShape == ASSUME NEW s \in Screens, Real, Refocus(s) PROVE UserShape(s)
<1>1. RealScreen([ui[s] EXCEPT !.focused = TRUE], was)
  BY ScreenFacts DEF RealScreen, Screen
<1>2. RealScreen(Effect(Render([ui[s] EXCEPT !.focused = TRUE])), was)
  BY <1>1, EffectShape
<1>3. ui[s].selected \in Proposals
  BY ScreenFacts DEF Screen
<1>4. \A m \in net' : RealMessage(m, was)
  BY <1>3, RefreshShape DEF Refocus
<1>5. taps' \in [Screens -> Nat]
  BY DEF Refocus, Real, TypeOK
<1>6. QED
  BY <1>2, <1>4, <1>5, ShapeSend, ScreenFacts DEF Refocus

\* updateMileStoneStatus on a row whose status leads to the one asked for.
LEMMA StatusShape ==
    ASSUME NEW s \in Screens, Real, NEW row \in Row, row.status \in was[row.key],
           NEW type \in Status, row.status \in Contract!Before(type),
           UpdateMileStoneStatus(s, row, type)
    PROVE  UserShape(s)
<1>1. RealScreen([ui[s] EXCEPT !.loading = TRUE], was)
  BY ScreenFacts DEF RealScreen, Screen
<1>2. RealScreen(Render([ui[s] EXCEPT !.loading = TRUE]), was)
  BY <1>1, RenderReal
<1>3. \E u : RealScreen(u, was) /\ Update(s, u)
  BY <1>2, ScreenFacts DEF UpdateMileStoneStatus, Update
<1>4. {row.key} \in SUBSET Milestones /\ "status" \in Kinds
  BY DEF Row, Kinds
<1>5. \A k \in {row.key} : was[k] \intersect Contract!Before(type) # {}
  OBVIOUS
<1>6. \A m \in net' : RealMessage(m, was)
  BY <1>4, <1>5, SendReal DEF UpdateMileStoneStatus
<1>7. QED
  BY <1>3, <1>6, ShapeTapped, ShapeSend, ScreenFacts DEF UpdateMileStoneStatus

LEMMA OfferedReal ==
    ASSUME NEW s \in Screens, Real, NEW row \in Offered(s)
    PROVE  row \in Row /\ row.status \in was[row.key]
  BY ScreenFacts DEF Offered, RealScreen, RealRows, Screen

LEMMA ApproveShape == ASSUME NEW s \in Screens, Real, Approve(s) PROVE UserShape(s)
<1>1. PICK row \in Offered(s) :
         row.status = "requested" /\ UpdateMileStoneStatus(s, row, "completed")
  BY DEF Approve
<1>2. QED
  BY <1>1, OfferedReal, StatusShape, StatusFacts

LEMMA MarkCompletedShape ==
    ASSUME NEW s \in Screens, Real, MarkCompleted(s) PROVE UserShape(s)
<1>1. PICK row \in Offered(s) :
         /\ row.status \in {"hired", "decline"}
         /\ UpdateMileStoneStatus(s, row, "requested")
  BY DEF MarkCompleted
<1>2. QED
  BY <1>1, OfferedReal, StatusShape, StatusFacts

LEMMA SubmitDeclineShape ==
    ASSUME NEW s \in Screens, Real, SubmitDecline(s) PROVE UserShape(s)
<1>1. PICK row \in ui[s].declineItem : UpdateMileStoneStatus(s, row, "decline")
  BY DEF SubmitDecline
<1>2. row \in Row /\ row.status = "requested" /\ row.status \in was[row.key]
  BY ScreenFacts DEF RealScreen, RealRows, Screen
<1>3. QED
  BY <1>1, <1>2, StatusShape, StatusFacts

LEMMA OpneDeclinedRbSheetShape ==
    ASSUME NEW s \in Screens, Real, OpneDeclinedRbSheet(s) PROVE UserShape(s)
<1>1. PICK row \in Offered(s) :
         /\ row.status = "requested"
         /\ LET u == [OpenSheet(ui[s], "decline") EXCEPT !.declineItem = {row}]
            IN  Update(s, Render(u)) \/ Update(s, u)
  BY DEF OpneDeclinedRbSheet
<1> DEFINE v == OpenSheet(ui[s], "decline")
           u == [v EXCEPT !.declineItem = {row}]
<1>2. RealScreen(v, was)
  BY ScreenFacts, ModalReal DEF Modals
<1>3. RealScreen(u, was)
  <2> HIDE DEF v
  <2> QED BY <1>1, <1>2, OfferedReal DEF RealScreen, RealRows, Screen
<1>4. RealScreen(Render(u), was)
  BY <1>3, RenderReal
<1>5. QED
  BY <1>1, <1>3, <1>4, ShapeTapped, ShapeUiOnly DEF OpneDeclinedRbSheet

LEMMA OpenWalletShape ==
    ASSUME NEW s \in Screens, Real, OpenWallet(s) PROVE UserShape(s)
<1>1. PICK row \in Offered(s) :
         /\ row.status = ""
         /\ Update(s, Render([OpenDialog(ui[s], "wallet") EXCEPT !.escrowKey = row.key]))
  BY DEF OpenWallet
<1>2. row.key \in Milestones /\ "" \in was[row.key]
  BY <1>1, OfferedReal DEF Row
<1> DEFINE a == [ui[s] EXCEPT !.escrowKey = row.key]
           b == [ui[s] EXCEPT !.escrowKey = row.key,
                              !.open = ui[s].open \union {"wallet"}]
           u == [OpenDialog(ui[s], "wallet") EXCEPT !.escrowKey = row.key]
<1>3. RealScreen(a, was)
  BY <1>2, ScreenFacts DEF RealScreen, Screen
<1>4. RealScreen(b, was)
  BY <1>2, ScreenFacts DEF RealScreen, Screen, Modals
<1>5. RealScreen(Render(b), was)
  BY <1>4, RenderReal
<1>6. u = a \/ u = Render(b)
  BY ScreenFacts DEF OpenDialog, Render, Screen
<1>7. RealScreen(u, was)
  BY <1>3, <1>5, <1>6
<1>8. RealScreen(Render(u), was)
  BY <1>7, RenderReal
<1>9. QED
  BY <1>1, <1>8, ShapeTapped, ShapeUiOnly DEF OpenWallet

LEMMA HireAndPayShape ==
    ASSUME NEW s \in Screens, Real, NEW kind, HireAndPay(s, kind) PROVE UserShape(s)
<1>1. RealScreen(CloseDialog(SetLoader(ui[s], TRUE), "wallet"), was)
  BY ScreenFacts, SetterReal, ModalReal DEF Modals
<1>2. {ui[s].escrowKey} \in SUBSET Milestones /\ "" \in was[ui[s].escrowKey]
  BY ScreenFacts DEF HireAndPay, CanTapIn, RealScreen
<1>3. kind \in Kinds /\ "hired" \in Status
  BY StatusFacts DEF HireAndPay, Kinds
<1>4. /\ \A k \in {ui[s].escrowKey} : was[k] \intersect Contract!Before("hired") # {}
      /\ \A k \in {ui[s].escrowKey} : "" \in was[k]
  BY <1>2, StatusFacts
<1>5. \A m \in net' : RealMessage(m, was)
  BY <1>2, <1>3, <1>4, SendReal DEF HireAndPay
<1>6. QED
  BY <1>1, <1>5, ShapeTapped, ShapeSend, ScreenFacts DEF HireAndPay

LEMMA MenuShape ==
    ASSUME NEW s \in Screens, Real, OpenMenu(s) \/ Dismiss(s) PROVE UserShape(s)
<1>1. CASE OpenMenu(s)
  <2>1. RealScreen(OpenDialog(ui[s], "menu"), was)
    BY ScreenFacts, ModalReal DEF Modals
  <2>2. QED
    BY <1>1, <2>1, ShapeTapped, ShapeUiOnly DEF OpenMenu
<1>2. CASE Dismiss(s)
  <2>1. PICK d \in ui[s].open :
           Update(s, IF d \in {"menu", "wallet"} THEN CloseDialog(ui[s], d)
                                                 ELSE CloseSheet(ui[s], d))
    BY <1>2 DEF Dismiss
  <2>2. RealScreen(CloseDialog(ui[s], d), was) /\ RealScreen(CloseSheet(ui[s], d), was)
    BY ScreenFacts, ModalReal
  <2>3. QED
    BY <1>2, <2>1, <2>2, ShapeTapped, ShapeUiOnly DEF Dismiss
<1>3. QED
  BY <1>1, <1>2

LEMMA OpenMileStoneShape ==
    ASSUME NEW s \in Screens, Real, OpenMileStone(s) PROVE UserShape(s)
<1>1. RealScreen([ui[s] EXCEPT !.draft = 0], was)
  BY ScreenFacts DEF RealScreen, Screen
<1>2. RealScreen(CloseDialog([ui[s] EXCEPT !.draft = 0], "menu"), was)
  BY <1>1, ModalReal DEF Modals
<1>3. RealScreen(OpenSheet(CloseDialog([ui[s] EXCEPT !.draft = 0], "menu"), "add"), was)
  BY <1>2, ModalReal DEF Modals
<1>4. QED
  BY <1>3, ShapeTapped, ShapeUiOnly DEF OpenMileStone

LEMMA EditDraftShape ==
    ASSUME NEW s \in Screens, Real, EditDraft(s) PROVE UserShape(s)
<1>1. PICK n \in 0..MaxDraft :
         Update(s, SetRefreshList([ui[s] EXCEPT !.draft = n], ~ui[s].refreshList))
  BY DEF EditDraft
<1>2. n \in Nat /\ (~ui[s].refreshList) \in BOOLEAN
  BY ConstantsAssumption, ScreenFacts DEF Screen
<1>3. RealScreen([ui[s] EXCEPT !.draft = n], was)
  BY <1>2, ScreenFacts DEF RealScreen, Screen
<1>4. RealScreen(SetRefreshList([ui[s] EXCEPT !.draft = n], ~ui[s].refreshList), was)
  BY <1>2, <1>3, SetterReal
<1>5. QED
  BY <1>1, <1>4, ShapeTapped, ShapeUiOnly DEF EditDraft

LEMMA HandelAddNewMileStoneShape ==
    ASSUME NEW s \in Screens, Real, HandelAddNewMileStone(s) PROVE UserShape(s)
<1>1. PICK keys \in SUBSET FreshKeys(ui[s].selected) : Send(s, "add", keys, "")
  BY DEF HandelAddNewMileStone
<1>2. keys \in SUBSET Milestones /\ "add" \in Kinds /\ "" \in Status
  BY StatusFacts DEF FreshKeys, Kinds
<1>3. \A m \in net' : RealMessage(m, was)
  BY <1>1, <1>2, SendReal
<1>4. RealScreen(SetLoading(ui[s], TRUE), was)
  BY ScreenFacts, SetterReal
<1>5. QED
  BY <1>3, <1>4, ShapeTapped, ShapeSend, ScreenFacts DEF HandelAddNewMileStone

\* A request that carries no milestone.
LEMMA BareSend ==
    ASSUME NEW s \in Screens, Real,
           NEW kind \in {"complete", "dispute", "issues", "comment", "disputes"},
           Send(s, kind, {}, "")
    PROVE  \A m \in net' : RealMessage(m, was)
<1>1. {} \in SUBSET Milestones /\ kind \in Kinds /\ "" \in Status
  BY StatusFacts DEF Kinds
<1>2. QED
  BY <1>1, SendReal

LEMMA DisputeShape ==
    ASSUME NEW s \in Screens, Real,
           \/ GetDisputeIssues(s) \/ SelectIssue(s)
           \/ CreateDispute(s) \/ GetDisputes(s)
    PROVE  UserShape(s)
<1>1. CASE GetDisputeIssues(s)
  <2>1. RealScreen(SetLoader(ui[s], TRUE), was)
    BY ScreenFacts, SetterReal
  <2>2. QED
    BY <1>1, <2>1, BareSend, ShapeTapped, ShapeSend, ScreenFacts DEF GetDisputeIssues
<1>2. CASE SelectIssue(s)
  <2>1. RealScreen([ui[s] EXCEPT !.issue = ~ui[s].issue], was)
    BY ScreenFacts DEF RealScreen, Screen
  <2>2. RealScreen(Render([ui[s] EXCEPT !.issue = ~ui[s].issue]), was)
    BY <2>1, RenderReal
  <2>3. QED
    BY <1>2, <2>2, ShapeTapped, ShapeUiOnly DEF SelectIssue
<1>3. CASE CreateDispute(s)
  <2>1. RealScreen(CloseSheet(SetLoader(ui[s], TRUE), "dispute"), was)
    BY ScreenFacts, SetterReal, ModalReal DEF Modals
  <2>2. \A m \in net' : RealMessage(m, was)
    <3>1. CASE ui[s].issue
      BY <1>3, <3>1, BareSend DEF CreateDispute
    <3>2. CASE ~ui[s].issue
      BY <1>3, <3>2 DEF CreateDispute, Real
    <3>3. QED
      BY <3>1, <3>2
  <2>3. hist' \in [Screens -> History]
    <3>1. [hist[s] EXCEPT !.finishing = TRUE] \in History
      BY ScreenFacts DEF History
    <3>2. QED
      BY <1>3, <3>1, ScreenFacts DEF CreateDispute
  <2>4. QED
    BY <1>3, <2>1, <2>2, <2>3, ShapeTapped, ShapeSend DEF CreateDispute
<1>4. CASE GetDisputes(s)
  <2>1. RealScreen(ui[s], was) /\ Update(s, ui[s])
    BY <1>4, ScreenFacts DEF GetDisputes, Update
  <2>2. QED
    BY <1>4, <2>1, BareSend, ShapeTapped, ShapeSend, ScreenFacts DEF GetDisputes
<1>5. QED
  BY <1>1, <1>2, <1>3, <1>4

LEMMA CompleteShape ==
    ASSUME NEW s \in Screens, Real,
           OpenCompeteContractSheet(s) \/ CompleteProjectContract(s)
    PROVE  UserShape(s)
<1>1. CASE OpenCompeteContractSheet(s)
  <2>1. RealScreen(OpenSheet(CloseDialog(ui[s], "menu"), "complete"), was)
    BY ScreenFacts, ModalReal DEF Modals
  <2>2. QED
    BY <1>1, <2>1, ShapeTapped, ShapeUiOnly DEF OpenCompeteContractSheet
<1>2. CASE CompleteProjectContract(s)
  <2>1. RealScreen(SetLoader(CloseSheet(ui[s], "complete"), TRUE), was)
    BY ScreenFacts, SetterReal, ModalReal DEF Modals
  <2>2. hist' \in [Screens -> History]
    <3>1. [hist[s] EXCEPT !.finishing = TRUE] \in History
      BY ScreenFacts DEF History
    <3>2. QED
      BY <1>2, <3>1, ScreenFacts DEF CompleteProjectContract
  <2>3. QED
    BY <1>2, <2>1, <2>2, BareSend, ShapeTapped, ShapeSend DEF CompleteProjectContract
<1>3. QED
  BY <1>1, <1>2

LEMMA AddCommentShape ==
    ASSUME NEW s \in Screens, Real, AddComment(s) PROVE UserShape(s)
<1>1. RealScreen(SetLoader(ui[s], TRUE), was)
  BY ScreenFacts, SetterReal
<1>2. QED
  BY <1>1, BareSend, ShapeTapped, ShapeSend, ScreenFacts DEF AddComment

LEMMA UserReal ==
    ASSUME NEW s \in Screens, Real, User(s) PROVE UserShape(s)
  BY TouchShape, SetSelectedItemShape, ApproveShape, MarkCompletedShape,
     OpneDeclinedRbSheetShape, SubmitDeclineShape, OpenWalletShape,
     HireAndPayShape, MenuShape, OpenMileStoneShape, EditDraftShape,
     HandelAddNewMileStoneShape, DisputeShape, CompleteShape, AddCommentShape,
     RefocusShape DEF User

LEMMA ShapePreserves ==
    ASSUME NEW s \in Screens, Real, UserShape(s) PROVE Real'
<1>1. PICK u : RealScreen(u, was) /\ ui' = [ui EXCEPT ![s] = u]
  BY DEF UserShape, Update
<1>2. UNCHANGED <<status, unpaid, listed, was>>
  BY DEF UserShape, ServerUnchanged
<1>3. \A x \in Screens : RealScreen(ui'[x], was) /\ ui'[x] \in Screen
  BY <1>1 DEF Real, TypeOK, RealScreen
<1>4. \A m \in net' : RealMessage(m, was) /\ m \in Message
  BY DEF UserShape, RealMessage
<1>5. TypeOK'
  <2>1. ui' \in [Screens -> Screen]
    BY <1>1, <1>3 DEF Real, TypeOK
  <2>2. QED
    BY <2>1, <1>2, <1>4 DEF Real, TypeOK, UserShape
<1>6. RealServer' /\ CausalLifecycle'
  BY <1>2 DEF Real, RealServer, CausalLifecycle, Contract!CausalLifecycle
<1>7. QED
  BY <1>2, <1>3, <1>4, <1>5, <1>6 DEF Real

-----------------------------------------------------------------------------
(* The server                                                              *)

\* A write that its milestones' past leads to keeps the history causal.
LEMMA WriteReal ==
    ASSUME Real, NEW keys \in SUBSET Milestones, NEW st \in Status, Write(keys, st),
           st # "" => \A k \in keys : was[k] \intersect Contract!Before(st) # {}
    PROVE  /\ was' \in [Milestones -> SUBSET Status]
           /\ status' \in [Milestones -> Status \union {Absent}]
           /\ \A k \in Milestones : was[k] \subseteq was'[k]
           /\ \A k \in keys : st \in was'[k]
           /\ \A k \in Milestones : status'[k] # Absent => status'[k] \in was'[k]
           /\ CausalLifecycle'
<1>1. /\ was' = [k \in Milestones |-> IF k \in keys THEN was[k] \union {st} ELSE was[k]]
      /\ status' = [k \in Milestones |-> IF k \in keys THEN st ELSE status[k]]
  BY DEF Write
<1>2. /\ was \in [Milestones -> SUBSET Status]
      /\ status \in [Milestones -> Status \union {Absent}]
      /\ \A k \in Milestones : status[k] # Absent => status[k] \in was[k]
  BY DEF Real, TypeOK, RealServer
<1>3. /\ was' \in [Milestones -> SUBSET Status]
      /\ status' \in [Milestones -> Status \union {Absent}]
      /\ \A k \in Milestones : was[k] \subseteq was'[k]
      /\ \A k \in keys : st \in was'[k]
      /\ \A k \in Milestones : status'[k] # Absent => status'[k] \in was'[k]
  BY <1>1, <1>2
<1>4. ASSUME NEW k \in Milestones
      PROVE  /\ was'[k] \intersect {"completed", "decline"} # {} => "requested" \in was'[k]
             /\ "requested" \in was'[k] => "hired" \in was'[k]
             /\ "hired" \in was'[k] => "" \in was'[k]
  <2>1. /\ was[k] \intersect {"completed", "decline"} # {} => "requested" \in was[k]
        /\ "requested" \in was[k] => "hired" \in was[k]
        /\ "hired" \in was[k] => "" \in was[k]
    BY DEF Real, CausalLifecycle, Contract!CausalLifecycle
  <2>2. CASE k \notin keys
    BY <1>1, <2>1, <2>2
  <2>3. CASE k \in keys /\ st = ""
    BY <1>1, <2>1, <2>3
  <2>4. CASE k \in keys /\ st # ""
    <3>1. was'[k] = was[k] \union {st}
      BY <1>1, <2>4
    <3>2. was[k] \intersect Contract!Before(st) # {}
      BY <2>4
    <3>3. st \in {"hired", "requested", "decline", "completed"}
      BY <2>4, StatusFacts
    <3>4. CASE st = "hired"
      BY <2>1, <3>1, <3>2, <3>4, StatusFacts
    <3>5. CASE st = "requested"
      BY <2>1, <3>1, <3>2, <3>5, StatusFacts
    <3>6. CASE st = "decline" \/ st = "completed"
      BY <2>1, <3>1, <3>2, <3>6, StatusFacts
    <3>7. QED
      BY <3>3, <3>4, <3>5, <3>6
  <2>5. QED
    BY <2>2, <2>3, <2>4
<1>5. CausalLifecycle'
  BY <1>4 DEF CausalLifecycle, Contract!CausalLifecycle
<1>6. QED
  BY <1>3, <1>5

LEMMA AnswerReal ==
    ASSUME Real, NEW m \in net, NEW stage \in {"ok", "error"}, NEW board \in SUBSET Row,
           NEW w \in [Milestones -> SUBSET Status],
           \A k \in Milestones : was[k] \subseteq w[k],
           RealRows(board, w), Answer(m, stage, board),
           m.kind = "add" /\ stage = "ok" => \A k \in m.keys : "" \in w[k]
    PROVE  \A n \in net' : RealMessage(n, w)
<1> DEFINE a == [m EXCEPT !.stage = stage, !.board = board]
<1>1. was \in [Milestones -> SUBSET Status] /\ \A n \in net : RealMessage(n, was)
  BY DEF Real, TypeOK
<1>2. \A n \in net : RealMessage(n, w)
  BY <1>1, RealGrows
<1>3. RealMessage(a, w)
  BY <1>2 DEF RealMessage, Message
<1>4. net' = (net \ {m}) \union {a}
  BY DEF Answer
<1> HIDE DEF a
<1>5. QED
  BY <1>2, <1>3, <1>4

\* A step that lets the history grow and keeps the rest backed by it.
LEMMA GrowPreserves ==
    ASSUME Real, was' \in [Milestones -> SUBSET Status],
           status' \in [Milestones -> Status \union {Absent}],
           \A k \in Milestones : was[k] \subseteq was'[k],
           \A k \in Milestones : status'[k] # Absent => status'[k] \in was'[k],
           CausalLifecycle', unpaid' \in SUBSET Milestones,
           \A k \in unpaid' : "" \in was'[k],
           \A n \in net' : RealMessage(n, was'),
           UNCHANGED <<listed, ui, taps>>, hist' \in [Screens -> History]
    PROVE  Real'
<1>1. \A s \in Screens : RealScreen(ui[s], was')
  BY RealGrows DEF Real, TypeOK
<1>2. net' \in SUBSET Message
  BY DEF RealMessage
<1>3. TypeOK'
  BY <1>2 DEF Real, TypeOK
<1>4. RealServer'
  BY DEF Real, TypeOK, RealServer
<1>5. QED
  BY <1>1, <1>3, <1>4 DEF Real

LEMMA ServeReal ==
    ASSUME Real, NEW m \in net, Serve(m) PROVE Real'
<1>1. /\ was \in [Milestones -> SUBSET Status]
      /\ status \in [Milestones -> Status \union {Absent}]
      /\ m \in Message /\ RealMessage(m, was) /\ m.from \in Screens
      /\ hist \in [Screens -> History]
      /\ unpaid \in SUBSET Milestones
  BY DEF Real, TypeOK, Message
<1>2. UNCHANGED <<ui, taps>>
  BY DEF Serve
<1>3. hist' \in [Screens -> History]
  <2>1. \A b \in BOOLEAN : [hist[m.from] EXCEPT !.crossed = b] \in History
    BY <1>1 DEF History
  <2>2. hist[m.from].crossed \in BOOLEAN
    BY <1>1 DEF History
  <2>3. QED
    BY <1>1, <2>1, <2>2 DEF Serve, Note
<1>4. m.keys \in SUBSET Milestones /\ m.status \in Status
  BY <1>1 DEF Message
<1>5. RealRows({}, was) /\ RealRows({}, was') /\ {} \in SUBSET Row
  BY DEF RealRows
<1>6. ASSUME ServerUnchanged, \A n \in net' : RealMessage(n, was) PROVE Real'
  <2>1. UNCHANGED <<status, unpaid, listed, was>>
    BY <1>6 DEF ServerUnchanged
  <2>2. /\ \A k \in unpaid : "" \in was[k]
        /\ \A k \in Milestones : status[k] # Absent => status[k] \in was[k]
    BY DEF Real, RealServer
  <2>3. CausalLifecycle'
    BY <2>1 DEF Real, CausalLifecycle, Contract!CausalLifecycle
  <2>4. QED
    BY <1>1, <1>2, <1>3, <1>6, <2>1, <2>2, <2>3, GrowPreserves
<1>7. CASE ServeAmounts(m)
  <2>1. Board(status, m.prop) \in SUBSET Row /\ RealRows(Board(status, m.prop), was)
    BY <1>1, BoardReal DEF Real, RealServer
  <2>2. m.kind # "add" /\ Answer(m, "ok", Board(status, m.prop)) /\ ServerUnchanged
    BY <1>7 DEF ServeAmounts
  <2>3. \A n \in net' : RealMessage(n, was)
    BY <1>1, <2>1, <2>2, AnswerReal
  <2>4. QED
    BY <1>6, <2>2, <2>3
<1>8. CASE ServeOther(m)
  <2>1. m.kind # "add" /\ Answer(m, "ok", {}) /\ ServerUnchanged
    BY <1>8 DEF ServeOther
  <2>2. \A n \in net' : RealMessage(n, was)
    BY <1>1, <1>5, <2>1, AnswerReal
  <2>3. QED
    BY <1>6, <2>1, <2>2
<1>13. CASE Reject(m)
  <2>1. Answer(m, "error", {}) /\ ServerUnchanged
    BY <1>13 DEF Reject
  <2>2. \A n \in net' : RealMessage(n, was)
    BY <1>1, <1>5, <2>1, AnswerReal
  <2>3. QED
    BY <1>6, <2>1, <2>2
<1>9. CASE ServeStatus(m)
  <2>1. /\ m.kind \in {"status", "pay"} /\ Write(m.keys, m.status)
        /\ Answer(m, "ok", {}) /\ UNCHANGED <<unpaid, listed>>
    BY <1>9 DEF ServeStatus
  <2>2. \A k \in m.keys : was[k] \intersect Contract!Before(m.status) # {}
    BY <1>1, <2>1 DEF RealMessage
  <2>3. /\ was' \in [Milestones -> SUBSET Status]
        /\ status' \in [Milestones -> Status \union {Absent}]
        /\ \A k \in Milestones : was[k] \subseteq was'[k]
        /\ \A k \in Milestones : status'[k] # Absent => status'[k] \in was'[k]
        /\ CausalLifecycle'
    BY <1>4, <2>1, <2>2, WriteReal
  <2>4. \A n \in net' : RealMessage(n, was')
    BY <1>5, <2>1, <2>3, AnswerReal
  <2>5. \A k \in unpaid' : "" \in was'[k]
    BY <1>1, <2>1, <2>3 DEF Real, RealServer
  <2>6. QED
    BY <1>1, <1>2, <1>3, <2>1, <2>3, <2>4, <2>5, GrowPreserves
<1>10. CASE ServeAdd(m)
  <2>1. /\ Write(m.keys, "") /\ Answer(m, "ok", {}) /\ UNCHANGED <<unpaid, listed>>
    BY <1>10 DEF ServeAdd
  <2>2. /\ was' \in [Milestones -> SUBSET Status]
        /\ status' \in [Milestones -> Status \union {Absent}]
        /\ \A k \in Milestones : was[k] \subseteq was'[k]
        /\ \A k \in m.keys : "" \in was'[k]
        /\ \A k \in Milestones : status'[k] # Absent => status'[k] \in was'[k]
        /\ CausalLifecycle'
    BY <1>4, <2>1, WriteReal, StatusFacts
  <2>3. \A n \in net' : RealMessage(n, was')
    BY <1>5, <2>1, <2>2, AnswerReal
  <2>4. \A k \in unpaid' : "" \in was'[k]
    BY <1>1, <2>1, <2>2 DEF Real, RealServer
  <2>5. QED
    BY <1>1, <1>2, <1>3, <2>1, <2>2, <2>3, <2>4, GrowPreserves
<1>11. CASE ServeCheckout(m)
  <2>1. /\ m.kind = "checkout" /\ unpaid' = unpaid \union m.keys
        /\ Answer(m, "ok", {}) /\ UNCHANGED <<status, listed, was>>
    BY <1>11 DEF ServeCheckout
  <2>2. \A n \in net' : RealMessage(n, was)
    BY <1>1, <1>5, <2>1, AnswerReal
  <2>3. \A k \in unpaid' : "" \in was[k]
    BY <1>1, <2>1 DEF Real, RealServer, RealMessage
  <2>4. CausalLifecycle'
    BY <2>1 DEF Real, CausalLifecycle, Contract!CausalLifecycle
  <2>5. \A k \in Milestones : status[k] # Absent => status[k] \in was[k]
    BY DEF Real, RealServer
  <2>6. QED
    BY <1>1, <1>2, <1>3, <1>4, <2>1, <2>2, <2>3, <2>4, <2>5, GrowPreserves
<1>12. QED
  BY <1>7, <1>8, <1>9, <1>10, <1>11, <1>13 DEF Serve

LEMMA PayAtCheckoutReal ==
    ASSUME Real, NEW k \in Milestones, PayAtCheckout(k) PROVE Real'
<1>1. /\ k \in unpaid /\ unpaid' = unpaid \ {k} /\ Write({k}, "hired")
      /\ UNCHANGED <<ui, net, listed, taps, hist>>
  BY DEF PayAtCheckout
<1>2. \A x \in {k} : was[x] \intersect Contract!Before("hired") # {}
  BY <1>1, StatusFacts DEF Real, RealServer
<1>3. {k} \in SUBSET Milestones /\ "hired" \in Status
  BY StatusFacts
<1>4. /\ was' \in [Milestones -> SUBSET Status]
      /\ status' \in [Milestones -> Status \union {Absent}]
      /\ \A x \in Milestones : was[x] \subseteq was'[x]
      /\ \A x \in Milestones : status'[x] # Absent => status'[x] \in was'[x]
      /\ CausalLifecycle'
  BY <1>1, <1>2, <1>3, WriteReal
<1>5. was \in [Milestones -> SUBSET Status] /\ unpaid \in SUBSET Milestones
  BY DEF Real, TypeOK
<1>6. \A n \in net' : RealMessage(n, was')
  BY <1>1, <1>4, <1>5, RealGrows DEF Real
<1>7. \A x \in unpaid' : "" \in was'[x]
  BY <1>1, <1>4, <1>5 DEF Real, RealServer
<1>8. hist' \in [Screens -> History]
  BY <1>1 DEF Real, TypeOK
<1>9. QED
  BY <1>1, <1>4, <1>5, <1>6, <1>7, <1>8, GrowPreserves

-----------------------------------------------------------------------------
(* The handlers of the answers                                             *)

LEMMA FocusReal ==
    ASSUME NEW u, NEW w, RealScreen(u, w)
    PROVE  RealScreen(Render([u EXCEPT !.focused = FALSE]), w)
<1>1. RealScreen([u EXCEPT !.focused = FALSE], w)
  BY DEF RealScreen, Screen
<1>2. QED
  BY <1>1, RenderReal

LEMMA HandledReal ==
    ASSUME NEW u, NEW m \in Message, NEW w, RealScreen(u, w), RealMessage(m, w),
           NEW v \in Handled(u, m)
    PROVE  RealScreen(v, w)
<1>1. m.r \in BOOLEAN /\ (~m.r) \in BOOLEAN /\ m.board \in SUBSET Row /\ m.kind \in Kinds
  BY DEF Message
<1>2. /\ RealScreen(SetLoader(u, FALSE), w) /\ RealScreen(SetLoading(u, FALSE), w)
      /\ RealScreen(Render(u), w)
  BY SetterReal, RenderReal
<1>3. CASE m.kind = "amounts"
  <2>1. PICK x \in {u, Render(u)} : v = SetRefreshList(Refill(x, m.board), ~m.r)
    BY <1>3 DEF Handled, OnAmounts
  <2>2. RealScreen(x, w) /\ RealRows(m.board, w)
    BY <1>2 DEF RealMessage
  <2>3. RealScreen(Refill(x, m.board), w)
    BY <1>1, <2>2, RefillReal
  <2>4. QED
    BY <1>1, <2>1, <2>3, SetterReal
<1>4. CASE m.kind = "status"
  <2>1. v = OnStatus(u, m)
    BY <1>4 DEF Handled
  <2>2. RealScreen(CloseSheet(SetLoading(u, FALSE), "decline"), w)
    BY <1>2, ModalReal DEF Modals
  <2>3. RealScreen(SetRefreshList(CloseSheet(SetLoading(u, FALSE), "decline"), ~m.r), w)
    BY <1>1, <2>2, SetterReal
  <2>4. QED
    BY <1>2, <2>1, <2>3 DEF OnStatus
<1>5. CASE m.kind = "add"
  <2> DEFINE x == SetLoading(u, FALSE)
             pushed == {[key |-> k, status |-> "", src |-> "added"] : k \in m.keys}
             y == IF m.stage = "ok"
                  THEN SetRefreshList(Refill(x, x.rows \union pushed), ~m.r) ELSE x
  <2>1. v = CloseSheet(y, "add")
    BY <1>5 DEF Handled, OnAdd
  <2>2. RealScreen(x, w)
    BY <1>2
  <2>3. ASSUME m.stage = "ok" PROVE pushed \in SUBSET Row /\ RealRows(pushed, w)
    <3>1. m.keys \in SUBSET Milestones /\ \A k \in m.keys : "" \in w[k]
      BY <1>5, <2>3 DEF RealMessage, Message
    <3>2. \A k \in m.keys : /\ [key |-> k, status |-> "", src |-> "added"] \in Row
                            /\ "" \in w[k]
      BY <3>1, StatusFacts DEF Row
    <3>3. pushed \in SUBSET Row
      BY <3>2
    <3>4. ASSUME NEW row \in pushed PROVE row.status \in w[row.key]
      <4>1. PICK k \in m.keys : row = [key |-> k, status |-> "", src |-> "added"]
        BY <3>4
      <4>2. QED
        BY <3>2, <4>1
    <3>5. QED
      BY <3>3, <3>4 DEF RealRows
  <2>4. x.rows \in SUBSET Row /\ RealRows(x.rows, w)
    <3> HIDE DEF x
    <3> QED BY <2>2 DEF RealScreen, Screen
  <2> HIDE DEF x, pushed
  <2>5. ASSUME m.stage = "ok"
        PROVE  /\ x.rows \union pushed \in SUBSET Row
               /\ RealRows(x.rows \union pushed, w)
    BY <2>3, <2>4, <2>5 DEF RealRows
  <2>6. m.stage = "ok" => RealScreen(Refill(x, x.rows \union pushed), w)
    BY <2>2, <2>5, RefillReal
  <2>7. RealScreen(y, w)
    BY <1>1, <2>2, <2>6, SetterReal
  <2> HIDE DEF y
  <2>8. QED
    BY <2>1, <2>7, ModalReal DEF Modals
<1>6. CASE m.kind \in {"pay", "checkout"}
  <2>1. v = OnPay(u, m)
    BY <1>6 DEF Handled
  <2>2. QED
    BY <1>2, <2>1, FocusReal DEF OnPay
<1>7. CASE m.kind = "complete"
  <2> DEFINE x == [u EXCEPT !.ended = @ \union {m.prop}]
  <2>1. RealScreen(x, w)
    BY DEF RealScreen, Screen, Message
  <2>2. v \in {u, x, Render(x)}
    BY <1>7 DEF Handled, OnComplete
  <2> HIDE DEF x
  <2>3. QED
    BY <2>1, <2>2, RenderReal
<1>8. CASE m.kind = "issues"
  <2>1. v = OnIssues(u)
    BY <1>8 DEF Handled
  <2>2. RealScreen(SetLoader(CloseDialog(u, "menu"), FALSE), w)
    BY ModalReal, SetterReal DEF Modals
  <2>3. QED
    BY <2>1, <2>2, ModalReal DEF OnIssues, Modals
<1>9. CASE m.kind \in {"dispute", "comment"}
  BY <1>2, <1>9 DEF Handled
<1>10. CASE m.kind = "disputes"
  BY <1>10, FocusReal DEF Handled
<1>11. QED
  BY <1>1, <1>3, <1>4, <1>5, <1>6, <1>7, <1>8, <1>9, <1>10 DEF Kinds

\* An answer, or its loss, is a step of the shape of a user's.
LEMMA DeliverShape ==
    ASSUME Real, NEW m \in net, Deliver(m) \/ Fail(m) PROVE UserShape(m.from)
<1>1. /\ m \in Message /\ m.from \in Screens /\ m.prop \in Proposals /\ m.r \in BOOLEAN
      /\ RealMessage(m, was) /\ net \in SUBSET Message
      /\ taps \in [Screens -> Nat]
  BY DEF Real, TypeOK, Message
<1>2. RealScreen(ui[m.from], was) /\ hist \in [Screens -> History]
  BY <1>1, ScreenFacts
<1>3. /\ \A b \in BOOLEAN : [hist[m.from] EXCEPT !.crossed = b] \in History
      /\ [hist[m.from] EXCEPT !.failed = TRUE] \in History
      /\ hist[m.from].crossed \in BOOLEAN
  BY <1>1, <1>2 DEF History
<1>4. /\ net \ {m} \in SUBSET Message
      /\ \A n \in net \ {m} : RealMessage(n, was)
  BY <1>1 DEF Real
<1>5. CASE Deliver(m)
  <2>1. PICK v \in Handled(ui[m.from], m) : Update(m.from, v)
    BY <1>5 DEF Deliver
  <2>2. RealScreen(v, was)
    BY <1>1, <1>2, HandledReal
  <2>3. \A n \in net' : RealMessage(n, was)
    <3>1. \A n \in GetUpdatedAmounts(net \ {m}, m.from, m.prop, m.r) : RealMessage(n, was)
      BY <1>1, <1>4, RefreshReal
    <3>2. QED
      BY <1>4, <1>5, <3>1 DEF Deliver
  <2>4. hist' \in [Screens -> History]
    BY <1>1, <1>2, <1>3, <1>5 DEF Deliver
  <2>5. QED
    BY <1>1, <1>5, <2>1, <2>2, <2>3, <2>4 DEF UserShape, Deliver
<1>6. CASE Fail(m)
  <2>1. RealScreen(SetLoader(ui[m.from], FALSE), was)
    BY <1>2, SetterReal
  <2>2. hist' \in [Screens -> History]
    BY <1>1, <1>2, <1>3, <1>6 DEF Fail
  <2>3. QED
    BY <1>1, <1>4, <1>6, <2>1, <2>2 DEF UserShape, Fail
<1>7. QED
  BY <1>5, <1>6

LEMMA StepReal == Real /\ [Next]_vars => Real'
<1> SUFFICES ASSUME Real, [Next]_vars PROVE Real'
  OBVIOUS
<1>1. ASSUME NEW s \in Screens, User(s) PROVE Real'
  BY <1>1, UserReal, ShapePreserves
<1>2. ASSUME NEW s \in Screens, Network(s) PROVE Real'
  <2>1. PICK m \in net : Serve(m) \/ Deliver(m) \/ Fail(m)
    BY <1>2 DEF Network
  <2>2. m.from \in Screens
    BY DEF Real, TypeOK, Message
  <2>3. QED
    BY <2>1, <2>2, ServeReal, DeliverShape, ShapePreserves
<1>3. ASSUME NEW k \in Milestones, PayAtCheckout(k) PROVE Real'
  BY <1>3, PayAtCheckoutReal
<1>4. CASE UNCHANGED vars
  BY <1>4 DEF vars, Real, TypeOK, RealServer, CausalLifecycle, Contract!CausalLifecycle
<1>5. QED
  BY <1>1, <1>2, <1>3, <1>4 DEF Next

-----------------------------------------------------------------------------
\* The invariant the others rest on: screens, requests and answers are
\* backed by what the server has really been through.
THEOREM Backed == Spec => []Real
<1>1. QED
  BY InitReal, StepReal, PTL DEF Spec

\* Every state of the screens, of the requests in flight and of the server is
\* of its declared type.
THEOREM TypeCorrect == Spec => []TypeOK
<1>1. Real => TypeOK
  BY DEF Real
<1>2. QED
  BY <1>1, Backed, PTL

\* No handler of ProjectActivity.js ever shows, or keeps for a later request,
\* a status that the server did not give that milestone.
THEOREM NothingInvented == Spec => []NoInventedStatus
<1>1. Real => NoInventedStatus
  BY DEF Real, RealScreen, RealRows, NoInventedStatus
<1>2. QED
  BY <1>1, Backed, PTL

\* Money is released only for a milestone that was handed over after it was
\* funded, although the server checks nothing and every screen may be stale.
THEOREM ReleasedWasRequested == Spec => []CausalLifecycle
<1>1. Real => CausalLifecycle
  BY DEF Real
<1>2. QED
  BY <1>1, Backed, PTL

-----------------------------------------------------------------------------
(* Which proposal a screen shows, and which one a request is about.        *)

\* Rows of one proposal.
Of(rows, p) == \A row \in rows : Owner[row.key] = p

\* A screen shows rows of one proposal; that of a seller, who alone creates
\* milestones and cannot select, those of the one it was opened with.
ScreenOf(s, u) ==
    /\ \E p \in Proposals : Of(u.rows, p)
    /\ \E p \in Proposals : Of(u.painted, p)
    /\ s \notin Buyers => Of(u.rows, u.selected)
    /\ s \in Buyers => "add" \notin u.open
    /\ u.selected \in Listed[s]

MessageOf(m, selected) ==
    /\ Of(m.board, m.prop) /\ m.prop \in Listed[m.from]
    /\ m.kind = "add" => m.from \notin Buyers /\ \A k \in m.keys : Owner[k] = m.prop
    /\ m.from \notin Buyers => m.prop = selected

OneProposal ==
    /\ \A s \in Screens : ScreenOf(s, ui[s])
    /\ \A m \in net : MessageOf(m, ui[m.from].selected)

Created(m) == m.kind = "add" /\ m.stage = "ok"

\* An update of a status is about one milestone.
OneKey ==
    \A m \in net :
        m.kind \in {"status", "pay"} => \E k \in Milestones : m.keys = {k}
-----------------------------------------------------------------------------
(* The shapes of the steps: what each does to the rows of a screen, to its *)
(* overlay and to the requests in flight.                                  *)

\* The same rows, perhaps painted anew; the sheet for new milestones opens for
\* sellers only.
Kept(s, u, v) ==
    /\ u \in Screen /\ v \in Screen
    /\ v.rows = u.rows /\ v.painted \in {u.painted, u.rows}
    /\ v.selected = u.selected /\ v.focused = u.focused
    /\ "add" \in v.open => "add" \in u.open \/ s \notin Buyers

\* Nothing is sent, and the overlay is not taken down.
Looks(s) ==
    /\ \E v : /\ Update(s, v) /\ Kept(s, ui[s], v)
              /\ ui[s].loader => v.loader
    /\ net' = net
    /\ Tapped(s) \/ UNCHANGED taps

\* One request; those that put the overlay up find it down.
Asks(s, kind, keys, st) ==
    /\ \E v : /\ Update(s, v) /\ Kept(s, ui[s], v)
              /\ IF kind \in OverlayKinds THEN ~ui[s].loader /\ v.loader
                                          ELSE ui[s].loader => v.loader
    /\ kind \in Kinds \ {"amounts"} /\ keys \in SUBSET Milestones /\ st \in Status
    /\ kind = "add" => s \notin Buyers /\ keys \subseteq FreshKeys(ui[s].selected)
    /\ kind \in {"status", "pay"} => \E k \in Milestones : keys = {k}
    /\ Send(s, kind, keys, st)
    /\ Tapped(s)

\* The rows of the listing, and a refresh.
Reloads(s, p) ==
    /\ \E v : /\ Update(s, v)
              /\ v.rows = Board(listed, p) /\ v.painted \in {ui[s].rows, v.rows}
              /\ v.selected = p /\ v.loader = ui[s].loader /\ v.open = ui[s].open
    /\ net' = GetUpdatedAmounts(net, s, p, ui[s].refreshList)
    /\ \/ p = ui[s].selected /\ ~ui[s].focused
       \/ p \in Listed[s] /\ s \in Buyers /\ Tapped(s)
    /\ Tapped(s) \/ UNCHANGED taps

HistKept ==
    \A t \in Screens : /\ hist'[t].failed = hist[t].failed
                       /\ hist'[t].crossed = hist[t].crossed

UserStep(s) ==
    /\ \/ Looks(s)
       \/ \E kind, keys, st : Asks(s, kind, keys, st)
       \/ \E p \in Proposals : Reloads(s, p)
    /\ ServerUnchanged /\ HistKept

LEMMA KeptRender ==
    ASSUME NEW s, NEW u, NEW v, Kept(s, u, v)
    PROVE  Kept(s, u, Render(v)) /\ Render(v).loader = v.loader
  BY DEF Kept, Render, Screen

LEMMA KeptLoader ==
    ASSUME NEW s, NEW u, NEW v, Kept(s, u, v), NEW b \in BOOLEAN
    PROVE  Kept(s, u, SetLoader(v, b)) /\ SetLoader(v, b).loader = b
<1> DEFINE w == [v EXCEPT !.loader = b]
<1>1. Kept(s, u, w) /\ w.loader = b
  BY DEF Kept, Screen
<1> HIDE DEF w
<1> QED BY <1>1, KeptRender DEF SetLoader, w

LEMMA KeptLoading ==
    ASSUME NEW s, NEW u, NEW v, Kept(s, u, v), NEW b \in BOOLEAN
    PROVE  Kept(s, u, SetLoading(v, b)) /\ SetLoading(v, b).loader = v.loader
<1> DEFINE w == [v EXCEPT !.loading = b]
<1>1. Kept(s, u, w) /\ w.loader = v.loader
  BY DEF Kept, Screen
<1> HIDE DEF w
<1> QED BY <1>1, KeptRender DEF SetLoading, w

LEMMA KeptRefresh ==
    ASSUME NEW s, NEW u, NEW v, Kept(s, u, v), NEW b \in BOOLEAN
    PROVE  Kept(s, u, SetRefreshList(v, b)) /\ SetRefreshList(v, b).loader = v.loader
<1> DEFINE w == [v EXCEPT !.refreshList = b]
<1>1. Kept(s, u, w) /\ w.loader = v.loader
  BY DEF Kept, Screen
<1> HIDE DEF w
<1> QED BY <1>1, KeptRender DEF SetRefreshList, w

LEMMA KeptByModals ==
    ASSUME NEW s, NEW u, NEW v, Kept(s, u, v), NEW d \in Modals
    PROVE  /\ d # "add" => /\ Kept(s, u, OpenDialog(v, d))
                           /\ OpenDialog(v, d).loader = v.loader
           /\ Kept(s, u, CloseDialog(v, d)) /\ CloseDialog(v, d).loader = v.loader
           /\ d # "add" \/ s \notin Buyers =>
                 /\ Kept(s, u, OpenSheet(v, d))
                 /\ OpenSheet(v, d).loader = v.loader
           /\ Kept(s, u, CloseSheet(v, d)) /\ CloseSheet(v, d).loader = v.loader
<1> DEFINE o == [v EXCEPT !.open = @ \union {d}]
           c == [v EXCEPT !.open = @ \ {d}]
<1>1. /\ d # "add" \/ s \notin Buyers => Kept(s, u, o) /\ o.loader = v.loader
      /\ Kept(s, u, c) /\ c.loader = v.loader
  BY DEF Kept, Screen
<1> HIDE DEF o, c
<1>2. d # "add" => /\ Kept(s, u, OpenDialog(v, d))
                   /\ OpenDialog(v, d).loader = v.loader
  BY <1>1, KeptRender DEF OpenDialog, o
<1>3. Kept(s, u, CloseDialog(v, d)) /\ CloseDialog(v, d).loader = v.loader
  BY <1>1, KeptRender DEF CloseDialog, c
<1> QED BY <1>1, <1>2, <1>3 DEF OpenSheet, CloseSheet, o, c

LEMMA KeptSelf == ASSUME NEW s, NEW u \in Screen PROVE Kept(s, u, u)
  BY DEF Kept

\* A tap that changes the state of the screen alone.
LEMMA LookStep ==
    ASSUME NEW s \in Screens, UiOnly, Tapped(s) \/ UNCHANGED taps,
           NEW v, Update(s, v), Kept(s, ui[s], v), v.loader = ui[s].loader
    PROVE  UserStep(s)
  BY DEF UserStep, Looks, UiOnly, HistKept

\* A tap that sends one request.
LEMMA AskStep ==
    ASSUME NEW s \in Screens, ServerUnchanged, HistKept,
           NEW kind, NEW keys, NEW st, Asks(s, kind, keys, st)
    PROVE  UserStep(s)
  BY DEF UserStep

LEMMA StatusStep ==
    ASSUME NEW s \in Screens, Real, NEW row \in Row, NEW type \in Status,
           UpdateMileStoneStatus(s, row, type)
    PROVE  UserStep(s)
<1> DEFINE v == [ui[s] EXCEPT !.loading = TRUE]
<1>1. ui[s] \in Screen /\ ui = [ui EXCEPT ![s] = ui[s]] BY ScreenFacts
<1>2. Kept(s, ui[s], v) /\ v.loader = ui[s].loader BY <1>1 DEF Kept, Screen
<1>3. Kept(s, ui[s], Render(v)) /\ Render(v).loader = v.loader
  <2> HIDE DEF v
  <2> QED BY <1>2, KeptRender
<1>4. Update(s, Render(v)) \/ Update(s, ui[s])
  BY <1>1 DEF UpdateMileStoneStatus, Update
<1>5. \E w : Update(s, w) /\ Kept(s, ui[s], w) /\ w.loader = ui[s].loader
  BY <1>1, <1>2, <1>3, <1>4, KeptSelf
<1>6. row.key \in Milestones BY DEF Row
<1>7. Asks(s, "status", {row.key}, type)
  BY <1>5, <1>6 DEF Asks, UpdateMileStoneStatus, Kinds, OverlayKinds
<1> QED BY <1>7, AskStep DEF UpdateMileStoneStatus, HistKept

\* The requests under the overlay.
LEMMA OverlayAsk ==
    ASSUME NEW s \in Screens, Real, CanTouch(s), Tapped(s), ServerUnchanged,
           HistKept, NEW v, Update(s, v), Kept(s, ui[s], v), v.loader,
           NEW kind \in OverlayKinds, NEW keys \in SUBSET Milestones,
           kind = "pay" => \E k \in Milestones : keys = {k},
           NEW st \in Status, Send(s, kind, keys, st)
    PROVE  UserStep(s)
<1>1. Asks(s, kind, keys, st)
  BY DEF Asks, CanTouch, OverlayKinds, Kinds
<1> QED BY <1>1, AskStep

LEMMA RowButtonsStep ==
    ASSUME NEW s \in Screens, Real,
           \/ Approve(s) \/ MarkCompleted(s) \/ SubmitDecline(s)
           \/ OpneDeclinedRbSheet(s) \/ OpenWallet(s)
    PROVE  UserStep(s)
<1>1. ui[s] \in Screen /\ RealScreen(ui[s], was) BY ScreenFacts
<1>2. CASE Approve(s) BY <1>2, OfferedReal, StatusStep, StatusFacts DEF Approve
<1>3. CASE MarkCompleted(s)
  BY <1>3, OfferedReal, StatusStep, StatusFacts DEF MarkCompleted
<1>4. CASE SubmitDecline(s)
  <2>1. PICK row \in ui[s].declineItem : UpdateMileStoneStatus(s, row, "decline")
    BY <1>4 DEF SubmitDecline
  <2>2. row \in Row BY <1>1 DEF Screen
  <2> QED BY <2>1, <2>2, StatusStep, StatusFacts
<1>5. CASE OpneDeclinedRbSheet(s)
  <2>1. PICK row \in Offered(s) :
           LET u == [OpenSheet(ui[s], "decline") EXCEPT !.declineItem = {row}]
           IN  Update(s, Render(u)) \/ Update(s, u)
    BY <1>5 DEF OpneDeclinedRbSheet
  <2> DEFINE w == OpenSheet(ui[s], "decline")
             u == [w EXCEPT !.declineItem = {row}]
  <2>2. Kept(s, ui[s], w) /\ w.loader = ui[s].loader
    BY <1>1, KeptSelf, KeptByModals DEF Modals
  <2>3. row \in Row BY OfferedReal
  <2>4. Kept(s, ui[s], u) /\ u.loader = ui[s].loader
    <3> HIDE DEF w
    <3> QED BY <2>2, <2>3 DEF Kept, Screen
  <2>5. Kept(s, ui[s], Render(u)) /\ Render(u).loader = ui[s].loader
    <3> HIDE DEF u
    <3> QED BY <2>4, KeptRender
  <2> HIDE DEF u
  <2> QED BY <1>5, <2>1, <2>4, <2>5, LookStep DEF OpneDeclinedRbSheet, u
<1>6. CASE OpenWallet(s)
  <2>1. PICK row \in Offered(s) :
           Update(s, Render([OpenDialog(ui[s], "wallet") EXCEPT !.escrowKey = row.key]))
    BY <1>6 DEF OpenWallet
  <2> DEFINE w == OpenDialog(ui[s], "wallet")
             u == [w EXCEPT !.escrowKey = row.key]
  <2>2. Kept(s, ui[s], w) /\ w.loader = ui[s].loader
    BY <1>1, KeptSelf, KeptByModals DEF Modals
  <2>3. row.key \in Milestones BY OfferedReal DEF Row
  <2>4. Kept(s, ui[s], u) /\ u.loader = ui[s].loader
    <3> HIDE DEF w
    <3> QED BY <2>2, <2>3 DEF Kept, Screen
  <2>5. Kept(s, ui[s], Render(u)) /\ Render(u).loader = ui[s].loader
    <3> HIDE DEF u
    <3> QED BY <2>4, KeptRender
  <2> HIDE DEF u
  <2> QED BY <1>6, <2>1, <2>5, LookStep DEF OpenWallet, u
<1> QED BY <1>2, <1>3, <1>4, <1>5, <1>6

LEMMA PayStep ==
    ASSUME NEW s \in Screens, Real, NEW kind, HireAndPay(s, kind)
    PROVE  UserStep(s)
<1> DEFINE v == SetLoader(ui[s], TRUE)
           w == CloseDialog(v, "wallet")
<1>1. RealScreen(ui[s], was) /\ ui[s] \in Screen BY ScreenFacts
<1>2. Kept(s, ui[s], v) /\ v.loader BY <1>1, KeptSelf, KeptLoader
<1>3. Kept(s, ui[s], w) /\ w.loader
  <2> HIDE DEF v
  <2> QED BY <1>2, KeptByModals DEF Modals
<1> HIDE DEF v, w
<1>4. ui[s].escrowKey \in Milestones
  BY <1>1 DEF HireAndPay, CanTapIn, RealScreen
<1> QED
  BY <1>3, <1>4, OverlayAsk, StatusFacts
  DEF HireAndPay, CanTapIn, HistKept, OverlayKinds, v, w

LEMMA MenuStep ==
    ASSUME NEW s \in Screens, Real,
           OpenMenu(s) \/ Dismiss(s) \/ OpenMileStone(s) \/ EditDraft(s)
    PROVE  UserStep(s)
<1>1. ui[s] \in Screen /\ Kept(s, ui[s], ui[s]) /\ \A d \in ui[s].open : d \in Modals
  BY ScreenFacts, KeptSelf
<1>2. CASE OpenMenu(s)
  <2>0. "menu" \in Modals /\ "menu" # "add"
    BY DEF Modals
  <2>1. /\ Kept(s, ui[s], OpenDialog(ui[s], "menu"))
        /\ OpenDialog(ui[s], "menu").loader = ui[s].loader
    BY <1>1, <2>0, KeptByModals
  <2> QED BY <1>2, <2>1, LookStep DEF OpenMenu
<1>3. CASE Dismiss(s)
  <2>1. PICK d \in ui[s].open :
           Update(s, IF d \in {"menu", "wallet"} THEN CloseDialog(ui[s], d)
                                                 ELSE CloseSheet(ui[s], d))
    BY <1>3 DEF Dismiss
  <2>2. d \in Modals
    BY <1>1
  <2>3. /\ Kept(s, ui[s], CloseDialog(ui[s], d)) /\ Kept(s, ui[s], CloseSheet(ui[s], d))
        /\ CloseDialog(ui[s], d).loader = ui[s].loader
        /\ CloseSheet(ui[s], d).loader = ui[s].loader
    BY <1>1, <2>2, KeptByModals
  <2> QED BY <1>3, <2>1, <2>3, LookStep DEF Dismiss
<1>4. CASE OpenMileStone(s)
  <2> DEFINE a == [ui[s] EXCEPT !.draft = 0]
             b == CloseDialog(a, "menu")
  <2>1. Kept(s, ui[s], a) /\ a.loader = ui[s].loader
    BY <1>1 DEF Kept, Screen
  <2>2. Kept(s, ui[s], b) /\ b.loader = ui[s].loader
    <3> HIDE DEF a
    <3> QED BY <2>1, KeptByModals DEF Modals
  <2>3. Kept(s, ui[s], OpenSheet(b, "add")) /\ OpenSheet(b, "add").loader = ui[s].loader
    <3> HIDE DEF b
    <3> QED BY <1>4, <2>2, KeptByModals DEF OpenMileStone, Modals
  <2> HIDE DEF a, b
  <2> QED BY <1>4, <2>3, LookStep DEF OpenMileStone, a, b
<1>5. CASE EditDraft(s)
  <2>1. PICK n \in 0 .. MaxDraft :
           Update(s, SetRefreshList([ui[s] EXCEPT !.draft = n], ~ui[s].refreshList))
    BY <1>5 DEF EditDraft
  <2> DEFINE a == [ui[s] EXCEPT !.draft = n]
  <2>2. n \in Nat /\ (~ui[s].refreshList) \in BOOLEAN
    BY ConstantsAssumption, <1>1 DEF Screen
  <2>3. Kept(s, ui[s], a) /\ a.loader = ui[s].loader
    BY <1>1, <2>2 DEF Kept, Screen
  <2> HIDE DEF a
  <2>4. /\ Kept(s, ui[s], SetRefreshList(a, ~ui[s].refreshList))
        /\ SetRefreshList(a, ~ui[s].refreshList).loader = ui[s].loader
    BY <2>2, <2>3, KeptRefresh
  <2> QED BY <1>5, <2>1, <2>4, LookStep DEF EditDraft, a
<1> QED BY <1>2, <1>3, <1>4, <1>5

LEMMA CreateStep ==
    ASSUME NEW s \in Screens, Real, OneProposal, HandelAddNewMileStone(s)
    PROVE  UserStep(s)
<1>1. ui[s] \in Screen /\ Kept(s, ui[s], ui[s]) BY ScreenFacts, KeptSelf
<1>2. PICK keys \in SUBSET FreshKeys(ui[s].selected) : Send(s, "add", keys, "")
  BY DEF HandelAddNewMileStone
<1>3. keys \in SUBSET Milestones /\ "" \in Status BY StatusFacts DEF FreshKeys
<1>4. /\ Kept(s, ui[s], SetLoading(ui[s], TRUE))
      /\ SetLoading(ui[s], TRUE).loader = ui[s].loader
  BY <1>1, KeptLoading
<1>5. s \notin Buyers
  BY DEF HandelAddNewMileStone, CanTapIn, OneProposal, ScreenOf
<1>6. Asks(s, "add", keys, "")
  BY <1>2, <1>3, <1>4, <1>5 DEF Asks, HandelAddNewMileStone, Kinds, OverlayKinds
<1> QED BY <1>6, AskStep DEF HandelAddNewMileStone, HistKept

LEMMA DisputeStep ==
    ASSUME NEW s \in Screens, Real,
           \/ GetDisputeIssues(s) \/ SelectIssue(s) \/ CreateDispute(s)
           \/ GetDisputes(s)
    PROVE  UserStep(s)
<1> DEFINE l == SetLoader(ui[s], TRUE)
<1>1. /\ ui[s] \in Screen /\ Kept(s, ui[s], ui[s])
      /\ ui = [ui EXCEPT ![s] = ui[s]]
  BY ScreenFacts, KeptSelf
<1>2. Kept(s, ui[s], l) /\ l.loader
  BY <1>1, KeptLoader
<1> HIDE DEF l
<1>3. Kept(s, ui[s], CloseSheet(l, "dispute")) /\ CloseSheet(l, "dispute").loader
  BY <1>2, KeptByModals DEF Modals
<1>4. CASE GetDisputeIssues(s)
  BY <1>2, <1>4, OverlayAsk, StatusFacts
  DEF GetDisputeIssues, CanTap, CanTapIn, HistKept, OverlayKinds, l
<1>5. CASE SelectIssue(s)
  <2> DEFINE i == [ui[s] EXCEPT !.issue = ~@]
  <2>1. Kept(s, ui[s], i) /\ i.loader = ui[s].loader
    BY <1>1 DEF Kept, Screen
  <2>2. Kept(s, ui[s], Render(i)) /\ Render(i).loader = ui[s].loader
    <3> HIDE DEF i
    <3> QED BY <2>1, KeptRender
  <2> HIDE DEF i
  <2> QED BY <1>5, <2>2, LookStep DEF SelectIssue, i
<1>6. CASE CreateDispute(s) /\ ui[s].issue
  BY <1>3, <1>6, OverlayAsk, StatusFacts
  DEF CreateDispute, CanTapIn, HistKept, OverlayKinds, l
<1>7. CASE CreateDispute(s) /\ ~ui[s].issue
  <2>1. HistKept
    BY <1>7, ScreenFacts DEF CreateDispute, HistKept, History
  <2>2. Looks(s)
    BY <1>3, <1>7 DEF CreateDispute, Looks, l
  <2> QED BY <1>7, <2>1, <2>2 DEF CreateDispute, UserStep
<1>8. CASE GetDisputes(s)
  <2>1. Update(s, ui[s])
    BY <1>1, <1>8 DEF GetDisputes, Update
  <2>2. Asks(s, "disputes", {}, "")
    BY <1>1, <1>8, <2>1, StatusFacts DEF Asks, GetDisputes, Kinds, OverlayKinds
  <2> QED BY <1>8, <2>2, AskStep DEF GetDisputes, HistKept
<1> QED BY <1>4, <1>5, <1>6, <1>7, <1>8

LEMMA CompleteStep ==
    ASSUME NEW s \in Screens, Real,
           \/ OpenCompeteContractSheet(s) \/ CompleteProjectContract(s)
           \/ AddComment(s)
    PROVE  UserStep(s)
<1> DEFINE c == CloseDialog(ui[s], "menu")
           d == CloseSheet(ui[s], "complete")
<1>1. ui[s] \in Screen /\ Kept(s, ui[s], ui[s])
  BY ScreenFacts, KeptSelf
<1>2. "menu" \in Modals
  BY DEF Modals
<1>3. Kept(s, ui[s], c) /\ c.loader = ui[s].loader
  BY <1>1, <1>2, KeptByModals
<1>4. Kept(s, ui[s], d) /\ d.loader = ui[s].loader
  BY <1>1, KeptByModals DEF Modals
<1> HIDE DEF c, d
<1>5. CASE OpenCompeteContractSheet(s)
  <2>1. Kept(s, ui[s], OpenSheet(c, "complete"))
        /\ OpenSheet(c, "complete").loader = ui[s].loader
    BY <1>3, KeptByModals DEF Modals
  <2> QED BY <1>5, <2>1, LookStep DEF OpenCompeteContractSheet, c
<1>6. CASE CompleteProjectContract(s)
  <2>1. Kept(s, ui[s], SetLoader(d, TRUE)) /\ SetLoader(d, TRUE).loader
    BY <1>4, KeptLoader
  <2>2. HistKept
    BY <1>6, ScreenFacts DEF CompleteProjectContract, HistKept, History
  <2> QED
    BY <1>6, <2>1, <2>2, OverlayAsk, StatusFacts
    DEF CompleteProjectContract, CanTapIn, OverlayKinds, d
<1>7. CASE AddComment(s)
  <2>1. Kept(s, ui[s], SetLoader(ui[s], TRUE)) /\ SetLoader(ui[s], TRUE).loader
    BY <1>1, KeptLoader
  <2> QED
    BY <1>7, <2>1, OverlayAsk, StatusFacts
    DEF AddComment, CanTap, HistKept, OverlayKinds
<1> QED BY <1>5, <1>6, <1>7

LEMMA TouchStep ==
    ASSUME NEW s \in Screens, Real, Touch(s) PROVE UserStep(s)
<1>1. ui[s] \in Screen /\ Kept(s, ui[s], ui[s])
  BY ScreenFacts, KeptSelf
<1>2. Kept(s, ui[s], Render(ui[s])) /\ Render(ui[s]).loader = ui[s].loader
  BY <1>1, KeptRender
<1> QED BY <1>2, LookStep DEF Touch

\* The effect: the rows of the listing, painted unless complete_option is new.
LEMMA EffectRows ==
    ASSUME NEW u \in Screen, Board(listed, u.selected) \in SUBSET Row
    PROVE  LET v == Effect(Render(u))
           IN  /\ v.rows = Board(listed, u.selected)
               /\ v.painted \in {u.rows, v.rows}
               /\ v.selected = u.selected /\ v.loader = u.loader
               /\ v.open = u.open /\ v.focused = u.focused
<1> DEFINE b == Board(listed, u.selected)
           f == Refill(Render(u), b)
           c == [f EXCEPT !.completable = TRUE]
<1>1. Render(u).selected = u.selected
  BY DEF Render, Screen
<1>2. Effect(Render(u)) \in {f, Render(c)}
  BY <1>1 DEF Effect
<1> HIDE DEF b
<1>3. /\ f.rows = b /\ f.painted = u.rows /\ f.selected = u.selected
      /\ f.loader = u.loader /\ f.open = u.open /\ f.focused = u.focused
      /\ f \in Screen
  BY DEF Refill, Render, Screen, b
<1> HIDE DEF f
<1>4. /\ Render(c).rows = b /\ Render(c).painted = b
      /\ Render(c).selected = u.selected /\ Render(c).loader = u.loader
      /\ Render(c).open = u.open /\ Render(c).focused = u.focused
  BY <1>3 DEF Render, Screen
<1> HIDE DEF c
<1> QED BY <1>2, <1>3, <1>4 DEF b

LEMMA SelectStep ==
    ASSUME NEW s \in Screens, Real, NEW p \in Proposals, SetSelectedItem(s, p)
    PROVE  UserStep(s)
<1> DEFINE u == [ui[s] EXCEPT !.selected = p]
<1>1. /\ u \in Screen /\ u.selected = p /\ u.rows = ui[s].rows
      /\ u.loader = ui[s].loader /\ u.open = ui[s].open /\ u.focused = ui[s].focused
  BY ScreenFacts DEF Screen
<1>2. Board(listed, p) \in SUBSET Row
  BY BoardReal DEF Real, TypeOK, RealServer
<1> DEFINE v == Effect(Render(u))
<1> HIDE DEF u
<1>4. /\ v.rows = Board(listed, p) /\ v.painted \in {ui[s].rows, v.rows}
      /\ v.selected = p /\ v.loader = ui[s].loader /\ v.open = ui[s].open
  BY <1>1, <1>2, EffectRows
<1>5. Update(s, v)
  BY DEF SetSelectedItem, u
<1> HIDE DEF v
<1>3. Reloads(s, p)
  BY <1>4, <1>5 DEF Reloads, SetSelectedItem
<1> QED BY <1>3 DEF UserStep, SetSelectedItem, HistKept

LEMMA RefocusStep ==
    ASSUME NEW s \in Screens, Real, Refocus(s)
    PROVE  UserStep(s)
<1> DEFINE u == [ui[s] EXCEPT !.focused = TRUE]
           p == ui[s].selected
<1>1. /\ u \in Screen /\ u.selected = p /\ u.rows = ui[s].rows
      /\ u.loader = ui[s].loader /\ u.open = ui[s].open /\ p \in Proposals
  BY ScreenFacts DEF Screen
<1>2. Board(listed, p) \in SUBSET Row
  BY <1>1, BoardReal DEF Real, TypeOK, RealServer
<1> DEFINE v == Effect(Render(u))
<1> HIDE DEF u
<1>4. /\ v.rows = Board(listed, p) /\ v.painted \in {ui[s].rows, v.rows}
      /\ v.selected = p /\ v.loader = ui[s].loader /\ v.open = ui[s].open
  BY <1>1, <1>2, EffectRows
<1>5. Update(s, v)
  BY DEF Refocus, u
<1> HIDE DEF v
<1>3. Reloads(s, p)
  BY <1>4, <1>5 DEF Reloads, Refocus
<1> QED BY <1>1, <1>3 DEF UserStep, Refocus, HistKept

LEMMA UserSteps ==
    ASSUME NEW s \in Screens, Real, OneProposal, User(s) PROVE UserStep(s)
  BY TouchStep, SelectStep, RowButtonsStep, PayStep, MenuStep, CreateStep,
     DisputeStep, CompleteStep, RefocusStep DEF User

-----------------------------------------------------------------------------
(* The answers of the server, delivered, lost and served.                  *)

\* What handelAddNewMileStone's answer pushes.
Pushed(m) == {[key |-> k, status |-> "", src |-> "added"] : k \in m.keys}

\* The screen v after the answer m found it in state u.
Answered(u, m, v) ==
    /\ v.rows = IF m.kind = "amounts" THEN m.board
                ELSE IF Created(m) THEN u.rows \union Pushed(m) ELSE u.rows
    /\ v.painted \in {u.painted, u.rows, v.rows}
    /\ v.selected = u.selected
    /\ v.focused => u.focused
    /\ u.focused /\ ~v.focused => m.kind \in {"checkout", "disputes"}
    /\ u.loader /\ ~v.loader => m.kind \in OverlayKinds
    /\ "add" \in v.open => "add" \in u.open \/ m.from \notin Buyers

\* An answer that leaves the rows alone.
LEMMA KeptAnswered ==
    ASSUME NEW m, NEW u, NEW v, Kept(m.from, u, v), m.kind # "amounts", ~Created(m),
           u.loader /\ ~v.loader => m.kind \in OverlayKinds
    PROVE  Answered(u, m, v)
  BY DEF Answered, Kept

\* An answer that refills the rows, and handles the rest in the state f.
LEMMA RefillAnswered ==
    ASSUME NEW m, NEW u, NEW x, Kept(m.from, u, x), x.loader = u.loader,
           NEW rows \in SUBSET Row,
           rows = IF m.kind = "amounts" THEN m.board ELSE u.rows \union Pushed(m),
           m.kind = "amounts" \/ Created(m),
           NEW v, Kept(m.from, Refill(x, rows), v), v.loader = Refill(x, rows).loader
    PROVE  Answered(u, m, v)
<1> DEFINE f == Refill(x, rows)
<1>1. /\ f.rows = rows /\ f.painted = x.painted /\ f.selected = x.selected
      /\ f.loader = x.loader /\ f.open = x.open /\ f.focused = x.focused
  BY DEF Refill, Kept, Screen
<1> HIDE DEF f
<1>2. Kept(m.from, f, v) /\ v.loader = f.loader
  BY DEF f
<1>3. m.kind # "amounts" => Created(m)
  OBVIOUS
<1> QED BY <1>1, <1>2, <1>3 DEF Answered, Kept

LEMMA RefillScreen ==
    ASSUME NEW u \in Screen, NEW rows \in SUBSET Row
    PROVE  Refill(u, rows) \in Screen
  BY DEF Refill, Screen

\* Leaving the screen for the checkout or the page of the dispute.
LEMMA LeaveAnswered ==
    ASSUME NEW m, NEW u, NEW x, Kept(m.from, u, x), m.kind \in {"checkout", "disputes"},
           u.loader /\ ~x.loader => m.kind \in OverlayKinds
    PROVE  Answered(u, m, Render([x EXCEPT !.focused = FALSE]))
<1> DEFINE f == [x EXCEPT !.focused = FALSE]
<1>1. /\ f.rows = x.rows /\ f.painted = x.painted /\ f.selected = x.selected
      /\ f.loader = x.loader /\ f.open = x.open /\ f.focused = FALSE /\ f \in Screen
  BY DEF Kept, Screen
<1> HIDE DEF f
<1>2. LET v == Render(f)
      IN  /\ v.rows = x.rows /\ v.painted = x.rows /\ v.selected = x.selected
          /\ v.loader = x.loader /\ v.open = x.open /\ v.focused = FALSE
  BY <1>1 DEF Render, Screen
<1>3. Answered(u, m, Render(f))
  BY <1>2 DEF Answered, Kept, Created
<1> QED BY <1>3 DEF f

LEMMA HandledAnswered ==
    ASSUME NEW u \in Screen, NEW m \in Message, NEW v \in Handled(u, m)
    PROVE  Answered(u, m, v)
<1> DEFINE s == m.from
<1>1. /\ m.r \in BOOLEAN /\ (~m.r) \in BOOLEAN /\ m.board \in SUBSET Row
      /\ m.kind \in Kinds /\ m.keys \in SUBSET Milestones /\ m.prop \in Proposals
  BY DEF Message
<1>2. Kept(s, u, u)
  BY KeptSelf
<1>3. Kept(s, u, SetLoader(u, FALSE)) /\ ~SetLoader(u, FALSE).loader
  BY <1>2, KeptLoader
<1>4. Kept(s, u, SetLoading(u, FALSE)) /\ SetLoading(u, FALSE).loader = u.loader
  BY <1>2, KeptLoading
<1>5. Kept(s, u, Render(u)) /\ Render(u).loader = u.loader
  BY <1>2, KeptRender
<1>6. CASE m.kind = "amounts"
  <2>1. PICK x \in {u, Render(u)} : v = SetRefreshList(Refill(x, m.board), ~m.r)
    BY <1>6 DEF Handled, OnAmounts
  <2>2. Kept(s, u, x) /\ x.loader = u.loader
    BY <1>2, <1>5
  <2>3. Refill(x, m.board) \in Screen
    BY <1>1, <2>2, RefillScreen DEF Kept
  <2>4. /\ Kept(s, Refill(x, m.board), v)
        /\ v.loader = Refill(x, m.board).loader
    BY <1>1, <2>1, <2>3, KeptSelf, KeptRefresh
  <2> QED BY <1>1, <1>6, <2>2, <2>4, RefillAnswered
<1>7. CASE m.kind = "status"
  <2> DEFINE x == SetLoading(u, FALSE)
             y == CloseSheet(x, "decline")
             z == SetRefreshList(y, ~m.r)
  <2>1. v \in {x, z}
    BY <1>7 DEF Handled, OnStatus
  <2>2. Kept(s, u, x) /\ x.loader = u.loader
    BY <1>4
  <2> HIDE DEF x
  <2>3. Kept(s, u, y) /\ y.loader = u.loader
    BY <2>2, KeptByModals DEF Modals
  <2> HIDE DEF y
  <2>4. Kept(s, u, z) /\ z.loader = u.loader
    BY <1>1, <2>3, KeptRefresh
  <2> QED BY <1>7, <2>1, <2>2, <2>4, KeptAnswered DEF Created
<1>8. CASE m.kind = "add"
  <2> DEFINE x == SetLoading(u, FALSE)
             f == Refill(x, x.rows \union Pushed(m))
             z == SetRefreshList(f, ~m.r)
  <2>1. v = CloseSheet(IF m.stage = "ok" THEN z ELSE x, "add")
    BY <1>8 DEF Handled, OnAdd, Pushed
  <2>2. Kept(s, u, x) /\ x.loader = u.loader
    BY <1>4
  <2> HIDE DEF x
  <2>3. Kept(s, u, CloseSheet(x, "add")) /\ CloseSheet(x, "add").loader = u.loader
    BY <2>2, KeptByModals DEF Modals
  <2>4. Pushed(m) \in SUBSET Row
    <3>1. "" \in Status
      BY StatusFacts
    <3>2. \A k \in m.keys : [key |-> k, status |-> "", src |-> "added"] \in Row
      BY <1>1, <3>1 DEF Row
    <3> QED BY <3>2 DEF Pushed
  <2>5. x \in Screen /\ x.rows = u.rows /\ x.rows \union Pushed(m) \in SUBSET Row
    BY <2>2, <2>4 DEF Kept, Screen
  <2>6. f \in Screen
    BY <2>5, RefillScreen
  <2> HIDE DEF f
  <2>7. Kept(s, f, z) /\ z.loader = f.loader
    BY <1>1, <2>6, KeptSelf, KeptRefresh
  <2> HIDE DEF z
  <2>8. Kept(s, f, CloseSheet(z, "add")) /\ CloseSheet(z, "add").loader = f.loader
    BY <2>7, KeptByModals DEF Modals
  <2>9. CASE m.stage = "ok"
    <3>1. Created(m) /\ v = CloseSheet(z, "add")
      BY <1>8, <2>1, <2>9 DEF Created
    <3> QED BY <1>8, <2>2, <2>5, <2>8, <3>1, RefillAnswered DEF f
  <2>10. CASE m.stage # "ok"
    BY <1>8, <2>1, <2>3, <2>10, KeptAnswered DEF Created
  <2> QED BY <2>9, <2>10
<1>9. CASE m.kind \in {"pay", "checkout"}
  <2> DEFINE x == SetLoader(u, FALSE)
  <2>1. v = OnPay(u, m)
    BY <1>9 DEF Handled
  <2>2. m.kind \in OverlayKinds /\ m.kind # "amounts" /\ ~Created(m)
    BY <1>9 DEF OverlayKinds, Created
  <2>3. Answered(u, m, x)
    BY <1>3, <2>2, KeptAnswered
  <2>4. m.kind = "checkout" => Answered(u, m, Render([x EXCEPT !.focused = FALSE]))
    BY <1>3, <2>2, LeaveAnswered
  <2> QED BY <2>1, <2>3, <2>4 DEF OnPay
<1>10. CASE m.kind = "complete"
  <2> DEFINE x == [u EXCEPT !.ended = @ \union {m.prop}]
  <2>1. v \in {u, x, Render(x)}
    BY <1>10 DEF Handled, OnComplete
  <2>2. Kept(s, u, x) /\ x.loader = u.loader
    BY <1>1 DEF Kept, Screen
  <2> HIDE DEF x
  <2>3. Kept(s, u, Render(x)) /\ Render(x).loader = u.loader
    BY <2>2, KeptRender
  <2> QED BY <1>2, <1>10, <2>1, <2>2, <2>3, KeptAnswered DEF Created
<1>11. CASE m.kind = "issues"
  <2> DEFINE x == CloseDialog(u, "menu")
             y == SetLoader(x, FALSE)
  <2>1. v = OpenSheet(y, "dispute")
    BY <1>11 DEF Handled, OnIssues
  <2>2. "menu" \in Modals /\ "dispute" \in Modals
    BY DEF Modals
  <2>3. Kept(s, u, x)
    BY <1>2, <2>2, KeptByModals
  <2> HIDE DEF x
  <2>4. Kept(s, u, y)
    BY <2>3, KeptLoader
  <2> HIDE DEF y
  <2>5. Kept(s, u, OpenSheet(y, "dispute"))
    BY <2>4, KeptByModals DEF Modals
  <2> QED BY <1>11, <2>1, <2>5, KeptAnswered DEF Created, OverlayKinds
<1>12. CASE m.kind \in {"dispute", "comment"}
  BY <1>3, <1>12, KeptAnswered DEF Handled, Created, OverlayKinds
<1>13. CASE m.kind = "disputes"
  <2>1. v = Render([u EXCEPT !.focused = FALSE])
    BY <1>13 DEF Handled
  <2> QED BY <1>2, <1>13, <2>1, LeaveAnswered
<1> QED
  BY <1>1, <1>6, <1>7, <1>8, <1>9, <1>10, <1>11, <1>12, <1>13 DEF Kinds

\* A step of Deliver.
Delivers(m) ==
    /\ m.stage # "sent"
    /\ \E v : Update(m.from, v) /\ Answered(ui[m.from], m, v)
    /\ net' = IF Refreshes(m)
              THEN GetUpdatedAmounts(net \ {m}, m.from, m.prop, m.r)
              ELSE net \ {m}
    /\ \A t \in Screens :
          /\ hist'[t].failed = hist[t].failed
          /\ hist'[t].crossed = (hist[t].crossed \/ (t = m.from /\ Overtakes(m)))
    /\ ServerUnchanged /\ UNCHANGED taps

LEMMA DeliverStep ==
    ASSUME Real, NEW m \in net, Deliver(m) PROVE Delivers(m)
<1>1. m \in Message /\ m.from \in Screens /\ ui[m.from] \in Screen
  BY DEF Real, TypeOK, Message
<1>2. hist \in [Screens -> History] /\ \A t \in Screens : hist[t] \in History
  BY DEF Real, TypeOK
<1>3. PICK v \in Handled(ui[m.from], m) : Update(m.from, v)
  BY DEF Deliver
<1>4. Answered(ui[m.from], m, v)
  BY <1>1, HandledAnswered
<1>5. \A t \in Screens :
          /\ hist'[t].failed = hist[t].failed
          /\ hist'[t].crossed = (hist[t].crossed \/ (t = m.from /\ Overtakes(m)))
  <2> TAKE t \in Screens
  <2>1. hist'[t] = IF t = m.from
                   THEN [hist[t] EXCEPT !.crossed = @ \/ Overtakes(m)] ELSE hist[t]
    BY <1>2 DEF Deliver
  <2>2. hist[t] \in History
    BY <1>2
  <2> QED BY <2>1, <2>2 DEF History
<1> QED BY <1>3, <1>4, <1>5 DEF Delivers, Deliver

\* A step of Fail.
Fails(m) ==
    /\ \E v : Update(m.from, v) /\ Kept(m.from, ui[m.from], v)
    /\ net' = net \ {m}
    /\ \A t \in Screens :
          /\ hist'[t].failed = (hist[t].failed \/ t = m.from)
          /\ hist'[t].crossed = hist[t].crossed
    /\ ServerUnchanged /\ UNCHANGED taps

LEMMA FailStep ==
    ASSUME Real, NEW m \in net, Fail(m) PROVE Fails(m)
<1>1. m \in Message /\ m.from \in Screens /\ ui[m.from] \in Screen
  BY DEF Real, TypeOK, Message
<1>2. hist \in [Screens -> History] /\ \A t \in Screens : hist[t] \in History
  BY DEF Real, TypeOK
<1>3. Kept(m.from, ui[m.from], SetLoader(ui[m.from], FALSE))
  BY <1>1, KeptSelf, KeptLoader
<1>4. \A t \in Screens :
          /\ hist'[t].failed = (hist[t].failed \/ t = m.from)
          /\ hist'[t].crossed = hist[t].crossed
  <2> TAKE t \in Screens
  <2>1. hist'[t] = IF t = m.from THEN [hist[t] EXCEPT !.failed = TRUE] ELSE hist[t]
    BY <1>2 DEF Fail
  <2>2. hist[t] \in History
    BY <1>2
  <2> QED BY <2>1, <2>2 DEF History
<1> QED BY <1>3, <1>4 DEF Fails, Fail

\* A step of Serve: n is the answer to m ...
Replies(m, n) ==
    /\ m.stage = "sent" /\ n \in Message
    /\ n.id = m.id /\ n.from = m.from /\ n.kind = m.kind /\ n.prop = m.prop
    /\ n.keys = m.keys /\ n.status = m.status /\ n.r = m.r
    /\ net' = (net \ {m}) \union {n}
    /\ \A t \in Screens :
          /\ hist'[t].failed = hist[t].failed
          /\ hist'[t].crossed = (hist[t].crossed \/ (t = m.from /\ \E x \in net :
                x.from = m.from /\ x.id < m.id /\ x.stage = "sent"))
    /\ UNCHANGED <<ui, taps, listed>>

\* ... and what the server did.
Serves(m, n) ==
    /\ Replies(m, n)
    /\ \/ /\ m.kind = "amounts" /\ n.stage = "ok" /\ n.board = Board(status, m.prop)
          /\ UNCHANGED <<status, was>>
       \/ /\ m.kind \in {"status", "pay"} /\ Known(m) /\ n.stage = "ok" /\ n.board = {}
          /\ Write(m.keys, m.status)
       \/ /\ m.kind = "add" /\ n.stage = "ok" /\ n.board = {}
          /\ Write(m.keys, "")
       \/ /\ m.kind # "amounts" /\ n.board = {}
          /\ m.kind \in {"status", "pay", "add"} => n.stage = "error"
          /\ n.stage \in {"ok", "error"}
          /\ UNCHANGED <<status, was>>

LEMMA ServeStep ==
    ASSUME Real, NEW m \in net, Serve(m) PROVE \E n : Serves(m, n)
<1>1. m \in Message /\ m.from \in Screens
  BY DEF Real, TypeOK, Message
<1>2. hist \in [Screens -> History] /\ \A t \in Screens : hist[t] \in History
  BY DEF Real, TypeOK
<1>3. \A t \in Screens :
          /\ hist'[t].failed = hist[t].failed
          /\ hist'[t].crossed = (hist[t].crossed \/ (t = m.from /\ \E x \in net :
                x.from = m.from /\ x.id < m.id /\ x.stage = "sent"))
  <2> TAKE t \in Screens
  <2> DEFINE over == \E x \in net : x.from = m.from /\ x.id < m.id /\ x.stage = "sent"
  <2>1. hist'[t] = IF t = m.from
                   THEN [hist[t] EXCEPT !.crossed = @ \/ over] ELSE hist[t]
    BY <1>2 DEF Serve, Note
  <2>2. hist[t] \in History
    BY <1>2
  <2> HIDE DEF over
  <2>3. /\ hist'[t].failed = hist[t].failed
        /\ hist'[t].crossed = (hist[t].crossed \/ (t = m.from /\ over))
    BY <2>1, <2>2 DEF History
  <2> QED BY <2>3 DEF over
<1>4. m.stage = "sent" /\ UNCHANGED <<ui, taps>>
  BY DEF Serve
<1>5. ASSUME NEW stage \in {"ok", "error"}, NEW board \in SUBSET Row,
             Answer(m, stage, board), listed' = listed
      PROVE  \E n : Replies(m, n) /\ n.stage = stage /\ n.board = board
  <2> DEFINE n == [m EXCEPT !.stage = stage, !.board = board]
  <2>1. /\ n \in Message /\ n.stage = stage /\ n.board = board
        /\ n.id = m.id /\ n.from = m.from /\ n.kind = m.kind
        /\ n.prop = m.prop /\ n.keys = m.keys /\ n.status = m.status /\ n.r = m.r
    BY <1>1 DEF Message
  <2>2. net' = (net \ {m}) \union {n}
    BY <1>5 DEF Answer
  <2> HIDE DEF n
  <2> QED BY <1>3, <1>4, <1>5, <2>1, <2>2 DEF Replies
<1>6. CASE ServeAmounts(m)
  <2>1. Board(status, m.prop) \in SUBSET Row
    BY <1>1, BoardReal DEF Real, TypeOK, RealServer, Message
  <2>2. PICK n : Replies(m, n) /\ n.stage = "ok" /\ n.board = Board(status, m.prop)
    BY <1>5, <1>6, <2>1 DEF ServeAmounts, ServerUnchanged
  <2> QED BY <1>6, <2>2 DEF ServeAmounts, ServerUnchanged, Serves
<1>7. ASSUME NEW stage \in {"ok", "error"}, Answer(m, stage, {}), listed' = listed
      PROVE  \E n : Replies(m, n) /\ n.stage = stage /\ n.board = {}
  BY <1>5, <1>7
<1>8. CASE ServeStatus(m)
  <2>1. PICK n : Replies(m, n) /\ n.stage = "ok" /\ n.board = {}
    BY <1>7, <1>8 DEF ServeStatus
  <2> QED BY <1>8, <2>1 DEF ServeStatus, Serves
<1>9. CASE ServeAdd(m)
  <2>1. PICK n : Replies(m, n) /\ n.stage = "ok" /\ n.board = {}
    BY <1>7, <1>9 DEF ServeAdd
  <2> QED BY <1>9, <2>1 DEF ServeAdd, Serves
<1>10. CASE ServeCheckout(m) \/ ServeOther(m)
  <2>1. PICK n : Replies(m, n) /\ n.stage = "ok" /\ n.board = {}
    BY <1>7, <1>10 DEF ServeCheckout, ServeOther, ServerUnchanged
  <2> QED BY <1>10, <2>1 DEF ServeCheckout, ServeOther, ServerUnchanged, Serves
<1>11. CASE Reject(m)
  <2>1. PICK n : Replies(m, n) /\ n.stage = "error" /\ n.board = {}
    BY <1>7, <1>11 DEF Reject, ServerUnchanged
  <2> QED BY <1>11, <2>1 DEF Reject, ServerUnchanged, Serves
<1> QED BY <1>6, <1>8, <1>9, <1>10, <1>11 DEF Serve

-----------------------------------------------------------------------------
(* Every step of the system has one of the shapes above.                   *)

LEMMA NextShape ==
    ASSUME Real, OneProposal, Next
    PROVE  \/ \E s \in Screens : UserStep(s)
           \/ \E m \in net : Delivers(m) \/ Fails(m) \/ \E n : Serves(m, n)
           \/ \E k \in Milestones : PayAtCheckout(k)
  BY UserSteps, DeliverStep, FailStep, ServeStep DEF Next, Network

LEMMA ScreensAfter ==
    ASSUME Real, NEW s \in Screens, NEW v, Update(s, v)
    PROVE  \A t \in Screens : ui'[t] = IF t = s THEN v ELSE ui[t]
  BY DEF Real, TypeOK, Update

LEMMA MessageFacts ==
    ASSUME Real, NEW m \in net
    PROVE  /\ m \in Message /\ m.from \in Screens /\ m.kind \in Kinds
           /\ m.prop \in Proposals /\ m.keys \in SUBSET Milestones
           /\ m.board \in SUBSET Row /\ ui[m.from] \in Screen
           /\ m.id \in Nat /\ m.r \in BOOLEAN /\ m.status \in Status
           /\ m.stage \in {"sent", "ok", "error"}
  BY DEF Real, TypeOK, Message

LEMMA RequestFields ==
    ASSUME NEW ms, NEW s, NEW kind, NEW p, NEW keys, NEW st, NEW r
    PROVE  LET n == Request(ms, s, kind, p, keys, st, r)
           IN  /\ n.id = NextId(ms, s) /\ n.from = s /\ n.kind = kind
               /\ n.prop = p /\ n.keys = keys /\ n.status = st /\ n.r = r
               /\ n.stage = "sent" /\ n.board = {}
  BY DEF Request

\* What a user's step adds to the network.
LEMMA SentBy ==
    ASSUME NEW s, NEW kind, NEW keys, NEW st, Send(s, kind, keys, st)
    PROVE  \E n : /\ net' = net \union {n} /\ n.from = s /\ n.kind = kind
                  /\ n.prop = ui[s].selected /\ n.keys = keys /\ n.status = st
                  /\ n.stage = "sent" /\ n.board = {} /\ n.id = NextId(net, s)
<1> DEFINE n == Request(net, s, kind, ui[s].selected, keys, st, ui[s].refreshList)
<1>1. net' = net \union {n}
  BY DEF Send
<1>2. /\ n.from = s /\ n.kind = kind /\ n.prop = ui[s].selected /\ n.keys = keys
      /\ n.status = st /\ n.stage = "sent" /\ n.board = {} /\ n.id = NextId(net, s)
  BY RequestFields
<1> HIDE DEF n
<1> QED BY <1>1, <1>2

LEMMA RefreshBy ==
    ASSUME NEW ms, NEW s, NEW p, NEW r
    PROVE  \E n : /\ GetUpdatedAmounts(ms, s, p, r) = ms \union {n}
                  /\ n.from = s /\ n.kind = "amounts" /\ n.prop = p /\ n.keys = {}
                  /\ n.stage = "sent" /\ n.board = {} /\ n.id = NextId(ms, s)
<1> DEFINE n == Request(ms, s, "amounts", p, {}, "", r)
<1>1. GetUpdatedAmounts(ms, s, p, r) = ms \union {n}
  BY DEF GetUpdatedAmounts
<1>2. /\ n.from = s /\ n.kind = "amounts" /\ n.prop = p /\ n.keys = {}
      /\ n.stage = "sent" /\ n.board = {} /\ n.id = NextId(ms, s)
  BY DEF Request
<1> HIDE DEF n
<1> QED BY <1>1, <1>2

\* What Deliver leaves in the network.
LEMMA DeliveredNet ==
    ASSUME NEW m \in net, Delivers(m)
    PROVE  \/ ~Refreshes(m) /\ net' = net \ {m}
           \/ /\ Refreshes(m)
              /\ \E n : /\ net' = (net \ {m}) \union {n} /\ n.from = m.from
                        /\ n.kind = "amounts" /\ n.prop = m.prop /\ n.keys = {}
                        /\ n.stage = "sent" /\ n.board = {}
                        /\ n.id = NextId(net \ {m}, m.from)
<1>1. CASE Refreshes(m)
  <2>1. net' = GetUpdatedAmounts(net \ {m}, m.from, m.prop, m.r)
    BY <1>1 DEF Delivers
  <2> QED BY <1>1, <2>1, RefreshBy
<1> QED BY <1>1 DEF Delivers

-----------------------------------------------------------------------------
(* A screen shows one proposal at a time.                                  *)

LEMMA BoardOf == ASSUME NEW st, NEW p PROVE Of(Board(st, p), p)
  BY DEF Of, Board

LEMMA PaintedRender ==
    ASSUME NEW u \in Screen, u.painted = u.rows PROVE Render(u) = u
  BY DEF Render, Screen

LEMMA PushedRows ==
    ASSUME NEW m
    PROVE  /\ \A row \in Pushed(m) :
                 row.key \in m.keys /\ row.status = "" /\ row.src = "added"
           /\ \A k \in m.keys : \E row \in Pushed(m) : row.key = k /\ row.status = ""
<1> DEFINE new(k) == [key |-> k, status |-> "", src |-> "added"]
<1>1. Pushed(m) = {new(k) : k \in m.keys}
  BY DEF Pushed
<1>2. \A k : new(k).key = k /\ new(k).status = "" /\ new(k).src = "added"
  OBVIOUS
<1> HIDE DEF new
<1> QED BY <1>1, <1>2

\* The first request of every screen.
LEMMA InitNet ==
    ASSUME Init
    PROVE  /\ \A m \in net :
                 /\ m.from \in Screens /\ m.kind = "amounts" /\ m.stage = "sent"
                 /\ m.board = {} /\ m.keys = {} /\ m.id = NextId({}, m.from)
                 /\ \A n \in net : n.from = m.from => n = m
           /\ \A s \in Screens : \E m \in net : m.from = s
<1>1. PICK sel \in [Screens -> Proposals], disputed \in SUBSET Proposals :
         net = UNION {GetUpdatedAmounts({}, s, sel[s], FALSE) : s \in Screens}
  BY DEF Init
<1> DEFINE First(s) == Request({}, s, "amounts", sel[s], {}, "", FALSE)
<1>2. \A s \in Screens : GetUpdatedAmounts({}, s, sel[s], FALSE) = {First(s)}
  BY DEF GetUpdatedAmounts
<1>3. \A s \in Screens :
         /\ First(s).from = s /\ First(s).kind = "amounts" /\ First(s).stage = "sent"
         /\ First(s).board = {} /\ First(s).keys = {} /\ First(s).id = NextId({}, s)
  BY DEF Request
<1> HIDE DEF First
<1>4. ASSUME NEW m \in net PROVE \E s \in Screens : m = First(s)
  <2>1. PICK s \in Screens : m \in GetUpdatedAmounts({}, s, sel[s], FALSE)
    BY <1>1, <1>4
  <2> QED BY <1>2, <2>1
<1>5. \A s \in Screens : First(s) \in net
  BY <1>1, <1>2
<1> QED BY <1>3, <1>4, <1>5

\* What a screen shows first.
LEMMA Opens ==
    ASSUME Init, NEW s \in Screens, NEW p \in Proposals,
           NEW disputed \in SUBSET Proposals
    PROVE  LET v == Opened(s, p, {}, disputed)
           IN  /\ v.selected = p /\ v.open = {} /\ v.focused
               /\ v.rows = Board(listed, p)
               /\ v.painted \in {{}, Board(listed, p)}
<1> DEFINE u == [selected |-> p, rows |-> {}, painted |-> {},
                 refreshList |-> FALSE, loader |-> FALSE, loading |-> FALSE,
                 open |-> {}, focused |-> TRUE, declineItem |-> {},
                 escrowKey |-> NoKey, draft |-> 0, issue |-> FALSE,
                 completable |-> FALSE, ended |-> {}, disputed |-> disputed]
<1>1. u \in Screen /\ u.selected = p /\ u.rows = {} /\ u.open = {} /\ u.focused
  BY DEF Screen
<1>5. u.painted = u.rows
  OBVIOUS
<1>2. Opened(s, p, {}, disputed) = Effect(u)
  BY DEF Opened
<1> HIDE DEF u
<1>4. u = Render(u)
  BY <1>1, <1>5, PaintedRender
<1>3. Board(listed, p) \in SUBSET Row
  BY BoardReal, InitReal DEF Real, TypeOK, RealServer
<1> QED BY <1>1, <1>2, <1>3, <1>4, EffectRows

LEMMA InitOneProposal == Init => OneProposal
<1> SUFFICES ASSUME Init PROVE OneProposal
  OBVIOUS
<1>1. PICK sel \in [Screens -> Proposals], disputed \in SUBSET Proposals :
         /\ \A s \in Screens : sel[s] \in Listed[s]
         /\ ui = [s \in Screens |-> Opened(s, sel[s], {}, disputed)]
         /\ net = UNION {GetUpdatedAmounts({}, s, sel[s], FALSE) : s \in Screens}
  BY DEF Init
<1>2. ASSUME NEW s \in Screens
      PROVE  /\ ui[s].selected = sel[s] /\ ui[s].open = {}
             /\ ui[s].rows = Board(listed, sel[s])
             /\ ui[s].painted \in {{}, Board(listed, sel[s])}
  <2>1. ui[s] = Opened(s, sel[s], {}, disputed) /\ sel[s] \in Proposals
    BY <1>1
  <2> QED BY <2>1, Opens
<1>3. \A s \in Screens : ScreenOf(s, ui[s])
  <2> TAKE s \in Screens
  <2>1. Of(Board(listed, sel[s]), sel[s]) /\ Of({}, sel[s])
    BY BoardOf DEF Of
  <2> QED BY <1>1, <1>2, <2>1 DEF ScreenOf
<1>4. \A m \in net : MessageOf(m, ui[m.from].selected)
  <2> TAKE m \in net
  <2>1. PICK s \in Screens : m \in GetUpdatedAmounts({}, s, sel[s], FALSE)
    BY <1>1
  <2>2. m = Request({}, s, "amounts", sel[s], {}, "", FALSE)
    BY <2>1 DEF GetUpdatedAmounts
  <2>3. m.from = s /\ m.kind = "amounts" /\ m.prop = sel[s] /\ m.board = {}
    BY <2>2 DEF Request
  <2> QED BY <1>1, <1>2, <2>3 DEF MessageOf, Of
<1> QED BY <1>3, <1>4 DEF OneProposal

\* Rows that are kept are of the same proposal.
LEMMA KeptOf ==
    ASSUME NEW s, NEW u, NEW v, ScreenOf(s, u), Kept(s, u, v)
    PROVE  ScreenOf(s, v) /\ v.selected = u.selected
  BY DEF ScreenOf, Kept

\* A step that changes screen s and no screen's proposal, and the network.
LEMMA OneProposalStep ==
    ASSUME Real, OneProposal, NEW s \in Screens, NEW v, Update(s, v), ScreenOf(s, v),
           v.selected = ui[s].selected \/ s \in Buyers,
           \A m \in net' : m \in net \/ (m.from = s /\ MessageOf(m, v.selected))
    PROVE  OneProposal'
<1>1. \A t \in Screens : ui'[t] = IF t = s THEN v ELSE ui[t]
  BY ScreensAfter
<1>2. \A t \in Screens : ScreenOf(t, ui'[t])
  BY <1>1 DEF OneProposal
<1>3. ASSUME NEW m \in net' PROVE MessageOf(m, ui'[m.from].selected)
  <2>1. CASE m.from = s /\ MessageOf(m, v.selected)
    BY <1>1, <2>1
  <2>2. CASE m \in net
    BY <1>1, <2>2, MessageFacts DEF OneProposal, MessageOf
  <2> QED BY <1>3, <2>1, <2>2
<1> QED BY <1>2, <1>3 DEF OneProposal, ScreenOf, MessageOf, Of

LEMMA UserOneProposal ==
    ASSUME Real, OneProposal, NEW s \in Screens, UserStep(s) PROVE OneProposal'
<1>0. ScreenOf(s, ui[s])
  BY DEF OneProposal
<1>1. CASE Looks(s)
  BY <1>0, <1>1, KeptOf, OneProposalStep DEF Looks
<1>2. ASSUME NEW kind, NEW keys, NEW st, Asks(s, kind, keys, st) PROVE OneProposal'
  <2>1. PICK v : Update(s, v) /\ Kept(s, ui[s], v)
    BY <1>2 DEF Asks
  <2>2. PICK n : /\ net' = net \union {n} /\ n.from = s /\ n.kind = kind
                 /\ n.prop = ui[s].selected /\ n.keys = keys /\ n.board = {}
    BY <1>2, SentBy DEF Asks
  <2>3. kind = "add" => s \notin Buyers /\ \A k \in keys : Owner[k] = ui[s].selected
    BY <1>2 DEF Asks, FreshKeys
  <2>4. MessageOf(n, ui[s].selected)
    BY <1>0, <2>2, <2>3 DEF MessageOf, ScreenOf, Of
  <2> QED BY <1>0, <2>1, <2>2, <2>4, KeptOf, OneProposalStep
<1>3. ASSUME NEW p \in Proposals, Reloads(s, p) PROVE OneProposal'
  <2>1. PICK v : /\ Update(s, v)
                 /\ v.rows = Board(listed, p) /\ v.painted \in {ui[s].rows, v.rows}
                 /\ v.selected = p /\ v.open = ui[s].open
    BY <1>3 DEF Reloads
  <2>2. p \in Listed[s] /\ (p = ui[s].selected \/ s \in Buyers)
    BY <1>0, <1>3 DEF Reloads, ScreenOf
  <2>3. PICK n : /\ net' = net \union {n} /\ n.from = s /\ n.kind = "amounts"
                 /\ n.prop = p /\ n.board = {}
    BY <1>3, RefreshBy DEF Reloads
  <2>4. MessageOf(n, p)
    BY <2>2, <2>3 DEF MessageOf, Of
  <2>5. Of(v.rows, p)
    BY <2>1, BoardOf
  <2>6. ScreenOf(s, v)
    BY <1>0, <2>1, <2>2, <2>5 DEF ScreenOf
  <2> QED BY <2>1, <2>2, <2>3, <2>4, <2>6, OneProposalStep
<1> QED BY <1>1, <1>2, <1>3 DEF UserStep

LEMMA DeliverOneProposal ==
    ASSUME Real, OneProposal, NEW m \in net, Delivers(m) PROVE OneProposal'
<1> DEFINE s == m.from
           u == ui[s]
<1>1. PICK v : Update(s, v) /\ Answered(u, m, v)
  BY DEF Delivers
<1>2. s \in Screens /\ m.prop \in Proposals /\ m.keys \in SUBSET Milestones
  BY MessageFacts
<1>3. ScreenOf(s, u) /\ MessageOf(m, u.selected)
  BY <1>2 DEF OneProposal
<1>4. m.kind = "add" => Of(u.rows \union Pushed(m), u.selected)
  <2>1. m.kind = "add" => Of(Pushed(m), m.prop)
    BY <1>3, PushedRows DEF MessageOf, Of
  <2> HIDE DEF u
  <2> QED BY <1>3, <2>1 DEF MessageOf, ScreenOf, Of
<1>5. u.selected \in Proposals
  BY <1>2, ScreenFacts DEF Screen
<1>6. \E p \in Proposals : Of(v.rows, p)
  BY <1>1, <1>2, <1>3, <1>4, <1>5 DEF Answered, MessageOf, ScreenOf, Created
<1>7. s \notin Buyers => Of(v.rows, u.selected)
  BY <1>1, <1>3, <1>4 DEF Answered, MessageOf, ScreenOf, Created
<1>8. ScreenOf(s, v) /\ v.selected = u.selected
  BY <1>1, <1>3, <1>6, <1>7 DEF Answered, ScreenOf
<1>9. \A n \in net' : n \in net \/ (n.from = s /\ MessageOf(n, v.selected))
  BY <1>3, <1>8, DeliveredNet DEF MessageOf, Of
<1> QED BY <1>1, <1>2, <1>8, <1>9, OneProposalStep

LEMMA StepOneProposal == Real /\ OneProposal /\ [Next]_vars => OneProposal'
<1> SUFFICES ASSUME Real, OneProposal, [Next]_vars PROVE OneProposal'
  OBVIOUS
<1>1. CASE UNCHANGED vars
  BY <1>1 DEF vars, OneProposal, ScreenOf, MessageOf, Of
<1>2. ASSUME NEW m \in net, Fails(m) PROVE OneProposal'
  <2>1. PICK v : Update(m.from, v) /\ Kept(m.from, ui[m.from], v)
    BY <1>2 DEF Fails
  <2>2. m.from \in Screens /\ net' = net \ {m}
    BY <1>2, MessageFacts DEF Fails
  <2>3. ScreenOf(m.from, v) /\ v.selected = ui[m.from].selected
    BY <2>1, <2>2, KeptOf DEF OneProposal
  <2> QED BY <2>1, <2>2, <2>3, OneProposalStep
<1>3. ASSUME NEW m \in net, NEW n, Serves(m, n) PROVE OneProposal'
  <2>1. Of(n.board, m.prop)
    BY <1>3, BoardOf DEF Serves, Of
  <2>2. /\ ui' = ui /\ n.kind = m.kind /\ n.from = m.from /\ n.prop = m.prop
        /\ n.keys = m.keys /\ net' = (net \ {m}) \union {n}
    BY <1>3 DEF Serves, Replies
  <2>3. MessageOf(n, ui[n.from].selected)
    BY <2>1, <2>2 DEF OneProposal, MessageOf
  <2> QED BY <2>2, <2>3 DEF OneProposal, ScreenOf, MessageOf, Of
<1>4. ASSUME NEW k \in Milestones, PayAtCheckout(k) PROVE OneProposal'
  BY <1>4 DEF PayAtCheckout, OneProposal, ScreenOf, MessageOf, Of
<1> QED
  BY <1>1, <1>2, <1>3, <1>4, NextShape, UserOneProposal, DeliverOneProposal

\* The screens and the requests keep to their proposals.
THEOREM ProposalsApart == Spec => [](Real /\ OneProposal)
  BY InitReal, StepReal, InitOneProposal, StepOneProposal, PTL DEF Spec

\* Two proposals never mix on a screen: whatever the order of the answers,
\* the rows it holds and the rows it paints are of one (getUpdatedAmounts,
\* the effect on selectedItem, handelAddNewMileStone).
THEOREM BoardsApart == Spec => []SingleBoard
<1>1. OneProposal => SingleBoard
  BY DEF OneProposal, ScreenOf, Of, SingleBoard
<1> QED BY <1>1, ProposalsApart, PTL

-----------------------------------------------------------------------------
(* One payment at a time.                                                  *)

LEMMA UserBlocks ==
    ASSUME Real, PaymentBlocksScreen, NEW s \in Screens, UserStep(s)
    PROVE  PaymentBlocksScreen'
<1>1. \A t \in Screens : hist'[t].failed = hist[t].failed
  BY DEF UserStep, HistKept
<1>2. \A m \in net : m.from \in Screens
  BY MessageFacts
<1>3. CASE Looks(s)
  <2>1. PICK v : Update(s, v) /\ (ui[s].loader => v.loader)
    BY <1>3 DEF Looks
  <2>2. \A t \in Screens : ui'[t] = IF t = s THEN v ELSE ui[t]
    BY <2>1, ScreensAfter
  <2> QED BY <1>1, <1>2, <1>3, <2>1, <2>2 DEF Looks, PaymentBlocksScreen
<1>4. ASSUME NEW kind, NEW keys, NEW st, Asks(s, kind, keys, st)
      PROVE  PaymentBlocksScreen'
  <2>1. PICK v : /\ Update(s, v)
                 /\ IF kind \in OverlayKinds THEN ~ui[s].loader /\ v.loader
                                             ELSE ui[s].loader => v.loader
    BY <1>4 DEF Asks
  <2>2. \A t \in Screens : ui'[t] = IF t = s THEN v ELSE ui[t]
    BY <2>1, ScreensAfter
  <2>3. PICK n : net' = net \union {n} /\ n.from = s /\ n.kind = kind
    BY <1>4, SentBy DEF Asks
  <2>4. ASSUME kind \in OverlayKinds, ~hist[s].failed
        PROVE  \A m \in net : m.from = s => m.kind \notin OverlayKinds
    BY <2>1, <2>4 DEF PaymentBlocksScreen
  <2> QED BY <1>1, <1>2, <2>1, <2>2, <2>3, <2>4 DEF PaymentBlocksScreen
<1>5. ASSUME NEW p \in Proposals, Reloads(s, p) PROVE PaymentBlocksScreen'
  <2>1. PICK v : Update(s, v) /\ v.loader = ui[s].loader
    BY <1>5 DEF Reloads
  <2>2. \A t \in Screens : ui'[t] = IF t = s THEN v ELSE ui[t]
    BY <2>1, ScreensAfter
  <2>3. PICK n : net' = net \union {n} /\ n.kind = "amounts"
    BY <1>5, RefreshBy DEF Reloads
  <2>4. n.kind \notin OverlayKinds
    BY <2>3 DEF OverlayKinds
  <2> QED BY <1>1, <1>2, <2>1, <2>2, <2>3, <2>4 DEF PaymentBlocksScreen
<1> QED BY <1>3, <1>4, <1>5 DEF UserStep

LEMMA DeliverBlocks ==
    ASSUME Real, PaymentBlocksScreen, NEW m \in net, Delivers(m)
    PROVE  PaymentBlocksScreen'
<1>1. m.from \in Screens /\ \A n \in net : n.from \in Screens
  BY MessageFacts
<1>2. PICK v : Update(m.from, v) /\ Answered(ui[m.from], m, v)
  BY DEF Delivers
<1>3. \A t \in Screens : ui'[t] = IF t = m.from THEN v ELSE ui[t]
  BY <1>1, <1>2, ScreensAfter
<1>4. \A n \in net' : n.kind \in OverlayKinds => n \in net /\ n # m
  BY DeliveredNet DEF OverlayKinds
<1>5. \A t \in Screens : hist'[t].failed = hist[t].failed
  BY DEF Delivers
<1>6. ui[m.from].loader /\ ~v.loader => m.kind \in OverlayKinds
  BY <1>2 DEF Answered
<1> QED BY <1>1, <1>3, <1>4, <1>5, <1>6 DEF PaymentBlocksScreen

LEMMA ServeBlocks ==
    ASSUME Real, PaymentBlocksScreen, NEW m \in net, NEW n, Serves(m, n)
    PROVE  PaymentBlocksScreen'
<1>1. m.from \in Screens /\ \A x \in net : x.from \in Screens
  BY MessageFacts
<1>2. /\ net' = (net \ {m}) \union {n} /\ n.from = m.from /\ n.kind = m.kind
      /\ ui' = ui /\ \A t \in Screens : hist'[t].failed = hist[t].failed
  BY DEF Serves, Replies
<1> QED BY <1>1, <1>2 DEF PaymentBlocksScreen

LEMMA FailBlocks ==
    ASSUME Real, PaymentBlocksScreen, NEW m \in net, Fails(m)
    PROVE  PaymentBlocksScreen'
<1>1. m.from \in Screens /\ \A x \in net : x.from \in Screens
  BY MessageFacts
<1>2. PICK v : Update(m.from, v)
  BY DEF Fails
<1>3. \A t \in Screens : ui'[t] = IF t = m.from THEN v ELSE ui[t]
  BY <1>1, <1>2, ScreensAfter
<1>4. \A t \in Screens : hist'[t].failed = (hist[t].failed \/ t = m.from)
  BY DEF Fails
<1>5. net' = net \ {m}
  BY DEF Fails
<1> QED BY <1>1, <1>3, <1>4, <1>5 DEF PaymentBlocksScreen

LEMMA InitBlocks == Init => PaymentBlocksScreen
<1> SUFFICES ASSUME Init PROVE PaymentBlocksScreen
  OBVIOUS
<1> QED BY InitNet DEF PaymentBlocksScreen, OverlayKinds

LEMMA StepBlocks ==
    Real /\ OneProposal /\ PaymentBlocksScreen /\ [Next]_vars => PaymentBlocksScreen'
<1> SUFFICES ASSUME Real, OneProposal, PaymentBlocksScreen, [Next]_vars
             PROVE  PaymentBlocksScreen'
  OBVIOUS
<1>1. ASSUME NEW k \in Milestones, PayAtCheckout(k) PROVE PaymentBlocksScreen'
  BY <1>1 DEF PayAtCheckout, PaymentBlocksScreen
<1>2. CASE UNCHANGED vars
  BY <1>2 DEF vars, PaymentBlocksScreen
<1> QED
  BY <1>1, <1>2, NextShape, UserBlocks, DeliverBlocks, ServeBlocks, FailBlocks

\* The overlay of hireAndPay and of the other blocking requests does its work:
\* as long as no request of the screen met a network error, it is up while
\* such a request is in flight, and that request is the only one.
THEOREM PaymentsOneAtATime == Spec => []PaymentBlocksScreen
  BY ProposalsApart, InitBlocks, StepBlocks, PTL DEF Spec

-----------------------------------------------------------------------------
(* The screens implement the contract.                                     *)

LEMMA InitOneKey == Init => OneKey
<1> SUFFICES ASSUME Init PROVE OneKey
  OBVIOUS
<1> QED BY InitNet DEF OneKey

LEMMA StepOneKey == Real /\ OneProposal /\ OneKey /\ [Next]_vars => OneKey'
<1> SUFFICES ASSUME Real, OneProposal, OneKey, [Next]_vars PROVE OneKey'
  OBVIOUS
<1>1. ASSUME NEW s \in Screens, UserStep(s) PROVE OneKey'
  <2>1. CASE Looks(s)
    BY <2>1 DEF Looks, OneKey
  <2>2. ASSUME NEW kind, NEW keys, NEW st, Asks(s, kind, keys, st) PROVE OneKey'
    <3>1. kind \in {"status", "pay"} => \E k \in Milestones : keys = {k}
      BY <2>2 DEF Asks
    <3> QED BY <2>2, <3>1, SentBy DEF Asks, OneKey
  <2>3. ASSUME NEW p \in Proposals, Reloads(s, p) PROVE OneKey'
    BY <2>3, RefreshBy DEF Reloads, OneKey
  <2> QED BY <1>1, <2>1, <2>2, <2>3 DEF UserStep
<1>2. ASSUME NEW m \in net, Delivers(m) PROVE OneKey'
  BY <1>2, DeliveredNet DEF OneKey
<1>3. ASSUME NEW m \in net, Fails(m) PROVE OneKey'
  BY <1>3 DEF Fails, OneKey
<1>4. ASSUME NEW m \in net, NEW n, Serves(m, n) PROVE OneKey'
  BY <1>4 DEF Serves, Replies, OneKey
<1>5. ASSUME NEW k \in Milestones, PayAtCheckout(k) PROVE OneKey'
  BY <1>5 DEF PayAtCheckout, OneKey
<1>6. CASE UNCHANGED vars
  BY <1>6 DEF vars, OneKey
<1> QED BY <1>1, <1>2, <1>3, <1>4, <1>5, <1>6, NextShape

\* A write of one key is a step of the contract.
LEMMA WriteAdvances ==
    ASSUME NEW k \in Milestones, NEW st \in Status, was \in [Milestones -> SUBSET Status],
           Write({k}, st), was[k] \intersect Contract!Before(st) # {}
    PROVE  Contract!Next
<1>1. was' = [was EXCEPT ![k] = @ \union {st}]
  BY DEF Write
<1> QED BY <1>1 DEF Contract!Next, Contract!Advance, Status

LEMMA WriteProposes ==
    ASSUME NEW keys \in SUBSET Milestones, Write(keys, "")
    PROVE  Contract!Next
  BY DEF Write, Contract!Next, Contract!Propose

LEMMA StepContract ==
    Real /\ OneProposal /\ OneKey /\ [Next]_vars => [Contract!Next]_was
<1> SUFFICES ASSUME Real, OneProposal, OneKey, [Next]_vars PROVE [Contract!Next]_was
  OBVIOUS
<1>1. ASSUME NEW m \in net, NEW n, Serves(m, n) PROVE [Contract!Next]_was
  <2>1. /\ m.keys \in SUBSET Milestones /\ m.status \in Status /\ RealMessage(m, was)
        /\ was \in [Milestones -> SUBSET Status]
    BY MessageFacts DEF Real, TypeOK
  <2>2. CASE m.kind \in {"status", "pay"} /\ Write(m.keys, m.status)
    <3>1. PICK k \in Milestones : m.keys = {k}
      BY <2>2 DEF OneKey
    <3>2. was[k] \intersect Contract!Before(m.status) # {}
      BY <2>1, <2>2, <3>1 DEF RealMessage
    <3> QED BY <2>1, <2>2, <3>1, <3>2, WriteAdvances
  <2>3. CASE m.kind = "add" /\ Write(m.keys, "")
    BY <2>1, <2>3, WriteProposes
  <2> QED BY <1>1, <2>2, <2>3 DEF Serves
<1>2. ASSUME NEW k \in Milestones, PayAtCheckout(k) PROVE [Contract!Next]_was
  <2>1. k \in unpaid /\ Write({k}, "hired")
    BY <1>2 DEF PayAtCheckout
  <2>2. "" \in was[k] /\ was \in [Milestones -> SUBSET Status]
    BY <2>1 DEF Real, RealServer, TypeOK
  <2> QED BY <2>1, <2>2, StatusFacts, WriteAdvances
<1>3. CASE UNCHANGED vars
  BY <1>3 DEF vars
<1>4. ASSUME NEW s \in Screens, UserStep(s) PROVE [Contract!Next]_was
  BY <1>4 DEF UserStep, ServerUnchanged
<1>5. ASSUME NEW m \in net, Delivers(m) \/ Fails(m) PROVE [Contract!Next]_was
  BY <1>5 DEF Delivers, Fails, ServerUnchanged
<1> QED BY <1>1, <1>2, <1>3, <1>4, <1>5, NextShape

LEMMA InitContract == Init => Contract!Init
<1> SUFFICES ASSUME Init PROVE Contract!Init
  OBVIOUS
<1>1. status \in [Milestones -> Status \union {"absent"}]
  BY InitReal DEF Real, TypeOK, Absent
<1>2. was = [k \in Milestones |-> Contract!Past(status[k])]
  BY DEF Init
<1> QED BY <1>1, <1>2 DEF Contract!Init, Status

\* The screens of a project, with their stale rows and their unordered
\* answers, implement the life cycle of a milestone contract: every step is a
\* proposal of new milestones, a step of one milestone to a status that a
\* status it had leads to, or none.
THEOREM ContractImplemented == Spec => ImplementsContract
<1>1. Init => OneKey /\ Contract!Init
  BY InitOneKey, InitContract
<1> QED
  BY <1>1, ProposalsApart, StepOneKey, StepContract, PTL
  DEF Spec, ImplementsContract, Contract!Spec

-----------------------------------------------------------------------------
(* Whose rows a screen shows, each once, and when they are the server's.   *)
(* The state is a parameter of these definitions: st is the server's       *)
(* statuses, ms the requests in flight, u the state of screen s.           *)

\* The requests of a screen are numbered apart, and there is a last one; a
\* refresh is never rejected.
Queued(ms) ==
    /\ \A m \in ms : m.id >= 1 /\ (m.kind = "amounts" => m.stage # "error")
    /\ \A m, n \in ms : m.from = n.from /\ m.id = n.id => m = n
    /\ \A s \in Screens : \E b \in Nat :
          \A m \in ms : m.from = s => m.id <= b

\* A screen on which nobody has tapped only refreshes.
Onlookers ==
    /\ \A s \in Screens : taps[s] = 0 => ui[s].focused
    /\ \A m \in net : taps[m.from] = 0 => m.kind = "amounts"

Single(rows) == \A a, b \in rows : a.key = b.key => a = b

\* No other request, no listing and not the server has the keys drawn for new
\* milestones.
KeysDrawn ==
    /\ \A k \in Milestones : was[k] # {} => status[k] # Absent
    /\ \A m \in net : Single(m.board)
    /\ \A m \in net : m.kind = "add" =>
          /\ \A k \in m.keys : listed[k] = Absent
          /\ m.stage = "sent" => \A k \in m.keys : status[k] = Absent
          /\ \A n \in net : n.kind = "add" /\ n # m => m.keys \intersect n.keys = {}

\* The requests of a screen were served in the order they were sent.
ServedInOrder(ms, s) ==
    \A m, n \in ms :
        m.from = s /\ n.from = s /\ m.stage # "sent" /\ n.stage = "sent"
            => m.id < n.id

\* What the answer of a create will push is not on the screen yet, nor in a
\* refresh that must arrive before it.
RowsOnce(ms, s, u) ==
    /\ Single(u.rows)
    /\ \A m \in ms : m.from = s /\ Created(m) =>
          /\ \A row \in u.rows : row.key \notin m.keys
          /\ \A n \in ms : n.from = s /\ n.id < m.id =>
                \A row \in n.board : row.key \notin m.keys

\* A row of milestone k with status x; a create after request i that will push k.
Holds(rows, k, x) == \E row \in rows : row.key = k /\ row.status = x
Awaits(ms, s, i, k) ==
    \E m \in ms : m.from = s /\ Created(m) /\ i < m.id /\ k \in m.keys

\* The rows, with those that the creates sent after request i will push, are
\* the server's rows of proposal p.
Pictures(st, ms, s, rows, i, p) ==
    \A k \in Milestones, x \in Status :
        Owner[k] = p /\ st[k] = x <=> Holds(rows, k, x) \/ (x = "" /\ Awaits(ms, s, i, k))

Refresh(m, s, stage) == m.from = s /\ m.kind = "amounts" /\ m.stage = stage

\* The rows of a screen are the server's, or will be: by a refresh that has
\* not been served, by one that follows an answer, or by the last one served.
Coming(ms, s)   == \E m \in ms : Refresh(m, s, "sent")
Following(ms, s) == \E m \in ms : m.from = s /\ Refreshes(m)
Shows(st, ms, s, u) ==
    /\ \A m \in ms : ~Refresh(m, s, "ok")
    /\ \E p \in Listed[s] : /\ s \notin Buyers => p = u.selected
                            /\ Pictures(st, ms, s, u.rows, 0, p)
Carries(st, ms, s) ==
    \E m \in ms :
        /\ Refresh(m, s, "ok")
        /\ \A n \in ms : Refresh(n, s, "ok") => n.id <= m.id
        /\ Pictures(st, ms, s, m.board, m.id, m.prop)

Current(st, ms, s, u) ==
    Coming(ms, s) \/ Following(ms, s) \/ Shows(st, ms, s, u) \/ Carries(st, ms, s)

\* The invariant of the rows.
RowsOf(s) ==
    ~hist[s].crossed =>
        /\ ServedInOrder(net, s) /\ RowsOnce(net, s, ui[s])
        /\ OnlyWriter(s) /\ ui[s].focused /\ ~hist[s].failed =>
              Current(status, net, s, ui[s])

Tracked ==
    /\ Real /\ OneProposal /\ Queued(net) /\ Onlookers /\ KeysDrawn
    /\ \A s \in Screens : RowsOf(s)

-----------------------------------------------------------------------------
(* Requests are numbered.                                                  *)

\* A bounded set of natural numbers has a largest element.
LEMMA BoundedMax ==
    ASSUME NEW ids \in SUBSET Nat, ids # {}, NEW b \in Nat, \A i \in ids : i <= b
    PROVE  \E i \in ids : \A j \in ids : j <= i
<1> DEFINE T == {b - i : i \in ids}
           R == OpToRel(<, Nat)
<1>1. T \subseteq Nat /\ T # {}
  <2>1. \A i \in ids : i \in Nat /\ b - i \in Nat
    OBVIOUS
  <2>2. PICK i \in ids : TRUE
    OBVIOUS
  <2>3. b - i \in T
    OBVIOUS
  <2> QED BY <2>1, <2>3
<1>2. IsWellFoundedOn(R, Nat)
  BY NatLessThanWellFounded
<1> HIDE DEF R, T
<1>3. PICK x \in T : \A y \in T : ~(<<y, x>> \in R)
  BY <1>1, <1>2, WFMin
<1>4. \A y \in T : ~(y < x)
  BY <1>1, <1>3 DEF R, OpToRel
<1>5. PICK i \in ids : x = b - i
  BY DEF T
<1>6. ASSUME NEW j \in ids PROVE j <= i
  <2>1. b - j \in T /\ ~(b - j < b - i)
    BY <1>4, <1>5 DEF T
  <2>2. i \in Nat /\ j \in Nat
    OBVIOUS
  <2> QED BY <2>1, <2>2
<1> QED BY <1>6

LEMMA NextIdFresh ==
    ASSUME NEW ms \in SUBSET Message, Queued(ms), NEW s \in Screens
    PROVE  /\ NextId(ms, s) \in Nat /\ NextId(ms, s) >= 1
           /\ \A m \in ms : m.from = s => m.id < NextId(ms, s)
<1> DEFINE ids    == {m.id : m \in {m \in ms : m.from = s}}
           newest == {i \in ids : \A j \in ids : j <= i}
<1>1. \A m \in ms : m.id \in Nat /\ m.id >= 1
  BY DEF Message, Queued
<1>2. \A m \in ms : m.from = s => m.id \in ids
  OBVIOUS
<1>3. ids \in SUBSET Nat /\ \A i \in ids : i >= 1
  BY <1>1
<1>4. PICK b \in Nat : \A m \in ms : m.from = s => m.id <= b
  BY DEF Queued
<1>5. \A i \in ids : i <= b
  BY <1>4
<1>6. NextId(ms, s) = IF newest = {} THEN 1 ELSE 1 + CHOOSE i \in newest : TRUE
  BY DEF NextId
<1> HIDE DEF ids
<1>7. CASE ids = {}
  BY <1>2, <1>6, <1>7
<1>8. CASE ids # {}
  <2>1. newest # {}
    BY <1>3, <1>5, <1>8, BoundedMax
  <2>2. PICK i \in newest : NextId(ms, s) = 1 + i
    BY <1>6, <2>1
  <2>3. i \in Nat /\ i >= 1 /\ \A j \in ids : j <= i
    BY <1>3, <2>2
  <2> HIDE DEF newest
  <2>4. ASSUME NEW m \in ms, m.from = s PROVE m.id < NextId(ms, s)
    <3>1. m.id <= i /\ m.id \in Nat
      BY <1>1, <1>2, <2>3, <2>4
    <3> QED BY <2>2, <2>3, <3>1
  <2> QED BY <2>2, <2>3, <2>4
<1> QED BY <1>7, <1>8

LEMMA QueuedLess ==
    ASSUME NEW ms, Queued(ms), NEW ns \in SUBSET ms PROVE Queued(ns)
  BY DEF Queued

\* A request that is sent comes after the others of its screen.
LEMMA QueuedMore ==
    ASSUME NEW ms \in SUBSET Message, Queued(ms), NEW n, n.from \in Screens,
           n.id = NextId(ms, n.from), n.stage = "sent"
    PROVE  /\ Queued(ms \union {n})
           /\ \A m \in ms : m.from = n.from => m.id < n.id
           /\ n.id >= 1 /\ n.id \in Nat
<1>1. /\ n.id \in Nat /\ n.id >= 1
      /\ \A m \in ms : m.from = n.from => m.id < n.id
  BY NextIdFresh
<1>2. \A m \in ms : m.id \in Nat
  BY DEF Message
<1>3. ASSUME NEW s \in Screens
      PROVE  \E b \in Nat : \A m \in ms \union {n} : m.from = s => m.id <= b
  <2>1. CASE n.from = s
    BY <1>1, <1>2, <2>1
  <2>2. CASE n.from # s
    BY <2>2 DEF Queued
  <2> QED BY <2>1, <2>2
<1>4. \A x, y \in ms \union {n} : x.from = y.from /\ x.id = y.id => x = y
  BY <1>1, <1>2 DEF Queued
<1>5. \A m \in ms \union {n} : m.id >= 1 /\ (m.kind = "amounts" => m.stage # "error")
  BY <1>1 DEF Queued
<1> QED BY <1>1, <1>3, <1>4, <1>5 DEF Queued

LEMMA QueuedAnswered ==
    ASSUME NEW ms, Queued(ms), NEW m \in ms, NEW n, n.id = m.id, n.from = m.from,
           n.kind = "amounts" => n.stage # "error"
    PROVE  Queued((ms \ {m}) \union {n})
  BY DEF Queued

LEMMA EmptyQueued == Queued({})
  BY DEF Queued

LEMMA InitQueued == Init => Queued(net)
<1> SUFFICES ASSUME Init PROVE Queued(net)
  OBVIOUS
<1>1. \A m \in net : m.id \in Nat /\ m.id >= 1
  BY InitNet, NextIdFresh, EmptyQueued
<1>2. \A s \in Screens : \E b \in Nat : \A m \in net : m.from = s => m.id <= b
  <2> TAKE s \in Screens
  <2>1. PICK n \in net : n.from = s
    BY InitNet
  <2>2. \A m \in net : m.from = s => m.id <= n.id
    BY <1>1, <2>1, InitNet
  <2> QED BY <1>1, <2>2
<1> QED BY <1>1, <1>2, InitNet DEF Queued

\* Every step that sends a request sends it last.
LEMMA SentLast ==
    ASSUME Real, Queued(net), NEW ms \in SUBSET net, NEW n, n.from \in Screens,
           n.id = NextId(ms, n.from), n.stage = "sent", net' = ms \union {n}
    PROVE  /\ Queued(net')
           /\ \A m \in ms : m.from = n.from => m.id < n.id
           /\ n.id >= 1 /\ n.id \in Nat
<1>1. ms \in SUBSET Message /\ Queued(ms)
  BY QueuedLess DEF Real, TypeOK
<1> QED BY <1>1, QueuedMore

LEMMA StepQueued == Real /\ OneProposal /\ Queued(net) /\ [Next]_vars => Queued(net')
<1> SUFFICES ASSUME Real, OneProposal, Queued(net), [Next]_vars PROVE Queued(net')
  OBVIOUS
<1>1. ASSUME NEW s \in Screens, UserStep(s) PROVE Queued(net')
  <2>1. CASE Looks(s)
    BY <2>1 DEF Looks
  <2>2. ASSUME NEW kind, NEW keys, NEW st, Asks(s, kind, keys, st)
        PROVE  Queued(net')
    <3>1. PICK n : /\ net' = net \union {n} /\ n.from = s /\ n.stage = "sent"
                   /\ n.id = NextId(net, s)
      BY <2>2, SentBy DEF Asks
    <3> QED BY <3>1, SentLast
  <2>3. ASSUME NEW p \in Proposals, Reloads(s, p) PROVE Queued(net')
    <3>1. PICK n : /\ net' = net \union {n} /\ n.from = s /\ n.stage = "sent"
                   /\ n.id = NextId(net, s)
      BY <2>3, RefreshBy DEF Reloads
    <3> QED BY <3>1, SentLast
  <2> QED BY <1>1, <2>1, <2>2, <2>3 DEF UserStep
<1>2. ASSUME NEW m \in net, Delivers(m) PROVE Queued(net')
  <2>1. CASE net' = net \ {m}
    BY <2>1, QueuedLess
  <2>2. CASE Refreshes(m)
    <3>1. PICK n : /\ net' = (net \ {m}) \union {n} /\ n.from = m.from
                   /\ n.stage = "sent" /\ n.id = NextId(net \ {m}, m.from)
      BY <1>2, <2>2, DeliveredNet
    <3> QED BY <3>1, SentLast, MessageFacts
  <2> QED BY <1>2, <2>1, <2>2, DeliveredNet
<1>3. ASSUME NEW m \in net, Fails(m) PROVE Queued(net')
  BY <1>3, QueuedLess DEF Fails
<1>4. ASSUME NEW m \in net, NEW n, Serves(m, n) PROVE Queued(net')
  <2>1. /\ n.id = m.id /\ n.from = m.from /\ net' = (net \ {m}) \union {n}
        /\ n.kind = "amounts" => n.stage # "error"
    BY <1>4 DEF Serves, Replies
  <2> QED BY <2>1, QueuedAnswered
<1>5. ASSUME NEW k \in Milestones, PayAtCheckout(k) PROVE Queued(net')
  BY <1>5 DEF PayAtCheckout
<1>6. CASE UNCHANGED vars
  BY <1>6 DEF vars
<1> QED BY <1>1, <1>2, <1>3, <1>4, <1>5, <1>6, NextShape

-----------------------------------------------------------------------------
(* Screens on which nobody has tapped.                                     *)

LEMMA InitOnlookers == Init => Onlookers
<1> SUFFICES ASSUME Init PROVE Onlookers
  OBVIOUS
<1>1. PICK sel \in [Screens -> Proposals], disputed \in SUBSET Proposals :
         ui = [s \in Screens |-> Opened(s, sel[s], {}, disputed)]
  BY DEF Init
<1>2. ASSUME NEW s \in Screens PROVE ui[s].focused
  <2>1. ui[s] = Opened(s, sel[s], {}, disputed) /\ sel[s] \in Proposals
    BY <1>1
  <2> QED BY <2>1, Opens
<1> QED BY <1>2, InitNet DEF Onlookers

LEMMA TapsAfter ==
    ASSUME Real, NEW s \in Screens
    PROVE  /\ Tapped(s) => /\ taps'[s] # 0
                           /\ \A t \in Screens : taps'[t] = 0 => taps[t] = 0
           /\ UNCHANGED taps => \A t \in Screens : taps'[t] = taps[t]
  BY DEF Real, TypeOK, Tapped

LEMMA StepOnlookers ==
    Real /\ OneProposal /\ Onlookers /\ [Next]_vars => Onlookers'
<1> SUFFICES ASSUME Real, OneProposal, Onlookers, [Next]_vars PROVE Onlookers'
  OBVIOUS
<1>0. \A m \in net : m.from \in Screens
  BY MessageFacts
<1>1. ASSUME NEW s \in Screens, UserStep(s) PROVE Onlookers'
  <2>1. CASE Looks(s)
    <3>1. PICK v : Update(s, v) /\ Kept(s, ui[s], v)
      BY <2>1 DEF Looks
    <3>2. \A t \in Screens : ui'[t] = IF t = s THEN v ELSE ui[t]
      BY <3>1, ScreensAfter
    <3>3. \A t \in Screens : taps'[t] = 0 => taps[t] = 0
      BY <2>1, TapsAfter DEF Looks
    <3> QED BY <1>0, <2>1, <3>1, <3>2, <3>3 DEF Looks, Onlookers, Kept
  <2>2. ASSUME NEW kind, NEW keys, NEW st, Asks(s, kind, keys, st)
        PROVE  Onlookers'
    <3>1. PICK v : Update(s, v) /\ Kept(s, ui[s], v)
      BY <2>2 DEF Asks
    <3>2. \A t \in Screens : ui'[t] = IF t = s THEN v ELSE ui[t]
      BY <3>1, ScreensAfter
    <3>3. taps'[s] # 0 /\ \A t \in Screens : taps'[t] = 0 => taps[t] = 0
      BY <2>2, TapsAfter DEF Asks
    <3>4. PICK n : net' = net \union {n} /\ n.from = s
      BY <2>2, SentBy DEF Asks
    <3> QED BY <1>0, <3>1, <3>2, <3>3, <3>4 DEF Onlookers, Kept
  <2>3. ASSUME NEW p \in Proposals, Reloads(s, p) PROVE Onlookers'
    <3>1. PICK v : Update(s, v)
      BY <2>3 DEF Reloads
    <3>2. \A t \in Screens : ui'[t] = IF t = s THEN v ELSE ui[t]
      BY <3>1, ScreensAfter
    <3>3. /\ taps'[s] = 0 => taps[s] = 0 /\ ~ui[s].focused
          /\ \A t \in Screens : taps'[t] = 0 => taps[t] = 0
      BY <2>3, TapsAfter DEF Reloads
    <3>4. taps'[s] # 0
      BY <3>3 DEF Onlookers
    <3>5. PICK n : net' = net \union {n} /\ n.kind = "amounts"
      BY <2>3, RefreshBy DEF Reloads
    <3> QED BY <1>0, <3>2, <3>3, <3>4, <3>5 DEF Onlookers
  <2> QED BY <1>1, <2>1, <2>2, <2>3 DEF UserStep
<1>2. ASSUME NEW m \in net, Delivers(m) PROVE Onlookers'
  <2>1. PICK v : Update(m.from, v) /\ Answered(ui[m.from], m, v)
    BY <1>2 DEF Delivers
  <2>2. \A t \in Screens : ui'[t] = IF t = m.from THEN v ELSE ui[t]
    BY <1>0, <2>1, ScreensAfter
  <2>3. taps[m.from] = 0 => v.focused
    BY <1>0, <2>1 DEF Onlookers, Answered
  <2>4. \A n \in net' : n \in net \/ n.kind = "amounts"
    BY <1>2, DeliveredNet
  <2>5. taps' = taps
    BY <1>2 DEF Delivers
  <2> QED BY <1>0, <2>2, <2>3, <2>4, <2>5 DEF Onlookers
<1>3. ASSUME NEW m \in net, Fails(m) PROVE Onlookers'
  <2>1. PICK v : Update(m.from, v) /\ Kept(m.from, ui[m.from], v)
    BY <1>3 DEF Fails
  <2>2. \A t \in Screens : ui'[t] = IF t = m.from THEN v ELSE ui[t]
    BY <1>0, <2>1, ScreensAfter
  <2>3. net' = net \ {m} /\ taps' = taps
    BY <1>3 DEF Fails
  <2> QED BY <1>0, <2>1, <2>2, <2>3 DEF Onlookers, Kept
<1>4. ASSUME NEW m \in net, NEW n, Serves(m, n) PROVE Onlookers'
  <2>1. /\ n.from = m.from /\ n.kind = m.kind /\ net' = (net \ {m}) \union {n}
        /\ ui' = ui /\ taps' = taps
    BY <1>4 DEF Serves, Replies
  <2> QED BY <1>0, <2>1 DEF Onlookers
<1>5. ASSUME NEW k \in Milestones, PayAtCheckout(k) PROVE Onlookers'
  BY <1>5 DEF PayAtCheckout, Onlookers
<1>6. CASE UNCHANGED vars
  BY <1>6 DEF vars, Onlookers
<1> QED BY <1>1, <1>2, <1>3, <1>4, <1>5, <1>6, NextShape

-----------------------------------------------------------------------------
(* The keys drawn for new milestones.                                      *)

LEMMA BoardRows ==
    ASSUME NEW st, NEW p
    PROVE  /\ Single(Board(st, p))
           /\ \A k \in Milestones : Owner[k] = p /\ st[k] # Absent
                 => \E row \in Board(st, p) : row.key = k /\ row.status = st[k]
           /\ \A row \in Board(st, p) :
                 /\ row.key \in Milestones /\ Owner[row.key] = p
                 /\ row.status = st[row.key] /\ st[row.key] # Absent
<1> DEFINE ks == {k \in Milestones : Owner[k] = p /\ st[k] # Absent}
           row(k) == [key |-> k, status |-> st[k], src |-> "reply"]
<1>1. Board(st, p) = {row(k) : k \in ks}
  BY DEF Board
<1>2. \A k \in ks : row(k).key = k /\ row(k).status = st[k]
  OBVIOUS
<1> HIDE DEF row
<1>3. \A a \in Board(st, p) : a = row(a.key) /\ a.key \in ks /\ a.status = st[a.key]
  BY <1>1, <1>2
<1>4. \A k \in ks : row(k) \in Board(st, p)
  BY <1>1
<1> QED BY <1>2, <1>3, <1>4 DEF Single

\* What exists on the server or is on its way from it.
LEMMA RowsExist ==
    ASSUME Real, KeysDrawn
    PROVE  /\ \A s \in Screens : \A row \in ui[s].rows : status[row.key] # Absent
           /\ \A m \in net : \A row \in m.board : status[row.key] # Absent
           /\ \A k \in Milestones : listed[k] # Absent => status[k] # Absent
           /\ \A k \in unpaid : status[k] # Absent
           /\ \A m \in net : Created(m) => \A k \in m.keys : status[k] # Absent
<1>1. \A k \in Milestones : was[k] # {} => status[k] # Absent
  BY DEF KeysDrawn
<1>2. \A rows \in SUBSET Row : RealRows(rows, was) =>
         \A row \in rows : status[row.key] # Absent
  BY <1>1 DEF RealRows, Row
<1>3. ASSUME NEW s \in Screens PROVE \A row \in ui[s].rows : status[row.key] # Absent
  BY <1>2, ScreenFacts DEF RealScreen, Screen
<1>4. ASSUME NEW m \in net
      PROVE  /\ \A row \in m.board : status[row.key] # Absent
             /\ Created(m) => \A k \in m.keys : status[k] # Absent
  <2>1. RealMessage(m, was) /\ m.board \in SUBSET Row /\ m.keys \in SUBSET Milestones
    BY MessageFacts DEF Real
  <2> QED BY <1>1, <1>2, <2>1 DEF RealMessage, Created
<1>5. /\ \A k \in Milestones : listed[k] # Absent => status[k] # Absent
      /\ \A k \in unpaid : status[k] # Absent
  BY <1>1 DEF Real, RealServer, TypeOK
<1> QED BY <1>3, <1>4, <1>5

\* A write of the server, on keys no waiting create has drawn.
LEMMA WriteKeys ==
    ASSUME Real, KeysDrawn, NEW ks \in SUBSET Milestones, NEW st \in Status,
           Write(ks, st)
    PROVE  /\ \A k \in Milestones : was'[k] # {} => status'[k] # Absent
           /\ \A k \in Milestones \ ks : status'[k] = status[k]
           /\ \A k \in ks : status'[k] = st
<1>1. st # Absent
  BY StatusFacts DEF Absent
<1> QED BY <1>1 DEF Write, KeysDrawn

LEMMA InitKeysDrawn == Init => KeysDrawn
<1> SUFFICES ASSUME Init PROVE KeysDrawn
  OBVIOUS
<1>1. was = [k \in Milestones |-> Contract!Past(status[k])]
  BY DEF Init
<1>2. Contract!Past(Absent) = {}
  BY DEF Contract!Past, Absent
<1>3. \A k \in Milestones : was[k] # {} => status[k] # Absent
  BY <1>1, <1>2
<1> QED BY <1>3, InitNet DEF KeysDrawn, Single

\* A step of a screen, which leaves the server alone.
LEMMA ScreenKeys ==
    ASSUME Real, KeysDrawn, ServerUnchanged,
           \A n \in net' :
              n \in net \/ (n.board = {} /\
                 (n.kind = "add" => /\ \A m \in net : m.kind = "add"
                                          => n.keys \intersect m.keys = {}
                                    /\ \A m \in net' : m \in net \/ m = n
                                    /\ n.keys \in SUBSET Milestones
                                    /\ \A k \in n.keys : status[k] = Absent))
    PROVE  KeysDrawn'
<1>1. /\ status' = status /\ listed' = listed /\ was' = was
  BY DEF ServerUnchanged
<1>2. \A n \in net' : Single(n.board)
  BY DEF KeysDrawn, Single
<1>3. ASSUME NEW n \in net', n.kind = "add"
      PROVE  /\ \A k \in n.keys : listed[k] = Absent
             /\ n.stage = "sent" => \A k \in n.keys : status[k] = Absent
             /\ \A x \in net' : x.kind = "add" /\ x # n => n.keys \intersect x.keys = {}
  BY <1>3, RowsExist DEF KeysDrawn
<1> QED BY <1>1, <1>2, <1>3 DEF KeysDrawn, Single

LEMMA StepKeysDrawn == Real /\ OneProposal /\ KeysDrawn /\ [Next]_vars => KeysDrawn'
<1> SUFFICES ASSUME Real, OneProposal, KeysDrawn, [Next]_vars PROVE KeysDrawn'
  OBVIOUS
<1>1. ASSUME NEW s \in Screens, UserStep(s) PROVE KeysDrawn'
  <2>1. CASE Looks(s)
    BY <1>1, <2>1, ScreenKeys DEF Looks, UserStep
  <2>2. ASSUME NEW kind, NEW keys, NEW st, Asks(s, kind, keys, st)
        PROVE  KeysDrawn'
    <3>1. PICK n : /\ net' = net \union {n} /\ n.kind = kind /\ n.keys = keys
                   /\ n.board = {}
      BY <2>2, SentBy DEF Asks
    <3>2. kind = "add" => /\ keys \in SUBSET Milestones
                          /\ \A k \in keys : status[k] = Absent
                          /\ \A m \in net : m.kind = "add" => keys \intersect m.keys = {}
      BY <2>2 DEF Asks, FreshKeys
    <3> QED BY <1>1, <3>1, <3>2, ScreenKeys DEF UserStep
  <2>3. ASSUME NEW p \in Proposals, Reloads(s, p) PROVE KeysDrawn'
    <3>1. \A n \in net' : n \in net \/ (n.board = {} /\ n.kind # "add")
      BY <2>3, RefreshBy DEF Reloads
    <3> QED BY <1>1, <3>1, ScreenKeys DEF UserStep
  <2> QED BY <1>1, <2>1, <2>2, <2>3 DEF UserStep
<1>2. ASSUME NEW m \in net, Delivers(m) PROVE KeysDrawn'
  <2>1. \A n \in net' : n \in net \/ (n.board = {} /\ n.kind # "add")
    BY <1>2, DeliveredNet
  <2> QED BY <1>2, <2>1, ScreenKeys DEF Delivers
<1>3. ASSUME NEW m \in net, Fails(m) PROVE KeysDrawn'
  BY <1>3, ScreenKeys DEF Fails
<1>4. ASSUME NEW m \in net, NEW n, Serves(m, n) PROVE KeysDrawn'
  <2>1. /\ n.kind = m.kind /\ n.keys = m.keys /\ net' = (net \ {m}) \union {n}
        /\ m.stage = "sent" /\ listed' = listed
    BY <1>4 DEF Serves, Replies
  <2>2. \A x \in net' : Single(x.board)
    <3>1. Single(Board(status, m.prop)) /\ Single({})
      BY BoardRows DEF Single
    <3>2. Single(n.board)
      BY <1>4, <3>1 DEF Serves
    <3> QED BY <2>1, <3>2 DEF KeysDrawn
  <2>3. m.keys \in SUBSET Milestones /\ m.status \in Status /\ "" \in Status
    BY MessageFacts, StatusFacts
  <2>4. CASE UNCHANGED <<status, was>> /\ (m.kind = "add" => n.stage # "sent")
    BY <2>1, <2>2, <2>4 DEF KeysDrawn, Single
  <2>5. CASE m.kind \in {"status", "pay"} /\ Known(m) /\ Write(m.keys, m.status)
    <3>1. /\ \A k \in Milestones : was'[k] # {} => status'[k] # Absent
          /\ \A k \in Milestones \ m.keys : status'[k] = status[k]
      BY <2>3, <2>5, WriteKeys
    <3>2. \A k \in m.keys : status[k] # Absent
      BY <2>5 DEF Known
    <3>3. ASSUME NEW x \in net', x.kind = "add"
          PROVE  /\ \A k \in x.keys : listed[k] = Absent
                 /\ x.stage = "sent" => \A k \in x.keys : status'[k] = Absent
                 /\ \A y \in net' : y.kind = "add" /\ y # x => x.keys \intersect y.keys = {}
      <4>1. x \in net /\ \A y \in net' : y.kind = "add" => y \in net
        BY <2>1, <2>5, <3>3
      <4>2. x.keys \in SUBSET Milestones
        BY <4>1, MessageFacts
      <4> QED BY <3>1, <3>2, <3>3, <4>1, <4>2 DEF KeysDrawn
    <3> QED BY <2>1, <2>2, <3>1, <3>3 DEF KeysDrawn, Single
  <2>6. CASE m.kind = "add" /\ n.stage = "ok" /\ Write(m.keys, "")
    <3>1. /\ \A k \in Milestones : was'[k] # {} => status'[k] # Absent
          /\ \A k \in Milestones \ m.keys : status'[k] = status[k]
      BY <2>3, <2>6, WriteKeys
    <3>3. ASSUME NEW x \in net', x.kind = "add"
          PROVE  /\ \A k \in x.keys : listed[k] = Absent
                 /\ x.stage = "sent" => \A k \in x.keys : status'[k] = Absent
                 /\ \A y \in net' : y.kind = "add" /\ y # x => x.keys \intersect y.keys = {}
      <4>1. CASE x = n
        BY <2>1, <2>6, <4>1 DEF KeysDrawn
      <4>2. CASE x \in net /\ x # m /\ x # n
        <5>1. x.keys \in SUBSET Milestones
          BY <4>2, MessageFacts
        <5> QED BY <2>1, <2>6, <3>1, <3>3, <4>2, <5>1 DEF KeysDrawn
      <4> QED BY <2>1, <3>3, <4>1, <4>2
    <3> QED BY <2>1, <2>2, <3>1, <3>3 DEF KeysDrawn, Single
  <2> QED BY <1>4, <2>4, <2>5, <2>6 DEF Serves
<1>5. ASSUME NEW k \in Milestones, PayAtCheckout(k) PROVE KeysDrawn'
  <2>1. /\ k \in unpaid /\ Write({k}, "hired") /\ net' = net /\ listed' = listed
    BY <1>5 DEF PayAtCheckout
  <2>2. status[k] # Absent
    BY <2>1, RowsExist
  <2>3. /\ \A x \in Milestones : was'[x] # {} => status'[x] # Absent
        /\ \A x \in Milestones \ {k} : status'[x] = status[x]
    <3>1. {k} \in SUBSET Milestones /\ "hired" \in Status
      BY StatusFacts
    <3> QED BY <2>1, <3>1, WriteKeys
  <2>4. \A m \in net : m.keys \in SUBSET Milestones
    BY MessageFacts
  <2> QED BY <2>1, <2>2, <2>3, <2>4 DEF KeysDrawn, Single
<1>6. CASE UNCHANGED vars
  BY <1>6 DEF vars, KeysDrawn, Single
<1> QED BY <1>1, <1>2, <1>3, <1>4, <1>5, <1>6, NextShape

-----------------------------------------------------------------------------
(* The rows of the screens, step by step.                                  *)

Ground == Real /\ OneProposal /\ Queued(net) /\ Onlookers /\ KeysDrawn

\* The last request of s among ns, not served yet.
LastSent(ns, s, x) ==
    /\ x.stage = "sent" /\ x.board = {}
    /\ \A m \in ns : m.from = s /\ m # x => m.id < x.id

\* From ms to ns, s lost some of its requests and sent at most one.
Requests(ms, ns, s) == \A x \in ns : x.from = s => x \in ms \/ LastSent(ns, s, x)

\* The requests that Current is about.
Weighs(m, s) == m.from = s /\ (m.kind = "amounts" \/ Refreshes(m) \/ Created(m))

LEMMA ServedKept ==
    ASSUME NEW ms, NEW ns, NEW s, Requests(ms, ns, s), ServedInOrder(ms, s)
    PROVE  ServedInOrder(ns, s)
  BY DEF Requests, LastSent, ServedInOrder

LEMMA RowsOnceKept ==
    ASSUME NEW ms, NEW ns, NEW s, Requests(ms, ns, s), NEW u, NEW v,
           v.rows = u.rows, RowsOnce(ms, s, u)
    PROVE  RowsOnce(ns, s, v)
  BY DEF Requests, LastSent, RowsOnce, Created

LEMMA CurrentKept ==
    ASSUME NEW ms, NEW ns, NEW s, NEW st, NEW u, NEW v,
           \A m : Weighs(m, s) => (m \in ms <=> m \in ns),
           v.rows = u.rows, v.selected = u.selected,
           Current(st, ms, s, u)
    PROVE  Current(st, ns, s, v)
<1>1. \A rows, i, p : Pictures(st, ms, s, rows, i, p) => Pictures(st, ns, s, rows, i, p)
  <2>1. \A i, k : Awaits(ms, s, i, k) <=> Awaits(ns, s, i, k)
    BY DEF Awaits, Weighs
  <2> QED BY <2>1 DEF Pictures
<1>2. Coming(ms, s) => Coming(ns, s)
  BY DEF Coming, Refresh, Weighs
<1>3. Following(ms, s) => Following(ns, s)
  BY DEF Following, Weighs
<1>4. Shows(st, ms, s, u) => Shows(st, ns, s, v)
  BY <1>1 DEF Shows, Refresh, Weighs
<1>5. Carries(st, ms, s) => Carries(st, ns, s)
  BY <1>1 DEF Carries, Refresh, Weighs
<1> QED BY <1>2, <1>3, <1>4, <1>5 DEF Current

\* A request that is sent is the last.
LEMMA SentRequests ==
    ASSUME Real, Queued(net), NEW ms \in SUBSET net, NEW n, n.from \in Screens,
           n.id = NextId(ms, n.from), n.stage = "sent", n.board = {},
           net' = ms \union {n}, NEW s
    PROVE  Requests(net, net', s)
<1>1. \A m \in ms : m.from = n.from => m.id < n.id
  BY SentLast
<1> QED BY <1>1 DEF Requests, LastSent

LEMMA OnlyWriterAfter ==
    ASSUME Real, NEW s \in Screens, Tapped(s) \/ UNCHANGED taps, NEW t
    PROVE  /\ OnlyWriter(t)' => OnlyWriter(t)
           /\ OnlyWriter(t)' /\ t # s => UNCHANGED taps /\ taps[s] = 0
  BY TapsAfter DEF OnlyWriter

LEMMA LooksRows ==
    ASSUME Tracked, NEW s \in Screens, Looks(s), ServerUnchanged, HistKept,
           NEW t \in Screens
    PROVE  RowsOf(t)'
<1>1. PICK v : Update(s, v) /\ Kept(s, ui[s], v)
  BY DEF Looks
<1>2. /\ net' = net /\ status' = status
      /\ hist'[t].crossed = hist[t].crossed /\ hist'[t].failed = hist[t].failed
  BY DEF Looks, ServerUnchanged, HistKept
<1>3. /\ ui'[t].rows = ui[t].rows /\ ui'[t].selected = ui[t].selected
      /\ ui'[t].focused = ui[t].focused
  BY <1>1, ScreensAfter DEF Tracked, Kept
<1>4. OnlyWriter(t)' => OnlyWriter(t)
  BY OnlyWriterAfter DEF Tracked, Looks
<1>5. RowsOf(t)
  BY DEF Tracked
<1>6. Requests(net, net', t)
  BY <1>2 DEF Requests
<1> QED
  BY <1>2, <1>3, <1>4, <1>5, <1>6, ServedKept, RowsOnceKept, CurrentKept DEF RowsOf

LEMMA AsksRows ==
    ASSUME Tracked, NEW s \in Screens, NEW kind, NEW keys, NEW st,
           Asks(s, kind, keys, st), ServerUnchanged, HistKept, NEW t \in Screens
    PROVE  RowsOf(t)'
<1>1. PICK v : Update(s, v) /\ Kept(s, ui[s], v)
  BY DEF Asks
<1>2. /\ status' = status
      /\ hist'[t].crossed = hist[t].crossed /\ hist'[t].failed = hist[t].failed
  BY DEF ServerUnchanged, HistKept
<1>3. /\ ui'[t].rows = ui[t].rows /\ ui'[t].selected = ui[t].selected
      /\ ui'[t].focused = ui[t].focused
  BY <1>1, ScreensAfter DEF Tracked, Kept
<1>4. PICK n : /\ net' = net \union {n} /\ n.from = s /\ n.kind = kind
               /\ n.stage = "sent" /\ n.board = {} /\ n.id = NextId(net, s)
  BY SentBy DEF Asks
<1>5. kind # "amounts"
  BY DEF Asks
<1>6. RowsOf(t) /\ Real /\ Queued(net)
  BY DEF Tracked
<1>7. Requests(net, net', t)
  BY <1>4, <1>6, SentRequests
<1>8. \A m : Weighs(m, t) => (m \in net <=> m \in net')
  BY <1>4, <1>5 DEF Weighs, Refreshes, Created
<1>9. OnlyWriter(t)' => OnlyWriter(t)
  BY <1>6, OnlyWriterAfter DEF Asks
<1> QED
  BY <1>2, <1>3, <1>6, <1>7, <1>8, <1>9, ServedKept, RowsOnceKept, CurrentKept DEF RowsOf

LEMMA ReloadsRows ==
    ASSUME Tracked, NEW s \in Screens, NEW p \in Proposals, Reloads(s, p),
           ServerUnchanged, HistKept, NEW t \in Screens
    PROVE  RowsOf(t)'
<1>1. PICK v : Update(s, v) /\ v.rows = Board(listed, p)
  BY DEF Reloads
<1>2. /\ status' = status
      /\ hist'[t].crossed = hist[t].crossed /\ hist'[t].failed = hist[t].failed
  BY DEF ServerUnchanged, HistKept
<1>3. ui'[t] = IF t = s THEN v ELSE ui[t]
  BY <1>1, ScreensAfter DEF Tracked
<1>4. PICK n : /\ net' = net \union {n} /\ n.from = s /\ n.kind = "amounts"
               /\ n.stage = "sent" /\ n.board = {} /\ n.id = NextId(net, s)
  BY RefreshBy DEF Reloads
<1>5. RowsOf(t) /\ Real /\ Queued(net) /\ KeysDrawn /\ Onlookers
  BY DEF Tracked
<1>6. Requests(net, net', t)
  BY <1>4, <1>5, SentRequests
<1>7. CASE t = s
  <2>1. RowsOnce(net, s, ui[s]) => RowsOnce(net, s, v)
    <3>1. Single(v.rows) /\ \A row \in v.rows : listed[row.key] # Absent
      BY <1>1, BoardRows
    <3>2. \A m \in net : Created(m) => \A k \in m.keys : listed[k] = Absent
      BY <1>5 DEF KeysDrawn, Created
    <3> QED BY <3>1, <3>2 DEF RowsOnce
  <2>2. RowsOnce(net, s, v) => RowsOnce(net', s, v)
    BY <1>6, <1>7, RowsOnceKept
  <2>3. Current(status', net', s, v)
    BY <1>4 DEF Current, Coming, Refresh
  <2> QED
    BY <1>2, <1>3, <1>5, <1>6, <1>7, <2>1, <2>2, <2>3, ServedKept DEF RowsOf
<1>8. CASE t # s
  <2>1. ~OnlyWriter(t)'
    <3>1. Tapped(s) \/ UNCHANGED taps
      BY DEF Reloads
    <3>2. OnlyWriter(t)' => UNCHANGED taps /\ taps[s] = 0
      BY <1>5, <1>8, <3>1, OnlyWriterAfter
    <3>3. taps[s] = 0 => ui[s].focused
      BY <1>5 DEF Onlookers
    <3>4. Tapped(s) => taps'[s] # 0
      BY <1>5, TapsAfter
    <3> QED BY <3>2, <3>3, <3>4 DEF Reloads
  <2> QED
    BY <1>2, <1>3, <1>5, <1>6, <1>8, <2>1, ServedKept, RowsOnceKept DEF RowsOf
<1> QED BY <1>7, <1>8

LEMMA FailsRows ==
    ASSUME Tracked, NEW m \in net, Fails(m), NEW t \in Screens
    PROVE  RowsOf(t)'
<1>1. PICK v : Update(m.from, v) /\ Kept(m.from, ui[m.from], v)
  BY DEF Fails
<1>2. /\ status' = status /\ net' = net \ {m} /\ taps' = taps
      /\ hist'[t].crossed = hist[t].crossed
      /\ hist'[t].failed = (hist[t].failed \/ t = m.from)
  BY DEF Fails, ServerUnchanged
<1>3. ui'[t].rows = ui[t].rows /\ (t # m.from => ui'[t] = ui[t])
  BY <1>1, ScreensAfter, MessageFacts DEF Tracked, Kept
<1>4. RowsOf(t)
  BY DEF Tracked
<1>5. Requests(net, net', t)
  BY <1>2 DEF Requests
<1>6. t # m.from => \A n : Weighs(n, t) => (n \in net <=> n \in net')
  BY <1>2 DEF Weighs
<1> QED
  BY <1>2, <1>3, <1>4, <1>5, <1>6, ServedKept, RowsOnceKept, CurrentKept
  DEF RowsOf, OnlyWriter

\* Requests of one screen are comparable.
LEMMA Apart ==
    ASSUME Ground, NEW m \in net, NEW n \in net, n.from = m.from, n # m
    PROVE  /\ m.id \in Nat /\ n.id \in Nat /\ m.id >= 1 /\ n.id >= 1
           /\ ~(n.id < m.id) => m.id < n.id
<1>1. m.id \in Nat /\ n.id \in Nat
  BY MessageFacts DEF Ground
<1>2. m.id # n.id /\ m.id >= 1 /\ n.id >= 1
  BY DEF Ground, Queued
<1> QED BY <1>1, <1>2

LEMMA DeliverRowsOnce ==
    ASSUME Ground, NEW m \in net, ~Overtakes(m), NEW u, NEW v, Answered(u, m, v),
           RowsOnce(net, m.from, u)
    PROVE  RowsOnce(net \ {m}, m.from, v)
<1>1. \A n \in net \ {m} : n.from = m.from => m.id < n.id
  BY Apart DEF Overtakes
<1>2. /\ Single(u.rows)
      /\ \A c \in net : c.from = m.from /\ Created(c) =>
            /\ \A row \in u.rows : row.key \notin c.keys
            /\ \A n \in net : n.from = m.from /\ n.id < c.id =>
                  \A row \in n.board : row.key \notin c.keys
  BY DEF RowsOnce
<1>3. Single(m.board)
  BY DEF Ground, KeysDrawn
<1>4. CASE m.kind = "amounts"
  <2>1. v.rows = m.board
    BY <1>4 DEF Answered
  <2> QED BY <1>1, <1>2, <1>3, <2>1 DEF RowsOnce
<1>5. CASE Created(m)
  <2>1. v.rows = u.rows \union Pushed(m)
    BY <1>5 DEF Answered, Created
  <2>2. \A a \in Pushed(m) : a.key \in m.keys
    BY PushedRows
  <2>3. Single(Pushed(m))
    <3> SUFFICES ASSUME NEW a \in Pushed(m), NEW b \in Pushed(m), a.key = b.key
                 PROVE  a = b
      BY DEF Single
    <3>1. PICK k \in m.keys : a = [key |-> k, status |-> "", src |-> "added"]
      BY DEF Pushed
    <3>2. PICK j \in m.keys : b = [key |-> j, status |-> "", src |-> "added"]
      BY DEF Pushed
    <3> QED BY <3>1, <3>2
  <2>4. Single(v.rows)
    BY <1>2, <1>5, <2>1, <2>2, <2>3 DEF Single
  <2>5. \A c \in net \ {m} : Created(c) => m.keys \intersect c.keys = {}
    BY <1>5 DEF Ground, KeysDrawn, Created
  <2>6. \A c \in net \ {m} : c.from = m.from /\ Created(c) =>
           \A row \in v.rows : row.key \notin c.keys
    BY <1>2, <2>1, <2>2, <2>5
  <2> QED BY <1>2, <2>4, <2>6 DEF RowsOnce
<1>6. CASE m.kind # "amounts" /\ ~Created(m)
  <2>1. v.rows = u.rows
    BY <1>6 DEF Answered
  <2> QED BY <1>2, <2>1 DEF RowsOnce
<1> QED BY <1>4, <1>5, <1>6

LEMMA DeliverCurrent ==
    ASSUME Ground, NEW m \in net, m.stage # "sent", ~Overtakes(m), ~Refreshes(m),
           NEW u, u = ui[m.from], NEW v, Answered(u, m, v),
           Current(status, net, m.from, u)
    PROVE  Current(status, net \ {m}, m.from, v)
<1> DEFINE s == m.from
           ns == net \ {m}
<1>1. \A n \in ns : n.from = s => m.id < n.id /\ n.id \in Nat /\ n.id >= 1
  BY Apart DEF Overtakes
<1>2. m.id \in Nat /\ m.id >= 1 /\ s \in Screens
  BY MessageFacts DEF Ground, Queued
<1>3. v.selected = u.selected
  BY DEF Answered
<1>4. CASE Coming(net, s)
  BY <1>4 DEF Current, Coming, Refresh
<1>5. CASE Following(net, s)
  BY <1>5 DEF Current, Following
<1>6. CASE Shows(status, net, s, u)
  <2>1. m.kind # "amounts"
    BY <1>6, MessageFacts DEF Shows, Refresh, Ground, Queued
  <2>2. CASE ~Created(m)
    <3>1. \A n : Weighs(n, s) => (n \in net <=> n \in ns)
      BY <2>1, <2>2 DEF Weighs
    <3>2. v.rows = u.rows
      BY <2>1, <2>2 DEF Answered
    <3> QED BY <1>3, <3>1, <3>2, CurrentKept
  <2>3. CASE Created(m)
    <3>1. PICK p \in Listed[s] : /\ s \notin Buyers => p = u.selected
                                 /\ Pictures(status, net, s, u.rows, 0, p)
      BY <1>6 DEF Shows
    <3>2. v.rows = u.rows \union Pushed(m)
      BY <2>1, <2>3 DEF Answered
    <3>3. \A k, x : Holds(v.rows, k, x) <=> Holds(u.rows, k, x) \/ (k \in m.keys /\ x = "")
      <4>1. \A k, x : Holds(v.rows, k, x) <=> Holds(u.rows, k, x) \/ Holds(Pushed(m), k, x)
        BY <3>2 DEF Holds
      <4>2. \A k, x : Holds(Pushed(m), k, x) <=> k \in m.keys /\ x = ""
        <5>1. \A row \in Pushed(m) : row.key \in m.keys /\ row.status = ""
          BY PushedRows
        <5>2. \A k \in m.keys : \E row \in Pushed(m) : row.key = k /\ row.status = ""
          BY PushedRows
        <5> QED BY <5>1, <5>2 DEF Holds
      <4> QED BY <4>1, <4>2
    <3>4. \A k : Awaits(net, s, 0, k) <=> Awaits(ns, s, 0, k) \/ k \in m.keys
      BY <1>2, <2>3 DEF Awaits
    <3>6. Pictures(status, ns, s, v.rows, 0, p)
      BY <3>1, <3>3, <3>4 DEF Pictures
    <3>5. \A n \in ns : ~Refresh(n, s, "ok")
      BY <1>6 DEF Shows
    <3> QED BY <1>3, <3>1, <3>5, <3>6 DEF Current, Shows
  <2> QED BY <2>2, <2>3
<1>7. CASE Carries(status, net, s)
  <2>1. PICK x \in net :
           /\ Refresh(x, s, "ok")
           /\ \A n \in net : Refresh(n, s, "ok") => n.id <= x.id
           /\ Pictures(status, net, s, x.board, x.id, x.prop)
    BY <1>7 DEF Carries
  <2>2. CASE m = x
    <3>1. v.rows = x.board /\ ~Created(m)
      BY <2>1, <2>2 DEF Answered, Refresh, Created
    <3>2. Pictures(status, ns, s, v.rows, 0, x.prop)
      <4>1. \A k : Awaits(net, s, x.id, k) <=> Awaits(ns, s, 0, k)
        BY <1>1, <1>2, <2>2, <3>1 DEF Awaits
      <4> QED BY <2>1, <3>1, <4>1 DEF Pictures
    <3>3. ASSUME NEW n \in ns PROVE ~Refresh(n, s, "ok")
      <4>1. CASE n.from = s
        <5>1. m.id < n.id /\ n.id \in Nat
          BY <1>1, <4>1
        <5> QED BY <1>2, <2>1, <2>2, <5>1
      <4> QED BY <4>1 DEF Refresh
    <3>4. x.prop \in Listed[s] /\ (s \notin Buyers => x.prop = u.selected)
      BY <2>2 DEF Ground, OneProposal, MessageOf
    <3> QED BY <1>3, <3>2, <3>3, <3>4 DEF Current, Shows
  <2>3. CASE m # x
    <3>1. m.id < x.id
      BY <1>1, <2>1, <2>3 DEF Refresh
    <3>2. \A k : Awaits(net, s, x.id, k) <=> Awaits(ns, s, x.id, k)
      <4>1. x.id \in Nat
        BY MessageFacts DEF Ground
      <4>2. ~(x.id < m.id)
        BY <1>2, <3>1, <4>1
      <4> QED BY <4>2 DEF Awaits
    <3>3. Pictures(status, ns, s, x.board, x.id, x.prop)
      BY <2>1, <3>2 DEF Pictures
    <3> QED BY <2>1, <2>3, <3>3 DEF Current, Carries
  <2> QED BY <2>2, <2>3
<1> QED BY <1>4, <1>5, <1>6, <1>7 DEF Current

LEMMA DeliversRows ==
    ASSUME Tracked, NEW m \in net, Delivers(m), NEW t \in Screens
    PROVE  RowsOf(t)'
<1> DEFINE s == m.from
<1>1. PICK v : Update(s, v) /\ Answered(ui[s], m, v)
  BY DEF Delivers
<1>2. /\ Ground /\ Real /\ Queued(net) /\ RowsOf(t) /\ s \in Screens
  BY MessageFacts DEF Tracked, Ground
<1>3. ui'[t] = IF t = s THEN v ELSE ui[t]
  BY <1>1, <1>2, ScreensAfter
<1>4. /\ status' = status /\ taps' = taps /\ m.stage # "sent"
      /\ hist'[t].failed = hist[t].failed
      /\ hist'[t].crossed = (hist[t].crossed \/ (t = s /\ Overtakes(m)))
  BY DEF Delivers, ServerUnchanged
<1>5. /\ \A n \in net' : n.from # s => n \in net \ {m}
      /\ net \ {m} \subseteq net'
      /\ ~Refreshes(m) => net' = net \ {m}
  BY DeliveredNet
<1>6. Requests(net \ {m}, net', t)
  <2>1. CASE Refreshes(m)
    <3>1. PICK n : /\ net' = (net \ {m}) \union {n} /\ n.from = s
                   /\ n.stage = "sent" /\ n.board = {}
                   /\ n.id = NextId(net \ {m}, s)
      BY <2>1, DeliveredNet
    <3>2. \A x \in net \ {m} : x.from = n.from => x.id < n.id
      BY <1>2, <3>1, SentLast
    <3> QED BY <3>1, <3>2 DEF Requests, LastSent
  <2> QED BY <1>5, <2>1 DEF Requests
<1>7. ServedInOrder(net, t) => ServedInOrder(net', t)
  <2>1. ServedInOrder(net, t) => ServedInOrder(net \ {m}, t)
    BY DEF ServedInOrder
  <2> QED BY <1>6, <2>1, ServedKept
<1>8. CASE t # s
  <2>1. RowsOnce(net, t, ui[t]) => RowsOnce(net', t, ui'[t])
    <3>1. RowsOnce(net, t, ui[t]) => RowsOnce(net \ {m}, t, ui[t])
      BY DEF RowsOnce
    <3> QED BY <1>3, <1>6, <1>8, <3>1, RowsOnceKept
  <2>2. \A n : Weighs(n, t) => (n \in net <=> n \in net')
    BY <1>5, <1>8 DEF Weighs
  <2> QED
    BY <1>2, <1>3, <1>4, <1>7, <1>8, <2>1, <2>2, CurrentKept DEF RowsOf, OnlyWriter
<1>9. CASE t = s
  <2>1. ASSUME ~hist'[s].crossed
        PROVE  ServedInOrder(net', s) /\ RowsOnce(net', s, v)
    <3>1. /\ ServedInOrder(net, s) /\ RowsOnce(net, s, ui[s]) /\ ~Overtakes(m)
      BY <1>2, <1>4, <1>9, <2>1 DEF RowsOf
    <3>2. RowsOnce(net \ {m}, s, v)
      BY <1>1, <1>2, <3>1, DeliverRowsOnce
    <3> QED BY <1>6, <1>7, <1>9, <3>1, <3>2, RowsOnceKept
  <2>2. ASSUME ~hist'[s].crossed, OnlyWriter(s)', v.focused, ~hist'[s].failed
        PROVE  Current(status', net', s, v)
    <3>1. CASE Refreshes(m)
      BY <3>1, DeliveredNet DEF Current, Coming, Refresh
    <3>2. CASE ~Refreshes(m)
      <4>1. ui[s].focused /\ OnlyWriter(s) /\ ~hist[s].failed /\ ~hist[s].crossed
            /\ ~Overtakes(m)
        BY <1>1, <1>4, <1>9, <2>2 DEF Answered, OnlyWriter
      <4>2. Current(status, net, s, ui[s])
        BY <1>2, <1>9, <4>1 DEF RowsOf
      <4>3. Current(status, net \ {m}, s, v)
        BY <1>1, <1>2, <1>4, <3>2, <4>1, <4>2, DeliverCurrent
      <4> QED BY <1>4, <1>5, <3>2, <4>3
    <3> QED BY <3>1, <3>2
  <2> QED BY <1>3, <1>9, <2>1, <2>2 DEF RowsOf
<1> QED BY <1>8, <1>9

\* The rows the server sends.
LEMMA BoardHolds ==
    ASSUME NEW st, NEW p, NEW k \in Milestones, NEW x \in Status
    PROVE  Holds(Board(st, p), k, x) <=> Owner[k] = p /\ st[k] = x
<1>1. x # Absent
  BY StatusFacts DEF Absent
<1>2. Owner[k] = p /\ st[k] = x => \E row \in Board(st, p) : row.key = k /\ row.status = x
  BY <1>1, BoardRows
<1>3. \A row \in Board(st, p) : Owner[row.key] = p /\ row.status = st[row.key]
  BY BoardRows
<1> QED BY <1>2, <1>3 DEF Holds

LEMMA ServeInOrder ==
    ASSUME Ground, NEW m \in net, NEW n, Replies(m, n), n.stage # "sent",
           ServedInOrder(net, m.from), ~hist'[m.from].crossed
    PROVE  ServedInOrder(net', m.from)
<1>1. /\ net' = (net \ {m}) \union {n} /\ n.id = m.id /\ n.from = m.from
      /\ m.stage = "sent"
  BY DEF Replies
<1>2. m.from \in Screens
  BY MessageFacts DEF Ground
<1>3. \A x \in net : x.from = m.from /\ x.stage = "sent" => ~(x.id < m.id)
  BY <1>2 DEF Replies
<1>4. \A x \in net \ {m} : x.from = m.from /\ x.stage = "sent" => m.id < x.id
  BY <1>3, Apart
<1> QED BY <1>1, <1>4 DEF ServedInOrder

LEMMA ServeRowsOnce ==
    ASSUME Ground, NEW m \in net, NEW n, Serves(m, n),
           ServedInOrder(net, m.from), RowsOnce(net, m.from, ui[m.from])
    PROVE  RowsOnce(net', m.from, ui[m.from])
<1> DEFINE s == m.from
           u == ui[s]
<1>1. /\ net' = (net \ {m}) \union {n} /\ n.id = m.id /\ n.from = s
      /\ m.stage = "sent" /\ n.kind = m.kind /\ n.keys = m.keys
  BY DEF Serves, Replies
<1>2. n.board = {} \/ n.kind = "amounts"
  BY <1>1 DEF Serves
<1>3. s \in Screens /\ m.id \in Nat
  BY MessageFacts DEF Ground
<1>4. /\ \A row \in u.rows : status[row.key] # Absent
      /\ \A x \in net : \A row \in x.board : status[row.key] # Absent
  BY <1>3, RowsExist DEF Ground
<1>5. m.kind = "add" => \A k \in m.keys : status[k] = Absent
  BY <1>1 DEF Ground, KeysDrawn
<1>6. Single(u.rows)
  BY DEF RowsOnce
<1>7. \A c \in net : c.from = s /\ Created(c) => c.id < m.id
  BY <1>1 DEF ServedInOrder, Created
<1> HIDE DEF u
<1>8. ASSUME NEW c \in net', c.from = s, Created(c)
      PROVE  /\ \A row \in u.rows : row.key \notin c.keys
             /\ \A x \in net' : x.from = s /\ x.id < c.id =>
                   \A row \in x.board : row.key \notin c.keys
  <2>1. CASE c = n
    <3>1. m.kind = "add" /\ n.board = {}
      BY <1>1, <1>2, <1>8, <2>1 DEF Created
    <3> QED BY <1>1, <1>4, <1>5, <2>1, <3>1
  <2>2. CASE c \in net /\ c # m
    <3>1. c.id < m.id /\ c.id \in Nat
      BY <1>7, <1>8, <2>2, MessageFacts DEF Ground
    <3>2. ~(n.id < c.id)
      BY <1>1, <1>3, <3>1
    <3> QED BY <1>1, <1>8, <2>2, <3>2 DEF RowsOnce, u
  <2> QED BY <1>1, <1>8, <2>1, <2>2
<1> QED BY <1>6, <1>8 DEF RowsOnce, u

\* The server drew new rows, and their answer is on its way.
LEMMA CreatePictures ==
    ASSUME Ground, NEW m \in net, NEW n, Serves(m, n), m.kind = "add", n.stage = "ok",
           NEW rows, \A row \in rows : status[row.key] # Absent,
           NEW i, i < m.id, Pictures(status, net, m.from, rows, i, m.prop)
    PROVE  Pictures(status', net', m.from, rows, i, m.prop)
<1> DEFINE s == m.from
           p == m.prop
<1>1. /\ net' = (net \ {m}) \union {n} /\ n.id = m.id /\ n.from = s
      /\ m.stage = "sent" /\ n.kind = m.kind /\ n.keys = m.keys
      /\ Write(m.keys, "")
  BY DEF Serves, Replies
<1>2. m.keys \in SUBSET Milestones /\ "" \in Status
  BY MessageFacts, StatusFacts DEF Ground
<1>3. /\ \A k \in Milestones \ m.keys : status'[k] = status[k]
      /\ \A k \in m.keys : status'[k] = ""
  BY <1>1, <1>2, WriteKeys DEF Ground
<1>4. \A k \in m.keys : Owner[k] = p /\ status[k] = Absent
  BY <1>1 DEF Ground, KeysDrawn, OneProposal, MessageOf
<1>5. \A k \in m.keys : \A x : ~Holds(rows, k, x)
  BY <1>4 DEF Holds
<1>6. \A k \in m.keys : Awaits(net', s, i, k)
  BY <1>1 DEF Awaits, Created
<1>7. \A k : k \notin m.keys => (Awaits(net', s, i, k) <=> Awaits(net, s, i, k))
  BY <1>1 DEF Awaits, Created
<1>8. ASSUME NEW k \in Milestones, NEW x \in Status
      PROVE  Owner[k] = p /\ status'[k] = x
                <=> Holds(rows, k, x) \/ (x = "" /\ Awaits(net', s, i, k))
  <2>1. CASE k \in m.keys
    BY <1>3, <1>4, <1>5, <1>6, <2>1
  <2>2. CASE k \notin m.keys
    BY <1>3, <1>7, <2>2 DEF Pictures
  <2> QED BY <2>1, <2>2
<1> QED BY <1>8 DEF Pictures

LEMMA ServeCurrent ==
    ASSUME Ground, NEW m \in net, NEW n, Serves(m, n), ServedInOrder(net, m.from),
           Current(status, net, m.from, ui[m.from])
    PROVE  Current(status', net', m.from, ui[m.from])
<1> DEFINE s == m.from
           u == ui[s]
<1>1. /\ net' = (net \ {m}) \union {n} /\ n.id = m.id /\ n.from = s
      /\ m.stage = "sent" /\ n.kind = m.kind /\ n.keys = m.keys /\ n.prop = m.prop
  BY DEF Serves, Replies
<1>2. s \in Screens /\ m.id \in Nat /\ m.id >= 1
  BY MessageFacts DEF Ground, Queued
<1>3. \A x \in net : x.from = s /\ x.stage # "sent" => x.id < m.id /\ x.id \in Nat
  BY <1>1, MessageFacts DEF ServedInOrder, Ground
<1>4. CASE m.kind = "amounts"
  <2>1. n.stage = "ok" /\ n.board = Board(status, m.prop) /\ status' = status
    BY <1>4 DEF Serves
  <2>2. \A x \in net' : Refresh(x, s, "ok") => x.id <= n.id
    BY <1>1, <1>2, <1>3 DEF Refresh
  <2>3. \A k : ~Awaits(net', s, n.id, k)
    <3>1. ASSUME NEW x \in net', x.from = s, Created(x) PROVE ~(n.id < x.id)
      <4>1. x \in net /\ x.stage # "sent"
        BY <1>1, <1>4, <3>1 DEF Created
      <4> QED BY <1>1, <1>2, <1>3, <3>1, <4>1
    <3> QED BY <3>1 DEF Awaits
  <2>4. Pictures(status', net', s, n.board, n.id, n.prop)
    <3>1. \A k \in Milestones, x \in Status :
             Holds(n.board, k, x) <=> Owner[k] = m.prop /\ status[k] = x
      BY <2>1, BoardHolds
    <3> QED BY <1>1, <2>1, <2>3, <3>1 DEF Pictures
  <2>5. Refresh(n, s, "ok")
    BY <1>1, <1>4, <2>1 DEF Refresh
  <2> QED BY <1>1, <2>2, <2>4, <2>5 DEF Current, Carries
<1>5. CASE m.kind \in {"status", "pay"} /\ n.stage = "ok"
  BY <1>1, <1>5 DEF Current, Following, Refreshes
<1>6. CASE m.kind = "add" /\ n.stage = "ok"
  <2>1. CASE Coming(net, s)
    BY <1>1, <1>6, <2>1 DEF Current, Coming, Refresh
  <2>2. CASE Following(net, s)
    BY <1>1, <1>6, <2>2 DEF Current, Following, Refreshes
  <2>3. s \notin Buyers /\ m.prop = u.selected
    BY <1>6 DEF Ground, OneProposal, MessageOf
  <2>4. /\ \A row \in u.rows : status[row.key] # Absent
        /\ \A x \in net : \A row \in x.board : status[row.key] # Absent
    BY <1>2, RowsExist DEF Ground
  <2>5. \A x \in net' : Refresh(x, s, "ok") => x \in net
    BY <1>1, <1>6 DEF Refresh
  <2>6. CASE Shows(status, net, s, u)
    <3>1. m.prop \in Listed[s] /\ Pictures(status, net, s, u.rows, 0, m.prop)
      BY <2>3, <2>6 DEF Shows
    <3>2. 0 < m.id
      BY <1>2
    <3>3. Pictures(status', net', s, u.rows, 0, m.prop)
      BY <1>6, <2>4, <3>1, <3>2, CreatePictures
    <3>4. \A x \in net' : ~Refresh(x, s, "ok")
      BY <2>5, <2>6 DEF Shows
    <3> QED BY <2>3, <3>1, <3>3, <3>4 DEF Current, Shows
  <2>7. CASE Carries(status, net, s)
    <3>1. PICK x \in net :
             /\ Refresh(x, s, "ok")
             /\ \A y \in net : Refresh(y, s, "ok") => y.id <= x.id
             /\ Pictures(status, net, s, x.board, x.id, x.prop)
      BY <2>7 DEF Carries
    <3>2. x.id < m.id /\ x.prop = m.prop /\ x \in net'
      BY <1>1, <1>3, <2>3, <3>1 DEF Refresh, Ground, OneProposal, MessageOf
    <3>3. Pictures(status', net', s, x.board, x.id, x.prop)
      BY <1>6, <2>4, <3>1, <3>2, CreatePictures
    <3> QED BY <2>5, <3>1, <3>2, <3>3 DEF Current, Carries
  <2> QED BY <2>1, <2>2, <2>6, <2>7 DEF Current
<1>7. CASE m.kind # "amounts" /\ (m.kind \in {"status", "pay", "add"} => n.stage # "ok")
  <2>1. status' = status
    BY <1>7 DEF Serves
  <2>2. ~Weighs(m, s) /\ ~Weighs(n, s)
    BY <1>1, <1>7 DEF Weighs, Refreshes, Created
  <2>3. \A x : Weighs(x, s) => (x \in net <=> x \in net')
    BY <1>1, <2>2
  <2> QED BY <2>1, <2>3, CurrentKept
<1> QED BY <1>4, <1>5, <1>6, <1>7

LEMMA ServesRows ==
    ASSUME Tracked, NEW m \in net, NEW n, Serves(m, n), NEW t \in Screens
    PROVE  RowsOf(t)'
<1> DEFINE s == m.from
<1>1. /\ net' = (net \ {m}) \union {n} /\ n.from = s /\ n.kind = m.kind
      /\ ui' = ui /\ taps' = taps /\ hist'[t].failed = hist[t].failed
  BY DEF Serves, Replies
<1>2. Ground /\ RowsOf(t) /\ s \in Screens
  BY MessageFacts DEF Tracked, Ground
<1>3. n.stage # "sent"
  BY DEF Serves
<1>4. OnlyWriter(t)' => OnlyWriter(t)
  BY <1>1 DEF OnlyWriter
<1>5. hist[t].crossed => hist'[t].crossed
  BY DEF Serves, Replies
<1>6. CASE t # s
  <2>1. \A x : Weighs(x, t) => (x \in net <=> x \in net')
    BY <1>1, <1>6 DEF Weighs
  <2>2. Requests(net, net', t)
    BY <1>1, <1>6 DEF Requests
  <2>3. OnlyWriter(t) => status' = status
    <3>1. OnlyWriter(t) => m.kind = "amounts"
      BY <1>2, <1>6 DEF OnlyWriter, Ground, Onlookers
    <3> QED BY <3>1 DEF Serves
  <2> QED
    BY <1>1, <1>2, <1>4, <1>5, <2>1, <2>2, <2>3, ServedKept, RowsOnceKept, CurrentKept
    DEF RowsOf
<1>7. CASE t = s
  <2>1. ASSUME ~hist'[s].crossed
        PROVE  ServedInOrder(net', s) /\ RowsOnce(net', s, ui[s])
    <3>1. ServedInOrder(net, s) /\ RowsOnce(net, s, ui[s])
      BY <1>2, <1>5, <1>7, <2>1 DEF RowsOf
    <3>2. RowsOnce(net', s, ui[s])
      BY <1>2, <3>1, ServeRowsOnce
    <3>3. ServedInOrder(net', s)
      BY <1>2, <1>3, <2>1, <3>1, ServeInOrder DEF Serves
    <3> QED BY <3>2, <3>3
  <2>2. ASSUME ~hist'[s].crossed, OnlyWriter(s)', ui[s].focused, ~hist'[s].failed
        PROVE  Current(status', net', s, ui[s])
    <3>1. ServedInOrder(net, s) /\ Current(status, net, s, ui[s])
      BY <1>1, <1>2, <1>4, <1>5, <1>7, <2>2 DEF RowsOf
    <3> QED BY <1>2, <3>1, ServeCurrent
  <2> QED BY <1>1, <1>7, <2>1, <2>2 DEF RowsOf
<1> QED BY <1>6, <1>7

LEMMA PayRows ==
    ASSUME Tracked, NEW k \in Milestones, PayAtCheckout(k), NEW t \in Screens
    PROVE  RowsOf(t)'
<1>1. ui' = ui /\ net' = net /\ taps' = taps /\ hist' = hist
  BY DEF PayAtCheckout
<1>2. ~(OnlyWriter(t) /\ ui[t].focused)
  BY DEF PayAtCheckout, OnlyWriter, Onlookers, Tracked
<1>3. RowsOf(t)
  BY DEF Tracked
<1> QED BY <1>1, <1>2, <1>3 DEF RowsOf, OnlyWriter

LEMMA InitRows == ASSUME Init, NEW s \in Screens PROVE RowsOf(s)
<1>1. PICK sel \in [Screens -> Proposals], disputed \in SUBSET Proposals :
         ui = [t \in Screens |-> Opened(t, sel[t], {}, disputed)]
  BY DEF Init
<1>2. ui[s].rows = Board(listed, sel[s])
  <2>1. ui[s] = Opened(s, sel[s], {}, disputed) /\ sel[s] \in Proposals
    BY <1>1
  <2> QED BY <2>1, Opens
<1>3. Single(ui[s].rows)
  BY <1>2, BoardRows
<1>4. \A m \in net : m.stage = "sent" /\ ~Created(m)
  BY InitNet DEF Created
<1>5. RowsOnce(net, s, ui[s]) /\ ServedInOrder(net, s)
  BY <1>3, <1>4 DEF RowsOnce, ServedInOrder
<1>6. Coming(net, s)
  BY InitNet DEF Coming, Refresh
<1> QED BY <1>5, <1>6 DEF RowsOf, Current

LEMMA InitTracked == Init => Tracked
  BY InitReal, InitOneProposal, InitQueued, InitOnlookers, InitKeysDrawn, InitRows
  DEF Tracked

LEMMA StepTracked == Tracked /\ [Next]_vars => Tracked'
<1> SUFFICES ASSUME Tracked, [Next]_vars PROVE Tracked'
  OBVIOUS
<1>1. Real' /\ OneProposal' /\ Queued(net') /\ Onlookers' /\ KeysDrawn'
  BY StepReal, StepOneProposal, StepQueued, StepOnlookers, StepKeysDrawn DEF Tracked
<1>2. ASSUME NEW t \in Screens PROVE RowsOf(t)'
  <2>1. ASSUME NEW s \in Screens, UserStep(s) PROVE RowsOf(t)'
    BY <2>1, LooksRows, AsksRows, ReloadsRows DEF UserStep
  <2>2. CASE UNCHANGED vars
    <3>1. RowsOf(t) /\ ui' = ui /\ net' = net /\ hist' = hist /\ taps' = taps
          /\ status' = status
      BY <2>2 DEF vars, Tracked
    <3> QED BY <3>1 DEF RowsOf, OnlyWriter
  <2>3. Real /\ OneProposal
    BY DEF Tracked
  <2> QED
    BY <2>1, <2>2, <2>3, NextShape, DeliversRows, FailsRows, ServesRows, PayRows
<1> QED BY <1>1, <1>2 DEF Tracked

LEMMA ShownHolds ==
    ASSUME NEW rows \in SUBSET Row, NEW others \in SUBSET Row,
           \A k \in Milestones, x \in Status : Holds(rows, k, x) <=> Holds(others, k, x)
    PROVE  Shown(rows) = Shown(others)
<1>1. \A a \in Row : a.key \in Milestones /\ a.status \in Status
  BY DEF Row
<1>2. \A a \in rows : \E b \in others : b.key = a.key /\ b.status = a.status
  BY <1>1 DEF Holds
<1>3. \A b \in others : \E a \in rows : b.key = a.key /\ b.status = a.status
  BY <1>1 DEF Holds
<1> QED BY <1>2, <1>3 DEF Shown

\* The invariant of the rows.
THEOREM RowsTracked == Spec => []Tracked
  BY InitTracked, StepTracked, PTL DEF Spec

\* Unless an answer overtook an older request, no milestone ever has two rows:
\* what handelAddNewMileStone pushes was in no refresh answered before it.
THEOREM RowsUnique == Spec => []NoDuplicateRows
<1>1. Tracked => NoDuplicateRows
  BY DEF Tracked, RowsOf, RowsOnce, Single, NoDuplicateRows
<1> QED BY <1>1, RowsTracked, PTL

\* A screen that alone writes, whose requests were neither lost nor overtaken
\* and have all been answered, shows exactly the server's rows: every handler
\* that changes a milestone refreshes or pushes its rows.
THEOREM QuietScreenCurrent == Spec => []QuietBoardFresh
<1>1. Tracked => QuietBoardFresh
  <2> SUFFICES ASSUME Tracked, NEW s \in Screens, OnlyWriter(s), ui[s].focused,
                      \A m \in net : m.from # s, ~hist[s].failed, ~hist[s].crossed
               PROVE  \E p \in Listed[s] : Shown(ui[s].rows) = Shown(Board(status, p))
    BY DEF QuietBoardFresh
  <2>1. Current(status, net, s, ui[s])
    BY DEF Tracked, RowsOf
  <2>2. Shows(status, net, s, ui[s])
    BY <2>1 DEF Current, Coming, Following, Carries, Refresh
  <2>3. PICK p \in Listed[s] : Pictures(status, net, s, ui[s].rows, 0, p)
    BY <2>2 DEF Shows
  <2>4. \A k : ~Awaits(net, s, 0, k)
    BY DEF Awaits
  <2>5. \A k \in Milestones, x \in Status :
           Holds(ui[s].rows, k, x) <=> Holds(Board(status, p), k, x)
    BY <2>3, <2>4, BoardHolds DEF Pictures
  <2>6. ui[s].rows \in SUBSET Row /\ Board(status, p) \in SUBSET Row
    <3>1. p \in Proposals
      BY ConstantsAssumption
    <3> QED BY <3>1, BoardReal, ScreenFacts DEF Tracked, Real, TypeOK, RealServer, Screen
  <2> QED BY <2>5, <2>6, ShownHolds
<1> QED BY <1>1, RowsTracked, PTL
=============================================================================
