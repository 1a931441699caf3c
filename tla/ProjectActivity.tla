-------------------------- MODULE ProjectActivity --------------------------
(***************************************************************************)
(* screens/myProjects/ProjectActivity.js: the screens on which the buyer   *)
(* and the sellers of a project work through the milestones of a           *)
(* proposal.  Several mounted screens share one server (the WordPress      *)
(* REST plugin, not in the repository); every request may overtake         *)
(* another, be lost before or after the server acted on it, and answers    *)
(* run in the closure of the render in which the button was pressed.       *)
(*                                                                         *)
(* A screen is a record `u`, and the operators SetLoader, SetLoading, ...  *)
(* are its setState calls: React renders at once when the value changes    *)
(* and not at all when it does not.  The rows are kept in arrays that the  *)
(* handlers mutate in place, so what is painted may lag behind them.       *)
(***************************************************************************)
EXTENDS Naturals, FiniteSets

CONSTANTS
    Screens,        \* mounted screens, one per signed-in user
    Buyers,         \* those whose userInfo.user_type is 'buyers'
    Proposals,
    Milestones,     \* milestone keys, the ones still to be drawn included
    Owner,          \* milestone key -> the proposal it belongs to
    Listed,         \* screen -> the proposals it can select
    Completable,    \* proposals whose listing carries 'complete_option'
    StartStates,    \* statuses the server may hold when the screens open
    Ops,            \* the operations the users perform
    Lossy,          \* whether the network may lose a request or an answer
    MaxTaps,        \* bound: screen -> taps
    MaxPending,     \* bound: screen's requests in flight when it sends one
    MaxDraft        \* bound: rows in the create-milestone sheet

VARIABLES
    ui,             \* screen -> its React state
    net,            \* requests and answers in flight
    status,         \* server: milestone -> status, or "absent"
    unpaid,         \* server: milestones with an open checkout order
    listed,         \* the statuses route.params carried to the screens
    taps,           \* screen -> taps so far
    was,            \* history: milestone -> every status the server held
    hist            \* history: screen -> what its requests have been through

vars == <<ui, net, status, unpaid, listed, taps, was, hist>>

Contract == INSTANCE MilestoneContract WITH reached <- was

Status == Contract!Status
Absent == "absent"

Kinds == {"amounts", "status", "pay", "checkout", "add", "complete",
          "dispute", "issues", "comment", "disputes"}

\* The requests that put the full-screen spinner up when they are sent.
OverlayKinds == {"pay", "checkout", "complete", "dispute", "issues", "comment"}

Modals == {"menu", "wallet", "decline", "add", "dispute", "complete"}

Row == [key : Milestones, status : Status, src : {"reply", "added"}]
NoKey == "no key"

Screen ==
    [selected    : Proposals,
     rows        : SUBSET Row,        \* mileStoneData and completedMileStone
     painted     : SUBSET Row,        \* the rows of the last render
     refreshList : BOOLEAN,
     loader      : BOOLEAN,           \* the blocking overlay
     loading     : BOOLEAN,           \* the spinner inside the buttons
     open        : SUBSET Modals,
     focused     : BOOLEAN,
     declineItem : SUBSET Row,        \* the row of the decline sheet, if any
     escrowKey   : Milestones \union {NoKey},
     draft       : Nat,               \* addNewMilstone.length
     issue       : BOOLEAN,           \* selectedIssue != null
     completable : BOOLEAN,           \* completeContract
     ended       : SUBSET Proposals,  \* proposal_status = 'completed'
     disputed    : SUBSET Proposals]  \* proposal_status = 'disputed'

Message ==
    [id : Nat, from : Screens, kind : Kinds, prop : Proposals,
     keys : SUBSET Milestones, status : Status,
     r     : BOOLEAN,                 \* refreshList of the sending render
     stage : {"sent", "ok", "error"},
     board : SUBSET Row]              \* payload of an activity-amounts answer

History == [failed    : BOOLEAN,      \* some request met a network error
            crossed   : BOOLEAN,      \* some request overtook an older one
            finishing : BOOLEAN]      \* complete-project was sent, or threw

ASSUME ConstantsAssumption ==
    /\ Buyers \subseteq Screens
    /\ Owner \in [Milestones -> Proposals]
    /\ Listed \in [Screens -> SUBSET Proposals]
    /\ Completable \subseteq Proposals
    /\ StartStates \subseteq [Milestones -> Status \union {Absent}]
    /\ Lossy \in BOOLEAN
    /\ MaxTaps \in [Screens -> Nat] /\ MaxPending \in Nat /\ MaxDraft \in Nat

TypeOK ==
    /\ ui \in [Screens -> Screen]
    /\ net \in SUBSET Message
    /\ status \in [Milestones -> Status \union {Absent}]
    /\ unpaid \in SUBSET Milestones
    /\ listed \in [Milestones -> Status \union {Absent}]
    /\ taps \in [Screens -> Nat]
    /\ was \in [Milestones -> SUBSET Status]
    /\ hist \in [Screens -> History]

-----------------------------------------------------------------------------
(* React: setState renders exactly when the value changes.                 *)

Render(u) == [u EXCEPT !.painted = u.rows]

SetLoader(u, b) ==
    IF u.loader = b THEN u ELSE Render([u EXCEPT !.loader = b])

SetLoading(u, b) ==
    IF u.loading = b THEN u ELSE Render([u EXCEPT !.loading = b])

SetRefreshList(u, b) ==
    IF u.refreshList = b THEN u ELSE Render([u EXCEPT !.refreshList = b])

\* setVisible and setWalletDialoge are state of the screen ...
OpenDialog(u, d) == IF d \in u.open THEN u
                    ELSE Render([u EXCEPT !.open = @ \union {d}])
CloseDialog(u, d) == IF d \notin u.open THEN u
                     ELSE Render([u EXCEPT !.open = @ \ {d}])

\* ... and a bottom sheet keeps its own, so the screen does not render.
OpenSheet(u, d)  == [u EXCEPT !.open = @ \union {d}]
CloseSheet(u, d) == [u EXCEPT !.open = @ \ {d}]

\* The arrays are emptied and refilled in place: no render by itself.
Refill(u, rows) == [u EXCEPT !.rows = rows]

\* What the server, or a listing, shows of one proposal.
Board(st, p) ==
    {[key |-> k, status |-> st[k], src |-> "reply"] :
        k \in {k \in Milestones : Owner[k] = p /\ st[k] # Absent}}

\* The effect on [isFocused, selectedItem], after the render it follows.
Effect(u) ==
    LET filled == Refill(u, Board(listed, u.selected))
    IN  IF u.selected \in Completable /\ ~u.completable
        THEN Render([filled EXCEPT !.completable = TRUE])
        ELSE filled

-----------------------------------------------------------------------------
(* Requests                                                                *)

\* Requests of a screen are numbered in the order in which they were issued.
NextId(ms, s) ==
    LET ids    == {m.id : m \in {m \in ms : m.from = s}}
        newest == {i \in ids : \A j \in ids : j <= i}
    IN  IF newest = {} THEN 1 ELSE 1 + CHOOSE i \in newest : TRUE

Request(ms, s, kind, p, keys, st, r) ==
    [id |-> NextId(ms, s), from |-> s, kind |-> kind, prop |-> p, keys |-> keys,
     status |-> st, r |-> r, stage |-> "sent", board |-> {}]

\* getUpdatedAmounts, called in the closure that holds proposal p and flag r.
GetUpdatedAmounts(ms, s, p, r) ==
    ms \union {Request(ms, s, "amounts", p, {}, "", r)}

\* A request sent by the current render of s.
Send(s, kind, keys, st) ==
    /\ Cardinality({m \in net : m.from = s}) < MaxPending
    /\ net' = net \union {Request(net, s, kind, ui[s].selected, keys, st,
                               ui[s].refreshList)}

\* The overlay and every dialog or sheet swallow the touches below them.
CanTouch(s) == /\ ui[s].focused /\ ~ui[s].loader
               /\ taps[s] < MaxTaps[s]
CanTap(s, op)         == CanTouch(s) /\ op \in Ops /\ ui[s].open = {}
CanTapIn(s, op, d)    == CanTouch(s) /\ op \in Ops /\ d \in ui[s].open
Tapped(s)             == taps' = [taps EXCEPT ![s] = @ + 1]
Update(s, u)          == ui' = [ui EXCEPT ![s] = u]
ServerUnchanged       == UNCHANGED <<status, unpaid, listed, was>>
UiOnly                == ServerUnchanged /\ UNCHANGED <<net, hist>>

-----------------------------------------------------------------------------
(* The screen opens: first render, then the effect.                        *)

Opened(s, p, ended, disputed) ==
    Effect([selected |-> p, rows |-> {}, painted |-> {}, refreshList |-> FALSE,
            loader |-> FALSE, loading |-> FALSE, open |-> {}, focused |-> TRUE,
            declineItem |-> {}, escrowKey |-> NoKey, draft |-> 0,
            issue |-> FALSE, completable |-> FALSE, ended |-> ended,
            disputed |-> disputed])

Init ==
    /\ status \in StartStates
    /\ listed = status
    /\ was = [k \in Milestones |-> Contract!Past(status[k])]
    /\ unpaid = {}
    /\ \E sel \in [Screens -> Proposals], disputed \in SUBSET Proposals :
          /\ \A s \in Screens : sel[s] \in Listed[s]
          /\ "dispute" \notin Ops => disputed = {}
          /\ ui = [s \in Screens |-> Opened(s, sel[s], {}, disputed)]
          /\ net = UNION {GetUpdatedAmounts({}, s, sel[s], FALSE) : s \in Screens}
    /\ taps = [s \in Screens |-> 0]
    /\ hist = [s \in Screens |->
                  [failed |-> FALSE, crossed |-> FALSE, finishing |-> FALSE]]

\* Tabs, text fields and check boxes: state no other handler reads, but the
\* screen renders.
Touch(s) ==
    /\ ui[s].focused /\ ~ui[s].loader
    /\ ui[s].painted # ui[s].rows
    /\ Update(s, Render(ui[s]))
    /\ UNCHANGED taps /\ UiOnly

\* setSelectedItem([item]) in the buyer's list of freelancers.
SetSelectedItem(s, p) ==
    /\ CanTap(s, "select")
    /\ s \in Buyers /\ p \in Listed[s]
    /\ Cardinality({m \in net : m.from = s}) < MaxPending
    /\ Update(s, Effect(Render([ui[s] EXCEPT !.selected = p])))
    /\ net' = GetUpdatedAmounts(net, s, p, ui[s].refreshList)
    /\ Tapped(s) /\ ServerUnchanged /\ UNCHANGED hist

\* Back from the checkout or the dispute page: isFocused turns true again.
Refocus(s) ==
    /\ ~ui[s].focused
    /\ Update(s, Effect(Render([ui[s] EXCEPT !.focused = TRUE])))
    /\ net' = GetUpdatedAmounts(net, s, ui[s].selected, ui[s].refreshList)
    /\ ServerUnchanged /\ UNCHANGED <<taps, hist>>

-----------------------------------------------------------------------------
(* The buttons of a milestone row                                          *)

\* The rows that carry buttons: none while the proposal is disputed.
Offered(s) ==
    IF ui[s].selected \in ui[s].disputed THEN {} ELSE ui[s].painted

\* updateMileStoneStatus: setSelectedIndex and setloading(true), then POST
\* update-milestone-status with the selected proposal and the row's key.
\* The spinner does not disable the button; pressed again on the same row,
\* neither setState changes anything.
UpdateMileStoneStatus(s, row, type) ==
    /\ \/ Update(s, Render([ui[s] EXCEPT !.loading = TRUE]))
       \/ ui[s].loading /\ UNCHANGED ui
    /\ Send(s, "status", {row.key}, type)
    /\ Tapped(s) /\ ServerUnchanged /\ UNCHANGED hist

\* Mutant: the release button also on the rows still in work.
ApproveUnrequested(s) ==
    /\ CanTap(s, "approve") /\ s \in Buyers
    /\ \E row \in Offered(s) :
          /\ row.status \in {"hired", "requested"}
          /\ UpdateMileStoneStatus(s, row, "completed")

Approve(s) ==
    /\ CanTap(s, "approve") /\ s \in Buyers
    /\ \E row \in Offered(s) :
          row.status = "requested" /\ UpdateMileStoneStatus(s, row, "completed")

\* Mutant: the seller's button also on the rows not yet in escrow.
MarkCompletedUnfunded(s) ==
    /\ CanTap(s, "request") /\ s \notin Buyers
    /\ \E row \in Offered(s) :
          /\ row.status \in {"", "hired", "decline"}
          /\ UpdateMileStoneStatus(s, row, "requested")

MarkCompleted(s) ==
    /\ CanTap(s, "request") /\ s \notin Buyers
    /\ \E row \in Offered(s) :
          /\ row.status \in {"hired", "decline"}
          /\ UpdateMileStoneStatus(s, row, "requested")

\* opneDeclinedRbSheet keeps the row as it was painted.
OpneDeclinedRbSheet(s) ==
    /\ CanTap(s, "decline") /\ s \in Buyers
    /\ \E row \in Offered(s) :
          /\ row.status = "requested"
          /\ LET u == [OpenSheet(ui[s], "decline") EXCEPT !.declineItem = {row}]
             IN  \/ Update(s, Render(u))
                 \/ row \in ui[s].declineItem /\ Update(s, u)
    /\ Tapped(s) /\ UiOnly

SubmitDecline(s) ==
    /\ CanTapIn(s, "decline", "decline")
    /\ \E row \in ui[s].declineItem : UpdateMileStoneStatus(s, row, "decline")

OpenWallet(s) ==
    /\ CanTap(s, "pay") /\ s \in Buyers
    /\ \E row \in Offered(s) :
          /\ row.status = ""
          /\ Update(s, Render([OpenDialog(ui[s], "wallet")
                                   EXCEPT !.escrowKey = row.key]))
    /\ Tapped(s) /\ UiOnly

\* Mutant: setLoader(true) forgotten.
HireAndPayUncovered(s, kind) ==
    /\ CanTapIn(s, "pay", "wallet")
    /\ kind \in {"pay", "checkout"}
    /\ Update(s, CloseDialog(ui[s], "wallet"))
    /\ Send(s, kind, {ui[s].escrowKey}, "hired")
    /\ Tapped(s) /\ ServerUnchanged /\ UNCHANGED hist

\* hireAndPay(true) pays from the wallet, hireAndPay('') through checkout.
HireAndPay(s, kind) ==
    /\ CanTapIn(s, "pay", "wallet")
    /\ kind \in {"pay", "checkout"}
    /\ Update(s, CloseDialog(SetLoader(ui[s], TRUE), "wallet"))
    /\ Send(s, kind, {ui[s].escrowKey}, "hired")
    /\ Tapped(s) /\ ServerUnchanged /\ UNCHANGED hist

-----------------------------------------------------------------------------
(* The menu, its sheets and the comment form                               *)

OpenMenu(s) ==
    /\ CanTouch(s) /\ ui[s].open = {}
    /\ Ops \intersect {"add", "dispute", "complete"} # {}
    /\ ui[s].selected \notin ui[s].ended \union ui[s].disputed
    /\ Update(s, OpenDialog(ui[s], "menu"))
    /\ Tapped(s) /\ UiOnly

\* The Cancel buttons and crosses.
Dismiss(s) ==
    /\ CanTouch(s)
    /\ \E d \in ui[s].open :
          Update(s, IF d \in {"menu", "wallet"} THEN CloseDialog(ui[s], d)
                                               ELSE CloseSheet(ui[s], d))
    /\ Tapped(s) /\ UiOnly

\* openMileStone: a fresh addNewMilstone, menu closed, sheet opened.
OpenMileStone(s) ==
    /\ CanTapIn(s, "add", "menu") /\ s \notin Buyers
    /\ Update(s, OpenSheet(CloseDialog([ui[s] EXCEPT !.draft = 0], "menu"), "add"))
    /\ Tapped(s) /\ UiOnly

\* handelAddMilstone and removeMileStone toggle refreshList each time.
EditDraft(s) ==
    /\ CanTapIn(s, "add", "add")
    /\ \E n \in {ui[s].draft + 1, ui[s].draft - 1} :
          /\ n \in 0..MaxDraft
          /\ Update(s, SetRefreshList([ui[s] EXCEPT !.draft = n],
                                      ~ui[s].refreshList))
    /\ Tapped(s) /\ UiOnly

\* Math.random keys: neither on the server nor in another request.
FreshKeys(p) ==
    {k \in Milestones : /\ Owner[k] = p /\ status[k] = Absent
                        /\ \A m \in net : m.kind = "add" => k \notin m.keys}

HandelAddNewMileStone(s) ==
    /\ CanTapIn(s, "add", "add")
    /\ \E keys \in SUBSET FreshKeys(ui[s].selected) :
          /\ Cardinality(keys) = ui[s].draft
          /\ Send(s, "add", keys, "")
    /\ Update(s, SetLoading(ui[s], TRUE))
    /\ Tapped(s) /\ ServerUnchanged /\ UNCHANGED hist

\* From the menu, or from the dispute message of a disputed proposal.
GetDisputeIssues(s) ==
    /\ \/ CanTapIn(s, "dispute", "menu")
       \/ CanTap(s, "dispute") /\ ui[s].selected \in ui[s].disputed
    /\ Update(s, SetLoader(ui[s], TRUE))
    /\ Send(s, "issues", {}, "")
    /\ Tapped(s) /\ ServerUnchanged /\ UNCHANGED hist

\* The radio buttons of the dispute sheet; a second press clears the choice.
SelectIssue(s) ==
    /\ CanTapIn(s, "dispute", "dispute")
    /\ Update(s, Render([ui[s] EXCEPT !.issue = ~@]))
    /\ Tapped(s) /\ UiOnly

\* createDispute.  With no issue chosen, disputeIssue[null].key throws after
\* setLoader(true) and before the request: the overlay stays.
CreateDispute(s) ==
    /\ CanTapIn(s, "dispute", "dispute")
    /\ Update(s, CloseSheet(SetLoader(ui[s], TRUE), "dispute"))
    /\ IF ui[s].issue
       THEN Send(s, "dispute", {}, "") /\ UNCHANGED hist
       ELSE UNCHANGED net /\ hist' = [hist EXCEPT ![s].finishing = TRUE]
    /\ Tapped(s) /\ ServerUnchanged

OpenCompeteContractSheet(s) ==
    /\ CanTapIn(s, "complete", "menu") /\ s \in Buyers
    /\ ui[s].completable
    /\ Update(s, OpenSheet(CloseDialog(ui[s], "menu"), "complete"))
    /\ Tapped(s) /\ UiOnly

\* completeProjectContract: no answer of the server takes the overlay down.
CompleteProjectContract(s) ==
    /\ CanTapIn(s, "complete", "complete")
    /\ Update(s, SetLoader(CloseSheet(ui[s], "complete"), TRUE))
    /\ Send(s, "complete", {}, "")
    /\ hist' = [hist EXCEPT ![s].finishing = TRUE]
    /\ Tapped(s) /\ ServerUnchanged

AddComment(s) ==
    /\ CanTap(s, "comment")
    /\ Update(s, SetLoader(ui[s], TRUE))
    /\ Send(s, "comment", {}, "")
    /\ Tapped(s) /\ ServerUnchanged /\ UNCHANGED hist

\* getDisputes: the "view dispute" button of a disputed proposal.
GetDisputes(s) ==
    /\ CanTap(s, "dispute")
    /\ ui[s].selected \in ui[s].disputed
    /\ Send(s, "disputes", {}, "")
    /\ Tapped(s) /\ ServerUnchanged /\ UNCHANGED <<ui, hist>>

-----------------------------------------------------------------------------
(* The server: external.  It rejects a key that is not one of the           *)
(* proposal's milestones and may reject anything else; it is not assumed to *)
(* check that a status follows the one it replaces.                         *)

Known(m) == \A k \in m.keys : Owner[k] = m.prop /\ status[k] # Absent

Overtakes(m) == \E n \in net : n.from = m.from /\ n.id < m.id

Answer(m, stage, board) ==
    net' = (net \ {m}) \union {[m EXCEPT !.stage = stage, !.board = board]}

Note(m) == hist' = [hist EXCEPT ![m.from].crossed =
              @ \/ \E n \in net : n.from = m.from /\ n.id < m.id /\ n.stage = "sent"]

Write(keys, st) ==
    /\ status' = [k \in Milestones |-> IF k \in keys THEN st ELSE status[k]]
    /\ was' = [k \in Milestones |-> IF k \in keys THEN was[k] \union {st} ELSE was[k]]

ServeAmounts(m) ==
    /\ m.kind = "amounts"
    /\ Answer(m, "ok", Board(status, m.prop))
    /\ ServerUnchanged

\* update-milestone-status and order-project with the wallet.
ServeStatus(m) ==
    /\ m.kind \in {"status", "pay"} /\ Known(m)
    /\ Write(m.keys, m.status)
    /\ Answer(m, "ok", {})
    /\ UNCHANGED <<unpaid, listed>>

ServeAdd(m) ==
    /\ m.kind = "add"
    /\ Write(m.keys, "")
    /\ Answer(m, "ok", {})
    /\ UNCHANGED <<unpaid, listed>>

ServeCheckout(m) ==
    /\ m.kind = "checkout" /\ Known(m)
    /\ unpaid' = unpaid \union m.keys
    /\ Answer(m, "ok", {})
    /\ UNCHANGED <<status, listed, was>>

\* Requests whose effect on the server no milestone shows.
ServeOther(m) ==
    /\ m.kind \in {"complete", "dispute", "issues", "comment", "disputes"}
    /\ Answer(m, "ok", {})
    /\ ServerUnchanged

Reject(m) ==
    /\ m.kind \notin {"amounts", "issues", "disputes"}
    /\ Answer(m, "error", {})
    /\ ServerUnchanged

Serve(m) ==
    /\ m.stage = "sent"
    /\ \/ ServeAmounts(m) \/ ServeStatus(m) \/ ServeAdd(m)
       \/ ServeCheckout(m) \/ ServeOther(m) \/ Reject(m)
    /\ Note(m)
    /\ UNCHANGED <<ui, taps>>

\* The page the checkout screen shows takes the payment.
PayAtCheckout(k) ==
    /\ k \in unpaid
    /\ \E s \in Screens : ~ui[s].focused
    /\ unpaid' = unpaid \ {k}
    /\ Write({k}, "hired")
    /\ UNCHANGED <<ui, net, listed, taps, hist>>

-----------------------------------------------------------------------------
(* The handlers of the answers: (m) is the answer, its fields the closure. *)

\* Mutant: the arrays are not emptied before they are refilled.
OnAmountsKeepRows(u, m) ==
    {SetRefreshList(Refill(v, v.rows \union m.board), ~m.r) : v \in {u, Render(u)}}

\* getUpdatedAmounts' then: the three setState calls for the amounts, which
\* render if an amount changed, come before the arrays are refilled.
OnAmounts(u, m) ==
    {SetRefreshList(Refill(v, m.board), ~m.r) : v \in {u, Render(u)}}

\* Mutant: the row is given the status that was asked for, whatever the answer.
OnStatusOptimistic(u, m) ==
    Refill(SetLoading(u, FALSE),
           {[row EXCEPT !.status = IF row.key \in m.keys THEN m.status ELSE @] :
                row \in u.rows})

\* updateMileStoneStatus' then, before it calls getUpdatedAmounts.
OnStatus(u, m) ==
    LET v == SetLoading(u, FALSE)
    IN  IF m.stage = "ok" /\ m.status = "decline"
        THEN SetRefreshList(CloseSheet(v, "decline"), ~m.r)
        ELSE v

\* Mutant: the new rows are pushed whatever the server answered.
OnAddUnchecked(u, m) ==
    LET v == SetLoading(u, FALSE)
        pushed == {[key |-> k, status |-> "", src |-> "added"] : k \in m.keys}
    IN  CloseSheet(SetRefreshList(Refill(v, v.rows \union pushed), ~m.r), "add")

\* handelAddNewMileStone's then.
OnAdd(u, m) ==
    LET v == SetLoading(u, FALSE)
        pushed == {[key |-> k, status |-> "", src |-> "added"] : k \in m.keys}
    IN  CloseSheet(IF m.stage = "ok"
                   THEN SetRefreshList(Refill(v, v.rows \union pushed), ~m.r)
                   ELSE v, "add")

\* Mutant: the overlay is taken down only when the payment succeeded.
OnPayErrorForgotten(u, m) ==
    IF m.stage = "error" THEN u
    ELSE LET v == SetLoader(u, FALSE)
         IN  IF m.kind = "checkout" THEN Render([v EXCEPT !.focused = FALSE]) ELSE v

\* hireAndPay's then: checkout navigates away.
OnPay(u, m) ==
    LET v == SetLoader(u, FALSE)
    IN  IF m.stage = "ok" /\ m.kind = "checkout"
        THEN Render([v EXCEPT !.focused = FALSE]) ELSE v

\* completeProjectContract's then: the resets of the review form render if
\* it was filled in; setLoader(false) is commented out.
OnComplete(u, m) ==
    IF m.stage = "ok"
    THEN LET v == [u EXCEPT !.ended = @ \union {m.prop}] IN {v, Render(v)}
    ELSE {u}

\* getDisputeIssues' then.
OnIssues(u) == OpenSheet(SetLoader(CloseDialog(u, "menu"), FALSE), "dispute")

\* The state of the screen after the answer m.
Handled(u, m) ==
    CASE m.kind = "amounts"                -> OnAmounts(u, m)
      [] m.kind = "status"                 -> {OnStatus(u, m)}
      [] m.kind = "add"                    -> {OnAdd(u, m)}
      [] m.kind \in {"pay", "checkout"}    -> {OnPay(u, m)}
      [] m.kind = "complete"               -> OnComplete(u, m)
      [] m.kind = "issues"                 -> {OnIssues(u)}
      [] m.kind \in {"dispute", "comment"} -> {SetLoader(u, FALSE)}
      [] m.kind = "disputes"               -> {Render([u EXCEPT !.focused = FALSE])}

\* Mutant: no refresh after a payment.
RefreshesStatusOnly(m) == m.stage = "ok" /\ m.kind = "status"

\* The answers after which the handler calls getUpdatedAmounts.
Refreshes(m) == m.stage = "ok" /\ m.kind \in {"status", "pay"}

Deliver(m) ==
    /\ m.stage # "sent"
    /\ \E u \in Handled(ui[m.from], m) : Update(m.from, u)
    /\ net' = IF Refreshes(m)
              THEN GetUpdatedAmounts(net \ {m}, m.from, m.prop, m.r)
              ELSE net \ {m}
    /\ hist' = [hist EXCEPT ![m.from].crossed = @ \/ Overtakes(m)]
    /\ ServerUnchanged /\ UNCHANGED taps

\* A request or its answer is lost: every catch calls setLoader(false), and
\* none of them setloading(false).
Fail(m) ==
    /\ Lossy
    /\ Update(m.from, SetLoader(ui[m.from], FALSE))
    /\ net' = net \ {m}
    /\ hist' = [hist EXCEPT ![m.from].failed = TRUE]
    /\ ServerUnchanged /\ UNCHANGED taps

-----------------------------------------------------------------------------
User(s) ==
    \/ Touch(s) \/ (\E p \in Proposals : SetSelectedItem(s, p))
    \/ Approve(s) \/ MarkCompleted(s)
    \/ OpneDeclinedRbSheet(s) \/ SubmitDecline(s)
    \/ OpenWallet(s) \/ HireAndPay(s, "pay") \/ HireAndPay(s, "checkout")
    \/ OpenMenu(s) \/ Dismiss(s)
    \/ OpenMileStone(s) \/ EditDraft(s) \/ HandelAddNewMileStone(s)
    \/ GetDisputeIssues(s) \/ SelectIssue(s) \/ CreateDispute(s)
    \/ OpenCompeteContractSheet(s) \/ CompleteProjectContract(s)
    \/ AddComment(s) \/ GetDisputes(s) \/ Refocus(s)

Network(s) == \E m \in net : m.from = s /\ (Serve(m) \/ Deliver(m) \/ Fail(m))

Next ==
    \/ \E s \in Screens : User(s) \/ Network(s)
    \/ \E k \in Milestones : PayAtCheckout(k)

Spec == Init /\ [][Next]_vars

\* Every exchange ends, in an answer or in an error; users owe nothing.
FairSpec == Spec /\ \A s \in Screens : WF_vars(Network(s))

-----------------------------------------------------------------------------
(* Properties                                                              *)

\* Every status a screen holds, paints or has captured for a sheet is one the
\* server really gave that milestone at some time: no handler makes one up,
\* whatever the order of the answers (getUpdatedAmounts,
\* handelAddNewMileStone, opneDeclinedRbSheet).
NoInventedStatus ==
    \A s \in Screens :
        \A row \in ui[s].rows \union ui[s].painted \union ui[s].declineItem :
            row.status \in was[row.key]

\* Although the server does not check the order of statuses and every screen
\* may act on stale rows, a milestone is only ever released or declined after
\* the seller asked for approval, and that only after it was funded.
CausalLifecycle == Contract!CausalLifecycle

\* The rows of a screen, held or painted, belong to one proposal: the arrays
\* are emptied before they are refilled, on selection and on every answer.
SingleBoard ==
    \A s \in Screens :
        /\ \A a, b \in ui[s].rows : Owner[a.key] = Owner[b.key]
        /\ \A a, b \in ui[s].painted : Owner[a.key] = Owner[b.key]

\* While a payment (or any request that puts the overlay up) is in flight the
\* overlay is up, and it is the only one: the same order-project cannot be
\* sent twice.  Only a network error of another request, whose catch calls
\* setLoader(false), can break this.
PaymentBlocksScreen ==
    \A m \in net :
        m.kind \in OverlayKinds /\ ~hist[m.from].failed
            => /\ ui[m.from].loader
               /\ \A n \in net : n.kind \in OverlayKinds /\ n.from = m.from => n = m

\* Unless an answer overtook an older request, no milestone has two rows: the
\* rows handelAddNewMileStone pushes are not in the arrays yet.
NoDuplicateRows ==
    \A s \in Screens :
        ~hist[s].crossed =>
            \A a, b \in ui[s].rows : a.key = b.key => a = b

Shown(rows) == {<<row.key, row.status>> : row \in rows}

\* The other screens have only looked.
OnlyWriter(s) == \A t \in Screens \ {s} : taps[t] = 0

\* A screen that is the only writer, has nothing in flight, and whose requests
\* were neither lost nor overtaken, holds an exact picture of one of its
\* proposals: every write is followed by a refresh or pushes its own rows.
QuietBoardFresh ==
    \A s \in Screens :
        /\ OnlyWriter(s) /\ ui[s].focused
        /\ \A m \in net : m.from # s
        /\ ~hist[s].failed /\ ~hist[s].crossed
        => \E p \in Listed[s] : Shown(ui[s].rows) = Shown(Board(status, p))

\* The overlay comes down, unless the contract was completed or a dispute
\* submitted without an issue: those two handlers leave it up.
OverlayClears ==
    \A s \in Screens :
        ui[s].loader ~> (~ui[s].loader \/ hist[s].finishing)

\* The screens together implement the contract's life cycle.
ImplementsContract == Contract!Spec
=============================================================================
