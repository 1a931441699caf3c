-------------------------------- MODULE Payouts --------------------------------
(***************************************************************************)
(* The payout methods of a seller (earnings/earnings.js).  payoutList and   *)
(* savedPayout are arrays that getPayoutSettings empties in place when it   *)
(* asks and that its answer pushes to.  A row's sheet edits the fields of   *)
(* the row in place; its button saves them and stays enabled.  One overlay  *)
(* is shared by this look-up and that of the balance.                       *)
(*                                                                         *)
(* What is painted of arrays that change in place is what they held when    *)
(* Earnings rendered last, and it renders when a state is set to another    *)
(* value (an answer renders at each one, in React 17).  The answer sets     *)
(* refresh to the opposite of what it was when the look-up's closure was    *)
(* made, once before the saved method is pushed and once after, when it     *)
(* already has that value.                                                  *)
(*                                                                         *)
(* What the fields of a method hold is the number of the touch that typed   *)
(* it, 0 when blank; they are painted in its sheet only.                    *)
(***************************************************************************)
EXTENDS Naturals, FiniteSets, SequencesExt

CONSTANTS
    Methods,                \* payout methods
    None,                   \* no method is saved
    MaxTaps, MaxPending     \* bounds

VARIABLES
    saved,          \* the server: the method saved, and what its fields hold
    payoutList,     \* the rows
    savedPayout,    \* the first one is marked
    payoutData,     \* the row whose sheet was opened last, or 0 when it is not held
    sheet,          \* payoutData, or 0 when the sheet is closed
    loader,         \* the overlay
    loading,        \* the spinner of the button
    refresh, painted,
    net,            \* requests in flight, in the order they were sent
    taps,           \* touches
    hist            \* history

shown == <<loading, refresh, painted>>
vars == <<saved, payoutList, savedPayout, payoutData, sheet, loader, shown, net, taps, hist>>

ConstantsAssumption ==
    /\ IsFiniteSet(Methods) /\ Methods # {} /\ None \notin Methods
    /\ MaxTaps \in Nat /\ MaxPending \in Nat \ {0, 1}

Setting == [type : Methods, value : 0 .. MaxTaps]
Nothing == [type |-> None, value |-> 0]

\* stage: "sent", "ok", or "refused" (status 203); refresh as it was captured.
Ask(kind, setting, r) ==
    [kind |-> kind, stage |-> "sent", setting |-> setting, refresh |-> r]
Request == [kind : {"balance", "payouts", "save"}, stage : {"sent", "ok", "refused"},
            setting : Setting \union {Nothing}, refresh : BOOLEAN]
Asked(kind) == {i \in DOMAIN net : net[i].kind = kind}

TypeOK ==
    /\ saved \in Setting \union {Nothing}
    /\ payoutList \in Seq(Setting) /\ savedPayout \in Seq(Setting)
    /\ payoutData \in 0 .. Len(payoutList) /\ sheet \in {0, payoutData}
    /\ loader \in BOOLEAN /\ loading \in BOOLEAN /\ refresh \in BOOLEAN
    /\ painted \in [rows : Seq(Methods), mark : Methods \union {None}]
    /\ net \in Seq(Request) /\ Len(net) <= MaxPending /\ taps \in 0 .. MaxTaps
    /\ hist \in [failed : BOOLEAN, twice : BOOLEAN, typed : SUBSET Methods,
                 meanwhile : BOOLEAN, touched : BOOLEAN]

\* What is painted: the methods, and the one that is marked.
View(rows, marks) ==
    [rows |-> [i \in DOMAIN rows |-> rows[i].type],
     mark |-> IF marks = <<>> THEN None ELSE marks[1].type]

\* A state of Earnings is set, which renders if it had another value.
Rendered(changed) == IF changed THEN View(payoutList, savedPayout) ELSE painted

\* The effect: both look-ups.
Init ==
    /\ saved \in {Nothing} \union {[type |-> m, value |-> 0] : m \in Methods}
    /\ payoutList = <<>> /\ savedPayout = <<>> /\ payoutData = 0 /\ sheet = 0
    /\ loader = TRUE /\ loading = FALSE /\ refresh = FALSE /\ painted = View(<<>>, <<>>)
    /\ net = <<Ask("balance", Nothing, FALSE), Ask("payouts", Nothing, FALSE)>> /\ taps = 0
    /\ hist = [failed |-> FALSE, twice |-> FALSE, typed |-> {}, meanwhile |-> FALSE,
               touched |-> FALSE]

-----------------------------------------------------------------------------
(* The user, and React                                                     *)

Tapped == ~loader /\ taps < MaxTaps /\ taps' = taps + 1
Send(m) == Len(net) < MaxPending /\ net' = Append(net, m)

\* The list renders for another reason, such as the rows it has room for.
Render ==
    /\ painted # Rendered(TRUE) /\ painted' = Rendered(TRUE)
    /\ UNCHANGED <<saved, payoutList, savedPayout, payoutData, sheet, loader, loading, refresh,
                   net, taps, hist>>

\* The icon beside the balance.
GetEarningInformation ==
    /\ sheet = 0 /\ Tapped /\ loader' = TRUE /\ Send(Ask("balance", Nothing, refresh))
    /\ painted' = Rendered(TRUE) /\ hist' = [hist EXCEPT !.touched = TRUE]
    /\ UNCHANGED <<saved, payoutList, savedPayout, payoutData, sheet, loading, refresh>>

OpenSheet(i) ==
    /\ sheet = 0 /\ Tapped /\ payoutData' = i /\ sheet' = i
    /\ painted' = Rendered(payoutData # i) /\ hist' = [hist EXCEPT !.touched = TRUE]
    /\ UNCHANGED <<saved, payoutList, savedPayout, loader, loading, refresh, net>>

CloseSheet ==
    /\ sheet # 0 /\ Tapped /\ sheet' = 0
    /\ UNCHANGED <<saved, payoutList, savedPayout, payoutData, loader, shown, net, hist>>

\* In place: the row holds it even when the sheet is closed without saving.
ChangeInputValue ==
    /\ sheet # 0 /\ Tapped
    /\ payoutList' = [payoutList EXCEPT ![sheet].value = taps']
    /\ refresh' = ~refresh /\ painted' = Rendered(TRUE)
    /\ hist' = [hist EXCEPT !.typed = @ \union {payoutList[sheet].type}]
    /\ UNCHANGED <<saved, savedPayout, payoutData, sheet, loader, loading, net>>

ChangePayoutData ==
    /\ sheet # 0 /\ Tapped /\ Send(Ask("save", payoutList[sheet], refresh))
    /\ loading' = TRUE /\ painted' = Rendered(~loading)
    /\ UNCHANGED <<saved, payoutList, savedPayout, payoutData, sheet, loader, refresh, hist>>

-----------------------------------------------------------------------------
(* The server                                                              *)

Reply(i, stage, setting) ==
    /\ net[i].stage = "sent"
    /\ net' = [net EXCEPT ![i].stage = stage, ![i].setting = setting]
    /\ UNCHANGED <<payoutList, savedPayout, payoutData, sheet, loader, shown, taps, hist>>

Serve(i) ==
    \/ net[i].kind = "balance" /\ Reply(i, "ok", Nothing) /\ UNCHANGED saved
    \/ net[i].kind = "payouts" /\ Reply(i, "ok", saved) /\ UNCHANGED saved
    \/ net[i].kind = "save" /\ Reply(i, "ok", net[i].setting) /\ saved' = net[i].setting
    \/ net[i].kind = "save" /\ Reply(i, "refused", net[i].setting) /\ UNCHANGED saved

-----------------------------------------------------------------------------
(* The answers                                                             *)

\* The amounts render when one of them changes.
DeliverBalance(i) ==
    /\ net[i].kind = "balance" /\ net[i].stage = "ok"
    /\ loader' = FALSE /\ net' = RemoveAt(net, i)
    /\ \E changed \in BOOLEAN : painted' = Rendered(loader \/ changed)
    /\ UNCHANGED <<saved, payoutList, savedPayout, payoutData, sheet, loading, refresh, taps,
                   hist>>

Blank == SetToSeq({[type |-> m, value |-> 0] : m \in Methods})

\* The fields of the saved method get the saved values, in every row of it.
Filled(rows, first) ==
    [i \in DOMAIN rows |-> IF rows[i].type = first.type THEN first ELSE rows[i]]

\* Mutant: refresh is not set to another value.
Same(m) == refresh

\* setRefresh(!refresh).
Toggled(m) == ~m.refresh

\* getPayoutSettings' then; it throws at the end when nothing is saved.  The rows are
\* pushed after the overlay is down, the method saved after the first setRefresh.
DeliverPayouts(i) ==
    /\ net[i].kind = "payouts" /\ net[i].stage = "ok"
    /\ loader' = FALSE
    /\ savedPayout' = IF net[i].setting = Nothing THEN savedPayout
                      ELSE Append(savedPayout, net[i].setting)
    /\ payoutList' = IF savedPayout' = <<>> THEN payoutList \o Blank
                     ELSE Filled(payoutList \o Blank, savedPayout'[1])
    /\ refresh' = Toggled(net[i])
    /\ painted' = IF refresh' # refresh THEN View(payoutList', savedPayout)
                  ELSE Rendered(loader)
    /\ net' = RemoveAt(net, i)
    /\ hist' = [hist EXCEPT !.touched = FALSE]
    /\ UNCHANGED <<saved, payoutData, sheet, loading, taps>>

\* Mutant: the rows are emptied, what was saved is not.
EmptiedRows == payoutList' = <<>> /\ UNCHANGED savedPayout

Emptied == payoutList' = <<>> /\ savedPayout' = <<>>

\* changePayoutData's then: 200 refreshes, 203 closes the sheet only.
DeliverSave(i) ==
    /\ net[i].kind = "save" /\ net[i].stage # "sent"
    /\ sheet' = 0 /\ loading' = FALSE
    /\ IF net[i].stage = "ok"
       THEN /\ Emptied /\ payoutData' = 0 /\ loader' = TRUE
            /\ painted' = IF loader THEN Rendered(loading) ELSE View(<<>>, <<>>)
            /\ net' = Append(RemoveAt(net, i), Ask("payouts", Nothing, net[i].refresh))
            /\ hist' = [failed |-> FALSE, twice |-> Asked("payouts") # {}, typed |-> {},
                        meanwhile |-> net[i].refresh # refresh, touched |-> FALSE]
       ELSE /\ net' = RemoveAt(net, i) /\ painted' = Rendered(loading)
            /\ UNCHANGED <<payoutList, savedPayout, payoutData, loader, hist>>
    /\ UNCHANGED <<saved, refresh, taps>>

\* The catch of a look-up takes the overlay down; that of a save does nothing.
Fail(i) ==
    /\ net' = RemoveAt(net, i)
    /\ loader' = (loader /\ net[i].kind = "save")
    /\ painted' = Rendered(loader' # loader)
    /\ hist' = IF net[i].kind = "payouts" \/ (net[i].kind = "save" /\ net[i].stage = "ok")
               THEN [hist EXCEPT !.failed = TRUE] ELSE hist
    /\ UNCHANGED <<saved, payoutList, savedPayout, payoutData, sheet, loading, refresh, taps>>

Next ==
    \/ Render \/ GetEarningInformation \/ CloseSheet \/ ChangeInputValue \/ ChangePayoutData
    \/ \E i \in DOMAIN painted.rows : OpenSheet(i)
    \/ \E i \in DOMAIN net : Serve(i)
    \/ \E i \in DOMAIN net : DeliverBalance(i) \/ DeliverPayouts(i) \/ DeliverSave(i)
    \/ \E i \in DOMAIN net : Fail(i)

Spec == Init /\ [][Next]_vars

-----------------------------------------------------------------------------
\* When no look-up of the methods and no save is in flight, every method has
\* one row, the one that is marked is the one the server has saved, and a row
\* that was not typed into holds what the server has: unless the last refresh
\* failed or the answer of a save was lost, or it was asked for while another one
\* was in flight, as when the button is touched twice: then both push.  The rows are
\* painted, unless a field was typed into after the button was touched, when the
\* refresh sets the value that typing had set; no method is painted as the one saved
\* that is not; and all is painted once a sheet was opened, or the balance asked for,
\* since the answer: until then the saved one may not be marked.
PayoutsShown ==
    Asked("payouts") = {} /\ Asked("save") = {} /\ ~hist.failed /\ ~hist.twice =>
        /\ savedPayout = IF saved = Nothing THEN <<>> ELSE <<saved>>
        /\ \A m \in Methods :
              Cardinality({i \in DOMAIN payoutList : payoutList[i].type = m}) = 1
        /\ \A i \in DOMAIN payoutList :
              payoutList[i].type \notin hist.typed =>
                  payoutList[i].value = IF payoutList[i].type = saved.type
                                        THEN saved.value ELSE 0
        /\ ~hist.meanwhile => painted.rows = Rendered(TRUE).rows
        /\ painted.mark \in {None, saved.type}
        /\ hist.touched => painted = Rendered(TRUE)
=============================================================================
