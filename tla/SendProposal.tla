----------------------------- MODULE SendProposal -----------------------------
(***************************************************************************)
(* screens/exploreProjects/sendProposal: a seller writes a proposal for a   *)
(* project that is paid by milestones, or edits the one sent before.  The   *)
(* fee and the total of the rate are asked for at every change of the rate; *)
(* the proposal that is edited arrives after the form is shown; milestones  *)
(* are added and changed in a sheet, in place; the button stays enabled     *)
(* while update-proposal is in flight, and its success leaves the screen.   *)
(*                                                                         *)
(* A rate is a number, 0 when blank; a milestone is the touch that wrote    *)
(* it.  The comment is left out: it is loaded and sent as the rate is.  So  *)
(* are the keys the server knows milestones by, which Hiring models.        *)
(***************************************************************************)
EXTENDS Naturals, FiniteSets, SequencesExt

CONSTANTS MaxRate, MaxTaps, MaxPending      \* bounds

VARIABLES
    edit,           \* route.params.edit
    server,         \* the proposal the server has
    page,           \* "open", or "done" after a success
    rate, method, milestonesArray,          \* the form
    open, selectedMilestone,                \* the sheet; 0 for null
    amounts, showLoading,                   \* the rate serviceFee and totalAmount are of
    net,            \* requests in flight
    taps,           \* touches
    meant,          \* what the seller wants the proposal to be
    hist            \* history

form == <<rate, method, milestonesArray>>
sheet == <<open, selectedMilestone>>
fees == <<amounts, showLoading>>
vars == <<edit, server, page, form, sheet, fees, net, taps, meant, hist>>

\* 1 is the rate of the proposal to edit.
ASSUME ConstantsAssumption == MaxRate \in Nat \ {0} /\ MaxTaps \in Nat /\ MaxPending \in Nat

Rates == 0 .. MaxRate
Proposal == [rate : Rates, method : {"fixed", "milestone"}, milestones : SUBSET Nat]
Blank == [rate |-> 0, method |-> "fixed", milestones |-> {}]
Reasons == {"unloaded", "replaced", "after"}
Request == [n : Nat, kind : {"fee", "load", "submit"}, proposal : Proposal,
            stage : {"sent", "ok", "error"}]

Elements(s) == {s[i] : i \in DOMAIN s}
Req(n, kind, p) == [n |-> n, kind |-> kind, proposal |-> p, stage |-> "sent"]
Fee(n, r) == Req(n, "fee", [Blank EXCEPT !.rate = r])

\* The screen was just mounted, and both its effects have run.
Init ==
    /\ edit \in BOOLEAN /\ page = "open"
    /\ server \in IF edit THEN {[rate |-> 1, method |-> "fixed", milestones |-> {}],
                                [rate |-> 1, method |-> "milestone", milestones |-> {0}]}
                  ELSE {Blank}
    /\ rate = 0 /\ method = "fixed" /\ milestonesArray = <<>>
    /\ open = FALSE /\ selectedMilestone = 0 /\ amounts = 0 /\ showLoading = TRUE
    /\ net = {Fee(1, 0)} \union (IF edit THEN {Req(1, "load", Blank)} ELSE {})
    /\ taps = 1 /\ meant = server
    /\ hist = [why |-> {}, late |-> FALSE, typed |-> FALSE, loaded |-> ~edit, row |-> 0]

-----------------------------------------------------------------------------
(* The seller                                                              *)

Tapped == page = "open" /\ taps < MaxTaps /\ taps' = taps + 1

Pending(kind) == {m \in net : m.kind = kind}

\* The seller changes the form: what was submitted already does not follow.
Mean(p) ==
    /\ meant' = p
    /\ hist' = [hist EXCEPT !.typed = TRUE,
                            !.why = IF Pending("submit") = {} THEN @ ELSE @ \union {"after"}]

\* Mutant: the fee is asked for by onChangeText, which has the old rate.
FeeAskedOld(r) ==
    IF r = rate THEN UNCHANGED <<net, showLoading>>
    ELSE net' = net \union {Fee(2 * taps', rate)} /\ showLoading' = TRUE

\* setRate, and getAdminShare by the effect on the rate.
FeeAsked(r) ==
    IF r = rate THEN UNCHANGED <<net, showLoading>>
    ELSE net' = net \union {Fee(2 * taps', r)} /\ showLoading' = TRUE

TypeRate(r) ==
    /\ ~open /\ r # rate /\ Cardinality(net) < MaxPending
    /\ Tapped /\ FeeAsked(r) /\ rate' = r
    /\ Mean([meant EXCEPT !.rate = r])
    /\ UNCHANGED <<edit, server, page, method, milestonesArray, sheet, amounts>>

SetPaymentMethod(p) ==
    /\ ~open /\ p # method
    /\ Tapped /\ method' = p
    /\ Mean([meant EXCEPT !.method = p])
    /\ UNCHANGED <<edit, server, page, rate, milestonesArray, sheet, fees, net>>

\* Mutant: the milestone that was edited last stays selected.
SelectedStays == selectedMilestone

SelectedByCreate == 0

CreateMilestones ==
    /\ ~open /\ method = "milestone"
    /\ Tapped /\ open' = TRUE /\ selectedMilestone' = SelectedByCreate
    /\ hist' = [hist EXCEPT !.row = 0]
    /\ UNCHANGED <<edit, server, page, form, fees, net, meant>>

EditMilestone(i) ==
    /\ ~open
    /\ Tapped /\ open' = TRUE /\ selectedMilestone' = i
    /\ hist' = [hist EXCEPT !.row = i]
    /\ UNCHANGED <<edit, server, page, form, fees, net, meant>>

CloseSheet ==
    /\ open /\ Tapped /\ open' = FALSE
    /\ UNCHANGED <<edit, server, page, form, selectedMilestone, fees, net, meant, hist>>

\* addMilestoneData with its fields filled in.  hist.row is the one the sheet was
\* opened for.
AddMilestoneData ==
    LET old == IF hist.row \in DOMAIN milestonesArray THEN {milestonesArray[hist.row]} ELSE {}
    IN  /\ open /\ Tapped /\ open' = FALSE
        /\ selectedMilestone \in {0} \union DOMAIN milestonesArray
        /\ milestonesArray' =
               IF selectedMilestone = 0 THEN Append(milestonesArray, taps)
               ELSE [milestonesArray EXCEPT ![selectedMilestone] = taps]
        /\ Mean([meant EXCEPT !.milestones = (@ \ old) \union {taps}])
        /\ UNCHANGED <<edit, server, page, rate, method, selectedMilestone, fees, net>>

DeleteMilestone(i) ==
    /\ ~open
    /\ Tapped /\ milestonesArray' = RemoveAt(milestonesArray, i)
    /\ Mean([meant EXCEPT !.milestones = @ \ {milestonesArray[i]}])
    /\ UNCHANGED <<edit, server, page, rate, method, sheet, fees, net>>

\* submitProposal: the milestones go with a proposal that is paid by them.
SubmitProposal ==
    /\ ~open /\ Cardinality(net) < MaxPending
    /\ Tapped
    /\ net' = net \union
          {Req(taps, "submit",
               [rate |-> rate, method |-> method,
                milestones |-> IF method = "milestone" THEN Elements(milestonesArray) ELSE {}])}
    /\ hist' = [hist EXCEPT !.why = IF hist.loaded THEN @ ELSE @ \union {"unloaded"}]
    /\ UNCHANGED <<edit, server, page, form, sheet, fees, meant>>

-----------------------------------------------------------------------------
(* The server, external                                                    *)

Reply(m, stage, p) == net' = (net \ {m}) \union {[m EXCEPT !.stage = stage, !.proposal = p]}

Serve(m) ==
    /\ m.kind # "fee" /\ m.stage = "sent"
    /\ \/ m.kind = "load" /\ Reply(m, "ok", server) /\ UNCHANGED server
       \/ m.kind = "submit" /\ Reply(m, "ok", m.proposal) /\ server' = m.proposal
       \/ Reply(m, "error", m.proposal) /\ UNCHANGED server
    /\ UNCHANGED <<edit, page, form, sheet, fees, taps, meant, hist>>

-----------------------------------------------------------------------------
(* The answers                                                             *)

\* Whether a look-up of the fee is the last that was sent, and the others.
Newest(m) == \A o \in Pending("fee") : o.n <= m.n
Alone(m) == Pending("fee") = {m}

\* getAdminShare's then and catch: an error, or no answer, keeps the amounts.
DeliverFee(m, ok) ==
    /\ page = "open" /\ m.kind = "fee"
    /\ amounts' = IF ok THEN m.proposal.rate ELSE amounts
    /\ showLoading' = FALSE
    /\ hist' = [hist EXCEPT !.late = @ \/ (Newest(m) /\ ~(ok /\ Alone(m)))]
    /\ net' = net \ {m}
    /\ UNCHANGED <<edit, server, page, form, sheet, taps, meant>>

\* getProposalData's then.  A proposal without milestones may be one that has no
\* such field: setMilestonesArray is not reached then.
DeliverProposal(m) ==
    /\ page = "open" /\ m.kind = "load" /\ m.stage = "ok"
    /\ rate' = m.proposal.rate /\ method' = m.proposal.method
    /\ \/ milestonesArray' = SetToSeq(m.proposal.milestones)
       \/ m.proposal.milestones = {} /\ UNCHANGED milestonesArray
    /\ amounts' = m.proposal.rate
    /\ IF rate' = rate THEN net' = net \ {m} /\ UNCHANGED showLoading
       ELSE net' = (net \ {m}) \union {Fee(2 * taps + 1, rate')} /\ showLoading' = TRUE
    /\ hist' = [hist EXCEPT !.loaded = TRUE,
                            !.why = IF hist.typed THEN @ \union {"replaced"} ELSE @]
    /\ UNCHANGED <<edit, server, page, sheet, taps, meant>>

\* submitProposal's then, which leaves the screen.
DeliverSubmit(m) ==
    /\ page = "open" /\ m.kind = "submit" /\ m.stage = "ok"
    /\ page' = "done" /\ net' = net \ {m}
    /\ UNCHANGED <<edit, server, form, sheet, fees, taps, meant, hist>>

\* A refusal, or a request or an answer that is lost.
Fail(m) ==
    /\ page = "open" /\ m.kind # "fee" /\ m.stage # "sent"
    /\ net' = net \ {m}
    /\ UNCHANGED <<edit, server, page, form, sheet, fees, taps, meant, hist>>

Next ==
    \/ \E r \in Rates : TypeRate(r)
    \/ \E p \in {"fixed", "milestone"} : SetPaymentMethod(p)
    \/ CreateMilestones \/ CloseSheet \/ AddMilestoneData \/ SubmitProposal
    \/ \E i \in DOMAIN milestonesArray : EditMilestone(i) \/ DeleteMilestone(i)
    \/ \E m \in net :
          \/ Serve(m) \/ DeliverProposal(m) \/ DeliverSubmit(m) \/ Fail(m)
          \/ \E ok \in BOOLEAN : DeliverFee(m, ok)

Spec == Init /\ [][Next]_vars

-----------------------------------------------------------------------------
TypeOK ==
    /\ edit \in BOOLEAN /\ server \in Proposal /\ page \in {"open", "done"}
    /\ rate \in Rates /\ method \in {"fixed", "milestone"} /\ milestonesArray \in Seq(Nat)
    /\ open \in BOOLEAN /\ selectedMilestone \in Nat
    /\ amounts \in Rates /\ showLoading \in BOOLEAN
    /\ net \subseteq Request /\ taps \in Nat /\ meant \in Proposal
    /\ hist \in [why : SUBSET Reasons, late : BOOLEAN, typed : BOOLEAN,
                 loaded : BOOLEAN, row : Nat]

\* The fee and the total shown are those of the rate above them once no look-up
\* is in flight, unless the answers of two look-ups changed places or the last
\* one failed: the amounts of another rate stay then.
AmountsOfRate ==
    page = "open" /\ rate # 0 /\ ~showLoading /\ Pending("fee") = {} /\ ~hist.late
    => amounts = rate

\* When the screen was left because the server had accepted the proposal, the
\* server has the one the seller wanted: every milestone added and not deleted,
\* as it was changed last.  Unless it was submitted before the one to edit had
\* arrived, which blanks that one; what was typed was replaced when it arrived;
\* or it was changed while a submission was in flight.
AcceptedAsMeant ==
    page = "done" /\ hist.why = {} =>
        /\ server.rate = meant.rate /\ server.method = meant.method
        /\ meant.method = "milestone" => server.milestones = meant.milestones
=============================================================================
