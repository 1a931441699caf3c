------------------------------- MODULE MCHiring -------------------------------
(***************************************************************************)
(* Three instances that share nothing: the hiring of a proposal (Hiring),   *)
(* the order of a task (OrderDetail) that has one package or more, with a   *)
(* price that has cents or none, and a dispute (Disputes).  One of them     *)
(* moves while the others wait in an initial state.                         *)
(***************************************************************************)
EXTENDS Hiring, TLC

CONSTANTS
    s1, s2, s3,
    Offers, Services, Price,        \* of OrderDetail
    MaxTouches, MaxSent             \* of OrderDetail and of Disputes

VARIABLES
    active,         \* the instance that moves
    attributes, packageIndex, show, selectedServicesArray, totalPrice, wallet,
    screen, requests, orders, touches,
    user_type, project, comments, disputeStatus, disputeItem, visit, disputeScreen,
    availableTaskList, reply, selectedReply, open, spinning, flag, painted,
    disputeNet, disputeTaps, missed

orderVars == <<attributes, packageIndex, show, selectedServicesArray, totalPrice,
               wallet, screen, requests, orders, touches>>

MCPrice == s1 :> 100 @@ s2 :> 500 @@ s3 :> 750
MCOffers == {<<1000>>, <<1000, 2000>>, <<1000, 2000, 3000>>, <<1050, 2000, 3000>>}

Order == INSTANCE OrderDetail
    WITH MaxTaps <- MaxTouches, MaxPending <- MaxSent, net <- requests, taps <- touches

disputeVars == <<user_type, project, comments, disputeStatus, disputeItem, visit,
                 disputeScreen, availableTaskList, reply, selectedReply, open, spinning,
                 flag, painted, disputeNet, disputeTaps, missed>>

Dispute == INSTANCE Disputes
    WITH MaxTaps <- MaxTouches, MaxPending <- MaxSent,
         status <- disputeStatus, item <- disputeItem,
         screen <- disputeScreen, description <- reply, loading <- spinning,
         refresh <- flag, net <- disputeNet, taps <- disputeTaps, hist <- missed

ASSUME OrderAssumption == Order!ConstantsAssumption
ASSUME DisputeAssumption == Dispute!ConstantsAssumption

Symmetry == Permutations(Proposals)

MCInit ==
    /\ Init /\ Order!Init /\ Dispute!Init
    /\ active \in {"hiring", "order", "dispute"}
    /\ active # "order" => attributes = <<1000>>
    /\ active # "hiring" => isMilestone /\ \A p \in Proposals : terms[p].type = ""
    /\ active # "dispute" => user_type = "buyers" /\ project /\ disputeStatus = "publish"

MCNext ==
    \/ active = "hiring" /\ Next /\ UNCHANGED <<active, orderVars, disputeVars>>
    \/ active = "order" /\ Order!Next /\ UNCHANGED <<active, vars, disputeVars>>
    \/ active = "dispute" /\ Dispute!Next /\ UNCHANGED <<active, vars, orderVars>>

MCSpec == MCInit /\ [][MCNext]_<<active, vars, orderVars, disputeVars>>

\* In whatever order services are added to an order and taken back, orderDetail
\* shows the price of the package and of the services listed above it: unless
\* another package than the first is chosen, or a price has cents.
SubtotalOfSelection == Order!SubtotalOfSelection

\* "Subtotal" (constants/translation.js:89) of orderDetail, below the package and
\* the services that were chosen: when no price has cents.
SubtotalOfPackage == Order!SubtotalOfPackage

\* When no reply is in flight, the dispute holds the replies the server has: unless
\* the other party wrote, the screen was left before the answer, the answer was
\* lost, or the dispute is of an order.  All that it holds is painted, unless the button
\* was touched again before the answer.
RepliesShown == Dispute!RepliesShown
=============================================================================
