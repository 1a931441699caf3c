-------------------------------- MODULE Orders --------------------------------
(***************************************************************************)
(* The screen of an ordered task (manageTasks/availableTaskDetail.js), on   *)
(* which the buyer completes or cancels it, either party writes messages,   *)
(* disputes it, renews a dispute and looks at it.  One overlay covers the   *)
(* screen while a request is in flight.  Only the answer to a message       *)
(* fetches the order anew: the other handlers leave `data` as it was.  The  *)
(* description is one state for the message and for both sheets.            *)
(*                                                                         *)
(* A message is counted, and a description is the number of the touch that  *)
(* typed it, 0 when empty.  That a seller sees the details of a dispute     *)
(* only for some order_status, and a buyer may renew one only after some    *)
(* time, is left open: either may be.                                       *)
(***************************************************************************)
EXTENDS Naturals, FiniteSets

CONSTANTS MaxTaps, MaxPending       \* bounds

VARIABLES
    user_type,
    order,              \* the server: task_status, dispute_status, messages
    data,               \* the order as it was fetched
    screen,             \* "order", "disputesDetail", or "left"
    loader,             \* the overlay
    sheet,              \* the one that is open, or ""
    description,
    disputeIssue,       \* the issues were fetched
    selectedIssue,      \* one of them is selected
    net,                \* requests in flight
    taps,               \* touches
    stale,              \* history: why data may not be the order
    stuck               \* history: an overlay that no answer takes down

vars == <<user_type, order, data, screen, loader, sheet, description, disputeIssue,
          selectedIssue, net, taps, stale, stuck>>

ConstantsAssumption == MaxTaps \in Nat /\ MaxPending \in Nat

Disputed == {"", "publish", "declined", "disputed", "refunded"}
Order == [task_status : {"hired", "completed", "cancelled"}, dispute_status : Disputed,
          messages : Nat]
Kinds == {"issues", "message", "order", "create-dispute", "complete", "cancel",
          "update-dispute", "dispute"}
Request == [kind : Kinds, stage : {"sent", "success", "error"}, order : Order]
Reasons == {"others", "completed", "disputed", "renewed", "lost"}

TypeOK ==
    /\ user_type \in {"buyers", "sellers"} /\ order \in Order /\ data \in Order
    /\ screen \in {"order", "disputesDetail", "left"} /\ loader \in BOOLEAN
    /\ sheet \in {"", "complete", "cancel", "dispute"} /\ description \in Nat
    /\ disputeIssue \in BOOLEAN /\ selectedIssue \in BOOLEAN
    /\ net \subseteq Request /\ taps \in 0 .. MaxTaps
    /\ stale \subseteq Reasons /\ stuck \in BOOLEAN

Sent(kind) == [kind |-> kind, stage |-> "sent", order |-> data]

\* The screen was opened from the list, and its effect asks for the issues.
Init ==
    /\ user_type \in {"buyers", "sellers"}
    /\ order \in [task_status : {"hired", "cancelled"}, dispute_status : {"", "publish", "declined"},
                  messages : {0}]
    /\ data = order /\ screen = "order" /\ loader = TRUE /\ sheet = ""
    /\ description = 0 /\ disputeIssue = FALSE /\ selectedIssue = FALSE
    /\ net = {[kind |-> "issues", stage |-> "sent", order |-> order]} /\ taps = 0
    /\ stale = {} /\ stuck = FALSE

-----------------------------------------------------------------------------
(* The user                                                                *)

Tapped == screen = "order" /\ ~loader /\ taps < MaxTaps /\ taps' = taps + 1
Seller == user_type = "sellers"
Ongoing == data.task_status = "hired"

\* A request, and the overlay.
Ask(kind) ==
    /\ Cardinality(net) < MaxPending
    /\ net' = net \union {Sent(kind)} /\ loader' = TRUE

\* The text of the message, of the dispute, or of the cancellation.
SetDescription ==
    /\ Tapped /\ sheet # "complete" /\ (sheet = "" => Ongoing)
    /\ description' = taps'
    /\ UNCHANGED <<user_type, order, data, screen, loader, sheet, disputeIssue,
                   selectedIssue, net, stale, stuck>>

\* The check beside the status, and the button above the history.
Offered(s) ==
    \/ s # "dispute" /\ ~Seller /\ Ongoing
    \/ /\ s = "dispute" /\ data.dispute_status = ""
       /\ Seller => data.task_status \in {"cancelled", "hired"}

OpenSheet(s) ==
    /\ Tapped /\ sheet = "" /\ Offered(s) /\ sheet' = s
    /\ UNCHANGED <<user_type, order, data, screen, loader, description, disputeIssue,
                   selectedIssue, net, stale, stuck>>

CloseSheet ==
    /\ Tapped /\ sheet # "" /\ sheet' = ""
    /\ UNCHANGED <<user_type, order, data, screen, loader, description, disputeIssue,
                   selectedIssue, net, stale, stuck>>

SelectIssue ==
    /\ Tapped /\ sheet = "dispute" /\ disputeIssue /\ selectedIssue' = ~selectedIssue
    /\ UNCHANGED <<user_type, order, data, screen, loader, sheet, description,
                   disputeIssue, net, stale, stuck>>

UpdateActivities ==
    /\ Tapped /\ sheet = "" /\ Ongoing /\ Ask("message")
    /\ UNCHANGED <<user_type, order, data, screen, sheet, description, disputeIssue,
                   selectedIssue, stale, stuck>>

\* Without an issue it throws, after the overlay was shown: the screen stays
\* covered, or the app ends where an uncaught error is fatal.
CreateDispute ==
    /\ Tapped /\ sheet = "dispute" /\ sheet' = ""
    /\ IF selectedIssue THEN Ask("create-dispute") /\ UNCHANGED stuck
       ELSE loader' = TRUE /\ stuck' = TRUE /\ UNCHANGED net
    /\ UNCHANGED <<user_type, order, data, screen, description, disputeIssue,
                   selectedIssue, stale>>

\* completeStatusTask, cancelStatusTask.
Settle(kind) ==
    /\ Tapped /\ sheet = kind /\ sheet' = "" /\ Ask(kind)
    /\ UNCHANGED <<user_type, order, data, screen, description, disputeIssue,
                   selectedIssue, stale, stuck>>

UpdateDispute ==
    /\ Tapped /\ sheet = "" /\ Ask("update-dispute")
    /\ data.dispute_status = IF Seller THEN "declined" ELSE "publish"
    /\ UNCHANGED <<user_type, order, data, screen, sheet, description, disputeIssue,
                   selectedIssue, stale, stuck>>

ShowDisputeDetail ==
    /\ Tapped /\ sheet = "" /\ Ask("dispute")
    /\ data.dispute_status \in {"disputed", "publish", "refunded"}
    /\ UNCHANGED <<user_type, order, data, screen, sheet, description, disputeIssue,
                   selectedIssue, stale, stuck>>

\* Back from disputesDetail, which is on top of this screen.
Back ==
    /\ screen = "disputesDetail" /\ screen' = "order"
    /\ UNCHANGED <<user_type, order, data, loader, sheet, description, disputeIssue,
                   selectedIssue, net, taps, stale, stuck>>

-----------------------------------------------------------------------------
(* The server, and the other party                                         *)

\* What a request does to the order when it is accepted.
Applied(kind) ==
    CASE kind = "message" -> [order EXCEPT !.messages = @ + 1]
      [] kind = "complete" -> [order EXCEPT !.task_status = "completed"]
      [] kind = "cancel" -> [order EXCEPT !.task_status = "cancelled"]
      [] kind = "create-dispute" -> [order EXCEPT !.dispute_status = "publish"]
      [] kind = "update-dispute" -> [order EXCEPT !.dispute_status = "disputed"]
      [] OTHER -> order

Why(kind) ==
    CASE kind = "complete" -> {"completed"}
      [] kind = "create-dispute" -> {"disputed"}
      [] kind = "update-dispute" -> {"renewed"}
      [] OTHER -> {}

Serve(m) ==
    /\ m.stage = "sent"
    /\ \/ /\ order' = Applied(m.kind)
          /\ net' = (net \ {m}) \union {[m EXCEPT !.stage = "success", !.order = order']}
          /\ stale' = IF m.kind = "order" THEN {} ELSE stale \union Why(m.kind)
       \/ /\ m.kind # "order"
          /\ net' = (net \ {m}) \union {[m EXCEPT !.stage = "error"]}
          /\ UNCHANGED <<order, stale>>
    /\ UNCHANGED <<user_type, data, screen, loader, sheet, description, disputeIssue,
                   selectedIssue, taps, stuck>>

\* The other party, or the administrator, acts.
Others ==
    /\ taps < MaxTaps /\ taps' = taps + 1
    /\ order' \in {Applied(k) : k \in Kinds}
                  \union {[order EXCEPT !.dispute_status = d] : d \in {"declined", "refunded"}}
    /\ stale' = stale \union {"others"}
    /\ UNCHANGED <<user_type, data, screen, loader, sheet, description, disputeIssue,
                   selectedIssue, net, stuck>>

-----------------------------------------------------------------------------
(* The answers                                                             *)

\* The then of a request that is answered by one branch or the other.
Answered(m, kind) == m.kind = kind /\ m.stage # "sent" /\ net' = net \ {m} /\ loader' = FALSE

DeliverIssues(m) ==
    /\ Answered(m, "issues")
    /\ disputeIssue' = (disputeIssue \/ m.stage = "success")
    /\ UNCHANGED <<user_type, order, data, screen, sheet, description, selectedIssue,
                   taps, stale, stuck>>

\* Mutant: the order is fetched without covering the screen.
CoveredBefore == loader' = FALSE

\* getAvailableTask, which covers the screen again.
Covered == loader' = TRUE

\* updateActivities' then, an error included.
DeliverMessage(m) ==
    /\ m.kind = "message" /\ m.stage # "sent"
    /\ net' = (net \ {m}) \union {Sent("order")} /\ Covered
    /\ description' = 0
    /\ UNCHANGED <<user_type, order, data, screen, sheet, disputeIssue, selectedIssue,
                   taps, stale, stuck>>

DeliverOrder(m) ==
    /\ Answered(m, "order") /\ data' = m.order
    /\ UNCHANGED <<user_type, order, screen, sheet, description, disputeIssue,
                   selectedIssue, taps, stale, stuck>>

\* createDispute's, completeStatusTask's and updateDispute's then.
DeliverDone(m) ==
    /\ \E k \in {"create-dispute", "complete", "update-dispute"} : Answered(m, k)
    /\ UNCHANGED <<user_type, order, data, screen, sheet, description, disputeIssue,
                   selectedIssue, taps, stale, stuck>>

DeliverCancel(m) ==
    /\ Answered(m, "cancel")
    /\ IF m.stage = "success" THEN description' = 0 /\ screen' = "left"
       ELSE UNCHANGED <<description, screen>>
    /\ UNCHANGED <<user_type, order, data, sheet, disputeIssue, selectedIssue, taps, stale,
                   stuck>>

DeliverDispute(m) ==
    /\ Answered(m, "dispute")
    /\ screen' = IF m.stage = "success" THEN "disputesDetail" ELSE screen
    /\ UNCHANGED <<user_type, order, data, sheet, description, disputeIssue,
                   selectedIssue, taps, stale, stuck>>

\* Every catch.
Fail(m) ==
    /\ net' = net \ {m} /\ loader' = FALSE
    /\ stale' = IF m.stage = "success" \/ m.kind = "order" THEN stale \union {"lost"} ELSE stale
    /\ UNCHANGED <<user_type, order, data, screen, sheet, description, disputeIssue,
                   selectedIssue, taps, stuck>>

Next ==
    \/ SetDescription \/ CloseSheet \/ SelectIssue \/ UpdateActivities \/ CreateDispute
    \/ \E s \in {"complete", "cancel", "dispute"} : OpenSheet(s)
    \/ \E k \in {"complete", "cancel"} : Settle(k)
    \/ UpdateDispute \/ ShowDisputeDetail \/ Back \/ Others
    \/ \E m \in net :
          \/ Serve(m) \/ DeliverIssues(m) \/ DeliverMessage(m) \/ DeliverOrder(m)
          \/ DeliverDone(m) \/ DeliverCancel(m) \/ DeliverDispute(m) \/ Fail(m)

Spec == Init /\ [][Next]_vars

-----------------------------------------------------------------------------
\* The overlay is up exactly while a request is in flight, and there is one at
\* most, so that an order is never completed and cancelled by two touches: but
\* for the overlay of a dispute without an issue, which nothing takes down.
\* When it is down the order shown is the server's: unless others acted since it
\* was fetched, it was completed or disputed here, or an answer was lost.
OrderShown ==
    /\ Cardinality(net) <= 1
    /\ loader <=> net # {} \/ stuck
    /\ net = {} /\ screen # "left" /\ stale = {} => data = order
=============================================================================
