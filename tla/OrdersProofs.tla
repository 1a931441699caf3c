----------------------------- MODULE OrdersProofs -----------------------------
(***************************************************************************)
(* That the screen of an order shows it: the invariant OrderShown of        *)
(* Orders, for any bounds.  It is not inductive, because it says nothing of *)
(* the order while a request is in flight: what the screen holds then       *)
(* depends on that request, of which there is one at most (Settled).        *)
(***************************************************************************)
EXTENDS Orders, FiniteSetTheorems, TLAPS

\* The overlay is the one request that is in flight, or stays for ever.
OneOverlay ==
    /\ stuck \in BOOLEAN
    /\ net = {} => loader = stuck
    /\ net # {} => loader = TRUE /\ stuck = FALSE /\ \E m \in Request : net = {m}
    /\ screen = "left" => net = {}

\* What the screen holds while m is in flight: the order, but for an answer that
\* is to leave the screen or to fetch the order; one that fetched it carries it.
Settled(m) ==
    IF m.kind = "order" THEN m.stage # "error" /\ (m.stage = "success" => m.order = order)
    ELSE (m.kind \in {"message", "cancel"} /\ m.stage = "success") \/ data = order

Inv ==
    /\ order \in Order /\ data \in Order /\ OneOverlay
    /\ \A m \in net : m.kind = "order" => m.stage # "error"
    /\ stale = {} /\ screen # "left" =>
          /\ net = {} => data = order
          /\ \A m \in net : Settled(m)

\* The screen is opened on the order, with its first request.
LEMMA InitInv == Init => Inv
<1> SUFFICES ASSUME Init PROVE Inv
  OBVIOUS
<1>1. order \in Order
  <2>1. order \in [task_status : {"hired", "cancelled"},
                  dispute_status : {"", "publish", "declined"}, messages : {0}]
    BY DEF Init
  <2>2. {"hired", "cancelled"} \subseteq {"hired", "completed", "cancelled"}
        /\ {"", "publish", "declined"} \subseteq Disputed /\ {0} \subseteq Nat
    BY DEF Disputed
  <2> QED  BY <2>1, <2>2 DEF Order
<1> DEFINE m == [kind |-> "issues", stage |-> "sent", order |-> order]
<1>2. m \in Request /\ m.kind = "issues"
  BY <1>1 DEF Request, Kinds
<1>3. net = {m} /\ loader = TRUE /\ stuck = FALSE /\ screen = "order" /\ data = order
  BY DEF Init
<1> HIDE DEF m
<1>4. OneOverlay
  BY <1>2, <1>3 DEF OneOverlay
<1> QED  BY <1>1, <1>2, <1>3, <1>4 DEF Inv, Settled

\* The invariant implies the property.
LEMMA InvShows == Inv => OrderShown
<1> SUFFICES ASSUME Inv PROVE OrderShown
  OBVIOUS
<1>1. Cardinality(net) <= 1
  <2>1. CASE net = {}
    BY <2>1, FS_EmptySet
  <2>2. CASE net # {}
    <3>1. PICK m : net = {m}
      BY <2>2 DEF Inv, OneOverlay
    <3>2. Cardinality(net) = 1
      BY <3>1, FS_Singleton
    <3> QED  BY <3>2
  <2> QED  BY <2>1, <2>2
<1>2. CASE net = {}
  BY <1>1, <1>2 DEF Inv, OneOverlay, OrderShown
<1>3. CASE net # {}
  BY <1>1, <1>3 DEF Inv, OneOverlay, OrderShown
<1> QED  BY <1>2, <1>3

\* A request that is sent while nothing is in flight.
LEMMA AskKeeps ==
    ASSUME Inv, ~loader, screen = "order", NEW kind \in Kinds, kind # "order", Ask(kind),
           UNCHANGED <<order, data, screen, stale, stuck>>
    PROVE  Inv'
<1>1. net = {} /\ stuck = FALSE
  BY DEF Inv, OneOverlay
<1>2. Sent(kind) \in Request
  BY DEF Inv, Sent, Request
<1>3. net' = {Sent(kind)} /\ loader' = TRUE
  BY <1>1 DEF Ask
<1>4. Sent(kind).kind = kind /\ Sent(kind).stage = "sent"
  BY DEF Sent
<1>5. OneOverlay'
  BY <1>1, <1>2, <1>3 DEF OneOverlay
<1>6. \A m \in net' : m.kind = kind
  BY <1>3, <1>4
<1> QED  BY <1>1, <1>3, <1>5, <1>6 DEF Inv, Settled

\* A touch, or a return, that asks for nothing.
LEMMA QuietKeeps ==
    ASSUME Inv, UNCHANGED <<order, data, loader, net, stale, stuck>>,
           screen = "left" <=> screen' = "left"
    PROVE  Inv'
BY DEF Inv, OneOverlay, Settled

\* What a request does to the order leaves it an order, and one that is neither a
\* message nor a cancellation leaves it as it is or says why it does not.
LEMMA AppliedIsOrder ==
    ASSUME order \in Order, NEW kind \in Kinds
    PROVE  /\ Applied(kind) \in Order
           /\ kind \notin {"message", "cancel"} /\ Why(kind) = {} => Applied(kind) = order
<1>1. \A s \in {"hired", "completed", "cancelled"} : [order EXCEPT !.task_status = s] \in Order
  BY DEF Order
<1>2. \A d \in Disputed : [order EXCEPT !.dispute_status = d] \in Order
  BY DEF Order
<1>3. [order EXCEPT !.messages = @ + 1] \in Order
  BY DEF Order
<1> QED  BY <1>1, <1>2, <1>3 DEF Applied, Why, Kinds, Disputed

\* The server answers a request, or refuses it.
LEMMA ServeKeeps ==
    ASSUME Inv, NEW m \in net, Serve(m)
    PROVE  Inv'
<1>1. net = {m} /\ m \in Request /\ loader = TRUE /\ stuck = FALSE /\ screen # "left"
  BY DEF Inv, OneOverlay
<1>2. m.kind \in Kinds /\ m.stage = "sent"
  BY <1>1 DEF Request, Serve
<1>3. UNCHANGED <<data, screen, loader, stuck>>
  BY DEF Serve
<1>4. CASE /\ order' = Applied(m.kind)
           /\ net' = (net \ {m}) \union {[m EXCEPT !.stage = "success", !.order = order']}
           /\ stale' = IF m.kind = "order" THEN {} ELSE stale \union Why(m.kind)
  <2> DEFINE r == [m EXCEPT !.stage = "success", !.order = order']
  <2>1. order' \in Order
    BY <1>2, <1>4, AppliedIsOrder DEF Inv
  <2>2. r \in Request /\ r.kind = m.kind /\ r.stage = "success" /\ r.order = order'
    BY <1>1, <2>1 DEF Request
  <2>3. net' = {r}
    BY <1>1, <1>4
  <2> HIDE DEF r
  <2>4. OneOverlay'
    BY <1>1, <1>3, <2>2, <2>3 DEF OneOverlay
  <2>5. ASSUME stale' = {}, screen' # "left", NEW o \in net' PROVE Settled(o)'
    <3>1. CASE m.kind \in {"order", "message", "cancel"}
      BY <2>2, <2>3, <3>1 DEF Settled
    <3>2. CASE m.kind \notin {"order", "message", "cancel"}
      <4>1. stale = {} /\ Why(m.kind) = {}
        BY <1>4, <2>5, <3>2
      <4>2. order' = order
        BY <1>2, <1>4, <3>2, <4>1, AppliedIsOrder DEF Inv
      <4>3. data = order
        BY <1>3, <2>5, <3>2, <4>1 DEF Inv, Settled
      <4> QED  BY <1>3, <2>2, <2>3, <3>2, <4>2, <4>3 DEF Settled
    <3> QED  BY <3>1, <3>2
  <2> QED  BY <1>3, <2>1, <2>2, <2>3, <2>4, <2>5 DEF Inv
<1>5. CASE /\ m.kind # "order"
           /\ net' = (net \ {m}) \union {[m EXCEPT !.stage = "error"]}
           /\ UNCHANGED <<order, stale>>
  <2> DEFINE r == [m EXCEPT !.stage = "error"]
  <2>1. r \in Request /\ r.kind = m.kind /\ r.stage = "error"
    BY <1>1 DEF Request
  <2>2. net' = {r}
    BY <1>1, <1>5
  <2> HIDE DEF r
  <2>3. OneOverlay'
    BY <1>1, <1>3, <2>1, <2>2 DEF OneOverlay
  <2> QED  BY <1>2, <1>3, <1>5, <2>1, <2>2, <2>3 DEF Inv, Settled
<1> QED  BY <1>4, <1>5 DEF Serve

\* The other party acts.
LEMMA OthersKeep ==
    ASSUME Inv, Others
    PROVE  Inv'
<1>1. order' \in Order
  <2>1. \A d \in {"declined", "refunded"} : [order EXCEPT !.dispute_status = d] \in Order
    BY DEF Inv, Order, Disputed
  <2>2. \A k \in Kinds : Applied(k) \in Order
    BY AppliedIsOrder DEF Inv
  <2> QED  BY <2>1, <2>2 DEF Others
<1>2. stale' # {} /\ UNCHANGED <<data, screen, loader, net, stuck>>
  BY DEF Others
<1> QED  BY <1>1, <1>2 DEF Inv, OneOverlay

\* An answer that takes the overlay down and leaves what is known of the order.
LEMMA AnswerKeeps ==
    ASSUME Inv, NEW m \in net, net' = net \ {m}, loader' = FALSE,
           data' \in Order, UNCHANGED <<order, stuck>>,
           stale' = {} /\ screen' # "left" => data' = order
    PROVE  Inv'
<1>1. net' = {} /\ stuck = FALSE
  BY DEF Inv, OneOverlay
<1> QED  BY <1>1 DEF Inv, OneOverlay

\* The answer to a message, which is followed by a request for the order.
LEMMA MessageKeeps ==
    ASSUME Inv, NEW m \in net, DeliverMessage(m)
    PROVE  Inv'
<1>1. Sent("order") \in Request /\ Sent("order").kind = "order" /\ Sent("order").stage = "sent"
  BY DEF Inv, Sent, Request, Kinds
<1>2. net = {m} /\ stuck = FALSE /\ screen # "left"
  BY DEF Inv, OneOverlay
<1>3. net' = {Sent("order")} /\ loader' = TRUE /\ UNCHANGED <<order, data, screen, stale, stuck>>
  BY <1>2 DEF DeliverMessage, Covered
<1>4. OneOverlay'
  BY <1>1, <1>2, <1>3 DEF OneOverlay
<1> QED  BY <1>1, <1>3, <1>4 DEF Inv, Settled

\* The other answers.
LEMMA DeliverKeeps ==
    ASSUME Inv, NEW m \in net,
           \/ DeliverIssues(m) \/ DeliverOrder(m) \/ DeliverDone(m)
           \/ DeliverCancel(m) \/ DeliverDispute(m)
    PROVE  Inv'
<1>1. m \in Request
  BY DEF Inv, OneOverlay
<1>2. CASE DeliverIssues(m)
  BY <1>2, AnswerKeeps DEF DeliverIssues, Answered, Inv, Settled
<1>3. CASE DeliverOrder(m)
  <2>1. m.kind = "order" /\ m.stage = "success" /\ m.order \in Order
    BY <1>1, <1>3 DEF DeliverOrder, Answered, Request, Inv
  <2> QED  BY <1>3, <2>1, AnswerKeeps DEF DeliverOrder, Answered, Inv, Settled
<1>4. CASE DeliverDone(m)
  BY <1>4, AnswerKeeps DEF DeliverDone, Answered, Inv, Settled
<1>5. CASE DeliverCancel(m)
  BY <1>5, AnswerKeeps DEF DeliverCancel, Answered, Inv, Settled
<1>6. CASE DeliverDispute(m)
  BY <1>6, AnswerKeeps DEF DeliverDispute, Answered, Inv, OneOverlay, Settled
<1> QED  BY <1>2, <1>3, <1>4, <1>5, <1>6

\* A failure: an answer that is lost says so, and a request for the order is lost.
LEMMA FailKeeps ==
    ASSUME Inv, NEW m \in net, Fail(m)
    PROVE  Inv'
<1>1. stale' = {} /\ screen' # "left" => data' = order
  BY DEF Fail, Inv, Settled
<1> QED  BY <1>1, AnswerKeeps DEF Fail, Inv

\* Each step preserves the invariant.
LEMMA NextInv == Inv /\ [Next]_vars => Inv'
<1> SUFFICES ASSUME Inv, [Next]_vars PROVE Inv'
  OBVIOUS
<1>1. CASE SetDescription \/ CloseSheet \/ SelectIssue
           \/ \E s \in {"complete", "cancel", "dispute"} : OpenSheet(s)
  BY <1>1, QuietKeeps DEF SetDescription, CloseSheet, SelectIssue, OpenSheet
<1>2. CASE UpdateActivities
  BY <1>2, AskKeeps DEF UpdateActivities, Tapped, Kinds
<1>3. CASE CreateDispute
  <2>1. CASE selectedIssue
    BY <1>3, <2>1, AskKeeps DEF CreateDispute, Tapped, Kinds
  <2>2. CASE ~selectedIssue
    <3>1. net = {} /\ net' = {} /\ loader' = TRUE /\ stuck' = TRUE
          /\ UNCHANGED <<order, data, screen, stale>>
      BY <1>3, <2>2 DEF CreateDispute, Tapped, Inv, OneOverlay
    <3> QED  BY <3>1 DEF Inv, OneOverlay
  <2> QED  BY <2>1, <2>2
<1>4. CASE \E k \in {"complete", "cancel"} : Settle(k)
  BY <1>4, AskKeeps DEF Settle, Tapped, Kinds
<1>5. CASE UpdateDispute
  BY <1>5, AskKeeps DEF UpdateDispute, Tapped, Kinds
<1>6. CASE ShowDisputeDetail
  BY <1>6, AskKeeps DEF ShowDisputeDetail, Tapped, Kinds
<1>7. CASE Back
  BY <1>7, QuietKeeps DEF Back
<1>8. CASE Others
  BY <1>8, OthersKeep
<1>9. ASSUME NEW m \in net,
             \/ Serve(m) \/ DeliverIssues(m) \/ DeliverMessage(m) \/ DeliverOrder(m)
             \/ DeliverDone(m) \/ DeliverCancel(m) \/ DeliverDispute(m) \/ Fail(m)
      PROVE  Inv'
  BY <1>9, ServeKeeps, MessageKeeps, DeliverKeeps, FailKeeps
<1>10. CASE UNCHANGED vars
  BY <1>10, QuietKeeps DEF vars
<1> QED  BY <1>1, <1>2, <1>3, <1>4, <1>5, <1>6, <1>7, <1>8, <1>9, <1>10 DEF Next

-----------------------------------------------------------------------------
\* What Inv says of the types; the order, the request and the overlay are among it.
LEMMA InvTypes ==
    Inv => order \in Order /\ data \in Order /\ net \subseteq Request
           /\ loader \in BOOLEAN /\ stuck \in BOOLEAN
BY DEF Inv, OneOverlay

\* What only a touch and an answer change.  The numbers are apart, for the solver.
Rest ==
    /\ user_type \in {"buyers", "sellers"} /\ screen \in {"order", "disputesDetail", "left"}
    /\ sheet \in {"", "complete", "cancel", "dispute"}
    /\ disputeIssue \in BOOLEAN /\ selectedIssue \in BOOLEAN /\ stale \subseteq Reasons

Numbers == description \in Nat /\ taps \in 0 .. MaxTaps

LEMMA StepRest == ASSUME Rest, [Next]_vars PROVE Rest'
<1>1. CASE SetDescription \/ CloseSheet \/ \E s \in {"complete", "cancel", "dispute"} : OpenSheet(s)
  BY <1>1, Zenon DEF SetDescription, CloseSheet, OpenSheet, Rest
<1>2. CASE SelectIssue
  BY <1>2, Zenon DEF SelectIssue, Rest
<1>3. CASE UpdateActivities \/ UpdateDispute \/ ShowDisputeDetail
  BY <1>3, Zenon DEF UpdateActivities, UpdateDispute, ShowDisputeDetail, Rest
<1>4. CASE CreateDispute \/ \E k \in {"complete", "cancel"} : Settle(k)
  BY <1>4, Zenon DEF CreateDispute, Settle, Rest
<1>5. CASE Back
  BY <1>5, Zenon DEF Back, Rest
<1>6. CASE Others
  BY <1>6, Zenon DEF Others, Rest, Reasons
<1>7. ASSUME NEW m \in net, Serve(m) PROVE Rest'
  <2>1. Why(m.kind) \subseteq Reasons
    BY DEF Why, Reasons
  <2>2. stale \subseteq Reasons
    BY Zenon DEF Rest
  <2>3. stale' \subseteq Reasons
    BY <1>7, <2>1, <2>2 DEF Serve
  <2> QED
    BY <1>7, <2>3, Zenon DEF Serve, Rest
<1>8. ASSUME NEW m \in net,
             \/ DeliverIssues(m) \/ DeliverMessage(m) \/ DeliverOrder(m) \/ DeliverDone(m)
             \/ DeliverCancel(m) \/ DeliverDispute(m)
      PROVE  Rest'
  BY <1>8, Zenon DEF DeliverIssues, DeliverMessage, DeliverOrder, DeliverDone, DeliverCancel,
     DeliverDispute, Rest
<1>9. ASSUME NEW m \in net, Fail(m) PROVE Rest'
  <2>1. stale \subseteq Reasons
    BY Zenon DEF Rest
  <2>2. stale' \subseteq Reasons
    BY <1>9, <2>1 DEF Fail, Reasons
  <2> QED
    BY <1>9, <2>2, Zenon DEF Fail, Rest
<1>10. CASE UNCHANGED vars
  BY <1>10, Zenon DEF vars, Rest
<1> QED
  BY <1>1, <1>2, <1>3, <1>4, <1>5, <1>6, <1>7, <1>8, <1>9, <1>10, Zenon DEF Next

LEMMA StepNumbers ==
    ASSUME ConstantsAssumption, Numbers, [Next]_vars
    PROVE  Numbers'
<1>1. \/ taps' = taps
      \/ taps < MaxTaps /\ taps' = taps + 1
  BY Zenon DEF Next, vars, Tapped, SetDescription, CloseSheet, SelectIssue, UpdateActivities,
     CreateDispute, OpenSheet, Settle, UpdateDispute, ShowDisputeDetail, Back, Others, Serve,
     DeliverIssues, DeliverMessage, DeliverOrder, DeliverDone, DeliverCancel, DeliverDispute, Fail
<1>2. description' \in {description, taps', 0}
  BY Zenon DEF Next, vars, SetDescription, CloseSheet, SelectIssue, UpdateActivities,
     CreateDispute, OpenSheet, Settle, UpdateDispute, ShowDisputeDetail, Back, Others, Serve,
     DeliverIssues, DeliverMessage, DeliverOrder, DeliverDone, DeliverCancel, DeliverDispute, Fail
<1> QED
  BY <1>1, <1>2 DEF Numbers, ConstantsAssumption

\* Type correctness of the screen of an order, for any bounds.
THEOREM TypeCorrect ==
    ASSUME ConstantsAssumption
    PROVE  Spec => []TypeOK
<1>1. Init => TypeOK /\ Inv
  <2>1. Init => Rest
    BY Zenon DEF Init, Rest
  <2>2. Init => taps = 0 /\ description = 0
    BY Zenon DEF Init
  <2>3. Init => Numbers
    BY <2>2 DEF Numbers, ConstantsAssumption
  <2> QED
    BY <2>1, <2>3, InitInv, InvTypes, Zenon DEF TypeOK, Rest, Numbers
<1>2. TypeOK /\ Inv /\ [Next]_vars => (TypeOK /\ Inv)'
  <2> SUFFICES ASSUME TypeOK, Inv, [Next]_vars PROVE TypeOK' /\ Inv'
    OBVIOUS
  <2>1. Inv' /\ Rest' /\ Numbers'
    BY NextInv, StepRest, StepNumbers, Zenon DEF TypeOK, Rest, Numbers
  <2>2. /\ order' \in Order /\ data' \in Order /\ net' \subseteq Request
        /\ loader' \in BOOLEAN /\ stuck' \in BOOLEAN
    BY <2>1 DEF Inv, OneOverlay
  <2> QED
    BY <2>1, <2>2, Zenon DEF TypeOK, Rest, Numbers
<1> QED
  BY <1>1, <1>2, PTL DEF Spec

-----------------------------------------------------------------------------
\* The overlay of availableTaskDetail is up exactly while its one request is in
\* flight, but for a dispute without an issue; when it is down the order shown is
\* the server's, unless others acted, it was completed or disputed here, or an
\* answer was lost: for any number of touches.
THEOREM OrderStaysShown == Spec => []OrderShown
<1>1. Spec => []Inv
  BY InitInv, NextInv, PTL DEF Spec
<1> QED  BY <1>1, InvShows, PTL
=============================================================================
