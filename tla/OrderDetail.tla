------------------------------ MODULE OrderDetail ------------------------------
(***************************************************************************)
(* screens/detailPages/orderDetail: a buyer chooses a package of a task and *)
(* additional services, sees the subtotal, and proceeds to checkout.  The   *)
(* subtotal is kept as a running total.  The button is not disabled while   *)
(* order-tasks is in flight, and a second press places a second order.      *)
(*                                                                         *)
(* Prices are in cents; parseInt cuts the cents off.  The buyer is          *)
(* verified: the buttons of the others only scroll to the top.              *)
(***************************************************************************)
EXTENDS Naturals, Sequences, FiniteSets, FiniteSetsExt

CONSTANTS
    Offers,                 \* prices of a task's packages, one sequence per task
    Services, Price,        \* sub_tasks, and their reg_price
    MaxTaps, MaxPending     \* bounds

VARIABLES
    attributes,             \* the packages of this task
    packageIndex, show,     \* the package chosen; whether the others are shown
    selectedServicesArray,
    totalPrice,
    wallet,                 \* disable: "Use my wallet credit"
    screen,                 \* "order", "checkout" above it, "task", or "crash"
    net,                    \* requests in flight
    orders,                 \* the server's orders
    taps                    \* touches

selection == <<packageIndex, show, selectedServicesArray, totalPrice, wallet>>
vars == <<attributes, selection, screen, net, orders, taps>>

Selection == [package : 0 .. 2, services : SUBSET Services, wallet : BOOLEAN]
Request == [n : Nat, order : Selection, stage : {"sent", "ok", "error"}]

ConstantsAssumption ==
    /\ \A o \in Offers : o \in Seq(Nat) /\ Len(o) \in 1 .. 3
    /\ Price \in [Services -> Nat] /\ IsFiniteSet(Services)
    /\ MaxTaps \in Nat /\ MaxPending \in Nat

ParseInt(cents) == (cents \div 100) * 100

Init ==
    /\ attributes \in Offers
    /\ packageIndex = 0 /\ show = FALSE /\ selectedServicesArray = {}
    /\ totalPrice = attributes[1] /\ wallet = FALSE
    /\ screen = "order" /\ net = {} /\ orders = {} /\ taps = 0

-----------------------------------------------------------------------------
Tapped == screen = "order" /\ taps < MaxTaps /\ taps' = taps + 1

\* The list of packages has three rows, whatever the task has: a price that is
\* not there ends the program.
ToggleShow ==
    /\ Tapped /\ show' = ~show
    /\ screen' = IF show' /\ Len(attributes) < 3 THEN "crash" ELSE screen
    /\ UNCHANGED <<attributes, packageIndex, selectedServicesArray, totalPrice, wallet,
                   net, orders>>

\* setPackageIndex: the total stays.
ChoosePackage(i) ==
    /\ show /\ Tapped
    /\ packageIndex' = i /\ show' = FALSE
    /\ UNCHANGED <<attributes, selectedServicesArray, totalPrice, wallet, screen, net, orders>>

\* Mutant: a service that is taken back stays in the total.
AddOnly(s) ==
    /\ Tapped
    /\ IF s \in selectedServicesArray
       THEN selectedServicesArray' = selectedServicesArray \ {s} /\ UNCHANGED totalPrice
       ELSE /\ selectedServicesArray' = selectedServicesArray \union {s}
            /\ totalPrice' = ParseInt(totalPrice) + ParseInt(Price[s])
    /\ UNCHANGED <<attributes, packageIndex, show, wallet, screen, net, orders>>

AddInBudget(s) ==
    /\ Tapped
    /\ IF s \in selectedServicesArray
       THEN /\ selectedServicesArray' = selectedServicesArray \ {s}
            /\ totalPrice' = ParseInt(totalPrice) - ParseInt(Price[s])
       ELSE /\ selectedServicesArray' = selectedServicesArray \union {s}
            /\ totalPrice' = ParseInt(totalPrice) + ParseInt(Price[s])
    /\ UNCHANGED <<attributes, packageIndex, show, wallet, screen, net, orders>>

ToggleWallet ==
    /\ Tapped /\ wallet' = ~wallet
    /\ UNCHANGED <<attributes, packageIndex, show, selectedServicesArray, totalPrice,
                   screen, net, orders>>

ProceedToCheckout ==
    /\ Cardinality(net) < MaxPending /\ Tapped
    /\ net' = net \union {[n |-> taps, stage |-> "sent",
                           order |-> [package |-> packageIndex, wallet |-> wallet,
                                      services |-> selectedServicesArray]]}
    /\ UNCHANGED <<attributes, selection, screen, orders>>

\* The header of checkout.
Back ==
    /\ screen = "checkout" /\ screen' = "order"
    /\ UNCHANGED <<attributes, selection, net, orders, taps>>

\* The server, external.
Serve(m) ==
    /\ m.stage = "sent"
    /\ \E stage \in {"ok", "error"} :
          /\ net' = (net \ {m}) \union {[m EXCEPT !.stage = stage]}
          /\ orders' = IF stage = "ok" THEN orders \union {m} ELSE orders
    /\ UNCHANGED <<attributes, selection, screen, taps>>

\* proceedToCheckout's then: an order that the wallet has paid for leads to the
\* orders, which closes this screen; where later answers lead is left out.
Deliver(m) ==
    /\ m.stage = "ok" /\ screen # "crash"
    /\ \/ m.order.wallet /\ screen' = "task"
       \/ screen' = IF screen = "task" THEN "task" ELSE "checkout"
    /\ net' = net \ {m} /\ UNCHANGED <<attributes, selection, orders, taps>>

\* A refusal, or a request or an answer that is lost.
Fail(m) ==
    /\ net' = net \ {m} /\ UNCHANGED <<attributes, selection, screen, orders, taps>>

Next ==
    \/ ToggleShow \/ ToggleWallet \/ ProceedToCheckout \/ Back
    \/ \E i \in 0 .. 2 : ChoosePackage(i)
    \/ \E s \in Services : AddInBudget(s)
    \/ \E m \in net : Serve(m) \/ Deliver(m) \/ Fail(m)

Spec == Init /\ [][Next]_vars

-----------------------------------------------------------------------------
TypeOK ==
    /\ attributes \in Offers /\ packageIndex \in 0 .. 2 /\ show \in BOOLEAN
    /\ selectedServicesArray \subseteq Services /\ totalPrice \in Nat /\ wallet \in BOOLEAN
    /\ screen \in {"order", "checkout", "task", "crash"}
    /\ net \subseteq Request /\ orders \subseteq Request /\ taps \in Nat

Subtotal == ParseInt(totalPrice)
Sum == attributes[packageIndex + 1] + MapThenSumSet(LAMBDA s : Price[s], selectedServicesArray)
NoCents ==
    /\ attributes[1] % 100 = 0 /\ attributes[packageIndex + 1] % 100 = 0
    /\ \A s \in selectedServicesArray : Price[s] % 100 = 0

\* In whatever order services are added and taken back, the subtotal is the price
\* of the package and the services listed above it: unless another package than
\* the first is chosen, or a price has cents.
SubtotalOfSelection ==
    NoCents /\ packageIndex = 0 => Subtotal = Sum

\* "Subtotal" (constants/translation.js:89), below the package and the services
\* that were chosen: when no price has cents.
SubtotalOfPackage == NoCents => Subtotal = Sum
=============================================================================
