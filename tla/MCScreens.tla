------------------------------ MODULE MCScreens ------------------------------
(***************************************************************************)
(* Three instances that share nothing, of screens with an overlay: that of  *)
(* a buyer on a network that loses messages (ProjectActivity), the forms of *)
(* a session of two people, one of whom has two profiles (Session), and the *)
(* screen of an ordered task (Orders).  One of them moves while the others  *)
(* wait in an initial state.                                                *)
(***************************************************************************)
EXTENDS Orders

CONSTANTS buyer, p1, m1, ada, bob, asBuyer, asSeller, other, none

VARIABLES
    active,         \* the instance that moves
    ui, payments, status, unpaid, listed, payTaps, was, hist,
    store, disk, formScreen, covered, requests, touches, restarts, owner, session

overlayVars == <<ui, payments, status, unpaid, listed, payTaps, was, hist>>
formVars == <<store, disk, formScreen, covered, requests, touches, restarts, owner, session>>

Overlay == INSTANCE ProjectActivity
    WITH Screens <- {buyer}, Buyers <- {buyer}, Proposals <- {p1},
         Milestones <- {m1}, Owner <- [k \in {m1} |-> p1],
         Listed <- [s \in {buyer} |-> {p1}], Completable <- {p1},
         StartStates <- {[k \in {m1} |-> ""]},
         Ops <- {"pay", "comment", "dispute", "complete"}, Lossy <- TRUE,
         MaxTaps <- [s \in {buyer} |-> 4], MaxPending <- 2, MaxDraft <- 1,
         net <- payments, taps <- payTaps

Form == INSTANCE Session
    WITH Profiles <- {asBuyer, asSeller, other}, Persons <- {ada, bob},
         Person <- [p \in {asBuyer, asSeller, other} |-> IF p = other THEN bob ELSE ada],
         None <- none, MaxTaps <- 3, MaxPending <- 3, MaxRestarts <- 1,
         screen <- formScreen, net <- requests, taps <- touches, hist <- session

ASSUME ConstantsAssumption

MCInit ==
    /\ Overlay!Init /\ Form!Init /\ Init
    /\ active \in {"overlay", "form", "order"}
    /\ active # "overlay" => ui[buyer].disputed = {}
    /\ active # "form" => store.token = none
    /\ active # "order" =>
          user_type = "buyers" /\ order.task_status = "hired" /\ order.dispute_status = ""

OverlayNext == active = "overlay" /\ Overlay!Next /\ UNCHANGED <<formVars, vars>>
FormNext == active = "form" /\ Form!Next /\ UNCHANGED <<overlayVars, vars>>
OrderNext == active = "order" /\ Next /\ UNCHANGED <<overlayVars, formVars>>

MCNext == (OverlayNext \/ FormNext \/ OrderNext) /\ UNCHANGED active

\* Every exchange of ProjectActivity and of Session ends (FairSpec of each).
FairSpec ==
    /\ MCInit /\ [][MCNext]_<<active, overlayVars, formVars, vars>>
    /\ WF_overlayVars(active = "overlay" /\ Overlay!Network(buyer))
    /\ WF_formVars(active = "form" /\ Form!Network)

\* The overlay of ProjectActivity comes down, unless the contract was completed or a
\* dispute submitted without an issue.
OverlayClears == Overlay!OverlayClears

\* The spinner over the form of login.js and signup.js comes down, whatever the
\* server answers.
FormUncovers == Form!FormUncovers
=============================================================================
