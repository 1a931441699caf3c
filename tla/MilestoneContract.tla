------------------------- MODULE MilestoneContract -------------------------
(***************************************************************************)
(* What a milestone contract promises, whatever its screens and its        *)
(* network do.  A milestone is created, its price is put in escrow         *)
(* ("hired"), the seller asks for approval ("requested") and the buyer     *)
(* approves ("completed") or sends it back ("decline").  The variable      *)
(* `reached` records every status a milestone has ever had: a milestone    *)
(* reaches a status only from one that leads to it, so money is released   *)
(* only for work that was once funded and once handed over.                *)
(***************************************************************************)
CONSTANT Milestones

VARIABLE reached    \* milestone -> the statuses it has had so far

Status == {"", "hired", "requested", "decline", "completed"}

\* The statuses whose row offers the button that asks for st.
Before(st) ==
    CASE st = "hired"     -> {""}
      [] st = "requested" -> {"hired", "decline"}
      [] st = "decline"   -> {"requested"}
      [] st = "completed" -> {"requested"}
      [] OTHER            -> {}

\* What a milestone found in status st must have been through.
Past(st) ==
    CASE st = ""          -> {""}
      [] st = "hired"     -> {"", "hired"}
      [] st = "requested" -> {"", "hired", "requested"}
      [] st = "decline"   -> {"", "hired", "requested", "decline"}
      [] st = "completed" -> {"", "hired", "requested", "completed"}
      [] OTHER            -> {}

Init == \E start \in [Milestones -> Status \union {"absent"}] :
            reached = [m \in Milestones |-> Past(start[m])]

\* The seller proposes a set of new milestones.
Propose(ms) == reached' = [m \in Milestones |->
                    IF m \in ms THEN reached[m] \union {""} ELSE reached[m]]

\* A milestone that has been in a status before st moves to st.
Advance(m, st) ==
    /\ reached[m] \intersect Before(st) # {}
    /\ reached' = [reached EXCEPT ![m] = @ \union {st}]

Next == \/ \E ms \in SUBSET Milestones : Propose(ms)
        \/ \E m \in Milestones, st \in Status : Advance(m, st)

Spec == Init /\ [][Next]_reached

-----------------------------------------------------------------------------
\* A released milestone was handed over by the seller, a handed over one was
\* funded, and a funded one was agreed on: the order of the buttons of
\* ProjectActivity's milestone rows.
CausalLifecycle ==
    \A m \in Milestones :
        /\ reached[m] \intersect {"completed", "decline"} # {}
               => "requested" \in reached[m]
        /\ "requested" \in reached[m] => "hired" \in reached[m]
        /\ "hired" \in reached[m] => "" \in reached[m]
=============================================================================
