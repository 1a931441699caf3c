---------------------------- MODULE MCSendProposal ----------------------------
(***************************************************************************)
(* Two instances of the seller's screens that share nothing: a proposal     *)
(* with three rates, so that two look-ups can cross and neither is of the   *)
(* blank form (SendProposal), and two payout methods (Payouts).  One of     *)
(* them moves while the other waits in an initial state.                    *)
(***************************************************************************)
EXTENDS SendProposal

CONSTANTS Methods, none, MaxTouches, MaxLookUps    \* of Payouts

VARIABLES
    active,         \* the instance that moves
    saved, payoutList, savedPayout, payoutData, row, loader, loading, flag, painted,
    requests, touches, past

payoutVars == <<saved, payoutList, savedPayout, payoutData, row, loader, loading, flag,
                painted, requests, touches, past>>

MCMaxRate == 2

Earnings == INSTANCE Payouts
    WITH None <- none, MaxTaps <- MaxTouches, MaxPending <- MaxLookUps, sheet <- row,
         refresh <- flag, net <- requests, taps <- touches, hist <- past

ASSUME EarningsAssumption == Earnings!ConstantsAssumption

MCInit ==
    /\ Init /\ Earnings!Init
    /\ active \in {"proposal", "payouts"}
    /\ active = "proposal" => saved = Earnings!Nothing
    /\ active = "payouts" => edit

MCNext ==
    \/ active = "proposal" /\ Next /\ UNCHANGED <<active, payoutVars>>
    \/ active = "payouts" /\ Earnings!Next /\ UNCHANGED <<active, vars>>

MCSpec == MCInit /\ [][MCNext]_<<active, vars, payoutVars>>

\* When no look-up of the payout methods and no save is in flight, Earnings holds
\* one row of each and the one saved, and a row not typed into is the server's: unless
\* the last refresh failed, a save's answer was lost, or two refreshes met.  The rows
\* are painted, unless a field was typed into while the save was in flight; no other
\* method is marked than the one saved, and that one is once a touch has rendered.
PayoutsShown == Earnings!PayoutsShown
=============================================================================
