-------------------------------- MODULE Hiring --------------------------------
(***************************************************************************)
(* A buyer hires or declines the proposals of one project:                  *)
(* screens/myProjects ProposalListing and ProposalActivity.  Both screens   *)
(* work on the project as MyProjectListing fetched it (mainItem), while the *)
(* sellers go on editing their proposals, which draws the keys of their     *)
(* milestones anew (sendProposal).                                          *)
(*                                                                         *)
(* The milestones that are shown, whichever proposal is open, are those of  *)
(* mainItem.proposals[0].  An answer that arrives after its screen was left *)
(* still navigates: goBack closes the screen that is on top, and checkout   *)
(* is opened over it.                                                       *)
(***************************************************************************)
EXTENDS Naturals, FiniteSets

CONSTANTS
    Proposals,              \* the proposals of the project
    None, NoKey,            \* no proposal; null
    MaxVersion,             \* bound: versions of a proposal
    MaxTaps, MaxPending     \* bounds

VARIABLES
    isMilestone,            \* project_meta.is_milestone == 'yes'
    terms, status,          \* the server's proposals
    mainItem,               \* the project as it was fetched
    listing, item, checkout,\* the screens above MyProjectListing, in this order:
                            \* ProposalListing, ProposalActivity of a proposal, and
                            \* the checkout of one, or None
    walletDialoge, sheet,   \* ProposalActivity: the dialog and the sheet
    selectedKey,            \* the milestone to hire for
    net,                    \* requests in flight
    taps,                   \* touches
    touched                 \* history: what the dialog was opened for

stack == <<listing, item, checkout>>
screenState == <<walletDialoge, sheet, selectedKey, touched>>
world == <<isMilestone, terms, status>>
vars == <<world, mainItem, stack, screenState, net, taps>>

Types == {"fixed", "milestone", ""}
Versions == 1 .. MaxVersion
Rows == {1, 2}
Terms == [type : Types, version : Versions]
Statuses == {"publish", "hired", "declined"}
Key == [proposal : Proposals, version : Versions, row : Rows]
Item == [first : Proposals, terms : [Proposals -> Terms],
         status : [Proposals -> Statuses]]
Request == [n : Nat, kind : {"hire", "decline"}, wallet : BOOLEAN,
            proposal : Proposals, key : Key \union {NoKey},
            stage : {"sent", "ok", "error"}, touched : Key \union {NoKey}, item : Item]

ASSUME ConstantsAssumption ==
    /\ Proposals # {} /\ None \notin Proposals /\ NoKey \notin Key
    /\ MaxVersion \in Nat \ {0} /\ MaxTaps \in Nat /\ MaxPending \in Nat

\* The keys of a proposal's milestones, as submitProposal drew them.
Keys(t, p) ==
    IF t[p].type = "milestone"
    THEN {[proposal |-> p, version |-> t[p].version, row |-> r] : r \in Rows} ELSE {}

\* What the server answers to get_projects; the order of the proposals is its own.
Fetched(f) == [first |-> f, terms |-> terms, status |-> status]

Sent(milestones) == IF milestones THEN {"fixed", "milestone"} ELSE {"fixed"}

Init ==
    /\ isMilestone \in BOOLEAN
    /\ terms \in [Proposals -> {[type |-> y, version |-> 1] :
                                    y \in Sent(isMilestone) \union {""}}]
    /\ status = [p \in Proposals |-> "publish"]
    /\ \E f \in Proposals : mainItem = Fetched(f)
    /\ listing = FALSE /\ item = None /\ checkout = None /\ walletDialoge = FALSE /\ sheet = FALSE
    /\ selectedKey = NoKey /\ touched = NoKey /\ net = {} /\ taps = 0

-----------------------------------------------------------------------------
(* The screens                                                             *)

\* What the user can touch: a dialog or a sheet covers the rest of its screen.
Tapped == taps < MaxTaps /\ taps' = taps + 1
OnProposal == item # None /\ checkout = None
Uncovered == ~walletDialoge /\ ~sheet

\* navigation.goBack() closes the screen on top, and a proposal's screen that is
\* closed forgets its state.
Forget == walletDialoge' = FALSE /\ sheet' = FALSE /\ selectedKey' = NoKey /\ touched' = NoKey
GoBack ==
    \/ checkout # None /\ checkout' = None /\ UNCHANGED <<listing, item, screenState>>
    \/ OnProposal /\ item' = None /\ Forget /\ UNCHANGED <<listing, checkout>>
    \/ checkout = None /\ item = None /\ listing' = FALSE
       /\ UNCHANGED <<item, checkout, screenState>>

\* BuyerProjectCard's "View all proposals"; the list was fetched when
\* MyProjectListing gained the focus.
OpenListing(f) ==
    /\ ~listing /\ checkout = None /\ Tapped
    /\ mainItem' = Fetched(f) /\ listing' = TRUE
    /\ UNCHANGED <<world, item, checkout, screenState, net>>

OpenProposal(p) ==
    /\ listing /\ item = None /\ checkout = None
    /\ mainItem.status[p] = "publish" /\ Tapped
    /\ item' = p /\ UNCHANGED <<world, mainItem, listing, checkout, screenState, net>>

Back ==
    /\ listing \/ checkout # None
    /\ checkout # None \/ Uncovered
    /\ Tapped /\ GoBack
    /\ UNCHANGED <<world, mainItem, net>>

\* mileStoneData, shown when the project has milestones.
MileStoneData == IF isMilestone THEN Keys(mainItem.terms, mainItem.first) ELSE {}

\* Mutant: the key is not remembered.
PayAndHireForgotten(k) ==
    /\ OnProposal /\ Uncovered /\ k \in MileStoneData /\ Tapped
    /\ walletDialoge' = TRUE /\ touched' = k
    /\ UNCHANGED <<world, mainItem, stack, sheet, selectedKey, net>>

\* "Pay & hire" of a milestone.
PayAndHire(k) ==
    /\ OnProposal /\ Uncovered /\ k \in MileStoneData /\ Tapped
    /\ walletDialoge' = TRUE /\ selectedKey' = k /\ touched' = k
    /\ UNCHANGED <<world, mainItem, stack, sheet, net>>

\* "Hire <name>": proposal_type == 'fixed' || proposal_type == '' && <button>
\* shows nothing for a fixed one.
Hire ==
    /\ OnProposal /\ Uncovered /\ mainItem.terms[item].type = "" /\ Tapped
    /\ walletDialoge' = TRUE /\ selectedKey' = NoKey /\ touched' = NoKey
    /\ UNCHANGED <<world, mainItem, stack, sheet, net>>

Cancel ==
    /\ walletDialoge /\ Tapped /\ walletDialoge' = FALSE
    /\ UNCHANGED <<world, mainItem, stack, sheet, selectedKey, touched, net>>

\* The sheet in which the reason is written.
ToggleSheet ==
    /\ OnProposal /\ ~walletDialoge /\ Tapped /\ sheet' = ~sheet
    /\ UNCHANGED <<world, mainItem, stack, walletDialoge, selectedKey, touched, net>>

Post(kind, wallet, key) ==
    /\ OnProposal /\ Cardinality(net) < MaxPending
    /\ net' = net \union {[n |-> taps, kind |-> kind, wallet |-> wallet,
                           proposal |-> item, key |-> key, stage |-> "sent",
                           touched |-> touched, item |-> mainItem]}

\* Neither closes the dialog or the sheet, or disables what was touched.
HireAndPay(wallet) ==
    /\ walletDialoge /\ Tapped /\ Post("hire", wallet, selectedKey)
    /\ UNCHANGED <<world, mainItem, stack, screenState>>

DeclineProposal ==
    /\ sheet /\ Tapped /\ Post("decline", FALSE, NoKey)
    /\ UNCHANGED <<world, mainItem, stack, screenState>>

-----------------------------------------------------------------------------
(* The server and the sellers, external                                    *)

Reply(m, stage) == net' = (net \ {m}) \union {[m EXCEPT !.stage = stage]}

\* A proposal that was decided, or a milestone it does not have, is refused.
Serve(m) ==
    /\ m.stage = "sent"
    /\ \/ /\ status[m.proposal] = "publish"
          /\ m.key = NoKey \/ m.key \in Keys(terms, m.proposal)
          /\ Reply(m, "ok")
          /\ status' = IF m.kind = "decline" THEN [status EXCEPT ![m.proposal] = "declined"]
                       ELSE IF m.wallet THEN [status EXCEPT ![m.proposal] = "hired"]
                       ELSE status
       \/ Reply(m, "error") /\ UNCHANGED status
    /\ UNCHANGED <<isMilestone, terms, mainItem, stack, screenState, taps>>

\* The page that checkout shows: paid, or not.
Paid ==
    /\ checkout # None /\ status[checkout] = "publish"
    /\ status' = [status EXCEPT ![checkout] = "hired"]
    /\ UNCHANGED <<isMilestone, terms, mainItem, stack, screenState, net, taps>>

\* sendProposal's submitProposal by the seller.
EditProposal(p, y) ==
    /\ status[p] = "publish" /\ y \in Sent(isMilestone) /\ terms[p].version < MaxVersion
    /\ terms' = [terms EXCEPT ![p] = [type |-> y, version |-> @.version + 1]]
    /\ UNCHANGED <<isMilestone, status, mainItem, stack, screenState, net, taps>>

-----------------------------------------------------------------------------
(* The answers                                                             *)

\* navigation.navigate('checkout', ...): a checkout that is open gets the new link.
DeliverHire(m) ==
    /\ m.kind = "hire" /\ m.stage = "ok"
    /\ checkout' = IF m.wallet THEN checkout ELSE m.proposal
    /\ net' = net \ {m} /\ UNCHANGED <<world, mainItem, listing, item, screenState, taps>>

\* navigation.goBack(), whatever screen is on top: below ProposalListing, what it
\* does is left out.
DeliverDecline(m) ==
    /\ m.kind = "decline" /\ m.stage = "ok"
    /\ GoBack
    /\ net' = net \ {m} /\ UNCHANGED <<world, mainItem, taps>>

\* A refusal, or a request or an answer that is lost.
Fail(m) ==
    /\ net' = net \ {m} /\ UNCHANGED <<world, mainItem, stack, screenState, taps>>

Next ==
    \/ \E p \in Proposals : OpenListing(p) \/ OpenProposal(p)
    \/ \E k \in MileStoneData : PayAndHire(k)
    \/ Back \/ Hire \/ Cancel \/ ToggleSheet \/ DeclineProposal \/ Paid
    \/ \E wallet \in BOOLEAN : HireAndPay(wallet)
    \/ \E p \in Proposals, y \in Types : EditProposal(p, y)
    \/ \E m \in net : Serve(m) \/ DeliverHire(m) \/ DeliverDecline(m) \/ Fail(m)

Spec == Init /\ [][Next]_vars

-----------------------------------------------------------------------------
TypeOK ==
    /\ isMilestone \in BOOLEAN /\ terms \in [Proposals -> Terms]
    /\ status \in [Proposals -> Statuses] /\ mainItem \in Item
    /\ listing \in BOOLEAN /\ {item, checkout} \subseteq Proposals \union {None}
    /\ walletDialoge \in BOOLEAN /\ sheet \in BOOLEAN
    /\ selectedKey \in Key \union {NoKey} /\ touched \in Key \union {NoKey}
    /\ net \subseteq Request /\ taps \in Nat

\* A hire names the milestone that was touched, and one that the proposal still
\* has: unless the proposal is not the first of the project as it was fetched, or
\* was edited since.  One that names none is of a proposal without milestones.
HireNamesOwnMilestone ==
    \A m \in net : m.kind = "hire" =>
        /\ m.key = m.touched
        /\ m.key = NoKey => m.item.terms[m.proposal].type = ""
        /\ m.key # NoKey /\ m.proposal = m.item.first
           /\ terms[m.proposal] = m.item.terms[m.proposal]
           => m.key \in Keys(terms, m.proposal)

\* "Offered milestons" (constants/translation.js:726): the milestones below a
\* proposal are those its seller offered, when nothing was edited since.
ShownAreOffered ==
    OnProposal /\ terms = mainItem.terms =>
        MileStoneData \subseteq Keys(terms, item)
=============================================================================
