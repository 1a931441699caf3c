----------------------------- MODULE HiringProofs -----------------------------
(***************************************************************************)
(* Type correctness of Hiring, and that a hire names a milestone of its     *)
(* proposal.  The invariant that is inductive relates the dialog to the     *)
(* screen it was opened on, and every hire in flight to the project as it   *)
(* was fetched when the hire was sent: Keys of a proposal depend on the     *)
(* terms of that proposal alone, so they are still the server's unless the  *)
(* proposal was edited.                                                     *)
(*                                                                         *)
(* Of the disputes (the instance Dispute of MCHiring), that the screen      *)
(* shows the replies of the server: while nothing happened that missed      *)
(* names, every text is on the server as often as it is held, plus the      *)
(* accepted replies that are still to be told; and while the button is      *)
(* touched once for each answer, one reply at most of the mounted screen is *)
(* in flight, which captured the refresh flag as it is, so that its answer  *)
(* changes the flag and what is pushed is painted.                          *)
(*                                                                         *)
(* Of the order of a task (the instance Order), that the subtotal is the    *)
(* sum of what is listed: the total is always that of the first package and *)
(* of the services chosen, without their cents (OrderTotal).  A sum over a  *)
(* set is a fold in an order nobody knows, so it is first shown that there  *)
(* is one and that the order does not matter.                               *)
(***************************************************************************)
EXTENDS MCHiring, Integers, Sequences, FiniteSetTheorems, WellFoundedInduction, TLAPS

\* The dialog is open on a proposal, for what was touched last there.
DialogInv ==
    /\ item # None => listing
    /\ walletDialoge =>
          /\ item # None /\ selectedKey = touched
          /\ touched = NoKey => mainItem.terms[item].type = ""
          /\ touched # NoKey => touched \in MileStoneData

\* A hire in flight, as it was when it was sent.
AsSent(m) ==
    m.kind = "hire" =>
        /\ m.key = m.touched
        /\ m.key = NoKey => m.item.terms[m.proposal].type = ""
        /\ m.key # NoKey => m.key \in Keys(m.item.terms, m.item.first)

Inv == TypeOK /\ DialogInv /\ \A m \in net : AsSent(m)

\* An answer of the server changes nothing but the stage of a request.
LEMMA ReplyKeeps ==
    ASSUME NEW m \in net, NEW stage \in {"sent", "ok", "error"},
           net \subseteq Request, Reply(m, stage)
    PROVE  /\ net' \subseteq Request
           /\ (\A o \in net : AsSent(o)) => \A o \in net' : AsSent(o)
<1> DEFINE r == [m EXCEPT !.stage = stage]
<1>1. net' = (net \ {m}) \union {r}
  BY DEF Reply
<1>2. m \in Request
  OBVIOUS
<1>3. /\ r \in Request /\ r.kind = m.kind /\ r.key = m.key /\ r.touched = m.touched
      /\ r.item = m.item /\ r.proposal = m.proposal
  BY <1>2 DEF Request
<1>4. AsSent(m) => AsSent(r)
  BY <1>3 DEF AsSent
<1> HIDE DEF r
<1> QED  BY <1>1, <1>3, <1>4

\* Each variable keeps its type, and both parts of the invariant hold, when the
\* program starts.
LEMMA InitInv == Init => Inv
<1> SUFFICES ASSUME Init PROVE Inv
  OBVIOUS
<1>1. terms \in [Proposals -> Terms]
  <2>1. 1 \in Versions
    BY ConstantsAssumption DEF Versions
  <2>2. Sent(isMilestone) \union {""} \subseteq Types
    BY DEF Sent, Types
  <2>3. \A y \in Types : [type |-> y, version |-> 1] \in Terms
    BY <2>1 DEF Terms
  <2>4. {[type |-> y, version |-> 1] : y \in Sent(isMilestone) \union {""}} \subseteq Terms
    BY <2>2, <2>3
  <2>5. terms \in [Proposals -> {[type |-> y, version |-> 1] :
                                    y \in Sent(isMilestone) \union {""}}]
    BY DEF Init
  <2> QED  BY <2>4, <2>5
<1>2. status \in [Proposals -> Statuses]
  BY DEF Init, Statuses
<1>3. mainItem \in Item
  <2>1. PICK f \in Proposals : mainItem = Fetched(f)
    BY DEF Init
  <2> QED  BY <1>1, <1>2, <2>1 DEF Fetched, Item
<1>4. TypeOK
  BY <1>1, <1>2, <1>3 DEF Init, TypeOK
<1>5. DialogInv /\ \A m \in net : AsSent(m)
  BY DEF Init, DialogInv
<1> QED  BY <1>4, <1>5 DEF Inv

\* The keys of a proposal are of type Key.
LEMMA KeysType ==
    ASSUME NEW t \in [Proposals -> Terms], NEW p \in Proposals
    PROVE  Keys(t, p) \subseteq Key
BY DEF Keys, Key, Terms

\* What a request for a hire or a decline adds to those in flight.
LEMMA PostInv ==
    ASSUME Inv, NEW kind \in {"hire", "decline"}, NEW paid \in BOOLEAN,
           NEW key \in Key \union {NoKey}, Post(kind, paid, key),
           kind = "hire" => walletDialoge /\ key = selectedKey
    PROVE  net' \subseteq Request /\ \A m \in net' : AsSent(m)
<1> DEFINE r == [n |-> taps, kind |-> kind, wallet |-> paid, proposal |-> item,
                 key |-> key, stage |-> "sent", touched |-> touched, item |-> mainItem]
<1>1. net' = net \union {r} /\ item # None
  BY DEF Post, OnProposal
<1>2. r \in Request
  BY <1>1 DEF Inv, TypeOK, Request
<1>3. AsSent(r)
  BY DEF AsSent, Inv, DialogInv, MileStoneData
<1> HIDE DEF r
<1> QED  BY <1>1, <1>2, <1>3 DEF Inv, TypeOK

\* What closing the screen on top leaves.
LEMMA GoBackInv ==
    ASSUME Inv, GoBack, UNCHANGED <<isMilestone, mainItem>>
    PROVE  /\ DialogInv' /\ listing' \in BOOLEAN
           /\ {item', checkout'} \subseteq Proposals \union {None}
           /\ walletDialoge' \in BOOLEAN /\ sheet' \in BOOLEAN
           /\ selectedKey' \in Key \union {NoKey} /\ touched' \in Key \union {NoKey}
<1> USE DEF Inv, TypeOK, DialogInv, MileStoneData
<1>1. CASE checkout # None /\ checkout' = None /\ UNCHANGED <<listing, item, screenState>>
  BY <1>1 DEF screenState
<1>2. CASE OnProposal /\ item' = None /\ Forget /\ UNCHANGED <<listing, checkout>>
  BY <1>2 DEF Forget
<1>3. CASE checkout = None /\ item = None /\ listing' = FALSE
           /\ UNCHANGED <<item, checkout, screenState>>
  BY <1>3 DEF screenState
<1> QED  BY <1>1, <1>2, <1>3 DEF GoBack

\* Every step keeps the invariant.
LEMMA StepInv == Inv /\ [Next]_vars => Inv'
<1> SUFFICES ASSUME Inv, [Next]_vars PROVE Inv'
  OBVIOUS
<1> USE DEF world, stack, screenState
<1>1. CASE UNCHANGED vars
  BY <1>1 DEF vars, Inv, TypeOK, DialogInv, MileStoneData, AsSent
<1>2. ASSUME NEW f \in Proposals, OpenListing(f) PROVE Inv'
  <2>1. Fetched(f) \in Item
    BY DEF Fetched, Item, Inv, TypeOK
  <2>2. taps' \in Nat
    BY <1>2 DEF OpenListing, Tapped, Inv, TypeOK
  <2>3. TypeOK'
    BY <1>2, <2>1, <2>2 DEF OpenListing, Inv, TypeOK
  <2>4. DialogInv'
    BY <1>2 DEF OpenListing, Inv, DialogInv
  <2> QED  BY <1>2, <2>3, <2>4 DEF OpenListing, Inv, AsSent
<1>3. ASSUME NEW p \in Proposals, OpenProposal(p) PROVE Inv'
  <2>1. TypeOK'
    BY <1>3 DEF OpenProposal, Tapped, Inv, TypeOK
  <2>2. DialogInv'
    BY <1>3 DEF OpenProposal, Inv, DialogInv, TypeOK
  <2> QED  BY <1>3, <2>1, <2>2 DEF OpenProposal, Inv, AsSent
<1>4. ASSUME NEW k \in MileStoneData, PayAndHire(k) PROVE Inv'
  <2>1. k \in Key
    BY KeysType DEF MileStoneData, Inv, TypeOK, Item
  <2>2. TypeOK'
    BY <1>4, <2>1 DEF PayAndHire, Tapped, Inv, TypeOK
  <2>3. k # NoKey
    BY <2>1, ConstantsAssumption
  <2>4. DialogInv'
    BY <1>4, <2>3 DEF PayAndHire, OnProposal, Inv, DialogInv, MileStoneData
  <2> QED  BY <1>4, <2>2, <2>4 DEF PayAndHire, Inv, AsSent
<1>5. CASE Back
  <2>1. taps' \in Nat
    BY <1>5 DEF Back, Tapped, Inv, TypeOK
  <2>2. GoBack /\ UNCHANGED <<world, mainItem, net>>
    BY <1>5 DEF Back
  <2>3. /\ DialogInv' /\ listing' \in BOOLEAN
        /\ {item', checkout'} \subseteq Proposals \union {None}
        /\ walletDialoge' \in BOOLEAN /\ sheet' \in BOOLEAN
        /\ selectedKey' \in Key \union {NoKey} /\ touched' \in Key \union {NoKey}
    BY <2>2, GoBackInv
  <2> QED  BY <2>1, <2>2, <2>3 DEF Inv, TypeOK, AsSent
<1>6. CASE Hire
  <2>1. walletDialoge' = TRUE /\ selectedKey' = NoKey /\ touched' = NoKey
    BY <1>6 DEF Hire
  <2>2. Tapped
    BY <1>6 DEF Hire
  <2>3. taps' \in Nat
    BY <2>2 DEF Tapped, Inv, TypeOK
  <2>4. /\ taps' \in Nat /\ walletDialoge' \in BOOLEAN
        /\ selectedKey' \in Key \union {NoKey} /\ touched' \in Key \union {NoKey}
    BY <2>1, <2>3
  <2>5. UNCHANGED <<world, mainItem, stack, sheet, net>>
    BY <1>6 DEF Hire
  <2>6. UNCHANGED <<isMilestone, terms, status, mainItem, listing, item, checkout, sheet, net>>
    BY <2>5
  <2>7. TypeOK'
    BY <2>4, <2>6, SMTT(30) DEF Inv, TypeOK
  <2>8. DialogInv'
    BY <1>6 DEF Hire, OnProposal, Inv, DialogInv
  <2> QED  BY <1>6, <2>7, <2>8 DEF Hire, Inv, AsSent
<1>7. CASE Cancel
  <2>1. walletDialoge' = FALSE
    BY <1>7 DEF Cancel
  <2>2. taps' \in Nat
    BY <1>7 DEF Cancel, Tapped, Inv, TypeOK
  <2>3. taps' \in Nat /\ walletDialoge' \in BOOLEAN
    BY <2>1, <2>2
  <2>4. UNCHANGED <<world, mainItem, stack, sheet, selectedKey, touched, net>>
    BY <1>7 DEF Cancel
  <2>5. UNCHANGED <<isMilestone, terms, status, mainItem, listing, item, checkout, sheet,
                    selectedKey, touched, net>>
    BY <2>4
  <2>6. TypeOK'
    BY <2>3, <2>5, SMTT(30) DEF Inv, TypeOK
  <2>7. DialogInv'
    BY <1>7 DEF Cancel, Inv, DialogInv, MileStoneData
  <2> QED  BY <1>7, <2>6, <2>7 DEF Cancel, Inv, AsSent
<1>8. CASE ToggleSheet
  <2>1. TypeOK'
    BY <1>8 DEF ToggleSheet, Tapped, Inv, TypeOK
  <2>2. DialogInv'
    BY <1>8 DEF ToggleSheet, Inv, DialogInv, MileStoneData
  <2> QED  BY <1>8, <2>1, <2>2 DEF ToggleSheet, Inv, AsSent
<1>9. CASE DeclineProposal
  <2>1. net' \subseteq Request /\ \A m \in net' : AsSent(m)
    BY <1>9, PostInv DEF DeclineProposal
  <2>2. TypeOK'
    BY <1>9, <2>1 DEF DeclineProposal, Tapped, Inv, TypeOK
  <2>3. DialogInv'
    BY <1>9, <2>1 DEF DeclineProposal, Inv, DialogInv, MileStoneData
  <2> QED  BY <2>1, <2>2, <2>3 DEF Inv, AsSent
<1>10. ASSUME NEW paid \in BOOLEAN, HireAndPay(paid) PROVE Inv'
  <2>1. selectedKey \in Key \union {NoKey}
    BY DEF Inv, TypeOK
  <2>2. net' \subseteq Request /\ \A m \in net' : AsSent(m)
    BY <1>10, <2>1, PostInv DEF HireAndPay
  <2>3. TypeOK'
    BY <1>10, <2>2 DEF HireAndPay, Tapped, Inv, TypeOK
  <2>4. DialogInv'
    BY <1>10, <2>2 DEF HireAndPay, Inv, DialogInv, MileStoneData
  <2> QED  BY <2>2, <2>3, <2>4 DEF Inv, AsSent
<1>11. CASE Paid
  <2>1. TypeOK'
    BY <1>11 DEF Paid, Inv, TypeOK, Statuses
  <2>2. DialogInv'
    BY <1>11 DEF Paid, Inv, DialogInv, MileStoneData
  <2> QED  BY <1>11, <2>1, <2>2 DEF Paid, Inv, AsSent
<1>12. ASSUME NEW p \in Proposals, NEW y \in Types, EditProposal(p, y) PROVE Inv'
  <2>1. terms[p] \in Terms
    BY DEF Inv, TypeOK
  <2>2. [type |-> y, version |-> terms[p].version + 1] \in Terms
    BY <1>12, <2>1, ConstantsAssumption DEF EditProposal, Terms, Versions
  <2>3. terms' \in [Proposals -> Terms]
    BY <1>12, <2>2 DEF EditProposal, Inv, TypeOK
  <2>4. TypeOK'
    BY <1>12, <2>3 DEF EditProposal, Inv, TypeOK
  <2>5. DialogInv'
    BY <1>12, <2>3 DEF EditProposal, Inv, DialogInv, MileStoneData
  <2> QED  BY <1>12, <2>4, <2>5 DEF EditProposal, Inv, AsSent
<1>13. ASSUME NEW m \in net, Serve(m) PROVE Inv'
  <2>1. m.proposal \in Proposals
    BY DEF Inv, TypeOK, Request
  <2>2. status' \in [Proposals -> Statuses]
    BY <1>13, <2>1 DEF Serve, Inv, TypeOK, Statuses
  <2>3. PICK stage \in {"sent", "ok", "error"} : Reply(m, stage)
    BY <1>13 DEF Serve
  <2>4. net' \subseteq Request /\ \A o \in net' : AsSent(o)
    BY <2>3, ReplyKeeps DEF Inv, TypeOK
  <2>5. TypeOK'
    BY <1>13, <2>2, <2>4 DEF Serve, Inv, TypeOK
  <2>6. DialogInv'
    BY <1>13, <2>2, <2>4 DEF Serve, Inv, DialogInv, MileStoneData
  <2> QED  BY <2>4, <2>5, <2>6 DEF Inv, AsSent
<1>14. ASSUME NEW m \in net, DeliverHire(m) PROVE Inv'
  <2>1. m.proposal \in Proposals
    BY DEF Inv, TypeOK, Request
  <2>2. TypeOK'
    BY <1>14, <2>1 DEF DeliverHire, Inv, TypeOK
  <2>3. DialogInv'
    BY <1>14, <2>1 DEF DeliverHire, Inv, DialogInv, MileStoneData
  <2> QED  BY <1>14, <2>2, <2>3 DEF DeliverHire, Inv, AsSent
<1>15. ASSUME NEW m \in net, DeliverDecline(m) PROVE Inv'
  <2>1. GoBack /\ net' = net \ {m} /\ UNCHANGED <<world, mainItem, taps>>
    BY <1>15 DEF DeliverDecline
  <2>2. /\ DialogInv' /\ listing' \in BOOLEAN
        /\ {item', checkout'} \subseteq Proposals \union {None}
        /\ walletDialoge' \in BOOLEAN /\ sheet' \in BOOLEAN
        /\ selectedKey' \in Key \union {NoKey} /\ touched' \in Key \union {NoKey}
    BY <2>1, GoBackInv
  <2> QED  BY <2>1, <2>2 DEF Inv, TypeOK, AsSent
<1>16. ASSUME NEW m \in net, Fail(m) PROVE Inv'
  <2>1. TypeOK'
    BY <1>16 DEF Fail, Inv, TypeOK
  <2>2. DialogInv'
    BY <1>16 DEF Fail, Inv, DialogInv, MileStoneData
  <2> QED  BY <1>16, <2>1, <2>2 DEF Fail, Inv, AsSent
<1> QED
  BY <1>1, <1>2, <1>3, <1>4, <1>5, <1>6, <1>7, <1>8, <1>9, <1>10, <1>11, <1>12, <1>13,
     <1>14, <1>15, <1>16 DEF Next

\* The invariant implies the property: the keys of a proposal depend on its own
\* terms only.
LEMMA InvImplies == Inv => HireNamesOwnMilestone
<1> SUFFICES ASSUME Inv, NEW m \in net, m.kind = "hire"
             PROVE  /\ m.key = m.touched
                    /\ m.key = NoKey => m.item.terms[m.proposal].type = ""
                    /\ m.key # NoKey /\ m.proposal = m.item.first
                       /\ terms[m.proposal] = m.item.terms[m.proposal]
                       => m.key \in Keys(terms, m.proposal)
  BY DEF HireNamesOwnMilestone
<1> QED  BY DEF Inv, AsSent, Keys

\* Every variable keeps its type.
THEOREM TypeCorrect == Spec => []TypeOK
<1>1. Inv => TypeOK
  BY DEF Inv
<1> QED  BY InitInv, StepInv, <1>1, PTL DEF Spec

\* A hire names the milestone that was touched, one of its proposal when that is
\* the first of the project and was not edited since it was fetched; and a hire
\* that names none is of a proposal without milestones (hireAndPay).
THEOREM HiresOwnMilestone == Spec => []HireNamesOwnMilestone
BY InitInv, StepInv, InvImplies, PTL DEF Spec

-----------------------------------------------------------------------------
(* Disputes                                                                *)

\* The operators of FiniteSets in the instance are those of the module.
LEMMA DisputeCardinality == \A S : Dispute!Cardinality(S) = Cardinality(S)
BY DEF Dispute!Cardinality, Cardinality

\* Where a text is in a sequence, and how often.
DisputePlaces(text, s) == {i \in DOMAIN s : s[i] = text}

LEMMA DisputeTimes ==
    ASSUME NEW s \in Seq(Nat), NEW text
    PROVE  /\ Dispute!Times(text, s) = Cardinality(DisputePlaces(text, s))
           /\ IsFiniteSet(DisputePlaces(text, s)) /\ Dispute!Times(text, s) \in Nat
<1>1. Dispute!Times(text, s) = Cardinality(DisputePlaces(text, s))
  BY DisputeCardinality DEF Dispute!Times, DisputePlaces
<1>2. IsFiniteSet(DisputePlaces(text, s))
  <2>1. Len(s) \in Nat /\ DOMAIN s = 1 .. Len(s)
    OBVIOUS
  <2>2. IsFiniteSet(1 .. Len(s))
    <3>1. 1 \in Int /\ Len(s) \in Int
      BY <2>1
    <3> QED
      BY <3>1, FS_Interval
  <2>3. DisputePlaces(text, s) \subseteq 1 .. Len(s)
    BY <2>1 DEF DisputePlaces
  <2> QED
    BY <2>2, <2>3, FS_Subset
<1> QED
  BY <1>1, <1>2, FS_CardinalityType

LEMMA DisputeAppends ==
    ASSUME NEW s \in Seq(Nat), NEW x \in Nat, NEW text
    PROVE  Dispute!Times(text, Append(s, x)) =
               IF x = text THEN Dispute!Times(text, s) + 1 ELSE Dispute!Times(text, s)
<1> DEFINE q == Append(s, x)
<1>1. q \in Seq(Nat) /\ Len(s) \in Nat
  OBVIOUS
<1>2. DOMAIN q = 1 .. Len(s) + 1 /\ DOMAIN s = 1 .. Len(s)
      /\ (\A i \in 1 .. Len(s) : q[i] = s[i]) /\ q[Len(s) + 1] = x
  OBVIOUS
<1> HIDE DEF q
<1>3. /\ Len(s) + 1 \notin DisputePlaces(text, s)
      /\ DisputePlaces(text, q) =
            IF x = text THEN DisputePlaces(text, s) \union {Len(s) + 1}
            ELSE DisputePlaces(text, s)
  <2>1. \A i : i \in 1 .. Len(s) + 1 <=> i \in 1 .. Len(s) \/ i = Len(s) + 1
    BY <1>1
  <2>2. Len(s) + 1 \notin 1 .. Len(s)
    BY <1>1
  <2> QED
    BY <1>2, <2>1, <2>2 DEF DisputePlaces
<1>4. IsFiniteSet(DisputePlaces(text, s))
  BY DisputeTimes
<1>5. Cardinality(DisputePlaces(text, s) \union {Len(s) + 1}) =
          Cardinality(DisputePlaces(text, s)) + 1
  BY <1>3, <1>4, FS_AddElement
<1>6. /\ Dispute!Times(text, s) = Cardinality(DisputePlaces(text, s))
      /\ Dispute!Times(text, q) = Cardinality(DisputePlaces(text, q))
  BY <1>1, DisputeTimes
<1> QED
  BY <1>3, <1>5, <1>6 DEF q

\* Requests are told apart by their numbers, and are finitely many.
DisputeNumbered ==
    /\ IsFiniteSet(disputeNet)
    /\ \A m \in disputeNet : m.n < disputeTaps
    /\ \A m, o \in disputeNet : m.n = o.n => m = o

\* The replies the server has that the list is still to be told of.
DisputeLanded(text) ==
    {m \in disputeNet : m.kind = "post" /\ m.stage = "success" /\ m.text = text}

DisputeCounted ==
    missed \subseteq {"again"} =>
        \A text \in Nat :
            Dispute!Times(text, comments) =
                Dispute!Times(text, disputeItem.comments) + Cardinality(DisputeLanded(text))

\* The replies in flight that the screen that is mounted sent.
DisputePosts == {m \in disputeNet : m.kind = "post" /\ m.visit = visit}

\* Unless the button was touched again before the answer, one reply at most is in flight,
\* and its answer sets refresh to another value.
DisputePainted ==
    disputeScreen = "detail" /\ "again" \notin missed =>
        /\ painted = Len(disputeItem.comments)
        /\ \A m, o \in DisputePosts : m = o
        /\ \A m \in DisputePosts : m.refresh = flag
DisputeVisits == \A m \in disputeNet : m.visit <= visit

DisputeInv ==
    /\ Dispute!TypeOK /\ DisputeNumbered /\ DisputeCounted
    /\ DisputePainted /\ DisputeVisits

DisputeItems == [comments : Seq(Nat), status : Dispute!Statuses]

LEMMA DisputeInit == ASSUME Dispute!Init PROVE DisputeInv
<1>1. Dispute!TypeOK
  <2>1. disputeTaps \in 0 .. MaxTouches
    BY DisputeAssumption DEF Dispute!Init, Dispute!ConstantsAssumption
  <2>2. comments \in Seq(Nat) /\ disputeItem \in DisputeItems
    BY DEF Dispute!Init, DisputeItems
  <2> QED
    BY <2>1, <2>2 DEF Dispute!Init, Dispute!TypeOK, DisputeItems
<1>2. DisputeNumbered
  BY FS_EmptySet DEF Dispute!Init, DisputeNumbered
<1>3. DisputeCounted
  <2> SUFFICES ASSUME NEW text \in Nat
               PROVE  Dispute!Times(text, comments) =
                          Dispute!Times(text, disputeItem.comments)
                              + Cardinality(DisputeLanded(text))
    BY DEF DisputeCounted
  <2>1. disputeItem.comments = comments /\ DisputeLanded(text) = {}
    BY DEF Dispute!Init, DisputeLanded
  <2>2. Cardinality({}) = 0
    BY FS_EmptySet
  <2>3. Dispute!Times(text, comments) \in Nat
    BY <1>1, DisputeTimes DEF Dispute!TypeOK
  <2> QED
    BY <2>1, <2>2, <2>3
<1>4. DisputePainted /\ DisputeVisits
  BY DEF Dispute!Init, DisputePainted, DisputeVisits
<1> QED
  BY <1>1, <1>2, <1>3, <1>4 DEF DisputeInv

LEMMA DisputeTapped ==
    ASSUME Dispute!TypeOK, Dispute!Tapped
    PROVE  disputeTaps' \in 0 .. MaxTouches /\ disputeTaps' = disputeTaps + 1
           /\ disputeTaps \in Nat /\ disputeTaps' \in Nat
BY DisputeAssumption DEF Dispute!TypeOK, Dispute!Tapped, Dispute!ConstantsAssumption

\* The screen paints the comments that are there, or stays as it is.
LEMMA DisputeRendered ==
    ASSUME Dispute!TypeOK, NEW changed
    PROVE  /\ Dispute!Rendered(changed) \in {painted, Len(disputeItem.comments)}
           /\ Dispute!Rendered(changed) \in Nat
           /\ Dispute!Rendered(TRUE) = Len(disputeItem.comments)
<1>1. painted \in Nat /\ disputeItem.comments \in Seq(Nat)
  BY DEF Dispute!TypeOK
<1>2. Len(disputeItem.comments) \in Nat
  BY <1>1
<1> QED
  BY <1>1, <1>2 DEF Dispute!Rendered

\* A step that sends no reply and pushes none, on a screen that stays.
LEMMA DisputeStill ==
    ASSUME DisputeInv, UNCHANGED <<visit, disputeScreen, flag>>,
           disputeItem'.comments = disputeItem.comments,
           "again" \notin missed' => "again" \notin missed, disputeNet' \subseteq disputeNet,
           painted' \in {painted, Len(disputeItem.comments)}
    PROVE  DisputePainted' /\ DisputeVisits'
<1>1. DisputePosts' \subseteq DisputePosts
  BY DEF DisputePosts
<1>2. DisputeVisits'
  BY DEF DisputeInv, DisputeVisits
<1>3. DisputePainted'
  <2>1. CASE disputeScreen = "detail" /\ "again" \notin missed
    BY <1>1, <2>1 DEF DisputeInv, DisputePainted
  <2>2. CASE ~(disputeScreen = "detail" /\ "again" \notin missed)
    BY <2>2 DEF DisputePainted
  <2> QED
    BY <2>1, <2>2
<1> QED
  BY <1>2, <1>3

\* A step that writes no reply and delivers none leaves the counts alone.
LEMMA DisputeSame ==
    ASSUME DisputeCounted, UNCHANGED comments, disputeItem'.comments = disputeItem.comments,
           missed' \subseteq {"again"} => missed \subseteq {"again"},
           \A text \in Nat : DisputeLanded(text)' = DisputeLanded(text)
    PROVE  DisputeCounted'
<1> SUFFICES ASSUME missed' \subseteq {"again"}, NEW text \in Nat
             PROVE  Dispute!Times(text, comments)' =
                        Dispute!Times(text, disputeItem.comments)'
                            + Cardinality(DisputeLanded(text))'
  BY DEF DisputeCounted
<1>1. Dispute!Times(text, comments) =
          Dispute!Times(text, disputeItem.comments) + Cardinality(DisputeLanded(text))
  BY DEF DisputeCounted
<1>2. /\ Dispute!Times(text, comments)' = Dispute!Times(text, comments)
      /\ Dispute!Times(text, disputeItem.comments)' = Dispute!Times(text, disputeItem.comments)
  BY DEF Dispute!Times
<1>3. Cardinality(DisputeLanded(text))' = Cardinality(DisputeLanded(text))
  OBVIOUS
<1> QED
  BY <1>1, <1>2, <1>3

LEMMA DisputeSends ==
    ASSUME DisputeInv, NEW v \in Nat, NEW kind \in {"order", "post"}, NEW text \in Nat,
           NEW action \in Dispute!Replies \union {Dispute!NoReply},
           Dispute!Tapped, Dispute!Send(v, kind, text, action)
    PROVE  /\ disputeNet' \subseteq Dispute!Request /\ DisputeNumbered'
           /\ \A t : DisputeLanded(t)' = DisputeLanded(t)
           /\ \A o \in disputeNet' :
                 \/ o \in disputeNet
                 \/ o.n = disputeTaps /\ o.kind = kind /\ o.visit = v /\ o.refresh = flag
<1> DEFINE m == [kind |-> kind, n |-> disputeTaps, visit |-> v, text |-> text,
                 action |-> action, refresh |-> flag, stage |-> "sent"]
<1>1. disputeNet' = disputeNet \union {m}
  BY DEF Dispute!Send
<1>2. disputeTaps' = disputeTaps + 1 /\ disputeTaps \in Nat
  BY DisputeTapped DEF DisputeInv
<1>3. /\ m \in Dispute!Request /\ m.n = disputeTaps /\ m.stage = "sent"
      /\ m.kind = kind /\ m.visit = v /\ m.refresh = flag
  <2>1. flag \in BOOLEAN
    BY DEF DisputeInv, Dispute!TypeOK
  <2>2. m \in Dispute!Request
    BY <1>2, <2>1 DEF Dispute!Request
  <2> QED
    BY <2>2
<1> HIDE DEF m
<1>4. disputeNet' \subseteq Dispute!Request
  BY <1>1, <1>3 DEF DisputeInv, Dispute!TypeOK
<1>5. /\ \A o \in disputeNet : o.n \in Nat /\ o.n < disputeTaps
      /\ \A o, q \in disputeNet : o.n = q.n => o = q
      /\ IsFiniteSet(disputeNet)
  BY DEF DisputeInv, DisputeNumbered, Dispute!TypeOK, Dispute!Request
<1>6. DisputeNumbered'
  <2>1. IsFiniteSet(disputeNet')
    BY <1>1, <1>5, FS_AddElement
  <2>2. \A o \in disputeNet' : o.n < disputeTaps'
    BY <1>1, <1>2, <1>3, <1>5
  <2>3. \A o, q \in disputeNet' : o.n = q.n => o = q
    BY <1>1, <1>2, <1>3, <1>5
  <2> QED
    BY <2>1, <2>2, <2>3 DEF DisputeNumbered
<1>7. ASSUME NEW t PROVE DisputeLanded(t)' = DisputeLanded(t)
  BY <1>1, <1>3 DEF DisputeLanded
<1>8. ASSUME NEW o \in disputeNet'
      PROVE  \/ o \in disputeNet
             \/ o.n = disputeTaps /\ o.kind = kind /\ o.visit = v /\ o.refresh = flag
  BY <1>1, <1>3
<1> QED
  BY <1>4, <1>6, <1>7, <1>8

\* A touch that sends nothing.
LEMMA DisputeQuiet ==
    ASSUME DisputeInv, Dispute!Tapped, UNCHANGED disputeNet
    PROVE  DisputeNumbered' /\ \A t : DisputeLanded(t)' = DisputeLanded(t)
<1>1. disputeTaps' = disputeTaps + 1 /\ disputeTaps \in Nat
  BY DisputeTapped DEF DisputeInv
<1>2. \A o \in disputeNet : o.n \in Nat /\ o.n < disputeTaps
  BY DEF DisputeInv, DisputeNumbered, Dispute!TypeOK, Dispute!Request
<1>3. \A o \in disputeNet : o.n < disputeTaps'
  BY <1>1, <1>2
<1> QED
  BY <1>3 DEF DisputeInv, DisputeNumbered, DisputeLanded

LEMMA DisputeUser ==
    ASSUME DisputeInv,
           \/ Dispute!Open \/ Dispute!Leave \/ Dispute!CloseSheet \/ Dispute!SetDescription
           \/ Dispute!PostReply \/ \E r \in Dispute!Replies : Dispute!OpenSheet(r)
    PROVE  DisputeInv'
<1>1. /\ Dispute!Tapped /\ UNCHANGED <<comments, disputeItem, project, user_type>>
      /\ disputeStatus' = disputeStatus
      /\ missed' \in {missed, missed \union {"again"}, missed \ {"again"}}
  BY DEF Dispute!Open, Dispute!Leave, Dispute!CloseSheet, Dispute!SetDescription,
     Dispute!PostReply, Dispute!OpenSheet
<1>2. disputeTaps' \in 0 .. MaxTouches /\ disputeTaps' \in Nat
  BY <1>1, DisputeTapped DEF DisputeInv
<1>3. /\ visit \in Nat /\ reply \in Nat
      /\ selectedReply \in Dispute!Replies \union {Dispute!NoReply}
      /\ visit + 1 \in Nat
  BY DEF DisputeInv, Dispute!TypeOK
<1>4. /\ disputeNet' \subseteq Dispute!Request /\ DisputeNumbered'
      /\ \A t : DisputeLanded(t)' = DisputeLanded(t)
  <2>1. CASE Dispute!Open
    BY <1>1, <1>3, <2>1, DisputeSends DEF Dispute!Open
  <2>2. CASE Dispute!PostReply
    BY <1>1, <1>3, <2>2, DisputeSends DEF Dispute!PostReply
  <2>3. CASE UNCHANGED disputeNet
    BY <1>1, <2>3, DisputeQuiet DEF DisputeInv, Dispute!TypeOK
  <2> QED
    BY <2>1, <2>2, <2>3 DEF Dispute!Leave, Dispute!CloseSheet, Dispute!SetDescription,
       Dispute!OpenSheet
<1>5. /\ visit' \in Nat /\ disputeScreen' \in {"list", "detail"} /\ availableTaskList' \in BOOLEAN
      /\ reply' \in Nat /\ selectedReply' \in Dispute!Replies \union {Dispute!NoReply}
      /\ open' \in BOOLEAN
  <2>1. CASE Dispute!Open
    BY <1>3, <2>1 DEF Dispute!Open
  <2>2. CASE Dispute!PostReply \/ Dispute!Leave
    BY <2>2 DEF Dispute!PostReply, Dispute!Leave, Dispute!sheet, DisputeInv, Dispute!TypeOK
  <2>3. CASE Dispute!CloseSheet \/ Dispute!SetDescription
    BY <1>2, <2>3 DEF Dispute!CloseSheet, Dispute!SetDescription, DisputeInv, Dispute!TypeOK
  <2>4. ASSUME NEW r \in Dispute!Replies, Dispute!OpenSheet(r)
        PROVE  /\ visit' \in Nat /\ disputeScreen' \in {"list", "detail"}
               /\ availableTaskList' \in BOOLEAN /\ reply' \in Nat
               /\ selectedReply' \in Dispute!Replies \union {Dispute!NoReply} /\ open' \in BOOLEAN
    BY <2>4 DEF Dispute!OpenSheet, DisputeInv, Dispute!TypeOK
  <2> QED
    BY <2>1, <2>2, <2>3, <2>4
<1>6. /\ spinning' \in BOOLEAN /\ flag' \in BOOLEAN
      /\ painted' \in {painted, Len(disputeItem.comments)} /\ painted' \in Nat
  <2>1. spinning \in BOOLEAN /\ flag \in BOOLEAN /\ painted \in Nat
    BY DEF DisputeInv, Dispute!TypeOK
  <2>2. spinning' \in {spinning, TRUE, FALSE} /\ flag' \in {flag, FALSE}
    BY DEF Dispute!Open, Dispute!Leave, Dispute!CloseSheet, Dispute!SetDescription,
       Dispute!PostReply, Dispute!OpenSheet, Dispute!shown
  <2>3. \/ painted' = painted \/ painted' = Dispute!Rendered(TRUE)
        \/ painted' = Dispute!Rendered(~spinning)
        \/ painted' = Dispute!Rendered(selectedReply' # selectedReply \/ reply' # reply)
    BY DEF Dispute!Open, Dispute!Leave, Dispute!CloseSheet, Dispute!SetDescription,
       Dispute!PostReply, Dispute!OpenSheet, Dispute!shown
  <2>4. Dispute!TypeOK
    BY DEF DisputeInv
  <2>5. painted' \in {painted, Len(disputeItem.comments)} /\ painted' \in Nat
    BY <2>1, <2>3, <2>4, DisputeRendered
  <2> QED
    BY <2>1, <2>2, <2>5
<1>7. Dispute!TypeOK'
  <2>1. missed' \subseteq Dispute!Reasons
    BY <1>1 DEF DisputeInv, Dispute!TypeOK, Dispute!Reasons
  <2> QED
    BY <1>1, <1>2, <1>4, <1>5, <1>6, <2>1 DEF DisputeInv, Dispute!TypeOK
<1>8. DisputeCounted'
  BY <1>1, <1>4, DisputeSame DEF DisputeInv
<1>9. DisputePainted' /\ DisputeVisits'
  <2>1. CASE Dispute!Open
    <3>1. /\ \A o \in disputeNet' :
                \/ o \in disputeNet
                \/ o.kind = "order" /\ o.visit = visit + 1
          /\ visit' = visit + 1
      BY <1>1, <1>3, <2>1, DisputeSends DEF Dispute!Open
    <3>2. \A o \in disputeNet : o.visit <= visit /\ o.visit \in Nat
      BY DEF DisputeInv, DisputeVisits, Dispute!TypeOK, Dispute!Request
    <3>3. DisputeVisits'
      BY <1>3, <3>1, <3>2 DEF DisputeVisits
    <3>4. DisputePosts' = {}
      BY <1>3, <3>1, <3>2 DEF DisputePosts
    <3>5. painted' = Len(disputeItem'.comments)
      BY <1>1, <2>1, DisputeRendered DEF Dispute!Open, DisputeInv
    <3> QED
      BY <3>3, <3>4, <3>5 DEF DisputePainted
  <2>2. CASE Dispute!PostReply
    <3>1. /\ \A o \in disputeNet' :
                \/ o \in disputeNet
                \/ o.n = disputeTaps /\ o.visit = visit /\ o.refresh = flag
          /\ DisputeNumbered'
      BY <1>1, <1>3, <2>2, DisputeSends DEF Dispute!PostReply
    <3>2. /\ UNCHANGED <<visit, disputeScreen, disputeItem, flag>>
          /\ Dispute!Again => "again" \in missed'
          /\ "again" \notin missed' => "again" \notin missed
      BY <2>2 DEF Dispute!PostReply
    <3>3. DisputeVisits'
      BY <1>3, <3>1, <3>2 DEF DisputeInv, DisputeVisits
    <3>4. ASSUME disputeScreen = "detail", "again" \notin missed'
          PROVE  /\ painted' = Len(disputeItem.comments)
                 /\ \A o, q \in DisputePosts' : o = q
                 /\ \A o \in DisputePosts' : o.refresh = flag
      <4>1. /\ painted = Len(disputeItem.comments)
            /\ \A o \in DisputePosts : o.refresh = flag
        BY <3>2, <3>4 DEF DisputeInv, DisputePainted
      <4>2. DisputePosts = {}
        BY <3>2, <3>4, <4>1 DEF Dispute!Again, DisputePosts
      <4>3. \A o \in DisputePosts' : o.n = disputeTaps /\ o.refresh = flag /\ o \in disputeNet'
        BY <3>1, <3>2, <4>2 DEF DisputePosts
      <4>4. \A o, q \in DisputePosts' : o = q
        BY <3>1, <4>3 DEF DisputeNumbered
      <4> QED
        BY <1>6, <4>1, <4>3, <4>4
    <3> QED
      BY <3>2, <3>3, <3>4 DEF DisputePainted
  <2>3. CASE Dispute!Leave
    <3>1. disputeScreen' = "list" /\ UNCHANGED <<disputeNet, visit>>
      BY <2>3 DEF Dispute!Leave
    <3> QED
      BY <3>1 DEF DisputeInv, DisputePainted, DisputeVisits
  <2>4. CASE \/ Dispute!CloseSheet \/ Dispute!SetDescription
             \/ \E r \in Dispute!Replies : Dispute!OpenSheet(r)
    <3>1. UNCHANGED <<visit, disputeScreen, flag, disputeNet, missed>>
      BY <2>4 DEF Dispute!CloseSheet, Dispute!SetDescription, Dispute!OpenSheet, Dispute!shown
    <3> QED
      BY <1>1, <1>6, <3>1, DisputeStill
  <2> QED
    BY <2>1, <2>2, <2>3, <2>4
<1> QED
  BY <1>4, <1>7, <1>8, <1>9 DEF DisputeInv

\* The server answers m; what it accepts is counted among what is still to be told.
LEMMA DisputeServe ==
    ASSUME DisputeInv, NEW m \in disputeNet, Dispute!Serve(m) PROVE DisputeInv'
<1>1. PICK stage \in {"success", "error"} :
         /\ disputeNet' = (disputeNet \ {m}) \union {[m EXCEPT !.stage = stage]}
         /\ IF stage = "success" /\ m.kind = "post"
            THEN comments' = Append(comments, m.text) /\ disputeStatus' = Dispute!Decided(m.action)
            ELSE UNCHANGED <<comments, disputeStatus>>
  BY DEF Dispute!Serve, Dispute!Served
<1> DEFINE o == [m EXCEPT !.stage = stage]
<1>2. /\ m \in Dispute!Request /\ m.stage = "sent"
      /\ UNCHANGED <<user_type, project, disputeItem, visit, disputeScreen, availableTaskList,
                     reply, selectedReply, open, spinning, flag, painted, disputeTaps, missed>>
  BY DEF Dispute!Serve, Dispute!sheet, Dispute!shown, DisputeInv, Dispute!TypeOK
<1>3. /\ o \in Dispute!Request /\ o.n = m.n /\ o.kind = m.kind /\ o.text = m.text
      /\ o.visit = m.visit /\ o.refresh = m.refresh /\ o.stage = stage
      /\ m.text \in Nat /\ m.action \in Dispute!Replies \union {Dispute!NoReply}
  BY <1>2 DEF Dispute!Request
<1>4. disputeNet' = (disputeNet \ {m}) \union {o}
  BY <1>1
<1> HIDE DEF o
<1>5. DisputeNumbered'
  <2>1. /\ IsFiniteSet(disputeNet) /\ \A q \in disputeNet : q.n < disputeTaps
        /\ \A q, r \in disputeNet : q.n = r.n => q = r
    BY DEF DisputeInv, DisputeNumbered
  <2>2. IsFiniteSet(disputeNet \ {m})
    BY <2>1, FS_RemoveElement
  <2>3. IsFiniteSet(disputeNet')
    BY <1>4, <2>2, FS_AddElement
  <2>4. \A q \in disputeNet' : q.n < disputeTaps'
    BY <1>2, <1>3, <1>4, <2>1
  <2>5. \A q, r \in disputeNet' : q.n = r.n => q = r
    BY <1>3, <1>4, <2>1
  <2> QED
    BY <2>3, <2>4, <2>5 DEF DisputeNumbered
<1>6. Dispute!TypeOK'
  <2>1. comments' \in Seq(Nat) /\ disputeStatus' \in Dispute!Statuses
    <3>1. comments \in Seq(Nat) /\ disputeStatus \in Dispute!Statuses
      BY DEF DisputeInv, Dispute!TypeOK
    <3>2. Append(comments, m.text) \in Seq(Nat)
      BY <1>3, <3>1
    <3>3. Dispute!Decided(m.action) \in Dispute!Statuses
      BY <3>1 DEF Dispute!Decided, Dispute!Statuses
    <3> QED
      BY <1>1, <3>1, <3>2, <3>3
  <2> QED
    BY <1>2, <1>3, <1>4, <2>1 DEF DisputeInv, Dispute!TypeOK
<1>7. o \notin disputeNet \ {m}
  BY <1>3 DEF DisputeInv, DisputeNumbered
<1>8. DisputeCounted'
  <2>1. CASE stage = "success" /\ m.kind = "post"
    <3> SUFFICES ASSUME missed \subseteq {"again"}, NEW text \in Nat
                 PROVE  Dispute!Times(text, comments)' =
                            Dispute!Times(text, disputeItem.comments)'
                                + Cardinality(DisputeLanded(text))'
      BY <1>2 DEF DisputeCounted
    <3>1. Dispute!Times(text, comments) =
              Dispute!Times(text, disputeItem.comments) + Cardinality(DisputeLanded(text))
      BY DEF DisputeInv, DisputeCounted
    <3>2. comments \in Seq(Nat) /\ disputeItem.comments \in Seq(Nat)
      BY DEF DisputeInv, Dispute!TypeOK
    <3>3. Dispute!Times(text, comments)' =
              IF m.text = text THEN Dispute!Times(text, comments) + 1
              ELSE Dispute!Times(text, comments)
      <4>1. Dispute!Times(text, comments)' = Dispute!Times(text, Append(comments, m.text))
        BY <1>1, <2>1 DEF Dispute!Times
      <4> QED
        BY <1>3, <3>2, <4>1, DisputeAppends
    <3>4. Dispute!Times(text, disputeItem.comments)' = Dispute!Times(text, disputeItem.comments)
      BY <1>2 DEF Dispute!Times
    <3>5. /\ DisputeLanded(text)' = IF m.text = text THEN DisputeLanded(text) \union {o}
                                    ELSE DisputeLanded(text)
          /\ o \notin DisputeLanded(text)
      BY <1>2, <1>3, <1>4, <1>7, <2>1 DEF DisputeLanded
    <3>6. IsFiniteSet(DisputeLanded(text)) /\ Cardinality(DisputeLanded(text)) \in Nat
      <4>1. DisputeLanded(text) \subseteq disputeNet
        BY DEF DisputeLanded
      <4>2. IsFiniteSet(disputeNet)
        BY DEF DisputeInv, DisputeNumbered
      <4> QED
        BY <4>1, <4>2, FS_Subset, FS_CardinalityType
    <3>7. Cardinality(DisputeLanded(text) \union {o}) = Cardinality(DisputeLanded(text)) + 1
      BY <3>5, <3>6, FS_AddElement
    <3>8. /\ Dispute!Times(text, comments) \in Nat
          /\ Dispute!Times(text, disputeItem.comments) \in Nat
      BY <3>2, DisputeTimes
    <3>9. CASE m.text = text
      <4>1. Cardinality(DisputeLanded(text))' = Cardinality(DisputeLanded(text)) + 1
        BY <3>5, <3>7, <3>9
      <4> QED
        BY <3>1, <3>3, <3>4, <3>6, <3>8, <3>9, <4>1
    <3>10. CASE m.text # text
      <4>1. Cardinality(DisputeLanded(text))' = Cardinality(DisputeLanded(text))
        BY <3>5, <3>10
      <4> QED
        BY <3>1, <3>3, <3>4, <3>10, <4>1
    <3> QED
      BY <3>9, <3>10
  <2>2. CASE ~(stage = "success" /\ m.kind = "post")
    <3>1. \A text \in Nat : DisputeLanded(text)' = DisputeLanded(text)
      BY <1>2, <1>3, <1>4, <2>2 DEF DisputeLanded
    <3>2. UNCHANGED comments /\ disputeItem'.comments = disputeItem.comments /\ missed' = missed
      BY <1>1, <1>2, <2>2
    <3> QED
      BY <3>1, <3>2, DisputeSame DEF DisputeInv
  <2> QED
    BY <2>1, <2>2
<1>9. DisputePainted' /\ DisputeVisits'
  <2>1. DisputeVisits'
    BY <1>2, <1>3, <1>4 DEF DisputeInv, DisputeVisits
  <2>2. \A q \in DisputePosts' :
           q \in DisputePosts \/ (q = o /\ m \in DisputePosts /\ q.refresh = m.refresh)
    BY <1>2, <1>3, <1>4 DEF DisputePosts
  <2>3. m \notin DisputePosts' \/ m = o
    BY <1>4 DEF DisputePosts
  <2>4. ASSUME disputeScreen = "detail", "again" \notin missed PROVE DisputePainted'
    <3>1. /\ painted = Len(disputeItem.comments) /\ \A q, r \in DisputePosts : q = r
          /\ \A q \in DisputePosts : q.refresh = flag
      BY <2>4 DEF DisputeInv, DisputePainted
    <3>2. \A q, r \in DisputePosts' : q = r
      BY <2>2, <2>3, <3>1
    <3>3. \A q \in DisputePosts' : q.refresh = flag
      BY <2>2, <3>1
    <3> QED
      BY <1>2, <3>1, <3>2, <3>3 DEF DisputePainted
  <2>5. ASSUME ~(disputeScreen = "detail" /\ "again" \notin missed) PROVE DisputePainted'
    BY <1>2, <2>5 DEF DisputePainted
  <2> QED
    BY <2>1, <2>4, <2>5
<1> QED
  BY <1>5, <1>6, <1>8, <1>9 DEF DisputeInv

\* An answer leaves the network.
LEMMA DisputeTaken ==
    ASSUME DisputeInv, NEW m \in disputeNet, disputeNet' = disputeNet \ {m},
           UNCHANGED disputeTaps
    PROVE  /\ DisputeNumbered' /\ disputeNet' \subseteq Dispute!Request
           /\ ~(m.kind = "post" /\ m.stage = "success") =>
                 \A text : DisputeLanded(text)' = DisputeLanded(text)
<1>1. IsFiniteSet(disputeNet')
  BY FS_RemoveElement DEF DisputeInv, DisputeNumbered
<1>2. DisputeNumbered' /\ disputeNet' \subseteq Dispute!Request
  BY <1>1 DEF DisputeInv, DisputeNumbered, Dispute!TypeOK
<1>3. ASSUME ~(m.kind = "post" /\ m.stage = "success"), NEW text
      PROVE  DisputeLanded(text)' = DisputeLanded(text)
  BY <1>3 DEF DisputeLanded
<1> QED
  BY <1>2, <1>3

\* An accepted reply is pushed, and it is no longer to be told.
LEMMA DisputePost ==
    ASSUME DisputeInv, NEW m \in disputeNet, Dispute!DeliverPost(m) PROVE DisputeInv'
<1> DEFINE mounted == Dispute!Mounted(m)
           pushed  == mounted /\ project /\ m.stage = "success"
<1>1. /\ m.kind = "post" /\ disputeNet' = disputeNet \ {m}
      /\ UNCHANGED <<user_type, project, comments, disputeStatus, visit, disputeScreen,
                     availableTaskList, reply, selectedReply, disputeTaps>>
  BY DEF Dispute!DeliverPost
<1>2. /\ DisputeNumbered' /\ disputeNet' \subseteq Dispute!Request
      /\ ~(m.kind = "post" /\ m.stage = "success") =>
            \A text : DisputeLanded(text)' = DisputeLanded(text)
  BY <1>1, DisputeTaken
<1>3. /\ flag' = IF pushed THEN Dispute!Toggled(m) ELSE flag
      /\ disputeItem' = IF pushed THEN Dispute!Pushed(m) ELSE disputeItem
      /\ painted' = IF flag' # flag THEN Len(disputeItem'.comments)
                    ELSE Dispute!Rendered(spinning' # spinning)
  BY DEF Dispute!DeliverPost
<1>4. /\ m.stage = "success" =>
            missed' = missed \union ((IF mounted THEN {} ELSE {"left"})
                                     \union (IF project THEN {} ELSE {"order"}))
      /\ m.stage # "success" => missed' = missed
  BY DEF Dispute!DeliverPost
<1>5. /\ spinning' \in {spinning, FALSE} /\ open' \in {open, FALSE}
  BY DEF Dispute!DeliverPost
<1> HIDE DEF mounted
<1>6. /\ m.text \in Nat /\ comments \in Seq(Nat) /\ disputeItem \in DisputeItems
      /\ disputeItem.comments \in Seq(Nat) /\ m.refresh \in BOOLEAN
  BY DEF DisputeInv, Dispute!TypeOK, Dispute!Request, DisputeItems
<1>7. /\ Dispute!Pushed(m) \in DisputeItems
      /\ Dispute!Pushed(m).comments = Append(disputeItem.comments, m.text)
  <2>1. Append(disputeItem.comments, m.text) \in Seq(Nat)
    BY <1>6
  <2> QED
    BY <1>6, <2>1 DEF Dispute!Pushed, DisputeItems
<1>8. Dispute!TypeOK'
  <2>1. disputeItem' \in DisputeItems
    BY <1>3, <1>6, <1>7
  <2>2. missed' \subseteq Dispute!Reasons
    BY <1>4 DEF DisputeInv, Dispute!TypeOK, Dispute!Reasons
  <2>3. spinning' \in BOOLEAN /\ open' \in BOOLEAN
    BY <1>5 DEF DisputeInv, Dispute!TypeOK
  <2>4. flag' \in BOOLEAN
    <3>1. flag \in BOOLEAN /\ Dispute!Toggled(m) \in BOOLEAN
      BY DEF Dispute!Toggled, DisputeInv, Dispute!TypeOK
    <3> QED
      BY <1>3, <3>1
  <2>5. painted' \in Nat
    <3>1. disputeItem'.comments \in Seq(Nat)
      BY <2>1 DEF DisputeItems
    <3>2. Len(disputeItem'.comments) \in Nat
      BY <3>1
    <3> QED
      BY <1>3, <3>2, DisputeRendered DEF DisputeInv
  <2> QED
    BY <1>1, <1>2, <2>1, <2>2, <2>3, <2>4, <2>5 DEF DisputeInv, Dispute!TypeOK, DisputeItems
<1>9. DisputePainted' /\ DisputeVisits'
  <2>1. CASE ~pushed
    <3>1. UNCHANGED <<flag, disputeItem>>
      BY <1>3, <2>1
    <3>2. painted' \in {painted, Len(disputeItem.comments)}
      BY <1>3, <3>1, DisputeRendered DEF DisputeInv
    <3>3. "again" \notin missed' => "again" \notin missed
      BY <1>4
    <3> QED
      BY <1>1, <3>1, <3>2, <3>3, DisputeStill
  <2>2. CASE pushed
    <3>1. m \in DisputePosts /\ m.visit = visit
      BY <1>1, <2>2 DEF mounted, Dispute!Mounted, DisputePosts
    <3>2. "again" \in missed' <=> "again" \in missed
      BY <1>4, <2>2
    <3>3. DisputeVisits'
      BY <1>1 DEF DisputeInv, DisputeVisits
    <3>4. ASSUME disputeScreen = "detail", "again" \notin missed
          PROVE  painted' = Len(disputeItem'.comments) /\ DisputePosts' = {}
      <4>1. /\ \A o, q \in DisputePosts : o = q
            /\ m.refresh = flag
        BY <3>1, <3>4 DEF DisputeInv, DisputePainted
      <4>2. flag' # flag
        BY <1>3, <1>6, <2>2, <4>1 DEF Dispute!Toggled
      <4>3. DisputePosts' = {}
        BY <1>1, <3>1, <4>1 DEF DisputePosts
      <4> QED
        BY <1>3, <4>2, <4>3
    <3> QED
      BY <1>1, <3>2, <3>3, <3>4 DEF DisputePainted
  <2> QED
    BY <2>1, <2>2
<1>10. CASE m.stage # "success"
  <2>1. UNCHANGED <<disputeItem, missed>>
    BY <1>3, <1>4, <1>10
  <2>2. DisputeCounted'
    BY <1>1, <1>2, <1>10, <2>1, DisputeSame DEF DisputeInv
  <2> QED
    BY <1>2, <1>8, <1>9, <2>2 DEF DisputeInv
<1>11. CASE m.stage = "success"
  <2>1. DisputeCounted'
    <3> SUFFICES ASSUME missed' \subseteq {"again"}, NEW text \in Nat
                 PROVE  Dispute!Times(text, comments)' =
                            Dispute!Times(text, disputeItem.comments)'
                                + Cardinality(DisputeLanded(text))'
      BY DEF DisputeCounted
    <3>1. mounted /\ project /\ missed \subseteq {"again"}
      <4>1. missed \subseteq {"again"} /\ "left" \notin missed' /\ "order" \notin missed'
        BY <1>4, <1>11
      <4>2. ~mounted => "left" \in missed'
        BY <1>4, <1>11
      <4>3. ~project => "order" \in missed'
        BY <1>4, <1>11
      <4> QED
        BY <4>1, <4>2, <4>3
    <3>2. Dispute!Times(text, comments) =
              Dispute!Times(text, disputeItem.comments) + Cardinality(DisputeLanded(text))
      BY <3>1 DEF DisputeInv, DisputeCounted
    <3>3. disputeItem' = Dispute!Pushed(m)
      BY <1>3, <1>11, <3>1
    <3>4. Dispute!Times(text, disputeItem.comments)' =
              IF m.text = text THEN Dispute!Times(text, disputeItem.comments) + 1
              ELSE Dispute!Times(text, disputeItem.comments)
      <4>1. Dispute!Times(text, disputeItem.comments)' =
                Dispute!Times(text, Append(disputeItem.comments, m.text))
        BY <1>7, <3>3 DEF Dispute!Times
      <4> QED
        BY <1>6, <4>1, DisputeAppends
    <3>5. Dispute!Times(text, comments)' = Dispute!Times(text, comments)
      BY <1>1 DEF Dispute!Times
    <3>6. /\ DisputeLanded(text)' = DisputeLanded(text) \ {m}
          /\ m \in DisputeLanded(text) <=> m.text = text
      BY <1>1, <1>11 DEF DisputeLanded
    <3>7. IsFiniteSet(DisputeLanded(text)) /\ Cardinality(DisputeLanded(text)) \in Nat
      <4>1. DisputeLanded(text) \subseteq disputeNet
        BY DEF DisputeLanded
      <4>2. IsFiniteSet(disputeNet)
        BY DEF DisputeInv, DisputeNumbered
      <4> QED
        BY <4>1, <4>2, FS_Subset, FS_CardinalityType
    <3>8. Cardinality(DisputeLanded(text) \ {m}) =
              IF m.text = text THEN Cardinality(DisputeLanded(text)) - 1
              ELSE Cardinality(DisputeLanded(text))
      BY <3>6, <3>7, FS_RemoveElement
    <3>9. /\ Dispute!Times(text, comments) \in Nat
          /\ Dispute!Times(text, disputeItem.comments) \in Nat
      BY <1>6, DisputeTimes
    <3>10. Cardinality(DisputeLanded(text))' = Cardinality(DisputeLanded(text) \ {m})
      BY <3>6
    <3> QED
      BY <3>2, <3>4, <3>5, <3>7, <3>8, <3>9, <3>10
  <2> QED
    BY <1>2, <1>8, <1>9, <2>1 DEF DisputeInv
<1> QED
  BY <1>10, <1>11

LEMMA DisputeRest ==
    ASSUME DisputeInv, NEW m \in disputeNet, Dispute!DeliverOrder(m) \/ Dispute!Fail(m)
    PROVE  DisputeInv'
<1>1. /\ disputeNet' = disputeNet \ {m}
      /\ UNCHANGED <<user_type, project, comments, disputeStatus, disputeItem, visit,
                     disputeScreen, reply, selectedReply, open, flag, disputeTaps>>
      /\ availableTaskList' \in {availableTaskList, TRUE, FALSE}
      /\ spinning' \in {spinning, FALSE}
      /\ missed' = missed \/ missed' = missed \union {"lost"}
      /\ m.kind = "post" /\ m.stage = "success" => "lost" \in missed'
  BY DEF Dispute!DeliverOrder, Dispute!Fail, Dispute!sheet
<1>2. /\ DisputeNumbered' /\ disputeNet' \subseteq Dispute!Request
      /\ ~(m.kind = "post" /\ m.stage = "success") =>
            \A text : DisputeLanded(text)' = DisputeLanded(text)
  BY <1>1, DisputeTaken
<1>3. painted' \in {painted, Len(disputeItem.comments)} /\ painted' \in Nat
  <2>1. painted' = Dispute!Rendered(Dispute!Mounted(m))
        \/ painted' = Dispute!Rendered(spinning' # spinning)
    BY DEF Dispute!DeliverOrder, Dispute!Fail
  <2> QED
    BY <2>1, DisputeRendered DEF DisputeInv
<1>4. Dispute!TypeOK'
  <2>1. missed' \subseteq Dispute!Reasons
    BY <1>1 DEF DisputeInv, Dispute!TypeOK, Dispute!Reasons
  <2>2. availableTaskList' \in BOOLEAN /\ spinning' \in BOOLEAN
    BY <1>1 DEF DisputeInv, Dispute!TypeOK
  <2> QED
    BY <1>1, <1>2, <1>3, <2>1, <2>2 DEF DisputeInv, Dispute!TypeOK
<1>5. DisputeCounted'
  <2>1. CASE m.kind = "post" /\ m.stage = "success"
    BY <1>1, <2>1 DEF DisputeCounted
  <2>2. CASE ~(m.kind = "post" /\ m.stage = "success")
    BY <1>1, <1>2, <2>2, DisputeSame DEF DisputeInv
  <2> QED
    BY <2>1, <2>2
<1>6. DisputePainted' /\ DisputeVisits'
  <2>1. "again" \notin missed' => "again" \notin missed
    BY <1>1
  <2> QED
    BY <1>1, <1>3, <2>1, DisputeStill
<1> QED
  BY <1>2, <1>4, <1>5, <1>6 DEF DisputeInv

LEMMA DisputeOthers == ASSUME DisputeInv, Dispute!OtherReplies PROVE DisputeInv'
<1>1. /\ Dispute!Tapped /\ comments' = Append(comments, disputeTaps')
      /\ disputeStatus' \in Dispute!Statuses /\ missed' = missed \union {"others"}
      /\ UNCHANGED <<user_type, project, disputeItem, visit, disputeScreen, availableTaskList,
                     reply, selectedReply, open, spinning, flag, painted, disputeNet>>
  BY DEF Dispute!OtherReplies, Dispute!sheet, Dispute!shown
<1>2. disputeTaps' \in 0 .. MaxTouches /\ disputeTaps' \in Nat
  BY <1>1, DisputeTapped DEF DisputeInv
<1>3. comments' \in Seq(Nat) /\ missed' \subseteq Dispute!Reasons
  BY <1>1, <1>2 DEF DisputeInv, Dispute!TypeOK, Dispute!Reasons
<1>4. Dispute!TypeOK'
  BY <1>1, <1>2, <1>3 DEF DisputeInv, Dispute!TypeOK
<1>5. DisputeNumbered'
  BY <1>1, DisputeQuiet
<1>6. DisputeCounted'
  BY <1>1 DEF DisputeCounted
<1>7. DisputePainted' /\ DisputeVisits'
  BY <1>1, DisputeStill
<1> QED
  BY <1>4, <1>5, <1>6, <1>7 DEF DisputeInv

\* Nothing but what is painted changes.
LEMMA DisputeIdle ==
    ASSUME DisputeInv, painted' \in {painted, Len(disputeItem.comments)},
           UNCHANGED <<user_type, project, comments, disputeStatus, disputeItem, visit,
                       disputeScreen, availableTaskList, reply, selectedReply, open, spinning,
                       flag, disputeNet, disputeTaps, missed>>
    PROVE  DisputeInv'
<1>1. painted' \in Nat
  <2>1. painted \in Nat /\ disputeItem.comments \in Seq(Nat)
    BY DEF DisputeInv, Dispute!TypeOK
  <2>2. Len(disputeItem.comments) \in Nat
    BY <2>1
  <2> QED
    BY <2>1, <2>2
<1>2. Dispute!TypeOK' /\ DisputeNumbered'
  BY <1>1 DEF DisputeInv, Dispute!TypeOK, DisputeNumbered
<1>3. \A text \in Nat : DisputeLanded(text)' = DisputeLanded(text)
  BY DEF DisputeLanded
<1>4. DisputeCounted'
  BY <1>3, DisputeSame DEF DisputeInv
<1>5. DisputePainted' /\ DisputeVisits'
  BY DisputeStill
<1> QED
  BY <1>2, <1>4, <1>5 DEF DisputeInv

LEMMA DisputeStep == ASSUME DisputeInv, [Dispute!Next]_(Dispute!vars) PROVE DisputeInv'
<1>1. CASE UNCHANGED Dispute!vars
  BY <1>1, DisputeIdle DEF Dispute!vars, Dispute!sheet, Dispute!shown
<1>2. CASE Dispute!Render
  <2>1. painted' = Len(disputeItem.comments)
    BY <1>2, DisputeRendered DEF Dispute!Render, DisputeInv
  <2> QED
    BY <1>2, <2>1, DisputeIdle DEF Dispute!Render, Dispute!sheet
<1>3. CASE Dispute!Next /\ ~Dispute!Render
  BY <1>3, DisputeUser, DisputeServe, DisputePost, DisputeRest, DisputeOthers DEF Dispute!Next
<1> QED
  BY <1>1, <1>2, <1>3

LEMMA DisputeAlways == Dispute!Spec => []DisputeInv
BY DisputeInit, DisputeStep, PTL DEF Dispute!Spec

\* Type correctness of a dispute: what is typed, sent, kept and shown are replies.
THEOREM DisputeTypeCorrect == Dispute!Spec => []Dispute!TypeOK
BY DisputeAlways, PTL DEF DisputeInv

\* When no reply is in flight, the list and the screen (disputesDetails.js: postReply
\* and taskPostReply) hold every reply as often as the server has it, and what the
\* screen holds is painted, for any touches and requests in flight, with the
\* exceptions named.
THEOREM RepliesFollow == Dispute!Spec => []RepliesShown
<1>1. ASSUME DisputeInv PROVE RepliesShown
  <2>1. ASSUME \A m \in disputeNet : m.kind # "post", missed \subseteq {"again"},
               NEW text \in 0 .. MaxTouches
        PROVE  Dispute!Times(text, disputeItem.comments) = Dispute!Times(text, comments)
    <3>1. text \in Nat
      BY DisputeAssumption DEF Dispute!ConstantsAssumption
    <3>2. Dispute!Times(text, comments) =
              Dispute!Times(text, disputeItem.comments) + Cardinality(DisputeLanded(text))
      BY <1>1, <2>1, <3>1 DEF DisputeInv, DisputeCounted
    <3>3. DisputeLanded(text) = {} /\ Cardinality({}) = 0
      BY <2>1, FS_EmptySet DEF DisputeLanded
    <3>4. Dispute!Times(text, disputeItem.comments) \in Nat
      BY <1>1, DisputeTimes DEF DisputeInv, Dispute!TypeOK
    <3> QED
      BY <3>2, <3>3, <3>4
  <2>2. disputeScreen = "detail" /\ "again" \notin missed => painted = Len(disputeItem.comments)
    BY <1>1 DEF DisputeInv, DisputePainted
  <2> QED
    BY <2>1, <2>2 DEF RepliesShown, Dispute!RepliesShown
<1> QED
  BY <1>1, DisputeAlways, PTL

-----------------------------------------------------------------------------
(* The order of a task: sums over its services                              *)

LEMMA OrderSmallest ==
    ASSUME NEW T \in SUBSET Nat, T # {}
    PROVE  \E x \in T : \A y \in T : x <= y
<1> DEFINE R == OpToRel(<, Nat)
<1>1. IsWellFoundedOn(R, Nat)
  BY NatLessThanWellFounded
<1> HIDE DEF R
<1>2. PICK x \in T : \A y \in T : ~(<<y, x>> \in R)
  BY <1>1, WFMin
<1>3. \A y \in T : ~(y < x)
  BY <1>2 DEF R, OpToRel
<1>4. \A y \in T : x <= y
  BY <1>3
<1> QED
  BY <1>4

\* Induction over the numbers in a set.
LEMMA OrderNatsInSet ==
    ASSUME NEW T \in SUBSET Nat, 0 \in T, \A n \in T : n + 1 \in T
    PROVE  T = Nat
<1> SUFFICES ASSUME NEW k \in Nat, k \notin T PROVE FALSE
  OBVIOUS
<1> DEFINE U == Nat \ T
<1>1. PICK x \in U : \A y \in U : x <= y
  <2>1. U \in SUBSET Nat /\ U # {}
    OBVIOUS
  <2> HIDE DEF U
  <2> QED
    BY <2>1, OrderSmallest
<1>2. x # 0 /\ x - 1 \in Nat
  OBVIOUS
<1>3. x - 1 \in T
  BY <1>1, <1>2
<1> QED
  BY <1>1, <1>2, <1>3

\* The element that a fold takes first.
OrderFirst(s) == CHOOSE x \in s : TRUE

\* g adds up w over the subsets of S that it is defined for.
OrderAdds(g, w, D) ==
    \A s \in D : g[s] = IF s = {} THEN 0 ELSE w[OrderFirst(s)] + g[s \ {OrderFirst(s)}]

\* The same, of all subsets of S; and g is the sum of w over them.
OrderAddsUp(g, w, S) == OrderAdds(g, w, SUBSET S)

OrderSums(g, w, S) ==
    /\ IsFiniteSet(S) /\ w \in [S -> Nat] /\ g \in [SUBSET S -> Nat]
    /\ OrderAdds(g, w, SUBSET S)

\* The subsets of S that have n elements or fewer.
OrderSmall(S, n) == {s \in SUBSET S : Cardinality(s) <= n}

LEMMA OrderTakes ==
    ASSUME NEW s, IsFiniteSet(s), s # {}
    PROVE  /\ OrderFirst(s) \in s /\ IsFiniteSet(s \ {OrderFirst(s)})
           /\ Cardinality(s) \in Nat /\ Cardinality(s) > 0
           /\ Cardinality(s \ {OrderFirst(s)}) = Cardinality(s) - 1
<1>1. OrderFirst(s) \in s
  BY DEF OrderFirst
<1>2. Cardinality(s) \in Nat /\ Cardinality(s) # 0
  BY FS_CardinalityType, FS_EmptySet
<1>3. /\ IsFiniteSet(s \ {OrderFirst(s)})
      /\ Cardinality(s \ {OrderFirst(s)}) = Cardinality(s) - 1
  BY <1>1, FS_RemoveElement
<1> QED
  BY <1>1, <1>2, <1>3

\* There is such a sum: for subsets of n elements, then for those of n + 1.
LEMMA OrderSumExists ==
    ASSUME NEW S, IsFiniteSet(S), NEW w \in [S -> Nat]
    PROVE  \E g \in [SUBSET S -> Nat] : OrderAdds(g, w, SUBSET S)
<1> DEFINE T == {n \in Nat : \E g \in [SUBSET S -> Nat] : OrderAdds(g, w, OrderSmall(S, n))}
<1>1. \A s \in SUBSET S : IsFiniteSet(s) /\ Cardinality(s) \in Nat
  BY FS_Subset, FS_CardinalityType
<1>2. 0 \in T
  <2> DEFINE g == [s \in SUBSET S |-> 0]
  <2>1. \A s \in OrderSmall(S, 0) : s = {}
    BY <1>1, FS_EmptySet DEF OrderSmall
  <2>2. \A s \in OrderSmall(S, 0) : g[s] = 0
    BY DEF OrderSmall
  <2>3. OrderAdds(g, w, OrderSmall(S, 0))
    BY <2>1, <2>2 DEF OrderAdds
  <2>4. g \in [SUBSET S -> Nat]
    OBVIOUS
  <2> QED
    BY <2>3, <2>4
<1>3. ASSUME NEW n \in T PROVE n + 1 \in T
  <2>1. n \in Nat /\ n + 1 \in Nat
    OBVIOUS
  <2>2. PICK g \in [SUBSET S -> Nat] : OrderAdds(g, w, OrderSmall(S, n))
    OBVIOUS
  <2> DEFINE Value(s) ==
                 IF Cardinality(s) <= n THEN g[s]
                 ELSE w[OrderFirst(s)] + g[s \ {OrderFirst(s)}]
             h == [s \in SUBSET S |-> Value(s)]
  <2>3. h \in [SUBSET S -> Nat]
    <3>1. ASSUME NEW s \in SUBSET S PROVE Value(s) \in Nat
      <4>1. CASE Cardinality(s) <= n
        BY <2>2, <4>1
      <4>2. CASE ~(Cardinality(s) <= n)
        <5>1. s # {}
          <6>1. Cardinality({}) = 0 /\ 0 <= n
            BY <2>1, FS_EmptySet
          <6> HIDE DEF Value, T
          <6> QED
            BY <4>2, <6>1
        <5>2. OrderFirst(s) \in s
          BY <5>1 DEF OrderFirst
        <5>3. OrderFirst(s) \in S /\ s \ {OrderFirst(s)} \in SUBSET S
          BY <5>2
        <5>4. w[OrderFirst(s)] \in Nat /\ g[s \ {OrderFirst(s)}] \in Nat
          BY <5>3
        <5> QED
          BY <4>2, <5>4
      <4> QED
        BY <4>1, <4>2
    <3> HIDE DEF Value
    <3> QED
      BY <3>1
  <2>4. ASSUME NEW s \in OrderSmall(S, n + 1)
        PROVE  h[s] = IF s = {} THEN 0 ELSE w[OrderFirst(s)] + h[s \ {OrderFirst(s)}]
    <3>1. s \in SUBSET S /\ Cardinality(s) <= n + 1 /\ h[s] = Value(s)
      BY DEF OrderSmall
    <3>2. CASE s = {}
      <4>1. s \in OrderSmall(S, n)
        BY <2>1, <3>1, <3>2, FS_EmptySet DEF OrderSmall
      <4>2. Cardinality(s) <= n
        BY <4>1 DEF OrderSmall
      <4>3. g[s] = 0
        BY <2>2, <3>2, <4>1 DEF OrderAdds
      <4> QED
        BY <3>1, <3>2, <4>2, <4>3
    <3>3. CASE s # {}
      <4> DEFINE r == s \ {OrderFirst(s)}
      <4>1. /\ r \in SUBSET S /\ Cardinality(s) \in Nat
            /\ Cardinality(r) = Cardinality(s) - 1
        BY <1>1, <3>1, <3>3, OrderTakes
      <4>2. Cardinality(r) <= n
        BY <2>1, <3>1, <4>1
      <4>3. h[r] = g[r]
        BY <4>1, <4>2
      <4>4. CASE Cardinality(s) <= n
        <5>1. s \in OrderSmall(S, n)
          BY <3>1, <4>4 DEF OrderSmall
        <5>2. g[s] = w[OrderFirst(s)] + g[r]
          BY <2>2, <3>3, <5>1 DEF OrderAdds
        <5> QED
          BY <3>1, <3>3, <4>3, <4>4, <5>2
      <4>5. CASE ~(Cardinality(s) <= n)
        BY <3>1, <3>3, <4>3, <4>5
      <4> QED
        BY <4>4, <4>5
    <3> QED
      BY <3>2, <3>3
  <2>5. OrderAdds(h, w, OrderSmall(S, n + 1))
    <3> HIDE DEF h
    <3> QED
      BY <2>4 DEF OrderAdds
  <2> QED
    <3> HIDE DEF h
    <3> QED
      BY <2>1, <2>3, <2>5
<1>4. T = Nat
  <2>1. T \in SUBSET Nat
    OBVIOUS
  <2> HIDE DEF T
  <2> QED
    BY <1>2, <1>3, <2>1, OrderNatsInSet
<1>5. Cardinality(S) \in Nat /\ \A s \in SUBSET S : Cardinality(s) <= Cardinality(S)
  BY FS_CardinalityType, FS_Subset
<1>6. OrderSmall(S, Cardinality(S)) = SUBSET S
  BY <1>5 DEF OrderSmall
<1>7. Cardinality(S) \in T
  BY <1>4, <1>5
<1> QED
  BY <1>6, <1>7

\* In whatever order the elements are taken, the sum is the same.
LEMMA OrderSumTakes ==
    ASSUME NEW S, NEW w, NEW g, OrderSums(g, w, S), NEW X \in SUBSET S, NEW y \in X
    PROVE  g[X] = w[y] + g[X \ {y}]
<1>0. /\ IsFiniteSet(S) /\ w \in [S -> Nat] /\ g \in [SUBSET S -> Nat]
      /\ OrderAdds(g, w, SUBSET S)
  BY DEF OrderSums
<1> DEFINE P(s) == \A x \in s : g[s] = w[x] + g[s \ {x}]
           T == {n \in Nat : \A s \in SUBSET S : Cardinality(s) = n => P(s)}
<1>1. \A s \in SUBSET S : IsFiniteSet(s) /\ Cardinality(s) \in Nat
  BY <1>0, FS_Subset, FS_CardinalityType
<1>2. 0 \in T
  BY <1>1, FS_EmptySet
<1>3. ASSUME NEW n \in T PROVE n + 1 \in T
  <2>1. n \in Nat /\ n + 1 \in Nat /\ \A s \in SUBSET S : Cardinality(s) = n => P(s)
    OBVIOUS
  <2>2. ASSUME NEW s \in SUBSET S, Cardinality(s) = n + 1, NEW x \in s
        PROVE  g[s] = w[x] + g[s \ {x}]
    <3> DEFINE c == OrderFirst(s)
    <3>1. s # {} /\ IsFiniteSet(s)
      BY <1>1
    <3>2. c \in s /\ Cardinality(s \ {c}) = Cardinality(s) - 1
      BY <3>1, OrderTakes
    <3>3. g[s] = w[c] + g[s \ {c}]
      BY <1>0, <3>1 DEF OrderAdds
    <3> HIDE DEF c
    <3>4. CASE x = c
      BY <3>3, <3>4
    <3>5. CASE x # c
      <4>1. Cardinality(s \ {x}) = Cardinality(s) - 1
        BY <3>1, FS_RemoveElement
      <4>2. Cardinality(s \ {c}) = n /\ Cardinality(s \ {x}) = n
        BY <2>1, <2>2, <3>2, <4>1
      <4>3. x \in s \ {c} /\ c \in s \ {x} /\ s \ {c} \in SUBSET S /\ s \ {x} \in SUBSET S
        BY <3>2, <3>5
      <4>4. P(s \ {c}) /\ P(s \ {x})
        BY <2>1, <4>2, <4>3
      <4>5. /\ g[s \ {c}] = w[x] + g[(s \ {c}) \ {x}]
            /\ g[s \ {x}] = w[c] + g[(s \ {x}) \ {c}]
        BY <4>3, <4>4
      <4>6. (s \ {c}) \ {x} = (s \ {x}) \ {c}
        OBVIOUS
      <4>7. /\ w[x] \in Nat /\ w[c] \in Nat /\ g[(s \ {x}) \ {c}] \in Nat
        <5>1. x \in S /\ c \in S /\ (s \ {x}) \ {c} \in SUBSET S
          BY <3>2
        <5> QED
          BY <1>0, <5>1
      <4> DEFINE a == w[x]
                 b == w[c]
                 r == g[(s \ {x}) \ {c}]
      <4>8. a \in Nat /\ b \in Nat /\ r \in Nat
        BY <4>7
      <4>9. g[s] = b + (a + r) /\ g[s \ {x}] = b + r
        BY <3>3, <4>5, <4>6
      <4> HIDE DEF P, T, a, b, r
      <4>10. b + (a + r) = a + (b + r)
        BY <4>8
      <4>11. g[s] = a + g[s \ {x}]
        BY <4>9, <4>10
      <4> QED
        BY <4>11 DEF a
    <3> QED
      BY <3>4, <3>5
  <2> QED
    BY <2>1, <2>2
<1>4. T = Nat
  <2>1. T \in SUBSET Nat
    OBVIOUS
  <2> HIDE DEF T
  <2> QED
    BY <1>2, <1>3, <2>1, OrderNatsInSet
<1>5. Cardinality(X) \in T
  BY <1>1, <1>4
<1> QED
  BY <1>5

\* Two sums agree on the subsets on which what is added does.
LEMMA OrderSumsAgree ==
    ASSUME NEW S, NEW X \in SUBSET S, NEW w, NEW v, NEW g, NEW h,
           OrderAddsUp(g, w, S), OrderAddsUp(h, v, X), IsFiniteSet(S), \A x \in X : w[x] = v[x]
    PROVE  g[X] = h[X]
<1>0. IsFiniteSet(S) /\ OrderAdds(g, w, SUBSET S) /\ OrderAdds(h, v, SUBSET X)
  BY DEF OrderAddsUp
<1> DEFINE T == {n \in Nat : \A s \in SUBSET X : Cardinality(s) = n => g[s] = h[s]}
<1>1. \A s \in SUBSET X : IsFiniteSet(s) /\ Cardinality(s) \in Nat /\ s \in SUBSET S
  BY <1>0, FS_Subset, FS_CardinalityType
<1>2. 0 \in T
  <2>1. \A s \in SUBSET X : Cardinality(s) = 0 => s = {}
    BY <1>1, FS_EmptySet
  <2>2. g[{}] = 0 /\ h[{}] = 0
    BY <1>0 DEF OrderAdds
  <2> QED
    BY <2>1, <2>2
<1>3. ASSUME NEW n \in T PROVE n + 1 \in T
  <2>1. n \in Nat /\ n + 1 \in Nat
        /\ \A s \in SUBSET X : Cardinality(s) = n => g[s] = h[s]
    OBVIOUS
  <2>2. ASSUME NEW s \in SUBSET X, Cardinality(s) = n + 1
        PROVE  g[s] = h[s]
    <3> DEFINE c == OrderFirst(s)
    <3>1. s # {} /\ IsFiniteSet(s)
      BY <1>1, <2>1, <2>2, FS_EmptySet
    <3>2. c \in s /\ Cardinality(s \ {c}) = Cardinality(s) - 1
      BY <3>1, OrderTakes
    <3>3. g[s] = w[c] + g[s \ {c}] /\ h[s] = v[c] + h[s \ {c}]
      BY <1>0, <1>1, <3>1 DEF OrderAdds
    <3> HIDE DEF c
    <3>4. g[s \ {c}] = h[s \ {c}] /\ w[c] = v[c]
      BY <2>1, <2>2, <3>2
    <3> QED
      BY <3>3, <3>4
  <2> QED
    BY <2>1, <2>2
<1>4. T = Nat
  <2>1. T \in SUBSET Nat
    OBVIOUS
  <2> HIDE DEF T
  <2> QED
    BY <1>2, <1>3, <2>1, OrderNatsInSet
<1>5. Cardinality(X) \in T
  BY <1>1, <1>4
<1> QED
  BY <1>5

\* What the fold of the community modules adds up.
LEMMA OrderFolds ==
    ASSUME NEW X, IsFiniteSet(X), Price \in [Services -> Nat], X \subseteq Services
    PROVE  \E h : /\ OrderAddsUp(h, Price, X)
                  /\ Order!MapThenSumSet(LAMBDA s : Price[s], X) = h[X]
<1> DEFINE Value(h, s) == IF s = {} THEN 0 ELSE Price[OrderFirst(s)] + h[s \ {OrderFirst(s)}]
           iter == CHOOSE h : h = [s \in SUBSET X |-> Value(h, s)]
<1>1. Order!MapThenSumSet(LAMBDA s : Price[s], X) = iter[X]
  BY DEF Order!MapThenSumSet, Order!MapThenFoldSet, OrderFirst
<1>2. \E h \in [SUBSET X -> Nat] : OrderAdds(h, Price, SUBSET X)
  <2>1. [s \in X |-> Price[s]] \in [X -> Nat]
    OBVIOUS
  <2>2. PICK h \in [SUBSET X -> Nat] :
           OrderAdds(h, [s \in X |-> Price[s]], SUBSET X)
    BY <2>1, OrderSumExists
  <2>3. ASSUME NEW s \in SUBSET X
        PROVE  h[s] = IF s = {} THEN 0 ELSE Price[OrderFirst(s)] + h[s \ {OrderFirst(s)}]
    <3>1. s # {} => OrderFirst(s) \in X
      BY DEF OrderFirst
    <3>2. h[s] = IF s = {} THEN 0
                 ELSE [y \in X |-> Price[y]][OrderFirst(s)] + h[s \ {OrderFirst(s)}]
      BY <2>2 DEF OrderAdds
    <3> QED
      BY <3>1, <3>2
  <2> QED
    BY <2>3 DEF OrderAdds
<1>3. PICK h \in [SUBSET X -> Nat] : OrderAdds(h, Price, SUBSET X)
  BY <1>2
<1>4. h = [s \in SUBSET X |-> Value(h, s)]
  <2>1. h = [s \in SUBSET X |-> h[s]]
    OBVIOUS
  <2>2. \A s \in SUBSET X : h[s] = Value(h, s)
    BY <1>3 DEF OrderAdds
  <2> HIDE DEF Value
  <2> QED
    BY <2>1, <2>2
<1>5. iter = [s \in SUBSET X |-> Value(iter, s)]
  <2> HIDE DEF Value
  <2> QED
    BY <1>4
<1>6. OrderAddsUp(iter, Price, X)
  <2> HIDE DEF iter
  <2>1. \A s \in SUBSET X : iter[s] = Value(iter, s)
    <3> HIDE DEF Value
    <3> QED
      BY <1>5
  <2> QED
    BY <2>1 DEF OrderAdds, OrderAddsUp
<1> HIDE DEF iter
<1> QED
  BY <1>1, <1>6
-----------------------------------------------------------------------------
(* The subtotal                                                             *)

LEMMA OrderParses ==
    ASSUME NEW x \in Nat
    PROVE  /\ Order!ParseInt(x) \in Nat /\ (x % 100 = 0 => Order!ParseInt(x) = x)
           /\ \E k \in Nat : Order!ParseInt(x) = k * 100
<1>1. /\ x \div 100 \in Nat
      /\ x % 100 = 0 => (x \div 100) * 100 = x
  OBVIOUS
<1> QED
  BY <1>1 DEF Order!ParseInt

LEMMA OrderParsedSum ==
    ASSUME NEW x \in Nat, NEW y \in Nat
    PROVE  /\ Order!ParseInt(Order!ParseInt(x) + Order!ParseInt(y)) =
                  Order!ParseInt(x) + Order!ParseInt(y)
           /\ Order!ParseInt(y) <= Order!ParseInt(x) =>
                 Order!ParseInt(Order!ParseInt(x) - Order!ParseInt(y)) =
                     Order!ParseInt(x) - Order!ParseInt(y)
<1>1. PICK k \in Nat : Order!ParseInt(x) = k * 100
  BY OrderParses
<1>2. PICK l \in Nat : Order!ParseInt(y) = l * 100
  BY OrderParses
<1>3. k * 100 + l * 100 = (k + l) * 100 /\ k * 100 - l * 100 = (k - l) * 100
  OBVIOUS
<1>4. ((k + l) * 100) \div 100 = k + l /\ ((k - l) * 100) \div 100 = k - l
  OBVIOUS
<1>5. Order!ParseInt((k + l) * 100) = (k + l) * 100
  BY <1>4 DEF Order!ParseInt
<1>6. Order!ParseInt((k - l) * 100) = (k - l) * 100
  BY <1>4 DEF Order!ParseInt
<1> QED
  BY <1>1, <1>2, <1>3, <1>5, <1>6

\* What every service adds to the total, and what a set of them does.
OrderCut == [s \in Services |-> Order!ParseInt(Price[s])]
OrderCuts == CHOOSE g \in [SUBSET Services -> Nat] : OrderAdds(g, OrderCut, SUBSET Services)

\* The total is always that of the first package and of the services chosen,
\* each without its cents.
OrderTotal ==
    Order!ParseInt(totalPrice) =
        Order!ParseInt(attributes[1]) + OrderCuts[selectedServicesArray]

OrderInv == Order!TypeOK /\ OrderTotal

LEMMA OrderConstants ==
    /\ IsFiniteSet(Services) /\ Price \in [Services -> Nat]
    /\ \A o \in Offers : o[1] \in Nat
<1>1. Order!IsFiniteSet(Services) => IsFiniteSet(Services)
  BY DEF Order!IsFiniteSet, IsFiniteSet
<1>2. ASSUME NEW o \in Offers PROVE o[1] \in Nat
  <2>1. o \in Seq(Nat) /\ Len(o) \in 1 .. 3
    BY OrderAssumption DEF Order!ConstantsAssumption
  <2> QED
    BY <2>1
<1> QED
  BY <1>1, <1>2, OrderAssumption DEF Order!ConstantsAssumption

LEMMA OrderCutsAdd ==
    /\ OrderCut \in [Services -> Nat] /\ OrderCuts \in [SUBSET Services -> Nat]
    /\ OrderAdds(OrderCuts, OrderCut, SUBSET Services)
    /\ OrderCuts[{}] = 0
<1>1. OrderCut \in [Services -> Nat]
  BY OrderConstants, OrderParses DEF OrderCut
<1>2. \E g \in [SUBSET Services -> Nat] : OrderAdds(g, OrderCut, SUBSET Services)
  BY <1>1, OrderConstants, OrderSumExists
<1>3. /\ OrderCuts \in [SUBSET Services -> Nat]
      /\ OrderAdds(OrderCuts, OrderCut, SUBSET Services)
  BY <1>2 DEF OrderCuts
<1>4. OrderCuts[{}] = 0
  BY <1>3 DEF OrderAdds
<1> QED
  BY <1>1, <1>3, <1>4

\* A service that is added or taken back adds or takes its price without cents.
LEMMA OrderCutsTake ==
    ASSUME NEW X \in SUBSET Services, NEW s \in X
    PROVE  /\ OrderCuts[X] = Order!ParseInt(Price[s]) + OrderCuts[X \ {s}]
           /\ OrderCuts[X \ {s}] \in Nat /\ Order!ParseInt(Price[s]) \in Nat
<1>1. OrderCuts[X] = OrderCut[s] + OrderCuts[X \ {s}]
  <2>1. /\ IsFiniteSet(Services) /\ OrderCut \in [Services -> Nat]
        /\ OrderCuts \in [SUBSET Services -> Nat]
        /\ OrderAdds(OrderCuts, OrderCut, SUBSET Services)
    BY OrderConstants, OrderCutsAdd
  <2> QED
    BY <2>1, OrderSumTakes DEF OrderSums
<1>2. OrderCut[s] = Order!ParseInt(Price[s]) /\ X \ {s} \in SUBSET Services
  BY DEF OrderCut
<1>3. OrderCut[s] \in Nat /\ OrderCuts[X \ {s}] \in Nat
  BY <1>2, OrderCutsAdd
<1> QED
  BY <1>1, <1>2, <1>3

LEMMA OrderInit == ASSUME Order!Init PROVE OrderInv
<1>1. attributes[1] \in Nat
  BY OrderConstants DEF Order!Init
<1>2. Order!TypeOK
  <2>1. /\ attributes \in Offers /\ totalPrice \in Nat /\ selectedServicesArray = {}
        /\ requests = {} /\ orders = {}
    BY <1>1 DEF Order!Init
  <2>2. packageIndex \in 0 .. 2 /\ touches \in Nat
    BY DEF Order!Init
  <2>3. show \in BOOLEAN /\ wallet \in BOOLEAN
    BY Zenon DEF Order!Init
  <2>4. screen \in {"order", "checkout", "task", "crash"}
    BY DEF Order!Init
  <2> QED
    BY <2>1, <2>2, <2>3, <2>4 DEF Order!TypeOK
<1>3. OrderTotal
  <2>1. totalPrice = attributes[1] /\ selectedServicesArray = {}
    BY DEF Order!Init
  <2>2. Order!ParseInt(attributes[1]) \in Nat
    BY <1>1, OrderParses
  <2> QED
    BY <2>1, <2>2, OrderCutsAdd DEF OrderTotal
<1> QED
  BY <1>2, <1>3 DEF OrderInv

\* A touch of a service.
LEMMA OrderAddInBudget ==
    ASSUME OrderInv, NEW s \in Services, Order!AddInBudget(s)
    PROVE  OrderInv'
<1> DEFINE X == selectedServicesArray
           T == Order!ParseInt(totalPrice)
           P == Order!ParseInt(Price[s])
           F == Order!ParseInt(attributes[1])
<1>1. /\ X \in SUBSET Services /\ totalPrice \in Nat /\ attributes[1] \in Nat
      /\ Price[s] \in Nat /\ T = F + OrderCuts[X] /\ OrderCuts[X] \in Nat
  BY OrderConstants, OrderCutsAdd DEF OrderInv, OrderTotal, Order!TypeOK
<1>2. T \in Nat /\ P \in Nat /\ F \in Nat
  BY <1>1, OrderParses
<1>3. /\ attributes' = attributes /\ UNCHANGED <<packageIndex, show, wallet, screen, requests,
                                                 orders>>
      /\ touches' = touches + 1
  BY DEF Order!AddInBudget, Order!Tapped
<1>4. X' \in SUBSET Services /\ totalPrice' \in Nat /\ OrderTotal'
  <2>1. CASE s \in X
    <3>1. X' = X \ {s} /\ totalPrice' = T - P
      BY <2>1 DEF Order!AddInBudget
    <3>2. OrderCuts[X] = P + OrderCuts[X \ {s}] /\ OrderCuts[X \ {s}] \in Nat
      BY <1>1, <2>1, OrderCutsTake
    <3>3. P <= T => Order!ParseInt(T - P) = T - P
      BY <1>1, OrderParsedSum
    <3> HIDE DEF T, P, F
    <3>4. P <= T /\ T - P \in Nat /\ T - P = F + OrderCuts[X \ {s}]
      BY <1>1, <1>2, <3>2
    <3>5. Order!ParseInt(totalPrice') = F + OrderCuts[X']
      BY <3>1, <3>3, <3>4
    <3> QED
      BY <1>1, <1>3, <3>1, <3>4, <3>5 DEF OrderTotal, F
  <2>2. CASE s \notin X
    <3> DEFINE Y == X \union {s}
    <3>1. X' = Y /\ totalPrice' = T + P
      BY <2>2 DEF Order!AddInBudget
    <3>2. Y \in SUBSET Services /\ s \in Y /\ Y \ {s} = X
      BY <1>1, <2>2
    <3>3. OrderCuts[Y] = P + OrderCuts[X]
      <4> HIDE DEF Y
      <4> QED
        BY <3>2, OrderCutsTake
    <3>4. Order!ParseInt(T + P) = T + P
      BY <1>1, OrderParsedSum
    <3> HIDE DEF T, P, F, Y
    <3>5. T + P \in Nat /\ T + P = F + OrderCuts[Y]
      BY <1>1, <1>2, <3>3
    <3>6. Order!ParseInt(totalPrice') = F + OrderCuts[X']
      BY <3>1, <3>4, <3>5
    <3> QED
      BY <1>3, <3>1, <3>2, <3>5, <3>6 DEF OrderTotal, F
  <2> QED
    BY <2>1, <2>2
<1> HIDE DEF X, T, P, F
<1>5. Order!TypeOK'
  BY <1>3, <1>4 DEF OrderInv, Order!TypeOK, X
<1> QED
  BY <1>4, <1>5 DEF OrderInv

LEMMA OrderStep == ASSUME OrderInv, [Order!Next]_(Order!vars) PROVE OrderInv'
<1> USE DEF Order!selection
<1>1. CASE UNCHANGED Order!vars
  BY <1>1 DEF OrderInv, OrderTotal, Order!TypeOK, Order!vars
<1>2. CASE \E s \in Services : Order!AddInBudget(s)
  BY <1>2, OrderAddInBudget
<1>3. CASE Order!ToggleShow \/ Order!ToggleWallet \/ Order!Back
           \/ \E i \in 0 .. 2 : Order!ChoosePackage(i)
  <2>1. UNCHANGED <<attributes, selectedServicesArray, totalPrice, requests, orders>>
    BY <1>3 DEF Order!ToggleShow, Order!ToggleWallet, Order!Back, Order!ChoosePackage
  <2>2. packageIndex' \in 0 .. 2
    BY <1>3 DEF Order!ToggleShow, Order!ToggleWallet, Order!Back, Order!ChoosePackage,
       OrderInv, Order!TypeOK
  <2>3. show' \in BOOLEAN /\ wallet' \in BOOLEAN
    BY <1>3 DEF Order!ToggleShow, Order!ToggleWallet, Order!Back, Order!ChoosePackage,
       OrderInv, Order!TypeOK
  <2>4. screen' \in {"order", "checkout", "task", "crash"}
    BY <1>3 DEF Order!ToggleShow, Order!ToggleWallet, Order!Back, Order!ChoosePackage,
       OrderInv, Order!TypeOK
  <2>5. touches' \in Nat
    BY <1>3 DEF Order!ToggleShow, Order!ToggleWallet, Order!Back, Order!ChoosePackage,
       Order!Tapped, OrderInv, Order!TypeOK
  <2> QED
    BY <2>1, <2>2, <2>3, <2>4, <2>5 DEF OrderInv, OrderTotal, Order!TypeOK
<1>4. CASE Order!ProceedToCheckout
  <2>1. /\ UNCHANGED <<attributes, packageIndex, show, selectedServicesArray, totalPrice,
                       wallet, screen, orders>>
        /\ touches' = touches + 1
        /\ requests' = requests \union
              {[n |-> touches, stage |-> "sent",
                order |-> [package |-> packageIndex, wallet |-> wallet,
                           services |-> selectedServicesArray]]}
    BY <1>4 DEF Order!ProceedToCheckout, Order!Tapped
  <2>2. requests' \subseteq Order!Request /\ touches' \in Nat
    BY <2>1 DEF OrderInv, Order!TypeOK, Order!Request, Order!Selection
  <2> QED
    BY <2>1, <2>2 DEF OrderInv, OrderTotal, Order!TypeOK
<1>5. ASSUME NEW m \in requests, Order!Serve(m) PROVE OrderInv'
  <2>1. /\ UNCHANGED <<attributes, packageIndex, show, selectedServicesArray, totalPrice,
                       wallet, screen, touches>>
        /\ \E stage \in {"ok", "error"} :
              requests' = (requests \ {m}) \union {[m EXCEPT !.stage = stage]}
        /\ orders' \in {orders, orders \union {m}}
    BY <1>5 DEF Order!Serve
  <2>2. requests' \subseteq Order!Request /\ orders' \subseteq Order!Request
    BY <2>1 DEF OrderInv, Order!TypeOK, Order!Request
  <2> QED
    BY <2>1, <2>2 DEF OrderInv, OrderTotal, Order!TypeOK
<1>6. ASSUME NEW m \in requests, Order!Deliver(m) \/ Order!Fail(m) PROVE OrderInv'
  <2>1. /\ UNCHANGED <<attributes, packageIndex, show, selectedServicesArray, totalPrice,
                       wallet, orders, touches>>
        /\ screen' \in {screen, "task", "checkout"} /\ requests' = requests \ {m}
    BY <1>6 DEF Order!Deliver, Order!Fail
  <2> QED
    BY <2>1 DEF OrderInv, OrderTotal, Order!TypeOK
<1> QED
  BY <1>1, <1>2, <1>3, <1>4, <1>5, <1>6 DEF Order!Next

LEMMA OrderAlways == Order!Spec => []OrderInv
BY OrderInit, OrderStep, PTL DEF Order!Spec

\* Type correctness of ordering a task: the total is never negative, and what is
\* ordered is a package and services of the task.
THEOREM OrderTypeCorrect == Order!Spec => []Order!TypeOK
BY OrderAlways, PTL DEF OrderInv

\* In whatever order services are chosen and taken back (orderDetail.js:
\* addInBudget), the subtotal is the price of the first package and of the services
\* listed: for any prices and any number of services and touches.
THEOREM SubtotalFollows == Order!Spec => []SubtotalOfSelection
<1>1. ASSUME OrderInv PROVE SubtotalOfSelection
  <2> SUFFICES ASSUME Order!NoCents, packageIndex = 0
               PROVE  Order!Subtotal = Order!Sum
    BY DEF SubtotalOfSelection, Order!SubtotalOfSelection
  <2> DEFINE X == selectedServicesArray
  <2>1. X \in SUBSET Services /\ attributes \in Offers /\ totalPrice \in Nat
    BY <1>1 DEF OrderInv, Order!TypeOK
  <2>2. attributes[1] % 100 = 0 /\ \A s \in X : Price[s] % 100 = 0
    BY DEF Order!NoCents
  <2>3. Order!ParseInt(attributes[1]) = attributes[1]
    BY <2>1, <2>2, OrderConstants, OrderParses
  <2>4. \A s \in X : OrderCut[s] = Price[s]
    <3>1. \A s \in X : s \in Services /\ Price[s] \in Nat
      BY <2>1, OrderConstants
    <3>2. \A s \in X : Order!ParseInt(Price[s]) = Price[s]
      BY <2>2, <3>1, OrderParses
    <3> QED
      BY <3>1, <3>2 DEF OrderCut
  <2>5. IsFiniteSet(X)
    BY <2>1, OrderConstants, FS_Subset
  <2>6. PICK h : /\ OrderAddsUp(h, Price, X)
                 /\ Order!MapThenSumSet(LAMBDA s : Price[s], X) = h[X]
    BY <2>1, <2>5, OrderConstants, OrderFolds
  <2>7. OrderCuts[X] = h[X]
    <3> HIDE DEF X
    <3>1. IsFiniteSet(Services) /\ OrderAddsUp(OrderCuts, OrderCut, Services)
      BY OrderConstants, OrderCutsAdd DEF OrderAddsUp
    <3>2. OrderAddsUp(h, Price, X)
      BY <2>6
    <3> QED
      BY <2>1, <2>4, <3>1, <3>2, OrderSumsAgree
  <2>8. Order!Sum = attributes[1] + Order!MapThenSumSet(LAMBDA s : Price[s], X)
    BY DEF Order!Sum
  <2>9. Order!Subtotal = attributes[1] + OrderCuts[X]
    BY <1>1, <2>3 DEF OrderInv, OrderTotal, Order!Subtotal
  <2> QED
    BY <2>6, <2>7, <2>8, <2>9
<1> QED
  BY <1>1, OrderAlways, PTL
=============================================================================
