-------------------------- MODULE SendProposalProofs --------------------------
(***************************************************************************)
(* For any rates and any number of touches: the fee and the total shown are *)
(* those of the rate above them, and what is accepted is what the seller    *)
(* wanted, with the exceptions AmountsOfRate and AcceptedAsMeant name.      *)
(*                                                                         *)
(* While nothing was late, the look-up that was sent last is of the rate in *)
(* the form; the numbers of the look-ups grow with the touches, and the one *)
(* that the proposal to edit causes comes after those of its touch.  The    *)
(* form is what the seller wants once the proposal to edit is in it, since  *)
(* each milestone is of another touch: what is submitted then is accepted   *)
(* as it was meant.                                                         *)
(*                                                                         *)
(* For any payout methods (Payouts, the instance Earnings): the rows held   *)
(* are one of each, with what the server has saved, and they are painted.   *)
(* A refresh empties what is painted too, so what is painted is never of    *)
(* rows that are gone; the answer of one that captured the refresh flag as  *)
(* it is paints the rows, and any touch that renders paints the mark.       *)
(***************************************************************************)
EXTENDS MCSendProposal, FiniteSetTheorems, TLAPS

\* The fields of the state that the fee depends on.
FeeTypes ==
    /\ taps \in Nat
    /\ \A m \in net : m.n \in Nat
    /\ "late" \in DOMAIN hist

\* The proposal to edit is asked for once, and until it has arrived only touches
\* have asked for fees.
Numbers ==
    /\ \A m, o \in Pending("load") : m = o
    /\ \A m \in Pending("fee") : m.n <= 2 * taps + 1
    /\ Pending("load") # {} => \A m \in Pending("fee") : m.n <= 2 * taps

LastIsOfRate ==
    ~hist.late =>
        /\ Pending("fee") = {} => amounts = rate
        /\ \A m \in Pending("fee") : Newest(m) => m.proposal.rate = rate

Inv == FeeTypes /\ Numbers /\ LastIsOfRate

LEMMA FeeFacts ==
    \A n, r : /\ Fee(n, r).n = n /\ Fee(n, r).kind = "fee" /\ Fee(n, r).proposal.rate = r
BY DEF Fee, Req, Blank

LEMMA Transitive == \A a, b, c \in Nat : a <= b /\ b <= c => a <= c
OBVIOUS

LEMMA Doubles == \A t \in Nat : 2 * t \in Nat /\ 2 * t + 1 \in Nat
OBVIOUS

LEMMA ReqFacts == \A n, k, p : Req(n, k, p).n = n /\ Req(n, k, p).kind = k
BY DEF Req

LEMMA InitInv == Init => Inv
<1> SUFFICES ASSUME Init PROVE Inv
  OBVIOUS
<1> DEFINE f == Fee(1, 0)
           l == Req(1, "load", Blank)
<1>1. f.n = 1 /\ f.kind = "fee" /\ f.proposal.rate = 0 /\ l.n = 1 /\ l.kind = "load"
  BY FeeFacts, ReqFacts
<1>2. net = {f} \union (IF edit THEN {l} ELSE {}) /\ rate = 0 /\ amounts = 0 /\ taps = 1
  BY DEF Init
<1> HIDE DEF f, l
<1>3. FeeTypes
  <2>1. "late" \in DOMAIN hist
    BY DEF Init
  <2> QED  BY <1>1, <1>2, <2>1 DEF FeeTypes
<1>4. Pending("fee") = {f} /\ Pending("load") \subseteq {l}
  BY <1>1, <1>2 DEF Pending
<1>5. Numbers
  BY <1>1, <1>2, <1>4 DEF Numbers
<1>6. LastIsOfRate
  BY <1>1, <1>2, <1>4 DEF LastIsOfRate
<1> QED  BY <1>3, <1>5, <1>6 DEF Inv

\* A step that sends and answers no look-up of the fee, and asks for no proposal.
LEMMA Elsewhere ==
    ASSUME Inv, taps' \in Nat, taps' >= taps, UNCHANGED <<rate, amounts>>,
           hist'.late = hist.late, "late" \in DOMAIN hist', Pending("fee")' = Pending("fee"),
           \A m, o \in Pending("load")' : m = o, Pending("load") = {} => Pending("load")' = {},
           \A m \in net' : m.n \in Nat
    PROVE  Inv'
<1>1. taps \in Nat /\ \A m \in Pending("fee") : m.n \in Nat
  BY DEF Inv, FeeTypes, Pending
<1>2. FeeTypes'
  BY DEF Inv, FeeTypes
<1>3. Numbers'
  BY <1>1 DEF Inv, Numbers
<1>4. LastIsOfRate'
  BY DEF Inv, LastIsOfRate, Newest
<1> QED  BY <1>2, <1>3, <1>4 DEF Inv

\* A look-up of the rate that is now in the form, newer than all others.
LEMMA Asked ==
    ASSUME Inv, NEW n \in Nat, taps' \in Nat, taps' >= taps,
           "late" \in DOMAIN hist', NEW rest, rest \subseteq net, net' = rest \union {Fee(n, rate')},
           \A m \in Pending("fee") : m.n < n, n <= 2 * taps' + 1,
           Pending("load")' # {} => n <= 2 * taps'
    PROVE  Inv'
<1> DEFINE f == Fee(n, rate')
<1>1. f.n = n /\ f.kind = "fee" /\ f.proposal.rate = rate'
  BY FeeFacts
<1> HIDE DEF f
<1>2. net' = rest \union {f}
  BY DEF f
<1>3. \A m \in net : m.n \in Nat
  BY DEF Inv, FeeTypes
<1>4. FeeTypes'
  BY <1>1, <1>2, <1>3 DEF FeeTypes
<1>5. f \in Pending("fee")' /\ Pending("fee")' \subseteq Pending("fee") \union {f}
      /\ Pending("load")' \subseteq Pending("load")
  BY <1>1, <1>2 DEF Pending
<1>6. taps \in Nat /\ \A m \in Pending("fee") : m.n \in Nat /\ m.n < n
  BY <1>3 DEF Inv, FeeTypes, Pending
<1>7. Numbers'
  <2>1. \A m \in Pending("fee")' : m.n <= n
    BY <1>1, <1>5, <1>6
  <2>2. \A m \in Pending("fee")' : m.n \in Nat
    BY <1>1, <1>5, <1>6
  <2>3. 2 * taps' + 1 \in Nat /\ 2 * taps' \in Nat
    BY Doubles
  <2>4. \A m \in Pending("fee")' : m.n <= 2 * taps' + 1
    BY <2>1, <2>2, <2>3, Transitive
  <2>5. Pending("load")' # {} => \A m \in Pending("fee")' : m.n <= 2 * taps'
    BY <2>1, <2>2, <2>3, Transitive
  <2> QED  BY <1>5, <2>4, <2>5 DEF Inv, Numbers
<1>8. \A m \in Pending("fee")' : Newest(m)' => m = f
  <2>1. \A m \in Pending("fee") : ~(f.n <= m.n)
    BY <1>1, <1>6
  <2> QED  BY <1>5, <2>1 DEF Newest
<1>9. LastIsOfRate'
  BY <1>1, <1>5, <1>8 DEF LastIsOfRate
<1> QED  BY <1>4, <1>7, <1>9 DEF Inv

-----------------------------------------------------------------------------
(* The actions                                                             *)

LEMMA TapFacts ==
    ASSUME Inv, Tapped
    PROVE  taps' \in Nat /\ taps' = taps + 1 /\ taps' >= taps
BY DEF Inv, FeeTypes, Tapped

\* Mean, and a sheet that is opened, leave what was late.
LEMMA HistFacts ==
    ASSUME Inv
    PROVE  /\ \A v : LET h == [hist EXCEPT !.why = v]
                   IN  h.late = hist.late /\ "late" \in DOMAIN h
           /\ \A v : LET h == [hist EXCEPT !.row = v]
                   IN  h.late = hist.late /\ "late" \in DOMAIN h
           /\ \A v : LET h == [hist EXCEPT !.typed = TRUE, !.why = v]
                   IN  h.late = hist.late /\ "late" \in DOMAIN h
           /\ \A v : LET h == [hist EXCEPT !.loaded = TRUE, !.why = v]
                   IN  h.late = hist.late /\ "late" \in DOMAIN h
BY DEF Inv, FeeTypes

LEMMA MeanFacts ==
    ASSUME Inv, NEW p, Mean(p)
    PROVE  hist'.late = hist.late /\ "late" \in DOMAIN hist'
BY HistFacts DEF Mean

LEMMA TypeRateInv == ASSUME Inv, NEW r \in Rates, TypeRate(r) PROVE Inv'
<1>1. rate' = r /\ r # rate
  BY DEF TypeRate
<1>2. net' = net \union {Fee(2 * taps', rate')}
  BY <1>1 DEF TypeRate, FeeAsked
<1>3. taps' \in Nat /\ taps' = taps + 1 /\ "late" \in DOMAIN hist' /\ taps \in Nat
  BY TapFacts, MeanFacts DEF TypeRate, Inv, FeeTypes
<1>4. \A m \in Pending("fee") : m.n < 2 * taps'
  BY <1>3 DEF Inv, FeeTypes, Numbers, Pending
<1> QED  BY <1>1, <1>2, <1>3, <1>4, Asked

\* What the seller does besides writing the rate and submitting.
LEMMA SameNet ==
    ASSUME Inv, Tapped, UNCHANGED <<rate, amounts, net>>,
           hist'.late = hist.late, "late" \in DOMAIN hist'
    PROVE  Inv'
<1>1. Pending("fee")' = Pending("fee") /\ Pending("load")' = Pending("load")
  BY DEF Pending
<1> QED  BY <1>1, TapFacts, Elsewhere DEF Inv, FeeTypes, Numbers

LEMMA FormInv ==
    ASSUME Inv,
           \/ \E p \in {"fixed", "milestone"} : SetPaymentMethod(p)
           \/ CreateMilestones \/ CloseSheet \/ AddMilestoneData
           \/ \E i \in DOMAIN milestonesArray : EditMilestone(i) \/ DeleteMilestone(i)
    PROVE  Inv'
<1> USE DEF form, fees
<1>1. ASSUME NEW p, SetPaymentMethod(p) PROVE Inv'
  BY <1>1, MeanFacts, SameNet DEF SetPaymentMethod
<1>2. CASE CreateMilestones
  BY <1>2, HistFacts, SameNet DEF CreateMilestones
<1>3. CASE CloseSheet
  BY <1>3, SameNet DEF CloseSheet, Inv, FeeTypes
<1>4. CASE AddMilestoneData
  BY <1>4, MeanFacts, SameNet DEF AddMilestoneData
<1>5. ASSUME NEW i, EditMilestone(i) PROVE Inv'
  BY <1>5, HistFacts, SameNet DEF EditMilestone
<1>6. ASSUME NEW i, DeleteMilestone(i) PROVE Inv'
  BY <1>6, MeanFacts, SameNet DEF DeleteMilestone
<1> QED  BY <1>1, <1>2, <1>3, <1>4, <1>5, <1>6

LEMMA SubmitInv == ASSUME Inv, SubmitProposal PROVE Inv'
<1>1. PICK p : net' = net \union {Req(taps, "submit", p)}
  BY DEF SubmitProposal
<1>2. Req(taps, "submit", p).n = taps /\ Req(taps, "submit", p).kind = "submit"
  BY ReqFacts
<1>3. Pending("fee")' = Pending("fee") /\ Pending("load")' = Pending("load")
  BY <1>1, <1>2 DEF Pending
<1>4. Tapped /\ UNCHANGED <<rate, amounts>>
      /\ hist'.late = hist.late /\ "late" \in DOMAIN hist'
  BY HistFacts DEF SubmitProposal, form, fees
<1>5. \A m \in net' : m.n \in Nat
  BY <1>1, <1>2 DEF Inv, FeeTypes
<1> QED  BY <1>3, <1>4, <1>5, TapFacts, Elsewhere DEF Inv, Numbers

LEMMA ServeInv == ASSUME Inv, NEW m \in net, Serve(m) PROVE Inv'
<1>1. m.kind # "fee" /\ UNCHANGED <<rate, amounts, taps, hist>>
  BY DEF Serve, form, fees
<1>2. PICK s, p : net' = (net \ {m}) \union {[m EXCEPT !.stage = s, !.proposal = p]}
  BY DEF Serve, Reply
<1> DEFINE o == [m EXCEPT !.stage = s, !.proposal = p]
<1>3. \A x \in net : x.n \in Nat
  BY DEF Inv, FeeTypes
<1>4. o.n = m.n /\ o.kind = m.kind
  OBVIOUS
<1> HIDE DEF o
<1>5. net' = (net \ {m}) \union {o}
  BY <1>2 DEF o
<1>6. Pending("fee")' = Pending("fee")
  BY <1>1, <1>4, <1>5 DEF Pending
<1>7. (m.kind = "load" => m \in Pending("load"))
      /\ Pending("load")' \subseteq (Pending("load") \ {m}) \union
                                   (IF m.kind = "load" THEN {o} ELSE {})
  BY <1>4, <1>5 DEF Pending
<1>8. (\A x, y \in Pending("load")' : x = y)
      /\ (Pending("load") = {} => Pending("load")' = {})
  BY <1>7 DEF Inv, Numbers
<1>9. \A x \in net' : x.n \in Nat
  BY <1>3, <1>4, <1>5
<1>10. taps' \in Nat /\ taps' >= taps /\ "late" \in DOMAIN hist' /\ hist'.late = hist.late
  BY <1>1 DEF Inv, FeeTypes
<1> QED  BY <1>1, <1>6, <1>8, <1>9, <1>10, Elsewhere

\* An answer of the fee: unless it is the last one sent, and alone, either it does
\* not matter or the amounts are late.
LEMMA FeeInv == ASSUME Inv, NEW m \in net, NEW ok \in BOOLEAN, DeliverFee(m, ok) PROVE Inv'
<1>1. m.kind = "fee" /\ net' = net \ {m} /\ rate' = rate /\ taps' = taps
      /\ amounts' = (IF ok THEN m.proposal.rate ELSE amounts)
      /\ hist' = [hist EXCEPT !.late = @ \/ (Newest(m) /\ ~(ok /\ Alone(m)))]
  BY DEF DeliverFee, form
<1>2. "late" \in DOMAIN hist /\ \A x \in net : x.n \in Nat
  BY DEF Inv, FeeTypes
<1>3. "late" \in DOMAIN hist'
      /\ (~hist'.late => ~hist.late /\ (Newest(m) => ok /\ Alone(m)))
  BY <1>1, <1>2
<1>4. Pending("fee")' = Pending("fee") \ {m} /\ Pending("load")' = Pending("load")
      /\ m \in Pending("fee")
  BY <1>1 DEF Pending
<1>5. FeeTypes'
  BY <1>1, <1>3 DEF Inv, FeeTypes
<1>6. Numbers'
  BY <1>1, <1>4 DEF Inv, Numbers
<1>7. ASSUME ~hist'.late, Pending("fee")' = {} PROVE amounts' = rate
  <2>1. Pending("fee") = {m} /\ m.n <= m.n
    BY <1>2, <1>4, <1>7
  <2>2. Newest(m)
    BY <2>1 DEF Newest
  <2> QED  BY <1>1, <1>3, <1>4, <1>7, <2>2 DEF Inv, LastIsOfRate
<1>8. ASSUME ~hist'.late, NEW x \in Pending("fee")', Newest(x)'
      PROVE  x.proposal.rate = rate
  <2>1. ~Newest(m)
    BY <1>3, <1>4, <1>8 DEF Alone
  <2>2. PICK o \in Pending("fee") : ~(o.n <= m.n)
    BY <2>1 DEF Newest
  <2>3. o.n \in Nat /\ m.n \in Nat /\ x.n \in Nat /\ o \in Pending("fee")'
        /\ x \in Pending("fee")
    BY <1>2, <1>4, <2>2 DEF Pending
  <2>4. o.n <= x.n
    BY <1>8, <2>3 DEF Newest
  <2>5. m.n <= x.n
    BY <2>2, <2>3, <2>4
  <2>6. Newest(x)
    BY <1>4, <1>8, <2>5 DEF Newest
  <2> QED  BY <1>3, <1>8, <2>3, <2>6 DEF Inv, LastIsOfRate
<1>9. LastIsOfRate'
  BY <1>1, <1>7, <1>8 DEF LastIsOfRate
<1> QED  BY <1>5, <1>6, <1>9 DEF Inv

\* getProposalData's answer: the rate changes under the look-ups sent so far.
LEMMA ProposalInv == ASSUME Inv, NEW m \in net, DeliverProposal(m) PROVE Inv'
<1>1. m.kind = "load" /\ rate' = m.proposal.rate /\ amounts' = m.proposal.rate
      /\ taps' = taps /\ taps \in Nat
  BY DEF DeliverProposal, Inv, FeeTypes
<1>2. hist'.late = hist.late /\ "late" \in DOMAIN hist'
  BY HistFacts DEF DeliverProposal
<1>3. Pending("load") = {m} /\ \A x \in Pending("fee") : x.n \in Nat /\ x.n <= 2 * taps
  BY <1>1 DEF Inv, FeeTypes, Numbers, Pending
<1>4. CASE rate' = rate
  <2>1. net' = net \ {m}
    BY <1>4 DEF DeliverProposal
  <2>2. Pending("fee")' = Pending("fee") /\ Pending("load")' \subseteq Pending("load")
    BY <1>1, <2>1 DEF Pending
  <2>3. FeeTypes' /\ Numbers'
    BY <1>1, <1>2, <2>1, <2>2 DEF Inv, FeeTypes, Numbers
  <2>4. LastIsOfRate'
    BY <1>1, <1>2, <1>4, <2>2 DEF Inv, LastIsOfRate, Newest
  <2> QED  BY <2>3, <2>4 DEF Inv
<1>5. CASE rate' # rate
  <2>1. net' = (net \ {m}) \union {Fee(2 * taps + 1, rate')}
    BY <1>5 DEF DeliverProposal
  <2>2. Fee(2 * taps + 1, rate').kind = "fee"
    BY FeeFacts
  <2>3. Pending("load")' = {}
    BY <1>1, <1>3, <2>1, <2>2 DEF Pending
  <2>4. 2 * taps + 1 \in Nat /\ 2 * taps + 1 <= 2 * taps' + 1 /\ taps' >= taps
        /\ \A x \in Pending("fee") : x.n < 2 * taps + 1
    BY <1>1, <1>3
  <2> QED  BY <1>1, <1>2, <2>1, <2>3, <2>4, Asked
<1> QED  BY <1>4, <1>5

LEMMA RestInv ==
    ASSUME Inv, NEW m \in net, DeliverSubmit(m) \/ Fail(m)
    PROVE  Inv'
<1>1. m.kind # "fee" /\ net' = net \ {m} /\ UNCHANGED <<rate, amounts, taps, hist>>
  BY DEF DeliverSubmit, Fail, form, fees
<1>2. Pending("fee")' = Pending("fee") /\ Pending("load")' \subseteq Pending("load")
  BY <1>1 DEF Pending
<1>3. taps' \in Nat /\ taps' >= taps /\ "late" \in DOMAIN hist' /\ hist'.late = hist.late
      /\ \A x \in net' : x.n \in Nat
  BY <1>1 DEF Inv, FeeTypes
<1> QED  BY <1>1, <1>2, <1>3, Elsewhere DEF Inv, Numbers

LEMMA StepInv == Inv /\ [Next]_vars => Inv'
<1> SUFFICES ASSUME Inv, [Next]_vars PROVE Inv'
  OBVIOUS
<1>1. CASE UNCHANGED vars
  BY <1>1 DEF vars, form, fees, Inv, FeeTypes, Numbers, LastIsOfRate, Pending, Newest
<1>2. CASE SubmitProposal
  BY <1>2, SubmitInv
<1>3. ASSUME NEW r \in Rates, TypeRate(r) PROVE Inv'
  BY <1>3, TypeRateInv
<1>4. ASSUME NEW m \in net, Serve(m) \/ DeliverProposal(m) \/ DeliverSubmit(m) \/ Fail(m)
      PROVE  Inv'
  BY <1>4, ServeInv, ProposalInv, RestInv
<1>5. ASSUME NEW m \in net, NEW ok \in BOOLEAN, DeliverFee(m, ok) PROVE Inv'
  BY <1>5, FeeInv
<1> QED  BY <1>1, <1>2, <1>3, <1>4, <1>5, FormInv DEF Next

-----------------------------------------------------------------------------
\* The amounts a seller reads below the rate (getAdminShare, asked for at every
\* change of the rate and answered in any order) are of that rate, with the
\* exceptions named.
THEOREM FeeOfRate == Spec => []AmountsOfRate
<1>1. Inv => AmountsOfRate
  BY DEF Inv, LastIsOfRate, AmountsOfRate
<1> QED  BY <1>1, InitInv, StepInv, PTL DEF Spec

-----------------------------------------------------------------------------
(* Sequences of milestones                                                 *)

LEMMA ElementsFacts ==
    ASSUME NEW S, NEW s \in Seq(S)
    PROVE  Elements(s) \in SUBSET S /\ IsFiniteSet(Elements(s))
<1>1. Len(s) \in Nat /\ DOMAIN s = 1 .. Len(s) /\ \A i \in 1 .. Len(s) : s[i] \in S
  OBVIOUS
<1>2. s \in [1 .. Len(s) -> Elements(s)]
  BY <1>1 DEF Elements
<1>3. s \in Surjection(1 .. Len(s), Elements(s))
  BY <1>1, <1>2 DEF Surjection, Elements
<1>4. IsFiniteSet(1 .. Len(s))
  BY <1>1, FS_Interval
<1>5. IsFiniteSet(Elements(s))
  BY <1>3, <1>4, FS_Surjection
<1> QED
  BY <1>1, <1>5 DEF Elements

\* The sequence of a finite set has each of its elements once.
LEMMA SetToSeqFacts ==
    ASSUME NEW S, IsFiniteSet(S)
    PROVE  /\ SetToSeq(S) \in Seq(S)
           /\ IsInjective(SetToSeq(S))
           /\ Elements(SetToSeq(S)) = S
<1> DEFINE n == Cardinality(S)
<1>1. n \in Nat /\ \E f : f \in Bijection(1 .. n, S)
  BY FS_CardinalityType DEF ExistsBijection
<1>2. \E f \in [1 .. n -> S] : IsInjective(f)
  BY <1>1 DEF Bijection, Injection
<1>3. SetToSeq(S) \in [1 .. n -> S] /\ IsInjective(SetToSeq(S))
  BY <1>2 DEF SetToSeq
<1> DEFINE q == SetToSeq(S)
<1>4. q \in Injection(1 .. n, S)
  BY <1>3 DEF Injection
<1>5. IsFiniteSet(1 .. n) /\ Cardinality(1 .. n) = n
  <2>1. n \in Int /\ 1 \in Int
    BY <1>1
  <2>2. IsFiniteSet(1 .. n) /\ Cardinality(1 .. n) = IF 1 > n THEN 0 ELSE n - 1 + 1
    BY <2>1, FS_Interval
  <2> QED
    BY <1>1, <2>2
<1>6. q \in Surjection(1 .. n, S)
  BY <1>4, <1>5, FS_Injection
<1> HIDE DEF q, n
<1>7. q \in Seq(S) /\ DOMAIN q = 1 .. n
  BY <1>1, <1>3 DEF q
<1>8. Elements(q) = S
  BY <1>6, <1>7 DEF Surjection, Elements
<1> QED
  BY <1>3, <1>7, <1>8 DEF q

LEMMA AppendFacts ==
    ASSUME NEW S, NEW s \in Seq(S), NEW x \in S
    PROVE  /\ Append(s, x) \in Seq(S)
           /\ Elements(Append(s, x)) = Elements(s) \union {x}
           /\ IsInjective(s) /\ x \notin Elements(s) => IsInjective(Append(s, x))
<1>1. Len(s) \in Nat /\ DOMAIN s = 1 .. Len(s)
  OBVIOUS
<1>2. /\ Append(s, x) \in Seq(S) /\ DOMAIN Append(s, x) = 1 .. (Len(s) + 1)
      /\ \A i \in 1 .. Len(s) : Append(s, x)[i] = s[i]
      /\ Append(s, x)[Len(s) + 1] = x
  OBVIOUS
<1>3. \A i : i \in 1 .. (Len(s) + 1) <=> i \in 1 .. Len(s) \/ i = Len(s) + 1
  BY <1>1
<1>4. Elements(Append(s, x)) = Elements(s) \union {x}
  BY <1>1, <1>2, <1>3 DEF Elements
<1>5. ASSUME IsInjective(s), x \notin Elements(s) PROVE IsInjective(Append(s, x))
  <2>1. \A i \in 1 .. Len(s) : s[i] # x
    BY <1>1, <1>5 DEF Elements
  <2> QED
    BY <1>1, <1>2, <1>3, <1>5, <2>1 DEF IsInjective
<1> QED
  BY <1>2, <1>4, <1>5

LEMMA ChangeFacts ==
    ASSUME NEW S, NEW s \in Seq(S), NEW i \in DOMAIN s, NEW x \in S,
           NEW t, t = [s EXCEPT ![i] = x]
    PROVE  /\ t \in Seq(S)
           /\ IsInjective(s) => Elements(t) = (Elements(s) \ {s[i]}) \union {x}
           /\ IsInjective(s) /\ x \notin Elements(s) => IsInjective(t)
<1>1. t \in Seq(S)
  OBVIOUS
<1>2. DOMAIN t = DOMAIN s /\ t[i] = x /\ \A k \in DOMAIN s : k # i => t[k] = s[k]
  OBVIOUS
<1>3. IsInjective(s) => Elements(t) = (Elements(s) \ {s[i]}) \union {x}
  BY <1>2 DEF Elements, IsInjective
<1>4. IsInjective(s) /\ x \notin Elements(s) => IsInjective(t)
  BY <1>2 DEF Elements, IsInjective
<1> QED
  BY <1>1, <1>3, <1>4

LEMMA RemoveAtFacts ==
    ASSUME NEW S, NEW s \in Seq(S), NEW i \in DOMAIN s
    PROVE  /\ RemoveAt(s, i) \in Seq(S)
           /\ IsInjective(s) => /\ Elements(RemoveAt(s, i)) = Elements(s) \ {s[i]}
                                /\ IsInjective(RemoveAt(s, i))
<1>1. Len(s) \in Nat /\ i \in Nat /\ i >= 1 /\ i <= Len(s) /\ DOMAIN s = 1 .. Len(s)
  OBVIOUS
<1> DEFINE a == SubSeq(s, 1, i - 1)
           b == SubSeq(s, i + 1, Len(s))
           r == a \o b
<1>2. /\ a \in Seq(S) /\ Len(a) = i - 1 /\ \A k \in 1 .. (i - 1) : a[k] = s[k]
      /\ b \in Seq(S) /\ Len(b) = Len(s) - i
      /\ \A k \in 1 .. (Len(s) - i) : b[k] = s[k + i]
  BY <1>1, SMTT(30)
<1>3. RemoveAt(s, i) = r
  BY DEF RemoveAt
<1> HIDE DEF a, b
<1>4. r \in Seq(S) /\ DOMAIN r = 1 .. (Len(s) - 1)
  <2>1. a \in Seq(S) /\ b \in Seq(S)
    BY <1>2
  <2>2. Len(r) = Len(a) + Len(b) /\ r \in Seq(S)
    BY <2>1
  <2>3. DOMAIN r = 1 .. Len(r)
    BY <2>2
  <2> QED
    BY <1>1, <1>2, <2>2, <2>3
<1>5. ASSUME NEW k \in 1 .. (Len(s) - 1)
      PROVE  r[k] = IF k < i THEN s[k] ELSE s[k + 1]
  <2>1. CASE k < i
    BY <1>1, <1>2, <2>1
  <2>2. CASE ~(k < i)
    <3>1. r[k] = b[k - (i - 1)] /\ k - (i - 1) \in 1 .. (Len(s) - i)
      BY <1>1, <1>2, <2>2
    <3>2. (k - (i - 1)) + i = k + 1
      BY <1>1
    <3> QED
      BY <1>2, <2>2, <3>1, <3>2
  <2> QED
    BY <2>1, <2>2
<1> HIDE DEF r
\* Each place of the rest is another place of the sequence, and every one but i.
<1> DEFINE at(k) == IF k < i THEN k ELSE k + 1
<1>6. /\ \A k \in 1 .. (Len(s) - 1) : at(k) \in 1 .. Len(s) /\ at(k) # i /\ r[k] = s[at(k)]
      /\ \A j, k \in 1 .. (Len(s) - 1) : at(j) = at(k) => j = k
  BY <1>1, <1>5
<1>7. \A j \in 1 .. Len(s) : j # i => \E k \in 1 .. (Len(s) - 1) : at(k) = j
  <2> SUFFICES ASSUME NEW j \in 1 .. Len(s), j # i
               PROVE  \E k \in 1 .. (Len(s) - 1) : at(k) = j
    OBVIOUS
  <2>1. CASE j < i
    BY <1>1, <2>1
  <2>2. CASE ~(j < i)
    <3>1. j - 1 \in 1 .. (Len(s) - 1) /\ at(j - 1) = j
      BY <1>1, <2>2
    <3> QED
      BY <3>1
  <2> QED
    BY <2>1, <2>2
<1> HIDE DEF at
<1>8. ASSUME IsInjective(s) PROVE Elements(r) = Elements(s) \ {s[i]} /\ IsInjective(r)
  <2>1. IsInjective(r)
    BY <1>1, <1>4, <1>6, <1>8 DEF IsInjective
  <2>2. ASSUME NEW x \in Elements(r) PROVE x \in Elements(s) \ {s[i]}
    <3>1. PICK k \in 1 .. (Len(s) - 1) : x = r[k]
      BY <1>4 DEF Elements
    <3> QED
      BY <1>1, <1>6, <1>8, <3>1 DEF Elements, IsInjective
  <2>3. ASSUME NEW x \in Elements(s) \ {s[i]} PROVE x \in Elements(r)
    <3>1. PICK j \in 1 .. Len(s) : x = s[j]
      BY <1>1 DEF Elements
    <3>2. PICK k \in 1 .. (Len(s) - 1) : at(k) = j
      BY <1>7, <3>1
    <3> QED
      BY <1>4, <1>6, <3>1, <3>2 DEF Elements
  <2> QED
    BY <2>1, <2>2, <2>3
<1> QED
  BY <1>3, <1>4, <1>8

-----------------------------------------------------------------------------
(* Types                                                                   *)

Finite ==
    /\ IsFiniteSet(server.milestones)
    /\ \A m \in net : IsFiniteSet(m.proposal.milestones)

Typed == TypeOK /\ Finite

History == [why : SUBSET Reasons, late : BOOLEAN, typed : BOOLEAN,
            loaded : BOOLEAN, row : Nat]

FiniteProposal(p) == p \in Proposal /\ IsFiniteSet(p.milestones)

LEMMA RateFacts == 0 \in Rates /\ 1 \in Rates /\ Rates \subseteq Nat
BY ConstantsAssumption DEF Rates

LEMMA BlankFacts ==
    FiniteProposal(Blank) /\ \A r \in Rates : FiniteProposal([Blank EXCEPT !.rate = r])
BY RateFacts, FS_EmptySet DEF FiniteProposal, Blank, Proposal

LEMMA ReqType ==
    ASSUME NEW n \in Nat, NEW k \in {"fee", "load", "submit"}, NEW p, FiniteProposal(p)
    PROVE  /\ Req(n, k, p) \in Request /\ IsFiniteSet(Req(n, k, p).proposal.milestones)
           /\ Req(n, k, p).kind = k /\ Req(n, k, p).proposal = p
           /\ Req(n, k, p).stage = "sent" /\ Req(n, k, p).n = n
BY DEF Req, Request, FiniteProposal

LEMMA FeeType ==
    ASSUME NEW n \in Nat, NEW r \in Rates
    PROVE  Fee(n, r) \in Request /\ IsFiniteSet(Fee(n, r).proposal.milestones)
<1>1. FiniteProposal([Blank EXCEPT !.rate = r])
  BY BlankFacts
<1> QED
  BY <1>1, ReqType DEF Fee

LEMMA InitTyped == Init => Typed
<1> SUFFICES ASSUME Init PROVE Typed
  OBVIOUS
<1>1. FiniteProposal(server)
  <2>1. server \in {Blank, [rate |-> 1, method |-> "fixed", milestones |-> {}],
                    [rate |-> 1, method |-> "milestone", milestones |-> {0}]}
    BY DEF Init
  <2>2. IsFiniteSet({}) /\ IsFiniteSet({0})
    BY FS_EmptySet, FS_Singleton
  <2> QED
    BY <2>1, <2>2, BlankFacts, RateFacts DEF FiniteProposal, Proposal
<1>2. net \subseteq Request /\ \A m \in net : IsFiniteSet(m.proposal.milestones)
  <2>1. Fee(1, 0) \in Request /\ IsFiniteSet(Fee(1, 0).proposal.milestones)
    BY FeeType, RateFacts
  <2>2. /\ Req(1, "load", Blank) \in Request
        /\ IsFiniteSet(Req(1, "load", Blank).proposal.milestones)
    BY ReqType, BlankFacts
  <2> QED
    BY <2>1, <2>2 DEF Init
<1>3. hist \in History
  BY DEF Init, History
<1>4. milestonesArray \in Seq(Nat)
  BY DEF Init
<1>5. /\ edit \in BOOLEAN /\ page \in {"open", "done"} /\ rate \in Rates
      /\ method \in {"fixed", "milestone"} /\ open \in BOOLEAN /\ selectedMilestone \in Nat
      /\ amounts \in Rates /\ showLoading \in BOOLEAN /\ taps \in Nat /\ meant = server
  BY RateFacts DEF Init
<1> QED
  BY <1>1, <1>2, <1>3, <1>4, <1>5 DEF Typed, TypeOK, Finite, FiniteProposal, History

LEMMA MeanType ==
    ASSUME Typed, NEW p \in Proposal, Mean(p)
    PROVE  meant' \in Proposal /\ hist' \in History
BY DEF Typed, TypeOK, Mean, History, Reasons

LEMMA HistoryType ==
    ASSUME Typed
    PROVE  /\ hist \in History
           /\ \A i \in Nat : [hist EXCEPT !.row = i] \in History
BY DEF Typed, TypeOK, History

\* What the seller does to the form and the sheet.
LEMMA FormTyped ==
    ASSUME Typed, Tapped, UNCHANGED <<edit, server, page, amounts, showLoading, net>>,
           rate' \in Rates, method' \in {"fixed", "milestone"}, milestonesArray' \in Seq(Nat),
           open' \in BOOLEAN, selectedMilestone' \in Nat, meant' \in Proposal,
           hist' \in History
    PROVE  Typed'
<1>1. taps' \in Nat
  BY DEF Typed, TypeOK, Tapped
<1> QED
  BY <1>1 DEF Typed, TypeOK, Finite, History

LEMMA SellerTyped ==
    ASSUME Typed,
           \/ \E p \in {"fixed", "milestone"} : SetPaymentMethod(p)
           \/ CreateMilestones \/ CloseSheet \/ AddMilestoneData
           \/ \E i \in DOMAIN milestonesArray : EditMilestone(i) \/ DeleteMilestone(i)
    PROVE  Typed'
<1> USE DEF form, sheet, fees
<1>1. /\ rate \in Rates /\ method \in {"fixed", "milestone"} /\ open \in BOOLEAN
      /\ milestonesArray \in Seq(Nat) /\ selectedMilestone \in Nat /\ meant \in Proposal
      /\ taps \in Nat
  BY DEF Typed, TypeOK
<1>2. ASSUME NEW p \in {"fixed", "milestone"}, SetPaymentMethod(p) PROVE Typed'
  <2>1. [meant EXCEPT !.method = p] \in Proposal
    BY <1>1 DEF Proposal
  <2>2. meant' \in Proposal /\ hist' \in History
    BY <1>2, <2>1, MeanType DEF SetPaymentMethod
  <2> QED
    BY <1>1, <1>2, <2>2, FormTyped DEF SetPaymentMethod
<1>3. CASE CreateMilestones
  <2>1. hist' \in History /\ selectedMilestone' \in Nat
    BY <1>3, HistoryType DEF CreateMilestones, SelectedByCreate
  <2> QED
    BY <1>1, <1>3, <2>1, FormTyped DEF CreateMilestones
<1>4. CASE CloseSheet
  BY <1>1, <1>4, HistoryType, FormTyped DEF CloseSheet
<1>5. CASE AddMilestoneData
  <2> DEFINE old == IF hist.row \in DOMAIN milestonesArray
                    THEN {milestonesArray[hist.row]} ELSE {}
  <2>1. [meant EXCEPT !.milestones = (@ \ old) \union {taps}] \in Proposal
    BY <1>1 DEF Proposal
  <2>2. meant' \in Proposal /\ hist' \in History
    BY <1>5, <2>1, MeanType DEF AddMilestoneData
  <2>3. milestonesArray' \in Seq(Nat)
    BY <1>1, <1>5, AppendFacts, ChangeFacts DEF AddMilestoneData
  <2> QED
    BY <1>1, <1>5, <2>2, <2>3, FormTyped DEF AddMilestoneData
<1>6. ASSUME NEW i \in DOMAIN milestonesArray, EditMilestone(i) PROVE Typed'
  <2>1. i \in Nat
    BY <1>1
  <2>2. hist' \in History /\ selectedMilestone' \in Nat
    BY <1>6, <2>1, HistoryType DEF EditMilestone
  <2> QED
    BY <1>1, <1>6, <2>2, FormTyped DEF EditMilestone
<1>7. ASSUME NEW i \in DOMAIN milestonesArray, DeleteMilestone(i) PROVE Typed'
  <2>1. [meant EXCEPT !.milestones = @ \ {milestonesArray[i]}] \in Proposal
    BY <1>1 DEF Proposal
  <2>2. meant' \in Proposal /\ hist' \in History
    BY <1>7, <2>1, MeanType DEF DeleteMilestone
  <2>3. milestonesArray' \in Seq(Nat)
    BY <1>1, <1>7, RemoveAtFacts DEF DeleteMilestone
  <2> QED
    BY <1>1, <1>7, <2>2, <2>3, FormTyped DEF DeleteMilestone
<1> QED
  BY <1>2, <1>3, <1>4, <1>5, <1>6, <1>7

LEMMA TypeRateTyped == ASSUME Typed, NEW r \in Rates, TypeRate(r) PROVE Typed'
<1>1. /\ net' = net \union {Fee(2 * taps', r)} /\ showLoading' = TRUE
      /\ rate' = r /\ taps' = taps + 1 /\ taps \in Nat
      /\ UNCHANGED <<edit, server, page, method, milestonesArray, sheet, amounts>>
  BY DEF TypeRate, FeeAsked, Tapped, Typed, TypeOK
<1>2. 2 * taps' \in Nat
  BY <1>1
<1>3. Fee(2 * taps', r) \in Request /\ IsFiniteSet(Fee(2 * taps', r).proposal.milestones)
  BY <1>2, FeeType
<1>4. [meant EXCEPT !.rate = r] \in Proposal
  BY DEF Typed, TypeOK, Proposal
<1>5. meant' \in Proposal /\ hist' \in History
  BY <1>4, MeanType DEF TypeRate
<1>6. net' \subseteq Request /\ \A m \in net' : IsFiniteSet(m.proposal.milestones)
  BY <1>1, <1>3 DEF Typed, TypeOK, Finite
<1> QED
  BY <1>1, <1>5, <1>6 DEF Typed, TypeOK, Finite, History, sheet

\* The proposal that the form holds.
Filled == [rate |-> rate, method |-> method,
           milestones |-> IF method = "milestone" THEN Elements(milestonesArray) ELSE {}]

LEMMA FilledType == ASSUME Typed PROVE FiniteProposal(Filled)
<1>1. milestonesArray \in Seq(Nat)
  BY DEF Typed, TypeOK
<1>2. Elements(milestonesArray) \in SUBSET Nat /\ IsFiniteSet(Elements(milestonesArray))
  BY <1>1, ElementsFacts
<1> QED
  BY <1>2, FS_EmptySet DEF FiniteProposal, Filled, Proposal, Typed, TypeOK

LEMMA SubmitTyped == ASSUME Typed, SubmitProposal PROVE Typed'
<1>1. /\ net' = net \union {Req(taps, "submit", Filled)} /\ taps' = taps + 1 /\ taps \in Nat
      /\ UNCHANGED <<edit, server, page, form, sheet, fees, meant>>
  BY DEF SubmitProposal, Filled, Tapped, Typed, TypeOK
<1>2. /\ Req(taps, "submit", Filled) \in Request
      /\ IsFiniteSet(Req(taps, "submit", Filled).proposal.milestones)
  BY <1>1, FilledType, ReqType
<1>3. hist' \in History
  BY DEF SubmitProposal, Typed, TypeOK, History, Reasons
<1>4. net' \subseteq Request /\ \A m \in net' : IsFiniteSet(m.proposal.milestones)
  BY <1>1, <1>2 DEF Typed, TypeOK, Finite
<1> QED
  BY <1>1, <1>3, <1>4 DEF Typed, TypeOK, Finite, History, form, sheet, fees

\* A reply changes the stage and the proposal of a request.
LEMMA ReplyFacts ==
    ASSUME Typed, NEW m \in net, NEW s \in {"ok", "error"}, NEW p, FiniteProposal(p),
           Reply(m, s, p)
    PROVE  \E o \in Request :
              /\ net' = (net \ {m}) \union {o}
              /\ o.kind = m.kind /\ o.stage = s /\ o.proposal = p
<1> DEFINE o == [m EXCEPT !.stage = s, !.proposal = p]
<1>1. m \in Request
  BY DEF Typed, TypeOK
<1>2. o \in Request /\ o.kind = m.kind /\ o.stage = s /\ o.proposal = p
  BY <1>1 DEF Request, FiniteProposal
<1>3. net' = (net \ {m}) \union {o}
  BY DEF Reply
<1> QED
  BY <1>2, <1>3

\* What the server does to a request for the proposal or for its replacement.
LEMMA ServeFacts ==
    ASSUME Typed, NEW m \in net, Serve(m)
    PROVE  /\ m.stage = "sent" /\ m.kind \in {"load", "submit"}
           /\ UNCHANGED <<edit, page, form, sheet, fees, taps, meant, hist>>
           /\ \E o \in Request :
                 /\ net' = (net \ {m}) \union {o} /\ o.kind = m.kind
                 /\ FiniteProposal(o.proposal)
                 /\ \/ m.kind = "load" /\ o.stage = "ok" /\ o.proposal = server
                       /\ server' = server
                    \/ m.kind = "submit" /\ o.stage = "ok" /\ o.proposal = m.proposal
                       /\ server' = m.proposal
                    \/ o.stage = "error" /\ o.proposal = m.proposal /\ server' = server
<1>1. m \in Request /\ FiniteProposal(m.proposal) /\ FiniteProposal(server)
  BY DEF Typed, TypeOK, Finite, Request, FiniteProposal
<1>2. m.stage = "sent" /\ m.kind \in {"load", "submit"}
      /\ UNCHANGED <<edit, page, form, sheet, fees, taps, meant, hist>>
  BY <1>1 DEF Serve, Request
<1>3. CASE m.kind = "load" /\ Reply(m, "ok", server) /\ UNCHANGED server
  BY <1>1, <1>2, <1>3, ReplyFacts
<1>4. CASE m.kind = "submit" /\ Reply(m, "ok", m.proposal) /\ server' = m.proposal
  BY <1>1, <1>2, <1>4, ReplyFacts
<1>5. CASE Reply(m, "error", m.proposal) /\ UNCHANGED server
  BY <1>1, <1>2, <1>5, ReplyFacts
<1> QED
  BY <1>3, <1>4, <1>5 DEF Serve

LEMMA ServeTyped == ASSUME Typed, NEW m \in net, Serve(m) PROVE Typed'
<1>1. UNCHANGED <<edit, page, form, sheet, fees, taps, meant, hist>>
  BY ServeFacts
<1>2. PICK o \in Request :
          /\ net' = (net \ {m}) \union {o} /\ FiniteProposal(o.proposal)
          /\ server' = server \/ server' = m.proposal
  BY ServeFacts
<1>3. FiniteProposal(server) /\ FiniteProposal(m.proposal)
  BY DEF Typed, TypeOK, Finite, Request, FiniteProposal
<1>4. FiniteProposal(server')
  BY <1>2, <1>3
<1>5. net' \subseteq Request /\ \A x \in net' : IsFiniteSet(x.proposal.milestones)
  BY <1>2 DEF Typed, TypeOK, Finite, FiniteProposal
<1> QED
  BY <1>1, <1>4, <1>5 DEF Typed, TypeOK, Finite, FiniteProposal, form, sheet, fees

\* The answers that only take a request out of the net.
LEMMA AnswerTyped ==
    ASSUME Typed, NEW m \in net,
           \/ \E ok \in BOOLEAN : DeliverFee(m, ok)
           \/ DeliverSubmit(m) \/ Fail(m)
    PROVE  Typed'
<1> USE DEF form, sheet, fees
<1>1. m \in Request /\ m.proposal.rate \in Rates
  BY DEF Typed, TypeOK, Request, Proposal
<1>2. ASSUME NEW ok \in BOOLEAN, DeliverFee(m, ok) PROVE Typed'
  <2>1. hist' = [hist EXCEPT !.late = @ \/ (Newest(m) /\ ~(ok /\ Alone(m)))]
    BY <1>2 DEF DeliverFee
  <2>2. hist'.late \in BOOLEAN /\ hist' = [hist EXCEPT !.late = hist'.late]
    BY <2>1 DEF Typed, TypeOK
  <2>3. hist' \in History
    BY <2>2, HistoryType DEF History
  <2> QED
    BY <1>1, <1>2, <2>3 DEF DeliverFee, Typed, TypeOK, Finite, History
<1>3. CASE DeliverSubmit(m)
  BY <1>3 DEF DeliverSubmit, Typed, TypeOK, Finite
<1>4. CASE Fail(m)
  BY <1>4 DEF Fail, Typed, TypeOK, Finite
<1> QED
  BY <1>2, <1>3, <1>4

LEMMA ProposalTyped == ASSUME Typed, NEW m \in net, DeliverProposal(m) PROVE Typed'
<1>1. m \in Request /\ FiniteProposal(m.proposal) /\ taps \in Nat
  BY DEF Typed, TypeOK, Finite, Request, FiniteProposal
<1>2. rate' \in Rates /\ method' \in {"fixed", "milestone"} /\ amounts' \in Rates
  BY <1>1 DEF DeliverProposal, FiniteProposal, Proposal
<1>3. milestonesArray' \in Seq(Nat)
  <2>1. SetToSeq(m.proposal.milestones) \in Seq(m.proposal.milestones)
    BY <1>1, SetToSeqFacts DEF FiniteProposal
  <2>2. m.proposal.milestones \subseteq Nat
    BY <1>1 DEF FiniteProposal, Proposal
  <2>3. SetToSeq(m.proposal.milestones) \in Seq(Nat)
    BY <2>1, <2>2
  <2> QED
    BY <2>3 DEF DeliverProposal, Typed, TypeOK
<1>4. hist' \in History
  BY DEF DeliverProposal, Typed, TypeOK, History, Reasons
<1>5. 2 * taps + 1 \in Nat
  BY <1>1
<1>6. /\ Fee(2 * taps + 1, rate') \in Request
      /\ IsFiniteSet(Fee(2 * taps + 1, rate').proposal.milestones)
  BY <1>2, <1>5, FeeType
<1>7. /\ net' \subseteq net \union {Fee(2 * taps + 1, rate')}
      /\ showLoading' \in {showLoading, TRUE}
  BY DEF DeliverProposal
<1>8. net' \subseteq Request /\ \A x \in net' : IsFiniteSet(x.proposal.milestones)
  BY <1>6, <1>7 DEF Typed, TypeOK, Finite
<1>9. UNCHANGED <<edit, server, page, sheet, taps, meant>>
  BY DEF DeliverProposal
<1> QED
  BY <1>2, <1>3, <1>4, <1>7, <1>8, <1>9 DEF Typed, TypeOK, Finite, History, sheet

LEMMA StepTyped == Typed /\ [Next]_vars => Typed'
<1> SUFFICES ASSUME Typed, [Next]_vars PROVE Typed'
  OBVIOUS
<1>1. CASE UNCHANGED vars
  BY <1>1 DEF vars, form, sheet, fees, Typed, TypeOK, Finite
<1>2. ASSUME NEW r \in Rates, TypeRate(r) PROVE Typed'
  BY <1>2, TypeRateTyped
<1>3. CASE SubmitProposal
  BY <1>3, SubmitTyped
<1>4. ASSUME NEW m \in net, Serve(m) \/ DeliverProposal(m) PROVE Typed'
  BY <1>4, ServeTyped, ProposalTyped
<1>5. ASSUME NEW m \in net,
             \/ \E ok \in BOOLEAN : DeliverFee(m, ok)
             \/ DeliverSubmit(m) \/ Fail(m)
      PROVE  Typed'
  BY <1>5, AnswerTyped
<1> QED
  BY <1>1, <1>2, <1>3, <1>4, <1>5, SellerTyped DEF Next

\* Type correctness of the form, the requests and the proposal the server has, whose
\* milestones are finitely many.
THEOREM TypeCorrect == Spec => []TypeOK
<1>1. Typed => TypeOK
  BY DEF Typed
<1> QED
  BY <1>1, InitTyped, StepTyped, PTL DEF Spec

-----------------------------------------------------------------------------
(* What is accepted                                                        *)

\* What submitProposal sends of what the seller wants.
Submission ==
    [rate |-> meant.rate, method |-> meant.method,
     milestones |-> IF meant.method = "milestone" THEN meant.milestones ELSE {}]

\* The form is what the seller wants, its milestones are of different touches, and
\* an open sheet will write the one it was opened for.
Written ==
    /\ rate = meant.rate /\ method = meant.method
    /\ Elements(milestonesArray) = meant.milestones
    /\ IsInjective(milestonesArray)
    /\ \A x \in meant.milestones : x < taps
    /\ open => selectedMilestone = hist.row

\* Until the proposal to edit has arrived nothing was submitted, and if the seller
\* touched nothing either, the form waits for the proposal the server has.
Awaited ==
    /\ page = "open" /\ Pending("submit") = {}
    /\ \A x \in server.milestones : x < taps
    /\ ~hist.typed => meant = server /\ milestonesArray = <<>> /\ method = "fixed" /\ ~open
    /\ \A m \in Pending("load") : m.stage = "ok" => m.proposal = server

Intended ==
    hist.why = {} =>
        /\ Pending("load") # {} => ~hist.loaded
        /\ ~hist.loaded => Awaited
        /\ hist.loaded /\ page = "open" => Written
        /\ \A m \in Pending("submit") :
              /\ m.proposal = Submission
              /\ m.stage = "ok" => server = Submission
        /\ page = "done" => server = Submission

Meaning == Typed /\ Numbers /\ Intended

LEMMA InitMeaning == Init => Meaning
<1> SUFFICES ASSUME Init PROVE Meaning
  OBVIOUS
<1>1. Typed /\ Numbers
  BY InitTyped, InitInv DEF Inv
<1>2. /\ net = {Fee(1, 0)} \union (IF edit THEN {Req(1, "load", Blank)} ELSE {})
      /\ hist.typed = FALSE /\ hist.loaded = ~edit /\ meant = server /\ taps = 1
      /\ page = "open" /\ ~open /\ rate = 0 /\ method = "fixed" /\ milestonesArray = <<>>
  BY DEF Init
<1>3. Fee(1, 0).kind = "fee" /\ Req(1, "load", Blank).kind = "load"
      /\ Req(1, "load", Blank).stage = "sent"
  BY DEF Fee, Req
<1>4. Pending("submit") = {} /\ (Pending("load") # {} => edit)
      /\ \A m \in Pending("load") : m.stage = "sent"
  BY <1>2, <1>3 DEF Pending
<1>5. edit => \A x \in server.milestones : x < taps
  BY <1>2 DEF Init
<1>6. ~edit => server = Blank
  BY DEF Init
<1>7. ~hist.loaded => Awaited
  BY <1>2, <1>4, <1>5 DEF Awaited
<1>8. Elements(<<>>) = {} /\ IsInjective(<<>>)
  BY DEF Elements, IsInjective
<1>9. hist.loaded => Written
  <2> SUFFICES ASSUME hist.loaded PROVE Written
    OBVIOUS
  <2>1. ~edit
    BY <1>1, <1>2 DEF Typed, TypeOK
  <2>2. meant.rate = 0 /\ meant.method = "fixed" /\ meant.milestones = {}
    BY <1>2, <1>6, <2>1 DEF Blank
  <2> QED
    BY <1>2, <1>8, <2>2 DEF Written
<1>10. Intended
  BY <1>2, <1>4, <1>7, <1>9 DEF Intended
<1> QED
  BY <1>1, <1>10 DEF Meaning

\* The seller changes what is wanted: submissions in flight are noted as outdated.
LEMMA MeanNotes ==
    ASSUME Typed, NEW p, Mean(p)
    PROVE  /\ meant' = p /\ hist'.typed = TRUE
           /\ hist'.loaded = hist.loaded /\ hist'.row = hist.row
           /\ hist'.why = {} => hist.why = {} /\ Pending("submit") = {}
BY DEF Typed, TypeOK, Mean

\* A change of the form, by which nothing is sent.
LEMMA FormIntended ==
    ASSUME Meaning, NEW p, Mean(p), Tapped, UNCHANGED <<server, page>>,
           \A k \in {"load", "submit"} : Pending(k)' = Pending(k),
           Written => Written'
    PROVE  Intended'
<1> SUFFICES ASSUME hist'.why = {} PROVE Intended'
  BY DEF Intended
<1>1. /\ hist.why = {} /\ Pending("submit") = {} /\ hist'.typed = TRUE
      /\ hist'.loaded = hist.loaded
  BY MeanNotes DEF Meaning
<1>2. page = "open" /\ taps \in Nat /\ taps' = taps + 1
  BY DEF Tapped, Meaning, Typed, TypeOK
<1>3. ~hist'.loaded => Awaited'
  <2> SUFFICES ASSUME ~hist'.loaded PROVE Awaited'
    OBVIOUS
  <2>1. Awaited
    BY <1>1 DEF Meaning, Intended
  <2>2. server.milestones \subseteq Nat
    BY DEF Meaning, Typed, TypeOK, Proposal
  <2>3. \A x \in server'.milestones : x < taps'
    BY <1>2, <2>1, <2>2 DEF Awaited
  <2>4. page' = "open" /\ Pending("submit")' = {} /\ hist'.typed
    BY <1>1, <1>2
  <2>5. \A m \in Pending("load")' : m.stage = "ok" => m.proposal = server'
    BY <2>1 DEF Awaited
  <2> QED
    BY <2>3, <2>4, <2>5 DEF Awaited
<1>4. hist'.loaded /\ page' = "open" => Written'
  BY <1>1 DEF Meaning, Intended
<1>5. Pending("load")' # {} => ~hist'.loaded
  BY <1>1 DEF Meaning, Intended
<1>6. Pending("submit")' = {} /\ page' # "done"
  BY <1>1, <1>2
<1> QED
  BY <1>3, <1>4, <1>5, <1>6 DEF Intended

LEMMA TouchFacts ==
    ASSUME Typed, Tapped
    PROVE  /\ taps \in Nat /\ taps' = taps + 1
           /\ \A x \in Nat : x < taps => x < taps'
           /\ meant.milestones \subseteq Nat
BY DEF Typed, TypeOK, Tapped, Proposal

LEMMA TypeRateIntended == ASSUME Meaning, NEW r \in Rates, TypeRate(r) PROVE Intended'
<1>1. /\ net' = net \union {Fee(2 * taps', r)} /\ rate' = r /\ Tapped
      /\ UNCHANGED <<server, page, method, milestonesArray, open, selectedMilestone>>
      /\ Mean([meant EXCEPT !.rate = r])
  BY DEF TypeRate, FeeAsked, sheet
<1>2. Fee(2 * taps', r).kind = "fee"
  BY FeeFacts
<1>3. \A k \in {"load", "submit"} : Pending(k)' = Pending(k)
  BY <1>1, <1>2 DEF Pending
<1>4. /\ meant'.rate = r /\ meant'.method = meant.method
      /\ meant'.milestones = meant.milestones /\ hist'.row = hist.row
  <2>1. meant \in Proposal /\ Typed
    BY DEF Meaning, Typed, TypeOK
  <2>2. meant' = [meant EXCEPT !.rate = r] /\ hist'.row = hist.row
    BY <1>1, <2>1, MeanNotes
  <2> QED
    BY <2>1, <2>2 DEF Proposal
<1>5. Written => Written'
  BY <1>1, <1>4, TouchFacts DEF Meaning, Written
<1> QED
  BY <1>1, <1>3, <1>5, FormIntended

LEMMA SetPaymentMethodIntended ==
    ASSUME Meaning, NEW p \in {"fixed", "milestone"}, SetPaymentMethod(p)
    PROVE  Intended'
<1>1. /\ net' = net /\ method' = p /\ Tapped
      /\ UNCHANGED <<server, page, rate, milestonesArray, open, selectedMilestone>>
      /\ Mean([meant EXCEPT !.method = p])
  BY DEF SetPaymentMethod, sheet
<1>2. \A k \in {"load", "submit"} : Pending(k)' = Pending(k)
  BY <1>1 DEF Pending
<1>3. /\ meant'.method = p /\ meant'.rate = meant.rate
      /\ meant'.milestones = meant.milestones /\ hist'.row = hist.row
  <2>1. meant \in Proposal /\ Typed
    BY DEF Meaning, Typed, TypeOK
  <2>2. meant' = [meant EXCEPT !.method = p] /\ hist'.row = hist.row
    BY <1>1, <2>1, MeanNotes
  <2> QED
    BY <2>1, <2>2 DEF Proposal
<1>4. Written => Written'
  BY <1>1, <1>3, TouchFacts DEF Meaning, Written
<1> QED
  BY <1>1, <1>2, <1>4, FormIntended

\* The sheet writes a milestone of this touch, in the place of the one that it was
\* opened for or behind the others.
LEMMA AddMilestoneDataIntended == ASSUME Meaning, AddMilestoneData PROVE Intended'
<1> DEFINE old == IF hist.row \in DOMAIN milestonesArray
                  THEN {milestonesArray[hist.row]} ELSE {}
<1>1. /\ net' = net /\ Tapped /\ open /\ ~open'
      /\ UNCHANGED <<server, page, rate, method>>
      /\ selectedMilestone \in {0} \union DOMAIN milestonesArray
      /\ milestonesArray' =
            IF selectedMilestone = 0 THEN Append(milestonesArray, taps)
            ELSE [milestonesArray EXCEPT ![selectedMilestone] = taps]
      /\ Mean([meant EXCEPT !.milestones = (@ \ old) \union {taps}])
  BY DEF AddMilestoneData
<1>2. \A k \in {"load", "submit"} : Pending(k)' = Pending(k)
  BY <1>1 DEF Pending
<1>3. /\ meant'.method = meant.method /\ meant'.rate = meant.rate
      /\ meant'.milestones = (meant.milestones \ old) \union {taps}
  <2>1. meant \in Proposal /\ Typed
    BY DEF Meaning, Typed, TypeOK
  <2> DEFINE new == [meant EXCEPT !.milestones = (@ \ old) \union {taps}]
  <2>2. meant' = new
    <3>1. Mean(new)
      BY <1>1
    <3> HIDE DEF new
    <3> QED
      BY <2>1, <3>1, MeanNotes
  <2> QED
    BY <2>1, <2>2 DEF Proposal
<1>4. ASSUME Written PROVE Written'
  <2>1. milestonesArray \in Seq(Nat) /\ taps \in Nat
    BY DEF Meaning, Typed, TypeOK
  <2>2. IsInjective(milestonesArray) /\ selectedMilestone = hist.row
        /\ Elements(milestonesArray) = meant.milestones
    BY <1>1, <1>4 DEF Written
  <2>3. taps \notin Elements(milestonesArray)
    BY <1>4, <2>1, <2>2 DEF Written
  <2>4. IsInjective(milestonesArray') /\ Elements(milestonesArray') = meant'.milestones
    <3>1. CASE selectedMilestone = 0
      <4>1. old = {}
        BY <2>1, <2>2, <3>1
      <4>2. milestonesArray' = Append(milestonesArray, taps)
        BY <1>1, <3>1
      <4>3. /\ Elements(milestonesArray') = Elements(milestonesArray) \union {taps}
            /\ IsInjective(milestonesArray')
        BY <2>1, <2>2, <2>3, <4>2, AppendFacts
      <4> QED
        BY <1>3, <2>2, <4>1, <4>3
    <3>2. CASE selectedMilestone # 0
      <4>1. selectedMilestone \in DOMAIN milestonesArray
            /\ old = {milestonesArray[selectedMilestone]}
        BY <1>1, <2>2, <3>2
      <4>2. milestonesArray' = [milestonesArray EXCEPT ![selectedMilestone] = taps]
        BY <1>1, <3>2
      <4>3. /\ Elements(milestonesArray')
                   = (Elements(milestonesArray) \ {milestonesArray[selectedMilestone]})
                     \union {taps}
            /\ IsInjective(milestonesArray')
        <5> DEFINE t == [milestonesArray EXCEPT ![selectedMilestone] = taps]
        <5>1. /\ IsInjective(milestonesArray)
                 => Elements(t) = (Elements(milestonesArray)
                                   \ {milestonesArray[selectedMilestone]}) \union {taps}
              /\ IsInjective(milestonesArray) /\ taps \notin Elements(milestonesArray)
                 => IsInjective(t)
          BY <2>1, <4>1, ChangeFacts
        <5>2. milestonesArray' = t
          BY <4>2
        <5> HIDE DEF t
        <5> QED
          BY <2>2, <2>3, <5>1, <5>2
      <4> QED
        BY <1>3, <2>2, <4>1, <4>3
    <3> QED
      BY <3>1, <3>2
  <2>5. \A x \in meant'.milestones : x < taps'
    BY <1>1, <1>3, <1>4, <2>1, TouchFacts DEF Meaning, Written
  <2> QED
    BY <1>1, <1>3, <1>4, <2>4, <2>5 DEF Written
<1> QED
  BY <1>1, <1>2, <1>4, FormIntended

LEMMA DeleteMilestoneIntended ==
    ASSUME Meaning, NEW i \in DOMAIN milestonesArray, DeleteMilestone(i)
    PROVE  Intended'
<1>1. /\ net' = net /\ Tapped /\ ~open /\ ~open'
      /\ UNCHANGED <<server, page, rate, method>>
      /\ milestonesArray' = RemoveAt(milestonesArray, i)
      /\ Mean([meant EXCEPT !.milestones = @ \ {milestonesArray[i]}])
  BY DEF DeleteMilestone, sheet
<1>2. \A k \in {"load", "submit"} : Pending(k)' = Pending(k)
  BY <1>1 DEF Pending
<1>3. /\ meant'.method = meant.method /\ meant'.rate = meant.rate
      /\ meant'.milestones = meant.milestones \ {milestonesArray[i]}
  <2>1. meant \in Proposal /\ Typed
    BY DEF Meaning, Typed, TypeOK
  <2>2. meant' = [meant EXCEPT !.milestones = @ \ {milestonesArray[i]}] /\ hist'.row = hist.row
    BY <1>1, <2>1, MeanNotes
  <2> QED
    BY <2>1, <2>2 DEF Proposal
<1>4. ASSUME Written PROVE Written'
  <2>1. milestonesArray \in Seq(Nat)
    BY DEF Meaning, Typed, TypeOK
  <2>2. IsInjective(milestonesArray) /\ Elements(milestonesArray) = meant.milestones
    BY <1>4 DEF Written
  <2>3. IsInjective(milestonesArray') /\ Elements(milestonesArray') = meant'.milestones
    BY <1>1, <1>3, <2>1, <2>2, RemoveAtFacts
  <2>4. \A x \in meant'.milestones : x < taps'
    BY <1>1, <1>3, <1>4, TouchFacts DEF Meaning, Written
  <2> QED
    BY <1>1, <1>3, <1>4, <2>3, <2>4 DEF Written
<1> QED
  BY <1>1, <1>2, <1>4, FormIntended

\* The sheet is opened and closed; before the proposal to edit has arrived there is
\* nothing to open it for unless the seller touched the form.
LEMMA SheetIntended ==
    ASSUME Meaning,
           \/ CreateMilestones \/ CloseSheet
           \/ \E i \in DOMAIN milestonesArray : EditMilestone(i)
    PROVE  Intended'
<1>1. /\ Tapped /\ UNCHANGED <<server, page, rate, method, milestonesArray, net, meant>>
      /\ open' => /\ selectedMilestone' = hist'.row
                  /\ method = "milestone" \/ DOMAIN milestonesArray # {}
  BY DEF CreateMilestones, CloseSheet, EditMilestone, SelectedByCreate, form,
         Meaning, Typed, TypeOK
<1>2. hist'.why = hist.why /\ hist'.typed = hist.typed /\ hist'.loaded = hist.loaded
  BY DEF CreateMilestones, CloseSheet, EditMilestone, Meaning, Typed, TypeOK
<1>3. \A k : Pending(k)' = Pending(k)
  BY <1>1 DEF Pending
<1>4. Submission' = Submission
  BY <1>1 DEF Submission
<1>5. taps \in Nat /\ taps' = taps + 1 /\ meant.milestones \subseteq Nat
      /\ server.milestones \subseteq Nat
  BY <1>1, TouchFacts DEF Meaning, Typed, TypeOK, Proposal
<1>6. Awaited => Awaited'
  <2> SUFFICES ASSUME Awaited PROVE Awaited'
    OBVIOUS
  <2>1. \A x \in server'.milestones : x < taps'
    BY <1>1, <1>5 DEF Awaited
  <2>2. ~hist'.typed => ~open'
    BY <1>1, <1>2 DEF Awaited
  <2> QED
    BY <1>1, <1>2, <1>3, <2>1, <2>2 DEF Awaited
<1>7. Written => Written'
  <2> SUFFICES ASSUME Written PROVE Written'
    OBVIOUS
  <2>1. \A x \in meant'.milestones : x < taps'
    BY <1>1, <1>5 DEF Written
  <2> QED
    BY <1>1, <2>1 DEF Written
<1> QED
  BY <1>1, <1>2, <1>3, <1>4, <1>6, <1>7 DEF Meaning, Intended

\* What is submitted once the proposal to edit has arrived is what is wanted.
LEMMA SubmitIntended == ASSUME Meaning, SubmitProposal PROVE Intended'
<1> DEFINE new == Req(taps, "submit", Filled)
<1>1. /\ net' = net \union {new} /\ Tapped /\ page = "open"
      /\ UNCHANGED <<server, page, rate, method, milestonesArray, open, selectedMilestone,
                     meant>>
  BY DEF SubmitProposal, Filled, Tapped, form, sheet
<1>2. hist' = [hist EXCEPT !.why = IF hist.loaded THEN @ ELSE @ \union {"unloaded"}]
  BY DEF SubmitProposal
<1>3. /\ hist'.loaded = hist.loaded /\ hist'.row = hist.row
      /\ hist'.why = {} => hist.why = {} /\ hist.loaded
  BY <1>2 DEF Meaning, Typed, TypeOK
<1>4. new.kind = "submit" /\ new.stage = "sent" /\ new.proposal = Filled
  BY DEF Req
<1> HIDE DEF new
<1>5. Pending("load")' = Pending("load") /\ Pending("submit")' = Pending("submit") \union {new}
  BY <1>1, <1>4 DEF Pending
<1> SUFFICES ASSUME hist'.why = {} PROVE Intended'
  BY DEF Intended
<1>6. Written
  BY <1>1, <1>3 DEF Meaning, Intended
<1>7. Filled = Submission /\ Submission' = Submission
  BY <1>1, <1>6 DEF Filled, Submission, Written
<1>8. Written'
  BY <1>1, <1>3, <1>6, TouchFacts DEF Meaning, Written
<1>9. \A m \in Pending("submit")' :
         m.proposal = Submission' /\ (m.stage = "ok" => server' = Submission')
  BY <1>1, <1>3, <1>4, <1>5, <1>7 DEF Meaning, Intended
<1>10. Pending("load")' # {} => ~hist'.loaded
  BY <1>3, <1>5 DEF Meaning, Intended
<1> QED
  BY <1>1, <1>3, <1>8, <1>9, <1>10 DEF Intended

\* The server answers: what it accepts is what is wanted.
LEMMA ServeIntended == ASSUME Meaning, NEW m \in net, Serve(m) PROVE Intended'
<1>1. /\ m.stage = "sent" /\ m.kind \in {"load", "submit"}
      /\ UNCHANGED <<page, rate, method, milestonesArray, open, selectedMilestone, taps,
                     meant, hist>>
  BY ServeFacts DEF Meaning, form, sheet
<1>2. PICK o \in Request :
          /\ net' = (net \ {m}) \union {o} /\ o.kind = m.kind
          /\ \/ m.kind = "load" /\ o.stage = "ok" /\ o.proposal = server
                /\ server' = server
             \/ m.kind = "submit" /\ o.stage = "ok" /\ o.proposal = m.proposal
                /\ server' = m.proposal
             \/ o.stage = "error" /\ o.proposal = m.proposal /\ server' = server
  BY ServeFacts DEF Meaning
<1>3. Submission' = Submission
  BY <1>1 DEF Submission
<1>4. Written' <=> Written
  BY <1>1 DEF Written
<1> SUFFICES ASSUME hist.why = {} PROVE Intended'
  BY <1>1 DEF Intended
<1>5. /\ Pending("load") # {} => ~hist.loaded
      /\ ~hist.loaded => Awaited
      /\ hist.loaded /\ page = "open" => Written
      /\ \A x \in Pending("submit") :
            x.proposal = Submission /\ (x.stage = "ok" => server = Submission)
      /\ page = "done" => server = Submission
  BY DEF Meaning, Intended
<1>6. CASE m.kind = "load"
  <2>1. /\ Pending("submit")' = Pending("submit") /\ server' = server
        /\ Pending("load")' = (Pending("load") \ {m}) \union {o}
        /\ m \in Pending("load")
    BY <1>2, <1>6 DEF Pending
  <2>2. ~hist.loaded /\ Awaited
    BY <1>5, <2>1
  <2>3. o.stage = "ok" => o.proposal = server'
    BY <1>2, <1>6
  <2>4. Awaited'
    BY <1>1, <2>1, <2>2, <2>3 DEF Awaited
  <2> QED
    BY <1>1, <1>3, <1>5, <2>1, <2>2, <2>4 DEF Intended
<1>7. CASE m.kind = "submit"
  <2>1. /\ Pending("load")' = Pending("load")
        /\ Pending("submit")' = (Pending("submit") \ {m}) \union {o}
        /\ m \in Pending("submit")
    BY <1>2, <1>7 DEF Pending
  <2>2. hist.loaded
    BY <1>5, <2>1 DEF Awaited
  <2>3. m.proposal = Submission /\ o.proposal = Submission
        /\ server' \in {server, Submission} /\ (o.stage = "ok" => server' = Submission)
    BY <1>2, <1>5, <1>7, <2>1
  <2>4. \A x \in Pending("submit")' :
            x.proposal = Submission /\ (x.stage = "ok" => server' = Submission)
    BY <1>5, <2>1, <2>3
  <2> QED
    BY <1>1, <1>3, <1>4, <1>5, <2>1, <2>2, <2>3, <2>4 DEF Intended
<1> QED
  BY <1>1, <1>6, <1>7

LEMMA FeeIntended ==
    ASSUME Meaning, NEW m \in net, NEW ok \in BOOLEAN, DeliverFee(m, ok)
    PROVE  Intended'
<1>1. /\ m.kind = "fee" /\ net' = net \ {m}
      /\ UNCHANGED <<server, page, rate, method, milestonesArray, open, selectedMilestone,
                     taps, meant>>
  BY DEF DeliverFee, form, sheet
<1>2. hist'.why = hist.why /\ hist'.typed = hist.typed /\ hist'.loaded = hist.loaded
      /\ hist'.row = hist.row
  BY DEF DeliverFee, Meaning, Typed, TypeOK
<1>3. \A k \in {"load", "submit"} : Pending(k)' = Pending(k)
  BY <1>1 DEF Pending
<1>4. Submission' = Submission
  BY <1>1 DEF Submission
<1>5. (Written' <=> Written) /\ (Awaited' <=> Awaited)
  BY <1>1, <1>2, <1>3 DEF Written, Awaited
<1> QED
  BY <1>1, <1>2, <1>3, <1>4, <1>5 DEF Meaning, Intended

\* The proposal to edit fills a form that was not touched.
LEMMA ProposalIntended == ASSUME Meaning, NEW m \in net, DeliverProposal(m) PROVE Intended'
<1>1. /\ m.kind = "load" /\ m.stage = "ok" /\ page = "open" /\ m \in Pending("load")
      /\ rate' = m.proposal.rate /\ method' = m.proposal.method
      /\ UNCHANGED <<server, page, open, selectedMilestone, taps, meant>>
      /\ \/ milestonesArray' = SetToSeq(m.proposal.milestones)
         \/ m.proposal.milestones = {} /\ milestonesArray' = milestonesArray
  BY DEF DeliverProposal, sheet, Pending
<1>2. /\ hist'.loaded = TRUE
      /\ hist'.why = {} => hist.why = {} /\ ~hist.typed
  BY DEF DeliverProposal, Meaning, Typed, TypeOK
<1>3. \E f : net' \subseteq (net \ {m}) \union {f} /\ f.kind = "fee"
  BY FeeFacts DEF DeliverProposal
<1>4. Pending("load") = {m}
  BY <1>1 DEF Meaning, Numbers
<1>5. Pending("load")' = {} /\ Pending("submit")' \subseteq Pending("submit")
  BY <1>3, <1>4 DEF Pending
<1> SUFFICES ASSUME hist'.why = {} PROVE Intended'
  BY DEF Intended
<1>6. /\ Awaited /\ ~hist.typed
  BY <1>1, <1>2 DEF Meaning, Intended
<1>7. m.proposal = meant /\ meant = server /\ ~open /\ milestonesArray = <<>>
      /\ Pending("submit") = {}
  BY <1>1, <1>6 DEF Awaited
<1>8. IsFiniteSet(meant.milestones)
  BY <1>7 DEF Meaning, Typed, Finite
<1>9. Elements(milestonesArray') = meant.milestones /\ IsInjective(milestonesArray')
  <2>1. CASE milestonesArray' = SetToSeq(meant.milestones)
    BY <1>8, <2>1, SetToSeqFacts
  <2>2. CASE meant.milestones = {} /\ milestonesArray' = <<>>
    BY <2>2 DEF Elements, IsInjective
  <2> QED
    BY <1>1, <1>7, <2>1, <2>2
<1>10. Written'
  BY <1>1, <1>6, <1>7, <1>9 DEF Written, Awaited
<1> QED
  BY <1>1, <1>2, <1>5, <1>7, <1>10 DEF Intended

\* The screen is left when the server has what is wanted.
LEMMA DeliverSubmitIntended == ASSUME Meaning, NEW m \in net, DeliverSubmit(m) PROVE Intended'
<1>1. /\ m.stage = "ok" /\ m \in Pending("submit") /\ net' = net \ {m} /\ page' = "done"
      /\ UNCHANGED <<server, meant, hist>>
  BY DEF DeliverSubmit, Pending
<1>2. Submission' = Submission
  BY <1>1 DEF Submission
<1>3. \A k : Pending(k)' \subseteq Pending(k)
  BY <1>1 DEF Pending
<1> SUFFICES ASSUME hist.why = {} PROVE Intended'
  BY <1>1 DEF Intended
<1>4. hist.loaded /\ server = Submission
  BY <1>1 DEF Meaning, Intended, Awaited
<1>5. \A x \in Pending("submit")' : x.proposal = Submission
  BY <1>3 DEF Meaning, Intended
<1>6. Pending("load")' # {} => ~hist.loaded
  BY <1>3 DEF Meaning, Intended
<1> QED
  BY <1>1, <1>2, <1>4, <1>5, <1>6 DEF Intended

LEMMA FailIntended == ASSUME Meaning, NEW m \in net, Fail(m) PROVE Intended'
<1>1. /\ net' = net \ {m}
      /\ UNCHANGED <<server, page, rate, method, milestonesArray, open, selectedMilestone,
                     taps, meant, hist>>
  BY DEF Fail, form, sheet
<1>2. Submission' = Submission
  BY <1>1 DEF Submission
<1>3. \A k : Pending(k)' \subseteq Pending(k)
  BY <1>1 DEF Pending
<1>4. (Written' <=> Written) /\ (Awaited => Awaited')
  BY <1>1, <1>3 DEF Written, Awaited
<1> QED
  BY <1>1, <1>2, <1>3, <1>4 DEF Meaning, Intended

LEMMA StepIntended == Meaning /\ [Next]_vars => Intended'
<1> SUFFICES ASSUME Meaning, [Next]_vars PROVE Intended'
  OBVIOUS
<1>1. CASE UNCHANGED vars
  BY <1>1 DEF vars, form, sheet, Meaning, Intended, Written, Awaited, Submission, Pending
<1>2. ASSUME NEW r \in Rates, TypeRate(r) PROVE Intended'
  BY <1>2, TypeRateIntended
<1>3. ASSUME NEW p \in {"fixed", "milestone"}, SetPaymentMethod(p) PROVE Intended'
  BY <1>3, SetPaymentMethodIntended
<1>4. CASE CreateMilestones \/ CloseSheet
  BY <1>4, SheetIntended
<1>5. ASSUME NEW i \in DOMAIN milestonesArray, EditMilestone(i) \/ DeleteMilestone(i)
      PROVE  Intended'
  BY <1>5, SheetIntended, DeleteMilestoneIntended
<1>6. CASE AddMilestoneData \/ SubmitProposal
  BY <1>6, AddMilestoneDataIntended, SubmitIntended
<1>7. ASSUME NEW m \in net,
             Serve(m) \/ DeliverProposal(m) \/ DeliverSubmit(m) \/ Fail(m)
      PROVE  Intended'
  BY <1>7, ServeIntended, ProposalIntended, DeliverSubmitIntended, FailIntended
<1>8. ASSUME NEW m \in net, NEW ok \in BOOLEAN, DeliverFee(m, ok) PROVE Intended'
  BY <1>8, FeeIntended
<1> QED
  BY <1>1, <1>2, <1>3, <1>4, <1>5, <1>6, <1>7, <1>8 DEF Next

\* When the screen was left because the proposal was accepted, the server has the one
\* the seller wanted, milestone by milestone, with the exceptions named.
THEOREM AcceptedIsMeant == Spec => []AcceptedAsMeant
<1>1. Meaning => AcceptedAsMeant
  BY DEF Meaning, Intended, AcceptedAsMeant, Submission
<1>2. Init => Inv /\ Meaning
  BY InitInv, InitMeaning
<1>3. Inv /\ Meaning /\ [Next]_vars => (Inv /\ Meaning)'
  BY StepInv, StepTyped, StepIntended DEF Meaning, Inv
<1> QED
  BY <1>1, <1>2, <1>3, PTL DEF Spec

-----------------------------------------------------------------------------
(* Payouts                                                                 *)

\* The operators of the library in the instance are those of the module.
LEMMA PayRemoveAt == \A s, i : Earnings!RemoveAt(s, i) = RemoveAt(s, i)
BY DEF Earnings!RemoveAt, RemoveAt

LEMMA PayFinite == \A S : Earnings!IsFiniteSet(S) <=> IsFiniteSet(S)
BY DEF Earnings!IsFiniteSet, IsFiniteSet

LEMMA PayCardinality == \A S : Earnings!Cardinality(S) = Cardinality(S)
BY DEF Earnings!Cardinality, Cardinality

LEMMA PaySetToSeq == \A S : Earnings!SetToSeq(S) = SetToSeq(S)
<1> SUFFICES ASSUME NEW S PROVE Earnings!SetToSeq(S) = SetToSeq(S)
  OBVIOUS
<1>1. \A f : Earnings!IsInjective(f) <=> IsInjective(f)
  BY DEF Earnings!IsInjective, IsInjective
<1>2. Earnings!Cardinality(S) = Cardinality(S)
  BY PayCardinality
<1> QED
  BY <1>1, <1>2 DEF Earnings!SetToSeq, SetToSeq

\* Where an item was that is in place k when that of place i is gone.
PaySkip(i, k) == IF k < i THEN k ELSE k + 1

LEMMA PaySkipFacts ==
    ASSUME NEW S, NEW s \in Seq(S), NEW i \in DOMAIN s
    PROVE  /\ RemoveAt(s, i) \in Seq(S) /\ Len(RemoveAt(s, i)) = Len(s) - 1
           /\ \A k \in DOMAIN RemoveAt(s, i) :
                 /\ PaySkip(i, k) \in DOMAIN s \ {i}
                 /\ RemoveAt(s, i)[k] = s[PaySkip(i, k)]
           /\ \A k, l \in DOMAIN RemoveAt(s, i) : PaySkip(i, k) = PaySkip(i, l) => k = l
           /\ \A j \in DOMAIN s \ {i} : \E k \in DOMAIN RemoveAt(s, i) : PaySkip(i, k) = j
<1>1. Len(s) \in Nat /\ i \in Nat /\ i >= 1 /\ i <= Len(s) /\ DOMAIN s = 1 .. Len(s)
  OBVIOUS
<1> DEFINE a == SubSeq(s, 1, i - 1)
           b == SubSeq(s, i + 1, Len(s))
           r == a \o b
<1>2. /\ a \in Seq(S) /\ Len(a) = i - 1 /\ \A k \in 1 .. (i - 1) : a[k] = s[k]
      /\ b \in Seq(S) /\ Len(b) = Len(s) - i
      /\ \A k \in 1 .. (Len(s) - i) : b[k] = s[k + i]
  BY <1>1, SMTT(30)
<1>3. RemoveAt(s, i) = r
  BY DEF RemoveAt
<1> HIDE DEF a, b
<1>4. /\ r \in Seq(S) /\ Len(r) = Len(s) - 1 /\ DOMAIN r = 1 .. (Len(s) - 1)
      /\ \A k \in 1 .. (Len(s) - 1) : r[k] = IF k <= i - 1 THEN a[k] ELSE b[k - (i - 1)]
  <2>1. a \in Seq(S) /\ b \in Seq(S)
    BY <1>2
  <2>2. Len(r) = Len(a) + Len(b) /\ r \in Seq(S)
    BY <2>1
  <2>3. DOMAIN r = 1 .. Len(r)
    BY <2>2
  <2>4. \A k \in 1 .. (Len(a) + Len(b)) : r[k] = IF k <= Len(a) THEN a[k] ELSE b[k - Len(a)]
    BY <2>1
  <2> QED
    BY <1>1, <1>2, <2>2, <2>3, <2>4
<1> HIDE DEF r
<1>5. ASSUME NEW k \in DOMAIN r
      PROVE  PaySkip(i, k) \in DOMAIN s \ {i} /\ r[k] = s[PaySkip(i, k)]
  <2>1. CASE k < i
    BY <1>1, <1>2, <1>4, <2>1 DEF PaySkip
  <2>2. CASE ~(k < i)
    <3>1. r[k] = b[k - (i - 1)] /\ k - (i - 1) \in 1 .. (Len(s) - i)
      <4>1. /\ k \in 1 .. (Len(s) - 1) /\ ~(k <= i - 1)
            /\ k - (i - 1) \in 1 .. (Len(s) - i)
        BY <1>1, <1>4, <2>2
      <4> QED
        BY <1>4, <4>1
    <3>2. (k - (i - 1)) + i = k + 1
      BY <1>1, <1>4
    <3>3. r[k] = s[(k - (i - 1)) + i]
      BY <1>2, <3>1
    <3>4. r[k] = s[k + 1]
      BY <3>2, <3>3
    <3> QED
      BY <1>1, <1>4, <2>2, <3>4 DEF PaySkip
  <2> QED
    BY <2>1, <2>2
<1>6. \A k, l \in DOMAIN r : PaySkip(i, k) = PaySkip(i, l) => k = l
  BY <1>1, <1>4 DEF PaySkip
<1>7. ASSUME NEW j \in DOMAIN s, j # i PROVE \E k \in DOMAIN r : PaySkip(i, k) = j
  <2>1. CASE j < i
    BY <1>1, <1>4, <2>1 DEF PaySkip
  <2>2. CASE ~(j < i)
    <3>1. j - 1 \in DOMAIN r /\ PaySkip(i, j - 1) = j
      BY <1>1, <1>4, <1>7, <2>2 DEF PaySkip
    <3> QED
      BY <3>1
  <2> QED
    BY <2>1, <2>2
<1> QED
  BY <1>3, <1>4, <1>5, <1>6, <1>7

\* Every method has one row.
PayRows(rows) ==
    /\ \A m \in Methods : \E i \in DOMAIN rows : rows[i].type = m
    /\ \A i, j \in DOMAIN rows : rows[i].type = rows[j].type => i = j

LEMMA PayBlank ==
    ASSUME Earnings!ConstantsAssumption
    PROVE  /\ Earnings!Blank \in Seq(Earnings!Setting) /\ PayRows(Earnings!Blank)
           /\ \A i \in DOMAIN Earnings!Blank : Earnings!Blank[i].value = 0
<1> DEFINE S == {[type |-> m, value |-> 0] : m \in Methods}
           q == SetToSeq(S)
<1>1. Earnings!Blank = q
  BY PaySetToSeq DEF Earnings!Blank
<1>2. IsFiniteSet(S)
  <2>1. IsFiniteSet(Methods)
    BY PayFinite DEF Earnings!ConstantsAssumption
  <2> DEFINE f == [m \in Methods |-> [type |-> m, value |-> 0]]
  <2>2. f \in Surjection(Methods, S)
    BY DEF Surjection
  <2> HIDE DEF f, S
  <2> QED
    BY <2>1, <2>2, FS_Surjection
<1>3. S \subseteq Earnings!Setting
  BY DEF Earnings!ConstantsAssumption, Earnings!Setting
<1>4. \A x \in S : x.type \in Methods /\ x.value = 0 /\ x = [type |-> x.type, value |-> 0]
  OBVIOUS
<1>5. \A m \in Methods : \E x \in S : x.type = m
  <2> SUFFICES ASSUME NEW m \in Methods PROVE \E x \in S : x.type = m
    OBVIOUS
  <2>1. [type |-> m, value |-> 0] \in S /\ [type |-> m, value |-> 0].type = m
    OBVIOUS
  <2> QED
    BY <2>1
<1> HIDE DEF S
<1>6. q \in Seq(S) /\ IsInjective(q) /\ Elements(q) = S
  BY <1>2, SetToSeqFacts
<1> HIDE DEF q
<1>7. q \in Seq(Earnings!Setting)
  BY <1>3, <1>6
<1>8. \A i \in DOMAIN q : q[i] \in S
  BY <1>6
<1>9. PayRows(q)
  <2>1. ASSUME NEW m \in Methods PROVE \E i \in DOMAIN q : q[i].type = m
    BY <1>5, <1>6 DEF Elements
  <2>2. ASSUME NEW i \in DOMAIN q, NEW j \in DOMAIN q, q[i].type = q[j].type PROVE i = j
    <3>1. q[i] = q[j]
      BY <1>4, <1>8, <2>2
    <3> QED
      BY <1>6, <3>1 DEF IsInjective
  <2> QED
    BY <2>1, <2>2 DEF PayRows
<1> QED
  BY <1>1, <1>4, <1>7, <1>8, <1>9

\* Filling in what was saved changes no type.
LEMMA PayFilled ==
    ASSUME NEW rows \in Seq(Earnings!Setting), NEW first \in Earnings!Setting
    PROVE  /\ Earnings!Filled(rows, first) \in Seq(Earnings!Setting)
           /\ Len(Earnings!Filled(rows, first)) = Len(rows)
           /\ DOMAIN Earnings!Filled(rows, first) = DOMAIN rows
           /\ \A i \in DOMAIN rows :
                 /\ Earnings!Filled(rows, first)[i].type = rows[i].type
                 /\ Earnings!Filled(rows, first)[i].value =
                       IF rows[i].type = first.type THEN first.value ELSE rows[i].value
<1> DEFINE q == Earnings!Filled(rows, first)
<1>1. q = [i \in DOMAIN rows |-> IF rows[i].type = first.type THEN first ELSE rows[i]]
  BY DEF Earnings!Filled
<1> HIDE DEF q
<1>2. DOMAIN rows = 1 .. Len(rows) /\ Len(rows) \in Nat
  OBVIOUS
<1>3. \A i \in DOMAIN rows : q[i] \in Earnings!Setting
  BY <1>1
<1>4. q \in Seq(Earnings!Setting) /\ Len(q) = Len(rows) /\ DOMAIN q = DOMAIN rows
  BY <1>1, <1>2, <1>3
<1>5. \A i \in DOMAIN rows :
         /\ q[i].type = rows[i].type
         /\ q[i].value = IF rows[i].type = first.type THEN first.value ELSE rows[i].value
  BY <1>1
<1> QED
  BY <1>4, <1>5 DEF q

-----------------------------------------------------------------------------
(* Types                                                                   *)

PayPast == [failed : BOOLEAN, twice : BOOLEAN, typed : SUBSET Methods,
            meanwhile : BOOLEAN, touched : BOOLEAN]
PayPaint == [rows : Seq(Methods), mark : Methods \union {none}]

\* What is on the screen once Earnings renders; with the overlay down there is no row
\* painted without one that is held.
PayView == Earnings!View(payoutList, savedPayout)
PayBound == ~loader => Len(painted.rows) <= Len(payoutList)

LEMMA PayViews ==
    ASSUME NEW rows \in Seq(Earnings!Setting), NEW marks \in Seq(Earnings!Setting)
    PROVE  /\ Earnings!View(rows, marks) \in PayPaint
           /\ Earnings!View(rows, marks).rows = [i \in DOMAIN rows |-> rows[i].type]
           /\ Len(Earnings!View(rows, marks).rows) = Len(rows)
<1> DEFINE l == [i \in DOMAIN rows |-> rows[i].type]
           mark == IF marks = <<>> THEN none ELSE marks[1].type
<1>1. l \in Seq(Methods) /\ Len(l) = Len(rows)
  <2>1. \A i \in DOMAIN rows : rows[i].type \in Methods
    <3>1. \A i \in DOMAIN rows : rows[i] \in Earnings!Setting
      OBVIOUS
    <3> QED
      BY <3>1 DEF Earnings!Setting
  <2>2. PICK n \in Nat : n = Len(rows) /\ DOMAIN rows = 1 .. n
    OBVIOUS
  <2>3. l \in [1 .. n -> Methods]
    BY <2>1, <2>2
  <2> QED
    BY <2>2, <2>3
<1>2. mark \in Methods \union {none}
  <2>1. CASE marks = <<>>
    BY <2>1
  <2>2. CASE marks # <<>>
    <3>1. marks[1] \in Earnings!Setting
      BY <2>2
    <3>2. marks[1].type \in Methods
      BY <3>1 DEF Earnings!Setting
    <3> QED
      BY <2>2, <3>2
  <2> QED
    BY <2>1, <2>2
<1>3. Earnings!View(rows, marks) = [rows |-> l, mark |-> mark]
  BY DEF Earnings!View
<1> HIDE DEF l, mark
<1>4. [rows |-> l, mark |-> mark] \in PayPaint
  BY <1>1, <1>2 DEF PayPaint
<1>5. [rows |-> l, mark |-> mark].rows = l
  OBVIOUS
<1> QED
  BY <1>1, <1>3, <1>4, <1>5 DEF l

LEMMA PayRendered ==
    ASSUME Earnings!TypeOK, NEW changed \in BOOLEAN
    PROVE  /\ Earnings!Rendered(changed) \in PayPaint
           /\ Earnings!Rendered(changed) \in {painted, PayView}
           /\ changed => Earnings!Rendered(changed) = PayView
           /\ PayView \in PayPaint
<1>1. PayView \in PayPaint
  BY PayViews DEF Earnings!TypeOK, PayView
<1>2. painted \in PayPaint
  BY DEF Earnings!TypeOK, PayPaint
<1> QED
  BY <1>1, <1>2 DEF Earnings!Rendered, PayView

LEMMA PayAsked ==
    ASSUME NEW kind \in {"balance", "payouts", "save"}, NEW r \in BOOLEAN,
           NEW setting \in Earnings!Setting \union {Earnings!Nothing}
    PROVE  Earnings!Ask(kind, setting, r) \in Earnings!Request
BY DEF Earnings!Ask, Earnings!Request

LEMMA PayNothing ==
    Earnings!Nothing \in Earnings!Setting \union {Earnings!Nothing}
OBVIOUS

LEMMA PayInitType ==
    ASSUME Earnings!ConstantsAssumption, Earnings!Init PROVE Earnings!TypeOK /\ PayBound
<1>1. Earnings!Ask("balance", Earnings!Nothing, FALSE) \in Earnings!Request
  BY PayNothing DEF Earnings!Ask, Earnings!Request
<1>2. Earnings!Ask("payouts", Earnings!Nothing, FALSE) \in Earnings!Request
  BY PayNothing DEF Earnings!Ask, Earnings!Request
<1>3. requests \in Seq(Earnings!Request) /\ Len(requests) = 2
  <2>1. PICK a \in Earnings!Request : a = Earnings!Ask("balance", Earnings!Nothing, FALSE)
    BY <1>1
  <2>2. PICK b \in Earnings!Request : b = Earnings!Ask("payouts", Earnings!Nothing, FALSE)
    BY <1>2
  <2>3. requests = <<a, b>>
    BY <2>1, <2>2 DEF Earnings!Init
  <2> QED
    BY <2>3
<1>4. 2 <= MaxLookUps /\ touches \in 0 .. MaxTouches
  BY DEF Earnings!Init, Earnings!ConstantsAssumption
<1>5. saved \in Earnings!Setting \union {Earnings!Nothing}
  BY DEF Earnings!Init, Earnings!ConstantsAssumption, Earnings!Setting
<1>6. /\ payoutList \in Seq(Earnings!Setting) /\ savedPayout \in Seq(Earnings!Setting)
      /\ payoutData \in 0 .. Len(payoutList) /\ row \in {0, payoutData}
  BY DEF Earnings!Init
<1>7. past \in PayPast /\ loader \in BOOLEAN /\ loading \in BOOLEAN /\ flag \in BOOLEAN
  <2>1. /\ past = [failed |-> FALSE, twice |-> FALSE, typed |-> {}, meanwhile |-> FALSE,
                   touched |-> FALSE]
        /\ loader = TRUE /\ loading = FALSE /\ flag = FALSE
    BY DEF Earnings!Init
  <2> QED
    BY <2>1 DEF PayPast
<1>8. painted \in PayPaint
  <2>1. painted = Earnings!View(payoutList, savedPayout)
    BY DEF Earnings!Init
  <2> QED
    BY <1>6, <2>1, PayViews
<1>9. PayBound
  BY DEF Earnings!Init, PayBound
<1> QED
  BY <1>3, <1>4, <1>5, <1>6, <1>7, <1>8, <1>9 DEF Earnings!TypeOK, PayPast, PayPaint

LEMMA PaySentType ==
    ASSUME Earnings!TypeOK, NEW m \in Earnings!Request, Earnings!Send(m)
    PROVE  /\ requests' \in Seq(Earnings!Request) /\ Len(requests') <= MaxLookUps
           /\ Len(requests') = Len(requests) + 1
           /\ \A i \in DOMAIN requests : i \in DOMAIN requests' /\ requests'[i] = requests[i]
           /\ \A i \in DOMAIN requests' : i \in DOMAIN requests \/ requests'[i] = m
<1>1. requests \in Seq(Earnings!Request) /\ requests' = Append(requests, m)
  BY DEF Earnings!TypeOK, Earnings!Send
<1>2. Len(requests) < MaxLookUps /\ Len(requests) <= MaxLookUps
  BY DEF Earnings!TypeOK, Earnings!Send
<1>3. /\ requests' \in Seq(Earnings!Request) /\ Len(requests') = Len(requests) + 1
      /\ Len(requests) \in Nat
  BY <1>1
<1> QED
  BY <1>1, <1>2, <1>3, EarningsAssumption DEF Earnings!ConstantsAssumption

LEMMA PayTouch ==
    ASSUME Earnings!TypeOK, Earnings!Tapped PROVE touches' \in 0 .. MaxTouches
BY EarningsAssumption DEF Earnings!TypeOK, Earnings!Tapped, Earnings!ConstantsAssumption

PayUser ==
    \/ Earnings!Render \/ Earnings!GetEarningInformation \/ Earnings!CloseSheet
    \/ Earnings!ChangeInputValue \/ Earnings!ChangePayoutData
    \/ \E i \in DOMAIN painted.rows : Earnings!OpenSheet(i)

\* A field that is typed into is that of the same row, and of the same method.
LEMMA PayTyped ==
    ASSUME Earnings!TypeOK, Earnings!ChangeInputValue
    PROVE  /\ touches' \in 0 .. MaxTouches /\ row \in DOMAIN payoutList
           /\ payoutList' \in Seq(Earnings!Setting) /\ Len(payoutList') = Len(payoutList)
           /\ DOMAIN payoutList' = DOMAIN payoutList
           /\ \A i \in DOMAIN payoutList :
                 /\ payoutList'[i].type = payoutList[i].type
                 /\ i # row => payoutList'[i] = payoutList[i]
           /\ past' = [past EXCEPT !.typed = @ \union {payoutList[row].type}]
           /\ past' \in PayPast /\ flag' \in BOOLEAN /\ painted' = PayView
           /\ UNCHANGED <<saved, savedPayout, payoutData, row, loader, loading, requests>>
<1>1. touches' \in 0 .. MaxTouches
  BY PayTouch DEF Earnings!ChangeInputValue
<1>2. payoutList \in Seq(Earnings!Setting) /\ row \in DOMAIN payoutList
  <2>1. /\ payoutList \in Seq(Earnings!Setting) /\ row # 0
        /\ payoutData \in 0 .. Len(payoutList) /\ row \in {0, payoutData}
    BY DEF Earnings!ChangeInputValue, Earnings!TypeOK
  <2>2. Len(payoutList) \in Nat /\ DOMAIN payoutList = 1 .. Len(payoutList)
    BY <2>1
  <2> QED
    BY <2>1, <2>2
<1>3. payoutList[row] \in Earnings!Setting
  BY <1>2
<1> DEFINE x == [payoutList[row] EXCEPT !.value = touches']
<1>4. x \in Earnings!Setting /\ x.type = payoutList[row].type
  BY <1>1, <1>3 DEF Earnings!Setting
<1>5. payoutList' = [payoutList EXCEPT ![row] = x]
  BY DEF Earnings!ChangeInputValue
<1> HIDE DEF x
<1>6. /\ payoutList' \in Seq(Earnings!Setting) /\ Len(payoutList') = Len(payoutList)
      /\ DOMAIN payoutList' = DOMAIN payoutList
      /\ \A i \in DOMAIN payoutList :
            /\ payoutList'[i].type = payoutList[i].type
            /\ i # row => payoutList'[i] = payoutList[i]
  BY <1>2, <1>4, <1>5
<1>7. /\ past' = [past EXCEPT !.typed = @ \union {payoutList[row].type}]
      /\ flag' = ~flag /\ painted' = PayView
      /\ UNCHANGED <<saved, savedPayout, payoutData, row, loader, loading, requests>>
  BY DEF Earnings!ChangeInputValue, Earnings!Rendered, PayView
<1>8. past' \in PayPast
  <2>1. payoutList[row].type \in Methods
    BY <1>3 DEF Earnings!Setting
  <2>2. past \in PayPast
    BY DEF Earnings!TypeOK, PayPast
  <2> QED
    BY <1>7, <2>1, <2>2 DEF PayPast
<1>9. flag' \in BOOLEAN
  BY <1>7
<1> QED
  BY <1>1, <1>2, <1>6, <1>7, <1>8, <1>9

LEMMA PayUserType ==
    ASSUME Earnings!TypeOK, PayBound, PayUser PROVE Earnings!TypeOK'
<1>1. /\ flag \in BOOLEAN /\ loading \in BOOLEAN /\ loader \in BOOLEAN /\ past \in PayPast
      /\ painted \in PayPaint
  BY DEF Earnings!TypeOK, PayPast, PayPaint
<1>2. CASE Earnings!Render
  <2>1. painted' \in PayPaint
    BY <1>2, PayRendered DEF Earnings!Render
  <2> QED
    BY <1>2, <2>1 DEF Earnings!Render, Earnings!TypeOK, PayPaint
<1>3. CASE Earnings!GetEarningInformation
  <2>1. Earnings!Ask("balance", Earnings!Nothing, flag) \in Earnings!Request
    BY <1>1, PayAsked, PayNothing
  <2>2. requests' \in Seq(Earnings!Request) /\ Len(requests') <= MaxLookUps
    BY <1>3, <2>1, PaySentType DEF Earnings!GetEarningInformation
  <2>3. touches' \in 0 .. MaxTouches
    BY <1>3, PayTouch DEF Earnings!GetEarningInformation
  <2>4. painted' \in PayPaint
    BY <1>3, PayRendered DEF Earnings!GetEarningInformation
  <2>5. past' \in PayPast
    BY <1>1, <1>3 DEF Earnings!GetEarningInformation, PayPast
  <2>6. loader' \in BOOLEAN
    BY <1>3 DEF Earnings!GetEarningInformation
  <2> QED
    BY <1>3, <2>2, <2>3, <2>4, <2>5, <2>6
    DEF Earnings!GetEarningInformation, Earnings!TypeOK, PayPaint, PayPast
<1>4. CASE Earnings!CloseSheet
  <2>1. touches' \in 0 .. MaxTouches
    BY <1>4, PayTouch DEF Earnings!CloseSheet
  <2> QED
    BY <1>4, <2>1 DEF Earnings!CloseSheet, Earnings!TypeOK, Earnings!shown
<1>5. CASE Earnings!ChangeInputValue
  <2>1. /\ touches' \in 0 .. MaxTouches
        /\ payoutList' \in Seq(Earnings!Setting) /\ Len(payoutList') = Len(payoutList)
        /\ past' \in PayPast /\ flag' \in BOOLEAN /\ painted' = PayView
        /\ UNCHANGED <<saved, savedPayout, payoutData, row, loader, loading, requests>>
    BY <1>5, PayTyped
  <2>2. painted' \in PayPaint
    BY <2>1, PayRendered
  <2> QED
    BY <2>1, <2>2 DEF Earnings!TypeOK, PayPaint, PayPast
<1>6. CASE Earnings!ChangePayoutData
  <2>1. touches' \in 0 .. MaxTouches
    BY <1>6, PayTouch DEF Earnings!ChangePayoutData
  <2>2. payoutList[row] \in Earnings!Setting
    BY <1>6 DEF Earnings!ChangePayoutData, Earnings!TypeOK
  <2>3. Earnings!Ask("save", payoutList[row], flag) \in Earnings!Request
    BY <1>1, <2>2, PayAsked
  <2>4. requests' \in Seq(Earnings!Request) /\ Len(requests') <= MaxLookUps
    BY <1>6, <2>3, PaySentType DEF Earnings!ChangePayoutData
  <2>5. painted' \in PayPaint
    BY <1>1, <1>6, PayRendered DEF Earnings!ChangePayoutData
  <2>6. loading' \in BOOLEAN
    BY <1>6 DEF Earnings!ChangePayoutData
  <2> QED
    BY <1>6, <2>1, <2>4, <2>5, <2>6
    DEF Earnings!ChangePayoutData, Earnings!TypeOK, PayPaint
<1>7. ASSUME NEW i \in DOMAIN painted.rows, Earnings!OpenSheet(i) PROVE Earnings!TypeOK'
  <2>1. touches' \in 0 .. MaxTouches
    BY <1>7, PayTouch DEF Earnings!OpenSheet
  <2>2. payoutData' \in 0 .. Len(payoutList) /\ row' \in {0, payoutData'}
    <3>1. payoutData' = i /\ row' = i /\ Len(painted.rows) <= Len(payoutList)
      BY <1>7 DEF Earnings!OpenSheet, Earnings!Tapped, PayBound
    <3>2. painted.rows \in Seq(Methods) /\ payoutList \in Seq(Earnings!Setting)
      BY <1>1 DEF PayPaint, Earnings!TypeOK
    <3>3. Len(payoutList) \in Nat /\ Len(painted.rows) \in Nat /\ i \in 1 .. Len(painted.rows)
      BY <1>7, <3>2
    <3> QED
      BY <3>1, <3>3
  <2>3. painted' \in PayPaint
    BY <1>7, PayRendered DEF Earnings!OpenSheet
  <2>4. past' \in PayPast
    BY <1>1, <1>7 DEF Earnings!OpenSheet, PayPast
  <2> QED
    BY <1>7, <2>1, <2>2, <2>3, <2>4 DEF Earnings!OpenSheet, Earnings!TypeOK, PayPaint, PayPast
<1> QED
  BY <1>2, <1>3, <1>4, <1>5, <1>6, <1>7 DEF PayUser

LEMMA PayServeFacts ==
    ASSUME Earnings!TypeOK, NEW i \in DOMAIN requests, Earnings!Serve(i)
    PROVE  /\ requests' \in Seq(Earnings!Request) /\ DOMAIN requests' = DOMAIN requests
           /\ Len(requests') = Len(requests)
           /\ \A j \in DOMAIN requests : j # i => requests'[j] = requests[j]
           /\ requests'[i].kind = requests[i].kind
           /\ requests[i].kind = "payouts" => requests'[i].setting = saved
           /\ saved' \in Earnings!Setting \union {Earnings!Nothing}
           /\ saved' # saved => requests[i].kind = "save" /\ requests'[i].stage = "ok"
           /\ requests[i].stage = "sent"
           /\ requests'[i].refresh = requests[i].refresh
           /\ UNCHANGED <<payoutList, savedPayout, payoutData, row, loader, loading, flag,
                         painted, touches, past>>
<1> DEFINE S == Earnings!Setting \union {Earnings!Nothing}
<1>1. /\ requests \in Seq(Earnings!Request) /\ requests[i] \in Earnings!Request
      /\ saved \in S
  BY DEF Earnings!TypeOK
<1>2. requests[i].setting \in S
  BY <1>1 DEF Earnings!Request
<1>3. PICK stage \in {"ok", "refused"}, setting \in S :
         /\ Earnings!Reply(i, stage, setting)
         /\ saved' \in {saved, requests[i].setting}
         /\ requests[i].kind = "payouts" => setting = saved
         /\ saved' # saved => requests[i].kind = "save" /\ stage = "ok"
  <2>1. CASE requests[i].kind = "save" /\ Earnings!Reply(i, "ok", requests[i].setting)
             /\ saved' = requests[i].setting
    BY <1>2, <2>1
  <2>2. CASE requests[i].kind = "save" /\ Earnings!Reply(i, "refused", requests[i].setting)
             /\ UNCHANGED saved
    BY <1>2, <2>2
  <2>3. CASE requests[i].kind = "balance" /\ Earnings!Reply(i, "ok", Earnings!Nothing)
             /\ UNCHANGED saved
    BY <2>3
  <2>4. CASE requests[i].kind = "payouts" /\ Earnings!Reply(i, "ok", saved) /\ UNCHANGED saved
    BY <1>1, <2>4
  <2> QED
    BY <2>1, <2>2, <2>3, <2>4 DEF Earnings!Serve
<1> HIDE DEF S
<1> DEFINE a == [requests[i] EXCEPT !.stage = stage]
           b == [a EXCEPT !.setting = setting]
<1>4. /\ b \in Earnings!Request /\ b.kind = requests[i].kind
      /\ b.stage = stage /\ b.setting = setting /\ b.refresh = requests[i].refresh
  BY <1>1, <1>3 DEF Earnings!Request, S
<1>5. requests' = [requests EXCEPT ![i] = b]
  <2>1. requests' = [requests EXCEPT ![i].stage = stage, ![i].setting = setting]
    BY <1>3 DEF Earnings!Reply
  <2> QED
    BY <1>1, <2>1
<1> HIDE DEF b
<1>6. /\ requests' \in Seq(Earnings!Request) /\ DOMAIN requests' = DOMAIN requests
      /\ Len(requests') = Len(requests) /\ requests'[i] = b
      /\ \A j \in DOMAIN requests : j # i => requests'[j] = requests[j]
  BY <1>1, <1>4, <1>5
<1>7. saved' \in S
  BY <1>1, <1>2, <1>3
<1>8. /\ requests[i].stage = "sent"
      /\ UNCHANGED <<payoutList, savedPayout, payoutData, row, loader, loading, flag,
                    painted, touches, past>>
  BY <1>3 DEF Earnings!Reply, Earnings!shown
<1> QED
  BY <1>3, <1>4, <1>6, <1>7, <1>8 DEF S

LEMMA PayServeType ==
    ASSUME Earnings!TypeOK, NEW i \in DOMAIN requests, Earnings!Serve(i)
    PROVE  Earnings!TypeOK'
<1>1. /\ requests' \in Seq(Earnings!Request) /\ Len(requests') = Len(requests)
      /\ saved' \in Earnings!Setting \union {Earnings!Nothing}
      /\ UNCHANGED <<payoutList, savedPayout, payoutData, row, loader, loading, flag,
                    painted, touches, past>>
  BY PayServeFacts
<1> QED
  BY <1>1 DEF Earnings!TypeOK

\* An answer leaves the network.
LEMMA PayRemoves ==
    ASSUME Earnings!TypeOK, NEW i \in DOMAIN requests
    PROVE  LET r == RemoveAt(requests, i)
           IN  /\ r \in Seq(Earnings!Request) /\ Len(r) = Len(requests) - 1
               /\ Len(r) <= MaxLookUps /\ Len(r) + 1 <= MaxLookUps
               /\ \A k \in DOMAIN r :
                     /\ PaySkip(i, k) \in DOMAIN requests \ {i}
                     /\ r[k] = requests[PaySkip(i, k)]
               /\ \A k, l \in DOMAIN r : PaySkip(i, k) = PaySkip(i, l) => k = l
               /\ \A j \in DOMAIN requests \ {i} : \E k \in DOMAIN r : PaySkip(i, k) = j
<1>1. requests \in Seq(Earnings!Request) /\ Len(requests) <= MaxLookUps
  BY DEF Earnings!TypeOK
<1>2. Len(requests) \in Nat /\ MaxLookUps \in Nat
  BY <1>1, EarningsAssumption DEF Earnings!ConstantsAssumption
<1> QED
  BY <1>1, <1>2, PaySkipFacts

\* What the answer of a look-up makes of the arrays, and of the screen.
LEMMA PayDeliverFacts ==
    ASSUME Earnings!TypeOK, NEW i \in DOMAIN requests, Earnings!DeliverPayouts(i)
    PROVE  /\ requests[i].kind = "payouts" /\ requests[i].stage = "ok"
           /\ requests' = RemoveAt(requests, i)
           /\ UNCHANGED <<saved, payoutData, row, loading, touches>> /\ loader' = FALSE
           /\ past' = [past EXCEPT !.touched = FALSE] /\ past' \in PayPast
           /\ payoutList' \in Seq(Earnings!Setting) /\ savedPayout' \in Seq(Earnings!Setting)
           /\ Len(payoutList') >= Len(payoutList)
           /\ savedPayout' = IF requests[i].setting = Earnings!Nothing THEN savedPayout
                             ELSE Append(savedPayout, requests[i].setting)
           /\ payoutList' = IF savedPayout' = <<>> THEN payoutList \o Earnings!Blank
                            ELSE Earnings!Filled(payoutList \o Earnings!Blank, savedPayout'[1])
           /\ flag' = ~requests[i].refresh /\ flag' \in BOOLEAN
           /\ painted' = IF flag' # flag THEN Earnings!View(payoutList', savedPayout)
                         ELSE Earnings!Rendered(loader)
           /\ painted' \in PayPaint
<1>1. /\ requests[i].kind = "payouts" /\ requests[i].stage = "ok"
      /\ requests' = RemoveAt(requests, i)
      /\ UNCHANGED <<saved, payoutData, row, loading, touches>> /\ loader' = FALSE
      /\ past' = [past EXCEPT !.touched = FALSE]
      /\ savedPayout' = IF requests[i].setting = Earnings!Nothing THEN savedPayout
                        ELSE Append(savedPayout, requests[i].setting)
      /\ payoutList' = IF savedPayout' = <<>> THEN payoutList \o Earnings!Blank
                       ELSE Earnings!Filled(payoutList \o Earnings!Blank, savedPayout'[1])
      /\ flag' = ~requests[i].refresh
      /\ painted' = IF flag' # flag THEN Earnings!View(payoutList', savedPayout)
                    ELSE Earnings!Rendered(loader)
  BY PayRemoveAt DEF Earnings!DeliverPayouts, Earnings!Toggled
<1>2. /\ requests[i] \in Earnings!Request
      /\ payoutList \in Seq(Earnings!Setting) /\ savedPayout \in Seq(Earnings!Setting)
      /\ loader \in BOOLEAN /\ past \in PayPast
  BY DEF Earnings!TypeOK, PayPast
<1>3. savedPayout' \in Seq(Earnings!Setting)
  <2>1. requests[i].setting # Earnings!Nothing => requests[i].setting \in Earnings!Setting
    BY <1>2 DEF Earnings!Request
  <2> QED
    BY <1>1, <1>2, <2>1
<1> DEFINE rows == payoutList \o Earnings!Blank
<1>4. rows \in Seq(Earnings!Setting) /\ Len(rows) >= Len(payoutList)
  <2>1. Earnings!Blank \in Seq(Earnings!Setting)
    BY PayBlank, EarningsAssumption
  <2>2. Len(rows) = Len(payoutList) + Len(Earnings!Blank)
    BY <1>2, <2>1
  <2>3. Len(Earnings!Blank) \in Nat /\ Len(payoutList) \in Nat
    BY <1>2, <2>1
  <2> QED
    BY <1>2, <2>1, <2>2, <2>3
<1> HIDE DEF rows
<1>5. payoutList' \in Seq(Earnings!Setting) /\ Len(payoutList') = Len(rows)
  <2>1. CASE savedPayout' = <<>>
    BY <1>1, <1>4, <2>1 DEF rows
  <2>2. CASE savedPayout' # <<>>
    <3>1. savedPayout'[1] \in Earnings!Setting
      BY <1>3, <2>2
    <3>2. payoutList' = Earnings!Filled(rows, savedPayout'[1])
      BY <1>1, <2>2 DEF rows
    <3>3. \A first \in Earnings!Setting :
             /\ Earnings!Filled(rows, first) \in Seq(Earnings!Setting)
             /\ Len(Earnings!Filled(rows, first)) = Len(rows)
      BY <1>4, PayFilled
    <3> QED
      BY <3>1, <3>2, <3>3
  <2> QED
    BY <2>1, <2>2
<1>6. Len(payoutList') >= Len(payoutList)
  BY <1>4, <1>5
<1>7. painted' \in PayPaint
  <2>1. Earnings!Rendered(loader) \in PayPaint
    BY <1>2, PayRendered
  <2>2. PICK r \in Seq(Earnings!Setting) : r = payoutList'
    BY <1>5
  <2>3. Earnings!View(r, savedPayout) \in PayPaint
    BY <1>2, PayViews
  <2> QED
    BY <1>1, <2>1, <2>2, <2>3
<1>8. past' \in PayPast
  BY <1>1, <1>2 DEF PayPast
<1>9. flag' \in BOOLEAN
  BY <1>1
<1> QED
  BY <1>1, <1>3, <1>5, <1>6, <1>7, <1>8, <1>9

LEMMA PayAnswerType ==
    ASSUME Earnings!TypeOK, NEW i \in DOMAIN requests,
           Earnings!DeliverBalance(i) \/ Earnings!DeliverPayouts(i) \/ Earnings!Fail(i)
    PROVE  Earnings!TypeOK'
<1>1. requests' = RemoveAt(requests, i)
  BY PayRemoveAt, PayDeliverFacts DEF Earnings!DeliverBalance, Earnings!Fail
<1>2. requests' \in Seq(Earnings!Request) /\ Len(requests') <= MaxLookUps
  BY <1>1, PayRemoves
<1>3. loader \in BOOLEAN /\ past \in PayPast
  BY DEF Earnings!TypeOK, PayPast
<1>4. CASE Earnings!DeliverBalance(i)
  <2>1. painted' \in PayPaint
    <3>1. PICK changed \in BOOLEAN : painted' = Earnings!Rendered(loader \/ changed)
      BY <1>4 DEF Earnings!DeliverBalance
    <3>2. (loader \/ changed) \in BOOLEAN
      OBVIOUS
    <3> QED
      BY <3>1, <3>2, PayRendered
  <2> QED
    BY <1>2, <1>4, <2>1 DEF Earnings!DeliverBalance, Earnings!TypeOK, PayPaint
<1>5. CASE Earnings!DeliverPayouts(i)
  <2>1. /\ payoutList' \in Seq(Earnings!Setting) /\ savedPayout' \in Seq(Earnings!Setting)
        /\ Len(payoutList') >= Len(payoutList) /\ loader' = FALSE /\ flag' \in BOOLEAN
        /\ painted' \in PayPaint /\ past' \in PayPast
        /\ UNCHANGED <<saved, payoutData, row, loading, touches>>
    BY <1>5, PayDeliverFacts
  <2>2. payoutData' \in 0 .. Len(payoutList')
    <3>1. /\ Len(payoutList') \in Nat /\ Len(payoutList) \in Nat
          /\ payoutData \in 0 .. Len(payoutList)
      BY <2>1 DEF Earnings!TypeOK
    <3> QED
      BY <2>1, <3>1
  <2> QED
    BY <1>2, <2>1, <2>2 DEF Earnings!TypeOK, PayPaint, PayPast
<1>6. CASE Earnings!Fail(i)
  <2>1. past' \in PayPast
    BY <1>3, <1>6 DEF Earnings!Fail, PayPast
  <2>2. loader' \in BOOLEAN
    BY <1>6 DEF Earnings!Fail
  <2>3. painted' \in PayPaint
    <3>1. painted' = Earnings!Rendered(loader' # loader) /\ (loader' # loader) \in BOOLEAN
      BY <1>6 DEF Earnings!Fail
    <3> QED
      BY <3>1, PayRendered
  <2> QED
    BY <1>2, <1>6, <2>1, <2>2, <2>3 DEF Earnings!Fail, Earnings!TypeOK, PayPast, PayPaint
<1> QED
  BY <1>4, <1>5, <1>6

\* The answer of a save that was carried out: everything is looked up anew.
LEMMA PaySavedFacts ==
    ASSUME Earnings!TypeOK, NEW i \in DOMAIN requests, Earnings!DeliverSave(i),
           requests[i].stage = "ok"
    PROVE  LET r == RemoveAt(requests, i)
               m == Earnings!Ask("payouts", Earnings!Nothing, requests[i].refresh)
           IN  /\ requests' = Append(r, m) /\ m \in Earnings!Request
               /\ m.kind = "payouts" /\ m.stage = "sent" /\ m.refresh = requests[i].refresh
               /\ requests' \in Seq(Earnings!Request) /\ Len(requests') <= MaxLookUps
               /\ \A k \in DOMAIN requests' :
                     \/ k \in DOMAIN r /\ requests'[k] = r[k]
                     \/ k = Len(requests') /\ requests'[k] = m
<1> DEFINE r == RemoveAt(requests, i)
           m == Earnings!Ask("payouts", Earnings!Nothing, requests[i].refresh)
<1>1. requests' = Append(r, m)
  BY PayRemoveAt DEF Earnings!DeliverSave
<1>2. /\ m \in Earnings!Request /\ m.kind = "payouts" /\ m.stage = "sent"
      /\ m.refresh = requests[i].refresh
  <2>1. requests[i] \in Earnings!Request
    BY DEF Earnings!TypeOK
  <2>2. requests[i].refresh \in BOOLEAN
    BY <2>1 DEF Earnings!Request
  <2>3. m \in Earnings!Request
    BY <2>2, PayAsked, PayNothing
  <2> QED
    BY <2>3 DEF Earnings!Ask
<1>3. r \in Seq(Earnings!Request) /\ Len(r) + 1 <= MaxLookUps /\ Len(r) \in Nat
  BY PayRemoves
<1> HIDE DEF r, m
<1>4. /\ requests' \in Seq(Earnings!Request) /\ Len(requests') = Len(r) + 1
      /\ \A k \in 1 .. Len(r) : requests'[k] = r[k]
      /\ requests'[Len(r) + 1] = m
  BY <1>1, <1>2, <1>3
<1>5. DOMAIN requests' = 1 .. Len(r) + 1 /\ DOMAIN r = 1 .. Len(r)
  BY <1>3, <1>4
<1>6. ASSUME NEW k \in DOMAIN requests'
      PROVE  \/ k \in DOMAIN r /\ requests'[k] = r[k]
             \/ k = Len(requests') /\ requests'[k] = m
  <2>1. k \in 1 .. Len(r) \/ k = Len(r) + 1
    BY <1>3, <1>5
  <2> QED
    BY <1>4, <1>5, <2>1
<1> QED
  BY <1>1, <1>2, <1>3, <1>4, <1>6 DEF r, m

LEMMA PaySaveType ==
    ASSUME Earnings!TypeOK, NEW i \in DOMAIN requests, Earnings!DeliverSave(i)
    PROVE  Earnings!TypeOK'
<1>1. row' = 0 /\ loading' = FALSE /\ UNCHANGED <<saved, flag, touches>>
  BY DEF Earnings!DeliverSave
<1>2. loading \in BOOLEAN /\ loader \in BOOLEAN
  BY DEF Earnings!TypeOK
<1>3. CASE requests[i].stage = "ok"
  <2>1. requests' \in Seq(Earnings!Request) /\ Len(requests') <= MaxLookUps
    BY <1>3, PaySavedFacts
  <2>2. payoutList' = <<>> /\ savedPayout' = <<>> /\ loader' = TRUE /\ payoutData' = 0
    BY <1>3 DEF Earnings!DeliverSave, Earnings!Emptied
  <2>3. past' \in PayPast
    <3> DEFINE b == Earnings!Asked("payouts") # {}
               c == requests[i].refresh # flag
    <3>1. past' = [failed |-> FALSE, twice |-> b, typed |-> {}, meanwhile |-> c,
                   touched |-> FALSE]
      BY <1>3 DEF Earnings!DeliverSave
    <3>2. b \in BOOLEAN /\ c \in BOOLEAN
      OBVIOUS
    <3> HIDE DEF b, c
    <3>3. PICK d \in BOOLEAN, e \in BOOLEAN : d = b /\ e = c
      BY <3>2
    <3>4. past' = [failed |-> FALSE, twice |-> d, typed |-> {}, meanwhile |-> e,
                   touched |-> FALSE]
      BY <3>1, <3>3
    <3> QED
      BY <3>4 DEF PayPast
  <2>4. /\ payoutList' \in Seq(Earnings!Setting) /\ savedPayout' \in Seq(Earnings!Setting)
        /\ payoutData' \in 0 .. Len(payoutList') /\ row' \in {0, payoutData'}
        /\ loader' \in BOOLEAN /\ loading' \in BOOLEAN
    <3>1. payoutList' \in Seq(Earnings!Setting) /\ savedPayout' \in Seq(Earnings!Setting)
      BY <2>2
    <3>2. payoutData' = 0 /\ payoutData' \in 0 .. Len(payoutList')
      BY <2>2, <3>1
    <3>3. row' \in {0, payoutData'} /\ loader' \in BOOLEAN /\ loading' \in BOOLEAN
      BY <1>1, <2>2
    <3> QED
      BY <3>1, <3>2, <3>3
  <2>5. painted' \in PayPaint
    <3>1. painted' = IF loader THEN Earnings!Rendered(loading) ELSE Earnings!View(<<>>, <<>>)
      BY <1>3 DEF Earnings!DeliverSave
    <3>2. <<>> \in Seq(Earnings!Setting)
      OBVIOUS
    <3> QED
      BY <1>2, <3>1, <3>2, PayViews, PayRendered
  <2> QED
    BY <1>1, <2>1, <2>3, <2>4, <2>5 DEF Earnings!TypeOK, PayPast, PayPaint
<1>4. CASE requests[i].stage # "ok"
  <2>1. /\ requests' = RemoveAt(requests, i)
        /\ UNCHANGED <<payoutList, savedPayout, payoutData, loader, past>>
        /\ painted' = Earnings!Rendered(loading)
    BY <1>4, PayRemoveAt DEF Earnings!DeliverSave
  <2>2. requests' \in Seq(Earnings!Request) /\ Len(requests') <= MaxLookUps
    BY <2>1, PayRemoves
  <2>3. painted' \in PayPaint
    BY <1>2, <2>1, PayRendered
  <2>4. row' \in {0, payoutData'} /\ loading' \in BOOLEAN
    BY <1>1
  <2> QED
    BY <1>1, <2>1, <2>2, <2>3, <2>4 DEF Earnings!TypeOK, PayPaint
<1> QED
  BY <1>3, <1>4

-----------------------------------------------------------------------------
(* The methods shown                                                       *)

\* One look-up at a time, unless two refreshes met.
PayOnce ==
    ~past.twice =>
        \A i, j \in DOMAIN requests :
            requests[i].kind = "payouts" /\ requests[j].kind = "payouts" => i = j

\* A save was carried out whose answer is still to come.
PayWritten == \E i \in DOMAIN requests : requests[i].kind = "save" /\ requests[i].stage = "ok"

PayShows ==
    /\ savedPayout = IF saved = Earnings!Nothing THEN <<>> ELSE <<saved>>
    /\ PayRows(payoutList)
    /\ \A i \in DOMAIN payoutList :
          payoutList[i].type \notin past.typed =>
              payoutList[i].value = IF payoutList[i].type = saved.type THEN saved.value ELSE 0

\* The answer of a look-up is what the server has, and with none in flight that is
\* shown.  Not so until the answer of a save that was carried out has come: it will
\* have everything looked up anew.
PayCurrent ==
    ~past.failed /\ ~past.twice /\ ~PayWritten =>
        /\ \A i \in DOMAIN requests :
              requests[i].kind = "payouts" /\ requests[i].stage = "ok" =>
                  requests[i].setting = saved
        /\ (\A i \in DOMAIN requests : requests[i].kind # "payouts") => PayShows

\* While a look-up is in flight the arrays are empty.
PayEmpty ==
    ~past.failed /\ ~past.twice =>
        \A i \in DOMAIN requests : requests[i].kind = "payouts" =>
            payoutList = <<>> /\ savedPayout = <<>>

\* Until its answer nothing is painted, once the overlay is down, and its answer will
\* change refresh, unless a field was typed into after the button was touched.
PayFlag ==
    ~past.failed /\ ~past.twice =>
        \A i \in DOMAIN requests : requests[i].kind = "payouts" =>
            /\ loader \/ painted = PayView
            /\ ~past.meanwhile => requests[i].refresh = flag

\* After it the rows are painted, and perhaps the one that is saved; a sheet that was
\* opened has painted it.
PayPainted ==
    ~past.failed /\ ~past.twice /\ (\A i \in DOMAIN requests : requests[i].kind # "payouts") =>
        /\ painted.mark \in {none, PayView.mark}
        /\ ~past.meanwhile => painted.rows = PayView.rows
        /\ past.touched => painted = PayView
        /\ payoutData # 0 => past.touched

PayScreen == PayFlag /\ PayPainted

PayInv == Earnings!TypeOK /\ PayBound /\ PayOnce /\ PayEmpty /\ PayCurrent

LEMMA PayInitInv == ASSUME Earnings!Init PROVE PayInv /\ PayScreen
<1>1. Earnings!TypeOK /\ PayBound
  BY PayInitType, EarningsAssumption
<1>2. /\ requests[1].kind = "balance" /\ requests[2].kind = "payouts"
      /\ requests[2].stage = "sent" /\ DOMAIN requests = 1 .. 2
      /\ payoutList = <<>> /\ savedPayout = <<>>
  BY DEF Earnings!Init, Earnings!Ask
<1>3. \A i \in DOMAIN requests : i = 1 \/ i = 2
  BY <1>2
<1>4. PayOnce /\ PayEmpty /\ PayCurrent
  BY <1>2, <1>3 DEF PayOnce, PayEmpty, PayCurrent
<1>5. PayFlag
  <2>1. loader = TRUE /\ flag = FALSE /\ requests[2].refresh = FALSE
    BY DEF Earnings!Init, Earnings!Ask
  <2> QED
    BY <1>2, <1>3, <2>1 DEF PayFlag
<1>6. PayPainted
  BY <1>2 DEF PayPainted
<1> QED
  BY <1>1, <1>4, <1>5, <1>6 DEF PayInv, PayScreen

\* What the user does leaves the look-ups alone, and asks for no other.
LEMMA PayUserFacts ==
    ASSUME Earnings!TypeOK, PayUser
    PROVE  /\ \A i \in DOMAIN requests : i \in DOMAIN requests' /\ requests'[i] = requests[i]
           /\ \A i \in DOMAIN requests' :
                 \/ i \in DOMAIN requests
                 \/ requests'[i].kind # "payouts" /\ requests'[i].stage = "sent"
           /\ UNCHANGED <<saved, savedPayout>>
           /\ past'.failed = past.failed /\ past'.twice = past.twice
           /\ payoutList = <<>> => payoutList' = <<>>
           /\ PayShows => PayShows'
<1>1. ASSUME UNCHANGED <<saved, savedPayout, payoutList>>,
             past'.failed = past.failed, past'.twice = past.twice, past'.typed = past.typed,
             \/ UNCHANGED requests
             \/ \E m \in Earnings!Request : /\ m.kind # "payouts" /\ m.stage = "sent"
                                            /\ Earnings!Send(m)
      PROVE  /\ \A i \in DOMAIN requests : i \in DOMAIN requests' /\ requests'[i] = requests[i]
             /\ \A i \in DOMAIN requests' :
                   \/ i \in DOMAIN requests
                   \/ requests'[i].kind # "payouts" /\ requests'[i].stage = "sent"
             /\ UNCHANGED <<saved, savedPayout>>
             /\ past'.failed = past.failed /\ past'.twice = past.twice
             /\ payoutList = <<>> => payoutList' = <<>>
             /\ PayShows => PayShows'
  <2>1. PayShows => PayShows'
    BY <1>1 DEF PayShows, PayRows, Earnings!Nothing
  <2>2. CASE UNCHANGED requests
    BY <1>1, <2>1, <2>2
  <2>3. ASSUME NEW m \in Earnings!Request, m.kind # "payouts", m.stage = "sent",
               Earnings!Send(m)
        PROVE  /\ \A i \in DOMAIN requests : i \in DOMAIN requests' /\ requests'[i] = requests[i]
               /\ \A i \in DOMAIN requests' :
                     \/ i \in DOMAIN requests
                     \/ requests'[i].kind # "payouts" /\ requests'[i].stage = "sent"
    <3>1. /\ \A i \in DOMAIN requests : i \in DOMAIN requests' /\ requests'[i] = requests[i]
          /\ \A i \in DOMAIN requests' : i \in DOMAIN requests \/ requests'[i] = m
      BY <2>3, PaySentType
    <3> QED
      BY <2>3, <3>1
  <2> QED
    BY <1>1, <2>1, <2>2, <2>3
<1>2. past \in PayPast /\ flag \in BOOLEAN
  BY DEF Earnings!TypeOK, PayPast
<1>3. CASE Earnings!ChangeInputValue
  <2>1. /\ row \in DOMAIN payoutList
        /\ DOMAIN payoutList' = DOMAIN payoutList
        /\ \A i \in DOMAIN payoutList :
              /\ payoutList'[i].type = payoutList[i].type
              /\ i # row => payoutList'[i] = payoutList[i]
        /\ past' = [past EXCEPT !.typed = @ \union {payoutList[row].type}]
        /\ UNCHANGED <<saved, savedPayout, requests>>
    BY <1>3, PayTyped
  <2>2. /\ past'.failed = past.failed /\ past'.twice = past.twice
        /\ past'.typed = past.typed \union {payoutList[row].type}
    BY <1>2, <2>1 DEF PayPast
  <2>3. PayRows(payoutList) => PayRows(payoutList')
    BY <2>1 DEF PayRows
  <2>4. PayShows => PayShows'
    <3> SUFFICES ASSUME PayShows PROVE PayShows'
      OBVIOUS
    <3>1. ASSUME NEW i \in DOMAIN payoutList', payoutList'[i].type \notin past'.typed
          PROVE  payoutList'[i].value =
                     IF payoutList'[i].type = saved.type THEN saved.value ELSE 0
      <4>1. i # row /\ payoutList'[i] = payoutList[i] /\ payoutList[i].type \notin past.typed
        BY <2>1, <2>2, <3>1
      <4> QED
        BY <2>1, <4>1 DEF PayShows
    <3> QED
      BY <2>1, <2>3, <3>1 DEF PayShows, PayRows, Earnings!Nothing
  <2>5. payoutList # <<>>
    BY <2>1
  <2> QED
    BY <2>1, <2>2, <2>4, <2>5
<1>4. CASE Earnings!GetEarningInformation
  <2>1. Earnings!Ask("balance", Earnings!Nothing, flag) \in Earnings!Request
    BY <1>2, PayAsked, PayNothing
  <2>2. /\ Earnings!Ask("balance", Earnings!Nothing, flag).kind # "payouts"
        /\ Earnings!Ask("balance", Earnings!Nothing, flag).stage = "sent"
    BY DEF Earnings!Ask
  <2>3. /\ past'.failed = past.failed /\ past'.twice = past.twice /\ past'.typed = past.typed
        /\ UNCHANGED <<saved, savedPayout, payoutList>>
        /\ Earnings!Send(Earnings!Ask("balance", Earnings!Nothing, flag))
    BY <1>2, <1>4 DEF Earnings!GetEarningInformation, PayPast
  <2> QED
    BY <1>1, <2>1, <2>2, <2>3
<1>5. CASE Earnings!ChangePayoutData
  <2> DEFINE m == Earnings!Ask("save", payoutList[row], flag)
  <2>1. payoutList[row] \in Earnings!Setting
    BY <1>5 DEF Earnings!ChangePayoutData, Earnings!TypeOK
  <2>2. m \in Earnings!Request
    BY <1>2, <2>1, PayAsked
  <2>3. m.kind # "payouts" /\ m.stage = "sent"
    BY DEF Earnings!Ask
  <2>4. UNCHANGED <<saved, savedPayout, payoutList, past>> /\ Earnings!Send(m)
    BY <1>5 DEF Earnings!ChangePayoutData
  <2> HIDE DEF m
  <2> QED
    BY <1>1, <2>2, <2>3, <2>4
<1>6. CASE Earnings!Render \/ Earnings!CloseSheet
  BY <1>1, <1>6 DEF Earnings!Render, Earnings!CloseSheet
<1>7. ASSUME NEW i \in DOMAIN painted.rows, Earnings!OpenSheet(i)
      PROVE  /\ past'.failed = past.failed /\ past'.twice = past.twice
             /\ past'.typed = past.typed
             /\ UNCHANGED <<saved, savedPayout, payoutList, requests>>
  BY <1>2, <1>7 DEF Earnings!OpenSheet, PayPast
<1> QED
  BY <1>1, <1>3, <1>4, <1>5, <1>6, <1>7 DEF PayUser

LEMMA PayUserInv ==
    ASSUME PayInv, PayUser PROVE Earnings!TypeOK' /\ PayOnce' /\ PayEmpty' /\ PayCurrent'
<1>1. /\ \A i \in DOMAIN requests : i \in DOMAIN requests' /\ requests'[i] = requests[i]
      /\ \A i \in DOMAIN requests' :
            \/ i \in DOMAIN requests
            \/ requests'[i].kind # "payouts" /\ requests'[i].stage = "sent"
      /\ UNCHANGED <<saved, savedPayout>>
      /\ past'.failed = past.failed /\ past'.twice = past.twice
      /\ payoutList = <<>> => payoutList' = <<>>
      /\ PayShows => PayShows'
  BY PayUserFacts DEF PayInv
<1>2. Earnings!TypeOK'
  BY PayUserType DEF PayInv
<1>3. PayOnce'
  BY <1>1 DEF PayInv, PayOnce
<1>4. PayEmpty'
  BY <1>1 DEF PayInv, PayEmpty
<1>5. PayWritten => PayWritten'
  BY <1>1 DEF PayWritten
<1>6. PayCurrent'
  <2> SUFFICES ASSUME ~past.failed, ~past.twice, ~PayWritten
               PROVE  /\ \A i \in DOMAIN requests' :
                            requests'[i].kind = "payouts" /\ requests'[i].stage = "ok" =>
                                requests'[i].setting = saved
                      /\ (\A i \in DOMAIN requests' : requests'[i].kind # "payouts") => PayShows'
    BY <1>1, <1>5 DEF PayCurrent
  <2>1. /\ \A i \in DOMAIN requests :
              requests[i].kind = "payouts" /\ requests[i].stage = "ok" =>
                  requests[i].setting = saved
        /\ (\A i \in DOMAIN requests : requests[i].kind # "payouts") => PayShows
    BY DEF PayInv, PayCurrent
  <2> QED
    BY <1>1, <2>1
<1> QED
  BY <1>2, <1>3, <1>4, <1>6

LEMMA PayServeInv ==
    ASSUME PayInv, NEW i \in DOMAIN requests, Earnings!Serve(i)
    PROVE  Earnings!TypeOK' /\ PayOnce' /\ PayEmpty' /\ PayCurrent'
<1>1. /\ DOMAIN requests' = DOMAIN requests
      /\ \A j \in DOMAIN requests : j # i => requests'[j] = requests[j]
      /\ requests'[i].kind = requests[i].kind
      /\ requests[i].kind = "payouts" => requests'[i].setting = saved
      /\ saved' # saved => requests[i].kind = "save" /\ requests'[i].stage = "ok"
      /\ requests[i].stage = "sent"
      /\ UNCHANGED <<payoutList, savedPayout, past>>
  BY PayServeFacts DEF PayInv
<1>2. Earnings!TypeOK'
  BY PayServeType DEF PayInv
<1>3. \A j \in DOMAIN requests : requests'[j].kind = requests[j].kind
  BY <1>1
<1>4. PayOnce' /\ PayEmpty'
  BY <1>1, <1>3 DEF PayInv, PayOnce, PayEmpty
<1>5. ~PayWritten' => ~PayWritten /\ saved' = saved
  BY <1>1 DEF PayWritten
<1>6. PayCurrent'
  <2> SUFFICES ASSUME ~past.failed, ~past.twice, ~PayWritten, saved' = saved
               PROVE  /\ \A j \in DOMAIN requests' :
                            requests'[j].kind = "payouts" /\ requests'[j].stage = "ok" =>
                                requests'[j].setting = saved
                      /\ (\A j \in DOMAIN requests' : requests'[j].kind # "payouts") => PayShows'
    BY <1>1, <1>5 DEF PayCurrent
  <2>1. /\ \A j \in DOMAIN requests :
              requests[j].kind = "payouts" /\ requests[j].stage = "ok" =>
                  requests[j].setting = saved
        /\ (\A j \in DOMAIN requests : requests[j].kind # "payouts") => PayShows
    BY DEF PayInv, PayCurrent
  <2>2. PayShows => PayShows'
    BY <1>1 DEF PayShows, PayRows, Earnings!Nothing
  <2> QED
    BY <1>1, <1>3, <2>1, <2>2
<1> QED
  BY <1>2, <1>4, <1>6

\* An answer that is not that of a look-up, nor of a save that was carried out.
LEMMA PayAnswerInv ==
    ASSUME PayInv, NEW i \in DOMAIN requests,
           requests' = RemoveAt(requests, i),
           UNCHANGED <<saved, payoutList, savedPayout>>, past'.twice = past.twice,
           past'.typed = past.typed,
           past'.failed \/ /\ past'.failed = past.failed /\ requests[i].kind # "payouts"
                           /\ ~(requests[i].kind = "save" /\ requests[i].stage = "ok")
    PROVE  PayOnce' /\ PayEmpty' /\ PayCurrent'
<1>1. /\ \A k \in DOMAIN requests' :
            /\ PaySkip(i, k) \in DOMAIN requests \ {i}
            /\ requests'[k] = requests[PaySkip(i, k)]
      /\ \A k, l \in DOMAIN requests' : PaySkip(i, k) = PaySkip(i, l) => k = l
      /\ \A j \in DOMAIN requests \ {i} : \E k \in DOMAIN requests' : PaySkip(i, k) = j
  BY PayRemoves DEF PayInv
<1>2. PayOnce'
  <2> SUFFICES ASSUME ~past.twice, NEW k \in DOMAIN requests', NEW l \in DOMAIN requests',
                      requests'[k].kind = "payouts", requests'[l].kind = "payouts"
               PROVE  k = l
    BY DEF PayOnce
  <2> QED
    BY <1>1 DEF PayInv, PayOnce
<1>3. PayEmpty' /\ PayCurrent'
  <2> SUFFICES ASSUME ~past'.failed, ~past.twice
               PROVE  PayEmpty' /\ PayCurrent'
    BY DEF PayEmpty, PayCurrent
  <2>1. ~past.failed /\ requests[i].kind # "payouts"
        /\ ~(requests[i].kind = "save" /\ requests[i].stage = "ok")
    OBVIOUS
  <2>2. PayEmpty'
    BY <1>1, <2>1 DEF PayInv, PayEmpty
  <2>3. PayWritten => PayWritten'
    <3> SUFFICES ASSUME NEW j \in DOMAIN requests, requests[j].kind = "save",
                        requests[j].stage = "ok"
                 PROVE  PayWritten'
      BY DEF PayWritten
    <3>1. PICK k \in DOMAIN requests' : PaySkip(i, k) = j
      BY <1>1, <2>1
    <3> QED
      BY <1>1, <3>1 DEF PayWritten
  <2>4. PayCurrent'
    <3> SUFFICES ASSUME ~PayWritten
                 PROVE  /\ \A k \in DOMAIN requests' :
                              requests'[k].kind = "payouts" /\ requests'[k].stage = "ok" =>
                                  requests'[k].setting = saved
                        /\ (\A k \in DOMAIN requests' : requests'[k].kind # "payouts") => PayShows'
      BY <2>3 DEF PayCurrent
    <3>1. /\ \A j \in DOMAIN requests :
                requests[j].kind = "payouts" /\ requests[j].stage = "ok" =>
                    requests[j].setting = saved
          /\ (\A j \in DOMAIN requests : requests[j].kind # "payouts") => PayShows
      BY <2>1 DEF PayInv, PayCurrent
    <3>2. PayShows => PayShows'
      BY DEF PayShows, PayRows, Earnings!Nothing
    <3>3. (\A k \in DOMAIN requests' : requests'[k].kind # "payouts") =>
              \A j \in DOMAIN requests : requests[j].kind # "payouts"
      BY <1>1, <2>1
    <3> QED
      BY <1>1, <3>1, <3>2, <3>3
  <2> QED
    BY <2>2, <2>4
<1> QED
  BY <1>2, <1>3

\* The answer of the look-up fills the empty arrays with what the server has.
LEMMA PayPayoutsInv ==
    ASSUME PayInv, NEW i \in DOMAIN requests, Earnings!DeliverPayouts(i)
    PROVE  Earnings!TypeOK' /\ PayOnce' /\ PayEmpty' /\ PayCurrent'
<1>1. Earnings!TypeOK' /\ past \in PayPast
  BY PayAnswerType DEF PayInv, Earnings!TypeOK, PayPast
<1>2. /\ requests[i].kind = "payouts" /\ requests[i].stage = "ok"
      /\ requests' = RemoveAt(requests, i)
      /\ saved' = saved /\ past' = [past EXCEPT !.touched = FALSE]
      /\ savedPayout' = IF requests[i].setting = Earnings!Nothing THEN savedPayout
                        ELSE Append(savedPayout, requests[i].setting)
      /\ payoutList' = IF savedPayout' = <<>> THEN payoutList \o Earnings!Blank
                       ELSE Earnings!Filled(payoutList \o Earnings!Blank, savedPayout'[1])
  BY PayDeliverFacts DEF PayInv
<1>3. /\ \A k \in DOMAIN requests' :
            /\ PaySkip(i, k) \in DOMAIN requests \ {i}
            /\ requests'[k] = requests[PaySkip(i, k)]
      /\ \A k, l \in DOMAIN requests' : PaySkip(i, k) = PaySkip(i, l) => k = l
      /\ \A j \in DOMAIN requests \ {i} : \E k \in DOMAIN requests' : PaySkip(i, k) = j
  BY <1>2, PayRemoves DEF PayInv
<1>4. past'.twice = past.twice /\ past'.failed = past.failed
  BY <1>1, <1>2 DEF PayPast
<1>5. PayOnce'
  <2> SUFFICES ASSUME ~past.twice, NEW k \in DOMAIN requests', NEW l \in DOMAIN requests',
                      requests'[k].kind = "payouts", requests'[l].kind = "payouts"
               PROVE  k = l
    BY <1>4 DEF PayOnce
  <2> QED
    BY <1>3 DEF PayInv, PayOnce
<1>6. PayEmpty' /\ PayCurrent'
  <2> SUFFICES ASSUME ~past.failed, ~past.twice PROVE PayEmpty' /\ PayCurrent'
    BY <1>4 DEF PayEmpty, PayCurrent
  <2>1. ASSUME NEW k \in DOMAIN requests' PROVE requests'[k].kind # "payouts"
    BY <1>2, <1>3 DEF PayInv, PayOnce
  <2>2. PayWritten => PayWritten'
    <3> SUFFICES ASSUME NEW j \in DOMAIN requests, requests[j].kind = "save",
                        requests[j].stage = "ok"
                 PROVE  PayWritten'
      BY DEF PayWritten
    <3>1. j # i
      BY <1>2
    <3>2. PICK k \in DOMAIN requests' : PaySkip(i, k) = j
      BY <1>3, <3>1
    <3> QED
      BY <1>3, <3>2 DEF PayWritten
  <2>3. ASSUME ~PayWritten PROVE PayShows'
    <3>1. requests[i].setting = saved /\ payoutList = <<>> /\ savedPayout = <<>>
      BY <1>2, <2>3 DEF PayInv, PayCurrent, PayEmpty
    <3>2. /\ Earnings!Blank \in Seq(Earnings!Setting) /\ PayRows(Earnings!Blank)
          /\ \A j \in DOMAIN Earnings!Blank : Earnings!Blank[j].value = 0
      BY PayBlank, EarningsAssumption
    <3>3. payoutList \o Earnings!Blank = Earnings!Blank
      BY <3>1, <3>2
    <3>4. \A j \in DOMAIN Earnings!Blank : Earnings!Blank[j].type \in Methods
      <4>1. \A j \in DOMAIN Earnings!Blank : Earnings!Blank[j] \in Earnings!Setting
        BY <3>2
      <4> QED
        BY <4>1 DEF Earnings!Setting
    <3>5. CASE saved = Earnings!Nothing
      <4>1. savedPayout' = <<>> /\ payoutList' = Earnings!Blank
        BY <1>2, <3>1, <3>3, <3>5
      <4>2. saved' = Earnings!Nothing /\ saved.type = none /\ none \notin Methods
        BY <1>2, <3>5, EarningsAssumption DEF Earnings!Nothing, Earnings!ConstantsAssumption
      <4>3. \A j \in DOMAIN payoutList' :
               payoutList'[j].value = IF payoutList'[j].type = saved.type THEN saved.value ELSE 0
        BY <3>2, <3>4, <4>1, <4>2
      <4>4. PayRows(payoutList')
        BY <3>2, <4>1
      <4>5. saved' = saved /\ savedPayout' = <<>>
        BY <1>2, <4>1
      <4>6. (saved = Earnings!Nothing)'
        BY <4>2 DEF Earnings!Nothing
      <4> QED
        BY <4>3, <4>4, <4>5, <4>6 DEF PayShows, PayRows, Earnings!Nothing
    <3>6. CASE saved # Earnings!Nothing
      <4>1. saved \in Earnings!Setting
        BY <3>6 DEF PayInv, Earnings!TypeOK
      <4>2. savedPayout' = <<saved>>
        BY <1>2, <3>1, <3>6
      <4>3. payoutList' = Earnings!Filled(Earnings!Blank, saved)
        BY <1>2, <3>3, <4>2
      <4>4. /\ DOMAIN payoutList' = DOMAIN Earnings!Blank
            /\ \A j \in DOMAIN Earnings!Blank :
                  /\ payoutList'[j].type = Earnings!Blank[j].type
                  /\ payoutList'[j].value = IF Earnings!Blank[j].type = saved.type THEN saved.value
                                            ELSE Earnings!Blank[j].value
        BY <3>2, <4>1, <4>3, PayFilled
      <4>5. PayRows(payoutList')
        BY <3>2, <4>4 DEF PayRows
      <4>6. \A j \in DOMAIN payoutList' :
               payoutList'[j].value = IF payoutList'[j].type = saved.type THEN saved.value ELSE 0
        BY <3>2, <4>4
      <4>7. saved' = saved /\ savedPayout' = <<saved>>
        BY <1>2, <4>2
      <4> QED
        BY <3>6, <4>5, <4>6, <4>7 DEF PayShows, PayRows, Earnings!Nothing
    <3> QED
      BY <3>5, <3>6
  <2>4. PayEmpty'
    BY <2>1 DEF PayEmpty
  <2>5. PayCurrent'
    BY <2>1, <2>2, <2>3 DEF PayCurrent
  <2> QED
    BY <2>4, <2>5
<1> QED
  BY <1>1, <1>5, <1>6

\* The answer of a save empties the arrays and looks up anew.
LEMMA PaySaveInv ==
    ASSUME PayInv, NEW i \in DOMAIN requests, Earnings!DeliverSave(i),
           requests[i].stage = "ok"
    PROVE  Earnings!TypeOK' /\ PayOnce' /\ PayEmpty' /\ PayCurrent'
<1>1. Earnings!TypeOK'
  BY PaySaveType DEF PayInv
<1> DEFINE r == RemoveAt(requests, i)
<1>2. /\ \A k \in DOMAIN r : r[k] = requests[PaySkip(i, k)] /\ PaySkip(i, k) \in DOMAIN requests
      /\ \A k \in DOMAIN requests' :
            \/ k \in DOMAIN r /\ requests'[k] = r[k]
            \/ k = Len(requests') /\ requests'[k].kind = "payouts" /\ requests'[k].stage = "sent"
      /\ Len(requests') \in DOMAIN requests' /\ requests'[Len(requests')].kind = "payouts"
  <2>1. \A k \in DOMAIN r : r[k] = requests[PaySkip(i, k)] /\ PaySkip(i, k) \in DOMAIN requests
    BY PayRemoves DEF PayInv
  <2>2. \A k \in DOMAIN requests' :
            \/ k \in DOMAIN r /\ requests'[k] = r[k]
            \/ k = Len(requests') /\ requests'[k].kind = "payouts" /\ requests'[k].stage = "sent"
    BY PaySavedFacts DEF PayInv
  <2>3. /\ requests' = Append(r, Earnings!Ask("payouts", Earnings!Nothing, requests[i].refresh))
        /\ Earnings!Ask("payouts", Earnings!Nothing, requests[i].refresh).kind = "payouts"
        /\ Earnings!Ask("payouts", Earnings!Nothing, requests[i].refresh) \in Earnings!Request
    BY PaySavedFacts DEF PayInv
  <2>4. r \in Seq(Earnings!Request)
    BY PayRemoves DEF PayInv
  <2> HIDE DEF r
  <2>5. Len(requests') = Len(r) + 1 /\ requests'[Len(r) + 1].kind = "payouts"
        /\ Len(r) + 1 \in DOMAIN requests'
    BY <2>3, <2>4
  <2> QED
    BY <2>1, <2>2, <2>5
<1>3. payoutList' = <<>> /\ savedPayout' = <<>>
  BY DEF Earnings!DeliverSave, Earnings!Emptied
<1>4. ~past'.twice => \A j \in DOMAIN requests : requests[j].kind # "payouts"
  <2>1. past'.twice = (Earnings!Asked("payouts") # {})
    BY DEF Earnings!DeliverSave
  <2> QED
    BY <2>1 DEF Earnings!Asked
<1> HIDE DEF r
<1>5. ~past'.twice =>
         \A k \in DOMAIN requests' : requests'[k].kind = "payouts" =>
             k = Len(requests') /\ requests'[k].stage = "sent"
  BY <1>2, <1>4
<1>6. PayOnce' /\ PayEmpty'
  BY <1>3, <1>5 DEF PayOnce, PayEmpty
<1>7. PayCurrent'
  BY <1>2, <1>5 DEF PayCurrent
<1> QED
  BY <1>1, <1>6, <1>7

-----------------------------------------------------------------------------
(* What is painted of the methods                                          *)

\* A step that leaves the methods of the rows alone, and looks none up.
PaySteady ==
    /\ painted' \in {painted, PayView} /\ PayView' = PayView
    /\ Len(payoutList') = Len(payoutList)
    /\ loader' \/ painted' = PayView \/ ~loader
    /\ past'.meanwhile = past.meanwhile
    /\ \/ past'.touched = past.touched /\ payoutData' \in {0, payoutData}
       \/ past'.touched /\ (painted' = PayView \/ payoutData # 0)

\* The look-ups in flight are those that were.
PayLookUps ==
    /\ \A k \in DOMAIN requests' : requests'[k].kind = "payouts" =>
          \E j \in DOMAIN requests :
              requests[j].kind = "payouts" /\ requests'[k].refresh = requests[j].refresh
    /\ \A j \in DOMAIN requests : requests[j].kind = "payouts" =>
          \E k \in DOMAIN requests' : requests'[k].kind = "payouts"

LEMMA PayBoundKept ==
    ASSUME Earnings!TypeOK, PayBound, PaySteady PROVE PayBound'
<1>1. /\ payoutList \in Seq(Earnings!Setting) /\ savedPayout \in Seq(Earnings!Setting)
      /\ Len(payoutList) \in Nat
  BY DEF Earnings!TypeOK
<1>2. Len(PayView.rows) = Len(payoutList)
  BY <1>1, PayViews DEF PayView
<1>3. CASE painted' = PayView
  BY <1>1, <1>2, <1>3 DEF PayBound, PaySteady
<1>4. CASE painted' # PayView
  BY <1>4 DEF PayBound, PaySteady
<1> QED
  BY <1>3, <1>4

LEMMA PayScreenKept ==
    ASSUME PayInv, PayScreen, PaySteady,
           \/ past'.failed
           \/ /\ past'.failed = past.failed /\ past'.twice = past.twice
              /\ PayLookUps /\ (flag' = flag \/ payoutList # <<>>)
    PROVE  PayScreen'
<1>1. CASE past'.failed
  BY <1>1 DEF PayScreen, PayFlag, PayPainted
<1>2. CASE ~past'.failed
  <2>1. past'.failed = past.failed /\ past'.twice = past.twice /\ PayLookUps
        /\ (flag' = flag \/ payoutList # <<>>)
    BY <1>2
  <2>2. PayFlag'
    <3> SUFFICES ASSUME ~past.failed, ~past.twice,
                        NEW k \in DOMAIN requests', requests'[k].kind = "payouts"
                 PROVE  /\ loader' \/ painted' = PayView'
                        /\ ~past'.meanwhile => requests'[k].refresh = flag'
      BY <2>1 DEF PayFlag
    <3>1. PICK j \in DOMAIN requests :
             requests[j].kind = "payouts" /\ requests'[k].refresh = requests[j].refresh
      BY <2>1 DEF PayLookUps
    <3>2. payoutList = <<>>
      BY <3>1 DEF PayInv, PayEmpty
    <3>3. /\ loader \/ painted = PayView
          /\ ~past.meanwhile => requests[j].refresh = flag
      BY <3>1 DEF PayScreen, PayFlag
    <3> QED
      BY <2>1, <3>1, <3>2, <3>3 DEF PaySteady
  <2>3. PayPainted'
    <3> SUFFICES ASSUME ~past.failed, ~past.twice,
                        \A k \in DOMAIN requests' : requests'[k].kind # "payouts"
                 PROVE  /\ painted'.mark \in {none, PayView'.mark}
                        /\ ~past'.meanwhile => painted'.rows = PayView'.rows
                        /\ past'.touched => painted' = PayView'
                        /\ payoutData' # 0 => past'.touched
      BY <2>1 DEF PayPainted
    <3>1. \A j \in DOMAIN requests : requests[j].kind # "payouts"
      BY <2>1 DEF PayLookUps
    <3>2. /\ painted.mark \in {none, PayView.mark}
          /\ ~past.meanwhile => painted.rows = PayView.rows
          /\ past.touched => painted = PayView
          /\ payoutData # 0 => past.touched
      BY <3>1 DEF PayScreen, PayPainted
    <3> QED
      BY <3>2 DEF PaySteady
  <2> QED
    BY <2>2, <2>3 DEF PayScreen
<1> QED
  BY <1>1, <1>2

LEMMA PayUserSteady ==
    ASSUME PayInv, PayUser
    PROVE  /\ PaySteady /\ PayLookUps /\ (flag' = flag \/ payoutList # <<>>)
           /\ past'.failed = past.failed /\ past'.twice = past.twice
<1>1. /\ \A i \in DOMAIN requests : i \in DOMAIN requests' /\ requests'[i] = requests[i]
      /\ \A i \in DOMAIN requests' :
            \/ i \in DOMAIN requests
            \/ requests'[i].kind # "payouts" /\ requests'[i].stage = "sent"
      /\ past'.failed = past.failed /\ past'.twice = past.twice
  BY PayUserFacts DEF PayInv
<1>2. PayLookUps
  BY <1>1 DEF PayLookUps
<1>3. Earnings!TypeOK /\ past \in PayPast /\ loading \in BOOLEAN
  BY DEF PayInv, Earnings!TypeOK, PayPast
<1>4. ASSUME UNCHANGED <<payoutList, savedPayout>>
      PROVE  PayView' = PayView /\ Len(payoutList') = Len(payoutList)
  BY <1>4 DEF PayView, Earnings!View
<1>5. CASE Earnings!Render
  <2>1. /\ painted' = PayView /\ UNCHANGED <<payoutList, savedPayout, payoutData, past, flag>>
    BY <1>3, <1>5, PayRendered DEF Earnings!Render
  <2> QED
    BY <1>1, <1>2, <1>4, <2>1 DEF PaySteady
<1>6. CASE Earnings!GetEarningInformation
  <2>1. /\ painted' = PayView /\ UNCHANGED <<payoutList, savedPayout, payoutData, flag>>
        /\ past'.meanwhile = past.meanwhile /\ past'.touched
    BY <1>3, <1>6, PayRendered DEF Earnings!GetEarningInformation, PayPast
  <2> QED
    BY <1>1, <1>2, <1>4, <2>1 DEF PaySteady
<1>7. CASE Earnings!CloseSheet
  <2>1. UNCHANGED <<payoutList, savedPayout, payoutData, past, flag, painted, loader>>
    BY <1>7 DEF Earnings!CloseSheet, Earnings!shown
  <2> QED
    BY <1>1, <1>2, <1>4, <2>1 DEF PaySteady
<1>8. CASE Earnings!ChangeInputValue
  <2>1. /\ row \in DOMAIN payoutList /\ Len(payoutList') = Len(payoutList)
        /\ DOMAIN payoutList' = DOMAIN payoutList
        /\ \A i \in DOMAIN payoutList : payoutList'[i].type = payoutList[i].type
        /\ past' = [past EXCEPT !.typed = @ \union {payoutList[row].type}]
        /\ painted' = PayView /\ UNCHANGED <<savedPayout, payoutData>>
    BY <1>3, <1>8, PayTyped
  <2>2. past'.meanwhile = past.meanwhile /\ past'.touched = past.touched
    BY <1>3, <2>1 DEF PayPast
  <2>3. PayView' = PayView
    <3>1. [i \in DOMAIN payoutList' |-> payoutList'[i].type]
            = [i \in DOMAIN payoutList |-> payoutList[i].type]
      BY <2>1
    <3> QED
      BY <2>1, <3>1 DEF PayView, Earnings!View
  <2>4. payoutList # <<>>
    BY <2>1
  <2> QED
    BY <1>1, <1>2, <2>1, <2>2, <2>3, <2>4 DEF PaySteady
<1>9. CASE Earnings!ChangePayoutData
  <2>1. painted' = Earnings!Rendered(~loading) /\ (~loading) \in BOOLEAN
        /\ UNCHANGED <<payoutList, savedPayout, payoutData, past, flag, loader>>
    BY <1>9 DEF Earnings!ChangePayoutData
  <2>2. painted' \in {painted, PayView}
    BY <1>3, <2>1, PayRendered
  <2> QED
    BY <1>1, <1>2, <1>4, <2>1, <2>2 DEF PaySteady
<1>10. ASSUME NEW i \in DOMAIN painted.rows, Earnings!OpenSheet(i)
       PROVE  PaySteady /\ flag' = flag
  <2>1. /\ painted' = Earnings!Rendered(payoutData # i) /\ payoutData' = i
        /\ UNCHANGED <<payoutList, savedPayout, flag, loader>>
        /\ past' = [past EXCEPT !.touched = TRUE]
    BY <1>10 DEF Earnings!OpenSheet
  <2>2. past'.meanwhile = past.meanwhile /\ past'.touched
    BY <1>3, <2>1 DEF PayPast
  <2>3. painted' \in {painted, PayView} /\ (payoutData # i => painted' = PayView)
    <3>1. (payoutData # i) \in BOOLEAN
      OBVIOUS
    <3> QED
      BY <1>3, <2>1, <3>1, PayRendered
  <2>4. i # 0
    <3>1. painted.rows \in Seq(Methods)
      BY <1>3 DEF Earnings!TypeOK
    <3> QED
      BY <1>10, <3>1
  <2> QED
    BY <1>4, <2>1, <2>2, <2>3, <2>4 DEF PaySteady
<1> QED
  BY <1>1, <1>2, <1>5, <1>6, <1>7, <1>8, <1>9, <1>10 DEF PayUser

\* The answer to a balance, a refusal, and the loss of any answer.
LEMMA PayRemovedSteady ==
    ASSUME PayInv, NEW i \in DOMAIN requests,
           \/ Earnings!DeliverBalance(i)
           \/ Earnings!DeliverSave(i) /\ requests[i].stage # "ok"
           \/ Earnings!Fail(i)
    PROVE  /\ PaySteady /\ flag' = flag /\ requests' = RemoveAt(requests, i)
           /\ UNCHANGED <<saved, payoutList, savedPayout>>
           /\ past'.twice = past.twice /\ past'.typed = past.typed
           /\ \/ past'.failed
              \/ /\ past'.failed = past.failed /\ requests[i].kind # "payouts"
                 /\ ~(requests[i].kind = "save" /\ requests[i].stage = "ok")
<1>1. /\ Earnings!TypeOK /\ past \in PayPast /\ loading \in BOOLEAN /\ loader \in BOOLEAN
  BY DEF PayInv, Earnings!TypeOK, PayPast
<1>2. ASSUME UNCHANGED <<payoutList, savedPayout>>
      PROVE  PayView' = PayView /\ Len(payoutList') = Len(payoutList)
  BY <1>2 DEF PayView, Earnings!View
<1>3. CASE Earnings!DeliverBalance(i)
  <2>1. /\ requests[i].kind = "balance" /\ requests' = RemoveAt(requests, i)
        /\ UNCHANGED <<saved, payoutList, savedPayout, payoutData, flag, past>>
    BY <1>3, PayRemoveAt DEF Earnings!DeliverBalance
  <2>2. painted' \in {painted, PayView} /\ (loader => painted' = PayView)
    <3>1. PICK changed \in BOOLEAN : painted' = Earnings!Rendered(loader \/ changed)
      BY <1>3 DEF Earnings!DeliverBalance
    <3>2. (loader \/ changed) \in BOOLEAN
      OBVIOUS
    <3> QED
      BY <1>1, <3>1, <3>2, PayRendered
  <2> QED
    BY <1>2, <2>1, <2>2 DEF PaySteady
<1>4. CASE Earnings!DeliverSave(i) /\ requests[i].stage # "ok"
  <2>1. /\ requests[i].kind = "save" /\ requests' = RemoveAt(requests, i)
        /\ UNCHANGED <<saved, payoutList, savedPayout, payoutData, flag, past, loader>>
        /\ painted' = Earnings!Rendered(loading)
    BY <1>4, PayRemoveAt DEF Earnings!DeliverSave
  <2>2. painted' \in {painted, PayView}
    BY <1>1, <2>1, PayRendered
  <2> QED
    BY <1>2, <1>4, <2>1, <2>2 DEF PaySteady
<1>5. CASE Earnings!Fail(i)
  <2>1. /\ requests' = RemoveAt(requests, i)
        /\ UNCHANGED <<saved, payoutList, savedPayout, payoutData, flag>>
        /\ painted' = Earnings!Rendered(loader' # loader)
        /\ loader' = (loader /\ requests[i].kind = "save")
    BY <1>5, PayRemoveAt DEF Earnings!Fail
  <2>2. /\ past'.twice = past.twice /\ past'.typed = past.typed
        /\ past'.meanwhile = past.meanwhile /\ past'.touched = past.touched
        /\ \/ past'.failed
           \/ /\ past'.failed = past.failed /\ requests[i].kind # "payouts"
              /\ ~(requests[i].kind = "save" /\ requests[i].stage = "ok")
    BY <1>1, <1>5 DEF Earnings!Fail, PayPast
  <2>3. /\ painted' \in {painted, PayView} /\ (loader' # loader => painted' = PayView)
    <3>1. (loader' # loader) \in BOOLEAN
      OBVIOUS
    <3> QED
      BY <1>1, <2>1, <3>1, PayRendered
  <2>4. loader' \/ painted' = PayView \/ ~loader
    BY <1>1, <2>3
  <2> QED
    BY <1>2, <2>1, <2>2, <2>3, <2>4 DEF PaySteady
<1> QED
  BY <1>3, <1>4, <1>5

LEMMA PayRemovedInv ==
    ASSUME PayInv, PayScreen, Earnings!TypeOK', NEW i \in DOMAIN requests,
           \/ Earnings!DeliverBalance(i)
           \/ Earnings!DeliverSave(i) /\ requests[i].stage # "ok"
           \/ Earnings!Fail(i)
    PROVE  PayInv' /\ PayScreen'
<1>1. /\ PaySteady /\ flag' = flag /\ requests' = RemoveAt(requests, i)
      /\ UNCHANGED <<saved, payoutList, savedPayout>>
      /\ past'.twice = past.twice /\ past'.typed = past.typed
      /\ \/ past'.failed
         \/ /\ past'.failed = past.failed /\ requests[i].kind # "payouts"
            /\ ~(requests[i].kind = "save" /\ requests[i].stage = "ok")
  BY PayRemovedSteady
<1>2. PayOnce' /\ PayEmpty' /\ PayCurrent'
  BY <1>1, PayAnswerInv
<1>3. PayBound'
  BY <1>1, PayBoundKept DEF PayInv
<1>4. /\ \A k \in DOMAIN requests' :
            /\ PaySkip(i, k) \in DOMAIN requests \ {i}
            /\ requests'[k] = requests[PaySkip(i, k)]
      /\ \A j \in DOMAIN requests \ {i} : \E k \in DOMAIN requests' : PaySkip(i, k) = j
  BY <1>1, PayRemoves DEF PayInv
<1>5. requests[i].kind # "payouts" => PayLookUps
  <2> SUFFICES ASSUME requests[i].kind # "payouts" PROVE PayLookUps
    OBVIOUS
  <2>1. ASSUME NEW k \in DOMAIN requests', requests'[k].kind = "payouts"
        PROVE  \E j \in DOMAIN requests :
                  requests[j].kind = "payouts" /\ requests'[k].refresh = requests[j].refresh
    BY <1>4, <2>1
  <2>2. ASSUME NEW j \in DOMAIN requests, requests[j].kind = "payouts"
        PROVE  \E k \in DOMAIN requests' : requests'[k].kind = "payouts"
    <3>1. PICK k \in DOMAIN requests' : PaySkip(i, k) = j
      BY <1>4, <2>2
    <3> QED
      BY <1>4, <2>2, <3>1
  <2> QED
    BY <2>1, <2>2 DEF PayLookUps
<1>6. PayScreen'
  BY <1>1, <1>5, PayScreenKept
<1> QED
  BY <1>2, <1>3, <1>6 DEF PayInv

\* The answer of the look-up paints the rows, if it changes refresh.
LEMMA PayPayoutsScreen ==
    ASSUME PayInv, PayScreen, NEW i \in DOMAIN requests, Earnings!DeliverPayouts(i)
    PROVE  PayBound' /\ PayScreen'
<1>1. /\ requests[i].kind = "payouts" /\ requests' = RemoveAt(requests, i)
      /\ payoutData' = payoutData /\ loader' = FALSE
      /\ past' = [past EXCEPT !.touched = FALSE] /\ past \in PayPast
      /\ payoutList' \in Seq(Earnings!Setting) /\ savedPayout' \in Seq(Earnings!Setting)
      /\ Len(payoutList') >= Len(payoutList)
      /\ flag' = ~requests[i].refresh
      /\ painted' = IF flag' # flag THEN Earnings!View(payoutList', savedPayout)
                    ELSE Earnings!Rendered(loader)
  BY PayDeliverFacts DEF PayInv, Earnings!TypeOK, PayPast
<1>2. /\ payoutList \in Seq(Earnings!Setting) /\ savedPayout \in Seq(Earnings!Setting)
      /\ loader \in BOOLEAN /\ payoutData \in 0 .. Len(payoutList)
      /\ Len(payoutList) \in Nat /\ flag \in BOOLEAN /\ requests[i] \in Earnings!Request
  BY DEF PayInv, Earnings!TypeOK
<1>3. PICK rows \in Seq(Earnings!Setting), marks \in Seq(Earnings!Setting) :
         rows = payoutList' /\ marks = savedPayout'
  BY <1>1
<1>4. PayView' = Earnings!View(rows, marks)
  BY <1>3 DEF PayView
<1>5. Len(rows) \in Nat /\ Len(rows) >= Len(payoutList)
  BY <1>1, <1>3
<1>6. PayBound'
  <2>1. CASE flag' # flag
    <3>1. Len(Earnings!View(rows, savedPayout).rows) = Len(rows)
      BY <1>2, PayViews
    <3>2. Len(painted'.rows) = Len(payoutList')
      BY <1>1, <1>3, <2>1, <3>1
    <3> QED
      BY <1>3, <1>5, <3>2 DEF PayBound
  <2>2. CASE flag' = flag
    <3>1. painted' = Earnings!Rendered(loader)
      BY <1>1, <2>2
    <3>2. Len(painted'.rows) <= Len(payoutList)
      <4>1. CASE loader
        <5>1. painted' = PayView
          BY <1>2, <3>1, <4>1, PayRendered DEF PayInv
        <5>2. Len(PayView.rows) = Len(payoutList)
          BY <1>2, PayViews DEF PayView
        <5> QED
          BY <1>2, <5>1, <5>2
      <4>2. CASE ~loader
        BY <3>1, <4>2 DEF Earnings!Rendered, PayInv, PayBound
      <4> QED
        BY <4>1, <4>2
    <3>3. Len(painted'.rows) \in Nat
      <4>1. painted' \in PayPaint
        BY <1>2, <3>1, PayRendered DEF PayInv
      <4>2. painted'.rows \in Seq(Methods)
        BY <4>1 DEF PayPaint
      <4> QED
        BY <4>2
    <3> QED
      BY <1>2, <1>3, <1>5, <3>2, <3>3 DEF PayBound
  <2> QED
    BY <2>1, <2>2
<1>7. /\ past'.twice = past.twice /\ past'.failed = past.failed
      /\ past'.meanwhile = past.meanwhile /\ past'.touched = FALSE
  BY <1>1 DEF PayPast
<1>8. /\ \A k \in DOMAIN requests' :
            /\ PaySkip(i, k) \in DOMAIN requests \ {i}
            /\ requests'[k] = requests[PaySkip(i, k)]
  BY <1>1, PayRemoves DEF PayInv
<1>9. ASSUME ~past.failed, ~past.twice
      PROVE  /\ \A k \in DOMAIN requests' : requests'[k].kind # "payouts"
             /\ painted'.mark = none /\ (~past.meanwhile => painted'.rows = PayView'.rows)
             /\ payoutData = 0
  <2>1. \A k \in DOMAIN requests' : requests'[k].kind # "payouts"
    BY <1>1, <1>8, <1>9 DEF PayInv, PayOnce
  <2>2. payoutList = <<>> /\ savedPayout = <<>>
    BY <1>1, <1>9 DEF PayInv, PayEmpty
  <2>3. payoutData = 0
    BY <1>2, <2>2
  <2>4. /\ loader \/ painted = PayView
        /\ ~past.meanwhile => requests[i].refresh = flag
    BY <1>1, <1>9 DEF PayScreen, PayFlag
  <2>5. /\ PayView.mark = none
        /\ Earnings!View(rows, <<>>).mark = none
        /\ Earnings!View(rows, <<>>).rows = PayView'.rows
    BY <1>4, <2>2 DEF PayView, Earnings!View
  <2>6. CASE flag' # flag
    <3>1. painted' = Earnings!View(rows, <<>>)
      BY <1>1, <1>3, <2>2, <2>6
    <3> QED
      BY <2>1, <2>3, <2>5, <3>1
  <2>7. CASE flag' = flag
    <3>1. past.meanwhile
      <4>1. requests[i].refresh \in BOOLEAN
        BY <1>2 DEF Earnings!Request
      <4> QED
        BY <1>1, <1>2, <2>4, <2>7, <4>1
    <3>2. painted' = PayView
      BY <1>1, <1>2, <2>4, <2>7 DEF Earnings!Rendered, PayView
    <3> QED
      BY <2>1, <2>3, <2>5, <3>1, <3>2
  <2> QED
    BY <2>6, <2>7
<1>10. PayFlag'
  BY <1>7, <1>9 DEF PayFlag
<1>11. PayPainted'
  BY <1>1, <1>7, <1>9 DEF PayPainted
<1> QED
  BY <1>6, <1>10, <1>11 DEF PayScreen

\* The answer of a save that was carried out brings the overlay.
LEMMA PaySaveScreen ==
    ASSUME PayInv, PayScreen, NEW i \in DOMAIN requests, Earnings!DeliverSave(i),
           requests[i].stage = "ok"
    PROVE  PayBound' /\ PayScreen'
<1> DEFINE r == RemoveAt(requests, i)
           m == Earnings!Ask("payouts", Earnings!Nothing, requests[i].refresh)
<1>1. /\ loader' = TRUE /\ flag' = flag
      /\ past' = [failed |-> FALSE, twice |-> Earnings!Asked("payouts") # {}, typed |-> {},
                  meanwhile |-> requests[i].refresh # flag, touched |-> FALSE]
  BY DEF Earnings!DeliverSave
<1>2. /\ past'.twice = (Earnings!Asked("payouts") # {})
      /\ past'.meanwhile = (requests[i].refresh # flag)
  BY <1>1
<1>3. /\ requests' = Append(r, m) /\ m.kind = "payouts" /\ m.refresh = requests[i].refresh
      /\ m \in Earnings!Request
      /\ \A k \in DOMAIN requests' :
            \/ k \in DOMAIN r /\ requests'[k] = r[k]
            \/ k = Len(requests') /\ requests'[k] = m
  BY PaySavedFacts DEF PayInv
<1>4. /\ \A k \in DOMAIN r : r[k] = requests[PaySkip(i, k)] /\ PaySkip(i, k) \in DOMAIN requests
      /\ r \in Seq(Earnings!Request)
  BY PayRemoves DEF PayInv
<1> HIDE DEF r, m
<1>5. Len(r) + 1 \in DOMAIN requests' /\ requests'[Len(r) + 1] = m
  BY <1>3, <1>4
<1>6. ASSUME ~past'.twice, NEW k \in DOMAIN requests', requests'[k].kind = "payouts"
      PROVE  requests'[k] = m
  <2>1. \A j \in DOMAIN requests : requests[j].kind # "payouts"
    BY <1>2, <1>6 DEF Earnings!Asked
  <2> QED
    BY <1>3, <1>4, <1>6, <2>1
<1>7. PayFlag'
  BY <1>1, <1>2, <1>3, <1>6 DEF PayFlag
<1>8. PayPainted'
  BY <1>3, <1>5 DEF PayPainted
<1> QED
  BY <1>1, <1>7, <1>8 DEF PayBound, PayScreen

LEMMA PayStepInv ==
    ASSUME PayInv, PayScreen, [Earnings!Next]_(Earnings!vars) PROVE PayInv' /\ PayScreen'
<1>1. CASE UNCHANGED Earnings!vars
  <2>1. UNCHANGED <<saved, payoutList, savedPayout, payoutData, row, loader, loading, flag,
                    painted, requests, touches, past>>
    BY <1>1 DEF Earnings!vars, Earnings!shown
  <2>2. Earnings!TypeOK'
    BY <2>1 DEF PayInv, Earnings!TypeOK
  <2>3. PayOnce' /\ PayEmpty' /\ PayCurrent' /\ PayBound'
    BY <2>1 DEF PayInv, PayBound, PayOnce, PayEmpty, PayCurrent, PayWritten, PayShows,
       PayRows, Earnings!Nothing
  <2>4. PayView' = PayView
    BY <2>1 DEF PayView, Earnings!View
  <2>5. PayScreen'
    BY <2>1, <2>4 DEF PayScreen, PayFlag, PayPainted
  <2> QED
    BY <2>2, <2>3, <2>5 DEF PayInv
<1>2. CASE PayUser
  <2>1. Earnings!TypeOK' /\ PayOnce' /\ PayEmpty' /\ PayCurrent'
    BY <1>2, PayUserInv
  <2>2. /\ PaySteady /\ PayLookUps /\ (flag' = flag \/ payoutList # <<>>)
        /\ past'.failed = past.failed /\ past'.twice = past.twice
    BY <1>2, PayUserSteady
  <2>3. PayBound'
    BY <2>2, PayBoundKept DEF PayInv
  <2>4. PayScreen'
    BY <2>2, PayScreenKept
  <2> QED
    BY <2>1, <2>3, <2>4 DEF PayInv
<1>3. ASSUME NEW i \in DOMAIN requests, Earnings!Serve(i) PROVE PayInv' /\ PayScreen'
  <2>1. Earnings!TypeOK' /\ PayOnce' /\ PayEmpty' /\ PayCurrent'
    BY <1>3, PayServeInv
  <2>2. /\ DOMAIN requests' = DOMAIN requests
        /\ \A j \in DOMAIN requests : j # i => requests'[j] = requests[j]
        /\ requests'[i].kind = requests[i].kind /\ requests'[i].refresh = requests[i].refresh
        /\ UNCHANGED <<payoutList, savedPayout, payoutData, loader, flag, painted, past>>
    BY <1>3, PayServeFacts DEF PayInv
  <2>3. PayView' = PayView
    BY <2>2 DEF PayView, Earnings!View
  <2>4. PaySteady
    BY <2>2, <2>3 DEF PaySteady
  <2>5. \A j \in DOMAIN requests :
           requests'[j].kind = requests[j].kind /\ requests'[j].refresh = requests[j].refresh
    BY <2>2
  <2>6. PayLookUps
    BY <2>2, <2>5 DEF PayLookUps
  <2>7. PayBound'
    BY <2>4, PayBoundKept DEF PayInv
  <2>8. PayScreen'
    BY <2>2, <2>4, <2>6, PayScreenKept
  <2> QED
    BY <2>1, <2>7, <2>8 DEF PayInv
<1>4. ASSUME NEW i \in DOMAIN requests, Earnings!DeliverBalance(i) \/ Earnings!Fail(i)
      PROVE  PayInv' /\ PayScreen'
  <2>1. Earnings!TypeOK'
    BY <1>4, PayAnswerType DEF PayInv
  <2> QED
    BY <1>4, <2>1, PayRemovedInv
<1>5. ASSUME NEW i \in DOMAIN requests, Earnings!DeliverPayouts(i)
      PROVE  PayInv' /\ PayScreen'
  BY <1>5, PayPayoutsInv, PayPayoutsScreen DEF PayInv
<1>6. ASSUME NEW i \in DOMAIN requests, Earnings!DeliverSave(i) PROVE PayInv' /\ PayScreen'
  <2>1. Earnings!TypeOK'
    BY <1>6, PaySaveType DEF PayInv
  <2>2. CASE requests[i].stage = "ok"
    BY <1>6, <2>2, PaySaveInv, PaySaveScreen DEF PayInv
  <2>3. CASE requests[i].stage # "ok"
    BY <1>6, <2>1, <2>3, PayRemovedInv
  <2> QED
    BY <2>2, <2>3
<1> QED
  BY <1>1, <1>2, <1>3, <1>4, <1>5, <1>6 DEF Earnings!Next, PayUser

\* PayInv and PayScreen, the inductive invariant of the payout methods: of what is held,
\* and of what is painted.
LEMMA PayAlways == Earnings!Spec => [](PayInv /\ PayScreen)
<1>1. Earnings!Init => PayInv /\ PayScreen
  BY PayInitInv
<1>2. PayInv /\ PayScreen /\ [Earnings!Next]_(Earnings!vars) => (PayInv /\ PayScreen)'
  BY PayStepInv
<1> QED
  BY <1>1, <1>2, PTL DEF Earnings!Spec

\* Type correctness of the payout methods: rows and what is marked are settings of
\* methods, and a sheet that is opened from a painted row is that of a row held.
THEOREM PayoutsTypeCorrect == Earnings!Spec => []Earnings!TypeOK
<1>1. PayInv /\ PayScreen => Earnings!TypeOK
  BY DEF PayInv
<1> QED
  BY <1>1, PayAlways, PTL

\* When no look-up and no save is in flight, what getPayoutSettings and the saves
\* left is one row of each method, the first of savedPayout the one the server has
\* saved, and what the server has in every row that was not typed into; the rows are
\* painted, no other method is marked, and a sheet that was opened has painted all,
\* with the exceptions named.
THEOREM PayoutsFollow == Earnings!Spec => []PayoutsShown
<1>1. ASSUME PayInv, PayScreen PROVE PayoutsShown
  <2> SUFFICES ASSUME Earnings!Asked("payouts") = {}, Earnings!Asked("save") = {},
                      ~past.failed, ~past.twice
               PROVE  /\ PayShows
                      /\ \A m \in Methods :
                            Cardinality({i \in DOMAIN payoutList : payoutList[i].type = m}) = 1
                      /\ ~past.meanwhile => painted.rows = Earnings!Rendered(TRUE).rows
                      /\ painted.mark \in {none, saved.type}
                      /\ past.touched => painted = Earnings!Rendered(TRUE)
    BY PayCardinality DEF PayoutsShown, Earnings!PayoutsShown, PayShows
  <2>1. \A i \in DOMAIN requests : requests[i].kind # "payouts" /\ requests[i].kind # "save"
    BY DEF Earnings!Asked
  <2>2. PayShows
    BY <1>1, <2>1 DEF PayInv, PayCurrent, PayWritten
  <2>3. ASSUME NEW m \in Methods
        PROVE  Cardinality({i \in DOMAIN payoutList : payoutList[i].type = m}) = 1
    <3>1. PICK k \in DOMAIN payoutList : payoutList[k].type = m
      BY <2>2 DEF PayShows, PayRows
    <3>2. {i \in DOMAIN payoutList : payoutList[i].type = m} = {k}
      BY <2>2, <3>1 DEF PayShows, PayRows
    <3> QED
      BY <3>2, FS_Singleton
  <2>4. Earnings!Rendered(TRUE) = PayView
    BY DEF Earnings!Rendered, PayView
  <2>5. /\ painted.mark \in {none, PayView.mark}
        /\ ~past.meanwhile => painted.rows = PayView.rows
        /\ past.touched => painted = PayView
    BY <1>1, <2>1 DEF PayScreen, PayPainted
  <2>6. PayView.mark \in {none, saved.type}
    <3>1. PayView.mark = IF savedPayout = <<>> THEN none ELSE savedPayout[1].type
      BY DEF PayView, Earnings!View
    <3>2. savedPayout = <<>> \/ savedPayout = <<saved>>
      BY <2>2 DEF PayShows
    <3> QED
      BY <3>1, <3>2
  <2> QED
    BY <2>2, <2>3, <2>4, <2>5, <2>6
<1> QED
  BY <1>1, PayAlways, PTL
=============================================================================
