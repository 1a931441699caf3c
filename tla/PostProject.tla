----------------------------- MODULE PostProject -----------------------------
(***************************************************************************)
(* screens/postProjects: the wizard that posts a project, and its draft in  *)
(* PostProjectSlice.  The first step creates the project on the server or   *)
(* updates it, the second adds the skills, the last invites freelancers.    *)
(* No overlay covers the first two steps and FormButton stays enabled, so a *)
(* step may be saved again, or the wizard left, while a save is in flight;  *)
(* its answer then moves whatever wizard is open.                           *)
(*                                                                         *)
(* What a form holds is a version number, 0 when blank.  Opening the wizard *)
(* starts a visit; the draft of an earlier one is always replaced, so its   *)
(* persistence by redux-persist is not modelled.                            *)
(***************************************************************************)
EXTENDS Naturals, FiniteSets

CONSTANTS
    Projects,       \* ids the server may give out
    NoId,           \* project_id null, or undefined in the draft of a template
    MaxVisits, MaxTaps, MaxPending      \* bounds

VARIABLES
    one,            \* postedItemOne: the project's id, and the text of step one
    two,            \* postedItemTwo
    step,
    open,           \* whether the wizard is on screen
    form,           \* local state of the step on screen
    net,            \* requests and answers in flight
    server,         \* project -> what the server holds of it
    visit,          \* number of times the wizard was opened
    taps, versions, \* counters
    hist            \* history, by visit

draft == <<one, two, step>>
vars == <<draft, open, form, net, server, visit, taps, versions, hist>>

Ids == Projects \union {NoId}
Draft == [id : Ids, text : Nat]

\* A request, and from stage "ok" on its answer; asked is the id it was sent
\* with.
Message == [n : Nat, kind : {"one", "two", "invite"}, asked : Ids, id : Ids,
            text : Nat, visit : Nat, stage : {"sent", "ok", "error"}]

\* born is the visit that created the project, 0 when there is none yet;
\* complete says that the second step was saved.
Project == [born : Nat, text : Nat, skills : Nat, complete : BOOLEAN,
            invited : BOOLEAN]

History ==
    [late    : SUBSET Nat,  \* met the answer of a save of an earlier visit
     again   : SUBSET Nat,  \* created while an earlier create was unsettled
     lost    : SUBSET Nat,  \* lost the answer of a create
     failed  : BOOLEAN,     \* some answer was lost
     crossed : BOOLEAN]     \* some request overtook another

ASSUME ConstantsAssumption ==
    /\ NoId \notin Projects
    /\ MaxVisits \in Nat /\ MaxTaps \in Nat /\ MaxPending \in Nat

TypeOK ==
    /\ one \in Draft /\ two \in Nat /\ step \in 0 .. 2
    /\ open \in BOOLEAN /\ form \in Nat
    /\ net \subseteq Message
    /\ server \in [Projects -> Project]
    /\ visit \in Nat /\ taps \in Nat /\ versions \in Nat
    /\ hist \in History

Blank == [id |-> NoId, text |-> 0]

Init ==
    /\ one = Blank /\ two = 0 /\ step = 0
    /\ open = FALSE /\ form = 0
    /\ net = {}
    /\ server = [p \in Projects |->
                    [born |-> 0, text |-> 0, skills |-> 0, complete |-> FALSE,
                     invited |-> FALSE]]
    /\ visit = 0 /\ taps = 0 /\ versions = 0
    /\ hist = [late |-> {}, again |-> {}, lost |-> {},
               failed |-> FALSE, crossed |-> FALSE]

\* The effect of a step that is mounted: its form is filled from the draft.
Mounted(s, o, t) == CASE s = 0 -> o.text [] s = 1 -> t [] OTHER -> 0

\* The step that is on screen stays mounted while `step` keeps its value.
Move(to, o, t) ==
    /\ one' = o /\ two' = t /\ step' = to
    /\ form' = IF to = step THEN form ELSE Mounted(to, o, t)

-----------------------------------------------------------------------------
(* The user                                                                *)

Tapped == taps < MaxTaps /\ taps' = taps + 1

Enter(o, t) ==
    /\ ~open /\ open' = TRUE
    /\ visit < MaxVisits /\ visit' = visit + 1
    /\ one' = o /\ two' = t /\ step' = 0
    /\ form' = o.text
    /\ Tapped /\ UNCHANGED <<net, server, hist>>

\* Mutant: the draft is not cleared.
StartWithLastDraft == Enter(one, two) /\ UNCHANGED versions

StartNewProject == Enter(Blank, 0) /\ UNCHANGED versions

\* A template's draft has no ID.
UseThisTemplate ==
    /\ Enter([id |-> NoId, text |-> versions + 1], versions + 1)
    /\ versions' = versions + 1

\* The header's back button unmounts the wizard; requests go on.
Leave ==
    /\ open /\ open' = FALSE
    /\ Tapped /\ UNCHANGED <<draft, form, net, server, visit, versions, hist>>

Edit ==
    /\ open /\ step < 2
    /\ form' = versions + 1 /\ versions' = versions + 1
    /\ Tapped /\ UNCHANGED <<draft, open, net, server, visit, hist>>

\* Go back, in step two.
GoBack ==
    /\ open /\ step = 1
    /\ Move(0, one, two)
    /\ Tapped /\ UNCHANGED <<open, net, server, visit, versions, hist>>

Send(kind) ==
    /\ Cardinality(net) < MaxPending
    /\ Tapped
    /\ net' = net \union {[n |-> taps, kind |-> kind, asked |-> one.id,
                           id |-> one.id, text |-> form, visit |-> visit,
                           stage |-> "sent"]}
    /\ UNCHANGED <<draft, open, form, server, visit, versions>>

Creates(m) == m.kind = "one" /\ m.asked = NoId

\* A create of visit v whose answer is still to come, or will never.
Unsettled(v) == v \in hist.lost \/ \E m \in net : Creates(m) /\ m.visit = v

\* saveAndContinue of step one.
SaveStepOne ==
    /\ open /\ step = 0
    /\ Send("one")
    /\ hist' = [hist EXCEPT !.again =
                    IF one.id = NoId /\ Unsettled(visit)
                    THEN @ \union {visit} ELSE @]

\* Mutant: step two moves on before it is answered.
SaveStepTwoAtOnce ==
    /\ open /\ step = 1
    /\ Cardinality(net) < MaxPending /\ Tapped
    /\ Move(2, one, form)
    /\ net' = net \union {[n |-> taps, kind |-> "two", asked |-> one.id,
                           id |-> one.id, text |-> form, visit |-> visit,
                           stage |-> "sent"]}
    /\ UNCHANGED <<open, server, visit, versions, hist>>

\* saveAndContinue of step two.
SaveStepTwo == open /\ step = 1 /\ Send("two") /\ UNCHANGED hist

\* sendInvite.
SendInvite == open /\ step = 2 /\ Send("invite") /\ UNCHANGED hist

-----------------------------------------------------------------------------
(* The server, external: update-job creates a project when it is given no   *)
(* id, and neither it nor invite-to-bid-project does anything else without. *)

Reply(m, stage, id) ==
    /\ net' = (net \ {m}) \union {[m EXCEPT !.stage = stage, !.id = id]}
    /\ hist' = [hist EXCEPT !.crossed = @ \/
                    \E o \in net : o.stage = "sent" /\ o.n < m.n]
    /\ UNCHANGED <<draft, open, form, visit, taps, versions>>

Create(m) ==
    /\ m.stage = "sent" /\ Creates(m)
    /\ \E p \in Projects :
          /\ server[p].born = 0
          /\ server' = [server EXCEPT ![p].born = m.visit, ![p].text = m.text]
          /\ Reply(m, "ok", p)

UpdateProject(m) ==
    /\ m.stage = "sent" /\ m.id # NoId
    /\ server' = [server EXCEPT ![m.id] =
                    CASE m.kind = "one"    -> [@ EXCEPT !.text = m.text]
                      [] m.kind = "two"    -> [@ EXCEPT !.skills = m.text,
                                                       !.complete = TRUE]
                      [] m.kind = "invite" -> [@ EXCEPT !.invited = TRUE]]
    /\ Reply(m, "ok", m.id)

Refuse(m) ==
    /\ m.stage = "sent"
    /\ Reply(m, "error", m.id) /\ UNCHANGED server

Serve(m) == Create(m) \/ UpdateProject(m) \/ Refuse(m)

-----------------------------------------------------------------------------
(* The answers                                                             *)

\* Mutant: the ID is left out of the draft.
WithoutId(m) ==
    CASE m.stage = "ok" /\ m.kind = "one" ->
           Move(1, [id |-> NoId, text |-> m.text], two)
      [] m.stage = "ok" /\ m.kind = "two" -> Move(2, one, m.text)
      [] OTHER -> UNCHANGED <<draft, form>>

\* Mutant: step two is not put into the draft.
WithoutStepTwo(m) ==
    CASE m.stage = "ok" /\ m.kind = "one" ->
           Move(1, [id |-> m.id, text |-> m.text], two)
      [] m.stage = "ok" /\ m.kind = "two" -> Move(2, one, two)
      [] OTHER -> UNCHANGED <<draft, form>>

\* The handlers' then: the draft is what was sent, with the ID the server
\* gave it, and the wizard moves to the next step.
Saved(m) ==
    CASE m.stage = "ok" /\ m.kind = "one" ->
           Move(1, [id |-> m.id, text |-> m.text], two)
      [] m.stage = "ok" /\ m.kind = "two" -> Move(2, one, m.text)
      [] OTHER -> UNCHANGED <<draft, form>>

Deliver(m) ==
    /\ m.stage # "sent"
    /\ Saved(m)
    /\ net' = net \ {m}
    /\ hist' = [hist EXCEPT
          !.late = IF m.stage = "ok" /\ m.kind # "invite" /\ m.visit # visit
                   THEN @ \union {visit} ELSE @,
          !.crossed = @ \/ \E o \in net : o.n < m.n]
    /\ UNCHANGED <<open, server, visit, taps, versions>>

\* The catch: a request or its answer is lost.
Fail(m) ==
    /\ net' = net \ {m}
    /\ hist' = [hist EXCEPT
          !.failed = TRUE,
          !.lost = IF Creates(m) THEN @ \union {m.visit} ELSE @]
    /\ UNCHANGED <<draft, open, form, server, visit, taps, versions>>

Next ==
    \/ StartNewProject \/ UseThisTemplate \/ Leave
    \/ Edit \/ GoBack
    \/ SaveStepOne \/ SaveStepTwo \/ SendInvite
    \/ \E m \in net : Serve(m) \/ Deliver(m) \/ Fail(m)

Spec == Init /\ [][Next]_vars

-----------------------------------------------------------------------------
\* However often the user goes back and saves again, one visit creates one
\* project, unless a create was sent before an earlier one was answered:
\* nothing but the ID in the draft, set by the first answer, sees to it.
OneProjectPerVisit ==
    \A p, q \in Projects :
        /\ server[p].born = server[q].born
        /\ server[p].born \notin hist.again \union {0}
        => p = q

\* Every save and every invitation of a visit goes to a project created in it,
\* and the later steps are never saved without one, unless the answer of a
\* save of an earlier visit came in between: it puts the earlier project into
\* the draft and moves the step of the wizard that is open now.
SavesReachTheirProject ==
    \A m \in net : m.visit \notin hist.late =>
        /\ m.asked # NoId => server[m.asked].born = m.visit
        /\ m.kind # "one" => m.asked # NoId

\* Freelancers are only invited to projects whose skills were saved, unless a
\* late answer or a second create replaced the project in the draft.
InvitedWhenComplete ==
    \A p \in Projects :
        server[p].invited /\ hist.late = {} /\ hist.again = {}
        => server[p].complete

\* With nothing in flight the draft is what the server holds of the project,
\* if no answer was lost or came late, no request overtook another and the
\* project was not created twice.
QuietDraft ==
    net = {} /\ ~hist.failed /\ ~hist.crossed
    /\ visit \notin hist.late \union hist.again /\ one.id # NoId
    => /\ server[one.id].text = one.text
       /\ step = 2 => server[one.id].skills = two
=============================================================================
