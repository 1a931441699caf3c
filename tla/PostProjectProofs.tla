-------------------------- MODULE PostProjectProofs --------------------------
(***************************************************************************)
(* The two wizards, for any number of visits, taps and requests.            *)
(*                                                                          *)
(* PostProject: type correctness, and that a visit creates one project,     *)
(* saves to it, invites freelancers only when it is complete, and leaves in *)
(* the draft what the server holds.                                         *)
(*                                                                          *)
(* PostTask, the instance Task of MCPostProject (names begin with Task):    *)
(* type correctness, and that saves reach their task, that the form is that *)
(* of the visit, that steps are saved in order and never reverted.          *)
(***************************************************************************)
EXTENDS MCPostProject, Sequences, TLAPS

LEMMA MoveType ==
    ASSUME TypeOK, NEW to \in 0 .. 2, NEW o \in Draft, NEW t \in Nat, Move(to, o, t)
    PROVE  one' \in Draft /\ two' \in Nat /\ step' \in 0 .. 2 /\ form' \in Nat
BY DEF TypeOK, Move, Mounted, Draft

LEMMA EnterType ==
    ASSUME TypeOK, NEW o \in Draft, NEW t \in Nat, Enter(o, t), versions' \in Nat
    PROVE  TypeOK'
BY DEF TypeOK, Enter, Tapped, Draft

LEMMA BlankType == Blank \in Draft
BY DEF Blank, Draft, Ids

LEMMA TemplateType ==
    ASSUME TypeOK PROVE [id |-> NoId, text |-> versions + 1] \in Draft
BY DEF TypeOK, Draft, Ids

LEMMA SendType ==
    ASSUME TypeOK, NEW kind \in {"one", "two", "invite"}, Send(kind), hist' \in History
    PROVE  TypeOK'
<1>1. [n |-> taps, kind |-> kind, asked |-> one.id, id |-> one.id,
       text |-> form, visit |-> visit, stage |-> "sent"] \in Message
  BY DEF TypeOK, Message, Draft
<1>2. net' \subseteq Message
  BY <1>1 DEF TypeOK, Send
<1> QED
  BY <1>2 DEF TypeOK, Send, Tapped, draft

LEMMA UserType ==
    ASSUME TypeOK,
           \/ StartNewProject \/ UseThisTemplate \/ Leave \/ Edit \/ GoBack
           \/ SaveStepOne \/ SaveStepTwo \/ SendInvite
    PROVE  TypeOK'
<1>1. CASE StartNewProject
  <2>1. versions' \in Nat
    BY <1>1 DEF StartNewProject, TypeOK
  <2> QED
    BY <1>1, <2>1, EnterType, BlankType DEF StartNewProject
<1>2. CASE UseThisTemplate
  <2>1. versions + 1 \in Nat /\ versions' \in Nat
    BY <1>2 DEF TypeOK, UseThisTemplate
  <2> QED
    BY <1>2, <2>1, EnterType, TemplateType DEF UseThisTemplate
<1>3. CASE Leave
  <2>1. /\ one' = one /\ two' = two /\ step' = step /\ form' = form /\ net' = net
        /\ server' = server /\ visit' = visit /\ versions' = versions
        /\ hist' = hist /\ taps' = taps + 1
    BY <1>3 DEF Leave, Tapped, draft
  <2>2. open' \in BOOLEAN
    BY <1>3 DEF Leave
  <2> QED
    BY <2>1, <2>2 DEF TypeOK
<1>4. CASE Edit
  BY <1>4 DEF Edit, TypeOK, Tapped, draft
<1>5. CASE GoBack
  <2>1. /\ one' \in Draft /\ two' \in Nat /\ step' \in 0 .. 2 /\ form' \in Nat
    BY <1>5, MoveType DEF GoBack, TypeOK
  <2> QED
    BY <1>5, <2>1 DEF GoBack, TypeOK, Tapped
<1>6. CASE SaveStepOne
  <2>1. hist' \in History
    BY <1>6 DEF SaveStepOne, TypeOK, History
  <2> QED
    BY <1>6, <2>1, SendType DEF SaveStepOne
<1>7. CASE SaveStepTwo
  BY <1>7, SendType DEF SaveStepTwo, TypeOK
<1>8. CASE SendInvite
  BY <1>8, SendType DEF SendInvite, TypeOK
<1> QED
  BY <1>1, <1>2, <1>3, <1>4, <1>5, <1>6, <1>7, <1>8

LEMMA ReplyType ==
    ASSUME TypeOK, NEW m \in net, NEW stage \in {"ok", "error"}, NEW i \in Ids,
           Reply(m, stage, i), server' \in [Projects -> Project]
    PROVE  TypeOK'
<1>1. [m EXCEPT !.stage = stage, !.id = i] \in Message
  BY DEF TypeOK, Message
<1>2. net' \subseteq Message
  BY <1>1 DEF TypeOK, Reply
<1>3. hist' \in History
  <2>1. hist' = [hist EXCEPT !.crossed = hist'.crossed] /\ hist'.crossed \in BOOLEAN
    BY DEF Reply, TypeOK, History
  <2> QED
    BY <2>1 DEF TypeOK, History
<1> QED
  BY <1>2, <1>3 DEF TypeOK, Reply, draft

LEMMA CreateType == ASSUME TypeOK, NEW m \in net, Create(m) PROVE TypeOK'
<1> PICK p \in Projects :
        /\ server' = [server EXCEPT ![p].born = m.visit, ![p].text = m.text]
        /\ Reply(m, "ok", p)
  BY DEF Create
<1>1. m \in Message
  BY DEF TypeOK
<1>2. server' \in [Projects -> Project]
  BY <1>1 DEF TypeOK, Message, Project
<1> QED
  BY <1>2, ReplyType DEF Ids

LEMMA UpdateProjectType ==
    ASSUME TypeOK, NEW m \in net, UpdateProject(m) PROVE TypeOK'
<1>1. m \in Message /\ m.id \in Projects
  BY DEF TypeOK, Message, UpdateProject, Ids
<1> DEFINE new == CASE m.kind = "one"    -> [server[m.id] EXCEPT !.text = m.text]
                    [] m.kind = "two"    -> [server[m.id] EXCEPT !.skills = m.text,
                                                                !.complete = TRUE]
                    [] m.kind = "invite" -> [server[m.id] EXCEPT !.invited = TRUE]
<1>2. new \in Project
  <2>1. server[m.id] \in Project
    BY <1>1 DEF TypeOK
  <2>2. m.kind \in {"one", "two", "invite"} /\ m.text \in Nat
    BY <1>1 DEF Message
  <2> QED
    BY <2>1, <2>2 DEF Project
<1>3. server' = [server EXCEPT ![m.id] = new]
  BY DEF UpdateProject
<1>4. server' \in [Projects -> Project]
  <2> HIDE DEF new
  <2> QED
    BY <1>1, <1>2, <1>3 DEF TypeOK
<1> QED
  BY <1>1, <1>4, ReplyType DEF UpdateProject, Ids

LEMMA RefuseType == ASSUME TypeOK, NEW m \in net, Refuse(m) PROVE TypeOK'
<1>1. m.id \in Ids
  BY DEF TypeOK, Message
<1> QED
  BY <1>1, ReplyType DEF Refuse, TypeOK

LEMMA SavedType ==
    ASSUME TypeOK, NEW m \in net, Saved(m)
    PROVE  one' \in Draft /\ two' \in Nat /\ step' \in 0 .. 2 /\ form' \in Nat
<1>1. m \in Message
  BY DEF TypeOK
<1>2. [id |-> m.id, text |-> m.text] \in Draft /\ m.text \in Nat
  BY <1>1 DEF Message, Draft
<1>3. CASE m.stage = "ok" /\ m.kind = "one"
  <2>1. Move(1, [id |-> m.id, text |-> m.text], two)
    BY <1>3 DEF Saved
  <2> QED
    BY <1>2, <2>1, MoveType DEF TypeOK
<1>4. CASE m.stage = "ok" /\ m.kind = "two"
  <2>1. Move(2, one, m.text)
    BY <1>4 DEF Saved
  <2> QED
    BY <1>2, <2>1, MoveType DEF TypeOK
<1>5. CASE ~(m.stage = "ok" /\ m.kind \in {"one", "two"})
  BY <1>5 DEF Saved, TypeOK, draft
<1> QED
  BY <1>3, <1>4, <1>5

LEMMA DeliverType == ASSUME TypeOK, NEW m \in net, Deliver(m) PROVE TypeOK'
<1>1. hist' \in History
  <2>1. hist'.crossed \in BOOLEAN
    BY DEF Deliver, TypeOK, History
  <2>2. hist'.late \in SUBSET Nat
    BY DEF Deliver, TypeOK, History
  <2>3. hist' = [hist EXCEPT !.late = hist'.late, !.crossed = hist'.crossed]
    BY DEF Deliver, TypeOK, History
  <2> QED
    BY <2>1, <2>2, <2>3 DEF TypeOK, History
<1>2. one' \in Draft /\ two' \in Nat /\ step' \in 0 .. 2 /\ form' \in Nat
  BY SavedType DEF Deliver
<1> QED
  BY <1>1, <1>2 DEF Deliver, TypeOK

LEMMA FailType == ASSUME TypeOK, NEW m \in net, Fail(m) PROVE TypeOK'
<1>1. m.visit \in Nat
  BY DEF TypeOK, Message
<1> QED
  BY <1>1 DEF Fail, TypeOK, History, draft

\* One step of the wizard keeps the types.
LEMMA TypeStep == TypeOK /\ [Next]_vars => TypeOK'
<1> SUFFICES ASSUME TypeOK, [Next]_vars PROVE TypeOK'
  OBVIOUS
<1>1. CASE \E m \in net : Serve(m) \/ Deliver(m) \/ Fail(m)
  BY <1>1, CreateType, UpdateProjectType, RefuseType, DeliverType, FailType DEF Serve
<1>2. CASE UNCHANGED vars
  BY <1>2 DEF vars, draft, TypeOK
<1> QED
  BY <1>1, <1>2, UserType DEF Next

LEMMA InitType == Init => TypeOK
<1> SUFFICES ASSUME Init PROVE TypeOK
  OBVIOUS
<1>1. server \in [Projects -> Project]
  BY DEF Init, Project
<1>2. hist \in History
  BY DEF Init, History
<1>3. open \in BOOLEAN
  BY DEF Init
<1>4. /\ one \in Draft /\ two \in Nat /\ step \in 0 .. 2 /\ form \in Nat
      /\ net \subseteq Message /\ visit \in Nat /\ taps \in Nat /\ versions \in Nat
  BY BlankType DEF Init
<1> QED
  BY <1>1, <1>2, <1>3, <1>4 DEF TypeOK

\* Type correctness of the wizard, its requests and the server.
THEOREM TypeCorrect == Spec => []TypeOK
BY InitType, TypeStep, PTL DEF Spec

-----------------------------------------------------------------------------
(* Ids and visits                                                          *)

\* A request is of a visit that has begun; ids that requests and the draft
\* name were given out by the server.
Known ==
    /\ open => visit # 0
    /\ \A p \in Projects : server[p].born <= visit
    /\ \A m \in net :
          /\ m.visit # 0 /\ m.visit <= visit
          /\ m.asked # NoId => server[m.asked].born # 0
          /\ m.id # NoId => server[m.id].born # 0
          /\ m.stage = "ok" => m.id # NoId
          /\ m.asked # NoId \/ m.stage # "ok" => m.id = m.asked
    /\ one.id # NoId => server[one.id].born # 0

\* The projects of a visit are the ones its requests and its draft name.
Reach ==
    /\ SavesReachTheirProject
    /\ \A m \in net :
          m.visit \notin hist.late /\ m.id # NoId => server[m.id].born = m.visit
    /\ visit \notin hist.late =>
          /\ one.id # NoId => server[one.id].born = visit
          /\ step # 0 => one.id # NoId
          /\ \A m \in net : m.visit = visit /\ m.kind # "one" => one.id # NoId

\* A visit without a second create: its project is not yet created, or its id
\* is in the draft or on its way.
Once ==
    /\ OneProjectPerVisit
    /\ \A m \in net :
          Creates(m) /\ m.stage # "ok" /\ m.visit \notin hist.again
          => \A p \in Projects : server[p].born # m.visit
    /\ \A m, n \in net :
          Creates(m) /\ Creates(n) /\ m.visit = n.visit /\ m.visit \notin hist.again
          => m = n
    /\ \A p \in Projects :
          server[p].born = visit /\ visit # 0 /\ visit \notin hist.again
          => one.id # NoId \/ Unsettled(visit)

\* Without a late answer or a second create, the project at the last step, or
\* invited to, has its skills.
Complete ==
    hist.late = {} /\ hist.again = {} =>
        /\ \A p \in Projects : server[p].invited => server[p].complete
        /\ step = 2 => one.id # NoId /\ server[one.id].complete
        /\ \A m \in net :
              m.kind = "invite" \/ (m.kind = "two" /\ m.stage = "ok")
              => m.id # NoId /\ server[m.id].complete

Sound == TypeOK /\ Known /\ Reach /\ Once /\ Complete

LEMMA InitSound == Init => Sound
<1> SUFFICES ASSUME Init PROVE Sound
  OBVIOUS
<1>1. Known /\ Reach
  BY DEF Init, Known, Reach, SavesReachTheirProject, Blank
<1>2. Once /\ Complete
  BY DEF Init, Once, Complete, OneProjectPerVisit, Blank
<1> QED
  BY <1>1, <1>2, InitType DEF Sound

\* Opening the wizard begins a visit that nothing in flight belongs to.
LEMMA EnterSound ==
    ASSUME Sound, StartNewProject \/ UseThisTemplate
    PROVE  Known' /\ Reach' /\ Once' /\ Complete'
<1>1. /\ net' = net /\ server' = server /\ hist' = hist /\ visit' = visit + 1
      /\ one'.id = NoId /\ step' = 0
  BY DEF StartNewProject, UseThisTemplate, Enter, Blank
<1>2. visit \in Nat /\ \A p \in Projects : server[p].born \in Nat
  BY DEF Sound, TypeOK, Project
<1>3. \A m \in net : m.visit \in Nat
  BY DEF Sound, TypeOK, Message
<1>4. Known'
  BY <1>1, <1>2, <1>3 DEF Sound, Known
<1>5. Reach'
  BY <1>1, <1>2, <1>3 DEF Sound, Known, Reach, SavesReachTheirProject
<1>6. Once'
  BY <1>1, <1>2, <1>3 DEF Sound, Known, Once, OneProjectPerVisit, Creates
<1>7. Complete'
  BY <1>1 DEF Sound, Complete
<1> QED
  BY <1>4, <1>5, <1>6, <1>7

\* Leaving, editing and going back touch neither the id nor the requests.
LEMMA StaySound ==
    ASSUME Sound, Leave \/ Edit \/ GoBack
    PROVE  Known' /\ Reach' /\ Once' /\ Complete'
<1>1. /\ net' = net /\ server' = server /\ hist' = hist /\ visit' = visit
      /\ one' = one /\ step' \in {step, 0} /\ (open' => open)
  BY DEF Leave, Edit, GoBack, Move, draft
<1>2. Known'
  BY <1>1 DEF Sound, Known
<1>3. Reach'
  BY <1>1 DEF Sound, Reach, SavesReachTheirProject
<1>4. Once'
  BY <1>1 DEF Sound, Once, OneProjectPerVisit, Creates, Unsettled
<1>5. Complete'
  BY <1>1 DEF Sound, Complete
<1> QED
  BY <1>2, <1>3, <1>4, <1>5

\* A request carries the id of the draft.
LEMMA SendSound ==
    ASSUME Sound, SaveStepOne \/ SaveStepTwo \/ SendInvite
    PROVE  Known' /\ Reach' /\ Once' /\ Complete'
<1> PICK kind \in {"one", "two", "invite"} :
        /\ Send(kind)
        /\ kind = "one"    => SaveStepOne
        /\ kind = "two"    => SaveStepTwo
        /\ kind = "invite" => SendInvite
  BY DEF SaveStepOne, SaveStepTwo, SendInvite
<1> DEFINE new == [n |-> taps, kind |-> kind, asked |-> one.id, id |-> one.id,
                   text |-> form, visit |-> visit, stage |-> "sent"]
<1>1. /\ net' = net \union {new} /\ server' = server /\ visit' = visit
      /\ one' = one /\ step' = step /\ open' = open
  BY DEF Send, draft
<1>2. /\ new.kind = kind /\ new.asked = one.id /\ new.id = one.id
      /\ new.visit = visit /\ new.stage = "sent"
  OBVIOUS
<1>3. /\ visit \in Nat /\ visit # 0
      /\ \A m \in net : m.visit \in Nat
  BY DEF Sound, TypeOK, Message, Known, SaveStepOne, SaveStepTwo, SendInvite
<1>4. /\ hist'.late = hist.late /\ hist'.lost = hist.lost
      /\ hist.again \subseteq hist'.again
  BY DEF Sound, TypeOK, History, SaveStepOne, SaveStepTwo, SendInvite
<1>5. /\ kind # "one" => step # 0
      /\ kind = "invite" => step = 2
  BY DEF SaveStepTwo, SendInvite
<1>6. Creates(new) => one.id = NoId /\ (visit \in hist'.again \/ ~Unsettled(visit))
  <2>1. CASE kind = "one"
    BY <2>1 DEF SaveStepOne, Creates, Sound, TypeOK, History
  <2> QED
    BY <2>1, <1>2 DEF Creates
<1> HIDE DEF new
<1>7. Known'
  BY <1>1, <1>2, <1>3 DEF Sound, Known
<1>8. Reach'
  BY <1>1, <1>2, <1>4, <1>5 DEF Sound, Reach, SavesReachTheirProject
<1>9. Once'
  BY <1>1, <1>2, <1>3, <1>4, <1>6 DEF Sound, Once, OneProjectPerVisit, Creates, Unsettled
<1>10. Complete'
  BY <1>1, <1>2, <1>4, <1>5 DEF Sound, Complete
<1> QED
  BY <1>7, <1>8, <1>9, <1>10

\* The first project of a visit is created when nothing names it yet.
LEMMA CreateSound ==
    ASSUME Sound, NEW m \in net, Create(m)
    PROVE  Known' /\ Reach' /\ Once' /\ Complete'
<1>0. PICK p \in Projects :
        /\ server[p].born = 0
        /\ server' = [server EXCEPT ![p].born = m.visit, ![p].text = m.text]
        /\ Reply(m, "ok", p)
  BY DEF Create
<1> DEFINE new == [m EXCEPT !.stage = "ok", !.id = p]
<1>1. m \in Message /\ m.stage = "sent" /\ Creates(m)
  BY DEF Create, Sound, TypeOK
<1>2. /\ new.kind = m.kind /\ new.asked = m.asked /\ new.id = p
      /\ new.visit = m.visit /\ new.stage = "ok"
  BY <1>1 DEF Message
<1>3. /\ net' = (net \ {m}) \union {new} /\ visit' = visit
      /\ one' = one /\ step' = step /\ open' = open
  BY <1>0 DEF Reply, draft
<1>4. /\ hist'.late = hist.late /\ hist'.lost = hist.lost
      /\ hist'.again = hist.again
  BY <1>0 DEF Reply, Sound, TypeOK, History
<1>5. /\ server'[p].born = m.visit
      /\ \A q \in Projects : q # p => server'[q].born = server[q].born
      /\ \A q \in Projects : /\ server'[q].complete = server[q].complete
                             /\ server'[q].invited = server[q].invited
  BY <1>0, <1>1 DEF Sound, TypeOK, Project, Message
<1>6. server[p].born = 0 /\ p # NoId /\ m.visit # 0 /\ m.visit <= visit
  BY <1>0, ConstantsAssumption DEF Sound, Known
<1>7. one.id \in Ids /\ \A n \in net : n.id \in Ids /\ n.asked \in Ids
  BY DEF Sound, TypeOK, Message, Draft
<1>8. \A n \in net : (n.id # NoId => n.id # p) /\ (n.asked # NoId => n.asked # p)
  BY <1>6 DEF Sound, Known
<1>9. one.id # NoId => one.id # p
  BY <1>6 DEF Sound, Known
<1> HIDE DEF new
<1>10. Known'
  BY <1>1, <1>2, <1>3, <1>5, <1>6, <1>7, <1>8, <1>9 DEF Sound, Known, Ids, Creates
<1>11. Reach'
  BY <1>1, <1>2, <1>3, <1>4, <1>5, <1>7, <1>8, <1>9
     DEF Sound, Reach, SavesReachTheirProject, Ids, Creates
<1>12. Once'
  BY <1>1, <1>2, <1>3, <1>4, <1>5, <1>6
     DEF Sound, Once, OneProjectPerVisit, Creates, Unsettled
<1>13. Complete'
  BY <1>1, <1>2, <1>3, <1>4, <1>5, <1>7 DEF Sound, Complete, Creates, Ids
<1> QED
  BY <1>10, <1>11, <1>12, <1>13

\* An update changes no visit, and completes what it makes the skills of.
LEMMA UpdateProjectSound ==
    ASSUME Sound, NEW m \in net, UpdateProject(m)
    PROVE  Known' /\ Reach' /\ Once' /\ Complete'
<1> DEFINE new == [m EXCEPT !.stage = "ok", !.id = m.id]
<1>1. m \in Message /\ m.stage = "sent" /\ m.id \in Projects /\ ~Creates(m)
  BY DEF UpdateProject, Sound, TypeOK, Known, Message, Ids, Creates
<1>2. /\ new.kind = m.kind /\ new.asked = m.asked /\ new.id = m.id
      /\ new.visit = m.visit /\ new.stage = "ok"
  BY <1>1 DEF Message
<1>3. /\ net' = (net \ {m}) \union {new} /\ visit' = visit
      /\ one' = one /\ step' = step /\ open' = open
  BY DEF UpdateProject, Reply, draft
<1>4. /\ hist'.late = hist.late /\ hist'.lost = hist.lost
      /\ hist'.again = hist.again
  BY DEF UpdateProject, Reply, Sound, TypeOK, History
<1>5. m.kind \in {"one", "two", "invite"}
  BY <1>1 DEF Message
<1>6. \A q \in Projects :
        /\ server'[q].born = server[q].born
        /\ server[q].complete => server'[q].complete
        /\ server'[q].invited => server[q].invited \/ (q = m.id /\ m.kind = "invite")
  BY <1>1, <1>5 DEF UpdateProject, Sound, TypeOK, Project
<1>7. m.kind = "two" => server'[m.id].complete
  BY <1>1 DEF UpdateProject, Sound, TypeOK, Project
<1>8. /\ one.id # NoId => one.id \in Projects
      /\ \A n \in net : /\ n.id # NoId => n.id \in Projects
                        /\ n.asked # NoId => n.asked \in Projects
  BY DEF Sound, TypeOK, Message, Draft, Ids
<1>9. m.id # NoId /\ m.asked = m.id
  BY <1>1, ConstantsAssumption DEF Sound, Known
<1> HIDE DEF new
<1>10. Known'
  BY <1>1, <1>2, <1>3, <1>6, <1>8, <1>9 DEF Sound, Known
<1>11. Reach'
  BY <1>1, <1>2, <1>3, <1>4, <1>6, <1>8
     DEF Sound, Reach, SavesReachTheirProject
<1>12. Once'
  BY <1>1, <1>2, <1>3, <1>4, <1>6
     DEF Sound, Once, OneProjectPerVisit, Creates, Unsettled
<1>13. Complete'
  BY <1>1, <1>2, <1>3, <1>4, <1>6, <1>7, <1>8, <1>9 DEF Sound, Complete
<1> QED
  BY <1>10, <1>11, <1>12, <1>13

LEMMA RefuseSound ==
    ASSUME Sound, NEW m \in net, Refuse(m)
    PROVE  Known' /\ Reach' /\ Once' /\ Complete'
<1> DEFINE new == [m EXCEPT !.stage = "error", !.id = m.id]
<1>1. m \in Message /\ m.stage = "sent"
  BY DEF Refuse, Sound, TypeOK
<1>2. /\ new.kind = m.kind /\ new.asked = m.asked /\ new.id = m.id
      /\ new.visit = m.visit /\ new.stage = "error"
  BY <1>1 DEF Message
<1>3. /\ net' = (net \ {m}) \union {new} /\ visit' = visit /\ server' = server
      /\ one' = one /\ step' = step /\ open' = open
  BY DEF Refuse, Reply, draft
<1>4. /\ hist'.late = hist.late /\ hist'.lost = hist.lost
      /\ hist'.again = hist.again
  BY DEF Refuse, Reply, Sound, TypeOK, History
<1> HIDE DEF new
<1>5. Known'
  BY <1>1, <1>2, <1>3 DEF Sound, Known
<1>6. Reach'
  BY <1>1, <1>2, <1>3, <1>4 DEF Sound, Reach, SavesReachTheirProject
<1>7. Once'
  BY <1>1, <1>2, <1>3, <1>4 DEF Sound, Once, OneProjectPerVisit, Creates, Unsettled
<1>8. Complete'
  BY <1>1, <1>2, <1>3, <1>4 DEF Sound, Complete
<1> QED
  BY <1>5, <1>6, <1>7, <1>8

\* The answer of a save of this visit brings the draft the visit's project;
\* since there is only one, the skills that are answered are the draft's.
LEMMA DeliverSound ==
    ASSUME Sound, NEW m \in net, Deliver(m)
    PROVE  Known' /\ Reach' /\ Once' /\ Complete'
<1>1. /\ net' = net \ {m} /\ visit' = visit /\ server' = server /\ open' = open
      /\ m.stage # "sent" /\ Saved(m)
  BY DEF Deliver
<1>2. /\ hist.late \subseteq hist'.late /\ hist'.lost = hist.lost
      /\ hist'.again = hist.again
      /\ m.stage = "ok" /\ m.kind # "invite" /\ m.visit # visit => visit \in hist'.late
  BY DEF Deliver, Sound, TypeOK, History
<1>3. m \in Message
  BY DEF Sound, TypeOK
<1>4. CASE m.stage = "ok" /\ m.kind = "one"
  <2>1. one'.id = m.id /\ step' = 1
    BY <1>1, <1>4 DEF Saved, Move
  <2>2. Known'
    BY <1>1, <1>4, <2>1 DEF Sound, Known
  <2>3. Reach'
    BY <1>1, <1>2, <1>4, <2>1 DEF Sound, Known, Reach, SavesReachTheirProject
  <2>4. Once'
    BY <1>1, <1>2, <1>4, <2>1 DEF Sound, Known, Once, OneProjectPerVisit, Creates
  <2>5. Complete'
    BY <1>1, <1>2, <2>1 DEF Sound, Complete
  <2> QED
    BY <2>2, <2>3, <2>4, <2>5
<1>5. CASE m.stage = "ok" /\ m.kind = "two"
  <2>1. one' = one /\ step' = 2
    BY <1>1, <1>5 DEF Saved, Move
  <2>2. Known'
    BY <1>1, <2>1 DEF Sound, Known
  <2>3. Reach'
    BY <1>1, <1>2, <1>5, <2>1 DEF Sound, Reach, SavesReachTheirProject
  <2>4. Once'
    BY <1>1, <1>2, <1>5, <2>1 DEF Sound, Once, OneProjectPerVisit, Creates, Unsettled
  <2>5. Complete'
    <3> SUFFICES ASSUME hist'.late = {}, hist'.again = {} PROVE Complete'
      BY DEF Complete
    <3>1. hist.late = {} /\ hist.again = {} /\ m.visit = visit
      BY <1>2, <1>5
    <3>2. m.id # NoId /\ server[m.id].complete
      BY <1>5, <3>1 DEF Sound, Complete
    <3>3. one.id # NoId /\ server[one.id].born = visit /\ server[m.id].born = visit
      BY <1>5, <3>1, <3>2 DEF Sound, Reach
    <3>4. visit # 0
      BY <3>1 DEF Sound, Known
    <3>5. one.id \in Projects /\ m.id \in Projects
      BY <1>3, <3>2, <3>3 DEF Sound, TypeOK, Message, Draft, Ids
    <3>6. one.id = m.id
      BY <3>1, <3>3, <3>4, <3>5 DEF Sound, Once, OneProjectPerVisit
    <3> QED
      BY <1>1, <2>1, <3>1, <3>2, <3>6 DEF Sound, Complete
  <2> QED
    BY <2>2, <2>3, <2>4, <2>5
<1>6. CASE ~(m.stage = "ok" /\ m.kind \in {"one", "two"})
  <2>1. one' = one /\ step' = step
    BY <1>1, <1>6 DEF Saved, draft
  <2>2. Known'
    BY <1>1, <2>1 DEF Sound, Known
  <2>3. Reach'
    BY <1>1, <1>2, <2>1 DEF Sound, Reach, SavesReachTheirProject
  <2>4. Once'
    BY <1>1, <1>2, <1>6, <2>1 DEF Sound, Once, OneProjectPerVisit, Creates, Unsettled
  <2>5. Complete'
    BY <1>1, <1>2, <2>1 DEF Sound, Complete
  <2> QED
    BY <2>2, <2>3, <2>4, <2>5
<1> QED
  BY <1>4, <1>5, <1>6

LEMMA FailSound ==
    ASSUME Sound, NEW m \in net, Fail(m)
    PROVE  Known' /\ Reach' /\ Once' /\ Complete'
<1>1. /\ net' = net \ {m} /\ visit' = visit /\ server' = server
      /\ one' = one /\ step' = step /\ open' = open
  BY DEF Fail, draft
<1>2. /\ hist'.late = hist.late /\ hist'.again = hist.again
      /\ hist.lost \subseteq hist'.lost
      /\ Creates(m) => m.visit \in hist'.lost
  BY DEF Fail, Sound, TypeOK, History
<1>3. Known'
  BY <1>1 DEF Sound, Known
<1>4. Reach'
  BY <1>1, <1>2 DEF Sound, Reach, SavesReachTheirProject
<1>5. Once'
  BY <1>1, <1>2 DEF Sound, Once, OneProjectPerVisit, Creates, Unsettled
<1>6. Complete'
  BY <1>1, <1>2 DEF Sound, Complete
<1> QED
  BY <1>3, <1>4, <1>5, <1>6

LEMMA StepSound == Sound /\ [Next]_vars => Sound'
<1> SUFFICES ASSUME Sound, [Next]_vars PROVE Sound'
  OBVIOUS
<1>1. TypeOK'
  BY TypeStep DEF Sound
<1>2. CASE UNCHANGED vars
  <2>1. /\ net' = net /\ server' = server /\ hist' = hist /\ visit' = visit
        /\ one' = one /\ step' = step /\ open' = open
    BY <1>2 DEF vars, draft
  <2>2. Known' /\ Reach'
    BY <2>1 DEF Sound, Known, Reach, SavesReachTheirProject
  <2>3. Once' /\ Complete'
    BY <2>1 DEF Sound, Once, Complete, OneProjectPerVisit, Creates, Unsettled
  <2> QED
    BY <1>1, <2>2, <2>3 DEF Sound
<1>3. CASE \E m \in net : Serve(m) \/ Deliver(m) \/ Fail(m)
  BY <1>1, <1>3, CreateSound, UpdateProjectSound, RefuseSound, DeliverSound, FailSound
     DEF Serve, Sound
<1>4. CASE StartNewProject \/ UseThisTemplate
  BY <1>1, <1>4, EnterSound DEF Sound
<1>5. CASE Leave \/ Edit \/ GoBack
  BY <1>1, <1>5, StaySound DEF Sound
<1>6. CASE SaveStepOne \/ SaveStepTwo \/ SendInvite
  BY <1>1, <1>6, SendSound DEF Sound
<1> QED
  BY <1>2, <1>3, <1>4, <1>5, <1>6 DEF Next

\* What requests, answers and the draft say of ids and visits is true.
THEOREM WizardSound == Spec => []Sound
BY InitSound, StepSound, PTL DEF Spec

\* A visit creates one project, unless the user saved again before the create
\* was answered.
THEOREM OneProject == Spec => []OneProjectPerVisit
<1>1. Sound => OneProjectPerVisit
  BY DEF Sound, Once
<1> QED
  BY <1>1, WizardSound, PTL

\* Saves and invitations go to the project of their visit, unless a late
\* answer put another one into the draft.
THEOREM SavesGoHome == Spec => []SavesReachTheirProject
<1>1. Sound => SavesReachTheirProject
  BY DEF Sound, Reach
<1> QED
  BY <1>1, WizardSound, PTL

\* Freelancers are only invited to projects that have their skills.
THEOREM InvitedHaveSkills == Spec => []InvitedWhenComplete
<1>1. Sound => InvitedWhenComplete
  BY DEF Sound, Complete, InvitedWhenComplete
<1> QED
  BY <1>1, WizardSound, PTL

-----------------------------------------------------------------------------
(* The draft and the server                                                *)

\* The answers of this visit that brought the draft a step, or will.
Brings(m, kind) == m.visit = visit /\ m.stage = "ok" /\ m.kind = kind

Newest(m, kind) == \A o \in net : Brings(o, kind) => o.n <= m.n

Orderly == ~hist.failed /\ ~hist.crossed

\* Requests are numbered, an id is never of a later visit than the request, and
\* while none overtook another the answers are those of the oldest requests.
Numbered ==
    /\ \A m \in net : m.n < taps
    /\ \A m, o \in net : m.n = o.n => m = o
    /\ \A m \in net : m.id # NoId => server[m.id].born <= m.visit
    /\ Orderly =>
          \A m, o \in net : m.stage # "sent" /\ o.stage = "sent" => m.n < o.n

\* The last answer on its way holds what the server has; with none on its way
\* the draft does.
Drafted ==
    Orderly /\ visit \notin hist.late \union hist.again =>
        /\ \A m \in net : m.visit = visit =>
              /\ one.id # NoId => m.asked # NoId
              /\ m.asked # NoId => one.id # NoId
        /\ \A m \in net :
              Brings(m, "one") /\ Newest(m, "one") => server[m.id].text = m.text
        /\ \A m \in net :
              Brings(m, "two") /\ Newest(m, "two") => server[m.id].skills = m.text
        /\ one.id # NoId /\ (\A m \in net : ~Brings(m, "one")) =>
              server[one.id].text = one.text
        /\ step = 2 /\ (\A m \in net : ~Brings(m, "two")) =>
              server[one.id].skills = two

Drafting == Sound /\ Numbered /\ Drafted

LEMMA EnterDrafted ==
    ASSUME Drafting, StartNewProject \/ UseThisTemplate
    PROVE  Numbered' /\ Drafted'
<1>1. /\ net' = net /\ server' = server /\ hist' = hist /\ visit' = visit + 1
      /\ one'.id = NoId /\ step' = 0 /\ taps' = taps + 1
  BY DEF StartNewProject, UseThisTemplate, Enter, Blank, Tapped
<1>2. visit \in Nat /\ taps \in Nat /\ \A m \in net : m.n \in Nat /\ m.visit \in Nat
  BY DEF Drafting, Sound, TypeOK, Message
<1>3. Numbered'
  BY <1>1, <1>2 DEF Drafting, Numbered, Orderly
<1>4. \A m \in net : m.visit # visit'
  BY <1>1, <1>2 DEF Drafting, Sound, Known
<1>5. Drafted'
  BY <1>1, <1>4 DEF Drafted, Brings
<1> QED
  BY <1>3, <1>5

LEMMA StayDrafted ==
    ASSUME Drafting, Leave \/ Edit \/ GoBack
    PROVE  Numbered' /\ Drafted'
<1>1. /\ net' = net /\ server' = server /\ hist' = hist /\ visit' = visit
      /\ one' = one /\ two' = two /\ step' \in {step, 0} /\ taps' = taps + 1
  BY DEF Leave, Edit, GoBack, Move, draft, Tapped
<1>2. taps \in Nat /\ \A m \in net : m.n \in Nat
  BY DEF Drafting, Sound, TypeOK, Message
<1>3. Numbered'
  BY <1>1, <1>2 DEF Drafting, Numbered, Orderly
<1>4. Drafted'
  BY <1>1 DEF Drafting, Drafted, Brings, Newest, Orderly
<1> QED
  BY <1>3, <1>4

LEMMA SendDrafted ==
    ASSUME Drafting, SaveStepOne \/ SaveStepTwo \/ SendInvite
    PROVE  Numbered' /\ Drafted'
<1> PICK kind \in {"one", "two", "invite"} : Send(kind)
  BY DEF SaveStepOne, SaveStepTwo, SendInvite
<1> DEFINE new == [n |-> taps, kind |-> kind, asked |-> one.id, id |-> one.id,
                   text |-> form, visit |-> visit, stage |-> "sent"]
<1>1. /\ net' = net \union {new} /\ server' = server /\ visit' = visit
      /\ one' = one /\ two' = two /\ step' = step /\ taps' = taps + 1
  BY DEF Send, draft, Tapped
<1>2. /\ new.n = taps /\ new.asked = one.id /\ new.id = one.id
      /\ new.visit = visit /\ new.stage = "sent"
  OBVIOUS
<1>3. /\ hist'.late = hist.late /\ hist'.failed = hist.failed
      /\ hist'.crossed = hist.crossed /\ hist.again \subseteq hist'.again
  BY DEF Drafting, Sound, TypeOK, History, SaveStepOne, SaveStepTwo, SendInvite
<1>4. taps \in Nat /\ \A m \in net : m.n \in Nat
  BY DEF Drafting, Sound, TypeOK, Message
<1>5. one.id # NoId => server[one.id].born <= visit
  BY DEF Drafting, Sound, Known, TypeOK, Draft, Ids
<1> HIDE DEF new
<1>6. Numbered'
  BY <1>1, <1>2, <1>3, <1>4, <1>5 DEF Drafting, Numbered, Orderly
<1>7. Drafted'
  BY <1>1, <1>2, <1>3 DEF Drafting, Drafted, Brings, Newest, Orderly
<1> QED
  BY <1>6, <1>7

\* What a reply does to the queue: the answers stay in the order of the requests.
LEMMA ReplyNumbered ==
    ASSUME Drafting, NEW m \in net, NEW stage \in {"ok", "error"}, NEW i \in Ids,
           m.stage = "sent", Reply(m, stage, i),
           i # NoId => server'[i].born <= m.visit,
           \A q \in Projects : server[q].born = 0 \/ server'[q].born = server[q].born
    PROVE  /\ Numbered'
           /\ Orderly' => Orderly /\ \A o \in net : o.stage # "sent" => o.n < m.n
           /\ hist'.late = hist.late /\ hist'.again = hist.again
           /\ \E new \in Message :
                 /\ net' = (net \ {m}) \union {new}
                 /\ new.n = m.n /\ new.kind = m.kind /\ new.asked = m.asked
                 /\ new.id = i /\ new.text = m.text /\ new.visit = m.visit
                 /\ new.stage = stage
<1> DEFINE new == [m EXCEPT !.stage = stage, !.id = i]
<1>1. m \in Message
  BY DEF Drafting, Sound, TypeOK
<1>2. /\ new.n = m.n /\ new.kind = m.kind /\ new.asked = m.asked /\ new.id = i
      /\ new.text = m.text /\ new.visit = m.visit /\ new.stage = stage
      /\ new \in Message
  BY <1>1 DEF Message
<1>3. /\ net' = (net \ {m}) \union {new} /\ taps' = taps
  BY DEF Reply
<1>4. /\ hist'.late = hist.late /\ hist'.again = hist.again
      /\ hist'.failed = hist.failed
      /\ hist'.crossed = (hist.crossed \/ \E o \in net : o.stage = "sent" /\ o.n < m.n)
  BY DEF Reply, Drafting, Sound, TypeOK, History
<1>5. \A o \in net : o.n \in Nat /\ o.visit \in Nat /\ (o.id # NoId => o.id \in Projects)
  BY DEF Drafting, Sound, TypeOK, Message, Ids
<1>6. \A o \in net : o.id # NoId => server[o.id].born # 0
  BY DEF Drafting, Sound, Known
<1> HIDE DEF new
<1>7. Orderly' => Orderly /\ \A o \in net : o.stage # "sent" => o.n < m.n
  BY <1>4 DEF Orderly, Drafting, Numbered
<1>8. \A o \in net : o.n < taps /\ \A q \in net : o.n = q.n => o = q
  BY DEF Drafting, Numbered
<1>9. Orderly' => \A o \in net : o # m /\ o.stage = "sent" => m.n < o.n
  <2>1. Orderly' => \A o \in net : o.stage = "sent" => ~(o.n < m.n)
    BY <1>4 DEF Orderly
  <2>2. \A o \in net : o # m => o.n # m.n /\ o.n \in Nat /\ m.n \in Nat
    BY <1>5, <1>8
  <2> QED
    BY <2>1, <2>2
<1>10. \A o \in net : o.id # NoId => server'[o.id].born <= o.visit
  BY <1>5, <1>6 DEF Drafting, Numbered
<1>11. Orderly' => \A o, q \in net : o.stage # "sent" /\ q.stage = "sent" => o.n < q.n
  BY <1>7 DEF Drafting, Numbered
<1>12. Numbered'
  <2>1. \A o \in net' : o.n < taps'
    BY <1>2, <1>3, <1>8
  <2>2. \A o, q \in net' : o.n = q.n => o = q
    BY <1>2, <1>3, <1>8
  <2>3. \A o \in net' : o.id # NoId => server'[o.id].born <= o.visit
    BY <1>2, <1>3, <1>10
  <2>4. Orderly' => \A o, q \in net' : o.stage # "sent" /\ q.stage = "sent" => o.n < q.n
    BY <1>2, <1>3, <1>9, <1>11
  <2> QED
    BY <2>1, <2>2, <2>3, <2>4 DEF Numbered
<1> QED
  BY <1>2, <1>3, <1>4, <1>7, <1>12

\* While the visit is met by no late answer and creates no project twice, its
\* requests and its draft name one project.
LEMMA OwnProject ==
    ASSUME Drafting, visit \notin hist.late \union hist.again, NEW m \in net,
           m.id # NoId, one.id # NoId
    PROVE  /\ one.id \in Projects /\ server[one.id].born = visit
           /\ m.visit = visit <=> m.id = one.id
<1>1. one.id \in Projects /\ m.id \in Projects /\ visit \in Nat /\ m.visit \in Nat
  BY DEF Drafting, Sound, TypeOK, Draft, Message, Ids
<1>2. server[one.id].born = visit
  BY DEF Drafting, Sound, Reach
<1>3. visit # 0 /\ m.visit <= visit
  BY <1>1 DEF Drafting, Sound, Known
<1>4. ASSUME m.visit = visit PROVE m.id = one.id
  <2>1. server[m.id].born = visit
    BY <1>4 DEF Drafting, Sound, Reach
  <2> QED
    BY <1>1, <1>2, <1>3, <2>1 DEF Drafting, Sound, Once, OneProjectPerVisit
<1>5. ASSUME m.id = one.id PROVE m.visit = visit
  BY <1>1, <1>2, <1>3, <1>5 DEF Drafting, Numbered
<1> QED
  BY <1>1, <1>2, <1>4, <1>5

LEMMA CreateDrafted ==
    ASSUME Drafting, NEW m \in net, Create(m)
    PROVE  Numbered' /\ Drafted'
<1>0. PICK p \in Projects :
        /\ server[p].born = 0
        /\ server' = [server EXCEPT ![p].born = m.visit, ![p].text = m.text]
        /\ Reply(m, "ok", p)
  BY DEF Create
<1>1. /\ m \in Message /\ m.stage = "sent" /\ m.kind = "one" /\ m.asked = NoId
      /\ visit \in Nat /\ m.visit \in Nat /\ p # NoId
  BY ConstantsAssumption DEF Create, Creates, Drafting, Sound, TypeOK, Message
<1>2. /\ server'[p].born = m.visit /\ server'[p].text = m.text
      /\ \A q \in Projects : q # p => server'[q] = server[q]
  BY <1>0, <1>1 DEF Drafting, Sound, TypeOK, Project
<1>3. /\ Numbered'
      /\ Orderly' => Orderly /\ \A o \in net : o.stage # "sent" => o.n < m.n
      /\ hist'.late = hist.late /\ hist'.again = hist.again
      /\ \E new \in Message :
            /\ net' = (net \ {m}) \union {new}
            /\ new.n = m.n /\ new.kind = m.kind /\ new.asked = m.asked
            /\ new.id = p /\ new.text = m.text /\ new.visit = m.visit
            /\ new.stage = "ok"
  <2>1. p \in Ids /\ (p # NoId => server'[p].born <= m.visit)
    BY <1>1, <1>2 DEF Ids
  <2>2. \A q \in Projects : server[q].born = 0 \/ server'[q].born = server[q].born
    BY <1>0, <1>2
  <2> QED
    BY <1>0, <1>1, <2>1, <2>2, ReplyNumbered
<1>4. PICK new \in Message :
            /\ net' = (net \ {m}) \union {new}
            /\ new.n = m.n /\ new.kind = m.kind /\ new.asked = m.asked
            /\ new.id = p /\ new.text = m.text /\ new.visit = m.visit
            /\ new.stage = "ok"
  BY <1>3
<1>5. visit' = visit /\ one' = one /\ two' = two /\ step' = step
  BY <1>0 DEF Reply, draft
<1>6. one.id # NoId => one.id \in Projects /\ one.id # p
  BY <1>0 DEF Drafting, Sound, Known, TypeOK, Draft, Ids
<1>7. \A o \in net : o.id # NoId => o.id \in Projects /\ o.id # p
  BY <1>0 DEF Drafting, Sound, Known, TypeOK, Message, Ids
<1>8. \A o \in net : o.stage = "ok" => o.id # NoId
  BY DEF Drafting, Sound, Known
<1>9. \A o \in net : o.n \in Nat
  BY DEF Drafting, Sound, TypeOK, Message
<1>10. Drafted'
  <2> SUFFICES ASSUME Orderly', visit \notin hist.late \union hist.again
               PROVE  Drafted'
    BY <1>3, <1>5 DEF Drafted
  <2>1. Orderly /\ \A o \in net : o.stage # "sent" => o.n < m.n
    BY <1>3
  <2>2. /\ \A o \in net : o.visit = visit =>
              /\ one.id # NoId => o.asked # NoId
              /\ o.asked # NoId => one.id # NoId
        /\ \A o \in net :
              Brings(o, "one") /\ Newest(o, "one") => server[o.id].text = o.text
        /\ \A o \in net :
              Brings(o, "two") /\ Newest(o, "two") => server[o.id].skills = o.text
        /\ one.id # NoId /\ (\A o \in net : ~Brings(o, "one")) =>
              server[one.id].text = one.text
        /\ step = 2 /\ (\A o \in net : ~Brings(o, "two")) =>
              server[one.id].skills = two
    BY <2>1 DEF Drafting, Drafted
  <2>3. step = 2 => one.id # NoId
    BY DEF Drafting, Sound, Reach
  <2>4. \A o \in net' : o.visit = visit =>
              /\ one.id # NoId => o.asked # NoId
              /\ o.asked # NoId => one.id # NoId
    BY <1>1, <1>4, <2>2
  <2>5. ASSUME NEW o \in net', Brings(o, "one")', Newest(o, "one")'
        PROVE  server'[o.id].text = o.text
    <3>1. CASE o = new
      BY <1>2, <1>4, <3>1
    <3>2. CASE o # new
      <4>1. o \in net /\ Brings(o, "one") /\ o.id # NoId
        BY <1>4, <1>5, <1>8, <2>5, <3>2 DEF Brings
      <4>2. CASE new.visit = visit
        <5>1. new.n <= o.n
          BY <1>1, <1>4, <1>5, <2>5, <4>2 DEF Brings, Newest
        <5> QED
          BY <1>4, <1>9, <2>1, <4>1, <5>1 DEF Brings
      <4>3. CASE new.visit # visit
        <5>1. Newest(o, "one")
          BY <1>1, <1>4, <1>5, <2>5, <4>3 DEF Brings, Newest
        <5> QED
          BY <1>2, <1>7, <2>2, <4>1, <5>1
      <4> QED
        BY <4>2, <4>3
    <3> QED
      BY <3>1, <3>2
  <2>6. ASSUME NEW o \in net', Brings(o, "two")', Newest(o, "two")'
        PROVE  server'[o.id].skills = o.text
    <3>1. o \in net /\ Brings(o, "two") /\ o.id # NoId
      BY <1>1, <1>4, <1>5, <1>8, <2>6 DEF Brings
    <3>2. Newest(o, "two")
      BY <1>1, <1>4, <1>5, <2>6 DEF Brings, Newest
    <3> QED
      BY <1>2, <1>7, <2>2, <3>1, <3>2
  <2>7. one.id # NoId /\ (\A o \in net' : ~Brings(o, "one")') =>
              server'[one.id].text = one.text
    BY <1>1, <1>2, <1>4, <1>5, <1>6, <2>2 DEF Brings
  <2>8. step = 2 /\ (\A o \in net' : ~Brings(o, "two")') =>
              server'[one.id].skills = two
    BY <1>1, <1>2, <1>4, <1>5, <1>6, <2>2, <2>3 DEF Brings
  <2> QED
    BY <1>5, <2>4, <2>5, <2>6, <2>7, <2>8 DEF Drafted
<1> QED
  BY <1>3, <1>10

LEMMA RefuseDrafted ==
    ASSUME Drafting, NEW m \in net, Refuse(m)
    PROVE  Numbered' /\ Drafted'
<1>1. m \in Message /\ m.stage = "sent" /\ m.id \in Ids /\ server' = server
  BY DEF Refuse, Drafting, Sound, TypeOK, Message
<1>2. m.id # NoId => server'[m.id].born <= m.visit
  BY <1>1 DEF Drafting, Numbered
<1>3. /\ Numbered'
      /\ Orderly' => Orderly /\ \A o \in net : o.stage # "sent" => o.n < m.n
      /\ hist'.late = hist.late /\ hist'.again = hist.again
      /\ \E new \in Message :
            /\ net' = (net \ {m}) \union {new}
            /\ new.n = m.n /\ new.kind = m.kind /\ new.asked = m.asked
            /\ new.id = m.id /\ new.text = m.text /\ new.visit = m.visit
            /\ new.stage = "error"
  BY <1>1, <1>2, ReplyNumbered DEF Refuse
<1>4. PICK new \in Message :
            /\ net' = (net \ {m}) \union {new}
            /\ new.asked = m.asked /\ new.visit = m.visit /\ new.stage = "error"
  BY <1>3
<1>5. visit' = visit /\ one' = one /\ two' = two /\ step' = step
  BY DEF Refuse, Reply, draft
<1>6. \A o : \A k : o \in net' /\ Brings(o, k)' <=> o \in net /\ Brings(o, k)
  BY <1>1, <1>4, <1>5 DEF Brings
<1>7. \A o : \A k : Newest(o, k)' <=> Newest(o, k)
  BY <1>6 DEF Newest
<1>8. \A o \in net' : o.visit = visit => \E q \in net : q.visit = visit /\ q.asked = o.asked
  BY <1>4
<1>9. Drafted'
  BY <1>1, <1>3, <1>5, <1>6, <1>7, <1>8 DEF Drafting, Drafted
<1> QED
  BY <1>3, <1>9

LEMMA FailDrafted ==
    ASSUME Drafting, NEW m \in net, Fail(m)
    PROVE  Numbered' /\ Drafted'
<1>1. net' = net \ {m} /\ server' = server /\ taps' = taps /\ hist'.failed
  BY DEF Fail, Drafting, Sound, TypeOK, History
<1> QED
  BY <1>1 DEF Drafting, Numbered, Drafted, Orderly

LEMMA UpdateProjectDrafted ==
    ASSUME Drafting, NEW m \in net, UpdateProject(m)
    PROVE  Numbered' /\ Drafted'
<1>1. /\ m \in Message /\ m.stage = "sent" /\ m.id # NoId /\ m.id \in Projects
      /\ m.kind \in {"one", "two", "invite"} /\ visit \in Nat /\ m.visit \in Nat
  BY DEF UpdateProject, Drafting, Sound, TypeOK, Message, Ids
<1>2. \A q \in Projects :
        /\ server'[q].born = server[q].born
        /\ q # m.id => server'[q] = server[q]
        /\ m.kind # "one" => server'[q].text = server[q].text
        /\ m.kind # "two" => server'[q].skills = server[q].skills
  BY <1>1 DEF UpdateProject, Drafting, Sound, TypeOK, Project
<1>3. /\ m.kind = "one" => server'[m.id].text = m.text
      /\ m.kind = "two" => server'[m.id].skills = m.text
  BY <1>1 DEF UpdateProject, Drafting, Sound, TypeOK, Project
<1>4. /\ Numbered'
      /\ Orderly' => Orderly /\ \A o \in net : o.stage # "sent" => o.n < m.n
      /\ hist'.late = hist.late /\ hist'.again = hist.again
      /\ \E new \in Message :
            /\ net' = (net \ {m}) \union {new}
            /\ new.n = m.n /\ new.kind = m.kind /\ new.asked = m.asked
            /\ new.id = m.id /\ new.text = m.text /\ new.visit = m.visit
            /\ new.stage = "ok"
  <2>1. server[m.id].born <= m.visit
    BY <1>1 DEF Drafting, Numbered
  <2>2. m.id \in Ids /\ (m.id # NoId => server'[m.id].born <= m.visit)
    BY <1>1, <1>2, <2>1 DEF Ids
  <2>3. \A q \in Projects : server[q].born = 0 \/ server'[q].born = server[q].born
    BY <1>2
  <2> QED
    BY <1>1, <2>2, <2>3, ReplyNumbered DEF UpdateProject
<1>5. PICK new \in Message :
            /\ net' = (net \ {m}) \union {new}
            /\ new.n = m.n /\ new.kind = m.kind /\ new.asked = m.asked
            /\ new.id = m.id /\ new.text = m.text /\ new.visit = m.visit
            /\ new.stage = "ok"
  BY <1>4
<1>6. visit' = visit /\ one' = one /\ two' = two /\ step' = step
  BY DEF UpdateProject, Reply, draft
<1>7. \A o \in net : o.n \in Nat /\ (o.id # NoId => o.id \in Projects)
  BY DEF Drafting, Sound, TypeOK, Message, Ids
<1>8. \A o \in net : o.stage = "ok" => o.id # NoId
  BY DEF Drafting, Sound, Known
<1>9. m.asked = m.id
  BY <1>1 DEF Drafting, Sound, Known
<1>10. Drafted'
  <2> SUFFICES ASSUME Orderly', visit \notin hist.late \union hist.again
               PROVE  Drafted'
    BY <1>4, <1>6 DEF Drafted
  <2>1. Orderly /\ \A o \in net : o.stage # "sent" => o.n < m.n
    BY <1>4
  <2>2. /\ \A o \in net : o.visit = visit =>
              /\ one.id # NoId => o.asked # NoId
              /\ o.asked # NoId => one.id # NoId
        /\ \A o \in net :
              Brings(o, "one") /\ Newest(o, "one") => server[o.id].text = o.text
        /\ \A o \in net :
              Brings(o, "two") /\ Newest(o, "two") => server[o.id].skills = o.text
        /\ one.id # NoId /\ (\A o \in net : ~Brings(o, "one")) =>
              server[one.id].text = one.text
        /\ step = 2 /\ (\A o \in net : ~Brings(o, "two")) =>
              server[one.id].skills = two
    BY <2>1 DEF Drafting, Drafted
  <2>3. step = 2 => one.id # NoId
    BY DEF Drafting, Sound, Reach
  <2>4. \A o \in net' : o.visit = visit =>
              /\ one.id # NoId => o.asked # NoId
              /\ o.asked # NoId => one.id # NoId
    BY <1>1, <1>5, <2>2
  \* A request of this visit is for the project of the draft, and so are the
  \* answers of this visit; a request of another visit is not.
  <2>5. /\ m.visit = visit => one.id # NoId /\ m.id = one.id
        /\ m.visit # visit => one.id = NoId \/ m.id # one.id
    BY <1>1, <1>9, <2>2, OwnProject
  <2>6. \A o \in net : o.visit = visit /\ o.stage = "ok" =>
            (m.visit # visit => o.id # m.id)
    <3> SUFFICES ASSUME NEW o \in net, o.visit = visit, o.stage = "ok",
                        m.visit # visit, o.id = m.id
                 PROVE  FALSE
      OBVIOUS
    <3>1. server[m.id].born = visit /\ server[m.id].born <= m.visit
      BY <1>1, <1>8 DEF Drafting, Sound, Reach, Numbered
    <3>2. m.visit <= visit
      BY DEF Drafting, Sound, Known
    <3> QED
      BY <1>1, <3>1, <3>2
  <2>7. one.id # NoId => one.id \in Projects
    BY DEF Drafting, Sound, TypeOK, Draft, Ids
  <2>8. ASSUME NEW o \in net', Brings(o, "one")', Newest(o, "one")'
        PROVE  server'[o.id].text = o.text
    <3>1. CASE o = new
      BY <1>3, <1>5, <2>8, <3>1 DEF Brings
    <3>2. CASE o # new
      <4>1. o \in net /\ Brings(o, "one") /\ o.id # NoId /\ o.id \in Projects
        BY <1>5, <1>6, <1>7, <1>8, <2>8, <3>2 DEF Brings
      <4>2. o.n < m.n /\ o.n \in Nat /\ m.n \in Nat
        BY <1>7, <2>1, <4>1 DEF Brings
      <4>3. ~(new.visit = visit /\ new.kind = "one")
        <5> SUFFICES ASSUME new.visit = visit, new.kind = "one" PROVE FALSE
          OBVIOUS
        <5>1. new.n <= o.n
          BY <1>5, <1>6, <2>8 DEF Brings, Newest
        <5> QED
          BY <1>5, <4>2, <5>1
      <4>4. Newest(o, "one")
        BY <1>1, <1>5, <1>6, <2>8 DEF Brings, Newest
      <4>5. server[o.id].text = o.text
        BY <2>2, <4>1, <4>4
      <4>6. server'[o.id].text = server[o.id].text
        BY <1>2, <1>5, <2>6, <4>1, <4>3 DEF Brings
      <4> QED
        BY <4>5, <4>6
    <3> QED
      BY <3>1, <3>2
  <2>9. ASSUME NEW o \in net', Brings(o, "two")', Newest(o, "two")'
        PROVE  server'[o.id].skills = o.text
    <3>1. CASE o = new
      BY <1>3, <1>5, <2>9, <3>1 DEF Brings
    <3>2. CASE o # new
      <4>1. o \in net /\ Brings(o, "two") /\ o.id # NoId /\ o.id \in Projects
        BY <1>5, <1>6, <1>7, <1>8, <2>9, <3>2 DEF Brings
      <4>2. o.n < m.n /\ o.n \in Nat /\ m.n \in Nat
        BY <1>7, <2>1, <4>1 DEF Brings
      <4>3. ~(new.visit = visit /\ new.kind = "two")
        <5> SUFFICES ASSUME new.visit = visit, new.kind = "two" PROVE FALSE
          OBVIOUS
        <5>1. new.n <= o.n
          BY <1>5, <1>6, <2>9 DEF Brings, Newest
        <5> QED
          BY <1>5, <4>2, <5>1
      <4>4. Newest(o, "two")
        BY <1>1, <1>5, <1>6, <2>9 DEF Brings, Newest
      <4>5. server[o.id].skills = o.text
        BY <2>2, <4>1, <4>4
      <4>6. server'[o.id].skills = server[o.id].skills
        BY <1>2, <1>5, <2>6, <4>1, <4>3 DEF Brings
      <4> QED
        BY <4>5, <4>6
    <3> QED
      BY <3>1, <3>2
  <2>10. ASSUME one.id # NoId, \A o \in net' : ~Brings(o, "one")'
         PROVE  server'[one.id].text = one.text
    <3>1. ~(m.visit = visit /\ m.kind = "one")
      BY <1>5, <1>6, <2>10 DEF Brings
    <3>2. server'[one.id].text = server[one.id].text
      BY <1>2, <2>5, <2>7, <2>10, <3>1
    <3>3. \A o \in net : ~Brings(o, "one")
      BY <1>1, <1>5, <1>6, <2>10 DEF Brings
    <3> QED
      BY <2>2, <2>10, <3>2, <3>3
  <2>11. ASSUME step = 2, \A o \in net' : ~Brings(o, "two")'
         PROVE  server'[one.id].skills = two
    <3>1. ~(m.visit = visit /\ m.kind = "two")
      BY <1>5, <1>6, <2>11 DEF Brings
    <3>2. server'[one.id].skills = server[one.id].skills
      BY <1>2, <2>3, <2>5, <2>7, <2>11, <3>1
    <3>3. \A o \in net : ~Brings(o, "two")
      BY <1>1, <1>5, <1>6, <2>11 DEF Brings
    <3> QED
      BY <2>2, <2>11, <3>2, <3>3
  <2> QED
    BY <1>6, <2>4, <2>8, <2>9, <2>10, <2>11 DEF Drafted
<1> QED
  BY <1>4, <1>10

\* With nothing overtaken the answer delivered is the oldest; if it is the last of
\* its step on its way, it is the newest as well, and holds what the server has.
LEMMA DeliverDrafted ==
    ASSUME Drafting, NEW m \in net, Deliver(m)
    PROVE  Numbered' /\ Drafted'
<1>1. /\ net' = net \ {m} /\ visit' = visit /\ server' = server /\ taps' = taps
      /\ m.stage # "sent" /\ Saved(m) /\ m \in Message
  BY DEF Deliver, Drafting, Sound, TypeOK
<1>2. /\ hist.late \subseteq hist'.late /\ hist'.again = hist.again
      /\ m.stage = "ok" /\ m.kind # "invite" /\ m.visit # visit => visit \in hist'.late
      /\ Orderly' => Orderly
  BY DEF Deliver, Drafting, Sound, TypeOK, History, Orderly
<1>3. Numbered'
  BY <1>1, <1>2 DEF Drafting, Numbered
<1>4. Drafted'
  <2> SUFFICES ASSUME Orderly', visit \notin hist'.late \union hist'.again
               PROVE  Drafted'
    BY <1>1 DEF Drafted
  <2>1. Orderly /\ visit \notin hist.late \union hist.again
    BY <1>2
  <2>2. /\ \A o \in net : o.visit = visit =>
              /\ one.id # NoId => o.asked # NoId
              /\ o.asked # NoId => one.id # NoId
        /\ \A o \in net :
              Brings(o, "one") /\ Newest(o, "one") => server[o.id].text = o.text
        /\ \A o \in net :
              Brings(o, "two") /\ Newest(o, "two") => server[o.id].skills = o.text
        /\ one.id # NoId /\ (\A o \in net : ~Brings(o, "one")) =>
              server[one.id].text = one.text
        /\ step = 2 /\ (\A o \in net : ~Brings(o, "two")) =>
              server[one.id].skills = two
    BY <2>1 DEF Drafting, Drafted
  <2>3. \A o \in net : ~(o.n < m.n) /\ o.n \in Nat /\ (o.n = m.n => o = m)
    BY DEF Deliver, Orderly, Drafting, Numbered, Sound, TypeOK, Message, History
  <2>4. \A o \in net' : o \in net /\ m.n <= o.n /\ o # m
    BY <1>1, <2>3
  \* What is left in flight is the newest of its step as it was.
  <2>5. \A o \in net' : \A k \in {"one", "two"} :
            Brings(o, k)' /\ Newest(o, k)' => Brings(o, k) /\ Newest(o, k)
    BY <1>1, <2>4 DEF Brings, Newest
  <2>6. /\ \A o \in net' : Brings(o, "one")' /\ Newest(o, "one")' =>
              server'[o.id].text = o.text
        /\ \A o \in net' : Brings(o, "two")' /\ Newest(o, "two")' =>
              server'[o.id].skills = o.text
    BY <1>1, <2>2, <2>4, <2>5
  <2>7. CASE m.stage = "ok" /\ m.kind = "one"
    <3>1. one' = [id |-> m.id, text |-> m.text] /\ step' = 1
      BY <1>1, <2>7 DEF Saved, Move
    <3>2. m.visit = visit /\ m.id # NoId
      BY <1>2, <2>7 DEF Drafting, Sound, Known
    <3>3. ASSUME NEW o \in net', o.visit = visit PROVE o.asked # NoId
      <4>1. CASE one.id # NoId
        BY <2>2, <2>4, <3>3, <4>1
      <4>2. CASE one.id = NoId
        <5> SUFFICES ASSUME o.asked = NoId PROVE FALSE
          OBVIOUS
        <5>1. Creates(m)
          BY <2>2, <2>7, <3>2, <4>2 DEF Creates
        <5>2. Creates(o)
          BY <2>1, <2>4, <3>3 DEF Creates, Drafting, Sound, Reach, SavesReachTheirProject
        <5> QED
          BY <2>1, <2>4, <3>2, <3>3, <5>1, <5>2 DEF Drafting, Sound, Once
      <4> QED
        BY <4>1, <4>2
    <3>4. ASSUME \A o \in net' : ~Brings(o, "one")' PROVE server[m.id].text = m.text
      <4>1. Brings(m, "one")
        BY <2>7, <3>2 DEF Brings
      <4>2. Newest(m, "one")
        BY <1>1, <2>3, <3>4 DEF Brings, Newest
      <4> QED
        BY <2>2, <4>1, <4>2
    <3> QED
      BY <1>1, <2>6, <3>1, <3>2, <3>3, <3>4 DEF Drafted
  <2>8. CASE m.stage = "ok" /\ m.kind = "two"
    <3>1. one' = one /\ two' = m.text /\ step' = 2
      BY <1>1, <2>8 DEF Saved, Move
    <3>2. m.visit = visit /\ m.id # NoId
      BY <1>2, <2>8 DEF Drafting, Sound, Known
    <3>3. one.id # NoId /\ m.id = one.id
      <4>1. one.id # NoId
        BY <2>1, <2>8, <3>2 DEF Drafting, Sound, Reach
      <4> QED
        BY <2>1, <3>2, <4>1, OwnProject
    <3>4. ASSUME \A o \in net' : ~Brings(o, "two")' PROVE server[one.id].skills = m.text
      <4>1. Brings(m, "two")
        BY <2>8, <3>2 DEF Brings
      <4>2. Newest(m, "two")
        BY <1>1, <2>3, <3>4 DEF Brings, Newest
      <4> QED
        BY <2>2, <3>3, <4>1, <4>2
    <3>5. (\A o \in net' : ~Brings(o, "one")') => \A o \in net : ~Brings(o, "one")
      BY <1>1, <2>8 DEF Brings
    <3>6. \A o \in net' : o.visit = visit => o.asked # NoId
      BY <2>2, <2>4, <3>3
    <3> QED
      BY <1>1, <2>2, <2>6, <3>1, <3>3, <3>4, <3>5, <3>6 DEF Drafted
  <2>9. CASE ~(m.stage = "ok" /\ m.kind \in {"one", "two"})
    <3>1. one' = one /\ two' = two /\ step' = step
      BY <1>1, <2>9 DEF Saved, draft
    <3>2. \A k \in {"one", "two"} :
            (\A o \in net' : ~Brings(o, k)') => \A o \in net : ~Brings(o, k)
      BY <1>1, <2>9 DEF Brings
    <3> QED
      BY <1>1, <2>2, <2>4, <2>6, <3>1, <3>2 DEF Drafted
  <2> QED
    BY <2>7, <2>8, <2>9
<1> QED
  BY <1>3, <1>4

LEMMA StepDrafting == Drafting /\ [Next]_vars => Drafting'
<1> SUFFICES ASSUME Drafting, [Next]_vars PROVE Drafting'
  OBVIOUS
<1>1. Sound'
  BY StepSound DEF Drafting
<1>2. CASE UNCHANGED vars
  <2>1. /\ net' = net /\ server' = server /\ hist' = hist /\ visit' = visit
        /\ one' = one /\ two' = two /\ step' = step /\ taps' = taps
    BY <1>2 DEF vars, draft
  <2> QED
    BY <1>1, <2>1 DEF Drafting, Numbered, Drafted, Brings, Newest, Orderly
<1>3. CASE \E m \in net : Serve(m) \/ Deliver(m) \/ Fail(m)
  BY <1>1, <1>3, CreateDrafted, UpdateProjectDrafted, RefuseDrafted, DeliverDrafted,
     FailDrafted DEF Serve, Drafting
<1>4. CASE StartNewProject \/ UseThisTemplate
  BY <1>1, <1>4, EnterDrafted DEF Drafting
<1>5. CASE Leave \/ Edit \/ GoBack
  BY <1>1, <1>5, StayDrafted DEF Drafting
<1>6. CASE SaveStepOne \/ SaveStepTwo \/ SendInvite
  BY <1>1, <1>6, SendDrafted DEF Drafting
<1> QED
  BY <1>2, <1>3, <1>4, <1>5, <1>6 DEF Next

LEMMA InitDrafting == Init => Drafting
<1> SUFFICES ASSUME Init PROVE Drafting
  OBVIOUS
<1>1. net = {} /\ one.id = NoId /\ step = 0
  BY DEF Init, Blank
<1> QED
  BY <1>1, InitSound DEF Drafting, Numbered, Drafted

\* With nothing in flight the draft is what the server holds of the project, if no
\* answer was lost or came late, nothing was overtaken and nothing created twice.
THEOREM DraftIsTheServers == Spec => []QuietDraft
<1>1. Drafting => QuietDraft
  BY DEF Drafting, Drafted, QuietDraft, Orderly
<1> QED
  BY <1>1, InitDrafting, StepDrafting, PTL DEF Spec

-----------------------------------------------------------------------------
(* PostTask.  Types                                                        *)

TaskHistory ==
    [late : BOOLEAN, again : SUBSET Nat, kept : BOOLEAN,
     old : BOOLEAN, returned : BOOLEAN, twice : BOOLEAN,
     refused : BOOLEAN, early : BOOLEAN, saved : SUBSET Task!Steps]

TaskForms ==
    [value : Nat, typed : Nat, packages : {"asked", "yes", "no"},
     loading : BOOLEAN, mount : Nat, visit : Nat]

\* A task that has been created, or none.
TaskLive(i) == i = none \/ tasks[i].parts # <<>>

\* Whatever the wizard, the list or a save speaks of has been created.
TaskKnown ==
    /\ \A t \in Tasks :
          tasks[t].parts = <<>> => rows[t] = <<>> /\ tasks[t].born = 0
    /\ TaskLive(taskId) /\ TaskLive(item.task)
    /\ item.task # none => item.parts # <<>> /\ rows[item.task] # <<>>
    /\ \A m \in saves :
          /\ TaskLive(m.asked) /\ TaskLive(m.id)
          /\ m.asked # none => m.id = m.asked
          /\ m.stage = "ok" => m.id # none
          /\ m.asked = none => (m.stage = "ok" <=> m.id # none)

TaskItems == [task : Task!Ids, parts : Task!Versions]

TaskServers == [Tasks -> [born : Nat, parts : Task!Versions, done : SUBSET Task!Steps]]

TaskTyped ==
    /\ tasks \in TaskServers /\ rows \in [Tasks -> Task!Versions]
    /\ taskStep \in Task!Steps /\ taskId \in Task!Ids /\ focused \in BOOLEAN
    /\ item \in TaskItems /\ fields \in TaskForms /\ saves \subseteq Task!Message
    /\ entry \in Nat /\ touches \in Nat /\ taskHist \in TaskHistory

LEMMA TaskTypedIsTypeOK == (Task!TypeOK <=> TaskTyped) /\ (Task!TypeOK' <=> TaskTyped')
BY DEF Task!TypeOK, TaskTyped, TaskServers, TaskItems, TaskForms, TaskHistory

LEMMA TaskElement ==
    ASSUME NEW S, NEW s \in Seq(S), NEW k \in DOMAIN s PROVE s[k] \in S
OBVIOUS

LEMMA TaskVersionsShape ==
    ASSUME NEW s \in Task!Versions, s # <<>>
    PROVE  s \in Seq(Nat) /\ DOMAIN s = 1 .. 4 /\ \A k \in 1 .. 4 : s[k] \in Nat
<1>1. s \in Seq(Nat) /\ Len(s) \in {0, 4}
  BY DEF Task!Versions
<1>2. Len(s) = 4
  BY <1>1
<1>3. DOMAIN s = 1 .. 4
  BY <1>1, <1>2
<1>4. ASSUME NEW k \in 1 .. 4 PROVE s[k] \in Nat
  BY <1>1, <1>3, TaskElement
<1> QED
  BY <1>1, <1>3, <1>4

LEMMA TaskChangeFacts ==
    ASSUME NEW S, NEW s \in Seq(S), NEW k \in DOMAIN s, NEW v \in S
    PROVE  /\ [s EXCEPT ![k] = v] \in Seq(S)
           /\ Len([s EXCEPT ![k] = v]) = Len(s)
OBVIOUS

LEMMA TaskVersionsChange ==
    ASSUME NEW s \in Task!Versions, s # <<>>, NEW k \in 1 .. 4, NEW v \in Nat,
           NEW t, t = [s EXCEPT ![k] = v]
    PROVE  /\ t \in Task!Versions /\ t # <<>>
           /\ t[k] = v /\ \A j \in 1 .. 4 : j # k => t[j] = s[j]
<1>1. s \in Seq(Nat) /\ DOMAIN s = 1 .. 4
  BY TaskVersionsShape
<1>2. Len(s) = 4
  BY <1>1
<1>3. t \in Seq(Nat) /\ Len(t) = 4
  BY <1>1, <1>2, TaskChangeFacts
<1> QED
  BY <1>1, <1>3 DEF Task!Versions

LEMMA TaskBlankVersions == <<>> \in Task!Versions /\ <<1, 1, 1, 1>> \in Task!Versions
BY DEF Task!Versions

LEMMA TaskMountedType ==
    ASSUME NEW k \in Task!Steps, NEW n \in Nat, NEW v \in Nat, NEW i \in TaskItems,
           i.task # none => i.parts # <<>>
    PROVE  Task!Mounted(k, i, n, v) \in TaskForms
<1>1. i.task # none => i.parts[k + 1] \in Nat
  BY TaskVersionsShape DEF Task!Steps, TaskItems
<1> QED
  BY <1>1 DEF Task!Mounted, TaskForms

LEMMA TaskNoItemType == Task!NoItem \in TaskItems
BY TaskBlankVersions DEF Task!NoItem, Task!Ids, TaskItems

LEMMA TaskInit == ASSUME Task!Init PROVE TaskTyped /\ TaskKnown
<1> PICK t \in Tasks :
          tasks = [u \in Tasks |->
                       [born |-> 0, done |-> IF u = t THEN Task!Steps ELSE {},
                        parts |-> IF u = t THEN <<1, 1, 1, 1>> ELSE <<>>]]
  BY DEF Task!Init
<1>1. tasks \in TaskServers
  BY TaskBlankVersions DEF TaskServers
<1>2. rows \in [Tasks -> Task!Versions]
  BY <1>1 DEF Task!Init, TaskServers
<1>3. 0 \in Task!Steps /\ fields \in TaskForms
  BY TaskMountedType, TaskNoItemType DEF Task!Init, Task!Steps, Task!NoItem
<1>4. taskHist \in TaskHistory
  BY DEF Task!Init, Task!Quiet, TaskHistory
<1>5. TaskTyped
  BY <1>1, <1>2, <1>3, <1>4, TaskNoItemType DEF Task!Init, TaskTyped, Task!Ids
<1>6. TaskKnown
  BY <1>1, TaskAssumption DEF Task!Init, TaskKnown, TaskLive, Task!NoItem
<1> QED
  BY <1>5, <1>6

LEMMA TaskQuietType == Task!Quiet \in TaskHistory
BY DEF Task!Quiet, TaskHistory

LEMMA TaskTappedType == ASSUME TaskTyped, Task!Tapped PROVE touches' \in Nat
BY DEF TaskTyped, Task!Tapped

LEMMA TaskEnterTyped ==
    ASSUME TaskTyped, NEW i \in TaskItems, i.task # none => i.parts # <<>>,
           Task!Enter(i), taskHist' \in TaskHistory, Task!Tapped, UNCHANGED <<tasks, rows, saves>>
    PROVE  TaskTyped'
<1>1. entry + 1 \in Nat /\ touches \in Nat /\ i.task \in Task!Ids /\ 0 \in Task!Steps
  BY DEF TaskTyped, TaskItems, Task!Steps
<1>2. Task!Mounted(0, i, touches, entry + 1) \in TaskForms
  BY <1>1, TaskMountedType
<1>3. fields' \in TaskForms
  BY <1>2 DEF Task!Enter, TaskTyped
<1> QED
  BY <1>1, <1>3, TaskTappedType DEF TaskTyped, Task!Enter

LEMMA TaskBeginTyped ==
    ASSUME TaskTyped, NEW o \in BOOLEAN, NEW k \in BOOLEAN, Task!Begin(o, k)
    PROVE  taskHist' \in TaskHistory
<1>1. ASSUME NEW h \in TaskHistory
      PROVE  [h EXCEPT !.old = @ \/ o, !.kept = @ \/ k] \in TaskHistory
  BY DEF TaskHistory
<1>2. [Task!Quiet EXCEPT !.again = taskHist.again] \in TaskHistory
  BY DEF TaskTyped, Task!Quiet, TaskHistory
<1>3. [taskHist EXCEPT !.saved = {}] \in TaskHistory
  BY DEF TaskTyped, TaskHistory
<1> QED
  BY <1>1, <1>2, <1>3 DEF Task!Begin

LEMMA TaskGotoTyped ==
    ASSUME TaskTyped, TaskKnown, NEW k \in Task!Steps, NEW n \in Nat, Task!Goto(k, n)
    PROVE  taskStep' = k /\ fields' \in TaskForms
<1>1. Task!Mounted(k, item, n, entry) \in TaskForms
  BY TaskMountedType DEF TaskTyped, TaskKnown
<1> QED
  BY <1>1 DEF Task!Goto, TaskTyped

LEMMA TaskServerParts ==
    ASSUME TaskTyped, NEW t \in Tasks
    PROVE  /\ tasks[t].parts \in Task!Versions /\ tasks[t].born \in Nat
           /\ tasks[t].done \subseteq Task!Steps /\ rows[t] \in Task!Versions
BY DEF TaskTyped, TaskServers

LEMMA TaskCreateTaskTyped ==
    ASSUME TaskTyped, TaskKnown, Task!CreateTask PROVE TaskTyped' /\ TaskKnown'
<1>1. Task!NoItem \in TaskItems /\ Task!NoItem.task = none
  BY TaskNoItemType DEF Task!NoItem
<1>2. taskHist' \in TaskHistory
  <2>1. (focused /\ taskStep = 0) \in BOOLEAN
    OBVIOUS
  <2> QED
    BY <2>1, TaskBeginTyped DEF Task!CreateTask
<1>3. TaskTyped'
  BY <1>1, <1>2, TaskEnterTyped DEF Task!CreateTask
<1>4. TaskKnown'
  BY <1>1 DEF Task!CreateTask, Task!Enter, TaskKnown, TaskLive
<1> QED
  BY <1>3, <1>4

LEMMA TaskEditTaskTyped ==
    ASSUME TaskTyped, TaskKnown, NEW t \in Tasks, Task!EditTask(t) PROVE TaskTyped' /\ TaskKnown'
<1> DEFINE it == [task |-> t, parts |-> rows[t]]
<1>1. /\ it \in TaskItems /\ it.task = t /\ it.parts = rows[t]
      /\ rows[t] # <<>> /\ t # none
  BY TaskServerParts, TaskAssumption
  DEF Task!EditTask, TaskItems, Task!Ids, Task!ConstantsAssumption
<1>2. Task!Enter(it) /\ Task!Tapped /\ UNCHANGED <<tasks, rows, saves>>
  BY DEF Task!EditTask
<1>3. taskHist' \in TaskHistory
  <2>1. (Task!Sent(t) # {} \/ \E k \in 1 .. 4 : rows[t][k] < tasks[t].parts[k]) \in BOOLEAN
    OBVIOUS
  <2> QED
    BY <2>1, TaskBeginTyped DEF Task!EditTask
<1> HIDE DEF it
<1>4. TaskTyped'
  BY <1>1, <1>2, <1>3, TaskEnterTyped
<1>5. TaskKnown'
  BY <1>1, <1>2 DEF Task!Enter, TaskKnown, TaskLive
<1> QED
  BY <1>4, <1>5

LEMMA TaskListedKnown ==
    ASSUME TaskTyped, TaskKnown, UNCHANGED <<tasks, item, taskId>>, rows' \in {rows, Task!Listed},
           saves' \subseteq saves
    PROVE  rows' \in [Tasks -> Task!Versions] /\ TaskKnown'
<1>1. Task!Listed \in [Tasks -> Task!Versions]
  BY TaskServerParts DEF Task!Listed
<1>2. rows' \in [Tasks -> Task!Versions]
  BY <1>1 DEF TaskTyped
<1>3. \A t \in Tasks : rows'[t] = rows[t] \/ rows'[t] = tasks[t].parts
  BY DEF Task!Listed
<1>4. item.task # none => item.task \in Tasks /\ tasks[item.task].parts # <<>>
  BY DEF TaskTyped, TaskItems, Task!Ids, TaskKnown, TaskLive
<1>5. \A t \in Tasks : tasks[t].parts = <<>> => rows'[t] = <<>>
  BY <1>3 DEF TaskKnown
<1>6. item.task # none => rows'[item.task] # <<>>
  BY <1>3, <1>4 DEF TaskKnown
<1> QED
  BY <1>2, <1>5, <1>6 DEF TaskKnown, TaskLive

LEMMA TaskLeaveTyped ==
    ASSUME TaskTyped, TaskKnown, Task!Leave PROVE TaskTyped' /\ TaskKnown'
<1>1. rows' \in [Tasks -> Task!Versions] /\ TaskKnown'
  BY TaskListedKnown DEF Task!Leave
<1> QED
  BY <1>1, TaskTappedType DEF Task!Leave, TaskTyped

LEMMA TaskHandelSelectedStepTyped ==
    ASSUME TaskTyped, TaskKnown, NEW k \in Task!Steps, Task!HandelSelectedStep(k)
    PROVE  TaskTyped' /\ TaskKnown'
<1>1. taskStep' \in Task!Steps /\ fields' \in TaskForms
  BY TaskGotoTyped DEF Task!HandelSelectedStep, TaskTyped
<1>2. taskHist' \in TaskHistory
  BY DEF Task!HandelSelectedStep, TaskTyped, TaskHistory, Task!Returned
<1>3. TaskTyped'
  BY <1>1, <1>2, TaskTappedType DEF Task!HandelSelectedStep, TaskTyped
<1>4. TaskKnown'
  BY DEF Task!HandelSelectedStep, TaskKnown, TaskLive
<1> QED
  BY <1>3, <1>4

\* What typing into a list that is edited in place does to the item.
LEMMA TaskInPlaceFacts ==
    ASSUME TaskTyped, TaskKnown, Task!Type, Task!InPlace
    PROVE  /\ item.task \in Tasks /\ taskStep + 1 \in 1 .. 4
           /\ item' \in TaskItems /\ item'.task = item.task
           /\ item'.parts # <<>> /\ item'.parts[taskStep + 1] = touches
           /\ \A j \in 1 .. 4 : j # taskStep + 1 => item'.parts[j] = item.parts[j]
           /\ rows' \in [Tasks -> Task!Versions] /\ rows'[item.task] # <<>>
           /\ \A t \in Tasks : t # item.task => rows'[t] = rows[t]
           /\ \A k \in 1 .. 4 : rows'[item.task][k] \in {rows[item.task][k], touches}
<1> DEFINE s == [item.parts EXCEPT ![taskStep + 1] = touches]
           r == [rows[item.task] EXCEPT ![taskStep + 1] = touches]
<1>1. item.task \in Tasks /\ taskStep + 1 \in 1 .. 4 /\ touches \in Nat
  BY DEF TaskTyped, TaskItems, Task!Ids, Task!InPlace, Task!Steps
<1>2. item.parts \in Task!Versions /\ item.parts # <<>>
  BY <1>1, TaskAssumption DEF TaskTyped, TaskKnown, TaskItems, Task!ConstantsAssumption
<1>3. rows[item.task] \in Task!Versions /\ rows[item.task] # <<>>
  BY <1>1, TaskAssumption, TaskServerParts DEF TaskKnown, Task!ConstantsAssumption
<1>4. /\ s \in Task!Versions /\ s # <<>> /\ s[taskStep + 1] = touches
      /\ \A j \in 1 .. 4 : j # taskStep + 1 => s[j] = item.parts[j]
  BY <1>1, <1>2, TaskVersionsChange
<1>5. /\ r \in Task!Versions /\ r # <<>> /\ r[taskStep + 1] = touches
      /\ \A j \in 1 .. 4 : j # taskStep + 1 => r[j] = rows[item.task][j]
  BY <1>1, <1>3, TaskVersionsChange
<1>6. item' = [item EXCEPT !.parts = s] /\ rows' = [rows EXCEPT ![item.task] = r]
  BY DEF Task!Type
<1> HIDE DEF s, r
<1>7. item' \in TaskItems /\ item'.task = item.task /\ item'.parts = s
  BY <1>4, <1>6 DEF TaskTyped, TaskItems
<1>8. /\ rows' \in [Tasks -> Task!Versions] /\ rows'[item.task] = r
      /\ \A t \in Tasks : t # item.task => rows'[t] = rows[t]
  BY <1>1, <1>5, <1>6 DEF TaskTyped
<1> QED
  BY <1>1, <1>4, <1>5, <1>7, <1>8

LEMMA TaskTypeTyped ==
    ASSUME TaskTyped, TaskKnown, Task!Type PROVE TaskTyped' /\ TaskKnown'
<1>1. /\ item' \in TaskItems /\ item'.task = item.task
      /\ item.task # none => item'.parts # <<>>
      /\ rows' \in [Tasks -> Task!Versions]
      /\ \A t \in Tasks : rows[t] = <<>> => t = item.task \/ rows'[t] = rows[t]
      /\ item.task # none => rows'[item.task] # <<>>
  <2>1. CASE Task!InPlace
    BY <2>1, TaskInPlaceFacts
  <2>2. CASE ~Task!InPlace
    BY <2>2 DEF Task!Type, TaskTyped, TaskKnown
  <2> QED
    BY <2>1, <2>2
<1>2. fields' \in TaskForms
  BY DEF Task!Type, TaskTyped, TaskForms
<1>3. taskHist' \in TaskHistory
  BY DEF Task!Type, TaskTyped, TaskHistory
<1>4. TaskTyped'
  BY <1>1, <1>2, <1>3, TaskTappedType DEF Task!Type, TaskTyped
<1>5. \A t \in Tasks : tasks[t].parts = <<>> => rows'[t] = <<>>
  <2> TAKE t \in Tasks
  <2> HAVE tasks[t].parts = <<>>
  <2>1. t # none
    BY TaskAssumption DEF Task!ConstantsAssumption
  <2>2. t # item.task
    BY <2>1 DEF TaskKnown, TaskLive
  <2> QED
    BY <1>1, <2>2 DEF TaskKnown
<1>6. TaskKnown'
  BY <1>1, <1>5 DEF TaskKnown, TaskLive, Task!Type
<1> QED
  BY <1>4, <1>6

LEMMA TaskIncompleteTyped ==
    ASSUME TaskTyped, TaskKnown, Task!Incomplete PROVE TaskTyped' /\ TaskKnown'
<1>1. fields' \in TaskForms
  BY DEF Task!Incomplete, TaskTyped, TaskForms
<1>2. TaskTyped'
  BY <1>1, TaskTappedType DEF Task!Incomplete, TaskTyped
<1>3. TaskKnown'
  BY DEF Task!Incomplete, TaskKnown, TaskLive
<1> QED
  BY <1>2, <1>3

LEMMA TaskLoadPackagesTyped ==
    ASSUME TaskTyped, TaskKnown, Task!LoadPackages PROVE TaskTyped' /\ TaskKnown'
<1>1. item.task # none => item.parts[2] \in Nat
  BY TaskVersionsShape DEF TaskTyped, TaskKnown, TaskItems
<1>2. fields' \in TaskForms
  BY <1>1 DEF Task!LoadPackages, TaskTyped, TaskForms
<1>3. TaskTyped'
  BY <1>2 DEF Task!LoadPackages, TaskTyped
<1>4. TaskKnown'
  BY DEF Task!LoadPackages, TaskKnown, TaskLive
<1> QED
  BY <1>3, <1>4

\* The save a step sends.
TaskSent ==
    [n |-> touches, step |-> taskStep, asked |-> taskId, id |-> taskId,
     value |-> fields.value, origin |-> item.task, visit |-> entry,
     mount |-> fields.mount, stage |-> "sent"]

LEMMA TaskSentFacts ==
    ASSUME TaskTyped
    PROVE  /\ TaskSent \in Task!Message /\ TaskSent.stage = "sent" /\ TaskSent.step = taskStep
           /\ TaskSent.asked = taskId /\ TaskSent.id = taskId
           /\ TaskSent.value = fields.value /\ TaskSent.origin = item.task
           /\ TaskSent.visit = entry
BY DEF TaskTyped, TaskSent, Task!Message, TaskItems, TaskForms

\* What both ways to save have in common.
TaskSave ==
    /\ focused /\ Task!Send /\ Task!Tapped
    /\ taskStep = 1 => fields.packages = "yes"
    /\ fields' = [fields EXCEPT !.loading = TRUE]
    /\ UNCHANGED <<tasks, rows, taskStep, taskId, focused, item, entry>>

LEMMA TaskSaveIs == ASSUME Task!Save \/ Task!SaveSecondStep PROVE TaskSave
BY DEF Task!Save, Task!SaveSecondStep, TaskSave

LEMMA TaskSendFacts ==
    ASSUME TaskTyped, Task!Send
    PROVE  /\ saves' = saves \union {TaskSent}
           /\ taskHist' \in TaskHistory
           /\ taskHist'.late = taskHist.late /\ taskHist'.kept = taskHist.kept
           /\ taskHist'.old = taskHist.old /\ taskHist'.returned = taskHist.returned
           /\ taskHist'.refused = taskHist.refused
           /\ taskHist'.early = taskHist.early /\ taskHist'.saved = taskHist.saved \union {taskStep}
           /\ taskHist'.again = IF taskStep = 0 /\ taskId = none /\ Task!Creating
                            THEN taskHist.again \union {entry} ELSE taskHist.again
           /\ taskHist'.twice = (taskHist.twice \/ \E m \in Task!Sent(taskId) :
                                              m.asked # none /\ m.step = taskStep)
<1>1. saves' = saves \union {TaskSent}
  BY DEF Task!Send, TaskSent, Task!Asked
<1>2. taskHist \in TaskHistory /\ entry \in Nat /\ taskStep \in Task!Steps
  BY DEF TaskTyped
<1>3. taskHist' = [taskHist EXCEPT
          !.again = IF taskStep = 0 /\ taskId = none /\ Task!Creating
                    THEN taskHist.again \union {entry} ELSE taskHist.again,
          !.twice = \/ taskHist.twice
                    \/ \E m \in Task!Sent(taskId) : m.asked # none /\ m.step = taskStep,
          !.saved = taskHist.saved \union {taskStep}]
  BY DEF Task!Send
<1> QED
  BY <1>1, <1>2, <1>3 DEF TaskHistory

LEMMA TaskSaveTyped ==
    ASSUME TaskTyped, TaskKnown, TaskSave PROVE TaskTyped' /\ TaskKnown'
<1>1. saves' = saves \union {TaskSent} /\ taskHist' \in TaskHistory
  BY TaskSendFacts DEF TaskSave
<1>2. fields' \in TaskForms
  BY DEF TaskSave, TaskTyped, TaskForms
<1>3. TaskTyped'
  BY <1>1, <1>2, TaskTappedType, TaskSentFacts DEF TaskSave, TaskTyped
<1>4. TaskKnown'
  BY <1>1, TaskSentFacts DEF TaskSave, TaskKnown, TaskLive
<1> QED
  BY <1>3, <1>4

-----------------------------------------------------------------------------
(* The server and the answers                                              *)

TaskReplied(m, stage, i) == [m EXCEPT !.stage = stage, !.id = i]

LEMMA TaskRepliedFacts ==
    ASSUME TaskTyped, NEW m \in saves, NEW stage \in {"ok", "error"}, NEW i \in Task!Ids
    PROVE  LET a == TaskReplied(m, stage, i) IN
           /\ m \in Task!Message /\ a \in Task!Message
           /\ a.stage = stage /\ a.id = i /\ a.step = m.step /\ a.asked = m.asked
           /\ a.value = m.value /\ a.origin = m.origin /\ a.visit = m.visit
BY DEF TaskReplied, Task!Message, TaskTyped

\* What a served create did.
TaskCreated(m, t) ==
    /\ m.step = 0 /\ m.asked = none /\ tasks[t].parts = <<>>
    /\ tasks' = [tasks EXCEPT ![t] =
                     [born |-> m.visit, done |-> {0}, parts |-> <<m.value, 0, 0, 0>>]]
    /\ saves' = (saves \ {m}) \union {TaskReplied(m, "ok", t)}
    /\ taskHist' = taskHist

LEMMA TaskCreatedFacts ==
    ASSUME TaskTyped, NEW m \in saves, NEW t \in Tasks, TaskCreated(m, t)
    PROVE  /\ tasks' \in TaskServers
           /\ tasks'[t].parts # <<>> /\ tasks'[t].born = m.visit
           /\ tasks'[t].done = {0}
           /\ tasks'[t].parts[1] = m.value
           /\ \A k \in 1 .. 3 : tasks'[t].parts[k + 1] = 0
           /\ \A u \in Tasks : u # t => tasks'[u] = tasks[u]
<1>1. m \in Task!Message
  BY DEF TaskTyped
<1>2. m.visit \in Nat /\ m.value \in Nat /\ <<m.value, 0, 0, 0>> \in Task!Versions
  BY <1>1 DEF Task!Message, Task!Versions
<1> DEFINE new == [born |-> m.visit, done |-> {0}, parts |-> <<m.value, 0, 0, 0>>]
<1>3. /\ new \in [born : Nat, parts : Task!Versions, done : SUBSET Task!Steps]
      /\ new.parts # <<>> /\ new.born = m.visit /\ new.done = {0}
      /\ new.parts[1] = m.value
      /\ \A k \in 1 .. 3 : new.parts[k + 1] = 0
  BY <1>2 DEF Task!Steps
<1>4. tasks' = [tasks EXCEPT ![t] = new]
  BY DEF TaskCreated
<1> HIDE DEF new
<1> QED
  BY <1>3, <1>4 DEF TaskTyped, TaskServers

\* What a served save of a task did.
TaskUpdated(m) ==
    /\ m.asked # none
    /\ tasks' = [tasks EXCEPT ![m.asked].parts[m.step + 1] = m.value,
                                ![m.asked].done = @ \union {m.step}]
    /\ saves' = (saves \ {m}) \union {TaskReplied(m, "ok", m.asked)}
    /\ taskHist' = taskHist

LEMMA TaskUpdatedFacts ==
    ASSUME TaskTyped, TaskKnown, NEW m \in saves, TaskUpdated(m)
    PROVE  /\ tasks' \in TaskServers /\ m.asked \in Tasks
           /\ tasks[m.asked].parts # <<>> /\ tasks'[m.asked].parts # <<>>
           /\ tasks'[m.asked].born = tasks[m.asked].born
           /\ tasks'[m.asked].done = tasks[m.asked].done \union {m.step}
           /\ tasks'[m.asked].parts[m.step + 1] = m.value
           /\ \A k \in Task!Steps : k # m.step =>
                 tasks'[m.asked].parts[k + 1] = tasks[m.asked].parts[k + 1]
           /\ \A u \in Tasks : u # m.asked => tasks'[u] = tasks[u]
<1>1. m \in Task!Message /\ m.asked # none
  BY DEF TaskTyped, TaskUpdated
<1>2. m.value \in Nat /\ m.step \in Task!Steps /\ m.asked \in Tasks /\ m.step + 1 \in 1 .. 4
  BY <1>1 DEF Task!Message, Task!Ids, Task!Steps
<1>3. tasks[m.asked].parts # <<>> /\ tasks[m.asked].parts \in Task!Versions
  BY <1>1, <1>2, TaskServerParts DEF TaskKnown, TaskLive
<1> DEFINE s == [tasks[m.asked].parts EXCEPT ![m.step + 1] = m.value]
           new == [tasks[m.asked] EXCEPT !.parts = s, !.done = @ \union {m.step}]
<1>4. /\ s \in Task!Versions /\ s # <<>> /\ s[m.step + 1] = m.value
      /\ \A j \in 1 .. 4 : j # m.step + 1 => s[j] = tasks[m.asked].parts[j]
  BY <1>2, <1>3, TaskVersionsChange
<1>5. tasks' = [tasks EXCEPT ![m.asked] = new]
  <2>1. tasks[m.asked] \in [born : Nat, parts : Task!Versions, done : SUBSET Task!Steps]
    BY <1>2 DEF TaskTyped, TaskServers
  <2> QED
    BY <1>2, <2>1 DEF TaskUpdated, TaskTyped, TaskServers
<1>6. \A k \in Task!Steps : k # m.step => k + 1 \in 1 .. 4 /\ k + 1 # m.step + 1
  BY <1>2 DEF Task!Steps
<1> HIDE DEF s
<1>7. /\ new \in [born : Nat, parts : Task!Versions, done : SUBSET Task!Steps]
      /\ new.parts = s /\ new.born = tasks[m.asked].born
      /\ new.done = tasks[m.asked].done \union {m.step}
  <2>1. tasks[m.asked] \in [born : Nat, parts : Task!Versions, done : SUBSET Task!Steps]
    BY <1>2 DEF TaskTyped, TaskServers
  <2> QED
    BY <1>2, <1>4, <2>1
<1> HIDE DEF new
<1> QED
  BY <1>2, <1>3, <1>4, <1>5, <1>6, <1>7 DEF TaskTyped, TaskServers

\* What a refused save did.
TaskRefused(m) ==
    /\ tasks' = tasks
    /\ saves' = (saves \ {m}) \union {TaskReplied(m, "error", m.id)}
    /\ taskHist' = [taskHist EXCEPT !.refused = taskHist.refused \/ m.step = 2]

LEMMA TaskServeIs ==
    ASSUME NEW m \in saves, Task!Serve(m)
    PROVE  /\ m.stage = "sent"
           /\ UNCHANGED <<rows, taskStep, taskId, focused, item, fields, entry, touches>>
           /\ \/ \E t \in Tasks : TaskCreated(m, t)
              \/ TaskUpdated(m)
              \/ TaskRefused(m)
BY DEF Task!Serve, Task!Create, Task!Update, Task!Refuse, Task!Reply, Task!Unborn,
       TaskCreated, TaskUpdated, TaskRefused, TaskReplied

\* The variables that serving leaves alone.
TaskUntouched == UNCHANGED <<rows, taskStep, taskId, focused, item, fields, entry, touches>>

LEMMA TaskNetTyped ==
    ASSUME TaskTyped, TaskUntouched, tasks' \in TaskServers, taskHist' \in TaskHistory,
           NEW m \in saves, NEW stage \in {"ok", "error"}, NEW i \in Task!Ids,
           saves' = (saves \ {m}) \union {TaskReplied(m, stage, i)}
    PROVE  TaskTyped'
<1>1. TaskReplied(m, stage, i) \in Task!Message
  BY TaskRepliedFacts
<1>2. saves' \subseteq Task!Message
  BY <1>1 DEF TaskTyped
<1> QED
  BY <1>2 DEF TaskTyped, TaskUntouched

LEMMA TaskServerGrows ==
    ASSUME TaskTyped, TaskKnown, NEW m \in saves,
           TaskUpdated(m) \/ TaskRefused(m) \/ \E t \in Tasks : TaskCreated(m, t)
    PROVE  /\ \A i \in Task!Ids : TaskLive(i) => TaskLive(i)'
           /\ \A u \in Tasks : tasks[u].parts # <<>> =>
                 tasks'[u].parts # <<>> /\ tasks'[u].born = tasks[u].born
           /\ \A u \in Tasks : tasks[u].done \subseteq tasks'[u].done \/ tasks[u].parts = <<>>
<1>1. ASSUME NEW u \in Tasks
      PROVE  tasks[u].parts # <<>> =>
                 /\ tasks'[u].parts # <<>> /\ tasks'[u].born = tasks[u].born
                 /\ tasks[u].done \subseteq tasks'[u].done
  <2>1. CASE TaskUpdated(m)
    BY <2>1, TaskUpdatedFacts
  <2>2. CASE TaskRefused(m)
    BY <2>2 DEF TaskRefused
  <2>3. CASE \E t \in Tasks : TaskCreated(m, t)
    <3> PICK t \in Tasks : TaskCreated(m, t)
      BY <2>3
    <3>1. tasks[t].parts = <<>>
      BY DEF TaskCreated
    <3>2. u # t => tasks'[u] = tasks[u]
      BY TaskCreatedFacts
    <3> QED
      BY <3>1, <3>2
  <2> QED
    BY <2>1, <2>2, <2>3
<1> QED
  BY <1>1 DEF TaskLive, Task!Ids

LEMMA TaskServeKnown ==
    ASSUME TaskTyped, TaskKnown, TaskUntouched,
           NEW m \in saves, NEW stage \in {"ok", "error"}, NEW i \in Task!Ids,
           saves' = (saves \ {m}) \union {TaskReplied(m, stage, i)},
           TaskUpdated(m) \/ TaskRefused(m) \/ \E t \in Tasks : TaskCreated(m, t),
           m.stage = "sent", TaskLive(i)', m.asked # none => i = m.asked,
           stage = "ok" => i # none, stage = "error" => i = m.id,
           \A t \in Tasks : tasks'[t].parts = <<>> => tasks'[t].born = 0
    PROVE  TaskKnown'
<1> DEFINE a == TaskReplied(m, stage, i)
<1>1. \A j \in Task!Ids : TaskLive(j) => TaskLive(j)'
  BY TaskServerGrows
<1>2. m \in Task!Message /\ a.stage = stage /\ a.id = i /\ a.asked = m.asked
  BY TaskRepliedFacts
<1>3. \A o \in saves : o \in Task!Message /\ o.asked \in Task!Ids /\ o.id \in Task!Ids
  BY DEF TaskTyped, Task!Message
<1> HIDE DEF a
<1>4. ASSUME NEW o \in saves'
      PROVE  /\ TaskLive(o.asked)' /\ TaskLive(o.id)'
             /\ o.asked # none => o.id = o.asked
             /\ o.stage = "ok" => o.id # none
             /\ o.asked = none => (o.stage = "ok" <=> o.id # none)
  <2>1. o \in saves \/ o = a
    BY DEF a
  <2>2. CASE o \in saves
    <3>1. TaskLive(o.asked) /\ TaskLive(o.id)
      BY <2>2 DEF TaskKnown
    <3>2. TaskLive(o.asked)' /\ TaskLive(o.id)'
      BY <1>1, <1>3, <2>2, <3>1
    <3> QED
      BY <2>2, <3>2 DEF TaskKnown
  <2>3. CASE o = a
    <3>1. TaskLive(m.asked)'
      BY <1>1, <1>3 DEF TaskKnown
    <3>2. m.asked = none => m.id = none
      BY DEF TaskKnown
    <3> QED
      BY <1>2, <2>3, <3>1, <3>2
  <2> QED
    BY <2>1, <2>2, <2>3
<1>5. \A t \in Tasks : tasks'[t].parts = <<>> => rows'[t] = <<>> /\ tasks'[t].born = 0
  <2> TAKE t \in Tasks
  <2>1. tasks[t].parts # <<>> => tasks'[t].parts # <<>>
    BY TaskServerGrows
  <2> QED
    BY <2>1 DEF TaskKnown, TaskUntouched
<1>6. TaskLive(taskId)' /\ TaskLive(item.task)'
  BY <1>1 DEF TaskKnown, TaskUntouched, TaskTyped, TaskItems
<1> QED
  BY <1>4, <1>5, <1>6 DEF TaskKnown, TaskUntouched

LEMMA TaskServeTyped ==
    ASSUME TaskTyped, TaskKnown, NEW m \in saves, Task!Serve(m) PROVE TaskTyped' /\ TaskKnown'
<1>1. m.stage = "sent" /\ TaskUntouched
  BY TaskServeIs DEF TaskUntouched
<1>2. m \in Task!Message /\ m.id \in Task!Ids /\ taskHist \in TaskHistory /\ tasks \in TaskServers
  BY DEF TaskTyped, Task!Message
<1>3. CASE \E t \in Tasks : TaskCreated(m, t)
  <2> PICK t \in Tasks : TaskCreated(m, t)
    BY <1>3
  <2>1. /\ saves' = (saves \ {m}) \union {TaskReplied(m, "ok", t)} /\ m.asked = none
        /\ taskHist' \in TaskHistory /\ t \in Task!Ids /\ t # none
    BY <1>2, TaskAssumption DEF TaskCreated, Task!Ids, Task!ConstantsAssumption
  <2>2. /\ tasks' \in TaskServers /\ TaskLive(t)' /\ tasks'[t].parts # <<>>
        /\ \A u \in Tasks : u # t => tasks'[u] = tasks[u]
    BY TaskCreatedFacts DEF TaskLive
  <2>3. \A u \in Tasks : tasks'[u].parts = <<>> => tasks'[u].born = 0
    <3> TAKE u \in Tasks
    <3> QED
      BY <2>2 DEF TaskKnown
  <2>4. TaskTyped'
    BY <1>1, <2>1, <2>2, TaskNetTyped
  <2>5. TaskKnown'
    BY <1>1, <2>1, <2>2, <2>3, TaskServeKnown
  <2> QED
    BY <2>4, <2>5
<1>4. CASE TaskUpdated(m)
  <2>1. /\ saves' = (saves \ {m}) \union {TaskReplied(m, "ok", m.asked)} /\ m.asked # none
        /\ taskHist' \in TaskHistory /\ m.asked \in Task!Ids
    BY <1>2, <1>4 DEF TaskUpdated, Task!Message
  <2>2. /\ tasks' \in TaskServers /\ TaskLive(m.asked)'
        /\ \A u \in Tasks : u # m.asked => tasks'[u] = tasks[u]
    BY <1>4, TaskUpdatedFacts DEF TaskLive
  <2>3. \A u \in Tasks : tasks'[u].parts = <<>> => tasks'[u].born = 0
    BY <1>4, <2>2, TaskUpdatedFacts DEF TaskKnown
  <2>4. TaskTyped'
    BY <1>1, <2>1, <2>2, TaskNetTyped
  <2>5. TaskKnown'
    BY <1>1, <1>4, <2>1, <2>2, <2>3, TaskServeKnown
  <2> QED
    BY <2>4, <2>5
<1>5. CASE TaskRefused(m)
  <2>1. /\ saves' = (saves \ {m}) \union {TaskReplied(m, "error", m.id)} /\ tasks' = tasks
        /\ m.asked # none => m.id = m.asked
    BY <1>5 DEF TaskRefused, TaskKnown
  <2>2. taskHist' \in TaskHistory
    BY <1>2, <1>5 DEF TaskRefused, TaskHistory
  <2>3. TaskLive(m.id)' /\ \A u \in Tasks : tasks'[u].parts = <<>> => tasks'[u].born = 0
    BY <2>1 DEF TaskKnown, TaskLive
  <2>4. TaskTyped'
    BY <1>1, <1>2, <2>1, <2>2, TaskNetTyped
  <2>5. TaskKnown'
    BY <1>1, <1>2, <1>5, <2>1, <2>3, TaskServeKnown
  <2> QED
    BY <2>4, <2>5
<1> QED
  BY <1>3, <1>4, <1>5, TaskServeIs

LEMMA TaskSettledType ==
    ASSUME TaskTyped, NEW m PROVE Task!Settled(m) \in TaskForms
BY DEF Task!Settled, TaskTyped, TaskForms

LEMMA TaskMoveOnTyped ==
    ASSUME TaskTyped, TaskKnown, NEW m \in saves, m.stage # "sent", Task!MoveOn(m),
           saves' = saves \ {m}, UNCHANGED <<tasks, item, entry, touches>>
    PROVE  TaskTyped' /\ TaskKnown'
<1>1. m \in Task!Message
  BY DEF TaskTyped
<1>2. /\ m.n \in Nat /\ m.id \in Task!Ids /\ Task!StepAfter(m) \in Task!Steps
  BY <1>1 DEF Task!Message, Task!StepAfter, Task!MoveOn, Task!MovesOn, Task!Steps
<1>3. fields' \in TaskForms
  <2>1. Task!Mounted(Task!StepAfter(m), item, m.n, entry) \in TaskForms
    BY <1>2, TaskMountedType DEF TaskTyped, TaskKnown
  <2> QED
    BY <2>1, TaskSettledType DEF Task!MoveOn
<1>4. taskHist' \in TaskHistory
  BY DEF Task!MoveOn, TaskTyped, TaskHistory, Task!Late, Task!Returned
<1>5. TaskTyped'
  BY <1>2, <1>3, <1>4 DEF Task!MoveOn, TaskTyped
<1>6. taskId' \in {taskId, m.id} /\ TaskLive(m.id)
  BY DEF Task!MoveOn, TaskKnown
<1>7. TaskKnown'
  BY <1>6 DEF TaskKnown, TaskLive, Task!MoveOn
<1> QED
  BY <1>5, <1>7

LEMMA TaskFinishTyped ==
    ASSUME TaskTyped, TaskKnown, NEW m \in saves, Task!Finish(m),
           saves' = saves \ {m}, UNCHANGED <<tasks, item, entry, touches>>
    PROVE  TaskTyped' /\ TaskKnown'
<1>1. rows' \in [Tasks -> Task!Versions] /\ TaskKnown'
  BY TaskListedKnown DEF Task!Finish
<1>2. fields' \in TaskForms
  BY TaskSettledType DEF Task!Finish
<1> QED
  BY <1>1, <1>2 DEF Task!Finish, TaskTyped

LEMMA TaskComplainTyped ==
    ASSUME TaskTyped, TaskKnown, NEW m \in saves, Task!Complain(m),
           saves' = saves \ {m}, UNCHANGED <<tasks, item, entry, touches>>
    PROVE  TaskTyped' /\ TaskKnown'
<1>1. fields' \in TaskForms
  BY TaskSettledType DEF Task!Complain
<1>2. TaskTyped'
  BY <1>1 DEF Task!Complain, TaskTyped
<1>3. TaskKnown'
  BY DEF Task!Complain, TaskKnown, TaskLive
<1> QED
  BY <1>2, <1>3

LEMMA TaskDeliverTyped ==
    ASSUME TaskTyped, TaskKnown, NEW m \in saves, Task!Deliver(m) PROVE TaskTyped' /\ TaskKnown'
BY TaskMoveOnTyped, TaskFinishTyped, TaskComplainTyped DEF Task!Deliver

LEMMA TaskFailTyped ==
    ASSUME TaskTyped, TaskKnown, NEW m \in saves, Task!Fail(m) PROVE TaskTyped' /\ TaskKnown'
<1>1. fields' \in TaskForms
  BY TaskSettledType DEF Task!Fail
<1>2. taskHist' \in TaskHistory
  <2>1. m.visit \in Nat
    BY DEF TaskTyped, Task!Message
  <2> QED
    BY <2>1 DEF Task!Fail, TaskTyped, TaskHistory
<1>3. TaskTyped'
  BY <1>1, <1>2 DEF Task!Fail, TaskTyped
<1>4. TaskKnown'
  BY DEF Task!Fail, TaskKnown, TaskLive
<1> QED
  BY <1>3, <1>4

\* The steps of the wizard, those that save as one.
TaskSteps ==
    \/ Task!CreateTask \/ Task!Leave \/ Task!Type \/ TaskSave \/ Task!Incomplete
    \/ Task!LoadPackages
    \/ \E t \in Tasks : Task!EditTask(t)
    \/ \E k \in Task!Steps : Task!HandelSelectedStep(k)
    \/ \E m \in saves : Task!Serve(m) \/ Task!Deliver(m) \/ Task!Fail(m)

LEMMA TaskNextIs == ASSUME Task!Next PROVE TaskSteps
BY TaskSaveIs DEF Task!Next, TaskSteps

LEMMA TaskTypedStep ==
    ASSUME TaskTyped, TaskKnown, TaskSteps PROVE TaskTyped' /\ TaskKnown'
BY TaskCreateTaskTyped, TaskLeaveTyped, TaskTypeTyped, TaskSaveTyped,
   TaskIncompleteTyped, TaskLoadPackagesTyped, TaskEditTaskTyped,
   TaskHandelSelectedStepTyped, TaskServeTyped, TaskDeliverTyped, TaskFailTyped
DEF TaskSteps

LEMMA TaskTypedStutter ==
    ASSUME TaskTyped, TaskKnown, UNCHANGED Task!vars PROVE TaskTyped' /\ TaskKnown'
BY DEF TaskTyped, TaskKnown, TaskLive, Task!vars

LEMMA TaskTypedAlways == Task!Spec => [](TaskTyped /\ TaskKnown)
<1>1. ASSUME TaskTyped, TaskKnown, [Task!Next]_(Task!vars) PROVE TaskTyped' /\ TaskKnown'
  BY <1>1, TaskNextIs, TaskTypedStep, TaskTypedStutter
<1> QED
  BY <1>1, TaskInit, PTL DEF Task!Spec

-----------------------------------------------------------------------------
(* The shapes of the steps                                                 *)

\* Steps within a visit that send nothing and do not change the task.
TaskCalm ==
    /\ UNCHANGED <<tasks, entry, taskId>> /\ item'.task = item.task
    /\ saves' \subseteq saves
    /\ focused' => focused
    /\ taskStep' = taskStep \/ item.task # none
    /\ taskHist'.late = taskHist.late /\ taskHist'.refused = taskHist.refused
    /\ taskHist.again \subseteq taskHist'.again

LEMMA TaskCalmUser ==
    ASSUME TaskTyped, TaskKnown,
           \/ Task!Leave \/ Task!Type \/ Task!Incomplete \/ Task!LoadPackages
           \/ \E k \in Task!Steps : Task!HandelSelectedStep(k)
    PROVE  TaskCalm /\ saves' = saves /\ taskHist'.again = taskHist.again
<1>1. taskHist \in TaskHistory
  BY DEF TaskTyped
<1>2. CASE Task!Leave
  BY <1>2 DEF Task!Leave, TaskCalm
<1>3. CASE Task!Type
  <2>1. item'.task = item.task
    BY <1>3, TaskInPlaceFacts DEF Task!Type
  <2>2. /\ taskHist'.late = taskHist.late /\ taskHist'.refused = taskHist.refused
        /\ taskHist'.again = taskHist.again
    BY <1>1, <1>3 DEF Task!Type, TaskHistory
  <2> QED
    BY <1>3, <2>1, <2>2 DEF Task!Type, TaskCalm
<1>4. CASE Task!Incomplete
  BY <1>4 DEF Task!Incomplete, TaskCalm
<1>5. CASE Task!LoadPackages
  BY <1>5 DEF Task!LoadPackages, TaskCalm
<1>6. CASE \E k \in Task!Steps : Task!HandelSelectedStep(k)
  BY <1>1, <1>6 DEF Task!HandelSelectedStep, TaskCalm, TaskHistory
<1> QED
  BY <1>2, <1>3, <1>4, <1>5, <1>6

\* The answers that change neither step nor task: that of step four, one of
\* type 'error', and none.
TaskSettles(m) == Task!Finish(m) \/ Task!Complain(m)

LEMMA TaskCalmAnswer ==
    ASSUME TaskTyped, NEW m \in saves,
           \/ TaskSettles(m) /\ saves' = saves \ {m} /\ UNCHANGED <<tasks, item, entry, touches>>
           \/ Task!Fail(m)
    PROVE  /\ TaskCalm /\ saves' = saves \ {m}
           /\ \/ taskHist'.again = taskHist.again
              \/ m.step = 0 /\ m.asked = none /\ taskHist'.again = taskHist.again \union {m.visit}
           /\ m.step = 0 /\ m.asked = none =>
                 m.stage = "error" \/ m.visit \in taskHist'.again
<1>1. taskHist \in TaskHistory
  BY DEF TaskTyped
<1>2. CASE TaskSettles(m) /\ saves' = saves \ {m} /\ UNCHANGED <<tasks, item, entry, touches>>
  BY <1>2 DEF TaskSettles, Task!Finish, Task!Complain, TaskCalm
<1>3. CASE Task!Fail(m)
  <2>1. /\ taskHist'.late = taskHist.late /\ taskHist'.refused = taskHist.refused
        /\ m.step = 0 /\ m.asked = none => taskHist'.again = taskHist.again \union {m.visit}
        /\ ~(m.step = 0 /\ m.asked = none) => taskHist'.again = taskHist.again
    BY <1>1, <1>3 DEF Task!Fail, TaskHistory
  <2> QED
    BY <1>3, <2>1 DEF Task!Fail, TaskCalm
<1> QED
  BY <1>2, <1>3

\* The first step of another visit.
TaskEntered ==
    /\ entry' = entry + 1 /\ taskStep' = 0 /\ taskId' = item'.task
    /\ item'.task # none => ~focused /\ item'.parts = rows[item'.task]
    /\ UNCHANGED <<tasks, rows, saves>>
    /\ saves # {} => taskHist'.late = taskHist.late /\ taskHist'.refused = taskHist.refused
    /\ taskHist'.again = taskHist.again

LEMMA TaskBeginFacts ==
    ASSUME TaskTyped, NEW o \in BOOLEAN, NEW k \in BOOLEAN, Task!Begin(o, k)
    PROVE  /\ saves # {} =>
                 /\ taskHist'.late = taskHist.late /\ taskHist'.refused = taskHist.refused
                 /\ taskHist'.returned = taskHist.returned /\ taskHist'.twice = taskHist.twice
                 /\ taskHist'.old = (taskHist.old \/ o)
                 /\ taskHist'.kept = (taskHist.kept \/ k)
           /\ o => taskHist'.old
           /\ k => taskHist'.kept
           /\ taskHist'.again = taskHist.again /\ taskHist'.saved = {}
BY DEF TaskTyped, Task!Begin, Task!Quiet, TaskHistory

LEMMA TaskEnters ==
    ASSUME TaskTyped, Task!CreateTask \/ \E t \in Tasks : Task!EditTask(t)
    PROVE  TaskEntered
<1>1. CASE Task!CreateTask
  <2>1. (focused /\ taskStep = 0) \in BOOLEAN /\ FALSE \in BOOLEAN
    OBVIOUS
  <2>2. Task!Begin(FALSE, focused /\ taskStep = 0)
    BY <1>1 DEF Task!CreateTask
  <2>3. /\ saves # {} => taskHist'.late = taskHist.late /\ taskHist'.refused = taskHist.refused
        /\ taskHist'.again = taskHist.again
    BY <2>1, <2>2, TaskBeginFacts
  <2> QED
    BY <1>1, <2>3 DEF Task!CreateTask, Task!Enter, Task!NoItem, TaskEntered
<1>2. ASSUME NEW t \in Tasks, Task!EditTask(t) PROVE TaskEntered
  <2>1. /\ (Task!Sent(t) # {} \/ \E k \in 1 .. 4 : rows[t][k] < tasks[t].parts[k]) \in BOOLEAN
        /\ FALSE \in BOOLEAN
    OBVIOUS
  <2>2. Task!Begin(Task!Sent(t) # {} \/ \E k \in 1 .. 4 : rows[t][k] < tasks[t].parts[k], FALSE)
    BY <1>2 DEF Task!EditTask
  <2>3. /\ saves # {} => taskHist'.late = taskHist.late /\ taskHist'.refused = taskHist.refused
        /\ taskHist'.again = taskHist.again
    BY <2>1, <2>2, TaskBeginFacts
  <2> QED
    BY <1>2, <2>3 DEF Task!EditTask, Task!Enter, TaskEntered
<1> QED
  BY <1>1, <1>2

\* The answer of a save that leads to the next step.
TaskMoved(m) ==
    /\ m.stage = "ok" \/ (m.step = 2 /\ m.stage = "error")
    /\ m.step \in 0 .. 2
    /\ taskId' = IF m.step = 0 THEN m.id ELSE taskId
    /\ taskStep' = m.step + 1
    /\ saves' = saves \ {m}
    /\ UNCHANGED <<tasks, item, entry, rows, focused, touches>>
    /\ taskHist'.late = (taskHist.late \/ m.visit # entry)
    /\ taskHist'.refused = taskHist.refused /\ taskHist'.again = taskHist.again

LEMMA TaskMoves ==
    ASSUME TaskTyped, NEW m \in saves, m.stage # "sent", Task!MoveOn(m),
           saves' = saves \ {m}, UNCHANGED <<tasks, item, entry, touches>>
    PROVE  TaskMoved(m)
<1>1. m.step \in Task!Steps /\ m.stage \in {"sent", "ok", "error"}
  BY DEF TaskTyped, Task!Message
<1>2. m.step \in 0 .. 2 /\ (m.stage = "ok" \/ m.step = 2)
  BY <1>1 DEF Task!MoveOn, Task!MovesOn, Task!Steps
<1>3. /\ taskHist'.late = (taskHist.late \/ m.visit # entry)
      /\ taskHist'.refused = taskHist.refused /\ taskHist'.again = taskHist.again
  BY DEF TaskTyped, TaskHistory, Task!MoveOn, Task!Late
<1> QED
  BY <1>1, <1>2, <1>3 DEF Task!MoveOn, Task!StepAfter, TaskMoved

LEMMA TaskDelivers ==
    ASSUME TaskTyped, NEW m \in saves, Task!Deliver(m)
    PROVE  \/ TaskMoved(m)
           \/ TaskSettles(m) /\ saves' = saves \ {m} /\ UNCHANGED <<tasks, item, entry, touches>>
BY TaskMoves DEF Task!Deliver, TaskSettles

\* A save leaves with an answer that moves nothing, or without any.
TaskDropped(m) ==
    /\ TaskCalm /\ saves' = saves \ {m}
    /\ \/ taskHist'.again = taskHist.again
       \/ m.step = 0 /\ m.asked = none /\ taskHist'.again = taskHist.again \union {m.visit}
    /\ m.step = 0 /\ m.asked = none => m.stage = "error" \/ m.visit \in taskHist'.again

\* The server gets a save.
TaskServed(m) ==
    /\ TaskUntouched /\ m.stage = "sent"
    /\ TaskUpdated(m) \/ TaskRefused(m) \/ \E t \in Tasks : TaskCreated(m, t)

\* Every step is of one of these shapes.
TaskShape ==
    \/ TaskCalm /\ saves' = saves /\ taskHist'.again = taskHist.again
    \/ TaskSave
    \/ TaskEntered
    \/ \E m \in saves : TaskDropped(m) \/ TaskMoved(m) \/ TaskServed(m)

LEMMA TaskShapes == ASSUME TaskTyped, TaskKnown, TaskSteps PROVE TaskShape
<1>1. CASE \/ Task!Leave \/ Task!Type \/ Task!Incomplete \/ Task!LoadPackages
           \/ \E k \in Task!Steps : Task!HandelSelectedStep(k)
  BY <1>1, TaskCalmUser DEF TaskShape
<1>2. CASE TaskSave
  BY <1>2 DEF TaskShape
<1>3. CASE Task!CreateTask \/ \E t \in Tasks : Task!EditTask(t)
  BY <1>3, TaskEnters DEF TaskShape
<1>4. ASSUME NEW m \in saves, Task!Serve(m) PROVE TaskServed(m)
  BY <1>4, TaskServeIs DEF TaskServed, TaskUntouched
<1>5. ASSUME NEW m \in saves, Task!Deliver(m) \/ Task!Fail(m) PROVE TaskMoved(m) \/ TaskDropped(m)
  BY <1>5, TaskDelivers, TaskCalmAnswer DEF TaskDropped
<1> QED
  BY <1>1, <1>2, <1>3, <1>4, <1>5 DEF TaskSteps, TaskShape

LEMMA TaskSaveLate ==
    ASSUME TaskTyped, TaskSave
    PROVE  /\ saves' = saves \union {TaskSent} /\ taskHist'.late = taskHist.late
           /\ taskHist'.refused = taskHist.refused /\ taskHist.again \subseteq taskHist'.again
           /\ UNCHANGED <<tasks, rows, taskStep, taskId, focused, item, entry>>
BY TaskSendFacts DEF TaskSave

-----------------------------------------------------------------------------
(* Whose saves they are                                                    *)

\* What a save says of the visit it comes from.
TaskDatedSave(m) ==
    /\ 0 < m.visit /\ m.visit <= entry
    /\ m.visit = entry => m.origin = item.task
    /\ m.visit = entry /\ m.asked # none => taskId # none
    /\ m.origin = none /\ m.step = 0 => m.asked = none
    /\ m.asked = none /\ m.stage = "ok" => m.step = 0 /\ tasks[m.id].born = m.visit

TaskDated ==
    /\ focused => entry > 0
    /\ \A t \in Tasks : tasks[t].born <= entry
    /\ item.task = none /\ taskStep = 0 => taskId = none
    /\ \A m \in saves : TaskDatedSave(m)

LEMMA TaskMessage ==
    ASSUME TaskTyped, NEW m \in saves
    PROVE  /\ m \in Task!Message /\ m.n \in Nat /\ m.step \in Task!Steps /\ m.asked \in Task!Ids
           /\ m.id \in Task!Ids /\ m.value \in Nat /\ m.origin \in Task!Ids /\ m.visit \in Nat
           /\ m.stage \in {"sent", "ok", "error"}
BY DEF TaskTyped, Task!Message

LEMMA TaskScalars ==
    ASSUME TaskTyped
    PROVE  /\ entry \in Nat /\ touches \in Nat /\ taskStep \in Task!Steps /\ taskId \in Task!Ids
           /\ item.task \in Task!Ids
BY DEF TaskTyped, TaskItems

LEMMA TaskDatedCalm ==
    ASSUME TaskTyped, TaskDated, TaskCalm PROVE TaskDated'
BY DEF TaskDated, TaskDatedSave, TaskCalm

LEMMA TaskDatedSent ==
    ASSUME TaskTyped, TaskDated, TaskSave PROVE TaskDated'
<1>1. 0 < entry
  BY DEF TaskSave, TaskDated
<1>2. TaskSent.visit <= entry /\ 0 < TaskSent.visit
  BY <1>1, TaskSentFacts, TaskScalars
<1>3. item.task = none /\ taskStep = 0 => taskId = none
  BY DEF TaskDated
<1>4. TaskDatedSave(TaskSent)
  BY <1>2, <1>3, TaskSentFacts DEF TaskDatedSave
<1> QED
  BY <1>4, TaskSaveLate DEF TaskDated, TaskDatedSave

LEMMA TaskDatedEntered ==
    ASSUME TaskTyped, TaskDated, TaskEntered PROVE TaskDated'
<1>1. entry' = entry + 1 /\ entry \in Nat
  BY TaskScalars DEF TaskEntered
<1>2. \A t \in Tasks : tasks[t].born \in Nat
  BY TaskServerParts
<1>3. \A t \in Tasks : tasks'[t].born <= entry'
  BY <1>1, <1>2 DEF TaskDated, TaskEntered
<1>4. ASSUME NEW m \in saves PROVE TaskDatedSave(m)'
  <2>1. m.visit <= entry' /\ m.visit # entry' /\ 0 < m.visit
    BY <1>1, TaskMessage DEF TaskDated, TaskDatedSave
  <2> QED
    BY <2>1 DEF TaskDated, TaskDatedSave, TaskEntered
<1> QED
  BY <1>1, <1>3, <1>4 DEF TaskDated, TaskEntered

LEMMA TaskDatedMoved ==
    ASSUME TaskTyped, TaskKnown, TaskDated, NEW m \in saves, TaskMoved(m) PROVE TaskDated'
<1>1. m.step + 1 # 0 /\ taskStep' = m.step + 1
  BY DEF TaskMoved
<1>2. m.step = 0 => m.id # none
  BY DEF TaskMoved, TaskKnown
<1>3. taskId # none => taskId' # none
  BY <1>2 DEF TaskMoved
<1> QED
  BY <1>1, <1>3 DEF TaskDated, TaskDatedSave, TaskMoved

LEMMA TaskDatedServed ==
    ASSUME TaskTyped, TaskKnown, TaskDated, NEW m \in saves, TaskServed(m) PROVE TaskDated'
<1>1. UNCHANGED <<rows, taskStep, taskId, focused, item, fields, entry, touches>>
  BY DEF TaskServed, TaskUntouched
<1>2. \A u \in Tasks : tasks[u].parts # <<>> => tasks'[u].born = tasks[u].born
  BY TaskServerGrows DEF TaskServed
<1>3. ASSUME NEW o \in saves PROVE TaskDatedSave(o)'
  <2>1. o.id \in Task!Ids /\ (o.stage = "ok" => o.id # none /\ TaskLive(o.id))
    BY TaskMessage DEF TaskKnown
  <2>2. o.stage = "ok" => tasks'[o.id].born = tasks[o.id].born
    BY <1>2, <2>1 DEF TaskLive, Task!Ids
  <2> QED
    BY <1>1, <2>2 DEF TaskDated, TaskDatedSave
<1>4. ASSUME NEW a, a.step = m.step, a.asked = m.asked, a.origin = m.origin, a.visit = m.visit,
             a.asked = none /\ a.stage = "ok" => a.step = 0 /\ tasks'[a.id].born = a.visit
      PROVE  TaskDatedSave(a)'
  BY <1>1, <1>4 DEF TaskDated, TaskDatedSave
<1>5. CASE \E t \in Tasks : TaskCreated(m, t)
  <2> PICK t \in Tasks : TaskCreated(m, t)
    BY <1>5
  <2> DEFINE a == TaskReplied(m, "ok", t)
  <2>1. saves' = (saves \ {m}) \union {a} /\ m.asked = none /\ m.step = 0 /\ t \in Task!Ids
    BY DEF TaskCreated, Task!Ids
  <2>2. /\ a.step = m.step /\ a.asked = m.asked /\ a.origin = m.origin
        /\ a.visit = m.visit /\ a.id = t
    BY <2>1, TaskRepliedFacts
  <2>3. tasks'[t].born = m.visit /\ \A u \in Tasks : u # t => tasks'[u] = tasks[u]
    BY TaskCreatedFacts
  <2> HIDE DEF a
  <2>4. TaskDatedSave(a)'
    BY <1>4, <2>1, <2>2, <2>3
  <2>5. \A u \in Tasks : tasks'[u].born <= entry
    BY <2>3 DEF TaskDated, TaskDatedSave
  <2> QED
    BY <1>1, <1>3, <2>1, <2>4, <2>5 DEF TaskDated
<1>6. CASE TaskUpdated(m)
  <2> DEFINE a == TaskReplied(m, "ok", m.asked)
  <2>1. saves' = (saves \ {m}) \union {a} /\ m.asked # none /\ m.asked \in Task!Ids
    BY <1>6, TaskMessage DEF TaskUpdated
  <2>2. /\ a.step = m.step /\ a.asked = m.asked /\ a.origin = m.origin
        /\ a.visit = m.visit
    BY <2>1, TaskRepliedFacts
  <2>3. \A u \in Tasks : tasks'[u].born = tasks[u].born
    BY <1>6, TaskUpdatedFacts
  <2> HIDE DEF a
  <2>4. TaskDatedSave(a)'
    BY <1>4, <2>1, <2>2
  <2> QED
    BY <1>1, <1>3, <2>1, <2>3, <2>4 DEF TaskDated
<1>7. CASE TaskRefused(m)
  <2> DEFINE a == TaskReplied(m, "error", m.id)
  <2>1. saves' = (saves \ {m}) \union {a} /\ m.id \in Task!Ids /\ tasks' = tasks
    BY <1>7, TaskMessage DEF TaskRefused
  <2>2. /\ a.step = m.step /\ a.asked = m.asked /\ a.origin = m.origin
        /\ a.visit = m.visit /\ a.stage = "error"
    BY <2>1, TaskRepliedFacts
  <2> HIDE DEF a
  <2>3. TaskDatedSave(a)'
    BY <1>4, <2>1, <2>2
  <2> QED
    BY <1>1, <1>3, <2>1, <2>3 DEF TaskDated
<1> QED
  BY <1>5, <1>6, <1>7 DEF TaskServed

LEMMA TaskDatedStep ==
    ASSUME TaskTyped, TaskKnown, TaskDated, TaskShape PROVE TaskDated'
BY TaskDatedCalm, TaskDatedSent, TaskDatedEntered, TaskDatedMoved, TaskDatedServed
DEF TaskShape, TaskDropped

\* Serving answers one save and changes no other; the rest of the state it
\* only adds to.
LEMMA TaskServedFacts ==
    ASSUME TaskTyped, TaskKnown, NEW m \in saves, TaskServed(m)
    PROVE  /\ UNCHANGED <<rows, taskStep, taskId, focused, item, fields, entry, touches>>
           /\ \E a \in Task!Message :
                 /\ saves' = (saves \ {m}) \union {a}
                 /\ a.step = m.step /\ a.asked = m.asked /\ a.origin = m.origin
                 /\ a.visit = m.visit /\ a.value = m.value /\ a.stage # "sent"
                 /\ a.stage = "error" => taskHist'.refused \/ m.step # 2
           /\ \A i \in Task!Ids : i # none /\ TaskLive(i) =>
                 /\ tasks'[i].born = tasks[i].born
                 /\ tasks[i].done \subseteq tasks'[i].done
           /\ taskHist'.late = taskHist.late /\ taskHist'.again = taskHist.again
           /\ taskHist.refused => taskHist'.refused
<1>1. m \in Task!Message /\ m.id \in Task!Ids /\ m.asked \in Task!Ids
  BY TaskMessage
<1>2. \A i \in Task!Ids : i # none /\ TaskLive(i) =>
          /\ tasks'[i].born = tasks[i].born
          /\ tasks[i].done \subseteq tasks'[i].done
  BY TaskServerGrows DEF TaskServed, TaskLive, Task!Ids
<1>3. /\ taskHist'.late = taskHist.late /\ taskHist'.again = taskHist.again
      /\ taskHist.refused => taskHist'.refused
      /\ TaskRefused(m) => taskHist'.refused \/ m.step # 2
  BY DEF TaskServed, TaskUpdated, TaskRefused, TaskCreated, TaskTyped, TaskHistory
<1>4. CASE \E t \in Tasks : TaskCreated(m, t)
  <2> PICK t \in Tasks : TaskCreated(m, t)
    BY <1>4
  <2> DEFINE a == TaskReplied(m, "ok", t)
  <2>1. saves' = (saves \ {m}) \union {a} /\ t \in Task!Ids
    BY DEF TaskCreated, Task!Ids
  <2>2. /\ a \in Task!Message /\ a.stage = "ok"
        /\ a.step = m.step /\ a.asked = m.asked /\ a.origin = m.origin
        /\ a.visit = m.visit /\ a.value = m.value
    BY <2>1, TaskRepliedFacts
  <2> HIDE DEF a
  <2> QED
    BY <1>2, <1>3, <2>1, <2>2 DEF TaskServed, TaskUntouched
<1>5. CASE TaskUpdated(m)
  <2> DEFINE a == TaskReplied(m, "ok", m.asked)
  <2>1. saves' = (saves \ {m}) \union {a}
    BY <1>5 DEF TaskUpdated
  <2>2. /\ a \in Task!Message /\ a.stage = "ok"
        /\ a.step = m.step /\ a.asked = m.asked /\ a.origin = m.origin
        /\ a.visit = m.visit /\ a.value = m.value
    BY <1>1, TaskRepliedFacts
  <2> HIDE DEF a
  <2> QED
    BY <1>2, <1>3, <2>1, <2>2 DEF TaskServed, TaskUntouched
<1>6. CASE TaskRefused(m)
  <2> DEFINE a == TaskReplied(m, "error", m.id)
  <2>1. saves' = (saves \ {m}) \union {a}
    BY <1>6 DEF TaskRefused
  <2>2. /\ a \in Task!Message /\ a.stage = "error"
        /\ a.step = m.step /\ a.asked = m.asked /\ a.origin = m.origin
        /\ a.visit = m.visit /\ a.value = m.value
    BY <1>1, TaskRepliedFacts
  <2> HIDE DEF a
  <2> QED
    BY <1>2, <1>3, <1>6, <2>1, <2>2 DEF TaskServed, TaskUntouched
<1> QED
  BY <1>4, <1>5, <1>6 DEF TaskServed

\* A save goes to the task of its item, or to one its own visit created.
TaskOwnSave(m) ==
    /\ m.origin # none => m.asked = m.origin
    /\ m.origin = none /\ m.asked # none => tasks[m.asked].born = m.visit

TaskOwned ==
    ~taskHist.late =>
        /\ item.task # none => taskId = item.task
        /\ item.task = none /\ taskId # none => tasks[taskId].born = entry
        /\ \A m \in saves : TaskOwnSave(m)

LEMMA TaskOwnedCalm ==
    ASSUME TaskOwned, TaskCalm PROVE TaskOwned'
BY DEF TaskOwned, TaskOwnSave, TaskCalm

LEMMA TaskOwnedSent ==
    ASSUME TaskTyped, TaskOwned, TaskSave PROVE TaskOwned'
<1>1. ~taskHist.late => TaskOwnSave(TaskSent)
  BY TaskSentFacts DEF TaskOwned, TaskOwnSave
<1> QED
  BY <1>1, TaskSaveLate DEF TaskOwned, TaskOwnSave

LEMMA TaskOwnedEntered ==
    ASSUME TaskOwned, TaskEntered PROVE TaskOwned'
BY DEF TaskOwned, TaskOwnSave, TaskEntered

LEMMA TaskOwnedMoved ==
    ASSUME TaskTyped, TaskKnown, TaskDated, TaskOwned, NEW m \in saves, TaskMoved(m)
    PROVE  TaskOwned'
<1> SUFFICES ASSUME ~taskHist'.late PROVE TaskOwned'
  BY DEF TaskOwned
<1>1. ~taskHist.late /\ m.visit = entry
  BY DEF TaskMoved
<1>2. m.origin = item.task /\ TaskOwnSave(m)
  BY <1>1 DEF TaskDated, TaskDatedSave, TaskOwned
<1>3. CASE m.step = 0
  <2>1. taskId' = m.id /\ m.stage = "ok" /\ m.id # none
    BY <1>3 DEF TaskMoved, TaskKnown
  <2>2. item.task # none => m.id = item.task
    BY <1>2 DEF TaskOwnSave, TaskKnown
  <2>3. item.task = none => tasks[m.id].born = entry
    BY <1>1, <1>2, <2>1 DEF TaskOwnSave, TaskKnown, TaskDated, TaskDatedSave
  <2> QED
    BY <1>1, <2>1, <2>2, <2>3 DEF TaskMoved, TaskOwned, TaskOwnSave
<1>4. CASE m.step # 0
  BY <1>1, <1>4 DEF TaskMoved, TaskOwned, TaskOwnSave
<1> QED
  BY <1>3, <1>4

LEMMA TaskOwnedServed ==
    ASSUME TaskTyped, TaskKnown, TaskOwned, NEW m \in saves, TaskServed(m)
    PROVE  TaskOwned'
<1> SUFFICES ASSUME ~taskHist'.late PROVE TaskOwned'
  BY DEF TaskOwned
<1>1. /\ UNCHANGED <<rows, taskStep, taskId, focused, item, fields, entry, touches>>
      /\ ~taskHist.late
      /\ \A i \in Task!Ids : i # none /\ TaskLive(i) => tasks'[i].born = tasks[i].born
  BY TaskServedFacts
<1>2. PICK a \in Task!Message :
          /\ saves' = (saves \ {m}) \union {a}
          /\ a.asked = m.asked /\ a.origin = m.origin /\ a.visit = m.visit
  BY TaskServedFacts
<1>3. ASSUME NEW o \in saves PROVE TaskOwnSave(o)'
  <2>1. o.asked \in Task!Ids /\ TaskLive(o.asked)
    BY TaskMessage DEF TaskKnown
  <2> QED
    BY <1>1, <2>1 DEF TaskOwned, TaskOwnSave
<1>4. TaskOwnSave(a)'
  BY <1>2, <1>3 DEF TaskOwnSave
<1>5. taskId # none => tasks'[taskId].born = tasks[taskId].born
  BY <1>1, TaskScalars DEF TaskKnown
<1> QED
  BY <1>1, <1>2, <1>3, <1>4, <1>5 DEF TaskOwned

LEMMA TaskOwnedStep ==
    ASSUME TaskTyped, TaskKnown, TaskDated, TaskOwned, TaskShape PROVE TaskOwned'
BY TaskOwnedCalm, TaskOwnedSent, TaskOwnedEntered, TaskOwnedMoved, TaskOwnedServed
DEF TaskShape, TaskDropped

-----------------------------------------------------------------------------
(* One task for each visit                                                 *)

\* A create of visit v.
TaskCreates(m, v) == m.asked = none /\ m.step = 0 /\ m.visit = v

TaskBorn(v) == \E t \in Tasks : tasks[t].born = v

\* A visit that sent its create once, and whose answer was not lost, has one
\* create in flight or one task.
TaskOnceIn(v) ==
    /\ \A t, u \in Tasks : tasks[t].born = v /\ tasks[u].born = v => t = u
    /\ \A m, o \in saves : TaskCreates(m, v) /\ TaskCreates(o, v) => m = o
    /\ \A m \in saves : TaskCreates(m, v) /\ m.stage # "ok" => ~TaskBorn(v)
    /\ v = entry /\ TaskBorn(v) => taskId # none \/ \E m \in saves : TaskCreates(m, v)

TaskOnce == \A v \in 1 .. entry : v \notin taskHist.again => TaskOnceIn(v)

LEMMA TaskOnceCalm ==
    ASSUME TaskOnce, TaskCalm, saves' = saves, taskHist'.again = taskHist.again PROVE TaskOnce'
BY DEF TaskOnce, TaskOnceIn, TaskBorn, TaskCreates, TaskCalm

LEMMA TaskOnceSent ==
    ASSUME TaskTyped, TaskDated, TaskOnce, TaskSave PROVE TaskOnce'
<1>1. /\ saves' = saves \union {TaskSent} /\ taskHist.again \subseteq taskHist'.again
      /\ UNCHANGED <<tasks, taskId, entry>>
  BY TaskSaveLate
<1>2. ASSUME NEW v \in 1 .. entry, v \notin taskHist'.again PROVE TaskOnceIn(v)'
  <2>1. TaskOnceIn(v)
    BY <1>1, <1>2 DEF TaskOnce
  <2>2. CASE ~TaskCreates(TaskSent, v)
    BY <1>1, <2>1, <2>2 DEF TaskOnceIn, TaskBorn, TaskCreates
  <2>3. CASE TaskCreates(TaskSent, v)
    <3>1. taskId = none /\ taskStep = 0 /\ entry = v
      BY <2>3, TaskSentFacts DEF TaskCreates
    <3>2. ~Task!Creating
      BY <1>2, <3>1, TaskSendFacts DEF TaskSave
    <3>3. \A m \in saves : ~TaskCreates(m, v)
      BY <3>1, <3>2 DEF Task!Creating, TaskCreates
    <3>4. ~TaskBorn(v)
      BY <2>1, <3>1, <3>3 DEF TaskOnceIn
    <3>5. ~TaskBorn(v)'
      BY <1>1, <3>4 DEF TaskBorn
    <3> QED
      BY <1>1, <3>3, <3>5 DEF TaskOnceIn, TaskBorn, TaskCreates
  <2> QED
    BY <2>2, <2>3
<1> QED
  BY <1>1, <1>2 DEF TaskOnce

LEMMA TaskOnceEntered ==
    ASSUME TaskTyped, TaskDated, TaskOnce, TaskEntered PROVE TaskOnce'
<1>1. entry' = entry + 1 /\ entry \in Nat /\ UNCHANGED <<tasks, saves>>
      /\ taskHist'.again = taskHist.again
  BY TaskScalars DEF TaskEntered
<1>2. ASSUME NEW v \in 1 .. entry', v \notin taskHist'.again PROVE TaskOnceIn(v)'
  <2>1. CASE v = entry'
    <3>1. \A t \in Tasks : tasks[t].born # v
      BY <1>1, <2>1, TaskServerParts DEF TaskDated
    <3>2. \A m \in saves : m.visit # v
      BY <1>1, <2>1, TaskMessage DEF TaskDated, TaskDatedSave
    <3> QED
      BY <1>1, <3>1, <3>2 DEF TaskOnceIn, TaskBorn, TaskCreates
  <2>2. CASE v # entry'
    <3>1. v \in 1 .. entry
      BY <1>1, <2>2
    <3>2. TaskOnceIn(v)
      BY <1>1, <1>2, <3>1 DEF TaskOnce
    <3> QED
      BY <1>1, <2>2, <3>2 DEF TaskOnceIn, TaskBorn, TaskCreates
  <2> QED
    BY <2>1, <2>2
<1> QED
  BY <1>2 DEF TaskOnce

LEMMA TaskOnceDropped ==
    ASSUME TaskOnce, NEW m \in saves, TaskDropped(m) PROVE TaskOnce'
<1>1. /\ saves' = saves \ {m} /\ UNCHANGED <<tasks, taskId, entry>>
      /\ taskHist.again \subseteq taskHist'.again
  BY DEF TaskDropped, TaskCalm
<1>2. ASSUME NEW v \in 1 .. entry, v \notin taskHist'.again PROVE TaskOnceIn(v)'
  <2>1. TaskOnceIn(v)
    BY <1>1, <1>2 DEF TaskOnce
  <2>2. TaskCreates(m, v) => m.stage = "error"
    BY <1>2 DEF TaskCreates, TaskDropped
  <2>3. TaskCreates(m, v) => ~TaskBorn(v)
    BY <2>1, <2>2 DEF TaskOnceIn
  <2> QED
    BY <1>1, <2>1, <2>3 DEF TaskOnceIn, TaskBorn, TaskCreates
<1> QED
  BY <1>1, <1>2 DEF TaskOnce

LEMMA TaskOnceMoved ==
    ASSUME TaskKnown, TaskOnce, NEW m \in saves, TaskMoved(m) PROVE TaskOnce'
<1>1. /\ saves' = saves \ {m} /\ UNCHANGED <<tasks, entry>> /\ taskHist'.again = taskHist.again
      /\ taskId' = IF m.step = 0 THEN m.id ELSE taskId
      /\ m.step = 0 => m.id # none
  BY DEF TaskMoved, TaskKnown
<1>2. ASSUME NEW v \in 1 .. entry, v \notin taskHist'.again PROVE TaskOnceIn(v)'
  <2>1. TaskOnceIn(v)
    BY <1>1, <1>2 DEF TaskOnce
  <2> QED
    BY <1>1, <2>1 DEF TaskOnceIn, TaskBorn, TaskCreates
<1> QED
  BY <1>1, <1>2 DEF TaskOnce

LEMMA TaskOnceServed ==
    ASSUME TaskTyped, TaskKnown, TaskOnce, NEW m \in saves, TaskServed(m) PROVE TaskOnce'
<1>1. /\ UNCHANGED <<rows, taskStep, taskId, focused, item, fields, entry, touches>>
      /\ taskHist'.again = taskHist.again /\ m.stage = "sent"
  BY TaskServedFacts DEF TaskServed
<1>2. PICK a \in Task!Message :
          /\ saves' = (saves \ {m}) \union {a}
          /\ a.step = m.step /\ a.asked = m.asked /\ a.visit = m.visit
  BY TaskServedFacts
<1>3. \A v : TaskCreates(a, v) <=> TaskCreates(m, v)
  BY <1>2 DEF TaskCreates
<1>4. CASE \E t \in Tasks : TaskCreated(m, t)
  <2> PICK t \in Tasks : TaskCreated(m, t)
    BY <1>4
  <2> DEFINE b == TaskReplied(m, "ok", t)
  <2>1. saves' = (saves \ {m}) \union {b} /\ m.step = 0 /\ m.asked = none /\ t \in Task!Ids
        /\ tasks[t].born = 0
    BY DEF TaskCreated, Task!Ids, TaskKnown
  <2>2. b.stage = "ok" /\ b.step = m.step /\ b.asked = m.asked /\ b.visit = m.visit
    BY <2>1, TaskRepliedFacts
  <2>3. tasks'[t].born = m.visit /\ \A u \in Tasks : u # t => tasks'[u] = tasks[u]
    BY TaskCreatedFacts
  <2> HIDE DEF b
  <2>4. \A v : TaskCreates(b, v) <=> TaskCreates(m, v)
    BY <2>2 DEF TaskCreates
  <2>5. ASSUME NEW v \in 1 .. entry, v \notin taskHist.again PROVE TaskOnceIn(v)'
    <3>1. TaskOnceIn(v)
      BY <2>5 DEF TaskOnce
    <3>2. CASE v = m.visit
      <4>1. TaskCreates(m, v) /\ ~TaskBorn(v)
        BY <1>1, <2>1, <3>1, <3>2 DEF TaskOnceIn, TaskCreates
      <4>2. \A u \in Tasks : tasks'[u].born = v => u = t
        BY <2>3, <4>1 DEF TaskBorn
      <4>3. \A o \in saves' : TaskCreates(o, v) => o = b
        BY <2>1, <3>1, <4>1 DEF TaskOnceIn
      <4>4. b \in saves' /\ TaskCreates(b, v)
        BY <2>1, <2>4, <4>1
      <4> QED
        BY <2>2, <4>2, <4>3, <4>4 DEF TaskOnceIn, TaskBorn, TaskCreates
    <3>3. CASE v # m.visit
      <4>1. \A u \in Tasks : tasks'[u].born = v <=> tasks[u].born = v
        BY <2>1, <2>3, <3>3
      <4>2. ~TaskCreates(b, v) /\ ~TaskCreates(m, v)
        BY <2>4, <3>3 DEF TaskCreates
      <4>3. \A o \in saves' : TaskCreates(o, v) => o \in saves
        BY <2>1, <4>2
      <4>4. \A o \in saves : TaskCreates(o, v) => o \in saves'
        BY <2>1, <4>2
      <4> QED
        BY <1>1, <3>1, <4>1, <4>3, <4>4 DEF TaskOnceIn, TaskBorn, TaskCreates
    <3> QED
      BY <3>2, <3>3
  <2> QED
    BY <1>1, <2>5 DEF TaskOnce
<1>5. CASE TaskUpdated(m) \/ TaskRefused(m)
  <2>1. \A u \in Tasks : tasks'[u].born = tasks[u].born
    BY <1>5, TaskUpdatedFacts DEF TaskRefused
  <2>2. ASSUME NEW v \in 1 .. entry, v \notin taskHist.again PROVE TaskOnceIn(v)'
    <3>1. TaskOnceIn(v)
      BY <2>2 DEF TaskOnce
    <3>2. TaskCreates(m, v) => ~TaskBorn(v)
      BY <1>1, <3>1 DEF TaskOnceIn
    <3>3. \A o \in saves' : TaskCreates(o, v) =>
             \/ o \in saves /\ o # m
             \/ o = a /\ TaskCreates(m, v)
      BY <1>2, <1>3
    <3>4. \A o \in saves : TaskCreates(o, v) => \E w \in saves' : TaskCreates(w, v)
      BY <1>2, <1>3
    <3>5. \A t, u \in Tasks : tasks'[t].born = v /\ tasks'[u].born = v => t = u
      BY <2>1, <3>1 DEF TaskOnceIn
    <3>6. \A o, w \in saves' : TaskCreates(o, v) /\ TaskCreates(w, v) => o = w
      BY <3>1, <3>3 DEF TaskOnceIn
    <3>7. \A o \in saves' : TaskCreates(o, v) /\ o.stage # "ok" => ~TaskBorn(v)
      BY <3>1, <3>2, <3>3 DEF TaskOnceIn
    <3>8. TaskBorn(v)' <=> TaskBorn(v)
      BY <2>1 DEF TaskBorn
    <3>9. v = entry /\ TaskBorn(v) => taskId # none \/ \E w \in saves' : TaskCreates(w, v)
      BY <3>1, <3>4 DEF TaskOnceIn
    <3> QED
      BY <1>1, <3>5, <3>6, <3>7, <3>8, <3>9 DEF TaskOnceIn, TaskCreates
  <2> QED
    BY <1>1, <2>2 DEF TaskOnce
<1> QED
  BY <1>4, <1>5 DEF TaskServed

LEMMA TaskOnceStep ==
    ASSUME TaskTyped, TaskKnown, TaskDated, TaskOnce, TaskShape PROVE TaskOnce'
BY TaskOnceCalm, TaskOnceSent, TaskOnceEntered, TaskOnceDropped, TaskOnceMoved,
   TaskOnceServed
DEF TaskShape

-----------------------------------------------------------------------------
(* What a step finds done                                                  *)

\* The server has the steps before k of task t.
TaskBefore(k, t) ==
    \A j \in 0 .. k - 1 : j \in tasks[t].done \/ (j = 2 /\ taskHist.refused)

\* An answer of type 'ok' says that the server has the step; one of type 'error'
\* to step three is remembered.
TaskAnswered(m) ==
    /\ m.stage = "ok" => m.step \in tasks[m.id].done
    /\ m.stage = "error" /\ m.step = 2 => taskHist.refused

\* A new task, with no answer from elsewhere and no second create.
TaskPlain == item.task = none /\ ~taskHist.late /\ entry \notin taskHist.again

\* A step of such a task is shown, and saved, after those before it.
TaskDone ==
    /\ \A m \in saves : TaskAnswered(m)
    /\ TaskPlain =>
          /\ taskStep > 0 => taskId # none /\ TaskBefore(taskStep, taskId)
          /\ \A m \in saves : m.visit = entry /\ m.step > 0 =>
                m.asked # none /\ TaskBefore(m.step, m.asked)

LEMMA TaskDoneCalm ==
    ASSUME TaskTyped, TaskDone, TaskCalm PROVE TaskDone'
<1>1. \A m \in saves' : TaskAnswered(m)'
  BY DEF TaskDone, TaskAnswered, TaskCalm
<1>2. TaskPlain' => TaskPlain /\ taskStep' = taskStep
  BY DEF TaskPlain, TaskCalm
<1>3. \A k, t : TaskBefore(k, t) => TaskBefore(k, t)'
  BY DEF TaskBefore, TaskCalm
<1> QED
  BY <1>1, <1>2, <1>3 DEF TaskDone, TaskCalm

LEMMA TaskDoneSent ==
    ASSUME TaskTyped, TaskDone, TaskSave PROVE TaskDone'
<1> PICK s : s = TaskSent
  OBVIOUS
<1>1. /\ saves' = saves \union {s}
      /\ taskHist'.late = taskHist.late /\ taskHist'.refused = taskHist.refused
      /\ taskHist.again \subseteq taskHist'.again
      /\ UNCHANGED <<tasks, taskStep, taskId, item, entry>>
  BY TaskSaveLate
<1>2. TaskAnswered(s)'
  BY TaskSentFacts DEF TaskAnswered
<1>3. \A m \in saves' : TaskAnswered(m)'
  BY <1>1, <1>2 DEF TaskDone, TaskAnswered
<1>4. TaskPlain' => TaskPlain
  BY <1>1 DEF TaskPlain
<1>5. \A k, t : TaskBefore(k, t) => TaskBefore(k, t)'
  BY <1>1 DEF TaskBefore
<1>6. TaskPlain /\ taskStep > 0 => s.asked # none /\ TaskBefore(s.step, s.asked)
  BY TaskSentFacts DEF TaskDone
<1>7. s.step = taskStep
  BY TaskSentFacts
<1> QED
  BY <1>1, <1>3, <1>4, <1>5, <1>6, <1>7 DEF TaskDone

LEMMA TaskDoneEntered ==
    ASSUME TaskTyped, TaskDated, TaskDone, TaskEntered PROVE TaskDone'
<1>1. \A m \in saves' : TaskAnswered(m)'
  BY DEF TaskDone, TaskAnswered, TaskEntered
<1>2. \A m \in saves' : m.visit # entry'
  BY TaskMessage, TaskScalars DEF TaskDated, TaskDatedSave, TaskEntered
<1>3. taskStep' = 0
  BY DEF TaskEntered
<1> QED
  BY <1>1, <1>2, <1>3 DEF TaskDone

\* In such a visit the task the wizard is at is the one its saves go to.
LEMMA TaskSame ==
    ASSUME TaskTyped, TaskKnown, TaskDated, TaskOwned, TaskOnce, TaskPlain,
           NEW m \in saves, m.visit = entry, m.asked # none
    PROVE  m.asked = taskId
<1>1. m.origin = none /\ taskId # none
  BY DEF TaskDated, TaskDatedSave, TaskPlain
<1>2. tasks[m.asked].born = entry /\ tasks[taskId].born = entry
  BY <1>1 DEF TaskOwned, TaskOwnSave, TaskPlain
<1>3. entry \in 1 .. entry
  BY TaskScalars DEF TaskDated, TaskDatedSave
<1>4. TaskOnceIn(entry)
  BY <1>3 DEF TaskOnce, TaskPlain
<1>5. m.asked \in Tasks /\ taskId \in Tasks
  BY <1>1, TaskMessage, TaskScalars DEF Task!Ids
<1> QED
  BY <1>2, <1>4, <1>5 DEF TaskOnceIn

LEMMA TaskDoneMoved ==
    ASSUME TaskTyped, TaskKnown, TaskDated, TaskOwned, TaskOnce, TaskDone,
           NEW m \in saves, TaskMoved(m)
    PROVE  TaskDone'
<1>1. /\ saves' = saves \ {m} /\ UNCHANGED <<tasks, item, entry>>
      /\ taskHist'.late = (taskHist.late \/ m.visit # entry)
      /\ taskHist'.refused = taskHist.refused /\ taskHist'.again = taskHist.again
      /\ taskStep' = m.step + 1 /\ m.step \in 0 .. 2
      /\ taskId' = IF m.step = 0 THEN m.id ELSE taskId
      /\ m.stage = "ok" \/ (m.step = 2 /\ m.stage = "error")
  BY DEF TaskMoved
<1>2. \A o \in saves' : TaskAnswered(o)'
  BY <1>1 DEF TaskDone, TaskAnswered
<1>3. TaskPlain' => TaskPlain /\ m.visit = entry
  BY <1>1 DEF TaskPlain
<1>4. \A k, t : TaskBefore(k, t) => TaskBefore(k, t)'
  BY <1>1 DEF TaskBefore
<1>5. ASSUME TaskPlain, m.visit = entry
      PROVE  taskId' # none /\ TaskBefore(m.step + 1, taskId')
  <2>1. TaskAnswered(m)
    BY DEF TaskDone
  <2>2. CASE m.step = 0
    <3>1. m.stage = "ok" /\ taskId' = m.id /\ m.id # none /\ 0 \in tasks[m.id].done
      BY <1>1, <2>1, <2>2 DEF TaskAnswered, TaskKnown
    <3>2. \A j \in 0 .. (m.step + 1) - 1 : j = 0
      BY <2>2
    <3> QED
      BY <3>1, <3>2 DEF TaskBefore
  <2>3. CASE m.step # 0
    <3>1. m.asked # none /\ TaskBefore(m.step, m.asked)
      BY <1>1, <1>5, <2>3 DEF TaskDone
    <3>2. m.asked = taskId /\ taskId' = taskId
      BY <1>1, <1>5, <2>3, <3>1, TaskSame
    <3>3. m.step \in tasks[taskId].done \/ (m.step = 2 /\ taskHist.refused)
      BY <1>1, <2>1, <3>1, <3>2 DEF TaskAnswered, TaskKnown
    <3>4. \A j \in 0 .. (m.step + 1) - 1 : j \in 0 .. m.step - 1 \/ j = m.step
      BY <1>1
    <3> QED
      BY <3>1, <3>2, <3>3, <3>4 DEF TaskBefore
  <2> QED
    BY <2>2, <2>3
<1>6. ASSUME NEW k, NEW t, k = taskStep', t = taskId', TaskPlain'
      PROVE  t # none /\ TaskBefore(k, t)'
  BY <1>1, <1>3, <1>4, <1>5, <1>6
<1>7. ASSUME NEW o \in saves', TaskPlain', o.visit = entry', o.step > 0
      PROVE  o.asked # none /\ TaskBefore(o.step, o.asked)'
  BY <1>1, <1>3, <1>4, <1>7 DEF TaskDone
<1> QED
  BY <1>2, <1>6, <1>7 DEF TaskDone

LEMMA TaskDoneServed ==
    ASSUME TaskTyped, TaskKnown, TaskDated, TaskDone, NEW m \in saves, TaskServed(m)
    PROVE  TaskDone'
<1>1. /\ UNCHANGED <<rows, taskStep, taskId, focused, item, fields, entry, touches>>
      /\ \A i \in Task!Ids : i # none /\ TaskLive(i) => tasks[i].done \subseteq tasks'[i].done
      /\ taskHist'.late = taskHist.late /\ taskHist'.again = taskHist.again
      /\ taskHist.refused => taskHist'.refused
  BY TaskServedFacts
<1>2. PICK a \in Task!Message :
          /\ saves' = (saves \ {m}) \union {a}
          /\ a.step = m.step /\ a.asked = m.asked /\ a.visit = m.visit
          /\ a.stage # "sent"
          /\ a.stage = "error" => taskHist'.refused \/ m.step # 2
  BY TaskServedFacts
<1>3. \A k : \A i \in Task!Ids : i # none /\ TaskLive(i) /\ TaskBefore(k, i) => TaskBefore(k, i)'
  BY <1>1 DEF TaskBefore
<1>4. ASSUME NEW o \in saves PROVE TaskAnswered(o)'
  <2>1. o.id \in Task!Ids /\ TaskLive(o.id) /\ (o.stage = "ok" => o.id # none)
    BY TaskMessage DEF TaskKnown
  <2> QED
    BY <1>1, <2>1 DEF TaskDone, TaskAnswered
<1>5. a.stage = "ok" => m.step \in tasks'[a.id].done
  <2>1. CASE \E t \in Tasks : TaskCreated(m, t)
    <3> PICK t \in Tasks : TaskCreated(m, t)
      BY <2>1
    <3> DEFINE b == TaskReplied(m, "ok", t)
    <3>1. saves' = (saves \ {m}) \union {b} /\ m.step = 0 /\ m.stage = "sent" /\ t \in Task!Ids
      BY DEF TaskCreated, TaskServed, Task!Ids
    <3>2. b.id = t /\ b.stage = "ok"
      BY <3>1, TaskRepliedFacts
    <3>3. 0 \in tasks'[t].done
      BY TaskCreatedFacts
    <3> HIDE DEF b
    <3>4. CASE a = b
      BY <3>1, <3>2, <3>3, <3>4
    <3>5. CASE a \in saves
      BY <1>2, <1>4, <3>5 DEF TaskAnswered
    <3> QED
      BY <1>2, <3>1, <3>4, <3>5
  <2>2. CASE TaskUpdated(m)
    <3> DEFINE b == TaskReplied(m, "ok", m.asked)
    <3>1. saves' = (saves \ {m}) \union {b} /\ m.asked \in Task!Ids
      BY <2>2, TaskMessage DEF TaskUpdated
    <3>2. b.id = m.asked /\ b.stage = "ok"
      BY <3>1, TaskRepliedFacts
    <3>3. m.step \in tasks'[m.asked].done
      BY <2>2, TaskUpdatedFacts
    <3> HIDE DEF b
    <3>4. CASE a = b
      BY <3>2, <3>3, <3>4
    <3>5. CASE a \in saves
      BY <1>2, <1>4, <3>5 DEF TaskAnswered
    <3> QED
      BY <1>2, <3>1, <3>4, <3>5
  <2>3. CASE TaskRefused(m)
    <3> DEFINE b == TaskReplied(m, "error", m.id)
    <3>1. saves' = (saves \ {m}) \union {b} /\ m.id \in Task!Ids
      BY <2>3, TaskMessage DEF TaskRefused
    <3>2. b.stage = "error"
      BY <3>1, TaskRepliedFacts
    <3> HIDE DEF b
    <3>4. CASE a = b
      BY <3>2, <3>4
    <3>5. CASE a \in saves
      BY <1>2, <1>4, <3>5 DEF TaskAnswered
    <3> QED
      BY <1>2, <3>1, <3>4, <3>5
  <2> QED
    BY <2>1, <2>2, <2>3 DEF TaskServed
<1>6. TaskAnswered(a)'
  BY <1>2, <1>5 DEF TaskAnswered
<1>7. ASSUME NEW o \in saves', TaskPlain', o.visit = entry', o.step > 0
      PROVE  o.asked # none /\ TaskBefore(o.step, o.asked)'
  <2>1. PICK w \in saves : w.asked = o.asked /\ w.step = o.step /\ w.visit = o.visit
    BY <1>2
  <2>2. TaskPlain
    BY <1>1, <1>7 DEF TaskPlain
  <2>3. w.asked # none /\ TaskBefore(w.step, w.asked)
    BY <1>1, <1>7, <2>1, <2>2 DEF TaskDone
  <2>4. w.asked \in Task!Ids /\ TaskLive(w.asked)
    BY TaskMessage DEF TaskKnown
  <2> QED
    BY <1>3, <2>1, <2>3, <2>4
<1>8. ASSUME NEW k, NEW t, k = taskStep', t = taskId', TaskPlain', k > 0
      PROVE  t # none /\ TaskBefore(k, t)'
  <2>1. t = taskId /\ k = taskStep /\ t \in Task!Ids /\ TaskLive(t)
    BY <1>1, <1>8, TaskScalars DEF TaskKnown
  <2>2. TaskPlain
    BY <1>1, <1>8 DEF TaskPlain
  <2> QED
    BY <1>3, <1>8, <2>1, <2>2 DEF TaskDone
<1> QED
  BY <1>2, <1>4, <1>6, <1>7, <1>8 DEF TaskDone

LEMMA TaskDoneStep ==
    ASSUME TaskTyped, TaskKnown, TaskDated, TaskOwned, TaskOnce, TaskDone, TaskShape
    PROVE  TaskDone'
BY TaskDoneCalm, TaskDoneSent, TaskDoneEntered, TaskDoneMoved, TaskDoneServed
DEF TaskShape, TaskDropped

-----------------------------------------------------------------------------
(* What a form holds                                                       *)

\* The form is that of the visit; what was typed is what it holds, unless the
\* packages, which come once, came later.
TaskFilled ==
    /\ focused /\ ~taskHist.kept => fields.visit = entry
    /\ fields.typed # 0 /\ fields.value # fields.typed => taskStep = 1 /\ taskHist.early
    /\ taskStep = 1 /\ fields.packages = "asked" /\ fields.typed # 0 => taskHist.early

LEMMA TaskMountedFacts ==
    ASSUME NEW k, NEW i, NEW n, NEW v
    PROVE  /\ Task!Mounted(k, i, n, v).typed = 0 /\ Task!Mounted(k, i, n, v).visit = v
           /\ Task!Mounted(k, i, n, v).packages = "asked"
           /\ Task!Mounted(k, i, n, v).value =
                 IF k = 1 \/ i.task = none THEN 0 ELSE i.parts[k + 1]
BY DEF Task!Mounted

LEMMA TaskSettledFacts ==
    ASSUME TaskTyped, NEW m
    PROVE  /\ Task!Settled(m).typed = fields.typed /\ Task!Settled(m).visit = fields.visit
           /\ Task!Settled(m).packages = fields.packages /\ Task!Settled(m).value = fields.value
BY DEF Task!Settled, TaskTyped, TaskForms

\* Steps that leave in the form what it holds.
TaskHeld ==
    /\ fields'.typed = fields.typed /\ fields'.value = fields.value
    /\ fields'.visit = fields.visit /\ fields'.packages = fields.packages
    /\ taskStep' = taskStep /\ entry' = entry
    /\ focused' => focused
    /\ taskHist'.kept = taskHist.kept /\ taskHist'.early = taskHist.early

\* Steps that fill the form anew.
TaskRefilled ==
    /\ fields'.typed = 0 /\ fields'.visit = entry'

LEMMA TaskHoldsAnswer ==
    ASSUME TaskTyped, NEW m \in saves, Task!Deliver(m) \/ Task!Fail(m)
    PROVE  TaskHeld \/ TaskRefilled
<1>1. taskHist \in TaskHistory
  BY DEF TaskTyped
<1>2. CASE Task!Fail(m)
  BY <1>1, <1>2, TaskSettledFacts DEF Task!Fail, TaskHeld, TaskHistory
<1>3. CASE Task!Deliver(m)
  <2>1. entry' = entry
    BY <1>3 DEF Task!Deliver
  <2>2. CASE Task!Finish(m) \/ Task!Complain(m)
    BY <2>1, <2>2, TaskSettledFacts DEF Task!Finish, Task!Complain, TaskHeld
  <2>3. CASE Task!MoveOn(m)
    <3>1. taskHist'.kept = taskHist.kept /\ taskHist'.early = taskHist.early /\ focused' = focused
      BY <1>1, <2>3 DEF Task!MoveOn, TaskHistory
    <3>2. CASE Task!StepAfter(m) = taskStep
      BY <2>1, <2>3, <3>1, <3>2, TaskSettledFacts DEF Task!MoveOn, TaskHeld
    <3>3. CASE Task!StepAfter(m) # taskStep
      BY <2>1, <2>3, <3>3, TaskMountedFacts DEF Task!MoveOn, TaskRefilled
    <3> QED
      BY <3>2, <3>3
  <2> QED
    BY <1>3, <2>2, <2>3 DEF Task!Deliver
<1> QED
  BY <1>2, <1>3

LEMMA TaskHolds ==
    ASSUME TaskTyped,
           \/ Task!Leave \/ TaskSave \/ Task!Incomplete
           \/ \E k \in Task!Steps : Task!HandelSelectedStep(k)
           \/ \E m \in saves : Task!Serve(m) \/ Task!Deliver(m) \/ Task!Fail(m)
    PROVE  TaskHeld \/ TaskRefilled
<1>1. taskHist \in TaskHistory /\ fields \in TaskForms
  BY DEF TaskTyped
<1>2. CASE Task!Leave
  BY <1>2 DEF Task!Leave, TaskHeld
<1>3. CASE TaskSave
  <2>1. taskHist'.kept = taskHist.kept /\ taskHist'.early = taskHist.early
    BY <1>3, TaskSendFacts DEF TaskSave
  <2> QED
    BY <1>1, <1>3, <2>1 DEF TaskSave, TaskHeld, TaskForms
<1>4. CASE Task!Incomplete
  BY <1>1, <1>4 DEF Task!Incomplete, TaskHeld, TaskForms
<1>5. ASSUME NEW k \in Task!Steps, Task!HandelSelectedStep(k) PROVE TaskRefilled
  BY <1>5, TaskMountedFacts DEF Task!HandelSelectedStep, Task!Goto, TaskRefilled
<1>6. ASSUME NEW m \in saves, Task!Serve(m) PROVE TaskHeld
  <2>1. UNCHANGED <<taskStep, focused, fields, entry>>
    BY <1>6 DEF Task!Serve
  <2>2. taskHist'.kept = taskHist.kept /\ taskHist'.early = taskHist.early
    BY <1>1, <1>6, TaskServeIs DEF TaskCreated, TaskUpdated, TaskRefused, TaskHistory
  <2> QED
    BY <2>1, <2>2 DEF TaskHeld
<1> QED
  BY <1>2, <1>3, <1>4, <1>5, <1>6, TaskHoldsAnswer

LEMMA TaskFilledType ==
    ASSUME TaskTyped, TaskFilled, Task!Type PROVE TaskFilled'
<1>1. taskHist \in TaskHistory /\ fields \in TaskForms
  BY DEF TaskTyped
<1>2. fields'.typed = touches /\ fields'.value = touches /\ fields'.visit = fields.visit
      /\ fields'.packages = fields.packages
  BY <1>1 DEF Task!Type, TaskForms
<1>3. /\ taskHist'.kept = taskHist.kept
      /\ taskHist'.early = (taskHist.early \/ (taskStep = 1 /\ fields.packages = "asked"))
  BY <1>1 DEF Task!Type, TaskHistory
<1> QED
  BY <1>2, <1>3 DEF Task!Type, TaskFilled

LEMMA TaskFilledLoad ==
    ASSUME TaskTyped, TaskFilled, Task!LoadPackages PROVE TaskFilled'
<1>1. fields \in TaskForms
  BY DEF TaskTyped
<1>2. fields'.typed = fields.typed /\ fields'.visit = fields.visit /\ fields'.packages # "asked"
  BY <1>1 DEF Task!LoadPackages, TaskForms
<1>3. taskStep = 1 /\ (fields.typed # 0 => taskHist.early)
  BY DEF Task!LoadPackages, TaskFilled
<1> QED
  BY <1>2, <1>3 DEF Task!LoadPackages, TaskFilled

LEMMA TaskFilledEnter ==
    ASSUME TaskTyped, TaskFilled, Task!CreateTask \/ \E t \in Tasks : Task!EditTask(t)
    PROVE  TaskFilled'
<1>1. taskStep' = 0 /\ entry' = entry + 1
  BY DEF Task!CreateTask, Task!EditTask, Task!Enter
<1>2. CASE focused /\ taskStep = 0
  <2>1. Task!Begin(FALSE, focused /\ taskStep = 0) /\ fields' = fields
    BY <1>2 DEF Task!CreateTask, Task!EditTask, Task!Enter
  <2>2. taskHist'.kept
    <3>1. FALSE \in BOOLEAN /\ (focused /\ taskStep = 0) \in BOOLEAN
      OBVIOUS
    <3> QED
      BY <1>2, <2>1, <3>1, TaskBeginFacts
  <2> QED
    BY <1>1, <1>2, <2>1, <2>2 DEF TaskFilled
<1>3. CASE ~(focused /\ taskStep = 0)
  <2> PICK i : Task!Enter(i)
    BY DEF Task!CreateTask, Task!EditTask
  <2>1. fields' = Task!Mounted(0, i, touches, entry + 1)
    BY <1>3 DEF Task!Enter
  <2>2. TaskRefilled
    BY <1>1, <2>1, TaskMountedFacts DEF TaskRefilled
  <2> QED
    BY <1>1, <2>2 DEF TaskFilled, TaskRefilled
<1> QED
  BY <1>2, <1>3

LEMMA TaskFilledStep ==
    ASSUME TaskTyped, TaskFilled, TaskSteps PROVE TaskFilled'
<1>1. CASE TaskHeld
  BY <1>1 DEF TaskHeld, TaskFilled
<1>2. CASE TaskRefilled
  BY <1>2 DEF TaskRefilled, TaskFilled
<1> QED
  BY <1>1, <1>2, TaskHolds, TaskFilledType, TaskFilledLoad, TaskFilledEnter DEF TaskSteps

-----------------------------------------------------------------------------

\* The inductive invariant about tasks, visits and steps.
TaskInv == TaskDated /\ TaskOwned /\ TaskOnce /\ TaskDone /\ TaskFilled

LEMMA TaskInvInit == ASSUME Task!Init PROVE TaskInv
<1>1. /\ saves = {} /\ entry = 0 /\ taskStep = 0 /\ taskId = none /\ focused = FALSE
      /\ item.task = none /\ fields.typed = 0
  BY TaskMountedFacts DEF Task!Init, Task!NoItem
<1>2. \A t \in Tasks : tasks[t].born = 0
  BY DEF Task!Init
<1> QED
  BY <1>1, <1>2 DEF TaskInv, TaskDated, TaskOwned, TaskOnce, TaskDone, TaskFilled

LEMMA TaskInvStep ==
    ASSUME TaskTyped, TaskKnown, TaskInv, TaskSteps PROVE TaskInv'
<1>1. TaskShape
  BY TaskShapes
<1> QED
  BY <1>1, TaskDatedStep, TaskOwnedStep, TaskOnceStep, TaskDoneStep, TaskFilledStep
  DEF TaskInv

LEMMA TaskInvStutter == ASSUME TaskInv, UNCHANGED Task!vars PROVE TaskInv'
BY DEF TaskInv, TaskDated, TaskDatedSave, TaskOwned, TaskOwnSave, TaskOnce, TaskOnceIn,
       TaskBorn, TaskCreates, TaskDone, TaskAnswered, TaskPlain, TaskBefore, TaskFilled,
       Task!vars

LEMMA TaskInvAlways == Task!Spec => []TaskInv
<1>1. ASSUME TaskTyped, TaskKnown, TaskInv, [Task!Next]_(Task!vars) PROVE TaskInv'
  BY <1>1, TaskNextIs, TaskInvStep, TaskInvStutter
<1> QED
  BY <1>1, TaskInvInit, TaskTypedAlways, PTL DEF Task!Spec

\* Type correctness of the post-task wizard, together with what the wizard, the
\* list and the saves speak of having been created.
THEOREM TaskTypeCorrect == Task!Spec => []Task!TypeOK
BY TaskTypedAlways, TaskTypedIsTypeOK, PTL

\* A save goes to the task whose item fills the wizard, or to the one its own visit
\* created, unless an answer of an earlier visit came in between; a visit creates one
\* task, unless its create was sent twice or its answer lost.
THEOREM TaskSavesApart == Task!Spec => []SavesReachTheirTask
<1>1. ASSUME TaskTyped, TaskKnown, TaskInv PROVE SavesReachTheirTask
  <2>1. \A m \in saves : TaskOwned /\ ~taskHist.late => TaskOwnSave(m)
    BY DEF TaskOwned
  <2>2. ASSUME NEW t \in Tasks, NEW u \in Tasks, tasks[t].born = tasks[u].born,
               tasks[t].born \notin taskHist.again \union {0}
        PROVE  t = u
    <3>1. tasks[t].born \in 1 .. entry
      BY <1>1, <2>2, TaskServerParts, TaskScalars DEF TaskInv, TaskDated
    <3>2. TaskOnceIn(tasks[t].born)
      BY <1>1, <2>2, <3>1 DEF TaskInv, TaskOnce
    <3> QED
      BY <2>2, <3>2 DEF TaskOnceIn
  <2> QED
    BY <1>1, <2>1, <2>2 DEF SavesReachTheirTask, Task!SavesReachTheirTask, TaskInv, TaskOwnSave
<1> QED
  BY <1>1, TaskTypedAlways, TaskInvAlways, PTL

\* The form is of the visit that is open and holds what was typed into it, with the
\* exceptions that FormOfVisit names.
THEOREM TaskFormHolds == Task!Spec => []FormOfVisit
<1>1. ASSUME TaskTyped, TaskKnown, TaskInv PROVE FormOfVisit
  BY <1>1 DEF FormOfVisit, Task!FormOfVisit, TaskInv, TaskFilled
<1> QED
  BY <1>1, TaskTypedAlways, TaskInvAlways, PTL

\* A new task shows a step only when the server has those before it, or refused the
\* third, whose answer the wizard does not look at.
THEOREM TaskStepsFollow == Task!Spec => []StepsInOrder
<1>1. ASSUME TaskTyped, TaskKnown, TaskInv PROVE StepsInOrder
  <2> SUFFICES ASSUME TaskPlain, NEW k \in 0 .. taskStep - 1
               PROVE  taskId # none /\ (k \in tasks[taskId].done \/ (k = 2 /\ taskHist.refused))
    BY DEF StepsInOrder, Task!StepsInOrder, TaskPlain
  <2>1. taskStep > 0
    BY <1>1, TaskScalars DEF Task!Steps
  <2> QED
    BY <1>1, <2>1 DEF TaskInv, TaskDone, TaskBefore
<1> QED
  BY <1>1, TaskTypedAlways, TaskInvAlways, PTL

-----------------------------------------------------------------------------
(* Numbers                                                                 *)

\* The values of s were typed before touch n.
TaskBelow(s, n) == s # <<>> => \A k \in 1 .. 4 : s[k] < n

\* Everything that was typed was typed before.
TaskCounted ==
    /\ 0 < touches /\ fields.value < touches
    /\ item.task # none => TaskBelow(item.parts, touches)
    /\ \A t \in Tasks : TaskBelow(tasks[t].parts, touches) /\ TaskBelow(rows[t], touches)
    /\ \A m \in saves : m.value < touches

LEMMA TaskTapsStep ==
    ASSUME TaskTyped, TaskSteps
    PROVE  /\ touches \in Nat /\ touches' \in Nat /\ touches <= touches'
           /\ \A s \in Task!Versions : TaskBelow(s, touches) => TaskBelow(s, touches')
<1>1. touches' = touches \/ touches' = touches + 1
  BY DEF TaskSteps, Task!CreateTask, Task!Leave, Task!Type, TaskSave, Task!Incomplete,
         Task!LoadPackages, Task!EditTask, Task!HandelSelectedStep,
         Task!Serve, Task!Deliver, Task!Fail, Task!Tapped
<1>2. touches \in Nat
  BY DEF TaskTyped
<1>3. ASSUME NEW s \in Task!Versions, TaskBelow(s, touches) PROVE TaskBelow(s, touches')
  BY <1>1, <1>2, <1>3, TaskVersionsShape DEF TaskBelow
<1> QED
  BY <1>1, <1>2, <1>3

\* Where the numbers of the next state come from.
LEMMA TaskCountedMeans ==
    ASSUME TaskTyped, TaskTyped', TaskKnown, TaskCounted, TaskSteps,
           \/ fields'.value < touches' \/ fields'.value = fields.value \/ fields'.value = 0
           \/ /\ item.task # none
              /\ \E k \in 1 .. 4 : fields'.value = item.parts[k],
           item' = item \/ (item'.task # none => TaskBelow(item'.parts, touches')),
           \A t \in Tasks : \/ tasks'[t].parts = tasks[t].parts
                            \/ TaskBelow(tasks'[t].parts, touches'),
           \A t \in Tasks : \/ rows'[t] = rows[t] \/ rows'[t] = tasks[t].parts
                            \/ TaskBelow(rows'[t], touches'),
           \A m \in saves' : m.value = fields.value \/ \E o \in saves : m.value = o.value
    PROVE  TaskCounted'
<1>1. /\ touches <= touches' /\ touches \in Nat /\ touches' \in Nat
      /\ \A s \in Task!Versions : TaskBelow(s, touches) => TaskBelow(s, touches')
  BY TaskTapsStep
<1>2. fields.value \in Nat /\ fields'.value \in Nat
  BY DEF TaskTyped, TaskForms
<1>3. item.task # none =>
          /\ item.parts \in Task!Versions /\ item.parts # <<>>
          /\ \A k \in 1 .. 4 : item.parts[k] \in Nat /\ item.parts[k] < touches
  BY TaskVersionsShape DEF TaskTyped, TaskItems, TaskKnown, TaskCounted, TaskBelow
<1>4. 0 < touches'
  BY <1>1 DEF TaskCounted
<1>5. fields'.value < touches'
  BY <1>1, <1>2, <1>3 DEF TaskCounted
<1>6. item'.task # none => TaskBelow(item'.parts, touches')
  BY <1>1, <1>3 DEF TaskCounted
<1>7. ASSUME NEW t \in Tasks
      PROVE  TaskBelow(tasks'[t].parts, touches') /\ TaskBelow(rows'[t], touches')
  <2>1. tasks[t].parts \in Task!Versions /\ rows[t] \in Task!Versions
    BY TaskServerParts
  <2>2. TaskBelow(tasks[t].parts, touches') /\ TaskBelow(rows[t], touches')
    BY <1>1, <2>1 DEF TaskCounted
  <2> QED
    BY <2>2
<1>8. ASSUME NEW m \in saves' PROVE m.value < touches'
  <2>1. \A o \in saves : o.value \in Nat /\ o.value < touches
    BY TaskMessage DEF TaskCounted
  <2>2. PICK w \in Nat : w = m.value /\ w < touches
    BY <1>2, <2>1 DEF TaskCounted
  <2> QED
    BY <1>1, <2>2
<1> QED
  BY <1>4, <1>5, <1>6, <1>7, <1>8 DEF TaskCounted

\* What a form is filled with.
LEMMA TaskMountedFill ==
    ASSUME NEW k \in Task!Steps, NEW n, NEW v, NEW w, w = Task!Mounted(k, item, n, v).value
    PROVE  w = 0 \/ (item.task # none /\ \E j \in 1 .. 4 : w = item.parts[j])
<1>1. k + 1 \in 1 .. 4
  BY DEF Task!Steps
<1>2. w = IF k = 1 \/ item.task = none THEN 0 ELSE item.parts[k + 1]
  BY TaskMountedFacts
<1> QED
  BY <1>1, <1>2

LEMMA TaskCountedEnter ==
    ASSUME TaskTyped, TaskTyped', TaskKnown, TaskCounted, TaskSteps,
           Task!CreateTask \/ \E t \in Tasks : Task!EditTask(t)
    PROVE  TaskCounted'
<1>1. UNCHANGED <<tasks, rows, saves>>
  BY DEF Task!CreateTask, Task!EditTask
<1>2. /\ touches <= touches' /\ touches \in Nat /\ touches' \in Nat
      /\ \A s \in Task!Versions : TaskBelow(s, touches) => TaskBelow(s, touches')
  BY TaskTapsStep
<1>3. CASE Task!CreateTask
  <2>1. item'.task = none
    BY <1>3 DEF Task!CreateTask, Task!Enter, Task!NoItem
  <2>2. fields' = fields \/ fields'.value = 0
    BY <1>3, TaskMountedFacts DEF Task!CreateTask, Task!Enter, Task!NoItem
  <2> QED
    BY <1>1, <2>1, <2>2, TaskCountedMeans
<1>4. ASSUME NEW t \in Tasks, Task!EditTask(t) PROVE TaskCounted'
  <2>1. item'.parts = rows[t] /\ rows[t] \in Task!Versions /\ rows[t] # <<>>
    BY <1>4, TaskServerParts DEF Task!EditTask, Task!Enter
  <2>2. TaskBelow(rows[t], touches')
    BY <1>2, <2>1 DEF TaskCounted
  <2>3. fields'.value < touches'
    <3> DEFINE i == [task |-> t, parts |-> rows[t]]
    <3>1. i.task = t /\ i.parts = rows[t] /\ t # none
      BY TaskAssumption DEF Task!ConstantsAssumption
    <3>2. fields' = Task!Mounted(0, i, touches, entry + 1)
      BY <1>4 DEF Task!EditTask, Task!Enter
    <3> HIDE DEF i
    <3>3. fields'.value = rows[t][1]
      BY <3>1, <3>2, TaskMountedFacts
    <3> QED
      BY <2>1, <2>2, <3>3 DEF TaskBelow
  <2> QED
    BY <1>1, <2>1, <2>2, <2>3, TaskCountedMeans
<1> QED
  BY <1>3, <1>4

LEMMA TaskCountedUser ==
    ASSUME TaskTyped, TaskTyped', TaskKnown, TaskCounted, TaskSteps,
           \/ Task!Leave \/ Task!Type \/ TaskSave \/ Task!Incomplete \/ Task!LoadPackages
           \/ \E k \in Task!Steps : Task!HandelSelectedStep(k)
    PROVE  TaskCounted'
<1>1. fields \in TaskForms
  BY DEF TaskTyped
<1>2. CASE Task!Leave
  <2>1. UNCHANGED <<tasks, item, fields, saves>>
    BY <1>2 DEF Task!Leave
  <2>2. \A t \in Tasks : rows'[t] = rows[t] \/ rows'[t] = tasks[t].parts
    BY <1>2 DEF Task!Leave, Task!Listed
  <2> QED
    BY <2>1, <2>2, TaskCountedMeans
<1>3. CASE Task!Type
  <2>1. tasks' = tasks /\ saves' = saves /\ touches' = touches + 1 /\ touches \in Nat
    BY <1>3, TaskScalars DEF Task!Type, Task!Tapped
  <2>2. fields'.value < touches'
    BY <1>1, <1>3, <2>1 DEF Task!Type, TaskForms
  <2>3. CASE Task!InPlace
    <3>1. /\ item'.parts[taskStep + 1] = touches /\ taskStep + 1 \in 1 .. 4 /\ item.task \in Tasks
          /\ \A j \in 1 .. 4 : j # taskStep + 1 => item'.parts[j] = item.parts[j]
          /\ \A t \in Tasks : t # item.task => rows'[t] = rows[t]
          /\ \A k \in 1 .. 4 : rows'[item.task][k] \in {rows[item.task][k], touches}
      BY <1>3, <2>3, TaskInPlaceFacts
    <3>2. /\ item.task # none /\ item.parts # <<>> /\ item.parts \in Task!Versions
          /\ rows[item.task] # <<>> /\ rows[item.task] \in Task!Versions
      BY <2>3, <3>1, TaskServerParts DEF Task!InPlace, TaskKnown, TaskTyped, TaskItems
    <3>3. \A k \in 1 .. 4 : /\ item.parts[k] \in Nat /\ item.parts[k] < touches
                            /\ rows[item.task][k] \in Nat /\ rows[item.task][k] < touches
      BY <3>1, <3>2, TaskVersionsShape DEF TaskCounted, TaskBelow
    <3>4. \A k \in 1 .. 4 : item'.parts[k] < touches' /\ rows'[item.task][k] < touches'
      BY <2>1, <3>1, <3>3
    <3>5. TaskBelow(item'.parts, touches') /\ TaskBelow(rows'[item.task], touches')
      BY <3>4 DEF TaskBelow
    <3> QED
      BY <2>1, <2>2, <3>1, <3>5, TaskCountedMeans
  <2>4. CASE ~Task!InPlace
    <3>1. UNCHANGED <<item, rows>>
      BY <1>3, <2>4 DEF Task!Type
    <3> QED
      BY <2>1, <2>2, <3>1, TaskCountedMeans
  <2> QED
    BY <2>3, <2>4
<1>4. CASE TaskSave
  <2>1. saves' = saves \union {TaskSent} /\ TaskSent.value = fields.value
    BY <1>4, TaskSaveLate, TaskSentFacts
  <2>2. UNCHANGED <<tasks, rows, item>> /\ fields'.value = fields.value
    BY <1>1, <1>4 DEF TaskSave, TaskForms
  <2> QED
    BY <2>1, <2>2, TaskCountedMeans
<1>5. CASE Task!Incomplete
  <2>1. UNCHANGED <<tasks, rows, item, saves>> /\ fields'.value = fields.value
    BY <1>1, <1>5 DEF Task!Incomplete, TaskForms
  <2> QED
    BY <2>1, TaskCountedMeans
<1>6. CASE Task!LoadPackages
  <2>1. UNCHANGED <<tasks, rows, item, saves>>
    BY <1>6 DEF Task!LoadPackages
  <2>2. fields'.value = fields.value \/ (item.task # none /\ fields'.value = item.parts[2])
    BY <1>1, <1>6 DEF Task!LoadPackages, TaskForms
  <2> QED
    BY <2>1, <2>2, TaskCountedMeans
<1>7. ASSUME NEW k \in Task!Steps, Task!HandelSelectedStep(k) PROVE TaskCounted'
  <2>1. UNCHANGED <<tasks, rows, item, saves>> /\ fields' = Task!Mounted(k, item, touches, entry)
    BY <1>7 DEF Task!HandelSelectedStep, Task!Goto
  <2>2. fields'.value = 0 \/ (item.task # none /\ \E j \in 1 .. 4 : fields'.value = item.parts[j])
    BY <2>1, TaskMountedFill
  <2> QED
    BY <2>1, <2>2, TaskCountedMeans
<1> QED
  BY <1>2, <1>3, <1>4, <1>5, <1>6, <1>7

LEMMA TaskCountedAnswer ==
    ASSUME TaskTyped, TaskTyped', TaskKnown, TaskCounted, TaskSteps,
           NEW m \in saves, Task!Deliver(m) \/ Task!Fail(m)
    PROVE  TaskCounted'
<1>1. saves' \subseteq saves /\ UNCHANGED <<tasks, item>>
  BY DEF Task!Deliver, Task!Fail
<1>2. \A t \in Tasks : rows'[t] = rows[t] \/ rows'[t] = tasks[t].parts
  BY DEF Task!Deliver, Task!Fail, Task!MoveOn, Task!Finish, Task!Complain, Task!Listed
<1>3. \/ fields' = Task!Settled(m)
      \/ Task!MoveOn(m) /\ fields' = Task!Mounted(Task!StepAfter(m), item, m.n, entry)
  BY DEF Task!Deliver, Task!Fail, Task!MoveOn, Task!Finish, Task!Complain
<1>4. \/ fields'.value = fields.value
      \/ fields'.value = 0
      \/ (item.task # none /\ \E j \in 1 .. 4 : fields'.value = item.parts[j])
  <2>1. CASE fields' = Task!Settled(m)
    BY <2>1, TaskSettledFacts
  <2>2. CASE Task!MoveOn(m) /\ fields' = Task!Mounted(Task!StepAfter(m), item, m.n, entry)
    <3>1. Task!StepAfter(m) \in Task!Steps
      BY <2>2, TaskMessage DEF Task!MoveOn, Task!MovesOn, Task!StepAfter, Task!Steps
    <3> QED
      BY <2>2, <3>1, TaskMountedFill
  <2> QED
    BY <1>3, <2>1, <2>2
<1> QED
  BY <1>1, <1>2, <1>4, TaskCountedMeans

LEMMA TaskCountedServed ==
    ASSUME TaskTyped, TaskTyped', TaskKnown, TaskCounted, TaskSteps,
           NEW m \in saves, TaskServed(m)
    PROVE  TaskCounted'
<1>1. UNCHANGED <<rows, item, fields, touches>> /\ touches \in Nat
  BY TaskServedFacts, TaskScalars
<1>2. \A o \in saves' : \E w \in saves : o.value = w.value
  BY TaskServedFacts
<1>3. m.value \in Nat /\ m.value < touches /\ 0 < touches
  BY TaskMessage DEF TaskCounted
<1>4. ASSUME NEW u \in Tasks
      PROVE  tasks'[u].parts = tasks[u].parts \/ TaskBelow(tasks'[u].parts, touches')
  <2>1. CASE TaskRefused(m)
    BY <2>1 DEF TaskRefused
  <2>2. CASE TaskUpdated(m)
    <3>1. CASE u = m.asked
      <4>1. /\ tasks'[u].parts[m.step + 1] = m.value
            /\ \A k \in Task!Steps : k # m.step =>
                  tasks'[u].parts[k + 1] = tasks[u].parts[k + 1]
            /\ tasks[u].parts # <<>>
        BY <2>2, <3>1, TaskUpdatedFacts
      <4>2. ASSUME NEW j \in 1 .. 4 PROVE tasks'[u].parts[j] < touches
        <5>1. j - 1 \in Task!Steps /\ (j - 1) + 1 = j /\ m.step \in Task!Steps
          BY TaskMessage DEF Task!Steps
        <5>2. tasks[u].parts[j] < touches
          BY <4>1 DEF TaskCounted, TaskBelow
        <5> QED
          BY <1>3, <4>1, <5>1, <5>2
      <4> QED
        BY <1>1, <4>2 DEF TaskBelow
    <3>2. CASE u # m.asked
      BY <2>2, <3>2, TaskUpdatedFacts
    <3> QED
      BY <3>1, <3>2
  <2>3. ASSUME NEW t \in Tasks, TaskCreated(m, t)
        PROVE  tasks'[u].parts = tasks[u].parts \/ TaskBelow(tasks'[u].parts, touches')
    <3>1. CASE u = t
      <4>1. tasks'[u].parts[1] = m.value /\ \A k \in 1 .. 3 : tasks'[u].parts[k + 1] = 0
        BY <2>3, <3>1, TaskCreatedFacts
      <4>2. ASSUME NEW j \in 1 .. 4 PROVE tasks'[u].parts[j] < touches
        <5>1. j = 1 \/ (j - 1 \in 1 .. 3 /\ (j - 1) + 1 = j)
          OBVIOUS
        <5> QED
          BY <1>3, <4>1, <5>1
      <4> QED
        BY <1>1, <4>2 DEF TaskBelow
    <3>2. CASE u # t
      BY <2>3, <3>2, TaskCreatedFacts
    <3> QED
      BY <3>1, <3>2
  <2> QED
    BY <2>1, <2>2, <2>3 DEF TaskServed
<1> QED
  BY <1>1, <1>2, <1>4, TaskCountedMeans

LEMMA TaskCountedStep ==
    ASSUME TaskTyped, TaskTyped', TaskKnown, TaskCounted, TaskSteps PROVE TaskCounted'
<1>1. ASSUME NEW m \in saves, Task!Serve(m) PROVE TaskServed(m)
  BY <1>1, TaskServeIs DEF TaskServed, TaskUntouched
<1> QED
  BY <1>1, TaskCountedEnter, TaskCountedUser, TaskCountedAnswer, TaskCountedServed
  DEF TaskSteps

-----------------------------------------------------------------------------
(* A task that has just been created                                       *)

\* The create of the visit that is open was answered, but not yet delivered.
TaskFresh(m) == m.visit = entry /\ m.asked = none /\ m.stage = "ok"

\* Until the answer of this visit's create is there, nothing speaks of its task.
TaskApart ==
    /\ \A m, o \in saves :
          m.asked = none /\ o.asked = none /\ m.stage = "ok" /\ o.stage = "ok" /\ m.id = o.id
          => m = o
    /\ \A m \in saves : TaskFresh(m) =>
          /\ taskId # m.id
          /\ \A o \in saves : o.asked # m.id
          /\ \A k \in 1 .. 3 : tasks[m.id].parts[k + 1] = 0

LEMMA TaskApartCalm == ASSUME TaskApart, TaskCalm PROVE TaskApart'
BY DEF TaskApart, TaskFresh, TaskCalm

LEMMA TaskApartSent ==
    ASSUME TaskTyped, TaskApart, TaskSave PROVE TaskApart'
<1> PICK s : s = TaskSent
  OBVIOUS
<1>1. saves' = saves \union {s} /\ UNCHANGED <<tasks, taskId, entry>>
  BY TaskSaveLate
<1>2. s.stage = "sent" /\ s.asked = taskId
  BY TaskSentFacts
<1> QED
  BY <1>1, <1>2 DEF TaskApart, TaskFresh

LEMMA TaskApartEntered ==
    ASSUME TaskTyped, TaskDated, TaskApart, TaskEntered PROVE TaskApart'
<1>1. saves' = saves /\ \A m \in saves : m.visit # entry'
  BY TaskMessage, TaskScalars DEF TaskDated, TaskDatedSave, TaskEntered
<1> QED
  BY <1>1 DEF TaskApart, TaskFresh

LEMMA TaskApartMoved ==
    ASSUME TaskTyped, TaskKnown, TaskApart, NEW m \in saves, TaskMoved(m) PROVE TaskApart'
<1>1. /\ saves' = saves \ {m} /\ UNCHANGED <<tasks, entry>>
      /\ taskId' = IF m.step = 0 THEN m.id ELSE taskId
      /\ m.step = 0 => m.stage = "ok"
      /\ m.asked # none => m.id = m.asked
  BY DEF TaskMoved, TaskKnown
<1>2. ASSUME NEW o \in saves', TaskFresh(o) PROVE taskId' # o.id
  <2>1. o \in saves /\ o # m
    BY <1>1
  <2>2. taskId # o.id /\ m.asked # o.id
    BY <1>2, <2>1 DEF TaskApart
  <2>3. m.step = 0 /\ m.asked = none => m.id # o.id
    BY <1>1, <1>2, <2>1 DEF TaskApart, TaskFresh
  <2> QED
    BY <1>1, <2>2, <2>3
<1>3. \A o \in saves' : o \in saves /\ (TaskFresh(o)' <=> TaskFresh(o))
  BY <1>1 DEF TaskFresh
<1> QED
  BY <1>1, <1>2, <1>3 DEF TaskApart

LEMMA TaskApartServed ==
    ASSUME TaskTyped, TaskKnown, TaskApart, NEW m \in saves, TaskServed(m) PROVE TaskApart'
<1>1. UNCHANGED <<taskId, entry>> /\ m.stage = "sent"
  BY TaskServedFacts DEF TaskServed
<1>2. \A o : TaskFresh(o)' <=> TaskFresh(o)
  BY <1>1 DEF TaskFresh
<1>3. CASE \E t \in Tasks : TaskCreated(m, t)
  <2> PICK t \in Tasks : TaskCreated(m, t)
    BY <1>3
  <2> DEFINE b == TaskReplied(m, "ok", t)
  <2>1. saves' = (saves \ {m}) \union {b} /\ m.asked = none /\ t \in Task!Ids /\ ~TaskLive(t)
    BY TaskAssumption DEF TaskCreated, Task!Ids, TaskLive, Task!ConstantsAssumption
  <2>2. b.stage = "ok" /\ b.asked = none /\ b.id = t
    BY <2>1, TaskRepliedFacts
  <2>3. /\ \A u \in Tasks : u # t => tasks'[u] = tasks[u]
        /\ \A k \in 1 .. 3 : tasks'[t].parts[k + 1] = 0
    BY TaskCreatedFacts
  <2> HIDE DEF b
  <2>4. \A o \in saves : o.id # t /\ o.asked # t
    BY <2>1 DEF TaskKnown
  <2>5. taskId # t
    BY <2>1 DEF TaskKnown
  <2>6. \A o, w \in saves' : o.asked = none /\ w.asked = none /\ o.stage = "ok"
                             /\ w.stage = "ok" /\ o.id = w.id => o = w
    BY <2>1, <2>2, <2>4 DEF TaskApart
  <2>7. ASSUME NEW o \in saves', TaskFresh(o)
        PROVE  /\ taskId # o.id
               /\ \A w \in saves' : w.asked # o.id
               /\ \A k \in 1 .. 3 : tasks'[o.id].parts[k + 1] = 0
    <3>1. CASE o = b
      <4>1. t # none
        BY TaskAssumption DEF Task!ConstantsAssumption
      <4> QED
        BY <2>1, <2>2, <2>3, <2>4, <2>5, <3>1, <4>1
    <3>2. CASE o \in saves
      <4>1. /\ taskId # o.id
            /\ \A w \in saves : w.asked # o.id
            /\ \A k \in 1 .. 3 : tasks[o.id].parts[k + 1] = 0
        BY <2>7, <3>2 DEF TaskApart
      <4>2. o.id \in Tasks /\ o.id # t
        BY <2>4, <2>7, <3>2, TaskMessage DEF TaskKnown, TaskFresh, Task!Ids
      <4>3. b.asked # o.id
        BY <2>2, <4>2, TaskAssumption DEF Task!ConstantsAssumption
      <4> QED
        BY <2>1, <2>3, <4>1, <4>2, <4>3
    <3> QED
      BY <2>1, <3>1, <3>2
  <2> QED
    BY <1>1, <1>2, <2>6, <2>7 DEF TaskApart
<1>4. CASE TaskUpdated(m) \/ TaskRefused(m)
  <2>1. PICK b : /\ saves' = (saves \ {m}) \union {b} /\ b.asked = m.asked
                 /\ b.asked = none => b.stage = "error"
    <3>1. CASE TaskUpdated(m)
      <4>1. m.asked \in Task!Ids /\ m.asked # none
            /\ saves' = (saves \ {m}) \union {TaskReplied(m, "ok", m.asked)}
        BY <3>1, TaskMessage DEF TaskUpdated
      <4>2. TaskReplied(m, "ok", m.asked).asked = m.asked
        BY <4>1, TaskRepliedFacts
      <4> QED
        BY <4>1, <4>2
    <3>2. CASE TaskRefused(m)
      <4>1. m.id \in Task!Ids /\ saves' = (saves \ {m}) \union {TaskReplied(m, "error", m.id)}
        BY <3>2, TaskMessage DEF TaskRefused
      <4>2. /\ TaskReplied(m, "error", m.id).asked = m.asked
            /\ TaskReplied(m, "error", m.id).stage = "error"
        BY <4>1, TaskRepliedFacts
      <4> QED
        BY <4>1, <4>2
    <3> QED
      BY <1>4, <3>1, <3>2
  <2>2. \A o \in saves' : o.asked = none /\ o.stage = "ok" => o \in saves
    BY <2>1
  <2>3. \A o \in saves' : \E w \in saves : w.asked = o.asked
    BY <2>1
  <2>4. ASSUME NEW o \in saves', TaskFresh(o)
        PROVE  /\ taskId # o.id
               /\ \A w \in saves' : w.asked # o.id
               /\ \A k \in 1 .. 3 : tasks'[o.id].parts[k + 1] = 0
    <3>1. o \in saves
      BY <2>2, <2>4 DEF TaskFresh
    <3>2. /\ taskId # o.id
          /\ \A w \in saves : w.asked # o.id
          /\ \A k \in 1 .. 3 : tasks[o.id].parts[k + 1] = 0
      BY <2>4, <3>1 DEF TaskApart
    <3>3. o.id \in Tasks
      BY <2>4, <3>1, TaskMessage DEF TaskKnown, TaskFresh, Task!Ids
    <3>4. tasks'[o.id] = tasks[o.id]
      BY <1>4, <3>2, <3>3, TaskUpdatedFacts DEF TaskRefused
    <3> QED
      BY <2>3, <3>2, <3>4
  <2>5. \A o, w \in saves' : o.asked = none /\ w.asked = none /\ o.stage = "ok"
                             /\ w.stage = "ok" /\ o.id = w.id => o = w
    BY <2>2 DEF TaskApart
  <2> QED
    BY <1>1, <1>2, <2>4, <2>5 DEF TaskApart
<1> QED
  BY <1>3, <1>4 DEF TaskServed

LEMMA TaskApartStep ==
    ASSUME TaskTyped, TaskKnown, TaskDated, TaskApart, TaskShape PROVE TaskApart'
BY TaskApartCalm, TaskApartSent, TaskApartEntered, TaskApartMoved, TaskApartServed
DEF TaskShape, TaskDropped

-----------------------------------------------------------------------------
(* Newer values over older ones                                            *)

\* Neither a step shown again, nor an old item, nor two saves that overtake each
\* other, nor an answer of another visit.
TaskClean == ~(taskHist.returned \/ taskHist.old \/ taskHist.twice \/ taskHist.late)

\* v is no older than what the server has of step k of task t, or is sent.
TaskNewest(t, k, v) ==
    /\ tasks[t].parts[k + 1] <= v
    /\ \A m \in saves : m.stage = "sent" /\ m.asked = t /\ m.step = k => m.value <= v

\* Saves of one step of one task do not overtake each other.
TaskOrdered ==
    /\ \A m, o \in saves :
          /\ m.stage = "sent" /\ o.stage = "sent"
          /\ m.asked = o.asked /\ m.step = o.step /\ m.asked # none
          => m = o
    /\ \A m \in saves : m.stage = "sent" /\ m.asked # none =>
          tasks[m.asked].parts[m.step + 1] <= m.value

\* What the form holds can be saved, once it is filled.
TaskFormNewest ==
    taskId # none /\ (item.task # none /\ taskStep = 1 => fields.packages = "yes") =>
        TaskNewest(taskId, taskStep, fields.value)

\* A step of the item that is edited can be shown, if it was not saved or is
\* edited in place.
TaskItemNewest ==
    item.task # none =>
        /\ \A k \in Task!Steps : k \notin taskHist.saved \/ k \in {2, 3} =>
              TaskNewest(item.task, k, item.parts[k + 1])
        /\ taskStep \in {2, 3} => fields.value = item.parts[taskStep + 1]
        /\ taskStep = 1 /\ fields.packages = "asked" => 1 \notin taskHist.saved

\* A step of a new task that was not saved is blank on the server too.
TaskBlankNewest ==
    item.task = none /\ taskId # none =>
        \A k \in 1 .. 3 : k \notin taskHist.saved => TaskNewest(taskId, k, 0)

\* Whatever can be saved is no older than what the server has.
TaskCurrent ==
    TaskClean => TaskOrdered /\ TaskFormNewest /\ TaskItemNewest /\ TaskBlankNewest

LEMMA TaskCleanBefore ==
    ASSUME TaskTyped, TaskClean',
           \/ Task!Leave \/ Task!Type \/ TaskSave \/ Task!Incomplete \/ Task!LoadPackages
           \/ \E k \in Task!Steps : Task!HandelSelectedStep(k)
           \/ \E m \in saves : Task!Serve(m) \/ Task!Deliver(m) \/ Task!Fail(m)
    PROVE  TaskClean
<1>1. taskHist \in TaskHistory
  BY DEF TaskTyped
<1>2. CASE Task!Leave \/ Task!Incomplete \/ Task!LoadPackages
  BY <1>2 DEF Task!Leave, Task!Incomplete, Task!LoadPackages, TaskClean
<1>3. CASE Task!Type
  BY <1>1, <1>3 DEF Task!Type, TaskHistory, TaskClean
<1>4. CASE TaskSave
  <2>1. /\ taskHist'.late = taskHist.late /\ taskHist'.old = taskHist.old
        /\ taskHist'.returned = taskHist.returned
        /\ (taskHist.twice => taskHist'.twice)
    BY <1>4, TaskSendFacts DEF TaskSave
  <2> QED
    BY <2>1 DEF TaskClean
<1>5. CASE \E k \in Task!Steps : Task!HandelSelectedStep(k)
  BY <1>1, <1>5 DEF Task!HandelSelectedStep, TaskHistory, TaskClean
<1>6. ASSUME NEW m \in saves, Task!Serve(m) PROVE TaskClean
  BY <1>1, <1>6, TaskServeIs
  DEF TaskCreated, TaskUpdated, TaskRefused, TaskHistory, TaskClean
<1>7. ASSUME NEW m \in saves, Task!Deliver(m) PROVE TaskClean
  BY <1>1, <1>7 DEF Task!Deliver, Task!MoveOn, Task!Finish, Task!Complain, TaskHistory, TaskClean
<1>8. ASSUME NEW m \in saves, Task!Fail(m) PROVE TaskClean
  BY <1>1, <1>8 DEF Task!Fail, TaskHistory, TaskClean
<1> QED
  BY <1>2, <1>3, <1>4, <1>5, <1>6, <1>7, <1>8

LEMMA TaskNewestLess ==
    ASSUME UNCHANGED tasks, saves' \subseteq saves, NEW t, NEW k, NEW v, TaskNewest(t, k, v)
    PROVE  TaskNewest(t, k, v)'
BY DEF TaskNewest

LEMMA TaskOrderedLess ==
    ASSUME UNCHANGED tasks, saves' \subseteq saves, TaskOrdered PROVE TaskOrdered'
BY DEF TaskOrdered

LEMMA TaskNewestServed ==
    ASSUME TaskTyped, TaskKnown, NEW m \in saves, TaskServed(m),
           NEW t \in Tasks, TaskLive(t), NEW k \in Task!Steps, NEW v, TaskNewest(t, k, v)
    PROVE  TaskNewest(t, k, v)'
<1>1. t # none /\ tasks[t].parts # <<>>
  BY TaskAssumption DEF Task!ConstantsAssumption, TaskLive
<1>2. \A o \in saves' : o.stage = "sent" => o \in saves
  BY TaskServedFacts
<1>3. tasks'[t].parts[k + 1] <= v
  <2>1. CASE TaskRefused(m)
    BY <2>1 DEF TaskRefused, TaskNewest
  <2>2. CASE TaskUpdated(m)
    <3>1. CASE t = m.asked /\ k = m.step
      <4>1. m.value <= v
        BY <3>1 DEF TaskNewest, TaskServed
      <4>2. tasks'[m.asked].parts[m.step + 1] = m.value
        BY <2>2, TaskUpdatedFacts
      <4> QED
        BY <3>1, <4>1, <4>2
    <3>2. CASE ~(t = m.asked /\ k = m.step)
      <4>1. tasks'[t].parts[k + 1] = tasks[t].parts[k + 1]
        BY <2>2, <3>2, TaskUpdatedFacts
      <4> QED
        BY <4>1 DEF TaskNewest
    <3> QED
      BY <3>1, <3>2
  <2>3. CASE \E u \in Tasks : TaskCreated(m, u)
    <3> PICK u \in Tasks : TaskCreated(m, u)
      BY <2>3
    <3>1. t # u
      BY <1>1 DEF TaskCreated
    <3>2. tasks'[t] = tasks[t]
      BY <3>1, TaskCreatedFacts
    <3> QED
      BY <3>2 DEF TaskNewest
  <2> QED
    BY <2>1, <2>2, <2>3 DEF TaskServed
<1> QED
  BY <1>2, <1>3 DEF TaskNewest

LEMMA TaskOrderedServed ==
    ASSUME TaskTyped, TaskKnown, NEW m \in saves, TaskServed(m), TaskOrdered
    PROVE  TaskOrdered'
<1>1. \A o \in saves' : o.stage = "sent" => o \in saves /\ o # m
  <2>1. PICK a \in Task!Message : saves' = (saves \ {m}) \union {a} /\ a.stage # "sent"
    BY TaskServedFacts
  <2> QED
    BY <2>1
<1>2. ASSUME NEW o \in saves', o.stage = "sent", o.asked # none
      PROVE  tasks'[o.asked].parts[o.step + 1] <= o.value
  <2>1. o \in saves /\ o # m /\ o.asked \in Tasks /\ o.step \in Task!Steps
    BY <1>1, <1>2, TaskMessage DEF Task!Ids
  <2>2. TaskLive(o.asked)
    BY <2>1 DEF TaskKnown
  <2>3. tasks[o.asked].parts[o.step + 1] <= o.value
    BY <1>2, <2>1 DEF TaskOrdered
  <2>4. CASE TaskUpdated(m)
    <3>1. ~(m.asked = o.asked /\ m.step = o.step)
      BY <1>2, <2>1, <2>4 DEF TaskOrdered, TaskUpdated, TaskServed
    <3>2. tasks'[o.asked].parts[o.step + 1] = tasks[o.asked].parts[o.step + 1]
      BY <2>1, <2>4, <3>1, TaskUpdatedFacts
    <3> QED
      BY <2>3, <3>2
  <2>5. CASE TaskRefused(m)
    BY <2>3, <2>5 DEF TaskRefused
  <2>6. CASE \E u \in Tasks : TaskCreated(m, u)
    <3> PICK u \in Tasks : TaskCreated(m, u)
      BY <2>6
    <3>1. o.asked # u
      BY <1>2, <2>2 DEF TaskCreated, TaskLive
    <3>2. tasks'[o.asked] = tasks[o.asked]
      BY <2>1, <3>1, TaskCreatedFacts
    <3> QED
      BY <2>3, <3>2
  <2> QED
    BY <2>4, <2>5, <2>6 DEF TaskServed
<1> QED
  BY <1>1, <1>2 DEF TaskOrdered

\* Steps that leave the form, the item and the server as they are.
LEMMA TaskCurrentHeld ==
    ASSUME TaskOrdered, TaskFormNewest, TaskItemNewest, TaskBlankNewest,
           UNCHANGED <<tasks, item, taskId, taskStep>>, saves' \subseteq saves,
           fields'.value = fields.value, fields'.packages = fields.packages,
           taskHist'.saved = taskHist.saved
    PROVE  TaskOrdered' /\ TaskFormNewest' /\ TaskItemNewest' /\ TaskBlankNewest'
<1>1. \A t, k, v : TaskNewest(t, k, v) => TaskNewest(t, k, v)'
  BY TaskNewestLess
<1>2. TaskFormNewest'
  <2> SUFFICES ASSUME taskId # none, item.task # none /\ taskStep = 1 => fields.packages = "yes"
               PROVE  TaskNewest(taskId, taskStep, fields.value)'
    BY DEF TaskFormNewest
  <2>1. TaskNewest(taskId, taskStep, fields.value)
    BY DEF TaskFormNewest
  <2> QED
    BY <2>1 DEF TaskNewest
<1>3. TaskItemNewest'
  BY DEF TaskItemNewest, TaskNewest
<1>4. TaskBlankNewest'
  BY DEF TaskBlankNewest, TaskNewest
<1> QED
  BY <1>2, <1>3, <1>4, TaskOrderedLess

LEMMA TaskCurrentQuiet ==
    ASSUME TaskTyped, TaskCurrent, TaskClean',
           \/ Task!Leave \/ Task!Incomplete
           \/ \E m \in saves : TaskSettles(m) /\ saves' = saves \ {m}
                               /\ UNCHANGED <<tasks, item, entry, touches>>
           \/ \E m \in saves : Task!Fail(m)
           \/ \E m \in saves : Task!Deliver(m) /\ TaskMoved(m) /\ Task!StepAfter(m) = taskStep
                               /\ taskId' = taskId,
           TaskClean
    PROVE  TaskOrdered' /\ TaskFormNewest' /\ TaskItemNewest' /\ TaskBlankNewest'
<1>1. TaskOrdered /\ TaskFormNewest /\ TaskItemNewest /\ TaskBlankNewest
  BY DEF TaskCurrent
<1>2. taskHist \in TaskHistory /\ fields \in TaskForms
  BY DEF TaskTyped
<1>3. CASE Task!Leave
  BY <1>1, <1>3, TaskCurrentHeld DEF Task!Leave
<1>4. CASE Task!Incomplete
  <2>1. fields'.value = fields.value /\ fields'.packages = fields.packages
    BY <1>2, <1>4 DEF Task!Incomplete, TaskForms
  <2> QED
    BY <1>1, <1>4, <2>1, TaskCurrentHeld DEF Task!Incomplete
<1>5. ASSUME NEW m \in saves, TaskSettles(m), saves' = saves \ {m},
             UNCHANGED <<tasks, item, entry, touches>>
      PROVE  TaskOrdered' /\ TaskFormNewest' /\ TaskItemNewest' /\ TaskBlankNewest'
  <2>1. fields' = Task!Settled(m) /\ UNCHANGED <<taskStep, taskId, taskHist>>
    BY <1>5 DEF TaskSettles, Task!Finish, Task!Complain
  <2>2. fields'.value = fields.value /\ fields'.packages = fields.packages
    BY <2>1, TaskSettledFacts
  <2> QED
    BY <1>1, <1>5, <2>1, <2>2, TaskCurrentHeld
<1>6. ASSUME NEW m \in saves, Task!Fail(m)
      PROVE  TaskOrdered' /\ TaskFormNewest' /\ TaskItemNewest' /\ TaskBlankNewest'
  <2>1. /\ fields' = Task!Settled(m) /\ UNCHANGED <<tasks, item, taskStep, taskId>>
        /\ saves' \subseteq saves
    BY <1>6 DEF Task!Fail
  <2>2. fields'.value = fields.value /\ fields'.packages = fields.packages
    BY <2>1, TaskSettledFacts
  <2>3. taskHist'.saved = taskHist.saved
    BY <1>2, <1>6 DEF Task!Fail, TaskHistory
  <2> QED
    BY <1>1, <2>1, <2>2, <2>3, TaskCurrentHeld
<1>7. ASSUME NEW m \in saves, Task!Deliver(m), TaskMoved(m),
             Task!StepAfter(m) = taskStep, taskId' = taskId
      PROVE  TaskOrdered' /\ TaskFormNewest' /\ TaskItemNewest' /\ TaskBlankNewest'
  <2>1. /\ fields' = Task!Settled(m) /\ UNCHANGED <<tasks, item, taskStep, taskId>>
        /\ saves' \subseteq saves
    BY <1>7 DEF Task!Deliver, Task!MoveOn, Task!Finish, Task!Complain, TaskMoved, Task!StepAfter
  <2>2. fields'.value = fields.value /\ fields'.packages = fields.packages
    BY <2>1, TaskSettledFacts
  <2>3. taskHist'.saved = taskHist.saved
    BY <1>2, <1>7 DEF Task!Deliver, Task!MoveOn, Task!Finish, Task!Complain, TaskHistory
  <2> QED
    BY <1>1, <2>1, <2>2, <2>3, TaskCurrentHeld
<1> QED
  BY <1>3, <1>4, <1>5, <1>6, <1>7

LEMMA TaskNewestCounted ==
    ASSUME TaskTyped, TaskKnown, TaskCounted, NEW t \in Tasks, TaskLive(t), NEW k \in Task!Steps
    PROVE  TaskNewest(t, k, touches)
<1>1. tasks[t].parts # <<>> /\ k + 1 \in 1 .. 4
  BY TaskAssumption DEF Task!ConstantsAssumption, TaskLive, Task!Steps
<1>2. tasks[t].parts[k + 1] \in Nat /\ tasks[t].parts[k + 1] < touches /\ touches \in Nat
  BY <1>1, TaskServerParts, TaskVersionsShape, TaskScalars DEF TaskCounted, TaskBelow
<1>3. ASSUME NEW m \in saves PROVE m.value <= touches
  BY <1>2, TaskMessage DEF TaskCounted
<1> QED
  BY <1>2, <1>3 DEF TaskNewest

LEMMA TaskCurrentType ==
    ASSUME TaskTyped, TaskKnown, TaskOwned, TaskCounted, TaskCurrent, TaskClean, Task!Type
    PROVE  TaskOrdered' /\ TaskFormNewest' /\ TaskItemNewest' /\ TaskBlankNewest'
<1>1. TaskOrdered /\ TaskItemNewest /\ TaskBlankNewest
  BY DEF TaskCurrent
<1>2. /\ taskHist'.saved = taskHist.saved
      /\ fields'.value = touches /\ fields'.packages = fields.packages
  BY DEF Task!Type, TaskTyped, TaskHistory, TaskForms
<1>3. UNCHANGED <<tasks, taskStep, taskId, saves>>
  BY DEF Task!Type
<1>4. \A t, k, v : TaskNewest(t, k, v) => TaskNewest(t, k, v)'
  BY <1>3 DEF TaskNewest
<1>5. TaskOrdered'
  BY <1>1, <1>3 DEF TaskOrdered
<1>6. ASSUME taskId # none PROVE TaskNewest(taskId, taskStep, touches)
  BY <1>6, TaskNewestCounted, TaskScalars DEF TaskKnown, Task!Ids
<1>7. TaskFormNewest'
  BY <1>2, <1>3, <1>6 DEF TaskFormNewest, TaskNewest
<1>8. CASE Task!InPlace
  <2>1. /\ item.task \in Tasks /\ taskStep + 1 \in 1 .. 4
        /\ item'.task = item.task
        /\ item'.parts[taskStep + 1] = touches
        /\ \A j \in 1 .. 4 : j # taskStep + 1 => item'.parts[j] = item.parts[j]
    BY <1>8, TaskInPlaceFacts
  <2>2. taskStep \in {2, 3} /\ item.task # none /\ taskId = item.task
    BY <1>8 DEF Task!InPlace, TaskOwned, TaskClean
  <2>3. ASSUME NEW k \in Task!Steps, k \notin taskHist.saved \/ k \in {2, 3}
        PROVE  TaskNewest(item.task, k, item'.parts[k + 1])
    <3>1. CASE k = taskStep
      BY <1>6, <2>1, <2>2, <3>1
    <3>2. CASE k # taskStep
      <4>1. k + 1 \in 1 .. 4 /\ k + 1 # taskStep + 1
        BY <3>2, TaskScalars DEF Task!Steps
      <4> QED
        BY <1>1, <2>1, <2>2, <2>3, <4>1 DEF TaskItemNewest
    <3> QED
      BY <3>1, <3>2
  <2>4. TaskItemNewest'
    BY <1>2, <1>3, <2>1, <2>2, <2>3 DEF TaskItemNewest, TaskNewest
  <2>5. TaskBlankNewest'
    BY <2>1, <2>2 DEF TaskBlankNewest
  <2> QED
    BY <1>5, <1>7, <2>4, <2>5
<1>9. CASE ~Task!InPlace
  <2>1. item' = item /\ (taskStep \in {2, 3} => item.task = none)
    BY <1>9 DEF Task!Type, Task!InPlace
  <2>2. TaskItemNewest'
    BY <1>1, <1>2, <1>3, <2>1 DEF TaskItemNewest, TaskNewest
  <2>3. TaskBlankNewest'
    BY <1>1, <1>2, <1>3, <2>1 DEF TaskBlankNewest, TaskNewest
  <2> QED
    BY <1>5, <1>7, <2>2, <2>3
<1> QED
  BY <1>8, <1>9

LEMMA TaskCurrentLoad ==
    ASSUME TaskTyped, TaskOwned, TaskCurrent, TaskClean, Task!LoadPackages
    PROVE  TaskOrdered' /\ TaskFormNewest' /\ TaskItemNewest' /\ TaskBlankNewest'
<1>1. TaskOrdered /\ TaskFormNewest /\ TaskItemNewest /\ TaskBlankNewest
  BY DEF TaskCurrent
<1>2. /\ taskStep = 1 /\ fields.packages = "asked" /\ fields'.packages # "asked"
      /\ \/ fields'.packages = "no" /\ fields'.value = fields.value
         \/ item.task = none /\ fields'.value = fields.value
         \/ item.task # none /\ fields'.value = item.parts[2]
  BY DEF Task!LoadPackages, TaskTyped, TaskForms
<1>3. UNCHANGED <<tasks, taskStep, taskId, item, saves, taskHist>>
  BY DEF Task!LoadPackages
<1>4. TaskOrdered' /\ TaskItemNewest' /\ TaskBlankNewest'
  BY <1>1, <1>2, <1>3 DEF TaskOrdered, TaskItemNewest, TaskBlankNewest, TaskNewest
<1>5. ASSUME taskId # none, item.task # none => fields'.packages = "yes"
      PROVE  TaskNewest(taskId, taskStep, fields'.value)
  <2>1. CASE item.task = none
    BY <1>1, <1>2, <1>5, <2>1 DEF TaskFormNewest
  <2>2. CASE item.task # none
    <3>1. taskId = item.task /\ 1 \notin taskHist.saved
      BY <1>1, <1>2, <2>2 DEF TaskOwned, TaskClean, TaskItemNewest
    <3>2. TaskNewest(item.task, 1, item.parts[1 + 1])
      BY <1>1, <2>2, <3>1 DEF TaskItemNewest, Task!Steps
    <3> QED
      BY <1>2, <1>5, <2>2, <3>1, <3>2
  <2> QED
    BY <2>1, <2>2
<1>6. TaskFormNewest'
  BY <1>2, <1>3, <1>5 DEF TaskFormNewest, TaskNewest
<1> QED
  BY <1>4, <1>6

\* A step is mounted that was not saved, or whose item is edited in place.
LEMMA TaskCurrentShown ==
    ASSUME TaskTyped, TaskOwned, TaskCurrent, TaskClean, NEW k \in Task!Steps, NEW n,
           k # 0 \/ item.task # none, ~Task!Returned(k), k # taskStep,
           taskStep' = k, fields' = Task!Mounted(k, item, n, entry),
           UNCHANGED <<tasks, item, taskId>>, saves' \subseteq saves,
           taskHist'.saved = taskHist.saved
    PROVE  TaskOrdered' /\ TaskFormNewest' /\ TaskItemNewest' /\ TaskBlankNewest'
<1>1. TaskOrdered /\ TaskFormNewest /\ TaskItemNewest /\ TaskBlankNewest
  BY DEF TaskCurrent
<1>2. k \notin taskHist.saved \/ (k \in {2, 3} /\ item.task # none)
  BY DEF Task!Returned, Task!Steps
<1>3. /\ fields'.packages = "asked"
      /\ fields'.value = IF k = 1 \/ item.task = none THEN 0 ELSE item.parts[k + 1]
  BY TaskMountedFacts
<1>4. TaskOrdered' /\ TaskBlankNewest'
  BY <1>1 DEF TaskOrdered, TaskBlankNewest, TaskNewest
<1>5. ASSUME taskId # none, ~(item.task # none /\ k = 1)
      PROVE  TaskNewest(taskId, k, fields'.value)
  <2>1. CASE item.task = none
    <3>1. k \in 1 .. 3 /\ k \notin taskHist.saved
      BY <1>2, <2>1 DEF Task!Steps
    <3> QED
      BY <1>1, <1>3, <1>5, <2>1, <3>1 DEF TaskBlankNewest
  <2>2. CASE item.task # none
    <3>1. taskId = item.task /\ fields'.value = item.parts[k + 1]
      BY <1>3, <1>5, <2>2 DEF TaskOwned, TaskClean
    <3> QED
      BY <1>1, <1>2, <2>2, <3>1 DEF TaskItemNewest
  <2> QED
    BY <2>1, <2>2
<1>6. TaskFormNewest'
  BY <1>3, <1>5 DEF TaskFormNewest, TaskNewest
<1>7. TaskItemNewest'
  BY <1>1, <1>2, <1>3 DEF TaskItemNewest, TaskNewest
<1> QED
  BY <1>4, <1>6, <1>7

LEMMA TaskCurrentSelected ==
    ASSUME TaskTyped, TaskOwned, TaskCurrent, TaskClean, TaskClean',
           NEW k \in Task!Steps, Task!HandelSelectedStep(k)
    PROVE  TaskOrdered' /\ TaskFormNewest' /\ TaskItemNewest' /\ TaskBlankNewest'
<1>1. ~Task!Returned(k) /\ taskHist'.saved = taskHist.saved
  BY DEF Task!HandelSelectedStep, TaskClean, TaskTyped, TaskHistory
<1>2. /\ item.task # none /\ k # taskStep /\ taskStep' = k
      /\ fields' = Task!Mounted(k, item, touches, entry)
      /\ UNCHANGED <<tasks, item, taskId>> /\ saves' \subseteq saves
  BY DEF Task!HandelSelectedStep, Task!Goto
<1> QED
  BY <1>1, <1>2, TaskCurrentShown

\* The answer of this visit's create: a task that nothing speaks of yet.
LEMMA TaskCurrentCreated ==
    ASSUME TaskTyped, TaskTyped', TaskKnown, TaskDated, TaskApart, TaskCurrent, TaskClean,
           NEW m \in saves, TaskMoved(m), m.step = 0, m.visit = entry, item.task = none
    PROVE  TaskOrdered' /\ TaskFormNewest' /\ TaskItemNewest' /\ TaskBlankNewest'
<1>1. /\ taskStep' = 1 /\ taskId' = m.id /\ m.stage = "ok" /\ saves' \subseteq saves
      /\ UNCHANGED <<tasks, item>>
  BY DEF TaskMoved
<1>2. m.asked = none
  BY DEF TaskDated, TaskDatedSave
<1>3. TaskFresh(m) /\ m.id # none /\ m.id \in Task!Ids
  BY <1>1, <1>2, TaskMessage DEF TaskFresh, TaskKnown
<1>4. /\ \A o \in saves : o.asked # m.id
      /\ \A k \in 1 .. 3 : tasks[m.id].parts[k + 1] = 0
  BY <1>3 DEF TaskApart
<1>5. ASSUME NEW k \in 1 .. 3, NEW v \in Nat PROVE TaskNewest(m.id, k, v)'
  BY <1>1, <1>4 DEF TaskNewest
<1>6. fields'.value \in Nat
  BY DEF TaskTyped, TaskForms
<1>7. TaskFormNewest'
  <2>1. PICK v \in Nat : v = fields'.value
    BY <1>6
  <2>2. TaskNewest(m.id, 1, v)'
    BY <1>5
  <2> QED
    BY <1>1, <2>1, <2>2 DEF TaskFormNewest, TaskNewest
<1>8. TaskBlankNewest'
  <2>1. \A k \in 1 .. 3 : TaskNewest(m.id, k, 0)'
    BY <1>5
  <2> QED
    BY <1>1, <2>1 DEF TaskBlankNewest, TaskNewest
<1>9. TaskItemNewest'
  BY <1>1 DEF TaskItemNewest
<1>10. TaskOrdered'
  BY <1>1, TaskOrderedLess DEF TaskCurrent
<1> QED
  BY <1>7, <1>8, <1>9, <1>10

LEMMA TaskCurrentDelivered ==
    ASSUME TaskTyped, TaskTyped', TaskKnown, TaskDated, TaskOwned, TaskOwned', TaskApart,
           TaskCurrent, TaskClean, TaskClean', NEW m \in saves, Task!Deliver(m)
    PROVE  TaskOrdered' /\ TaskFormNewest' /\ TaskItemNewest' /\ TaskBlankNewest'
<1>1. CASE TaskSettles(m) /\ saves' = saves \ {m} /\ UNCHANGED <<tasks, item, entry, touches>>
  BY <1>1, TaskCurrentQuiet
<1>2. CASE TaskMoved(m)
  <2>1. m.visit = entry /\ UNCHANGED item
    BY <1>2 DEF TaskMoved, TaskClean
  <2>2. CASE m.step = 0 /\ item.task = none
    BY <1>2, <2>1, <2>2, TaskCurrentCreated
  <2>3. CASE ~(m.step = 0 /\ item.task = none)
    <3>1. taskId' = taskId
      <4>1. CASE item.task # none
        BY <2>1, <4>1 DEF TaskOwned, TaskClean
      <4>2. CASE item.task = none
        BY <1>2, <2>3, <4>2 DEF TaskMoved
      <4> QED
        BY <4>1, <4>2
    <3>2. CASE Task!StepAfter(m) = taskStep
      BY <1>2, <3>1, <3>2, TaskCurrentQuiet
    <3>3. CASE Task!StepAfter(m) # taskStep
      <4>1. Task!MoveOn(m) \/ Task!Finish(m) \/ Task!Complain(m)
        BY DEF Task!Deliver
      <4>2. Task!MoveOn(m)
        BY <1>2, <3>3, <4>1 DEF TaskMoved, Task!StepAfter, Task!Finish, Task!Complain
      <4>3. /\ taskStep' = Task!StepAfter(m)
            /\ fields' = Task!Mounted(Task!StepAfter(m), item, m.n, entry)
            /\ Task!StepAfter(m) \in Task!Steps /\ Task!StepAfter(m) # 0
            /\ UNCHANGED <<tasks, item>> /\ saves' \subseteq saves
        BY <1>2, <3>3, <4>2 DEF Task!MoveOn, TaskMoved, Task!StepAfter, Task!Steps
      <4>4. ~Task!Returned(Task!StepAfter(m)) /\ taskHist'.saved = taskHist.saved
        BY <4>2 DEF Task!MoveOn, TaskClean, TaskTyped, TaskHistory
      <4> QED
        BY <3>1, <3>3, <4>3, <4>4, TaskCurrentShown
    <3> QED
      BY <3>2, <3>3
  <2> QED
    BY <2>2, <2>3
<1> QED
  BY <1>1, <1>2, TaskDelivers

LEMMA TaskCurrentSaved ==
    ASSUME TaskTyped, TaskOwned, TaskCurrent, TaskClean, TaskClean', TaskSave
    PROVE  TaskOrdered' /\ TaskFormNewest' /\ TaskItemNewest' /\ TaskBlankNewest'
<1>1. TaskOrdered /\ TaskFormNewest /\ TaskItemNewest /\ TaskBlankNewest
  BY DEF TaskCurrent
<1> PICK s : s = TaskSent
  OBVIOUS
<1>2. /\ saves' = saves \union {s} /\ UNCHANGED <<tasks, taskStep, taskId, item>>
      /\ s.asked = taskId /\ s.step = taskStep /\ s.value = fields.value
  BY TaskSaveLate, TaskSentFacts
<1>3. /\ taskHist'.saved = taskHist.saved \union {taskStep}
      /\ \A m \in Task!Sent(taskId) : ~(m.asked # none /\ m.step = taskStep)
  BY TaskSendFacts DEF TaskSave, TaskClean
<1>4. fields'.value = fields.value /\ (taskStep = 1 => fields.packages = "yes")
      /\ fields'.packages = fields.packages
  BY DEF TaskSave, TaskTyped, TaskForms
<1>5. fields.value \in Nat
  BY DEF TaskTyped, TaskForms
<1>6. ASSUME taskId # none PROVE TaskNewest(taskId, taskStep, fields.value)
  BY <1>1, <1>4, <1>6 DEF TaskFormNewest
<1>7. ASSUME NEW t, NEW k, NEW v, TaskNewest(t, k, v),
             t = taskId /\ k = taskStep => fields.value <= v
      PROVE  TaskNewest(t, k, v)'
  BY <1>2, <1>7 DEF TaskNewest
<1>8. TaskFormNewest'
  <2>1. ASSUME taskId # none PROVE TaskNewest(taskId, taskStep, fields.value)'
    <3>1. PICK t, k, v : t = taskId /\ k = taskStep /\ v = fields.value
      OBVIOUS
    <3>2. TaskNewest(t, k, v)'
      BY <1>5, <1>6, <1>7, <2>1, <3>1
    <3> QED
      BY <1>2, <1>4, <3>1, <3>2 DEF TaskNewest
  <2> QED
    BY <1>2, <1>4, <2>1 DEF TaskFormNewest
<1>9. TaskItemNewest'
  <2>1. ASSUME item.task # none, NEW k \in Task!Steps, k \notin taskHist'.saved \/ k \in {2, 3}
        PROVE  TaskNewest(item.task, k, item.parts[k + 1])'
    <3>1. PICK t, v : t = item.task /\ v = item.parts[k + 1]
      OBVIOUS
    <3>2. TaskNewest(t, k, v)
      BY <1>1, <1>3, <2>1, <3>1 DEF TaskItemNewest
    <3>3. k = taskStep => fields.value = v
      BY <1>1, <1>3, <2>1, <3>1 DEF TaskItemNewest
    <3>4. TaskNewest(t, k, v)'
      BY <1>5, <1>7, <3>2, <3>3
    <3> QED
      BY <1>2, <3>1, <3>4 DEF TaskNewest
  <2> QED
    BY <1>1, <1>2, <1>4, <2>1 DEF TaskItemNewest
<1>10. TaskBlankNewest'
  <2>1. ASSUME item.task = none, taskId # none, NEW k \in 1 .. 3, k \notin taskHist'.saved
        PROVE  TaskNewest(taskId, k, 0)'
    <3>1. PICK t : t = taskId
      OBVIOUS
    <3>2. TaskNewest(t, k, 0) /\ k # taskStep
      BY <1>1, <1>3, <2>1, <3>1 DEF TaskBlankNewest
    <3>3. TaskNewest(t, k, 0)'
      BY <1>7, <3>2
    <3> QED
      BY <1>2, <3>1, <3>3 DEF TaskNewest
  <2> QED
    BY <1>2, <2>1 DEF TaskBlankNewest
<1>11. TaskOrdered'
  <2>1. ASSUME NEW m \in saves, m.stage = "sent", m.asked = s.asked, m.step = s.step,
               m.asked # none
        PROVE  FALSE
    BY <1>2, <1>3, <2>1 DEF Task!Sent
  <2>2. s.asked # none => tasks[s.asked].parts[s.step + 1] <= s.value
    BY <1>2, <1>6 DEF TaskNewest
  <2> QED
    BY <1>1, <1>2, <2>1, <2>2 DEF TaskOrdered
<1> QED
  BY <1>8, <1>9, <1>10, <1>11

LEMMA TaskCurrentServed ==
    ASSUME TaskTyped, TaskKnown, TaskCurrent, TaskClean, NEW m \in saves, TaskServed(m)
    PROVE  TaskOrdered' /\ TaskFormNewest' /\ TaskItemNewest' /\ TaskBlankNewest'
<1>1. TaskOrdered /\ TaskFormNewest /\ TaskItemNewest /\ TaskBlankNewest
  BY DEF TaskCurrent
<1>2. UNCHANGED <<taskStep, taskId, item, fields>>
  BY TaskServedFacts
<1>3. taskHist'.saved = taskHist.saved
  BY DEF TaskServed, TaskCreated, TaskUpdated, TaskRefused, TaskTyped, TaskHistory
<1>4. \A t \in Tasks, k \in Task!Steps : \A v :
          TaskLive(t) /\ TaskNewest(t, k, v) => TaskNewest(t, k, v)'
  BY TaskNewestServed
<1>5. /\ taskId # none => taskId \in Tasks /\ TaskLive(taskId)
      /\ item.task # none => item.task \in Tasks /\ TaskLive(item.task)
      /\ taskStep \in Task!Steps /\ 1 .. 3 \subseteq Task!Steps
  BY TaskScalars DEF TaskKnown, Task!Ids, Task!Steps
<1>6. TaskFormNewest'
  <2>1. PICK t, k, v : t = taskId /\ k = taskStep /\ v = fields.value
    OBVIOUS
  <2>2. taskId # none /\ TaskNewest(t, k, v) => TaskNewest(t, k, v)'
    BY <1>4, <1>5, <2>1
  <2> QED
    BY <1>1, <1>2, <2>1, <2>2 DEF TaskFormNewest, TaskNewest
<1>7. TaskItemNewest'
  <2>1. ASSUME item.task # none, NEW k \in Task!Steps, k \notin taskHist.saved \/ k \in {2, 3}
        PROVE  TaskNewest(item.task, k, item.parts[k + 1])'
    <3>1. PICK t, v : t = item.task /\ v = item.parts[k + 1]
      OBVIOUS
    <3>2. TaskNewest(t, k, v)'
      BY <1>1, <1>4, <1>5, <2>1, <3>1 DEF TaskItemNewest
    <3> QED
      BY <1>2, <3>1, <3>2 DEF TaskNewest
  <2> QED
    BY <1>1, <1>2, <1>3, <2>1 DEF TaskItemNewest
<1>8. TaskBlankNewest'
  <2>1. ASSUME item.task = none, taskId # none, NEW k \in 1 .. 3, k \notin taskHist.saved
        PROVE  TaskNewest(taskId, k, 0)'
    <3>1. PICK t : t = taskId
      OBVIOUS
    <3>2. TaskNewest(t, k, 0)'
      BY <1>1, <1>4, <1>5, <2>1, <3>1 DEF TaskBlankNewest
    <3> QED
      BY <1>2, <3>1, <3>2 DEF TaskNewest
  <2> QED
    BY <1>2, <1>3, <2>1 DEF TaskBlankNewest
<1> QED
  BY <1>1, <1>6, <1>7, <1>8, TaskOrderedServed

\* A new visit: nothing is in flight, or the flags are those of before.
LEMMA TaskOrderedEntered ==
    ASSUME TaskTyped, TaskCurrent, TaskClean', NEW o \in BOOLEAN, NEW k \in BOOLEAN,
           Task!Begin(o, k), UNCHANGED <<tasks, saves>>
    PROVE  TaskOrdered' /\ ~o
<1>1. ~o
  BY TaskBeginFacts DEF TaskClean
<1>2. CASE saves = {}
  BY <1>1, <1>2 DEF TaskOrdered
<1>3. CASE saves # {}
  <2>1. TaskClean
    BY <1>3, TaskBeginFacts DEF TaskClean
  <2> QED
    BY <1>1, <2>1 DEF TaskCurrent, TaskOrdered
<1> QED
  BY <1>2, <1>3

LEMMA TaskCurrentCreate ==
    ASSUME TaskTyped, TaskCurrent, TaskClean', Task!CreateTask
    PROVE  TaskOrdered' /\ TaskFormNewest' /\ TaskItemNewest' /\ TaskBlankNewest'
<1>1. FALSE \in BOOLEAN /\ (focused /\ taskStep = 0) \in BOOLEAN
  OBVIOUS
<1>2. TaskOrdered'
  BY <1>1, TaskOrderedEntered DEF Task!CreateTask
<1>3. taskId' = none /\ item'.task = none
  BY DEF Task!CreateTask, Task!Enter, Task!NoItem
<1> QED
  BY <1>2, <1>3 DEF TaskFormNewest, TaskItemNewest, TaskBlankNewest

LEMMA TaskCurrentEdit ==
    ASSUME TaskTyped, TaskKnown, TaskCurrent, TaskClean', NEW t \in Tasks, Task!EditTask(t)
    PROVE  TaskOrdered' /\ TaskFormNewest' /\ TaskItemNewest' /\ TaskBlankNewest'
<1> DEFINE o == Task!Sent(t) # {} \/ \E k \in 1 .. 4 : rows[t][k] < tasks[t].parts[k]
           i == [task |-> t, parts |-> rows[t]]
<1>1. FALSE \in BOOLEAN /\ o \in BOOLEAN
  OBVIOUS
<1>2. Task!Begin(o, FALSE) /\ UNCHANGED <<tasks, saves>> /\ Task!Enter(i) /\ ~focused
  BY DEF Task!EditTask
<1>3. TaskOrdered' /\ ~o
  BY <1>1, <1>2, TaskOrderedEntered
<1>4. /\ Task!Sent(t) = {} /\ rows[t] # <<>> /\ tasks[t].parts # <<>>
      /\ \A k \in 1 .. 4 : ~(rows[t][k] < tasks[t].parts[k])
  BY <1>3 DEF Task!EditTask, TaskKnown
<1>5. i.task = t /\ i.parts = rows[t] /\ t # none
  BY TaskAssumption DEF Task!ConstantsAssumption
<1> HIDE DEF o, i
<1>6. /\ taskStep' = 0 /\ taskId' = t /\ item' = i
      /\ fields' = Task!Mounted(0, i, touches, entry + 1)
  BY <1>2, <1>5 DEF Task!Enter
<1>7. fields'.value = rows[t][0 + 1]
  BY <1>5, <1>6, TaskMountedFacts
<1>8. ASSUME NEW k \in Task!Steps PROVE TaskNewest(t, k, rows[t][k + 1])
  <2>1. k + 1 \in 1 .. 4
    BY DEF Task!Steps
  <2>2. rows[t][k + 1] \in Nat /\ tasks[t].parts[k + 1] \in Nat
    BY <1>4, <2>1, TaskServerParts, TaskVersionsShape
  <2>3. tasks[t].parts[k + 1] <= rows[t][k + 1]
    BY <1>4, <2>1, <2>2
  <2> QED
    BY <1>4, <2>3 DEF TaskNewest, Task!Sent
<1>9. TaskFormNewest'
  BY <1>2, <1>6, <1>7, <1>8 DEF TaskFormNewest, TaskNewest, Task!Steps
<1>10. TaskItemNewest'
  BY <1>2, <1>5, <1>6, <1>8 DEF TaskItemNewest, TaskNewest
<1>11. TaskBlankNewest'
  BY <1>5, <1>6 DEF TaskBlankNewest
<1> QED
  BY <1>3, <1>9, <1>10, <1>11

LEMMA TaskCurrentStep ==
    ASSUME TaskTyped, TaskTyped', TaskKnown, TaskDated, TaskOwned, TaskOwned', TaskApart,
           TaskCounted, TaskCurrent, TaskSteps
    PROVE  TaskCurrent'
<1> SUFFICES ASSUME TaskClean'
             PROVE  TaskOrdered' /\ TaskFormNewest' /\ TaskItemNewest' /\ TaskBlankNewest'
  BY DEF TaskCurrent
<1>1. CASE Task!CreateTask \/ \E t \in Tasks : Task!EditTask(t)
  BY <1>1, TaskCurrentCreate, TaskCurrentEdit
<1>2. CASE \/ Task!Leave \/ Task!Type \/ TaskSave \/ Task!Incomplete \/ Task!LoadPackages
           \/ \E k \in Task!Steps : Task!HandelSelectedStep(k)
           \/ \E m \in saves : Task!Serve(m) \/ Task!Deliver(m) \/ Task!Fail(m)
  <2>1. TaskClean
    BY <1>2, TaskCleanBefore
  <2>2. CASE Task!Leave \/ Task!Incomplete \/ \E m \in saves : Task!Fail(m)
    BY <2>1, <2>2, TaskCurrentQuiet
  <2>3. CASE \E k \in Task!Steps : Task!HandelSelectedStep(k)
    BY <2>1, <2>3, TaskCurrentSelected
  <2>4. CASE \E m \in saves : Task!Serve(m)
    <3>1. PICK m \in saves : TaskServed(m)
      BY <2>4, TaskServeIs DEF TaskServed, TaskUntouched
    <3> QED
      BY <2>1, <3>1, TaskCurrentServed
  <2>5. CASE \E m \in saves : Task!Deliver(m)
    BY <2>1, <2>5, TaskCurrentDelivered
  <2>6. CASE Task!Type \/ TaskSave \/ Task!LoadPackages
    BY <2>1, <2>6, TaskCurrentType, TaskCurrentSaved, TaskCurrentLoad
  <2> QED
    BY <1>2, <2>2, <2>3, <2>4, <2>5, <2>6
<1> QED
  BY <1>1, <1>2 DEF TaskSteps

\* The inductive invariant about what was typed, on top of TaskInv.
TaskValues == TaskCounted /\ TaskApart /\ TaskCurrent

LEMMA TaskValuesInit == ASSUME Task!Init PROVE TaskValues
<1>1. /\ saves = {} /\ touches = 2 /\ taskId = none /\ item.task = none /\ fields.value = 0
  BY TaskMountedFacts DEF Task!Init, Task!NoItem
<1>2. ASSUME NEW t \in Tasks
      PROVE  TaskBelow(tasks[t].parts, 2) /\ TaskBelow(rows[t], 2)
  <2>1. PICK u \in Tasks :
            tasks = [w \in Tasks |->
                         [born |-> 0, done |-> IF w = u THEN Task!Steps ELSE {},
                          parts |-> IF w = u THEN <<1, 1, 1, 1>> ELSE <<>>]]
    BY DEF Task!Init
  <2>2. tasks[t].parts = IF t = u THEN <<1, 1, 1, 1>> ELSE <<>>
    BY <2>1
  <2>3. rows[t] = tasks[t].parts
    BY DEF Task!Init
  <2>4. TaskBelow(<<1, 1, 1, 1>>, 2) /\ TaskBelow(<<>>, 2)
    BY DEF TaskBelow
  <2> QED
    BY <2>2, <2>3, <2>4
<1> QED
  BY <1>1, <1>2 DEF TaskValues, TaskCounted, TaskApart, TaskCurrent, TaskOrdered,
                    TaskFormNewest, TaskItemNewest, TaskBlankNewest

LEMMA TaskValuesStep ==
    ASSUME TaskTyped, TaskTyped', TaskKnown, TaskInv, TaskInv', TaskValues, TaskSteps
    PROVE  TaskValues'
<1>1. TaskShape
  BY TaskShapes
<1> QED
  BY <1>1, TaskCountedStep, TaskApartStep, TaskCurrentStep DEF TaskValues, TaskInv

LEMMA TaskValuesStutter == ASSUME TaskValues, UNCHANGED Task!vars PROVE TaskValues'
BY DEF TaskValues, TaskCounted, TaskApart, TaskFresh, TaskCurrent, TaskClean, TaskOrdered,
       TaskFormNewest, TaskItemNewest, TaskBlankNewest, TaskNewest, Task!vars

LEMMA TaskValuesAlways == Task!Spec => []TaskValues
<1>1. ASSUME TaskTyped, TaskTyped', TaskKnown, TaskInv, TaskInv', TaskValues,
             [Task!Next]_(Task!vars)
      PROVE  TaskValues'
  BY <1>1, TaskNextIs, TaskValuesStep, TaskValuesStutter
<1> QED
  BY <1>1, TaskValuesInit, TaskTypedAlways, TaskInvAlways, PTL DEF Task!Spec

\* Only a served save changes what the server has of a step.
LEMMA TaskNothingOlder ==
    ASSUME TaskTyped, TaskKnown, TaskValues, TaskSteps, TaskClean,
           NEW t \in Tasks, NEW k \in DOMAIN tasks[t].parts
    PROVE  tasks'[t].parts[k] >= tasks[t].parts[k]
<1>1. tasks[t].parts # <<>> /\ tasks[t].parts \in Task!Versions
  BY TaskServerParts
<1>2. k \in 1 .. 4 /\ tasks[t].parts[k] \in Nat
  BY <1>1, TaskVersionsShape
<1>3. CASE \E m \in saves : Task!Serve(m)
  <2>1. PICK m \in saves : TaskServed(m)
    BY <1>3, TaskServeIs DEF TaskServed, TaskUntouched
  <2>2. CASE TaskRefused(m)
    BY <1>2, <2>2 DEF TaskRefused
  <2>3. CASE TaskUpdated(m)
    <3>1. CASE t = m.asked /\ k = m.step + 1
      <4>1. tasks'[t].parts[k] = m.value
        BY <2>3, <3>1, TaskUpdatedFacts
      <4>2. tasks[t].parts[k] <= m.value
        BY <2>1, <2>3, <3>1
        DEF TaskValues, TaskCurrent, TaskOrdered, TaskUpdated, TaskServed
      <4> QED
        BY <1>2, <4>1, <4>2, TaskMessage
    <3>2. CASE ~(t = m.asked /\ k = m.step + 1)
      <4>1. k - 1 \in Task!Steps /\ (k - 1) + 1 = k /\ m.step \in Task!Steps
        BY <1>2, TaskMessage DEF Task!Steps
      <4>2. ~(t = m.asked /\ k - 1 = m.step)
        BY <3>2, <4>1
      <4>3. tasks'[t].parts[(k - 1) + 1] = tasks[t].parts[(k - 1) + 1]
        BY <2>3, <4>1, <4>2, TaskUpdatedFacts
      <4> QED
        BY <1>2, <4>1, <4>3
    <3> QED
      BY <3>1, <3>2
  <2>4. CASE \E u \in Tasks : TaskCreated(m, u)
    <3> PICK u \in Tasks : TaskCreated(m, u)
      BY <2>4
    <3>1. t # u
      BY <1>1 DEF TaskCreated
    <3> QED
      BY <1>2, <3>1, TaskCreatedFacts
  <2> QED
    BY <2>1, <2>2, <2>3, <2>4 DEF TaskServed
<1>4. CASE ~\E m \in saves : Task!Serve(m)
  <2>1. tasks' = tasks
    BY <1>4 DEF TaskSteps, Task!CreateTask, Task!Leave, Task!Type, TaskSave, Task!Incomplete,
                Task!LoadPackages, Task!EditTask, Task!HandelSelectedStep, Task!Deliver, Task!Fail
  <2> QED
    BY <1>2, <2>1
<1> QED
  BY <1>3, <1>4

\* No save brings back what an earlier one replaced, unless a step was shown again
\* after it was saved, the item was old, or saves or answers overtook each other.
THEOREM TaskNothingReverted == Task!Spec => NothingReverted
<1>1. ASSUME TaskTyped, TaskKnown, TaskValues, [Task!Next]_(Task!vars)
      PROVE  [TaskClean => \A t \in Tasks : \A k \in DOMAIN tasks[t].parts :
                 tasks'[t].parts[k] >= tasks[t].parts[k]]_(Task!vars)
  BY <1>1, TaskNextIs, TaskNothingOlder
<1>2. NothingReverted <=>
          [][TaskClean => \A t \in Tasks : \A k \in DOMAIN tasks[t].parts :
                 tasks'[t].parts[k] >= tasks[t].parts[k]]_(Task!vars)
  BY DEF NothingReverted, Task!NothingReverted, TaskClean
<1> QED
  BY <1>1, <1>2, TaskTypedAlways, TaskValuesAlways, PTL DEF Task!Spec
=============================================================================
