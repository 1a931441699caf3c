------------------------------- MODULE PostTask -------------------------------
(***************************************************************************)
(* screens/manageTasks/PostTask and its four steps: the wizard in which a   *)
(* seller creates or edits a task.  PostTaskSlice keeps the step and the    *)
(* task's id; the route keeps the item that is edited, as the list of tasks *)
(* had it.  PostTask is a screen of the drawer and stays mounted; a step is *)
(* mounted while `step` is its number, and fills its form from the item.    *)
(* Nothing covers the screen while a save is in flight.                     *)
(*                                                                         *)
(* What a form holds, and what the server or an item holds of a step, is a  *)
(* version number, 0 when blank.  Every entry into the wizard sets the step *)
(* and the id, so that their persistence is not modelled.                   *)
(***************************************************************************)
EXTENDS Naturals, Sequences, FiniteSets

CONSTANTS
    Tasks,          \* ids the server gives out
    None,           \* task_id null; route.params.data null
    MaxTaps, MaxPending         \* bounds

VARIABLES
    server,         \* task -> version of each step, or <<>>; the steps saved;
                    \* the visit that created it
    rows,           \* the same in the list the cards of TaskListing show
    step, taskId,   \* PostTaskSlice
    focused,        \* whether PostTask has the focus
    item,           \* route.params.data
    form,           \* local state of the step that is mounted
    net,            \* saves and answers in flight
    visit, taps,    \* entries into the wizard; touches
    hist            \* history

vars == <<server, rows, step, taskId, focused, item, form, net, visit, taps, hist>>

Ids == Tasks \union {None}
Steps == 0 .. 3
Versions == {s \in Seq(Nat) : Len(s) \in {0, 4}}

\* origin is the task whose item was edited, id the one sent with the save,
\* and then the one answered.
Message ==
    [n : Nat, step : Steps, asked : Ids, id : Ids, value : Nat, origin : Ids,
     visit : Nat, mount : Nat, stage : {"sent", "ok", "error"}]

ConstantsAssumption ==
    None \notin Tasks /\ MaxTaps \in Nat /\ MaxPending \in Nat

TypeOK ==
    /\ server \in [Tasks -> [born : Nat, parts : Versions, done : SUBSET Steps]]
    /\ rows \in [Tasks -> Versions]
    /\ step \in Steps /\ taskId \in Ids /\ focused \in BOOLEAN
    /\ item \in [task : Ids, parts : Versions]
    /\ form \in [value : Nat, typed : Nat, packages : {"asked", "yes", "no"},
                 loading : BOOLEAN, mount : Nat, visit : Nat]
    /\ net \subseteq Message
    /\ visit \in Nat /\ taps \in Nat
    /\ hist \in [late : BOOLEAN, again : SUBSET Nat, kept : BOOLEAN,
                 old : BOOLEAN, returned : BOOLEAN, twice : BOOLEAN,
                 refused : BOOLEAN, early : BOOLEAN, saved : SUBSET Steps]

NoItem == [task |-> None, parts |-> <<>>]

Quiet == [late |-> FALSE, again |-> {}, kept |-> FALSE, old |-> FALSE,
          returned |-> FALSE, twice |-> FALSE, refused |-> FALSE,
          early |-> FALSE, saved |-> {}]

\* The first effect of a step: what its form holds.  The packages, and with
\* them what the item has of step two, come with an answer.
Mounted(k, it, n, v) ==
    [value |-> IF k = 1 \/ it.task = None THEN 0 ELSE it.parts[k + 1],
     typed |-> 0, packages |-> "asked", loading |-> FALSE, mount |-> n, visit |-> v]

Init ==
    /\ \E t \in Tasks :
          server = [u \in Tasks |->
                       [born |-> 0, done |-> IF u = t THEN Steps ELSE {},
                        parts |-> IF u = t THEN <<1, 1, 1, 1>> ELSE <<>>]]
    /\ rows = [t \in Tasks |-> server[t].parts]
    /\ step = 0 /\ taskId = None /\ focused = FALSE /\ item = NoItem
    /\ form = Mounted(0, NoItem, 0, 0)
    /\ net = {} /\ visit = 0 /\ taps = 2 /\ hist = Quiet

-----------------------------------------------------------------------------
(* The user                                                                *)

Tapped == taps < MaxTaps /\ taps' = taps + 1

\* The screen of PostTask shows step k.  A step that is mounted already stays.
Goto(k, n) ==
    /\ step' = k
    /\ form' = IF k = step THEN form ELSE Mounted(k, item, n, visit)

\* Whether a form is filled with less than the wizard has saved of it: steps
\* one and two copy the item, the lists of steps three and four are the
\* item's own, which editing changes in place; a new task has no item.
Returned(k) ==
    k # step /\ k \in hist.saved /\ (k \in {0, 1} \/ item.task = None)

\* Mutant: the id of the task edited before stays.
EnterKeepsId(it) ==
    /\ visit' = visit + 1
    /\ step' = 0 /\ taskId' = taskId /\ item' = it /\ focused' = TRUE
    /\ form' = IF focused /\ step = 0 THEN form
               ELSE Mounted(0, it, taps, visit + 1)

\* Mutant: the effect of the first step runs when it is mounted only.
EnterUnfocused(it) ==
    /\ visit' = visit + 1
    /\ step' = 0 /\ taskId' = it.task /\ item' = it /\ focused' = TRUE
    /\ form' = IF step = 0 THEN form ELSE Mounted(0, it, taps, visit + 1)

\* The first step of another visit.  Its effect runs when the screen gains
\* the focus or the step is mounted.
Enter(it) ==
    /\ visit' = visit + 1
    /\ step' = 0 /\ taskId' = it.task /\ item' = it /\ focused' = TRUE
    /\ form' = IF focused /\ step = 0 THEN form
               ELSE Mounted(0, it, taps, visit + 1)

\* What a new visit begins with: nothing is remembered when nothing is in
\* flight.
Begin(old, kept) ==
    LET h == IF net = {} THEN [Quiet EXCEPT !.again = hist.again]
             ELSE [hist EXCEPT !.saved = {}]
    IN  hist' = [h EXCEPT !.old = @ \/ old, !.kept = @ \/ kept]

\* "create" of the drawer, which can be opened over the wizard too.
CreateTask ==
    /\ Enter(NoItem)
    /\ Begin(FALSE, focused /\ step = 0)
    /\ Tapped /\ UNCHANGED <<server, rows, net>>

Sent(t) == {m \in net : m.stage = "sent" /\ m.asked = t}

\* editTask of a card.
EditTask(t) ==
    /\ ~focused /\ rows[t] # <<>>
    /\ Enter([task |-> t, parts |-> rows[t]])
    /\ Begin(Sent(t) # {} \/ \E k \in 1 .. 4 : rows[t][k] < server[t].parts[k], FALSE)
    /\ Tapped /\ UNCHANGED <<server, rows, net>>

\* TaskListing gains the focus and loads its list anew, if the answer comes.
Listed == [t \in Tasks |-> server[t].parts]

Leave ==
    /\ focused /\ focused' = FALSE
    /\ rows' \in {rows, Listed}
    /\ Tapped
    /\ UNCHANGED <<server, step, taskId, item, form, net, visit, hist>>

\* The circles above the steps, when a task is edited.
HandelSelectedStep(k) ==
    /\ focused /\ item.task # None /\ k # step
    /\ Goto(k, taps)
    /\ hist' = [hist EXCEPT !.returned = @ \/ Returned(k)]
    /\ Tapped
    /\ UNCHANGED <<server, rows, taskId, focused, item, net, visit>>

\* Mutant: the lists of steps three and four are copied.
InPlaceNever == FALSE

InPlace == step \in {2, 3} /\ item.task # None

Type ==
    /\ focused
    /\ form' = [form EXCEPT !.value = taps, !.typed = taps]
    /\ IF InPlace
       THEN /\ item' = [item EXCEPT !.parts[step + 1] = taps]
            /\ rows' = [rows EXCEPT ![item.task][step + 1] = taps]
       ELSE UNCHANGED <<item, rows>>
    /\ hist' = [hist EXCEPT !.early = @ \/ (step = 1 /\ form.packages = "asked")]
    /\ Tapped /\ UNCHANGED <<server, step, taskId, focused, net, visit>>

\* A create of this visit that is not answered.
Creating == \E m \in net : m.asked = None /\ m.step = 0 /\ m.visit = visit

Asked == taskId

Send ==
    /\ Cardinality(net) < MaxPending
    /\ net' = net \union
          {[n |-> taps, step |-> step, asked |-> Asked, id |-> Asked,
            value |-> form.value, origin |-> item.task, visit |-> visit,
            mount |-> form.mount, stage |-> "sent"]}
    /\ hist' = [hist EXCEPT
          !.again = IF step = 0 /\ taskId = None /\ Creating
                    THEN @ \union {visit} ELSE @,
          !.twice = @ \/ \E m \in Sent(taskId) : m.asked # None /\ m.step = step,
          !.saved = @ \union {step}]

\* saveUpdateStepOne, ThirdStep, FourthStep.
Save ==
    /\ focused /\ step # 1
    /\ form' = [form EXCEPT !.loading = TRUE]
    /\ Send /\ Tapped
    /\ UNCHANGED <<server, rows, step, taskId, focused, item, visit>>

\* saveUpdateSecondStep with a first package that is complete.
SaveSecondStep ==
    /\ focused /\ step = 1 /\ form.packages = "yes" /\ form.value # 0
    /\ form' = [form EXCEPT !.loading = TRUE]
    /\ Send /\ Tapped
    /\ UNCHANGED <<server, rows, step, taskId, focused, item, visit>>

\* Without one it only complains; without packages it throws, and so does step
\* one for a new task while no category was chosen: each after setLoader(true).
Incomplete ==
    /\ focused
    /\ \/ step = 0 /\ item.task = None
       \/ step = 1 /\ (form.packages = "yes" => form.value = 0 \/ form.typed # 0)
    /\ form' = [form EXCEPT !.loading = TRUE]
    /\ Tapped
    /\ UNCHANGED <<server, rows, step, taskId, focused, item, net, visit, hist>>

\* getpackagesData of the step that is mounted, and the effect on reload.
LoadPackages ==
    /\ step = 1 /\ form.packages = "asked"
    /\ \/ form' = [form EXCEPT !.packages = "yes",
                               !.value = IF item.task = None THEN @ ELSE item.parts[2]]
       \/ form' = [form EXCEPT !.packages = "no"]
    /\ UNCHANGED <<server, rows, step, taskId, focused, item, net, visit, taps, hist>>

-----------------------------------------------------------------------------
(* The server, external                                                    *)

Reply(m, stage, id) ==
    net' = (net \ {m}) \union {[m EXCEPT !.stage = stage, !.id = id]}

Unborn(t) == server[t].parts = <<>>

Create(m) ==
    /\ m.step = 0 /\ m.asked = None
    /\ \E t \in Tasks :
          /\ Unborn(t)
          /\ server' = [server EXCEPT ![t] =
                           [born |-> m.visit, done |-> {0}, parts |-> <<m.value, 0, 0, 0>>]]
          /\ Reply(m, "ok", t)
    /\ UNCHANGED hist

Update(m) ==
    /\ m.asked # None
    /\ server' = [server EXCEPT ![m.asked].parts[m.step + 1] = m.value,
                                ![m.asked].done = @ \union {m.step}]
    /\ Reply(m, "ok", m.asked)
    /\ UNCHANGED hist

Refuse(m) ==
    /\ Reply(m, "error", m.id)
    /\ hist' = [hist EXCEPT !.refused = @ \/ m.step = 2]
    /\ UNCHANGED server

Serve(m) ==
    /\ m.stage = "sent"
    /\ Create(m) \/ Update(m) \/ Refuse(m)
    /\ UNCHANGED <<rows, step, taskId, focused, item, form, visit, taps>>

-----------------------------------------------------------------------------
(* The answers                                                             *)

\* setLoader(false) of the step that sent the save, if it is still mounted.
Settled(m) ==
    IF form.mount = m.mount THEN [form EXCEPT !.loading = FALSE] ELSE form

\* An answer of an earlier visit.
Late(m) == m.visit # visit

\* Mutant: step two moves on whatever the answer is.
MovesOnSecond(m) == m.step # 3 /\ (m.stage = "ok" \/ m.step = 1)

\* Step three does not look at the type of its answer.
MovesOn(m) == m.step # 3 /\ (m.stage = "ok" \/ m.step = 2)

StepAfter(m) == m.step + 1

\* The then of a save: the next step, whichever task the wizard is open for.
MoveOn(m) ==
    /\ MovesOn(m)
    /\ taskId' = IF m.step = 0 THEN m.id ELSE taskId
    /\ step' = StepAfter(m)
    /\ form' = IF StepAfter(m) = step THEN Settled(m)
               ELSE Mounted(StepAfter(m), item, m.n, visit)
    /\ hist' = [hist EXCEPT !.late = @ \/ Late(m),
                            !.returned = @ \/ Returned(StepAfter(m))]
    /\ UNCHANGED <<rows, focused>>

\* The then of step four: navigate('taskListing').
Finish(m) ==
    /\ m.step = 3 /\ m.stage = "ok"
    /\ focused' = FALSE /\ rows' \in {rows, Listed}
    /\ form' = Settled(m)
    /\ UNCHANGED <<step, taskId, hist>>

\* An answer of type 'error'.
Complain(m) ==
    /\ m.stage = "error" /\ ~MovesOn(m)
    /\ form' = Settled(m)
    /\ UNCHANGED <<rows, step, taskId, focused, hist>>

Deliver(m) ==
    /\ m.stage # "sent"
    /\ MoveOn(m) \/ Finish(m) \/ Complain(m)
    /\ net' = net \ {m}
    /\ UNCHANGED <<server, item, visit, taps>>

\* The catch.
Fail(m) ==
    /\ net' = net \ {m}
    /\ form' = Settled(m)
    /\ hist' = IF m.step = 0 /\ m.asked = None
               THEN [hist EXCEPT !.again = @ \union {m.visit}] ELSE hist
    /\ UNCHANGED <<server, rows, step, taskId, focused, item, visit, taps>>

Next ==
    \/ CreateTask \/ Leave \/ Type \/ Save \/ SaveSecondStep \/ Incomplete
    \/ LoadPackages
    \/ \E t \in Tasks : EditTask(t)
    \/ \E k \in Steps : HandelSelectedStep(k)
    \/ \E m \in net : Serve(m) \/ Deliver(m) \/ Fail(m)

Spec == Init /\ [][Next]_vars

-----------------------------------------------------------------------------
\* A save goes to the task whose item fills the wizard, or to the one its own
\* visit created, unless an answer of an earlier visit came in between: it
\* replaces the id and moves the step of whatever is open.  One visit creates one
\* task, unless the step was saved again before its answer, or it was lost.
SavesReachTheirTask ==
    /\ ~hist.late => \A m \in net :
        /\ m.origin # None => m.asked = m.origin
        /\ m.origin = None /\ m.asked # None => server[m.asked].born = m.visit
    /\ \A t, u \in Tasks :
        /\ server[t].born = server[u].born
        /\ server[t].born \notin hist.again \union {0}
        => t = u

\* The form is of the visit that is open, unless "create" was chosen over the
\* first step, which neither is mounted anew nor gains the focus: what it held
\* of another task is then saved as a new one.  And what was typed is what is
\* saved, unless it was typed before the packages arrived, which fill the second
\* step from the item.
FormOfVisit ==
    /\ focused /\ ~hist.kept => form.visit = visit
    /\ form.typed # 0 /\ ~hist.early => form.value = form.typed

\* A new task reaches a step only when the server has those before it, unless
\* two were created; step three moves on although the server refused it.
StepsInOrder ==
    item.task = None /\ ~hist.late /\ visit \notin hist.again =>
        \A k \in 0 .. step - 1 :
            /\ taskId # None
            /\ k \in server[taskId].done \/ (k = 2 /\ hist.refused)

\* A save never brings back what an earlier one replaced: not unless a step is
\* shown again after it was saved, which fills it from the item as it was
\* listed, or with nothing when the task is new (the second answer to a step
\* that was saved twice leads back); nor the list was loaded before a save; nor two saves overtook each
\* other.
NothingReverted ==
    [][~(hist.returned \/ hist.old \/ hist.twice \/ hist.late) =>
          \A t \in Tasks : \A k \in DOMAIN server[t].parts :
              server'[t].parts[k] >= server[t].parts[k]]_vars

=============================================================================
