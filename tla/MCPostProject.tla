---------------------------- MODULE MCPostProject ----------------------------
(***************************************************************************)
(* Two instances that share nothing: the wizard that posts projects         *)
(* (PostProject, two visits) and the one that posts tasks (PostTask).  One  *)
(* of them moves while the other waits in an initial state.                 *)
(***************************************************************************)
EXTENDS PostProject

CONSTANTS
    p1, p2, p3, t1, t2, t3,
    Tasks, none, MaxTouches, MaxSaves   \* of PostTask

VARIABLES
    active,         \* the instance that moves
    tasks, rows, taskStep, taskId, focused, item, fields, saves, entry, touches, taskHist

taskVars == <<tasks, rows, taskStep, taskId, focused, item, fields, saves, entry,
              touches, taskHist>>

Task == INSTANCE PostTask
    WITH None <- none, MaxTaps <- MaxTouches, MaxPending <- MaxSaves,
         server <- tasks, step <- taskStep, form <- fields, net <- saves,
         visit <- entry, taps <- touches, hist <- taskHist

ASSUME TaskAssumption == Task!ConstantsAssumption

\* The ids of projects are interchangeable, and so are those of tasks: they are
\* given out in one order.
ProjectsInOrder ==
    /\ server[p2].born # 0 => server[p1].born # 0
    /\ server[p3].born # 0 => server[p2].born # 0
TasksInOrder ==
    /\ tasks[t1].parts # <<>>
    /\ tasks[t3].parts # <<>> => tasks[t2].parts # <<>>

MCInit ==
    /\ Init /\ Task!Init
    /\ active \in {"project", "task"}
    /\ TasksInOrder

MCNext ==
    \/ active = "project" /\ Next /\ ProjectsInOrder' /\ UNCHANGED <<active, taskVars>>
    \/ active = "task" /\ Task!Next /\ TasksInOrder' /\ UNCHANGED <<active, vars>>

MCSpec == MCInit /\ [][MCNext]_<<active, vars, taskVars>>

\* A save of PostTask goes to the task whose item fills the wizard, or to the one
\* its own visit created, unless an answer of an earlier visit came in between: it
\* replaces the id and moves the step of whatever is open.  One visit creates one
\* task, unless the step was saved again before its answer, or it was lost.
SavesReachTheirTask == Task!SavesReachTheirTask

\* The form of PostTask is of the visit that is open, unless "create" was chosen
\* over the first step, which neither is mounted anew nor gains the focus.
\* What was typed into it is what is saved, unless it was typed before the packages
\* arrived, which fill the second step from the item.
FormOfVisit == Task!FormOfVisit

\* A new task reaches a step of PostTask only when the server has those before it,
\* unless two were created; step three moves on although the server refused it.
StepsInOrder == Task!StepsInOrder

\* A save of PostTask never brings back what an earlier one replaced, unless a step
\* was shown again after it was saved, the list was loaded before a save, or two
\* saves overtook each other.
NothingReverted == Task!NothingReverted
=============================================================================
