----------------------------- MODULE TaskDeletion -----------------------------
(***************************************************************************)
(* A seller's tasks: TaskListing lists them page by page, and its cards      *)
(* (TaskListCard) delete a task or turn it on and off.  A card captures its  *)
(* item, its index and, through deleteItem, the array `tasks` of the render  *)
(* in which it was touched.  deleteItem splices that array in place, and a   *)
(* switch that was answered flips task_status of that item in place: what is *)
(* painted follows with the next render, for which both then set a flag to   *)
(* the opposite of what it was in the render they belong to.  A state set to *)
(* the value it has renders nothing; an answer renders at each state it sets *)
(* (React 17).  The filters are in PagedListing; here a change of the filter *)
(* is a reload.                                                              *)
(***************************************************************************)
EXTENDS Naturals, Sequences, FiniteSets

CONSTANTS
    Tasks,
    Published,                  \* those whose card has a switch
    PageSize,                   \* twenty, in the source
    None,                       \* selectedId: null
    MaxTaps, MaxPending         \* bounds

VARIABLES
    server, enabled,    \* the tasks in the server's order; those turned on
    arrays,             \* every array that was `tasks`; the last one is held
    status,             \* task_status of each item object
    cards,              \* the cards that are mounted, as they are painted
    refreshList,        \* of TaskListing
    page, loader,       \* pageNumber; the overlay
    spinner,            \* below the list
    net, taps,
    hist                \* history

vars == <<server, enabled, arrays, status, cards, refreshList, page, loader, spinner,
          net, taps, hist>>

\* An item object: the task, and the request whose answer brought it.
Row == [task : Tasks, n : Nat]

\* The state of a card (refresh: its own refreshList); since tells it from an
\* earlier one at its index; the item it was painted with, and the status.
Card == [selected : Tasks \union {None}, loader : BOOLEAN, spinner : BOOLEAN,
         refresh : BOOLEAN, since : Nat, row : Row, on : BOOLEAN]

\* first and more: pages of the list; delete: delete-task; switch:
\* task-status-change.  array, index, since, row, on and refresh (of TaskListing for
\* a deletion, of the card for a switch) are what was captured; list and enabled what
\* the server had when it answered.
Message ==
    [n : Nat, kind : {"first", "more", "delete", "switch"}, page : Nat,
     array : Nat, index : Nat, since : Nat, row : Row \union {None}, on : BOOLEAN,
     refresh : BOOLEAN, stage : {"sent", "ok", "error"}, list : Seq(Tasks),
     enabled : SUBSET Tasks]

ConstantsAssumption ==
    /\ IsFiniteSet(Tasks) /\ Published \subseteq Tasks /\ None \notin Row
    /\ PageSize \in Nat \ {0} /\ MaxTaps \in Nat /\ MaxPending \in Nat

Rows == arrays[Len(arrays)]

TypeOK ==
    /\ server \in Seq(Tasks) /\ enabled \subseteq Tasks
    /\ arrays \in Seq(Seq(Row)) /\ arrays # <<>>
    /\ status \in [Tasks \X (0 .. MaxTaps) -> BOOLEAN]
    /\ cards \in Seq(Card) /\ refreshList \in BOOLEAN
    /\ page \in Nat /\ loader \in BOOLEAN /\ spinner \in BOOLEAN
    /\ net \subseteq Message /\ taps \in Nat
    /\ hist \in [missed : BOOLEAN, shifted : BOOLEAN, skipped : BOOLEAN,
                 turned : BOOLEAN, together : BOOLEAN]

TasksOf(rows) == {rows[i].task : i \in DOMAIN rows}
Without(s, i) == SubSeq(s, 1, i - 1) \o SubSeq(s, i + 1, Len(s))
PageOf(s, p) ==
    LET last == p * PageSize
    IN  SubSeq(s, last - PageSize + 1, IF last < Len(s) THEN last ELSE Len(s))

Shown(row) == status[<<row.task, row.n>>]

\* A card renders: at index i for a row, when its item has status st.
Paint(card, row, st) == [card EXCEPT !.row = row, !.on = st[<<row.task, row.n>>]]

NewCard(row) == [selected |-> None, loader |-> FALSE, spinner |-> FALSE,
                 refresh |-> FALSE, since |-> taps, row |-> row, on |-> FALSE]

\* The list renders: React keeps the state of a card by its index.
PaintAll(mounted, rows, st) ==
    [i \in 1 .. Len(rows) |->
        Paint(IF i \in DOMAIN mounted THEN mounted[i] ELSE NewCard(rows[i]), rows[i], st)]

\* A state of TaskListing is set, which renders if it had another value.
Rendered(changed) == IF changed THEN PaintAll(cards, Rows, status) ELSE cards

\* The state of a card is set to that of next.
SetCard(card, next) == IF next = card THEN card ELSE Paint(next, card.row, status)

Request(kind) ==
    [n |-> taps, kind |-> kind, page |-> page, array |-> Len(arrays), index |-> 0,
     since |-> 0, row |-> None, on |-> FALSE, refresh |-> FALSE, stage |-> "sent",
     list |-> <<>>, enabled |-> {}]

GetTasks == [Request("first") EXCEPT !.page = 1]

Init ==
    /\ server \in {s \in [1 .. Cardinality(Tasks) -> Tasks] :
                      \A i, j \in DOMAIN s : s[i] = s[j] => i = j}
    /\ enabled \in SUBSET Published
    /\ arrays = <<<<>>>> /\ cards = <<>>
    /\ status = [o \in Tasks \X (0 .. MaxTaps) |-> FALSE]
    /\ refreshList = FALSE /\ page = 2 /\ loader = TRUE /\ spinner = FALSE
    /\ net = {[n |-> 0, kind |-> "first", page |-> 1, array |-> 1, index |-> 0,
               since |-> 0, row |-> None, on |-> FALSE, refresh |-> FALSE,
               stage |-> "sent", list |-> <<>>, enabled |-> {}]}
    /\ taps = 1
    /\ hist = [missed |-> FALSE, shifted |-> FALSE, skipped |-> FALSE,
               turned |-> FALSE, together |-> FALSE]

-----------------------------------------------------------------------------
(* The user, and React                                                     *)

\* The overlay covers the screen; the spinners of a card cover nothing.
Tap ==
    /\ ~loader /\ taps < MaxTaps
    /\ taps' = taps + 1

Send(m) ==
    /\ net' = net \union {m}
    /\ Cardinality(net') <= MaxPending

InFlight(kinds) == {m \in net : m.kind \in kinds}

\* The list renders for another reason, such as the rows it has room for.
Render ==
    /\ cards # Rendered(TRUE) /\ cards' = Rendered(TRUE)
    /\ UNCHANGED <<server, enabled, arrays, status, refreshList, page, loader, spinner, net,
                   taps, hist>>

\* The screen gains the focus, after editing a task too, or the filter changes.
Reload ==
    /\ Tap /\ Send(GetTasks)
    /\ loader' = TRUE /\ cards' = Rendered(TRUE)
    /\ UNCHANGED <<server, enabled, arrays, status, refreshList, page, spinner, hist>>

\* A scroll reaches the end of a list of at least ten.
LoadMoreTaskListing ==
    /\ 2 * Len(Rows) >= PageSize
    /\ Tap /\ Send(Request("more"))
    /\ spinner' = TRUE /\ cards' = Rendered(~spinner)
    /\ UNCHANGED <<server, enabled, arrays, status, refreshList, page, loader, hist>>

\* Two deletions of renders of TaskListing that have the same refreshList.
Together(m) == \E o \in InFlight({"delete"}) : o.refresh = m.refresh

DeleteTask(i) ==
    LET row == cards[i].row
        m == [Request("delete") EXCEPT !.index = i, !.since = cards[i].since,
                                       !.row = row, !.refresh = refreshList]
    IN  /\ Tap /\ Send(m)
        /\ cards' = [cards EXCEPT ![i] =
                        SetCard(@, [@ EXCEPT !.selected = row.task, !.loader = TRUE])]
        /\ hist' = [hist EXCEPT !.together = @ \/ Together(m)]
        /\ UNCHANGED <<server, enabled, arrays, status, refreshList, page, loader, spinner>>

\* Two answers to the switch of one task, or of one that was fetched anew.
Twice(m) == \E o \in InFlight({"switch"}) : o.row.task = m.row.task

ChangeTaskDisplay(i) ==
    LET row == cards[i].row
        m == [Request("switch") EXCEPT !.index = i, !.since = cards[i].since, !.row = row,
                                       !.on = ~Shown(row), !.refresh = cards[i].refresh]
    IN  /\ row.task \in Published
        /\ Tap /\ Send(m)
        /\ cards' = [cards EXCEPT ![i] =
                        SetCard(@, [@ EXCEPT !.selected = row.task, !.spinner = TRUE])]
        /\ hist' = [hist EXCEPT !.turned = @ \/ Twice(m)]
        /\ UNCHANGED <<server, enabled, arrays, status, refreshList, page, loader, spinner>>

-----------------------------------------------------------------------------
(* The server, external                                                    *)

Exists(t) == \E i \in DOMAIN server : server[i] = t

Answer(m, stage) == net' = (net \ {m}) \union {[m EXCEPT !.stage = stage]}

ServeList(m) ==
    /\ m.kind \in {"first", "more"}
    /\ net' = (net \ {m}) \union
                 {[m EXCEPT !.stage = "ok", !.list = PageOf(server, m.page),
                            !.enabled = enabled]}
    /\ UNCHANGED <<server, enabled, hist>>

ServeDelete(m) ==
    /\ m.kind = "delete"
    /\ \E i \in DOMAIN server :
          server[i] = m.row.task /\ server' = Without(server, i)
    /\ hist' = [hist EXCEPT !.shifted = TRUE]
    /\ Answer(m, "ok") /\ UNCHANGED enabled

ServeSwitch(m) ==
    /\ m.kind = "switch" /\ Exists(m.row.task)
    /\ enabled' = IF m.on THEN enabled \union {m.row.task} ELSE enabled \ {m.row.task}
    /\ Answer(m, "ok") /\ UNCHANGED <<server, hist>>

Refuse(m) ==
    /\ m.kind \in {"delete", "switch"}
    /\ Answer(m, "error") /\ UNCHANGED <<server, enabled, hist>>

Serve(m) ==
    /\ m.stage = "sent"
    /\ ServeList(m) \/ ServeDelete(m) \/ ServeSwitch(m) \/ Refuse(m)
    /\ UNCHANGED <<arrays, status, cards, refreshList, page, loader, spinner, taps>>

-----------------------------------------------------------------------------
(* The answers                                                             *)

\* setTasks: another array is held, and painted.
SetTasks(rows) ==
    /\ arrays' = Append(arrays, rows)
    /\ cards' = PaintAll(cards, rows, status')

RowsOf(m) == [i \in DOMAIN m.list |-> [task |-> m.list[i], n |-> m.n]]

Fetched(m) ==
    [o \in DOMAIN status |->
        IF o[2] = m.n THEN o[1] \in m.enabled ELSE status[o]]

\* Whether what a page shows was changed on the server after it was listed.
OldPage(m) == \E t \in {m.list[i] : i \in DOMAIN m.list} : ~Exists(t)
OldStatus(m) ==
    \E t \in {m.list[i] : i \in DOMAIN m.list} : (t \in m.enabled) # (t \in enabled)

\* getTasks: an empty list leaves the page as it is.
DeliverFirst(m) ==
    /\ m.kind = "first" /\ m.stage = "ok"
    /\ loader' = FALSE
    /\ status' = Fetched(m)
    /\ SetTasks(RowsOf(m))
    /\ page' = IF m.list = <<>> THEN page ELSE 2
    /\ hist' = [hist EXCEPT !.missed = OldPage(m), !.turned = OldStatus(m),
                            !.shifted = FALSE, !.skipped = FALSE, !.together = FALSE]
    /\ net' = net \ {m} /\ UNCHANGED <<server, enabled, refreshList, spinner, taps>>

\* loadMoreTaskListing: the captured array, as it is now, and the page.
DeliverMore(m) ==
    /\ m.kind = "more" /\ m.stage = "ok"
    /\ status' = Fetched(m)
    /\ SetTasks(arrays[m.array] \o RowsOf(m))
    /\ page' = m.page + 1 /\ spinner' = FALSE
    /\ hist' = [hist EXCEPT !.missed = @ \/ OldPage(m) \/ m.array # Len(arrays),
                            !.turned = @ \/ OldStatus(m) \/ m.array # Len(arrays),
                            !.skipped = @ \/ hist.shifted, !.together = FALSE]
    /\ net' = net \ {m} /\ UNCHANGED <<server, enabled, refreshList, loader, taps>>

\* Mutant: the row after the one deleted goes.
GoneNext(m) ==
    [arrays EXCEPT ![m.array] =
        IF m.index + 1 \in DOMAIN @ THEN Without(@, m.index + 1) ELSE @]

\* deleteItem: tasks.splice.
Gone(m) ==
    [arrays EXCEPT ![m.array] =
        IF m.index \in DOMAIN @ THEN Without(@, m.index) ELSE @]

\* Whether the index still is that of the task, in the array held.
Missed(m) ==
    IF m.array = Len(arrays)
    THEN m.index \notin DOMAIN Rows \/ Rows[m.index].task # m.row.task
    ELSE m.row.task \in TasksOf(Rows)

\* The card that was touched is still mounted; it, or another card, shows another row.
Touched(m, i) == i = m.index /\ cards[i].since = m.since
Moved(m) == \E i \in DOMAIN cards : (cards[i].row = m.row) # Touched(m, i)

\* setLoader(false) and setSelectedId of the card that was touched.
Settled(m, keep) ==
    [i \in DOMAIN cards |->
        IF Touched(m, i)
        THEN SetCard(cards[i], [cards[i] EXCEPT !.selected = IF keep THEN @ ELSE None,
                                                !.loader = FALSE])
        ELSE cards[i]]

\* setSpinner(false) of the card that was touched.
Stopped(m) ==
    [i \in DOMAIN cards |->
        IF Touched(m, i) THEN SetCard(cards[i], [cards[i] EXCEPT !.spinner = FALSE])
        ELSE cards[i]]

\* Mutant: the flag is set to what it was.
Same(m) == m.refresh

\* setRefreshList(!refreshList), in TaskListing and in a card.
Toggled(m) == ~m.refresh

\* The then of deleteTask with deleteItem.
DeliverDelete(m) ==
    /\ m.kind = "delete" /\ m.stage = "ok"
    /\ arrays' = Gone(m)
    /\ refreshList' = Toggled(m)
    /\ cards' = IF refreshList' = refreshList THEN Settled(m, FALSE)
                ELSE PaintAll(Settled(m, FALSE), arrays'[Len(arrays)], status)
    /\ hist' = [hist EXCEPT !.missed = @ \/ Missed(m)]
    /\ net' = net \ {m}
    /\ UNCHANGED <<server, enabled, status, page, loader, spinner, taps>>

Flipped(m) == [status EXCEPT ![<<m.row.task, m.row.n>>] = ~@]

\* The then of changeTaskDesiplay: the card renders before the item is changed, and
\* after it if the flag changes.
DeliverSwitch(m) ==
    /\ m.kind = "switch" /\ m.stage = "ok"
    /\ status' = Flipped(m)
    /\ cards' = [i \in DOMAIN cards |->
                    IF Touched(m, i) /\ Toggled(m) # cards[i].refresh
                    THEN Paint([Stopped(m)[i] EXCEPT !.refresh = Toggled(m)],
                               cards[i].row, status')
                    ELSE Stopped(m)[i]]
    /\ hist' = [hist EXCEPT !.turned = @ \/ Moved(m)
                   \/ (m.row \notin {Rows[i] : i \in DOMAIN Rows} /\ m.row.task \in TasksOf(Rows))]
    /\ net' = net \ {m}
    /\ UNCHANGED <<server, enabled, arrays, refreshList, page, loader, spinner, taps>>

\* An answer of type 'error', or the catch, which keeps selectedId.
Fail(m) ==
    /\ loader' = (loader /\ m.kind # "first")
    /\ spinner' = (spinner /\ m.kind # "more")
    /\ cards' = CASE m.kind = "delete" -> Settled(m, m.stage # "error")
                  [] m.kind = "switch" -> Stopped(m)
                  [] OTHER             -> Rendered(loader' # loader \/ spinner' # spinner)
    /\ hist' = [hist EXCEPT !.missed = @ \/ (m.kind = "delete" /\ m.stage = "ok"),
                            !.turned = @ \/ (m.kind = "switch" /\ m.stage = "ok")]
    /\ net' = net \ {m}
    /\ UNCHANGED <<server, enabled, arrays, status, refreshList, page, taps>>

Next ==
    \/ Render \/ Reload \/ LoadMoreTaskListing
    \/ \E i \in DOMAIN cards : DeleteTask(i) \/ ChangeTaskDisplay(i)
    \/ \E m \in net :
          \/ Serve(m) \/ DeliverFirst(m) \/ DeliverMore(m) \/ DeliverDelete(m)
          \/ DeliverSwitch(m) \/ Fail(m)

Spec == Init /\ [][Next]_vars

-----------------------------------------------------------------------------
\* When no deletion is in flight and each one answered found its row where it
\* was (no other deletion had moved it, nor was the array replaced), every row
\* is a task the server still has.  No other row has disappeared either: the
\* rows are the first of the server's, unless a further page was asked for
\* after a deletion, when the pages shift.  The rows are those that are painted,
\* unless two deletions were on their way with the same refreshList: both set it to
\* the same value, and the second row stays on the screen until the next render.  The
\* switch of a row that is held is painted with the status the server has, when none
\* is in flight, no task was switched again before its answer (both requests carry the
\* same status, and both answers flip it), and none had moved to another card.
RowsAreTheServers ==
    /\ InFlight({"delete"}) = {} /\ ~hist.missed =>
          /\ \A t \in TasksOf(Rows) : Exists(t)
          /\ ~hist.skipped => \A i \in DOMAIN Rows :
                i \in DOMAIN server /\ Rows[i].task = server[i]
    /\ ~hist.together => Rows = [i \in DOMAIN cards |-> cards[i].row]
    /\ InFlight({"switch"}) = {} /\ ~hist.turned =>
          \A i \in DOMAIN cards : \A j \in DOMAIN Rows :
              cards[i].row = Rows[j] /\ Rows[j].task \in Published =>
                  (cards[i].on <=> Rows[j].task \in enabled)
=============================================================================
