---------------------------- MODULE PagedListing ----------------------------
(***************************************************************************)
(* The screens that show a list page by page: a first fetch when the screen *)
(* opens, gains the focus or changes its filter, and one more page whenever *)
(* the end of the list is reached.  They are the same handlers copied from  *)
(* file to file with small differences; a record of type Kind says what     *)
(* each of them does, and one specification covers them all.                *)
(*                                                                          *)
(* A request for a further page is answered in the closure of the render    *)
(* that sent it: the answer replaces the list by the captured list and the  *)
(* new page, and the page number by the captured one plus one.              *)
(***************************************************************************)
EXTENDS Naturals, Sequences, FiniteSets

CONSTANTS
    Kinds,          \* the screens of this instance
    Filters,        \* sort orders, order types, search texts
    Records,        \* filter -> its records on the server, in half pages
    MaxRequests,    \* bound: requests the screen sends
    MaxPending      \* bound: requests in flight when it sends one

VARIABLES
    kind,           \* the screen
    filter,         \* sortedValue, selectedOrderType, search, route.params
    list,           \* the pages shown
    page,           \* pageNumber
    loader,         \* the blocking overlay, or the skeleton
    spinner,        \* the bar below the list
    ended,          \* onEndReachedCalledDuringMomentum.current
    net,            \* requests in flight
    sent,           \* number of requests sent
    hist            \* history: what the requests have been through

view == <<filter, list, page>>
vars == <<kind, view, loader, spinner, ended, net, sent, hist>>

\* What distinguishes the screens:
\* start     : initial pageNumber
\* resets    : whether the answer of a first fetch sets pageNumber to 2
\* overlay   : when a first fetch covers the screen; a skeleton takes the place
\*             of the list and stays when the fetch fails
\* enough    : half pages the list must have before more is asked for
\* noRecords : what an empty first page does to the list
\* atEnd     : what an empty further page does to list and pageNumber
\* changes   : how the filter changes
\* focus     : whether the first fetch is repeated on focus
\* stuck     : whether the catch leaves the spinner up

MyProjectListing ==
    [name |-> "MyProjectListing", start |-> 1, resets |-> TRUE,
     overlay |-> "always", enough |-> 2, noRecords |-> "show",
     atEnd |-> "append", changes |-> {"tap"}, focus |-> TRUE, stuck |-> FALSE]

TemplateListing ==
    [name |-> "TemplateListing", start |-> 1, resets |-> TRUE,
     overlay |-> "opening", enough |-> 0, noRecords |-> "show",
     atEnd |-> "append", changes |-> {"tap"}, focus |-> FALSE, stuck |-> FALSE]

Task ==
    [name |-> "Task", start |-> 2, resets |-> TRUE,
     overlay |-> "always", enough |-> 2, noRecords |-> "clear",
     atEnd |-> "rewind", changes |-> {"tap", "params"}, focus |-> TRUE,
     stuck |-> FALSE]

\* A page has 20 tasks, and the list asks for more from 10 on.
TaskListing ==
    [name |-> "TaskListing", start |-> 2, resets |-> TRUE,
     overlay |-> "always", enough |-> 1, noRecords |-> "clear",
     atEnd |-> "append", changes |-> {"tap"}, focus |-> TRUE, stuck |-> FALSE]

Invoice ==
    [name |-> "Invoice", start |-> 2, resets |-> FALSE,
     overlay |-> "always", enough |-> 2, noRecords |-> "keep",
     atEnd |-> "keep", changes |-> {}, focus |-> FALSE, stuck |-> FALSE]

ProjectListing ==
    [name |-> "ProjectListing", start |-> 2, resets |-> TRUE,
     overlay |-> "always", enough |-> 2, noRecords |-> "show",
     atEnd |-> "append", changes |-> {"params"}, focus |-> TRUE, stuck |-> TRUE]

SearchResultTask ==
    [name |-> "SearchResultTask", start |-> 2, resets |-> FALSE,
     overlay |-> "skeleton", enough |-> 0, noRecords |-> "show",
     atEnd |-> "append", changes |-> {"params"}, focus |-> TRUE, stuck |-> TRUE]

\* The sellers' tab.  The overlay is shared with the fetches of the other tabs.
SavedItem ==
    [name |-> "SavedItem", start |-> 2, resets |-> FALSE,
     overlay |-> "shared", enough |-> 0, noRecords |-> "keep",
     atEnd |-> "append", changes |-> {}, focus |-> TRUE, stuck |-> FALSE]

PostProjectStepFour ==
    [name |-> "PostProjectStepFour", start |-> 1, resets |-> TRUE,
     overlay |-> "always", enough |-> 2, noRecords |-> "show",
     atEnd |-> "append", changes |-> {}, focus |-> FALSE, stuck |-> FALSE]

\* Every paged screen of the program (SearchResult, which empties its list in
\* place, is not one of them).
Listings == {MyProjectListing, TemplateListing, Task, TaskListing, Invoice,
             ProjectListing, SearchResultTask, SavedItem, PostProjectStepFour}

Page == [filter : Filters, page : Nat \ {0}]

Request == [id : Nat, more : BOOLEAN, filter : Filters, page : Nat \ {0},
            list : Seq(Page)]

History == [crossed : BOOLEAN,      \* an answer overtook an older request
            failed  : BOOLEAN,      \* a request failed or was refused
            early   : BOOLEAN]      \* more was asked for during a first fetch

ASSUME ConstantsAssumption ==
    /\ Kinds \subseteq Listings
    /\ Records \in [Filters -> Nat]
    /\ MaxRequests \in Nat /\ MaxPending \in Nat

TypeOK ==
    /\ kind \in Kinds
    /\ filter \in Filters /\ list \in Seq(Page) /\ page \in Nat \ {0}
    /\ loader \in BOOLEAN /\ spinner \in BOOLEAN /\ ended \in BOOLEAN
    /\ net \subseteq Request /\ sent \in Nat
    /\ hist \in History

-----------------------------------------------------------------------------
\* The half pages on page n of filter f: 2 when full, 0 when past the end.
Size(f, n) ==
    IF Records[f] >= 2 * n THEN 2 ELSE IF Records[f] + 1 >= 2 * n THEN 1 ELSE 0

\* list.length >= 10, in half pages.
AtLeast(l, n) ==
    \/ n = 0
    \/ \E i \in DOMAIN l : Size(l[i].filter, l[i].page) >= n
    \/ \E i, j \in DOMAIN l : /\ i # j /\ n = 2
                              /\ Size(l[i].filter, l[i].page) > 0
                              /\ Size(l[j].filter, l[j].page) > 0

FirstPage(id, f) ==
    [id |-> id, more |-> FALSE, filter |-> f, page |-> 1, list |-> <<>>]

Fetching == \E m \in net : ~m.more

\* Whether the bounds leave room for n more requests.
Room(n) == sent + n <= MaxRequests /\ Cardinality(net) + n <= MaxPending

\* getBuyerProjects, getAvailableTask, getTasks, ...: the first fetch.
Fetch(f) ==
    /\ Room(1)
    /\ net' = net \union {FirstPage(sent + 1, f)}
    /\ sent' = sent + 1
    /\ loader' = (loader \/ kind.overlay # "opening")

\* The screen is opened and its effects have run.  Task fetches with an empty
\* order type before it has that of route.params.
Init ==
    /\ kind \in Kinds
    /\ filter \in Filters
    /\ list = <<>> /\ page = kind.start
    /\ loader = TRUE /\ spinner = FALSE /\ ended = TRUE
    /\ IF kind.name = "Task"
       THEN /\ \E g \in Filters : net = {FirstPage(1, g), FirstPage(2, filter)}
            /\ sent = 2
       ELSE net = {FirstPage(1, filter)} /\ sent = 1
    /\ hist = [crossed |-> FALSE, failed |-> FALSE, early |-> FALSE]

-----------------------------------------------------------------------------
\* Mutant: sortedValue is missing in the dependencies of the effect.
ChangeFilterOnly(f) ==
    /\ "tap" \in kind.changes /\ ~loader /\ f # filter
    /\ filter' = f
    /\ UNCHANGED <<kind, list, page, loader, spinner, ended, net, sent, hist>>

\* handelSortBy, setSearch, setSelectedOrderType: the effect fetches anew.
ChangeFilter(f) ==
    /\ "tap" \in kind.changes /\ ~loader /\ f # filter
    /\ filter' = f
    /\ Fetch(f)
    /\ UNCHANGED <<kind, list, page, spinner, ended, hist>>

\* The screen gains the focus again, its route.params changed or not.  Task
\* reads them into its state and fetches with the old state first.
Refocus ==
    /\ kind.focus
    /\ \E f \in IF "params" \in kind.changes THEN Filters ELSE {filter} :
          /\ filter' = f
          /\ IF kind.name = "Task" /\ f # filter
             THEN /\ Room(2)
                  /\ net' = net \union {FirstPage(sent + 1, filter),
                                        FirstPage(sent + 2, f)}
                  /\ sent' = sent + 2
                  /\ loader' = TRUE
             ELSE Fetch(f)
    /\ UNCHANGED <<kind, list, page, spinner, ended, hist>>

\* onMomentumScrollBegin: the overlay keeps fingers off the list.
MomentumScrollBegin ==
    /\ ended /\ ~loader
    /\ ended' = FALSE
    /\ UNCHANGED <<kind, view, loader, spinner, net, sent, hist>>

\* onEndReachedHandler and the loadMore... it calls.  A list that is still
\* moving reaches its end under the overlay, too, but not behind a skeleton.
OnEndReachedHandler ==
    /\ ~ended /\ ~(loader /\ kind.overlay = "skeleton")
    /\ ended' = TRUE
    /\ IF AtLeast(list, kind.enough)
       THEN /\ Room(1)
            /\ net' = net \union {[id |-> sent + 1, more |-> TRUE,
                                   filter |-> filter, page |-> page, list |-> list]}
            /\ sent' = sent + 1
            /\ spinner' = TRUE
            /\ hist' = [hist EXCEPT !.early = @ \/ Fetching]
       ELSE UNCHANGED <<net, sent, spinner, hist>>
    /\ UNCHANGED <<kind, view, loader>>

-----------------------------------------------------------------------------
\* Mutant: no setPageNumber(2).
ShowFirstPageOnly(m) ==
    /\ ~m.more
    /\ list' = IF Size(m.filter, 1) > 0 \/ kind.noRecords = "show"
               THEN <<[filter |-> m.filter, page |-> 1]>>
               ELSE IF kind.noRecords = "clear" THEN <<>> ELSE list
    /\ page' = page
    /\ loader' = FALSE /\ UNCHANGED spinner

\* The answer of a first fetch.
ShowFirstPage(m) ==
    /\ ~m.more
    /\ IF Size(m.filter, 1) > 0 \/ kind.noRecords = "show"
       THEN /\ list' = <<[filter |-> m.filter, page |-> 1]>>
            /\ page' = IF kind.resets THEN 2 ELSE page
       ELSE /\ list' = IF kind.noRecords = "clear" THEN <<>> ELSE list
            /\ page' = page
    /\ loader' = FALSE /\ UNCHANGED spinner

\* Mutant: the page is added to the list on screen, not to the captured one.
ShowMoreFunctional(m) ==
    /\ m.more
    /\ list' = Append(list, [filter |-> m.filter, page |-> m.page])
    /\ page' = m.page + 1
    /\ spinner' = FALSE /\ UNCHANGED loader

\* The answer of loadMore..., in the closure that sent it.
ShowMore(m) ==
    /\ m.more
    /\ IF Size(m.filter, m.page) > 0 \/ kind.atEnd = "append"
       THEN /\ list' = Append(m.list, [filter |-> m.filter, page |-> m.page])
            /\ page' = m.page + 1
       ELSE /\ list' = IF kind.atEnd = "rewind" THEN m.list ELSE list
            /\ page' = page
    /\ spinner' = FALSE /\ UNCHANGED loader

Deliver(m) ==
    /\ ShowFirstPage(m) \/ ShowMore(m)
    /\ net' = net \ {m}
    /\ hist' = [hist EXCEPT !.crossed = @ \/ \E n \in net : n.id < m.id]
    /\ UNCHANGED <<kind, filter, ended, sent>>

\* Mutant: the catch of the first fetch leaves the overlay up.
FailCovered(m) ==
    /\ net' = net \ {m}
    /\ spinner' = (spinner /\ (~m.more \/ kind.stuck))
    /\ hist' = [hist EXCEPT !.failed = TRUE]
    /\ UNCHANGED <<kind, view, loader, ended, sent>>

\* An answer whose type is 'error', or the catch.
Fail(m) ==
    /\ net' = net \ {m}
    /\ loader' = (loader /\ (m.more \/ kind.overlay = "skeleton"))
    /\ spinner' = (spinner /\ (~m.more \/ kind.stuck))
    /\ hist' = [hist EXCEPT !.failed = TRUE]
    /\ UNCHANGED <<kind, view, ended, sent>>

\* The other tabs of SavedItem take the overlay down when they are answered.
OtherTab ==
    /\ kind.overlay = "shared" /\ loader
    /\ loader' = FALSE
    /\ UNCHANGED <<kind, view, spinner, ended, net, sent, hist>>

Next ==
    \/ (\E f \in Filters : ChangeFilter(f)) \/ Refocus
    \/ MomentumScrollBegin \/ OnEndReachedHandler
    \/ \E m \in net : Deliver(m) \/ Fail(m)
    \/ OtherTab

Spec == Init /\ [][Next]_vars

-----------------------------------------------------------------------------
Orderly == ~hist.crossed /\ ~hist.failed /\ ~hist.early

\* The first fetch puts pageNumber back, or there is only one.
Restarts == kind.resets \/ ~kind.focus

Gapfree == /\ \A i \in DOMAIN list : list[i].page = i
              /\ list # <<>> => page = Len(list) + 1

\* The list is pages 1, 2, ... with none left out and none twice, and the next
\* page asked for is the one that follows, however many requests for it are
\* in flight and whatever becomes of them.  It does not hold of the screens
\* that keep pageNumber over a new first fetch (SearchResultTask, SavedItem).
NoPageSkipped == Restarts /\ kind.atEnd # "rewind" => Gapfree

\* Task, whose loadMoreAvailableTask puts the captured list back but not the
\* captured pageNumber when the page is empty, skips none while the answers
\* are orderly.
TaskSkipsNoPage == Restarts /\ kind.atEnd = "rewind" /\ Orderly => Gapfree

\* No page is shown twice, not even on the screens that do skip pages.
NoPageTwice ==
    kind.atEnd # "rewind" =>
        \A i, j \in DOMAIN list : i < j => list[i].page < list[j].page

\* When the first fetch has been answered, the rows are those of the filter
\* that is shown, also after a further page of the old filter was in flight
\* while the filter changed.  Three things break it: an answer that overtakes
\* an older request, a first fetch that fails, and a list that reaches its
\* end before the first page of the new filter is there.
OneFilter ==
    Orderly /\ ~Fetching => \A i \in DOMAIN list : list[i].filter = filter

\* With nothing in flight the screen is neither covered nor does it promise
\* more rows, except that two screens forget the bar when a page fails, and
\* one its skeleton.
QuietScreen ==
    net = {} => /\ loader => kind.overlay = "skeleton" /\ hist.failed
                /\ spinner => kind.stuck /\ hist.failed
=============================================================================
