--------------------------- MODULE MCPagedListing ---------------------------
(***************************************************************************)
(* Three instances that share nothing: all the paged screens                *)
(* (PagedListing), where f1 has two and a half pages and every other filter *)
(* none; the tasks that are deleted and switched on one of them             *)
(* (TaskDeletion); and the categories by which some are searched            *)
(* (CategoryLookups): two categories, one with two sub-categories that have *)
(* a type each, one with a sub-category of its own.  One of the three moves *)
(* while the others wait in an initial state.                               *)
(***************************************************************************)
EXTENDS PagedListing, SequencesExt

CONSTANTS
    Long,                   \* the filter with records
    t1, t2, t3, t4,         \* tasks; t1 is published
    c1, c2, s1, s2, s3, y1, y2,
    none,                           \* of TaskDeletion and of CategoryLookups
    Tasks, Published, PageSize,     \* of TaskDeletion
    MaxTaps, MaxSent,
    Tops, Subs, Types, Parent,      \* of CategoryLookups
    undefined, MaxTouches, MaxAsked

VARIABLES
    active,                 \* the instance that moves
    tasks, enabled, arrays, status, cards, refreshList, pageNumber, overlay, indicator,
    requests, taps, cardsHist,
    screen, chosen, slug, lists, spin, asked, searched, touches, lookupHist

cardVars == <<tasks, enabled, arrays, status, cards, refreshList, pageNumber, overlay,
              indicator, requests, taps, cardsHist>>
lookupVars == <<screen, chosen, slug, lists, spin, asked, searched, touches, lookupHist>>

MCRecords == [f \in Filters |-> IF f = Long THEN 5 ELSE 0]

MCParent == s1 :> c1 @@ s2 :> c1 @@ s3 :> c2 @@ y1 :> s1 @@ y2 :> s2

Cards == INSTANCE TaskDeletion
    WITH None <- none, MaxPending <- MaxSent, server <- tasks, page <- pageNumber,
         loader <- overlay, spinner <- indicator, net <- requests, hist <- cardsHist

Lookups == INSTANCE CategoryLookups
    WITH None <- none, Undefined <- undefined, MaxTaps <- MaxTouches,
         MaxPending <- MaxAsked, sent <- searched, taps <- touches, hist <- lookupHist

ASSUME CardsAssumption == Cards!ConstantsAssumption
ASSUME LookupsAssumption == Lookups!ConstantsAssumption

\* The tasks that are not published are interchangeable: one order stands for all.
Orders == {InsertAt(<<t2, t3, t4>>, i, t1) : i \in 1 .. 4}

MCInit ==
    /\ Init /\ Cards!Init /\ Lookups!Init
    /\ tasks \in Orders
    /\ active \in {"screens", "cards", "lookups"}
    /\ active # "screens" => kind.name = "Invoice" /\ filter = Long
    /\ active # "cards" => tasks = <<t1, t2, t3, t4>> /\ enabled = {}
    /\ active # "lookups" => screen = "form"

ScreensNext == active = "screens" /\ Next /\ UNCHANGED <<active, cardVars, lookupVars>>
CardsNext == active = "cards" /\ Cards!Next /\ UNCHANGED <<active, vars, lookupVars>>
LookupsNext == active = "lookups" /\ Lookups!Next /\ UNCHANGED <<active, vars, cardVars>>
MCNext == ScreensNext \/ CardsNext \/ LookupsNext

MCSpec == MCInit /\ [][MCNext]_<<active, vars, cardVars, lookupVars>>

\* When no deletion is in flight and each one answered found its row where it was,
\* every row of TaskListing is a task the server still has, and no other row has
\* disappeared: deleteItem splices at the index the card captured.  The cards painted
\* are those of the rows, unless two deletions captured the same refreshList.  A switch
\* is painted with the status the server has, when none is in flight and no task was
\* switched again before its answer.
RowsAreTheServers == Cards!RowsAreTheServers

\* What can be chosen below a category or a sub-category is what the server has
\* below it, once no look-up is in flight: unless the answers arrived out of order,
\* the last one failed, or it arrived after the filters were cleared.
ListsFollowChoice == Lookups!ListsFollowChoice

\* A task is saved, and a search made, with a sub-category of its category and types
\* of its sub-category, unless one was picked from a list that was not of the choice
\* or was kept when what it is below was chosen again.
SentBelongTogether == Lookups!SentBelongTogether

\* "Clear all filters" (constants/translation.js:352): a search of narrowSearch or
\* searchProjects filters by the category that is shown.
SearchIsWhatIsShown == Lookups!SearchIsWhatIsShown
=============================================================================
