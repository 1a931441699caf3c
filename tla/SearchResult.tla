----------------------------- MODULE SearchResult -----------------------------
(***************************************************************************)
(* screens/searchResults/searchResult: the freelancers a search finds.      *)
(* Unlike the screens of PagedListing it empties its array in place when it *)
(* gains the focus, so a request for more that captured that array appends  *)
(* to an empty one; its first fetch asks for as many rows as two pages      *)
(* have, and the page number starts at three and is never put back; and     *)
(* its requests for more name route.params that nobody passes, so they ask  *)
(* for sellers of type "undefined".                                         *)
(*                                                                         *)
(* Arrays are objects: heap gives the rows of each one that was made.       *)
(***************************************************************************)
EXTENDS Naturals, Sequences, FiniteSets

CONSTANTS
    Texts,                      \* keyword, price and location of a search
    Pages,                      \* pages the server has, for each of them
    MaxRequests, MaxPending     \* bounds

VARIABLES
    search,             \* route.params
    heap,               \* the arrays, in the order they were made
    freelancers,        \* the array shown
    page,
    freelancerSpinner,  \* the skeleton in place of the list
    loader,             \* the spinner below it
    net,                \* requests in flight
    sent,               \* number of requests sent
    hist                \* history

vars == <<search, heap, freelancers, page, freelancerSpinner, loader, net, sent, hist>>

\* A search names types of sellers or none; "undefined" is what more is asked for.
Types == {"none", "some", "undefined"}
Search == [text : Texts, types : {"none", "some"}]
Query == [text : Texts, types : Types]
Row == [query : Query, page : Nat]
Request == [n : Nat, more : BOOLEAN, query : Query, page : Nat, list : Nat]
Reasons == {"crossed", "failed", "landed"}

ASSUME ConstantsAssumption ==
    Pages \in [Texts -> Nat] /\ MaxRequests \in Nat /\ MaxPending \in Nat

\* The pages from i to j the server has for a query; a search for sellers of one
\* type finds fewer than a search for all.
Found(q, i, j) ==
    LET last == IF q.types = "none" THEN Pages[q.text] ELSE Pages[q.text] \div 2
    IN  [k \in 1 .. (IF j <= last THEN j ELSE last) + 1 - i |->
            [query |-> q, page |-> i + k - 1]]

First(n, s) == [n |-> n, more |-> FALSE, query |-> s, page |-> 0, list |-> 0]
Firsts == {m \in net : ~m.more}
Fetching == Firsts # {}

Init ==
    /\ search \in Search
    /\ heap = << <<>> >> /\ freelancers = 1 /\ page = 3
    /\ freelancerSpinner = TRUE /\ loader = FALSE
    /\ net = {First(1, search)} /\ sent = 1 /\ hist = {}

-----------------------------------------------------------------------------
Room == sent < MaxRequests /\ Cardinality(net) < MaxPending /\ sent' = sent + 1

\* Mutant: freelancers.length = 0 is missing.
Kept == heap

\* freelancers.length = 0.
Emptied == [heap EXCEPT ![freelancers] = <<>>]

\* The effect on isFocused: getFreelancers for the search of route.params.
Focus(s) ==
    /\ Room
    /\ search' = s /\ heap' = Emptied /\ freelancerSpinner' = TRUE
    /\ net' = net \union {First(sent', s)} /\ hist' = hist \ {"landed"}
    /\ UNCHANGED <<freelancers, page, loader>>

\* loadMoreData: at the end of the list, or at a touch of the number of results,
\* which is above the skeleton too.
LoadMoreData ==
    /\ Room
    /\ loader' = TRUE
    /\ net' = net \union {[n |-> sent', more |-> TRUE, page |-> page, list |-> freelancers,
                           query |-> [text |-> search.text, types |-> "undefined"]]}
    /\ UNCHANGED <<search, heap, freelancers, page, freelancerSpinner, hist>>

Crossed(m) == IF \E o \in net : o.n < m.n THEN {"crossed"} ELSE {}

\* setFreelancers.
Shows(rows) == heap' = Append(heap, rows) /\ freelancers' = Len(heap) + 1

\* getFreelancers' then: when nothing was found the array stays.
DeliverFirst(m) ==
    LET rows == Found(m.query, 1, 2)
    IN  /\ ~m.more
        /\ freelancerSpinner' = FALSE
        /\ IF rows = <<>> THEN UNCHANGED <<heap, freelancers>> ELSE Shows(rows)
        /\ hist' = Crossed(m) \union
                     (IF rows = <<>> THEN hist
                      ELSE IF net = {m} THEN hist \ {"landed"}
                      ELSE IF Firsts = {m} THEN hist ELSE hist \union {"landed"})
        /\ net' = net \ {m} /\ UNCHANGED <<search, page, loader, sent>>

\* loadMoreData's then, in the closure that sent it.
DeliverMore(m) ==
    /\ m.more
    /\ page' = m.page + 1 /\ loader' = FALSE
    /\ Shows(heap[m.list] \o Found(m.query, m.page, m.page))
    /\ hist' = hist \union (IF Fetching THEN {"landed"} ELSE {})
    /\ net' = net \ {m} /\ UNCHANGED <<search, freelancerSpinner, sent>>

\* Neither catch takes its spinner down.
Fail(m) ==
    /\ net' = net \ {m} /\ hist' = hist \union {"failed"}
    /\ UNCHANGED <<search, heap, freelancers, page, freelancerSpinner, loader, sent>>

Next ==
    \/ \E s \in Search : Focus(s)
    \/ LoadMoreData
    \/ \E m \in net : DeliverFirst(m) \/ DeliverMore(m) \/ Fail(m)

Spec == Init /\ [][Next]_vars

-----------------------------------------------------------------------------
TypeOK ==
    /\ search \in Search /\ heap \in Seq(Seq(Row)) /\ freelancers \in DOMAIN heap
    /\ page \in Nat /\ freelancerSpinner \in BOOLEAN /\ loader \in BOOLEAN
    /\ net \subseteq Request /\ sent \in Nat /\ hist \subseteq Reasons

Rows == heap[freelancers]

\* No freelancer is listed twice, however the answers arrive.  Once the first
\* fetch is answered they are those of the search, whatever was asked for before
\* it: unless a first fetch's answer overtook an older request, a request failed, or rows
\* of an earlier search had arrived since the list was emptied and either this one
\* found nothing or more was asked for before it was answered, which continues those.
ResultsOfSearch ==
    /\ \A i, j \in DOMAIN Rows : i < j => Rows[i].page < Rows[j].page
    /\ ~Fetching /\ hist = {} => \A i \in DOMAIN Rows : Rows[i].query.text = search.text

\* "search result(s) found" (constants/translation.js:357), below which they are
\* listed: all of them are of the types of sellers that were searched for.
ResultsOfTypes ==
    search.types = "some" /\ ~Fetching /\ hist = {} =>
        \A i \in DOMAIN Rows : Rows[i].query = search
=============================================================================
