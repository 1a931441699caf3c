------------------------- MODULE PagedListingProofs -------------------------
(***************************************************************************)
(* For any of the screens, any filters and any number of requests: the      *)
(* paged lists skip no page and repeat none, and a quiet screen is not      *)
(* covered, with the exceptions the properties name.                        *)
(*                                                                          *)
(* The answers run in old closures, so what holds of the list must hold of  *)
(* every captured list as well: Sound is the inductive invariant.  What     *)
(* holds only while the answers are orderly (one filter per list, no page   *)
(* skipped by Task) needs the order of the requests in flight besides:      *)
(* Ordered is the inductive invariant of those.                             *)
(*                                                                          *)
(* For the instance Lookups, for any categories and any number of touches:  *)
(* a list is of the choice above it once no look-up is in flight, and what  *)
(* is chosen belongs together, with the exceptions the properties name.     *)
(* LookInv is the inductive invariant: while nothing of lookupHist happened *)
(* a list is of the choice, or the last look-up in flight of its kind is.   *)
(*                                                                          *)
(* For the instance Cards, for any tasks, any size of a page and any number *)
(* of deletions and switches: the rows are the server's, with the           *)
(* exceptions the property names.  CardInv is the inductive invariant: what *)
(* holds of the rows holds of the pages in flight too, a row without a task *)
(* has an answer to its deletion in flight, and what the server has before  *)
(* a task of a row has its row before that one.  CardScreen is that of what *)
(* is painted: the cards show the rows held and their status as long as no  *)
(* two answers in flight would set refreshList, or the flag of one card, to *)
(* the same value.                                                          *)
(***************************************************************************)
EXTENDS MCPagedListing, Integers, FiniteSetTheorems, WellFoundedInduction, TLAPS

\* The pages of a list come in ascending order and before the next page p.
Ascends(l, p) ==
    /\ \A i \in DOMAIN l : l[i].page < p
    /\ \A i, j \in DOMAIN l : i < j => l[i].page < l[j].page

\* The list is complete: its next page p is the one that follows.
Complete(l, p) ==
    /\ \A i \in DOMAIN l : l[i].page = i
    /\ p = Len(l) + 1

\* The screens whose lists are complete whatever the order of the answers.
Exact == Restarts /\ kind.atEnd # "rewind"

\* The screen that never fetches its first page again.
Once == ~kind.resets /\ ~kind.focus

ListSound ==
    /\ kind.atEnd # "rewind" => Ascends(list, page)
    /\ Exact /\ list # <<>> => Complete(list, page)
    /\ Exact /\ kind.enough = 0 /\ list = <<>> => page = 1
    /\ ~kind.resets => page >= 2

NetSound ==
    \A m \in net :
        /\ m.more /\ kind.atEnd # "rewind" => Ascends(m.list, m.page)
        /\ m.more /\ Exact => Complete(m.list, m.page)
        /\ ~m.more /\ Once => net = {m} /\ list = <<>> /\ page = 2

CoverSound ==
    /\ loader => \/ kind.overlay = "skeleton" /\ hist.failed
                 \/ \E m \in net : ~m.more
    /\ spinner => (kind.stuck /\ hist.failed) \/ \E m \in net : m.more

Sound == TypeOK /\ ListSound /\ NetSound /\ CoverSound

\* Every row of a list is one of filter f.
OfFilter(l, f) == \A i \in DOMAIN l : l[i].filter = f

\* Requests are numbered in the order they are sent.
Numbered ==
    /\ \A m \in net : m.id >= 1 /\ m.id <= sent
    /\ \A m, n \in net : m.id = n.id => m = n

\* A further page is asked for before the first fetches in flight, of which the
\* last one has the filter that is shown.
LastFetchCurrent ==
    /\ \A m, n \in net : m.more /\ ~n.more => m.id < n.id
    /\ Fetching => \E n \in net : /\ ~n.more /\ n.filter = filter
                                  /\ \A k \in net : ~k.more => k.id <= n.id

\* Without a first fetch in flight, or a filter to change, the list and every
\* captured list is of the filter that is shown.
RowsCurrent ==
    ~Fetching \/ kind.changes = {} =>
        /\ OfFilter(list, filter)
        /\ \A m \in net : m.filter = filter /\ OfFilter(m.list, filter)

\* Pages 1, 2, ... of one filter, none of them empty.
Filled(l, f) ==
    /\ OfFilter(l, f)
    /\ \A i \in DOMAIN l : l[i].page = i /\ Size(l[i].filter, l[i].page) > 0

\* What Task keeps: the requests for further pages in flight are of the list
\* on screen, and ask for its next page or for its last one once more.
RewindSound ==
    /\ list # <<>> => page = Len(list) + 1
    /\ \E f \in Filters : Filled(list, f)
    /\ \A m \in net : m.more =>
          /\ list # <<>> /\ m.list # <<>> /\ m.page = Len(m.list) + 1
          /\ Filled(list, m.filter) /\ Filled(m.list, m.filter)
          /\ page \in {m.page, m.page + 1}
    /\ \A m, n \in net : m.more /\ n.more /\ m.id < n.id =>
          n.page \in {m.page, m.page + 1}

Ordered ==
    /\ Sound /\ Numbered
    /\ Orderly => LastFetchCurrent /\ RowsCurrent
    /\ Orderly /\ kind.atEnd = "rewind" => RewindSound

\* What the proof uses of the nine screens.
Known(k) ==
    /\ k.start \in {1, 2} /\ k.resets \in BOOLEAN /\ k.focus \in BOOLEAN
    /\ k.stuck \in BOOLEAN /\ k.enough \in {0, 1, 2}
    /\ ~k.resets => k.start = 2
    /\ ~k.resets /\ ~k.focus => k.enough = 2 /\ "tap" \notin k.changes
    /\ k.resets /\ k.enough = 0 => k.start = 1 /\ k.noRecords = "show"
    /\ k.name = "Task" => k.resets
    /\ k.changes = {} => k.name # "Task"
    /\ k.noRecords \in {"show", "clear", "keep"}
    /\ k.noRecords = "keep" => k.changes = {}
    /\ k.atEnd = "rewind" => k.resets /\ k.enough = 2 /\ k.noRecords = "clear"

LEMMA KnownKinds == \A k \in Kinds : Known(k)
<1> SUFFICES ASSUME NEW k \in Listings PROVE Known(k)
  BY ConstantsAssumption DEF ConstantsAssumption
<1>1. CASE k = MyProjectListing BY <1>1 DEF MyProjectListing, Known
<1>2. CASE k = TemplateListing BY <1>2 DEF TemplateListing, Known
<1>3. CASE k = Task BY <1>3 DEF Task, Known
<1>4. CASE k = TaskListing BY <1>4 DEF TaskListing, Known
<1>5. CASE k = Invoice BY <1>5 DEF Invoice, Known
<1>6. CASE k = ProjectListing BY <1>6 DEF ProjectListing, Known
<1>7. CASE k = SearchResultTask BY <1>7 DEF SearchResultTask, Known
<1>8. CASE k = SavedItem BY <1>8 DEF SavedItem, Known
<1>9. CASE k = PostProjectStepFour BY <1>9 DEF PostProjectStepFour, Known
<1> QED BY <1>1, <1>2, <1>3, <1>4, <1>5, <1>6, <1>7, <1>8, <1>9 DEF Listings

\* The first page of a filter, and the page after a list.
LEMMA SinglePage ==
  ASSUME NEW f \in Filters, NEW p \in Nat, p >= 2
  PROVE  LET l == <<[filter |-> f, page |-> 1]>>
         IN  /\ l \in Seq(Page) /\ l # <<>>
             /\ Ascends(l, p) /\ Complete(l, 2)
  BY DEF Ascends, Complete, Page

LEMMA OneMorePage ==
  ASSUME NEW l \in Seq(Page), NEW f \in Filters, NEW p \in Nat \ {0}
  PROVE  LET l2 == Append(l, [filter |-> f, page |-> p])
         IN  /\ l2 \in Seq(Page) /\ l2 # <<>>
             /\ Ascends(l, p) => Ascends(l2, p + 1)
             /\ Complete(l, p) => Complete(l2, p + 1)
<1> DEFINE e == [filter |-> f, page |-> p]
           l2 == Append(l, e)
<1>1. e \in Page BY DEF Page
<1>2. /\ l2 \in Seq(Page) /\ Len(l2) = Len(l) + 1 /\ l2 # <<>>
      /\ DOMAIN l = 1 .. Len(l) /\ DOMAIN l2 = 1 .. Len(l) + 1
      /\ \A i \in 1 .. Len(l) : l2[i] = l[i]
      /\ l2[Len(l) + 1] = e
  BY <1>1
<1>8. \A i \in 1 .. Len(l) : l[i] \in Page OBVIOUS
<1>3. \A i \in DOMAIN l : l[i].page \in Nat
  <2> HIDE DEF l2
  <2> QED BY <1>2, <1>8 DEF Page
<1>4. e.page = p OBVIOUS
<1>5. Len(l) \in Nat OBVIOUS
<1> HIDE DEF l2, e
<1>6. ASSUME Ascends(l, p) PROVE Ascends(l2, p + 1)
  BY <1>2, <1>3, <1>4, <1>5, <1>6 DEF Ascends
<1>7. ASSUME Complete(l, p) PROVE Complete(l2, p + 1)
  BY <1>2, <1>4, <1>5, <1>7 DEF Complete
<1> QED BY <1>2, <1>6, <1>7 DEF l2, e

\* A first fetch carries no list.
LEMMA FirstPageSound ==
  ASSUME NEW i \in Nat, NEW f \in Filters
  PROVE  /\ FirstPage(i, f) \in Request
         /\ ~FirstPage(i, f).more
<1>1. <<>> \in Seq(Page) OBVIOUS
<1> QED BY <1>1 DEF FirstPage, Request

-----------------------------------------------------------------------------
LEMMA InitSound == Init => Sound
<1> SUFFICES ASSUME Init PROVE Sound OBVIOUS
<1>1. Known(kind) /\ kind \in Kinds BY KnownKinds DEF Init
<1>2. TypeOK
  <2>1. net \subseteq Request
    <3>1. \A f \in Filters : /\ FirstPage(1, f) \in Request
                             /\ FirstPage(2, f) \in Request
      BY FirstPageSound
    <3> QED BY <3>1 DEF Init
  <2>2. list \in Seq(Page) BY DEF Init
  <2>3. page \in Nat \ {0} BY <1>1 DEF Init, Known
  <2>4. hist \in History BY DEF Init, History
  <2>5. loader \in BOOLEAN /\ spinner \in BOOLEAN /\ ended \in BOOLEAN
    BY DEF Init
  <2>6. filter \in Filters BY DEF Init
  <2>7. sent \in Nat
    <3>1. sent = 1 \/ sent = 2 BY Zenon DEF Init
    <3> QED BY <3>1
  <2> QED BY <1>1, <2>1, <2>2, <2>3, <2>4, <2>5, <2>6, <2>7, Zenon DEF TypeOK
<1>3. ListSound
  BY <1>1 DEF Init, ListSound, Known, Ascends, Complete, Exact, Restarts
<1>4. NetSound
  <2> SUFFICES ASSUME NEW m \in net
               PROVE  ~m.more /\ (Once => net = {m} /\ list = <<>> /\ page = 2)
    BY DEF NetSound
  <2>1. ~m.more BY DEF Init, FirstPage
  <2>2. Once => kind.name # "Task" /\ page = 2 BY <1>1 DEF Init, Known, Once
  <2>3. kind.name # "Task" => net = {m} BY DEF Init
  <2> QED BY <2>1, <2>2, <2>3 DEF Init
<1>5. CoverSound
  <2>1. \A f \in Filters : ~FirstPage(1, f).more BY FirstPageSound
  <2>2. \E m \in net : ~m.more BY <2>1 DEF Init
  <2> QED BY <2>2 DEF Init, CoverSound
<1> QED BY <1>2, <1>3, <1>4, <1>5 DEF Sound

-----------------------------------------------------------------------------
\* First fetches are added to the network, the list stays.
LEMMA FetchSound ==
  ASSUME Sound, NEW R, R \subseteq Request, R # {}, \A r \in R : ~r.more,
         net' = net \union R, ~Once, loader' \in BOOLEAN, filter' \in Filters,
         sent' \in Nat, UNCHANGED <<kind, list, page, spinner, ended, hist>>
  PROVE  Sound'
<1>1. TypeOK' BY DEF Sound, TypeOK
<1>2. ListSound'
  BY DEF Sound, ListSound, Ascends, Complete, Exact, Restarts
<1>3. NetSound'
  BY DEF Sound, NetSound, Ascends, Complete, Exact, Restarts, Once
<1>4. CoverSound' BY DEF Sound, CoverSound
<1> QED BY <1>1, <1>2, <1>3, <1>4 DEF Sound

LEMMA OneFetchSound ==
  ASSUME Sound, ~Once, NEW f \in Filters, Fetch(f), filter' \in Filters,
         UNCHANGED <<kind, list, page, spinner, ended, hist>>
  PROVE  Sound'
<1> DEFINE R == {FirstPage(sent + 1, f)}
<1>1. sent \in Nat BY DEF Sound, TypeOK
<1>2. R \subseteq Request /\ \A r \in R : ~r.more BY <1>1, FirstPageSound
<1>3. R # {} /\ net' = net \union R BY DEF Fetch
<1>4. sent' \in Nat BY <1>1 DEF Fetch
<1>5. loader' \in BOOLEAN
  <2>1. loader' = (loader \/ kind.overlay # "opening") BY DEF Fetch
  <2> QED BY <2>1, Zenon
<1> HIDE DEF R
<1> QED BY <1>2, <1>3, <1>4, <1>5, FetchSound

LEMMA ChangeFilterSound ==
  ASSUME Sound, NEW f \in Filters, ChangeFilter(f) PROVE Sound'
<1>1. Known(kind) BY KnownKinds DEF Sound, TypeOK
<1>2. ~Once BY <1>1 DEF ChangeFilter, Known, Once
<1> QED BY <1>2, OneFetchSound DEF ChangeFilter

LEMMA RefocusSound == ASSUME Sound, Refocus PROVE Sound'
<1>1. sent \in Nat /\ filter \in Filters BY DEF Sound, TypeOK
<1>2. ~Once BY DEF Refocus, Once
<1>3. UNCHANGED <<kind, list, page, spinner, ended, hist>> BY DEF Refocus
<1>4. ASSUME NEW f \in Filters, filter' = f, Fetch(f) PROVE Sound'
  BY <1>2, <1>3, <1>4, OneFetchSound
<1>5. ASSUME NEW f \in Filters, filter' = f,
             net' = net \union {FirstPage(sent + 1, filter),
                                FirstPage(sent + 2, f)},
             sent' = sent + 2, loader' = TRUE
      PROVE  Sound'
  <2> DEFINE R == {FirstPage(sent + 1, filter), FirstPage(sent + 2, f)}
  <2>1. R \subseteq Request /\ \A r \in R : ~r.more BY <1>1, FirstPageSound
  <2>2. R # {} /\ net' = net \union R BY <1>5
  <2>3. sent' \in Nat /\ loader' \in BOOLEAN BY <1>1, <1>5
  <2> HIDE DEF R
  <2> QED BY <1>2, <1>3, <1>5, <2>1, <2>2, <2>3, FetchSound
<1>6. PICK f \in Filters :
        /\ filter' = f
        /\ \/ /\ net' = net \union {FirstPage(sent + 1, filter),
                                   FirstPage(sent + 2, f)}
              /\ sent' = sent + 2
              /\ loader' = TRUE
           \/ Fetch(f)
  BY <1>1 DEF Refocus
<1> QED BY <1>4, <1>5, <1>6

LEMMA OnEndReachedHandlerSound ==
  ASSUME Sound, OnEndReachedHandler PROVE Sound'
<1>1. TypeOK /\ ListSound /\ NetSound /\ CoverSound BY DEF Sound
<1>2. Known(kind) BY <1>1, KnownKinds DEF TypeOK
<1>3. UNCHANGED <<kind, filter, list, page, loader>> /\ ended' = TRUE
  BY DEF OnEndReachedHandler, view
<1>4. CASE UNCHANGED <<net, sent, spinner, hist>>
  <2>1. TypeOK' BY <1>1, <1>3, <1>4 DEF TypeOK
  <2>2. ListSound'
    BY <1>1, <1>3, <1>4 DEF ListSound, Ascends, Complete, Exact, Restarts
  <2>3. NetSound'
    BY <1>1, <1>3, <1>4 DEF NetSound, Ascends, Complete, Exact, Restarts, Once
  <2>4. CoverSound' BY <1>1, <1>3, <1>4 DEF CoverSound
  <2> QED BY <2>1, <2>2, <2>3, <2>4 DEF Sound
<1>5. CASE AtLeast(list, kind.enough)
  <2> DEFINE r == [id |-> sent + 1, more |-> TRUE, filter |-> filter,
                   page |-> page, list |-> list]
  <2>1. /\ net' = net \union {r} /\ sent' = sent + 1 /\ spinner' = TRUE
        /\ hist' = [hist EXCEPT !.early = @ \/ Fetching]
    BY <1>5 DEF OnEndReachedHandler
  <2>2. r \in Request BY <1>1 DEF TypeOK, Request
  <2>3. r.more /\ r.list = list /\ r.page = page OBVIOUS
  <2>4. hist' \in History BY <1>1, <2>1 DEF TypeOK, History, Fetching
  <2>5. hist'.failed = hist.failed BY <1>1, <2>1 DEF TypeOK, History
  <2>6. list # <<>> \/ kind.enough = 0
    BY <1>1, <1>5 DEF AtLeast, TypeOK
  <2>7. Exact => Complete(list, page)
    <3>1. CASE list = <<>>
      BY <1>1, <2>6, <3>1 DEF ListSound, Complete, Exact
    <3> QED BY <1>1, <3>1 DEF ListSound
  <2>8. Once => \A m \in net : m.more
    BY <1>1, <1>2, <2>6 DEF NetSound, Once, Known, TypeOK, Request
  <2> HIDE DEF r
  <2>9. TypeOK' BY <1>1, <1>3, <2>1, <2>2, <2>4 DEF TypeOK
  <2>10. ListSound'
    BY <1>1, <1>3 DEF ListSound, Ascends, Complete, Exact, Restarts
  <2>11. NetSound'
    <3> SUFFICES ASSUME NEW m \in net'
                 PROVE  /\ m.more /\ kind.atEnd # "rewind"
                             => Ascends(m.list, m.page)
                        /\ m.more /\ Exact => Complete(m.list, m.page)
                        /\ ~m.more => ~Once
      BY <1>3 DEF NetSound, Exact, Restarts, Once, Ascends, Complete
    <3>1. CASE m = r
      BY <1>1, <2>3, <2>7, <3>1 DEF ListSound
    <3>2. CASE m \in net BY <1>1, <2>8, <3>2 DEF NetSound
    <3> QED BY <2>1, <3>1, <3>2
  <2>12. CoverSound' BY <1>1, <1>3, <2>1, <2>3 DEF CoverSound
  <2> QED BY <2>9, <2>10, <2>11, <2>12 DEF Sound
<1> QED BY <1>4, <1>5 DEF OnEndReachedHandler

-----------------------------------------------------------------------------
LEMMA ShowFirstPageSound ==
  ASSUME Sound, NEW m \in net, Deliver(m), ShowFirstPage(m) PROVE Sound'
<1>1. TypeOK /\ ListSound /\ NetSound /\ CoverSound BY DEF Sound
<1>2. Known(kind) BY <1>1, KnownKinds DEF TypeOK
<1>3. m \in Request /\ ~m.more /\ m.filter \in Filters
  BY <1>1 DEF TypeOK, Request, ShowFirstPage
<1>4. /\ net' = net \ {m} /\ loader' = FALSE
      /\ UNCHANGED <<kind, filter, ended, sent, spinner>>
  BY DEF Deliver, ShowFirstPage
<1>5. hist' \in History /\ hist'.failed = hist.failed
  BY <1>1 DEF Deliver, TypeOK, History
<1> DEFINE l == <<[filter |-> m.filter, page |-> 1]>>
<1>6. \/ list' = l /\ page' = IF kind.resets THEN 2 ELSE page
      \/ list' = <<>> /\ page' = page /\ kind.noRecords # "show"
      \/ list' = list /\ page' = page
  BY DEF ShowFirstPage
<1>7. page \in Nat \ {0} /\ list \in Seq(Page) BY <1>1 DEF TypeOK
<1>8. l \in Seq(Page) /\ l # <<>> /\ Ascends(l, 2) /\ Complete(l, 2)
  BY <1>3, SinglePage
<1>9. Ascends(<<>>, page) BY DEF Ascends
<1>10. Exact /\ ~kind.resets => page = 2
  BY <1>1, <1>3 DEF NetSound, Exact, Restarts, Once
<1> HIDE DEF l
<1>11. TypeOK'
  <2>3. <<>> \in Seq(Page) OBVIOUS
  <2>1. list' \in Seq(Page) BY <1>6, <1>7, <1>8, <2>3
  <2>2. page' \in Nat \ {0} BY <1>6, <1>7
  <2> QED BY <1>1, <1>4, <1>5, <2>1, <2>2 DEF TypeOK
<1>12. ListSound'
  <2>1. CASE list' = l /\ page' = IF kind.resets THEN 2 ELSE page
    <3>1. page' \in Nat /\ page' >= 2
      BY <1>1, <1>7, <2>1 DEF ListSound
    <3>2. Ascends(list', page') BY <1>3, <2>1, <3>1, SinglePage DEF l
    <3>3. Exact' => Complete(list', page')
      BY <1>2, <1>4, <1>8, <1>10, <2>1 DEF Exact, Restarts, Known
    <3> QED BY <1>8, <2>1, <3>1, <3>2, <3>3 DEF ListSound, Ascends, Complete
  <2>2. CASE list' = <<>> /\ page' = page /\ kind.noRecords # "show"
    <3>1. ~(Exact /\ kind.enough = 0)
      BY <1>2, <2>2 DEF Exact, Restarts, Known
    <3> QED BY <1>1, <1>4, <2>2, <3>1
            DEF ListSound, Ascends, Complete, Exact, Restarts
  <2>3. CASE list' = list /\ page' = page
    BY <1>1, <1>4, <2>3 DEF ListSound, Ascends, Complete, Exact, Restarts
  <2> QED BY <1>6, <2>1, <2>2, <2>3
<1>13. NetSound'
  <2> SUFFICES ASSUME NEW n \in net'
               PROVE  /\ n.more /\ kind.atEnd # "rewind"
                           => Ascends(n.list, n.page)
                      /\ n.more /\ Exact => Complete(n.list, n.page)
                      /\ ~n.more => ~Once
    BY <1>4 DEF NetSound, Exact, Restarts, Once, Ascends, Complete
  <2>1. n \in net /\ n # m BY <1>4
  <2>2. Once => net = {m} BY <1>1, <1>3 DEF NetSound
  <2> QED BY <1>1, <2>1, <2>2 DEF NetSound
<1>14. CoverSound' BY <1>1, <1>3, <1>4, <1>5 DEF CoverSound
<1> QED BY <1>11, <1>12, <1>13, <1>14 DEF Sound

LEMMA ShowMoreSound ==
  ASSUME Sound, NEW m \in net, Deliver(m), ShowMore(m) PROVE Sound'
<1>1. TypeOK /\ ListSound /\ NetSound /\ CoverSound BY DEF Sound
<1>2. Known(kind) BY <1>1, KnownKinds DEF TypeOK
<1>3. /\ m \in Request /\ m.more /\ m.filter \in Filters
      /\ m.page \in Nat \ {0} /\ m.list \in Seq(Page)
  BY <1>1 DEF TypeOK, Request, ShowMore
<1>4. /\ net' = net \ {m} /\ spinner' = FALSE
      /\ UNCHANGED <<kind, filter, ended, sent, loader>>
  BY DEF Deliver, ShowMore
<1>5. hist' \in History /\ hist'.failed = hist.failed
  BY <1>1 DEF Deliver, TypeOK, History
<1> DEFINE l == Append(m.list, [filter |-> m.filter, page |-> m.page])
<1>6. \/ list' = l /\ page' = m.page + 1
      \/ list' = m.list /\ page' = page /\ kind.atEnd = "rewind"
      \/ list' = list /\ page' = page
  BY DEF ShowMore
<1>7. page \in Nat \ {0} /\ list \in Seq(Page) BY <1>1 DEF TypeOK
<1>8. /\ l \in Seq(Page) /\ l # <<>>
      /\ Ascends(m.list, m.page) => Ascends(l, m.page + 1)
      /\ Complete(m.list, m.page) => Complete(l, m.page + 1)
  BY <1>3, OneMorePage
<1> HIDE DEF l
<1>9. TypeOK'
  <2>1. list' \in Seq(Page) BY <1>3, <1>6, <1>7, <1>8
  <2>2. page' \in Nat \ {0} BY <1>3, <1>6, <1>7
  <2> QED BY <1>1, <1>4, <1>5, <2>1, <2>2 DEF TypeOK
<1>10. ListSound'
  <2>1. CASE list' = l /\ page' = m.page + 1
    <3>1. page' >= 2 BY <1>3, <2>1
    <3>2. kind.atEnd # "rewind" => Ascends(l, m.page + 1)
      BY <1>1, <1>3, <1>8 DEF NetSound
    <3>3. Exact => Complete(l, m.page + 1)
      BY <1>1, <1>3, <1>8 DEF NetSound
    <3> QED BY <1>4, <1>8, <2>1, <3>1, <3>2, <3>3
            DEF ListSound, Ascends, Complete, Exact, Restarts
  <2>2. CASE list' = m.list /\ page' = page /\ kind.atEnd = "rewind"
    BY <1>1, <1>4, <2>2 DEF ListSound, Exact, Restarts
  <2>3. CASE list' = list /\ page' = page
    BY <1>1, <1>4, <2>3 DEF ListSound, Ascends, Complete, Exact, Restarts
  <2> QED BY <1>6, <2>1, <2>2, <2>3
<1>11. NetSound'
  <2> SUFFICES ASSUME NEW n \in net'
               PROVE  /\ n.more /\ kind.atEnd # "rewind"
                           => Ascends(n.list, n.page)
                      /\ n.more /\ Exact => Complete(n.list, n.page)
                      /\ ~n.more => ~Once
    BY <1>4 DEF NetSound, Exact, Restarts, Once, Ascends, Complete
  <2>1. n \in net /\ n # m BY <1>4
  <2>2. ~n.more => ~Once BY <1>1, <1>3, <2>1 DEF NetSound
  <2> QED BY <1>1, <2>1, <2>2 DEF NetSound
<1>12. CoverSound' BY <1>1, <1>3, <1>4, <1>5 DEF CoverSound
<1> QED BY <1>9, <1>10, <1>11, <1>12 DEF Sound

LEMMA FailSound == ASSUME Sound, NEW m \in net, Fail(m) PROVE Sound'
<1>1. TypeOK /\ ListSound /\ NetSound /\ CoverSound BY DEF Sound
<1>2. /\ net' = net \ {m}
      /\ UNCHANGED <<kind, filter, list, page, ended, sent>>
  BY DEF Fail, view
<1>3. hist' \in History /\ hist'.failed = TRUE
  BY <1>1 DEF Fail, TypeOK, History
<1>4. loader' \in BOOLEAN /\ spinner' \in BOOLEAN
  <2>1. loader' = (loader /\ (m.more \/ kind.overlay = "skeleton")) BY DEF Fail
  <2>2. spinner' = (spinner /\ (~m.more \/ kind.stuck)) BY DEF Fail
  <2> QED BY <2>1, <2>2, Zenon
<1>5. TypeOK' BY <1>1, <1>2, <1>3, <1>4 DEF TypeOK
<1>6. ListSound'
  BY <1>1, <1>2 DEF ListSound, Ascends, Complete, Exact, Restarts
<1>7. NetSound'
  <2> SUFFICES ASSUME NEW n \in net'
               PROVE  /\ n.more /\ kind.atEnd # "rewind"
                           => Ascends(n.list, n.page)
                      /\ n.more /\ Exact => Complete(n.list, n.page)
                      /\ ~n.more => ~Once
    BY <1>2 DEF NetSound, Exact, Restarts, Once, Ascends, Complete
  <2>1. n \in net /\ n # m BY <1>2
  <2>2. ~n.more => ~Once BY <1>1, <2>1 DEF NetSound
  <2> QED BY <1>1, <2>1, <2>2 DEF NetSound
<1>8. CoverSound'
  <2>1. loader' => kind.overlay = "skeleton" \/ \E n \in net' : ~n.more
    BY <1>1, <1>2 DEF CoverSound, Fail
  <2>2. spinner' => kind.stuck \/ \E n \in net' : n.more
    BY <1>1, <1>2 DEF CoverSound, Fail
  <2> QED BY <1>2, <1>3, <2>1, <2>2 DEF CoverSound
<1> QED BY <1>5, <1>6, <1>7, <1>8 DEF Sound

-----------------------------------------------------------------------------
LEMMA StepSound == Sound /\ [Next]_vars => Sound'
<1> SUFFICES ASSUME Sound, [Next]_vars PROVE Sound' OBVIOUS
<1>1. ASSUME UNCHANGED <<kind, filter, list, page, net, sent, hist>>,
             loader' \in BOOLEAN, loader' => loader,
             UNCHANGED spinner, ended' \in BOOLEAN
      PROVE  Sound'
  BY <1>1 DEF Sound, TypeOK, ListSound, NetSound, CoverSound, Ascends,
              Complete, Exact, Restarts, Once
<1>2. loader \in BOOLEAN /\ ended \in BOOLEAN BY DEF Sound, TypeOK
<1>3. CASE UNCHANGED vars BY <1>1, <1>2, <1>3 DEF vars, view
<1>4. CASE MomentumScrollBegin
  BY <1>1, <1>2, <1>4 DEF MomentumScrollBegin, view
<1>5. CASE OtherTab BY <1>1, <1>2, <1>5 DEF OtherTab, view
<1>6. CASE \E m \in net : Deliver(m) \/ Fail(m)
  BY <1>6, FailSound, ShowFirstPageSound, ShowMoreSound DEF Deliver
<1> QED
  BY <1>3, <1>4, <1>5, <1>6, ChangeFilterSound, RefocusSound,
     OnEndReachedHandlerSound DEF Next

-----------------------------------------------------------------------------
(* The order of the requests.                                              *)

LEMMA InitOrdered == Init => Ordered
<1> SUFFICES ASSUME Init PROVE Ordered OBVIOUS
<1>1. Sound BY InitSound
<1>2. list = <<>> /\ Known(kind) BY KnownKinds DEF Init
<1>3. PICK g \in Filters :
        \/ /\ kind.name = "Task" /\ sent = 2
           /\ net = {FirstPage(1, g), FirstPage(2, filter)}
        \/ net = {FirstPage(1, filter)} /\ sent = 1
  BY DEF Init
<1>4. \A m \in net : ~m.more /\ m.list = <<>> BY <1>3 DEF FirstPage
<1> DEFINE q == FirstPage(1, g)
           r == FirstPage(1, filter)
           t == FirstPage(2, filter)
<1>9. /\ q.id = 1 /\ r.id = 1 /\ t.id = 2 /\ ~r.more /\ ~t.more
      /\ r.filter = filter /\ t.filter = filter
  BY DEF FirstPage
<1>10. \/ kind.name = "Task" /\ sent = 2 /\ net = {q, t}
       \/ net = {r} /\ sent = 1
  BY <1>3
<1> HIDE DEF q, r, t
<1>5. Numbered BY <1>9, <1>10 DEF Numbered
<1>6. LastFetchCurrent BY <1>4, <1>9, <1>10 DEF LastFetchCurrent
<1>7. RowsCurrent
  <2>1. kind.changes = {} => \A m \in net : m.filter = filter
    BY <1>2, <1>9, <1>10 DEF Known
  <2>2. Fetching BY <1>3, <1>4 DEF Fetching
  <2> QED BY <1>2, <1>4, <2>1, <2>2 DEF RowsCurrent, OfFilter
<1>8. RewindSound
  BY <1>2, <1>4 DEF RewindSound, Filled, OfFilter, Init
<1> QED BY <1>1, <1>5, <1>6, <1>7, <1>8 DEF Ordered

\* First fetches are sent, the last of them with the filter that is shown.
LEMMA FetchOrdered ==
  ASSUME Ordered, Sound', NEW R, NEW r \in R, net' = net \union R,
         r.filter = filter', r.id = sent',
         \A k \in R : /\ ~k.more /\ k.list = <<>>
                      /\ k.id \in Nat /\ sent < k.id /\ k.id <= sent',
         \A k, n \in R : k.id = n.id => k = n,
         kind.changes = {} =>
            filter' = filter /\ \A k \in R : k.filter = filter,
         UNCHANGED <<kind, list, page, hist>>
  PROVE  Ordered'
<1>1. /\ sent \in Nat /\ sent' \in Nat /\ Numbered
      /\ \A m \in net : m.id \in Nat
  BY DEF Ordered, Sound, TypeOK, Request
<1>2. Numbered' BY <1>1 DEF Numbered
<1>3. Orderly' = Orderly BY DEF Orderly
<1>4. Fetching' BY DEF Fetching
<1>5. ASSUME Orderly PROVE LastFetchCurrent' /\ RowsCurrent'
  <2>1. LastFetchCurrent /\ RowsCurrent BY <1>5 DEF Ordered
  <2>2. \A m, n \in net' : m.more /\ ~n.more => m.id < n.id
    BY <1>1, <2>1 DEF LastFetchCurrent, Numbered
  <2>3. \A k \in net' : k.id <= r.id BY <1>1 DEF Numbered
  <2>4. LastFetchCurrent' BY <2>2, <2>3 DEF LastFetchCurrent
  <2>5. RowsCurrent' BY <1>4, <2>1 DEF RowsCurrent, OfFilter
  <2> QED BY <2>4, <2>5
<1>6. ASSUME Orderly, kind.atEnd = "rewind" PROVE RewindSound'
  <2>1. RewindSound BY <1>6 DEF Ordered
  <2>2. \A m \in net' : m.more => m \in net OBVIOUS
  <2> QED BY <2>1, <2>2 DEF RewindSound, Filled, OfFilter
<1> QED BY <1>2, <1>3, <1>5, <1>6 DEF Ordered

LEMMA OneFetchOrdered ==
  ASSUME Ordered, Sound', Fetch(filter'), filter' \in Filters,
         kind.changes = {} => filter' = filter,
         UNCHANGED <<kind, list, page, hist>>
  PROVE  Ordered'
<1> DEFINE r == FirstPage(sent + 1, filter')
<1>1. sent \in Nat BY DEF Ordered, Sound, TypeOK
<1>2. /\ r.filter = filter' /\ r.id = sent + 1 /\ ~r.more /\ r.list = <<>>
  BY DEF FirstPage
<1> DEFINE R == {r}
<1>3. r \in R /\ net' = net \union R /\ sent' = sent + 1 BY DEF Fetch
<1>4. \A k \in R : /\ ~k.more /\ k.list = <<>> /\ k.filter = filter'
                    /\ k.id \in Nat /\ sent < k.id /\ k.id <= sent'
  BY <1>1, <1>2, <1>3
<1>5. \A k, n \in R : k.id = n.id => k = n OBVIOUS
<1>6. kind.changes = {} =>
        filter' = filter /\ \A k \in R : k.filter = filter
  BY <1>4
<1> HIDE DEF r, R
<1> QED BY <1>1, <1>2, <1>3, <1>4, <1>5, <1>6, FetchOrdered

LEMMA RefocusOrdered == ASSUME Ordered, Sound', Refocus PROVE Ordered'
<1>1. sent \in Nat /\ filter \in Filters /\ Known(kind)
  BY KnownKinds DEF Ordered, Sound, TypeOK
<1>2. UNCHANGED <<kind, list, page, hist>> BY DEF Refocus
<1>3. PICK f \in IF "params" \in kind.changes THEN Filters ELSE {filter} :
        /\ filter' = f
        /\ \/ /\ kind.name = "Task"
              /\ net' = net \union {FirstPage(sent + 1, filter),
                                    FirstPage(sent + 2, f)}
              /\ sent' = sent + 2
           \/ Fetch(f)
  BY DEF Refocus
<1>4. f \in Filters /\ (kind.changes = {} => f = filter) BY <1>1
<1>5. CASE Fetch(f) BY <1>2, <1>3, <1>4, <1>5, OneFetchOrdered
<1>6. CASE /\ kind.name = "Task"
           /\ net' = net \union {FirstPage(sent + 1, filter),
                                 FirstPage(sent + 2, f)}
           /\ sent' = sent + 2
  <2> DEFINE q == FirstPage(sent + 1, filter)
             r == FirstPage(sent + 2, f)
  <2>1. /\ r.filter = f /\ r.id = sent + 2 /\ ~r.more /\ r.list = <<>>
        /\ q.id = sent + 1 /\ ~q.more /\ q.list = <<>>
    BY DEF FirstPage
  <2> DEFINE R == {q, r}
  <2>2. r \in R /\ net' = net \union R /\ sent' = sent + 2 BY <1>6
  <2>3. kind.changes # {} BY <1>1, <1>6 DEF Known
  <2> HIDE DEF q, r
  <2>4. \A k \in R : /\ ~k.more /\ k.list = <<>>
                      /\ k.id \in Nat /\ sent < k.id /\ k.id <= sent'
    BY <1>1, <2>1, <2>2
  <2>5. \A k, n \in R : k.id = n.id => k = n BY <1>1, <2>1
  <2> HIDE DEF R
  <2> QED BY <1>1, <1>2, <1>3, <2>1, <2>2, <2>3, <2>4, <2>5, FetchOrdered
<1> QED BY <1>3, <1>5, <1>6

LEMMA OnEndReachedHandlerOrdered ==
  ASSUME Ordered, Sound', OnEndReachedHandler PROVE Ordered'
<1>1. /\ sent \in Nat /\ filter \in Filters /\ list \in Seq(Page)
      /\ page \in Nat /\ Known(kind) /\ Numbered
      /\ \A m \in net : m \in Request /\ m.id \in Nat
  BY KnownKinds DEF Ordered, Sound, TypeOK, Request
<1>2. UNCHANGED <<kind, filter, list, page>> BY DEF OnEndReachedHandler, view
<1>3. CASE UNCHANGED <<net, sent, spinner, hist>>
  BY <1>2, <1>3 DEF Ordered, Orderly, Numbered, LastFetchCurrent, Fetching,
                    RowsCurrent, OfFilter, RewindSound, Filled
<1>4. CASE AtLeast(list, kind.enough)
  <2> DEFINE r == [id |-> sent + 1, more |-> TRUE, filter |-> filter,
                   page |-> page, list |-> list]
  <2>1. /\ net' = net \union {r} /\ sent' = sent + 1
        /\ hist' = [hist EXCEPT !.early = @ \/ Fetching]
    BY <1>4 DEF OnEndReachedHandler
  <2>2. /\ r.more /\ r.id = sent + 1 /\ r.filter = filter /\ r.list = list
        /\ r.page = page
    OBVIOUS
  <2> HIDE DEF r
  <2>3. Orderly' => Orderly /\ ~Fetching
    BY <2>1 DEF Orderly, Ordered, Sound, TypeOK, History
  <2>4. Numbered' BY <1>1, <2>1, <2>2 DEF Numbered
  <2>5. ASSUME Orderly' PROVE LastFetchCurrent' /\ RowsCurrent'
    <3>1. RowsCurrent /\ ~Fetching BY <2>3, <2>5 DEF Ordered
    <3>2. \A n \in net' : n.more BY <2>1, <2>2, <3>1 DEF Fetching
    <3>3. LastFetchCurrent' BY <3>2 DEF LastFetchCurrent, Fetching
    <3>4. RowsCurrent'
      BY <1>2, <2>1, <2>2, <3>1 DEF RowsCurrent, OfFilter
    <3> QED BY <3>3, <3>4
  <2>6. ASSUME Orderly', kind.atEnd = "rewind" PROVE RewindSound'
    <3>1. RewindSound /\ OfFilter(list, filter)
      BY <2>3, <2>6 DEF Ordered, RowsCurrent
    <3>2. list # <<>>
      BY <1>1, <1>4, <2>6 DEF AtLeast, Known
    <3>3. Filled(list, filter)
      BY <3>1 DEF RewindSound, Filled
    <3>4. \A m \in net : m.id < r.id BY <1>1, <2>2 DEF Numbered
    <3>5. \A m \in net' : m.more =>
            /\ list # <<>> /\ m.list # <<>> /\ m.page = Len(m.list) + 1
            /\ Filled(list, m.filter) /\ Filled(m.list, m.filter)
            /\ page \in {m.page, m.page + 1}
      BY <2>1, <2>2, <3>1, <3>2, <3>3 DEF RewindSound
    <3>6. \A m, n \in net' : m.more /\ n.more /\ m.id < n.id =>
            n.page \in {m.page, m.page + 1}
      BY <1>1, <2>1, <2>2, <3>1, <3>4 DEF RewindSound
    <3> QED BY <1>2, <3>1, <3>5, <3>6 DEF RewindSound, Filled, OfFilter
  <2> QED BY <1>2, <2>3, <2>4, <2>5, <2>6 DEF Ordered
<1> QED BY <1>3, <1>4 DEF OnEndReachedHandler

\* A request leaves the network: what that does to the order.
LEMMA Leaves ==
  ASSUME Ordered, NEW m \in net, net' = net \ {m}, sent' = sent
  PROVE  Numbered'
  BY DEF Ordered, Numbered

\* An answer that overtakes no older request is the oldest.
LEMMA OldestDelivered ==
  ASSUME Ordered, NEW m \in net, Deliver(m), Orderly'
  PROVE  Orderly /\ \A n \in net : n # m => m.id < n.id
<1>1. /\ hist \in History /\ Numbered
      /\ \A n \in net : n.id \in Nat
  BY DEF Ordered, Sound, TypeOK, Request
<1>2. hist' = [hist EXCEPT !.crossed = @ \/ \E n \in net : n.id < m.id]
  BY DEF Deliver
<1>3. Orderly /\ ~ \E n \in net : n.id < m.id
  BY <1>1, <1>2 DEF Orderly, History
<1> QED BY <1>1, <1>3 DEF Numbered

LEMMA ShowFirstPageOrdered ==
  ASSUME Ordered, Sound', NEW m \in net, Deliver(m), ShowFirstPage(m)
  PROVE  Ordered'
<1>1. /\ Known(kind) /\ \A n \in net : n.id \in Nat
      /\ m.filter \in Filters /\ list \in Seq(Page)
  BY KnownKinds DEF Ordered, Sound, TypeOK, Request
<1>2. net' = net \ {m} /\ UNCHANGED <<kind, filter, sent>> /\ ~m.more
  BY DEF Deliver, ShowFirstPage
<1>3. Numbered' BY <1>2, Leaves
<1> DEFINE l == <<[filter |-> m.filter, page |-> 1]>>
<1>4. \/ /\ list' = l /\ page' = IF kind.resets THEN 2 ELSE page
         /\ kind.noRecords = "clear" => Size(m.filter, 1) > 0
      \/ list' = <<>>
      \/ list' = list /\ kind.noRecords = "keep"
  <2>1. kind.noRecords \in {"show", "clear", "keep"} BY <1>1 DEF Known
  <2> QED BY <2>1 DEF ShowFirstPage
<1>5. OfFilter(l, m.filter) BY DEF OfFilter
<1>6. l # <<>> /\ Len(l) = 1 BY <1>1
<1>7. Size(m.filter, 1) > 0 => Filled(l, m.filter) BY <1>5 DEF Filled
<1> HIDE DEF l
<1>8. ASSUME Orderly'
      PROVE  Orderly /\ \A n \in net : n # m => ~n.more /\ m.id < n.id
  BY <1>1, <1>2, <1>8, OldestDelivered DEF Ordered, LastFetchCurrent
<1>9. ASSUME Orderly' PROVE LastFetchCurrent' /\ RowsCurrent'
  <2>1. LastFetchCurrent /\ RowsCurrent BY <1>8, <1>9 DEF Ordered
  <2>2. PICK n \in net : /\ ~n.more /\ n.filter = filter
                         /\ \A k \in net : ~k.more => k.id <= n.id
    BY <1>2, <2>1 DEF LastFetchCurrent, Fetching
  <2>3. \A k \in net' : ~k.more /\ k \in net /\ m.id < k.id
    BY <1>2, <1>8, <1>9
  <2>4. CASE net' = {}
    <3>1. n = m BY <1>2, <2>4
    <3>2. ~Fetching' BY <2>4 DEF Fetching
    <3>3. OfFilter(list', filter')
      <4>1. CASE list' = l BY <1>2, <1>5, <2>2, <3>1, <4>1
      <4>2. CASE list' = <<>> BY <4>2 DEF OfFilter
      <4>3. CASE list' = list /\ kind.noRecords = "keep"
        BY <1>1, <1>2, <2>1, <4>3 DEF RowsCurrent, Known
      <4> QED BY <1>4, <4>1, <4>2, <4>3
    <3> QED BY <2>4, <3>2, <3>3 DEF LastFetchCurrent, RowsCurrent
  <2>5. CASE net' # {}
    <3>1. n # m BY <1>1, <2>2, <2>3, <2>5, <1>2
    <3>2. n \in net' /\ Fetching' BY <1>2, <2>2, <3>1 DEF Fetching
    <3>3. LastFetchCurrent' BY <1>2, <2>2, <2>3, <3>2 DEF LastFetchCurrent
    <3>4. ASSUME kind.changes = {} PROVE OfFilter(list', filter')
      <4>1. m.filter = filter /\ OfFilter(list, filter)
        BY <2>1, <3>4 DEF RowsCurrent
      <4>2. CASE list' = <<>> BY <4>2 DEF OfFilter
      <4> QED BY <1>2, <1>4, <1>5, <4>1, <4>2
    <3>5. RowsCurrent' BY <1>2, <2>1, <3>2, <3>4 DEF RowsCurrent
    <3> QED BY <3>3, <3>5
  <2> QED BY <2>4, <2>5
<1>10. ASSUME Orderly', kind.atEnd = "rewind" PROVE RewindSound'
  <2>1. \A n \in net' : ~n.more BY <1>2, <1>8, <1>10
  <2>2. kind.resets /\ kind.noRecords = "clear" BY <1>1, <1>10 DEF Known
  <2>3. list' # <<>> => page' = Len(list') + 1
    <3>1. list' # <<>> => list' = l /\ page' = 2 BY <1>4, <2>2
    <3>2. Len(l) + 1 = 2 BY <1>6
    <3> QED BY <3>1, <3>2, Zenon
  <2>4. \E f \in Filters : Filled(list', f)
    <3>1. CASE list' = <<>> BY <1>1, <3>1 DEF Filled, OfFilter
    <3> QED BY <1>1, <1>4, <1>7, <2>2, <3>1
  <2> QED BY <2>1, <2>3, <2>4 DEF RewindSound, Filled, OfFilter
<1> QED BY <1>2, <1>3, <1>9, <1>10 DEF Ordered

LEMMA ShowMoreOrdered ==
  ASSUME Ordered, Sound', NEW m \in net, Deliver(m), ShowMore(m)
  PROVE  Ordered'
<1>1. /\ Known(kind) /\ \A n \in net : n.id \in Nat /\ n.page \in Nat
      /\ m.filter \in Filters /\ m.page \in Nat \ {0} /\ m.list \in Seq(Page)
      /\ list \in Seq(Page) /\ page \in Nat
  BY KnownKinds DEF Ordered, Sound, TypeOK, Request
<1>2. net' = net \ {m} /\ UNCHANGED <<kind, filter, sent>> /\ m.more
  BY DEF Deliver, ShowMore
<1>3. Numbered' BY <1>2, Leaves
<1> DEFINE l == Append(m.list, [filter |-> m.filter, page |-> m.page])
<1>4. \/ /\ list' = l /\ page' = m.page + 1
         /\ kind.atEnd # "append" => Size(m.filter, m.page) > 0
      \/ /\ list' = m.list /\ page' = page /\ kind.atEnd = "rewind"
         /\ ~(Size(m.filter, m.page) > 0)
      \/ list' = list /\ kind.atEnd # "rewind"
  BY DEF ShowMore
<1>5. /\ l # <<>> /\ Len(l) = Len(m.list) + 1
      /\ \A f : OfFilter(m.list, f) /\ m.filter = f => OfFilter(l, f)
      /\ Filled(m.list, m.filter) /\ m.page = Len(m.list) + 1
            /\ Size(m.filter, m.page) > 0 => Filled(l, m.filter)
  <2> DEFINE e == [filter |-> m.filter, page |-> m.page]
  <2>1. e \in Page /\ e.filter = m.filter /\ e.page = m.page
    BY <1>1 DEF Page
  <2>2. /\ Len(l) = Len(m.list) + 1 /\ l # <<>> /\ Len(m.list) \in Nat
        /\ DOMAIN m.list = 1 .. Len(m.list) /\ DOMAIN l = 1 .. Len(m.list) + 1
        /\ \A i \in 1 .. Len(m.list) : l[i] = m.list[i]
        /\ l[Len(m.list) + 1] = e
    BY <1>1, <2>1
  <2> HIDE DEF l, e
  <2>3. ASSUME NEW f, OfFilter(m.list, f), m.filter = f PROVE OfFilter(l, f)
    BY <2>1, <2>2, <2>3 DEF OfFilter
  <2>4. ASSUME Filled(m.list, m.filter), m.page = Len(m.list) + 1,
               Size(m.filter, m.page) > 0
        PROVE  Filled(l, m.filter)
    <3>1. OfFilter(l, m.filter) BY <2>3, <2>4 DEF Filled
    <3>2. \A i \in 1 .. Len(m.list) :
            l[i].page = i /\ Size(l[i].filter, l[i].page) > 0
      BY <2>2, <2>4 DEF Filled
    <3>3. \A i \in DOMAIN l : i \in 1 .. Len(m.list) \/ i = Len(m.list) + 1
      BY <2>2
    <3> QED BY <2>1, <2>2, <2>4, <3>1, <3>2, <3>3 DEF Filled
  <2> QED BY <2>2, <2>3, <2>4
<1> HIDE DEF l
<1>8. ASSUME Orderly'
      PROVE  Orderly /\ \A n \in net : n # m => m.id < n.id
  BY <1>8, OldestDelivered
<1>9. ASSUME Orderly' PROVE LastFetchCurrent' /\ RowsCurrent'
  <2>1. LastFetchCurrent /\ RowsCurrent BY <1>8, <1>9 DEF Ordered
  <2>2. Fetching' = Fetching BY <1>2 DEF Fetching
  <2>3. LastFetchCurrent'
    BY <1>2, <2>1, <2>2 DEF LastFetchCurrent
  <2>4. ASSUME ~Fetching \/ kind.changes = {} PROVE OfFilter(list', filter)
    BY <1>4, <1>5, <2>1, <2>4 DEF RowsCurrent
  <2>5. RowsCurrent' BY <1>2, <2>1, <2>2, <2>4 DEF RowsCurrent
  <2> QED BY <2>3, <2>5
<1>10. ASSUME Orderly', kind.atEnd = "rewind" PROVE RewindSound'
  <2>1. RewindSound BY <1>8, <1>10 DEF Ordered
  <2>2. /\ list # <<>> /\ m.list # <<>> /\ m.page = Len(m.list) + 1
        /\ page = Len(list) + 1
        /\ Filled(list, m.filter) /\ Filled(m.list, m.filter)
        /\ page \in {m.page, m.page + 1}
    BY <1>2, <2>1 DEF RewindSound
  <2>3. \A n \in net' : n.more =>
          /\ n \in net /\ n.page \in {m.page, m.page + 1}
          /\ n.list # <<>> /\ n.page = Len(n.list) + 1
          /\ Filled(n.list, n.filter) /\ Filled(list, n.filter)
          /\ page \in {n.page, n.page + 1}
    BY <1>2, <1>8, <1>10, <2>1 DEF RewindSound
  <2>4. \A n \in net' : n.more => n.filter = m.filter
    <3>1. 1 \in DOMAIN list BY <1>1, <2>2
    <3>2. \A n \in net' : n.more => list[1].filter = n.filter
      BY <2>3, <3>1 DEF Filled, OfFilter
    <3> QED BY <2>2, <3>1, <3>2 DEF Filled, OfFilter
  <2>5. CASE list' = l /\ page' = m.page + 1 /\ Size(m.filter, m.page) > 0
    <3>1. Filled(list', m.filter) /\ list' # <<>> /\ page' = Len(list') + 1
      BY <1>1, <1>5, <2>2, <2>5
    <3>2. \A n \in net' : n.more => page' \in {n.page, n.page + 1}
      BY <1>1, <1>2, <2>3, <2>5
    <3> QED BY <1>1, <1>2, <2>1, <2>3, <2>4, <3>1, <3>2
            DEF RewindSound, Filled, OfFilter
  <2>6. CASE list' = m.list /\ page' = page /\ ~(Size(m.filter, m.page) > 0)
    <3>1. page = m.page
      <4> SUFFICES ASSUME page = m.page + 1 PROVE FALSE BY <2>2
      <4>1. m.page \in DOMAIN list BY <1>1, <2>2
      <4> QED BY <2>2, <2>6, <4>1 DEF Filled, OfFilter
    <3>2. Filled(list', m.filter) /\ list' # <<>> /\ page' = Len(list') + 1
      BY <2>2, <2>6, <3>1
    <3> QED BY <1>1, <1>2, <2>1, <2>3, <2>4, <2>6, <3>2
            DEF RewindSound, Filled, OfFilter
  <2> QED BY <1>4, <1>10, <2>5, <2>6
<1> QED BY <1>2, <1>3, <1>9, <1>10 DEF Ordered

LEMMA FailOrdered == ASSUME Ordered, Sound', NEW m \in net, Fail(m) PROVE Ordered'
<1>1. hist' = [hist EXCEPT !.failed = TRUE] /\ net' = net \ {m} /\ sent' = sent
  BY DEF Fail
<1>2. ~Orderly' BY <1>1 DEF Orderly, Ordered, Sound, TypeOK, History
<1> QED BY <1>1, <1>2, Leaves DEF Ordered

LEMMA StepOrdered == Ordered /\ [Next]_vars => Ordered'
<1> SUFFICES ASSUME Ordered, [Next]_vars PROVE Ordered' OBVIOUS
<1>1. Sound' BY StepSound DEF Ordered
<1>2. ASSUME UNCHANGED <<kind, filter, list, page, net, sent, hist>> PROVE Ordered'
  BY <1>1, <1>2 DEF Ordered, Orderly, Numbered, LastFetchCurrent, Fetching,
                    RowsCurrent, OfFilter, RewindSound, Filled
<1>3. CASE UNCHANGED vars BY <1>2, <1>3 DEF vars, view
<1>4. CASE MomentumScrollBegin BY <1>2, <1>4 DEF MomentumScrollBegin, view
<1>5. CASE OtherTab BY <1>2, <1>5 DEF OtherTab, view
<1>6. ASSUME NEW f \in Filters, ChangeFilter(f) PROVE Ordered'
  <2>1. /\ Fetch(filter') /\ filter' \in Filters /\ kind.changes # {}
        /\ UNCHANGED <<kind, list, page, hist>>
    BY <1>6 DEF ChangeFilter
  <2> QED BY <1>1, <2>1, OneFetchOrdered
<1>7. CASE \E m \in net : Deliver(m) \/ Fail(m)
  BY <1>1, <1>7, FailOrdered, ShowFirstPageOrdered, ShowMoreOrdered DEF Deliver
<1> QED
  BY <1>1, <1>3, <1>4, <1>5, <1>6, <1>7, RefocusOrdered,
     OnEndReachedHandlerOrdered DEF Next

\* Ordered, the invariant of the requests in flight: what was asked for before
\* a first fetch is answered before it, and the last first fetch is that of
\* the filter on screen.
THEOREM RequestsOrdered == Spec => []Ordered
<1>1. Init => Ordered BY InitOrdered
<1>2. Ordered /\ [Next]_vars => Ordered' BY StepOrdered
<1> QED BY <1>1, <1>2, PTL DEF Spec

-----------------------------------------------------------------------------
\* Sound, the invariant the other theorems rest on: what holds of the list on
\* the screen holds of every list captured by a request in flight.
THEOREM CapturedListsSound == Spec => []Sound
<1>1. Init => Sound BY InitSound
<1>2. Sound /\ [Next]_vars => Sound' BY StepSound
<1> QED BY <1>1, <1>2, PTL DEF Spec

\* Type correctness of the paged screens.
THEOREM ListingTypes == Spec => []TypeOK
<1>1. Sound => TypeOK BY DEF Sound
<1> QED BY <1>1, CapturedListsSound, PTL

\* No page of a list is skipped (loadMore...: setPageNumber(pageNumber + 1)
\* beside concat), for any number of requests answered in any order or lost.
THEOREM NoneSkipped == Spec => []NoPageSkipped
<1>1. Sound => NoPageSkipped
  BY DEF Sound, ListSound, NoPageSkipped, Gapfree, Complete, Exact
<1> QED BY <1>1, CapturedListsSound, PTL

\* No page is shown twice, on any of the screens but Task.
THEOREM NoneTwice == Spec => []NoPageTwice
<1>1. Sound => NoPageTwice
  BY DEF Sound, ListSound, NoPageTwice, Ascends
<1> QED BY <1>1, CapturedListsSound, PTL

\* A screen with nothing in flight is not covered, whatever became of its
\* requests, but for the skeleton of SearchResultTask after a failure.
THEOREM NeverStuck == Spec => []QuietScreen
<1>1. Sound => QuietScreen BY DEF Sound, CoverSound, QuietScreen
<1> QED BY <1>1, CapturedListsSound, PTL

\* Whatever the filters, the moments they change at and the pages in flight
\* then, the rows are of the filter that is shown, unless an answer overtook
\* another, failed, or a page was asked for during a first fetch.
THEOREM RowsOfTheFilter == Spec => []OneFilter
<1>1. Ordered => OneFilter
  BY DEF Ordered, OneFilter, RowsCurrent, OfFilter
<1> QED BY <1>1, RequestsOrdered, PTL

\* Task, which puts the captured list back when a page is empty
\* (loadMoreAvailableTask), skips no page while the answers are orderly: a
\* request for the page the list already has finds it again.
THEOREM TaskNoneSkipped == Spec => []TaskSkipsNoPage
<1>1. Ordered => TaskSkipsNoPage
  BY DEF Ordered, TaskSkipsNoPage, RewindSound, Filled, Gapfree
<1> QED BY <1>1, RequestsOrdered, PTL

-----------------------------------------------------------------------------
(* The look-ups of categories: the queue of those in flight                 *)

LookRequests == [kind : Lookups!Levels, of : Tops \union Subs]

\* A look-up of this kind is in flight; and the last one is of this choice.
LookAny(a, k) == \E i \in DOMAIN a : a[i].kind = k
LookOf(a, k, c) ==
    \A i \in DOMAIN a :
        a[i].kind = k /\ (\A j \in DOMAIN a : j > i => a[j].kind # k) => a[i].of = c

LEMMA LookConcat ==
    ASSUME NEW S, NEW a \in Seq(S), NEW b \in Seq(S), NEW k
    PROVE  /\ LookAny(a \o b, k) <=> LookAny(a, k) \/ LookAny(b, k)
           /\ LookAny(b, k) => \A c : LookOf(b, k, c) => LookOf(a \o b, k, c)
           /\ ~LookAny(b, k) => \A c : LookOf(a, k, c) => LookOf(a \o b, k, c)
<1> DEFINE q == a \o b
           m == Len(a)
           n == Len(b)
<1>1. /\ m \in Nat /\ n \in Nat /\ DOMAIN a = 1 .. m /\ DOMAIN b = 1 .. n
      /\ DOMAIN q = 1 .. (m + n)
  OBVIOUS
<1>2. /\ \A i \in 1 .. m : q[i] = a[i]
      /\ \A i \in 1 .. n : q[m + i] = b[i]
  OBVIOUS
<1> HIDE DEF q, m, n
<1>3. /\ \A i \in 1 .. m : i \in 1 .. (m + n)
      /\ \A i \in 1 .. n : m + i \in 1 .. (m + n) /\ m + i > m
      /\ \A i \in 1 .. (m + n) : i \in 1 .. m \/ (i - m \in 1 .. n /\ i = m + (i - m))
  BY <1>1
<1>4. LookAny(q, k) <=> LookAny(a, k) \/ LookAny(b, k)
  <2>1. ASSUME NEW i \in 1 .. (m + n), q[i].kind = k PROVE LookAny(a, k) \/ LookAny(b, k)
    <3>1. CASE i \in 1 .. m
      BY <1>1, <1>2, <2>1, <3>1 DEF LookAny
    <3>2. CASE i - m \in 1 .. n /\ i = m + (i - m)
      <4>1. q[i] = b[i - m]
        BY <1>2, <3>2
      <4> QED
        BY <1>1, <2>1, <3>2, <4>1 DEF LookAny
    <3> QED
      BY <1>3, <3>1, <3>2
  <2>2. LookAny(a, k) => LookAny(q, k)
    BY <1>1, <1>2, <1>3 DEF LookAny
  <2>3. ASSUME NEW i \in 1 .. n, b[i].kind = k PROVE LookAny(q, k)
    <3>1. m + i \in DOMAIN q /\ q[m + i].kind = k
      BY <1>1, <1>2, <1>3, <2>3
    <3> QED
      BY <3>1 DEF LookAny
  <2> QED
    BY <1>1, <2>1, <2>2, <2>3 DEF LookAny
<1>5. ASSUME LookAny(b, k), NEW c, LookOf(b, k, c) PROVE LookOf(q, k, c)
  <2> SUFFICES ASSUME NEW i \in 1 .. (m + n), q[i].kind = k,
                      \A j \in 1 .. (m + n) : j > i => q[j].kind # k
               PROVE  q[i].of = c
    BY <1>1 DEF LookOf
  <2>1. PICK l \in 1 .. n : b[l].kind = k
    BY <1>1, <1>5 DEF LookAny
  <2>2. m + l \in 1 .. (m + n) /\ q[m + l].kind = k
    BY <1>2, <1>3, <2>1
  <2>3. ~(m + l > i)
    BY <2>2
  <2>4. i \notin 1 .. m
    BY <1>1, <2>3
  <2>5. i - m \in 1 .. n /\ i = m + (i - m) /\ q[i] = b[i - m]
    BY <1>2, <1>3, <2>4
  <2>6. ASSUME NEW j \in 1 .. n, j > i - m PROVE b[j].kind # k
    <3>1. m + j \in 1 .. (m + n) /\ q[m + j] = b[j] /\ m + j > i
      BY <1>1, <1>2, <1>3, <2>6
    <3> QED
      BY <3>1
  <2>7. b[i - m].kind = k
    BY <2>5
  <2> QED
    BY <1>1, <1>5, <2>5, <2>6, <2>7 DEF LookOf
<1>6. ASSUME ~LookAny(b, k), NEW c, LookOf(a, k, c) PROVE LookOf(q, k, c)
  <2> SUFFICES ASSUME NEW i \in 1 .. (m + n), q[i].kind = k,
                      \A j \in 1 .. (m + n) : j > i => q[j].kind # k
               PROVE  q[i].of = c
    BY <1>1 DEF LookOf
  <2>1. i \in 1 .. m
    <3>1. CASE i - m \in 1 .. n /\ i = m + (i - m)
      <4>1. q[i] = b[i - m]
        BY <1>2, <3>1
      <4> QED
        BY <1>1, <1>6, <3>1, <4>1 DEF LookAny
    <3> QED
      BY <1>3, <3>1
  <2>2. q[i] = a[i] /\ \A j \in 1 .. m : j > i => a[j].kind # k
    BY <1>2, <1>3, <2>1
  <2> QED
    BY <1>1, <1>6, <2>1, <2>2 DEF LookOf
<1> QED
  BY <1>4, <1>5, <1>6 DEF q

\* Taking a look-up out of the queue.
LEMMA LookRemoveAt == \A s, i : Lookups!RemoveAt(s, i) = RemoveAt(s, i)
BY DEF Lookups!RemoveAt, RemoveAt

LEMMA LookRemoved ==
    ASSUME NEW S, NEW a \in Seq(S), NEW i \in DOMAIN a
    PROVE  /\ RemoveAt(a, i) \in Seq(S)
           /\ DOMAIN a = 1 .. Len(a) /\ Len(a) \in Nat
           /\ DOMAIN RemoveAt(a, i) = 1 .. (Len(a) - 1)
           /\ \A l \in 1 .. (Len(a) - 1) :
                 RemoveAt(a, i)[l] = IF l < i THEN a[l] ELSE a[l + 1]
<1>1. Len(a) \in Nat /\ i \in Nat /\ i >= 1 /\ i <= Len(a) /\ DOMAIN a = 1 .. Len(a)
  OBVIOUS
<1> DEFINE x == SubSeq(a, 1, i - 1)
           y == SubSeq(a, i + 1, Len(a))
           r == x \o y
<1>2. /\ x \in Seq(S) /\ Len(x) = i - 1 /\ \A l \in 1 .. (i - 1) : x[l] = a[l]
      /\ y \in Seq(S) /\ Len(y) = Len(a) - i
      /\ \A l \in 1 .. (Len(a) - i) : y[l] = a[l + i]
  BY <1>1, SMTT(30)
<1>3. RemoveAt(a, i) = r
  BY DEF RemoveAt
<1> HIDE DEF x, y
<1>4. r \in Seq(S) /\ DOMAIN r = 1 .. (Len(a) - 1)
  <2>1. x \in Seq(S) /\ y \in Seq(S)
    BY <1>2
  <2>2. Len(r) = Len(x) + Len(y) /\ r \in Seq(S)
    BY <2>1
  <2>3. DOMAIN r = 1 .. Len(r)
    BY <2>2
  <2> QED
    BY <1>1, <1>2, <2>2, <2>3
<1>5. ASSUME NEW l \in 1 .. (Len(a) - 1)
      PROVE  r[l] = IF l < i THEN a[l] ELSE a[l + 1]
  <2>1. CASE l < i
    BY <1>1, <1>2, <2>1
  <2>2. CASE ~(l < i)
    <3>1. r[l] = y[l - (i - 1)] /\ l - (i - 1) \in 1 .. (Len(a) - i)
      BY <1>1, <1>2, <2>2
    <3>2. (l - (i - 1)) + i = l + 1
      BY <1>1
    <3> QED
      BY <1>2, <2>2, <3>1, <3>2
  <2> QED
    BY <2>1, <2>2
<1> QED
  BY <1>1, <1>3, <1>4, <1>5

\* A later look-up of the kind of i, or an earlier one.
LookNewer(a, i) == \E j \in DOMAIN a : j > i /\ a[j].kind = a[i].kind
LookOlder(a, i) == \E j \in DOMAIN a : j < i /\ a[j].kind = a[i].kind

LEMMA LookTakesOut ==
    ASSUME NEW S, NEW a \in Seq(S), NEW i \in DOMAIN a, NEW k
    PROVE  /\ a[i].kind # k => (LookAny(RemoveAt(a, i), k) <=> LookAny(a, k))
           /\ a[i].kind = k =>
                 (LookAny(RemoveAt(a, i), k) <=> LookNewer(a, i) \/ LookOlder(a, i))
           /\ a[i].kind # k \/ LookNewer(a, i) =>
                 \A c : LookOf(a, k, c) => LookOf(RemoveAt(a, i), k, c)
<1> DEFINE r == RemoveAt(a, i)
           n == Len(a)
           at(l) == IF l < i THEN l ELSE l + 1
<1>1. /\ n \in Nat /\ DOMAIN a = 1 .. n /\ i \in 1 .. n /\ DOMAIN r = 1 .. (n - 1)
      /\ \A l \in 1 .. (n - 1) : r[l] = IF l < i THEN a[l] ELSE a[l + 1]
  BY LookRemoved
<1> HIDE DEF r, n
<1>2. \A l \in 1 .. (n - 1) : at(l) \in 1 .. n /\ at(l) # i /\ r[l] = a[at(l)]
  BY <1>1
<1>3. \A l, j \in 1 .. (n - 1) : l < j <=> at(l) < at(j)
  BY <1>1
<1>4. ASSUME NEW j \in 1 .. n, j # i
      PROVE  \E l \in 1 .. (n - 1) : at(l) = j /\ r[l] = a[j]
  <2>1. CASE j < i
    BY <1>1, <1>2, <2>1
  <2>2. CASE ~(j < i)
    <3>1. j - 1 \in 1 .. (n - 1) /\ at(j - 1) = j
      BY <1>1, <1>4, <2>2
    <3> QED
      BY <1>2, <3>1
  <2> QED
    BY <2>1, <2>2
<1> HIDE DEF at
<1>5. LookAny(r, k) <=> \E j \in 1 .. n : j # i /\ a[j].kind = k
  <2>1. ASSUME NEW l \in 1 .. (n - 1), r[l].kind = k
        PROVE  \E j \in 1 .. n : j # i /\ a[j].kind = k
    BY <1>2, <2>1
  <2>2. ASSUME NEW j \in 1 .. n, j # i, a[j].kind = k PROVE LookAny(r, k)
    <3>1. PICK l \in 1 .. (n - 1) : r[l] = a[j]
      BY <1>4, <2>2
    <3> QED
      BY <1>1, <2>2, <3>1 DEF LookAny
  <2> QED
    BY <1>1, <2>1, <2>2 DEF LookAny
<1>6. a[i].kind # k => (LookAny(r, k) <=> LookAny(a, k))
  BY <1>1, <1>5 DEF LookAny
<1>7. a[i].kind = k => (LookAny(r, k) <=> LookNewer(a, i) \/ LookOlder(a, i))
  <2>1. \A j \in 1 .. n : j # i <=> j > i \/ j < i
    BY <1>1
  <2> QED
    BY <1>1, <1>5, <2>1 DEF LookNewer, LookOlder
<1>8. ASSUME a[i].kind # k \/ LookNewer(a, i), NEW c, LookOf(a, k, c)
      PROVE  LookOf(r, k, c)
  <2> SUFFICES ASSUME NEW l \in 1 .. (n - 1), r[l].kind = k,
                      \A j \in 1 .. (n - 1) : j > l => r[j].kind # k
               PROVE  r[l].of = c
    BY <1>1 DEF LookOf
  <2>1. at(l) \in 1 .. n /\ at(l) # i /\ r[l] = a[at(l)]
    BY <1>2
  <2>2. ASSUME NEW j \in 1 .. n, j > at(l), j # i PROVE a[j].kind # k
    <3>1. PICK y \in 1 .. (n - 1) : at(y) = j /\ r[y] = a[j]
      BY <1>4, <2>2
    <3>2. y > l
      BY <1>3, <2>2, <3>1
    <3> QED
      BY <3>1, <3>2
  <2>3. ASSUME i > at(l) PROVE a[i].kind # k
    <3> SUFFICES ASSUME LookNewer(a, i) PROVE a[i].kind # k
      BY <1>8
    <3>1. PICK j \in 1 .. n : j > i /\ a[j].kind = a[i].kind
      BY <1>1 DEF LookNewer
    <3>2. j > at(l) /\ j # i
      BY <1>1, <2>1, <2>3, <3>1
    <3> QED
      BY <2>2, <3>1, <3>2
  <2>4. \A j \in 1 .. n : j > at(l) => a[j].kind # k
    BY <2>2, <2>3
  <2> QED
    BY <1>1, <1>8, <2>1, <2>4 DEF LookOf
<1> QED
  BY <1>6, <1>7, <1>8 DEF r
-----------------------------------------------------------------------------
(* What the lists and the choices are, while nothing went wrong             *)

LookSlugs == [cat : Tops \union {none}, sub : Subs \union {none}]
LookLists == [Lookups!Levels -> SUBSET (Subs \union Types)]
LookWhy == [Lookups!Levels -> SUBSET Lookups!Reasons]
LookHists == [late : LookWhy, picked : LookWhy]
LookSent == [choice : Lookups!Choice, shown : Lookups!Choice, why : LookWhy]

\* The sub-categories that can be chosen are of the category, or the last look-up is.
LookSub ==
    screen \in {"form", "narrow"} /\ chosen.cat # none /\ lookupHist.late.sub = {} =>
        /\ LookOf(asked, "sub", chosen.cat)
        /\ ~LookAny(asked, "sub") => lists.sub = Lookups!Kids(chosen.cat)

\* So are the types, of the sub-category.
LookTask ==
    chosen.sub \in Subs /\ lookupHist.late.task = {} =>
        /\ LookOf(asked, "task", chosen.sub)
        /\ ~LookAny(asked, "task") => lists.task = Lookups!Kids(chosen.sub)

\* Without a sub-category narrowSearch has no services.
LookNone ==
    screen = "narrow" /\ chosen.sub = none /\ lookupHist.late.task = {} =>
        ~LookAny(asked, "task") /\ lists.task = {}

\* What is chosen on the form belongs together, and the slugs of a search do.
LookForm ==
    screen = "form" =>
        /\ chosen.sub \in Subs /\ lookupHist.picked.sub = {} => Parent[chosen.sub] = chosen.cat
        /\ chosen.sub # undefined /\ lookupHist.picked.task = {} =>
              \A y \in chosen.types : Parent[y] = chosen.sub

LookSlug ==
    /\ screen = "narrow" =>
          /\ chosen.cat # none => slug.cat = chosen.cat
          /\ slug.sub \in Subs /\ lookupHist.picked.sub = {} => Parent[slug.sub] = slug.cat
    /\ screen \in {"projects", "home", "away"} => slug.sub = none

LookTyped ==
    /\ screen \in Lookups!Screens /\ chosen \in Lookups!Choice /\ slug \in LookSlugs
    /\ lists \in LookLists /\ spin \in [Lookups!Levels -> BOOLEAN]
    /\ asked \in Seq(LookRequests) /\ searched \in LookSent /\ touches \in Nat
    /\ lookupHist \in LookHists

LEMMA LookType == Lookups!TypeOK <=> LookTyped
BY DEF Lookups!TypeOK, LookTyped, LookSlugs, LookLists, LookWhy, LookHists, LookSent,
   LookRequests

LookInv ==
    /\ LookTyped /\ LookSub /\ LookTask /\ LookNone /\ LookForm /\ LookSlug
    /\ SentBelongTogether

\* The constants: categories, sub-categories and types are told apart.
LEMMA LookConstants ==
    /\ none \notin Tops /\ none \notin Subs /\ none \notin Types
    /\ undefined \notin Tops /\ undefined \notin Subs /\ none # undefined
    /\ \A s \in Subs : Parent[s] \in Tops
    /\ \A y \in Types : Parent[y] \in Subs
BY LookupsAssumption DEF Lookups!ConstantsAssumption

LEMMA LookNothing ==
    /\ Lookups!Empty \in Lookups!Choice /\ Lookups!NoReason \in LookWhy
    /\ Lookups!NoLists \in LookLists /\ Lookups!NoSlug \in LookSlugs
    /\ Lookups!NoHist \in LookHists /\ Lookups!Nothing \in LookSent
    /\ Lookups!NoSpin \in [Lookups!Levels -> BOOLEAN]
<1>1. Lookups!NoReason \in LookWhy
  BY DEF Lookups!NoReason, LookWhy, Lookups!Levels
<1>2. Lookups!NoLists \in LookLists
  BY DEF Lookups!NoLists, LookLists, Lookups!Levels
<1>3. Lookups!Empty \in Lookups!Choice
  BY DEF Lookups!Empty, Lookups!Choice
<1>4. Lookups!NoSlug \in LookSlugs
  BY DEF Lookups!NoSlug, LookSlugs
<1>5. Lookups!NoHist \in LookHists
  BY <1>1 DEF Lookups!NoHist, LookHists
<1>6. Lookups!Nothing \in LookSent
  BY <1>1, <1>3 DEF Lookups!Nothing, LookSent
<1>7. Lookups!NoSpin \in [Lookups!Levels -> BOOLEAN]
  <2>1. ASSUME NEW B, NEW f \in B PROVE [sub |-> f, task |-> f] \in [Lookups!Levels -> B]
    BY DEF Lookups!Levels
  <2>2. FALSE \in BOOLEAN
    OBVIOUS
  <2> QED
    BY <2>1, <2>2, Zenon DEF Lookups!NoSpin
<1> QED
  BY <1>1, <1>2, <1>3, <1>4, <1>5, <1>6, <1>7

\* A touch that saves nothing.
LEMMA LookTouched ==
    ASSUME LookInv, searched' = Lookups!Nothing, Lookups!Tapped
    PROVE  searched' \in LookSent /\ touches' \in Nat /\ SentBelongTogether'
<1>1. touches \in Nat
  BY DEF LookInv, LookTyped
<1>2. touches' \in Nat
  BY <1>1 DEF Lookups!Tapped
<1>3. SentBelongTogether'
  BY LookConstants DEF SentBelongTogether, Lookups!SentBelongTogether, Lookups!Nothing,
     Lookups!Empty
<1> QED
  BY <1>2, <1>3, LookNothing

LEMMA LookInit == ASSUME Lookups!Init PROVE LookInv
<1>1. /\ chosen = Lookups!Empty /\ slug = Lookups!NoSlug /\ lists = Lookups!NoLists
      /\ spin = Lookups!NoSpin /\ asked = <<>> /\ searched = Lookups!Nothing
      /\ touches = 0 /\ lookupHist = Lookups!NoHist /\ screen \in Lookups!Screens
  BY DEF Lookups!Init
<1>2. asked \in Seq(LookRequests)
  BY <1>1
<1>3. LookTyped
  <2>1. /\ chosen \in Lookups!Choice /\ slug \in LookSlugs /\ lists \in LookLists
        /\ spin \in [Lookups!Levels -> BOOLEAN] /\ searched \in LookSent
        /\ lookupHist \in LookHists
    BY <1>1, LookNothing
  <2>2. touches \in Nat
    BY <1>1
  <2> QED
    BY <1>1, <1>2, <2>1, <2>2 DEF LookTyped
<1>4. chosen.cat = none /\ chosen.sub = none /\ chosen.types = {} /\ slug.sub = none
      /\ lists.task = {}
  BY <1>1 DEF Lookups!Empty, Lookups!NoSlug, Lookups!NoLists
<1>5. ~LookAny(asked, "task")
  BY <1>1 DEF LookAny
<1>6. LookSub /\ LookTask /\ LookNone /\ LookForm /\ LookSlug
  BY <1>4, <1>5, LookConstants DEF LookSub, LookTask, LookNone, LookForm, LookSlug
<1>7. SentBelongTogether
  BY <1>1, LookConstants DEF SentBelongTogether, Lookups!SentBelongTogether, Lookups!Nothing,
     Lookups!Empty
<1> QED
  BY <1>3, <1>6, <1>7 DEF LookInv

\* A choice asks for what is below it.
LEMMA LookAsks ==
    ASSUME LookInv, NEW k \in Lookups!Levels, NEW c \in Tops \union Subs,
           Lookups!Ask(<<[kind |-> k, of |-> c]>>)
    PROVE  /\ asked' \in Seq(LookRequests) /\ LookAny(asked', k) /\ LookOf(asked', k, c)
           /\ \A j : j # k => /\ LookAny(asked', j) <=> LookAny(asked, j)
                              /\ \A d : LookOf(asked, j, d) => LookOf(asked', j, d)
<1> DEFINE e == [kind |-> k, of |-> c]
           b == <<e>>
<1>1. asked' = asked \o b /\ asked \in Seq(LookRequests)
  BY DEF Lookups!Ask, LookInv, LookTyped
<1>2. e \in LookRequests /\ e.kind = k /\ e.of = c
  BY DEF LookRequests
<1> HIDE DEF e
<1>3. b \in Seq(LookRequests) /\ DOMAIN b = {1} /\ b[1] = e
  BY <1>2
<1> HIDE DEF b
<1>4. LookAny(b, k) /\ LookOf(b, k, c) /\ \A j : j # k => ~LookAny(b, j)
  BY <1>2, <1>3 DEF LookAny, LookOf
<1>5. asked' \in Seq(LookRequests)
  BY <1>1, <1>3
<1>6. LookAny(asked', k) /\ LookOf(asked', k, c)
  BY <1>1, <1>3, <1>4, LookConcat
<1>7. ASSUME NEW j, j # k
      PROVE  /\ LookAny(asked', j) <=> LookAny(asked, j)
             /\ \A d : LookOf(asked, j, d) => LookOf(asked', j, d)
  <2>1. ~LookAny(b, j)
    BY <1>4, <1>7
  <2> QED
    BY <1>1, <1>3, <2>1, LookConcat
<1> QED
  BY <1>5, <1>6, <1>7

LEMMA LookChooseCategory ==
    ASSUME LookInv, NEW c \in Tops, Lookups!ChooseCategory(c) PROVE LookInv'
<1>1. /\ screen = "form" /\ UNCHANGED <<screen, slug, lists>>
      /\ chosen' = [Lookups!Empty EXCEPT !.cat = c]
      /\ Lookups!Ask(<<[kind |-> "sub", of |-> c]>>)
      /\ spin' = [spin EXCEPT !.sub = TRUE]
      /\ lookupHist' = [late |-> Lookups!LateUnless({"sub"}), picked |-> Lookups!NoReason]
      /\ searched' = Lookups!Nothing /\ Lookups!Tapped
  BY DEF Lookups!ChooseCategory
<1>2. /\ screen \in Lookups!Screens /\ slug \in LookSlugs /\ lists \in LookLists
      /\ spin \in [Lookups!Levels -> BOOLEAN] /\ lookupHist \in LookHists
  BY DEF LookInv, LookTyped
<1>3. /\ asked' \in Seq(LookRequests) /\ LookAny(asked', "sub") /\ LookOf(asked', "sub", c)
      /\ searched' \in LookSent /\ touches' \in Nat /\ SentBelongTogether'
  BY <1>1, LookAsks, LookTouched DEF Lookups!Levels
<1>4. /\ chosen' \in Lookups!Choice /\ chosen'.cat = c /\ chosen'.sub = none
      /\ chosen'.types = {}
  BY <1>1 DEF Lookups!Empty, Lookups!Choice
<1>5. lookupHist' \in LookHists
  <2>1. Lookups!LateUnless({"sub"}) \in LookWhy
    BY <1>2 DEF Lookups!LateUnless, LookWhy, LookHists
  <2> QED
    BY <1>1, <2>1, LookNothing DEF LookHists
<1>6. spin' \in [Lookups!Levels -> BOOLEAN]
  BY <1>1, <1>2 DEF Lookups!Levels
<1>7. LookTyped'
  BY <1>1, <1>2, <1>3, <1>4, <1>5, <1>6 DEF LookTyped
<1>8. LookSub' /\ LookTask' /\ LookNone' /\ LookForm' /\ LookSlug'
  BY <1>1, <1>3, <1>4, LookConstants DEF LookSub, LookTask, LookNone, LookForm, LookSlug
<1> QED
  BY <1>3, <1>7, <1>8 DEF LookInv

\* The history with a level of it renewed, or with more reasons.
LEMMA LookHistory ==
    ASSUME LookTyped
    PROVE  /\ \A k : /\ Lookups!LateUnless({k}) \in LookWhy
                     /\ k = "sub" => /\ Lookups!LateUnless({k}).sub = {}
                                     /\ Lookups!LateUnless({k}).task = lookupHist.late.task
                     /\ k = "task" => /\ Lookups!LateUnless({k}).task = {}
                                      /\ Lookups!LateUnless({k}).sub = lookupHist.late.sub
           /\ \A k : Lookups!Early(k) \subseteq Lookups!Reasons
           /\ \A k : Lookups!Early(k) = {} <=> ~LookAny(asked, k)
<1>1. lookupHist.late \in LookWhy
  BY DEF LookTyped, LookHists
<1>2. /\ \A k : Lookups!LateUnless({k}) \in LookWhy
      /\ Lookups!LateUnless({"sub"}).sub = {}
      /\ Lookups!LateUnless({"sub"}).task = lookupHist.late.task
      /\ Lookups!LateUnless({"task"}).task = {}
      /\ Lookups!LateUnless({"task"}).sub = lookupHist.late.sub
  BY <1>1 DEF Lookups!LateUnless, LookWhy, Lookups!Levels
<1>3. \A k : /\ Lookups!Early(k) \subseteq Lookups!Reasons
             /\ Lookups!Early(k) = {} <=> ~LookAny(asked, k)
  BY DEF Lookups!Early, Lookups!Pending, LookAny, Lookups!Reasons
<1> QED
  BY <1>2, <1>3

LEMMA LookHandelSelectedCategory ==
    ASSUME LookInv, NEW c \in Tops, Lookups!HandelSelectedCategory(c) PROVE LookInv'
<1>1. /\ screen # "form" /\ UNCHANGED <<screen, lists>>
      /\ chosen' = [chosen EXCEPT !.cat = c] /\ slug' = [slug EXCEPT !.cat = c]
      /\ searched' = Lookups!Nothing /\ Lookups!Tapped
  BY DEF Lookups!HandelSelectedCategory, Lookups!Filtered
<1>2. /\ screen \in Lookups!Screens /\ slug \in LookSlugs /\ lists \in LookLists
      /\ spin \in [Lookups!Levels -> BOOLEAN] /\ lookupHist \in LookHists
      /\ chosen \in Lookups!Choice /\ asked \in Seq(LookRequests)
      /\ lookupHist.late \in LookWhy /\ lookupHist.picked \in LookWhy
  BY DEF LookInv, LookTyped, LookHists
<1>3. /\ chosen' \in Lookups!Choice /\ chosen'.cat = c /\ chosen'.sub = chosen.sub
      /\ slug' \in LookSlugs /\ slug'.cat = c /\ slug'.sub = slug.sub
  BY <1>1, <1>2 DEF Lookups!Choice, LookSlugs
<1>4. searched' \in LookSent /\ touches' \in Nat /\ SentBelongTogether'
  BY <1>1, LookTouched
<1>5. CASE screen = "narrow"
  <2>1. /\ Lookups!Ask(<<[kind |-> "sub", of |-> c]>>)
        /\ spin' = [spin EXCEPT !.sub = TRUE]
        /\ lookupHist' = [late |-> Lookups!LateUnless({"sub"}),
                          picked |-> IF slug.sub = none THEN lookupHist.picked
                                     ELSE [lookupHist.picked EXCEPT !.sub = @ \union {"kept"}]]
    BY <1>5 DEF Lookups!HandelSelectedCategory
  <2>2. /\ asked' \in Seq(LookRequests) /\ LookAny(asked', "sub") /\ LookOf(asked', "sub", c)
        /\ LookAny(asked', "task") <=> LookAny(asked, "task")
        /\ \A d : LookOf(asked, "task", d) => LookOf(asked', "task", d)
    BY <2>1, LookAsks DEF Lookups!Levels
  <2>3. /\ Lookups!LateUnless({"sub"}) \in LookWhy
        /\ Lookups!LateUnless({"sub"}).task = lookupHist.late.task
    BY LookHistory DEF LookInv
  <2>4. /\ [lookupHist.picked EXCEPT !.sub = @ \union {"kept"}] \in LookWhy
        /\ [lookupHist.picked EXCEPT !.sub = @ \union {"kept"}].sub # {}
    BY <1>2 DEF LookWhy, Lookups!Levels, Lookups!Reasons
  <2>5. /\ lookupHist' \in LookHists /\ lookupHist'.late.task = lookupHist.late.task
        /\ slug.sub # none => lookupHist'.picked.sub # {}
    BY <1>2, <2>1, <2>3, <2>4 DEF LookHists
  <2>6. spin' \in [Lookups!Levels -> BOOLEAN]
    BY <1>2, <2>1 DEF Lookups!Levels
  <2>7. LookTyped'
    BY <1>1, <1>2, <1>3, <1>4, <2>2, <2>5, <2>6 DEF LookTyped
  <2>8. LookSub' /\ LookNone' /\ LookTask'
    BY <1>1, <1>3, <2>2, <2>5 DEF LookInv, LookSub, LookTask, LookNone
  <2>9. LookForm' /\ LookSlug'
    BY <1>1, <1>3, <1>5, <2>5, LookConstants DEF LookForm, LookSlug
  <2> QED
    BY <1>4, <2>7, <2>8, <2>9 DEF LookInv
<1>6. CASE screen # "narrow"
  <2>1. UNCHANGED <<asked, spin, lookupHist>>
    BY <1>6 DEF Lookups!HandelSelectedCategory
  <2>2. LookTyped'
    BY <1>1, <1>2, <1>3, <1>4, <2>1 DEF LookTyped
  <2>3. LookSub' /\ LookNone' /\ LookTask' /\ LookForm' /\ LookSlug'
    BY <1>1, <1>3, <1>6, <2>1 DEF LookInv, LookSub, LookTask, LookNone, LookForm, LookSlug
  <2> QED
    BY <1>4, <2>2, <2>3 DEF LookInv
<1> QED
  BY <1>5, <1>6

LEMMA LookChooseSubCategory ==
    ASSUME LookInv, NEW s \in Subs, Lookups!ChooseSubCategory(s) PROVE LookInv'
<1>1. /\ screen = "form" /\ chosen.cat # none /\ s \in lists.sub
      /\ UNCHANGED <<screen, slug, lists>>
      /\ chosen' = [chosen EXCEPT !.sub = s]
      /\ Lookups!Ask(<<[kind |-> "task", of |-> s]>>)
      /\ spin' = [spin EXCEPT !.task = TRUE]
      /\ lookupHist' = [late |-> Lookups!LateUnless({"task"}),
                        picked |-> [sub |-> lookupHist.late.sub \union Lookups!Early("sub"),
                                    task |-> IF chosen.types = {} THEN {}
                                             ELSE lookupHist.picked.task \union {"kept"}]]
      /\ searched' = Lookups!Nothing /\ Lookups!Tapped
  BY DEF Lookups!ChooseSubCategory
<1>2. /\ screen \in Lookups!Screens /\ slug \in LookSlugs /\ lists \in LookLists
      /\ spin \in [Lookups!Levels -> BOOLEAN] /\ lookupHist \in LookHists
      /\ chosen \in Lookups!Choice /\ asked \in Seq(LookRequests)
      /\ lookupHist.late \in LookWhy /\ lookupHist.picked \in LookWhy
  BY DEF LookInv, LookTyped, LookHists
<1>3. /\ chosen' \in Lookups!Choice /\ chosen'.cat = chosen.cat /\ chosen'.sub = s
      /\ chosen'.types = chosen.types
  BY <1>1, <1>2 DEF Lookups!Choice
<1>4. searched' \in LookSent /\ touches' \in Nat /\ SentBelongTogether'
  BY <1>1, LookTouched
<1>5. /\ asked' \in Seq(LookRequests) /\ LookAny(asked', "task") /\ LookOf(asked', "task", s)
      /\ LookAny(asked', "sub") <=> LookAny(asked, "sub")
      /\ \A d : LookOf(asked, "sub", d) => LookOf(asked', "sub", d)
  BY <1>1, LookAsks DEF Lookups!Levels
<1> DEFINE missed == lookupHist.late.sub \union Lookups!Early("sub")
           kept == IF chosen.types = {} THEN {} ELSE lookupHist.picked.task \union {"kept"}
<1>6. /\ missed \subseteq Lookups!Reasons /\ kept \subseteq Lookups!Reasons
      /\ missed = {} => lookupHist.late.sub = {} /\ ~LookAny(asked, "sub")
      /\ kept = {} => chosen.types = {}
  <2>1. lookupHist.late.sub \subseteq Lookups!Reasons
        /\ lookupHist.picked.task \subseteq Lookups!Reasons
    BY <1>2 DEF LookWhy, Lookups!Levels
  <2>2. /\ Lookups!Early("sub") \subseteq Lookups!Reasons
        /\ Lookups!Early("sub") = {} <=> ~LookAny(asked, "sub")
    BY LookHistory DEF LookInv
  <2> QED
    BY <2>1, <2>2 DEF Lookups!Reasons
<1>7. /\ lookupHist' = [late |-> Lookups!LateUnless({"task"}),
                        picked |-> [sub |-> missed, task |-> kept]]
  BY <1>1
<1> HIDE DEF missed, kept
<1>8. /\ lookupHist' \in LookHists /\ lookupHist'.late.sub = lookupHist.late.sub
      /\ lookupHist'.picked.sub = missed /\ lookupHist'.picked.task = kept
  <2>1. [sub |-> missed, task |-> kept] \in LookWhy
    BY <1>6 DEF LookWhy, Lookups!Levels
  <2>2. /\ Lookups!LateUnless({"task"}) \in LookWhy
        /\ Lookups!LateUnless({"task"}).sub = lookupHist.late.sub
    BY LookHistory DEF LookInv
  <2> QED
    BY <1>7, <2>1, <2>2 DEF LookHists
<1>9. spin' \in [Lookups!Levels -> BOOLEAN]
  BY <1>1, <1>2 DEF Lookups!Levels
<1>10. LookTyped'
  BY <1>1, <1>2, <1>3, <1>4, <1>5, <1>8, <1>9 DEF LookTyped
<1>11. LookSub' /\ LookTask' /\ LookNone' /\ LookSlug'
  BY <1>1, <1>3, <1>5, <1>8 DEF LookInv, LookSub, LookTask, LookNone, LookSlug
<1>12. missed = {} => Parent[s] = chosen.cat
  <2>1. missed = {} => lists.sub = Lookups!Kids(chosen.cat)
    BY <1>1, <1>6 DEF LookInv, LookSub
  <2> QED
    BY <1>1, <2>1 DEF Lookups!Kids
<1>13. LookForm'
  BY <1>3, <1>6, <1>8, <1>12 DEF LookForm
<1> QED
  BY <1>4, <1>10, <1>11, <1>13 DEF LookInv

LEMMA LookHandelSelectedSubCategory ==
    ASSUME LookInv, NEW s \in Subs, Lookups!HandelSelectedSubCategory(s) PROVE LookInv'
<1>1. /\ screen = "narrow" /\ chosen.cat # none /\ s \in lists.sub
      /\ UNCHANGED <<screen, lists>>
      /\ chosen' = [chosen EXCEPT !.sub = s] /\ slug' = [slug EXCEPT !.sub = s]
      /\ Lookups!Ask(<<[kind |-> "task", of |-> s]>>)
      /\ spin' = [spin EXCEPT !.sub = TRUE]
      /\ lookupHist' = [late |-> Lookups!LateUnless({"task"}),
                        picked |-> [lookupHist.picked EXCEPT
                                       !.sub = lookupHist.late.sub \union Lookups!Early("sub")]]
      /\ searched' = Lookups!Nothing /\ Lookups!Tapped
  BY DEF Lookups!HandelSelectedSubCategory
<1>2. /\ screen \in Lookups!Screens /\ slug \in LookSlugs /\ lists \in LookLists
      /\ spin \in [Lookups!Levels -> BOOLEAN] /\ lookupHist \in LookHists
      /\ chosen \in Lookups!Choice /\ asked \in Seq(LookRequests)
      /\ lookupHist.late \in LookWhy /\ lookupHist.picked \in LookWhy
  BY DEF LookInv, LookTyped, LookHists
<1>3. /\ chosen' \in Lookups!Choice /\ chosen'.cat = chosen.cat /\ chosen'.sub = s
      /\ slug' \in LookSlugs /\ slug'.cat = slug.cat /\ slug'.sub = s
  BY <1>1, <1>2 DEF Lookups!Choice, LookSlugs
<1>4. searched' \in LookSent /\ touches' \in Nat /\ SentBelongTogether'
  BY <1>1, LookTouched
<1>5. /\ asked' \in Seq(LookRequests) /\ LookAny(asked', "task") /\ LookOf(asked', "task", s)
      /\ LookAny(asked', "sub") <=> LookAny(asked, "sub")
      /\ \A d : LookOf(asked, "sub", d) => LookOf(asked', "sub", d)
  BY <1>1, LookAsks DEF Lookups!Levels
<1> DEFINE missed == lookupHist.late.sub \union Lookups!Early("sub")
<1>6. /\ missed \subseteq Lookups!Reasons
      /\ missed = {} => lookupHist.late.sub = {} /\ ~LookAny(asked, "sub")
  <2>1. lookupHist.late.sub \subseteq Lookups!Reasons
    BY <1>2 DEF LookWhy, Lookups!Levels
  <2>2. /\ Lookups!Early("sub") \subseteq Lookups!Reasons
        /\ Lookups!Early("sub") = {} <=> ~LookAny(asked, "sub")
    BY LookHistory DEF LookInv
  <2> QED
    BY <2>1, <2>2
<1>7. /\ lookupHist' = [late |-> Lookups!LateUnless({"task"}),
                        picked |-> [lookupHist.picked EXCEPT !.sub = missed]]
  BY <1>1
<1> HIDE DEF missed
<1>8. /\ lookupHist' \in LookHists /\ lookupHist'.late.sub = lookupHist.late.sub
      /\ lookupHist'.picked.sub = missed
  <2>1. /\ [lookupHist.picked EXCEPT !.sub = missed] \in LookWhy
        /\ [lookupHist.picked EXCEPT !.sub = missed].sub = missed
    BY <1>2, <1>6 DEF LookWhy, Lookups!Levels
  <2>2. /\ Lookups!LateUnless({"task"}) \in LookWhy
        /\ Lookups!LateUnless({"task"}).sub = lookupHist.late.sub
    BY LookHistory DEF LookInv
  <2> QED
    BY <1>7, <2>1, <2>2 DEF LookHists
<1>9. spin' \in [Lookups!Levels -> BOOLEAN]
  BY <1>1, <1>2 DEF Lookups!Levels
<1>10. LookTyped'
  BY <1>1, <1>2, <1>3, <1>4, <1>5, <1>8, <1>9 DEF LookTyped
<1>11. LookSub' /\ LookTask' /\ LookNone' /\ LookForm'
  BY <1>1, <1>3, <1>5, <1>8, LookConstants
     DEF LookInv, LookSub, LookTask, LookNone, LookForm
<1>12. missed = {} => Parent[s] = chosen.cat
  <2>1. missed = {} => lists.sub = Lookups!Kids(chosen.cat)
    BY <1>1, <1>6 DEF LookInv, LookSub
  <2> QED
    BY <1>1, <2>1 DEF Lookups!Kids
<1>13. slug.cat = chosen.cat
  BY <1>1 DEF LookInv, LookSlug
<1>14. LookSlug'
  BY <1>1, <1>3, <1>8, <1>12, <1>13 DEF LookSlug
<1> QED
  BY <1>4, <1>10, <1>11, <1>14 DEF LookInv

LEMMA LookToggleType ==
    ASSUME LookInv, NEW y \in Types, Lookups!ToggleType(y) PROVE LookInv'
<1>1. /\ y \in lists.task /\ (screen = "form" => chosen.sub # none)
      /\ UNCHANGED <<screen, slug, lists, spin, asked>>
      /\ chosen' = [chosen EXCEPT !.types = IF y \in @ THEN @ \ {y} ELSE @ \union {y}]
      /\ lookupHist' = [lookupHist EXCEPT !.picked.task =
                           @ \union lookupHist.late.task \union Lookups!Early("task")]
      /\ searched' = Lookups!Nothing /\ Lookups!Tapped
  BY DEF Lookups!ToggleType
<1>2. /\ screen \in Lookups!Screens /\ slug \in LookSlugs /\ lists \in LookLists
      /\ spin \in [Lookups!Levels -> BOOLEAN] /\ lookupHist \in LookHists
      /\ chosen \in Lookups!Choice /\ asked \in Seq(LookRequests)
      /\ lookupHist.late \in LookWhy /\ lookupHist.picked \in LookWhy
  BY DEF LookInv, LookTyped, LookHists
<1>3. /\ chosen' \in Lookups!Choice /\ chosen'.cat = chosen.cat /\ chosen'.sub = chosen.sub
      /\ chosen'.types \subseteq chosen.types \union {y}
  BY <1>1, <1>2 DEF Lookups!Choice
<1>4. searched' \in LookSent /\ touches' \in Nat /\ SentBelongTogether'
  BY <1>1, LookTouched
<1> DEFINE more == lookupHist.late.task \union Lookups!Early("task")
<1>5. /\ more \subseteq Lookups!Reasons
      /\ more = {} => lookupHist.late.task = {} /\ ~LookAny(asked, "task")
  <2>1. lookupHist.late.task \subseteq Lookups!Reasons
    BY <1>2 DEF LookWhy, Lookups!Levels
  <2>2. /\ Lookups!Early("task") \subseteq Lookups!Reasons
        /\ Lookups!Early("task") = {} <=> ~LookAny(asked, "task")
    BY LookHistory DEF LookInv
  <2> QED
    BY <2>1, <2>2
<1>6. lookupHist' = [lookupHist EXCEPT !.picked.task = @ \union more]
  <2>1. lookupHist.picked.task \union more =
            (lookupHist.picked.task \union lookupHist.late.task) \union Lookups!Early("task")
    OBVIOUS
  <2> QED
    BY <1>1, <2>1
<1> HIDE DEF more
<1>7. /\ lookupHist' \in LookHists /\ lookupHist'.late = lookupHist.late
      /\ lookupHist'.picked.sub = lookupHist.picked.sub
      /\ lookupHist'.picked.task = lookupHist.picked.task \union more
  BY <1>2, <1>5, <1>6 DEF LookHists, LookWhy, Lookups!Levels
<1>8. LookTyped'
  BY <1>1, <1>2, <1>3, <1>4, <1>7 DEF LookTyped
<1>9. LookSub' /\ LookTask' /\ LookNone' /\ LookSlug'
  BY <1>1, <1>3, <1>7 DEF LookInv, LookSub, LookTask, LookNone, LookSlug
<1>10. ASSUME more = {}, chosen.sub \in Subs PROVE Parent[y] = chosen.sub
  <2>1. lists.task = Lookups!Kids(chosen.sub)
    BY <1>5, <1>10 DEF LookInv, LookTask
  <2> QED
    BY <1>1, <2>1 DEF Lookups!Kids
<1>11. chosen.sub \in Subs \/ chosen.sub = none \/ chosen.sub = undefined
  BY <1>2 DEF Lookups!Choice
<1>12. LookForm'
  <2> SUFFICES ASSUME screen = "form"
               PROVE  /\ chosen.sub \in Subs /\ lookupHist.picked.sub = {} =>
                             Parent[chosen.sub] = chosen.cat
                      /\ chosen.sub # undefined /\ lookupHist'.picked.task = {} =>
                             \A x \in chosen'.types : Parent[x] = chosen.sub
    BY <1>1, <1>3, <1>7 DEF LookForm
  <2>1. /\ chosen.sub \in Subs /\ lookupHist.picked.sub = {} => Parent[chosen.sub] = chosen.cat
        /\ chosen.sub # undefined /\ lookupHist.picked.task = {} =>
              \A x \in chosen.types : Parent[x] = chosen.sub
    BY DEF LookInv, LookForm
  <2> QED
    BY <1>1, <1>3, <1>7, <1>10, <1>11, <2>1
<1> QED
  BY <1>4, <1>8, <1>9, <1>12 DEF LookInv

LEMMA LookClearAllData == ASSUME LookInv, Lookups!ClearAllData PROVE LookInv'
<1>1. /\ screen \in {"narrow", "projects"} /\ UNCHANGED <<screen, slug, spin, asked>>
      /\ chosen' = Lookups!Empty /\ lists' = [lists EXCEPT !.task = {}]
      /\ lookupHist' = [lookupHist EXCEPT
            !.late.task = IF LookAny(asked, "task") THEN @ \union {"cleared"} ELSE @]
      /\ searched' = Lookups!Nothing /\ Lookups!Tapped
  BY DEF Lookups!ClearAllData, Lookups!Filtered, Lookups!Pending, LookAny
<1>2. /\ screen \in Lookups!Screens /\ slug \in LookSlugs /\ lists \in LookLists
      /\ spin \in [Lookups!Levels -> BOOLEAN] /\ lookupHist \in LookHists
      /\ chosen \in Lookups!Choice /\ asked \in Seq(LookRequests)
      /\ lookupHist.late \in LookWhy /\ lookupHist.picked \in LookWhy
  BY DEF LookInv, LookTyped, LookHists
<1>3. /\ chosen' \in Lookups!Choice /\ chosen'.cat = none /\ chosen'.sub = none
  BY <1>1, LookNothing DEF Lookups!Empty
<1>4. searched' \in LookSent /\ touches' \in Nat /\ SentBelongTogether'
  BY <1>1, LookTouched
<1>5. /\ lookupHist' \in LookHists /\ lookupHist'.picked = lookupHist.picked
      /\ lookupHist'.late.task = {} => ~LookAny(asked, "task")
  <2>1. CASE LookAny(asked, "task")
    <3>1. lookupHist' = [lookupHist EXCEPT !.late.task = @ \union {"cleared"}]
      BY <1>1, <2>1
    <3> QED
      BY <1>2, <2>1, <3>1 DEF LookHists, LookWhy, Lookups!Levels, Lookups!Reasons
  <2>2. CASE ~LookAny(asked, "task")
    <3>1. lookupHist' = [lookupHist EXCEPT !.late.task = @]
      BY <1>1, <2>2
    <3> QED
      BY <1>2, <2>2, <3>1 DEF LookHists, LookWhy, Lookups!Levels
  <2> QED
    BY <2>1, <2>2
<1>6. lists' \in LookLists /\ lists'.task = {}
  BY <1>1, <1>2 DEF LookLists, Lookups!Levels
<1>7. LookTyped'
  BY <1>1, <1>2, <1>3, <1>4, <1>5, <1>6 DEF LookTyped
<1>8. LookSub' /\ LookTask' /\ LookNone' /\ LookForm' /\ LookSlug'
  BY <1>1, <1>3, <1>5, <1>6, LookConstants
     DEF LookInv, LookSub, LookTask, LookNone, LookForm, LookSlug
<1> QED
  BY <1>4, <1>7, <1>8 DEF LookInv

\* What is saved or sent.
LEMMA LookSends ==
    ASSUME LookInv, Lookups!Tapped,
           \/ screen = "form" /\ chosen.sub # undefined
              /\ searched' = [choice |-> chosen, shown |-> chosen, why |-> lookupHist.picked]
           \/ screen # "form" /\ searched' = Lookups!Searched
           \/ searched' = Lookups!Nothing
    PROVE  searched' \in LookSent /\ touches' \in Nat /\ SentBelongTogether'
<1>1. /\ chosen \in Lookups!Choice /\ slug \in LookSlugs /\ lookupHist.picked \in LookWhy
      /\ touches \in Nat /\ screen \in Lookups!Screens
  BY DEF LookInv, LookTyped, LookHists
<1>2. CASE screen = "form" /\ chosen.sub # undefined
           /\ searched' = [choice |-> chosen, shown |-> chosen, why |-> lookupHist.picked]
  <2>1. searched' \in LookSent /\ searched'.choice = chosen /\ searched'.why = lookupHist.picked
    BY <1>1, <1>2 DEF LookSent
  <2>2. SentBelongTogether'
    BY <1>2, <2>1 DEF SentBelongTogether, Lookups!SentBelongTogether, LookInv, LookForm
  <2>3. touches' \in Nat
    BY <1>1 DEF Lookups!Tapped
  <2> QED
    BY <2>1, <2>2, <2>3
<1>3. CASE screen # "form" /\ searched' = Lookups!Searched
  <2> DEFINE sentNow == [cat |-> slug.cat, sub |-> slug.sub, types |-> {}]
             seen == [chosen EXCEPT !.types = {}]
  <2>1. /\ sentNow \in Lookups!Choice /\ seen \in Lookups!Choice
        /\ sentNow.cat = slug.cat /\ sentNow.sub = slug.sub /\ sentNow.types = {}
    BY <1>1 DEF LookSlugs, Lookups!Choice
  <2>2. searched' = [choice |-> sentNow, shown |-> seen, why |-> lookupHist.picked]
    BY <1>3 DEF Lookups!Searched
  <2> HIDE DEF sentNow, seen
  <2>3. searched' \in LookSent /\ searched'.choice = sentNow /\ searched'.why = lookupHist.picked
    BY <1>1, <2>1, <2>2 DEF LookSent
  <2>4. slug.sub \in Subs /\ lookupHist.picked.sub = {} => Parent[slug.sub] = slug.cat
    BY <1>1, <1>3, LookConstants DEF LookInv, LookSlug, Lookups!Screens
  <2>5. SentBelongTogether'
    BY <2>1, <2>3, <2>4 DEF SentBelongTogether, Lookups!SentBelongTogether
  <2>6. touches' \in Nat
    BY <1>1 DEF Lookups!Tapped
  <2> QED
    BY <2>3, <2>5, <2>6
<1>4. CASE searched' = Lookups!Nothing
  BY <1>4, LookTouched
<1> QED
  BY <1>2, <1>3, <1>4

LEMMA LookSaves ==
    ASSUME LookInv,
           Lookups!SaveStepOne \/ Lookups!SearchFromHome \/ Lookups!FocusHome \/ Lookups!Search
    PROVE  LookInv'
<1>1. /\ Lookups!Tapped
      /\ \/ screen = "form" /\ chosen.sub # undefined
            /\ searched' = [choice |-> chosen, shown |-> chosen, why |-> lookupHist.picked]
         \/ screen # "form" /\ searched' = Lookups!Searched
         \/ searched' = Lookups!Nothing
  BY DEF Lookups!SaveStepOne, Lookups!SearchFromHome, Lookups!FocusHome, Lookups!Search,
     Lookups!Filtered
<1>2. searched' \in LookSent /\ touches' \in Nat /\ SentBelongTogether'
  BY <1>1, LookSends
<1>3. /\ screen \in Lookups!Screens /\ slug \in LookSlugs /\ lists \in LookLists
      /\ spin \in [Lookups!Levels -> BOOLEAN] /\ lookupHist \in LookHists
      /\ chosen \in Lookups!Choice /\ asked \in Seq(LookRequests)
  BY DEF LookInv, LookTyped
<1>4. CASE Lookups!SaveStepOne
  <2>1. UNCHANGED <<screen, chosen, slug, lists, spin, asked, lookupHist>>
    BY <1>4 DEF Lookups!SaveStepOne
  <2>2. LookTyped'
    BY <1>2, <1>3, <2>1 DEF LookTyped
  <2>3. LookSub' /\ LookTask' /\ LookNone' /\ LookForm' /\ LookSlug'
    BY <2>1 DEF LookInv, LookSub, LookTask, LookNone, LookForm, LookSlug
  <2> QED
    BY <1>2, <2>2, <2>3 DEF LookInv
<1>5. CASE Lookups!SearchFromHome \/ Lookups!FocusHome
  <2>1. /\ screen \in {"home", "away"} /\ screen' \in {"home", "away"}
        /\ UNCHANGED <<slug, lists, spin, asked, lookupHist>>
        /\ chosen' = chosen \/ chosen' = [chosen EXCEPT !.cat = none]
    BY <1>5 DEF Lookups!SearchFromHome, Lookups!FocusHome
  <2>2. chosen' \in Lookups!Choice /\ chosen'.sub = chosen.sub
    BY <1>3, <2>1 DEF Lookups!Choice
  <2>3. screen' \in Lookups!Screens
    BY <2>1 DEF Lookups!Screens
  <2>4. LookTyped'
    BY <1>2, <1>3, <2>1, <2>2, <2>3 DEF LookTyped
  <2>5. LookSub' /\ LookTask' /\ LookNone' /\ LookForm' /\ LookSlug'
    BY <2>1, <2>2 DEF LookInv, LookSub, LookTask, LookNone, LookForm, LookSlug
  <2> QED
    BY <1>2, <2>4, <2>5 DEF LookInv
<1>6. CASE Lookups!Search
  <2>1. /\ screen \in {"narrow", "projects"} /\ UNCHANGED screen
        /\ chosen' = Lookups!Empty /\ slug' = Lookups!NoSlug /\ lists' = Lookups!NoLists
        /\ spin' = Lookups!NoSpin /\ asked' = <<>> /\ lookupHist' = Lookups!NoHist
    BY <1>6 DEF Lookups!Search, Lookups!Filtered
  <2>2. asked' \in Seq(LookRequests) /\ ~LookAny(asked', "task")
    BY <2>1 DEF LookAny
  <2>3. chosen'.cat = none /\ chosen'.sub = none /\ slug'.sub = none /\ lists'.task = {}
    BY <2>1 DEF Lookups!Empty, Lookups!NoSlug, Lookups!NoLists
  <2>4. /\ chosen' \in Lookups!Choice /\ slug' \in LookSlugs /\ lists' \in LookLists
        /\ spin' \in [Lookups!Levels -> BOOLEAN] /\ lookupHist' \in LookHists
    BY <2>1, LookNothing
  <2>5. LookTyped'
    BY <1>2, <1>3, <2>1, <2>2, <2>4 DEF LookTyped
  <2>6. LookSub' /\ LookTask' /\ LookNone' /\ LookForm' /\ LookSlug'
    BY <2>1, <2>2, <2>3, LookConstants DEF LookSub, LookTask, LookNone, LookForm, LookSlug
  <2> QED
    BY <1>2, <2>5, <2>6 DEF LookInv
<1> QED
  BY <1>4, <1>5, <1>6

\* An answer, or none, leaves the queue; the choices stay.
LEMMA LookAnswers ==
    ASSUME LookInv, NEW i \in DOMAIN asked, Lookups!Answer(i) \/ Lookups!Fail(i)
    PROVE  LookInv'
<1> DEFINE k == asked[i].kind
           c == asked[i].of
           r == RemoveAt(asked, i)
<1>1. /\ asked' = r /\ spin' = Lookups!NoSpin
      /\ UNCHANGED <<screen, chosen, slug, searched, touches>>
  BY LookRemoveAt DEF Lookups!Answer, Lookups!Fail
<1>2. /\ screen \in Lookups!Screens /\ slug \in LookSlugs /\ lists \in LookLists
      /\ lookupHist \in LookHists /\ searched \in LookSent /\ touches \in Nat
      /\ chosen \in Lookups!Choice /\ asked \in Seq(LookRequests)
      /\ lookupHist.late \in LookWhy
  BY DEF LookInv, LookTyped, LookHists
<1>3. asked[i] \in LookRequests /\ k \in {"sub", "task"}
  <2>1. asked[i] \in LookRequests
    BY <1>2
  <2> QED
    BY <2>1 DEF LookRequests, Lookups!Levels
<1>4. r \in Seq(LookRequests)
  BY <1>2, LookRemoved
<1>5. \A j : /\ k # j => (LookAny(r, j) <=> LookAny(asked, j))
             /\ k = j => (LookAny(r, j) <=> LookNewer(asked, i) \/ LookOlder(asked, i))
             /\ k # j \/ LookNewer(asked, i) => \A d : LookOf(asked, j, d) => LookOf(r, j, d)
  BY <1>2, LookTakesOut
\* The last of its kind is of the choice.
<1>6. ASSUME ~LookNewer(asked, i), NEW d, LookOf(asked, k, d) PROVE c = d
  <2>1. \A j \in DOMAIN asked : j > i => asked[j].kind # k
    BY <1>6 DEF LookNewer
  <2> QED
    BY <1>6, <2>1 DEF LookOf
<1>7. ASSUME NEW d, ~LookAny(r, k), LookOf(asked, k, d) PROVE LookOf(r, k, d)
  BY <1>7 DEF LookOf, LookAny
<1>8. /\ Lookups!Older(i) <=> LookOlder(asked, i)
      /\ Lookups!Newer(i) <=> LookNewer(asked, i)
  <2>1. DOMAIN asked = 1 .. Len(asked) /\ Len(asked) \in Nat
    BY <1>2
  <2>2. \A j : /\ j \in 1 .. i - 1 <=> j \in DOMAIN asked /\ j < i
               /\ j \in i + 1 .. Len(asked) <=> j \in DOMAIN asked /\ j > i
    BY <2>1
  <2> QED
    BY <2>2 DEF Lookups!Older, Lookups!Newer, LookOlder, LookNewer
<1>9. spin' \in [Lookups!Levels -> BOOLEAN]
  BY <1>1, LookNothing
<1>10. /\ lists' \in LookLists /\ lookupHist' \in LookHists
       /\ lookupHist'.picked = lookupHist.picked
       /\ \A j \in {"sub", "task"} :
             /\ k # j => lists'[j] = lists[j] /\ lookupHist'.late[j] = lookupHist.late[j]
             /\ k = j /\ lookupHist'.late[j] = {} =>
                   /\ lookupHist.late[j] = {}
                   /\ LookNewer(asked, i) \/ (~LookOlder(asked, i) /\ lists'[j] = Lookups!Kids(c))
  <2>1. CASE Lookups!Answer(i)
    <3>1. /\ lists' = [lists EXCEPT ![k] = Lookups!Kids(c)]
          /\ lookupHist' = IF LookOlder(asked, i)
                           THEN [lookupHist EXCEPT !.late[k] = @ \union {"overtaken"}]
                           ELSE lookupHist
      BY <1>8, <2>1 DEF Lookups!Answer, Lookups!Filled
    <3>2. /\ lists' \in LookLists /\ lists'[k] = Lookups!Kids(c)
          /\ \A j \in {"sub", "task"} : k # j => lists'[j] = lists[j]
      <4>1. Lookups!Kids(c) \subseteq Subs \union Types
        BY DEF Lookups!Kids
      <4> HIDE DEF k, c
      <4> QED
        BY <1>2, <1>3, <3>1, <4>1 DEF LookLists, Lookups!Levels
    <3>3. CASE LookOlder(asked, i)
      <4>1. lookupHist' = [lookupHist EXCEPT !.late[k] = @ \union {"overtaken"}]
        BY <3>1, <3>3
      <4>2. "overtaken" \in Lookups!Reasons
        BY DEF Lookups!Reasons
      <4> HIDE DEF k, c
      <4>3. /\ lookupHist' \in LookHists /\ lookupHist'.picked = lookupHist.picked
            /\ "overtaken" \in lookupHist'.late[k]
            /\ \A j \in {"sub", "task"} : k # j => lookupHist'.late[j] = lookupHist.late[j]
        BY <1>2, <1>3, <4>1, <4>2 DEF LookHists, LookWhy, Lookups!Levels
      <4> QED
        BY <3>2, <4>3
    <3>4. CASE ~LookOlder(asked, i)
      <4>1. lookupHist' = lookupHist
        BY <3>1, <3>4
      <4> QED
        BY <1>2, <3>2, <3>4, <4>1
    <3> QED
      BY <3>3, <3>4
  <2>2. CASE Lookups!Fail(i)
    <3>1. /\ lists' = lists
          /\ lookupHist' = IF LookNewer(asked, i) THEN lookupHist
                           ELSE [lookupHist EXCEPT !.late[k] = @ \union {"failed"}]
      BY <1>8, <2>2 DEF Lookups!Fail
    <3>2. CASE LookNewer(asked, i)
      <4>1. lookupHist' = lookupHist
        BY <3>1, <3>2
      <4> QED
        BY <1>2, <3>1, <3>2, <4>1
    <3>3. CASE ~LookNewer(asked, i)
      <4>1. lookupHist' = [lookupHist EXCEPT !.late[k] = @ \union {"failed"}]
        BY <3>1, <3>3
      <4>2. "failed" \in Lookups!Reasons
        BY DEF Lookups!Reasons
      <4> HIDE DEF k, c
      <4>3. /\ lookupHist' \in LookHists /\ lookupHist'.picked = lookupHist.picked
            /\ "failed" \in lookupHist'.late[k]
            /\ \A j \in {"sub", "task"} : k # j => lookupHist'.late[j] = lookupHist.late[j]
        BY <1>2, <1>3, <4>1, <4>2 DEF LookHists, LookWhy, Lookups!Levels
      <4> QED
        BY <1>2, <3>1, <4>3
    <3> QED
      BY <3>2, <3>3
  <2> QED
    BY <2>1, <2>2
<1>11. ASSUME NEW j \in {"sub", "task"}, NEW d, lookupHist'.late[j] = {},
              lookupHist.late[j] = {} => /\ LookOf(asked, j, d)
                                         /\ ~LookAny(asked, j) => lists[j] = Lookups!Kids(d)
       PROVE  LookOf(r, j, d) /\ (~LookAny(r, j) => lists'[j] = Lookups!Kids(d))
  <2>1. CASE k # j
    <3>1. lists'[j] = lists[j] /\ lookupHist'.late[j] = lookupHist.late[j]
      BY <1>10, <2>1
    <3> QED
      BY <1>5, <1>11, <2>1, <3>1
  <2>2. CASE k = j
    <3>1. /\ lookupHist.late[j] = {}
          /\ LookNewer(asked, i) \/ (~LookOlder(asked, i) /\ lists'[j] = Lookups!Kids(c))
      BY <1>10, <1>11, <2>2
    <3>2. LookOf(asked, j, d)
      BY <1>11, <3>1
    <3>3. CASE LookNewer(asked, i)
      BY <1>5, <2>2, <3>2, <3>3
    <3>4. CASE ~LookNewer(asked, i)
      <4>1. ~LookAny(r, j) /\ lists'[j] = Lookups!Kids(c)
        BY <1>5, <2>2, <3>1, <3>4
      <4>2. c = d
        BY <1>6, <2>2, <3>2, <3>4
      <4>3. LookOf(r, j, d)
        BY <1>7, <2>2, <3>2, <4>1
      <4> QED
        BY <4>1, <4>2, <4>3
    <3> QED
      BY <3>3, <3>4
  <2> QED
    BY <2>1, <2>2
<1> HIDE DEF r, k, c
<1>12. LookTyped'
  BY <1>1, <1>2, <1>4, <1>9, <1>10 DEF LookTyped
<1>13. LookSub'
  <2> SUFFICES ASSUME screen \in {"form", "narrow"}, chosen.cat # none,
                      lookupHist'.late.sub = {}
               PROVE  /\ LookOf(r, "sub", chosen.cat)
                      /\ ~LookAny(r, "sub") => lists'.sub = Lookups!Kids(chosen.cat)
    BY <1>1 DEF LookSub
  <2>1. lookupHist.late["sub"] = {} =>
            /\ LookOf(asked, "sub", chosen.cat)
            /\ ~LookAny(asked, "sub") => lists["sub"] = Lookups!Kids(chosen.cat)
    BY DEF LookInv, LookSub
  <2>2. lookupHist'.late["sub"] = {}
    OBVIOUS
  <2> QED
    BY <1>11, <2>1, <2>2
<1>14. LookTask'
  <2> SUFFICES ASSUME chosen.sub \in Subs, lookupHist'.late.task = {}
               PROVE  /\ LookOf(r, "task", chosen.sub)
                      /\ ~LookAny(r, "task") => lists'.task = Lookups!Kids(chosen.sub)
    BY <1>1 DEF LookTask
  <2>1. lookupHist.late["task"] = {} =>
            /\ LookOf(asked, "task", chosen.sub)
            /\ ~LookAny(asked, "task") => lists["task"] = Lookups!Kids(chosen.sub)
    BY DEF LookInv, LookTask
  <2>2. lookupHist'.late["task"] = {}
    OBVIOUS
  <2> QED
    BY <1>11, <2>1, <2>2
<1>15. LookNone'
  <2> SUFFICES ASSUME screen = "narrow", chosen.sub = none, lookupHist'.late.task = {}
               PROVE  ~LookAny(r, "task") /\ lists'.task = {}
    BY <1>1 DEF LookNone
  <2>1. k = "task" => LookAny(asked, "task")
    BY DEF LookAny, k
  <2>2. lookupHist.late["task"] = {}
    BY <1>10
  <2>3. ~LookAny(asked, "task") /\ lists["task"] = {}
    BY <2>2 DEF LookInv, LookNone
  <2>4. k # "task" /\ lists'["task"] = lists["task"]
    BY <1>10, <2>1, <2>3
  <2> QED
    BY <1>5, <2>3, <2>4
<1>16. LookForm' /\ LookSlug' /\ SentBelongTogether'
  BY <1>1, <1>10 DEF LookInv, LookForm, LookSlug, SentBelongTogether,
     Lookups!SentBelongTogether
<1> QED
  BY <1>12, <1>13, <1>14, <1>15, <1>16 DEF LookInv

\* What the form asks for when a task is shown.
LookFor(item) ==
    IF item = undefined \/ item.cat = none THEN <<>>
    ELSE <<[kind |-> "sub", of |-> item.cat]>> \o
         (IF item.sub = none THEN <<>> ELSE <<[kind |-> "task", of |-> item.sub]>>)

LEMMA LookForFacts ==
    ASSUME NEW item \in Lookups!Items \union {undefined}
    PROVE  /\ LookFor(item) \in Seq(LookRequests)
           /\ item = undefined \/ item.cat = none =>
                 ~LookAny(LookFor(item), "sub") /\ ~LookAny(LookFor(item), "task")
           /\ ~(item = undefined \/ item.cat = none) =>
                 /\ LookAny(LookFor(item), "sub") /\ LookOf(LookFor(item), "sub", item.cat)
                 /\ item.sub \in Subs => /\ LookAny(LookFor(item), "task")
                                         /\ LookOf(LookFor(item), "task", item.sub)
<1>1. CASE item = undefined \/ item.cat = none
  <2>1. LookFor(item) = <<>>
    BY <1>1 DEF LookFor
  <2> QED
    BY <1>1, <2>1 DEF LookAny
<1>2. CASE ~(item = undefined \/ item.cat = none)
  <2> DEFINE d == [kind |-> "sub", of |-> item.cat]
             e == [kind |-> "task", of |-> item.sub]
             a == <<d>>
             b == IF item.sub = none THEN <<>> ELSE <<e>>
  <2>1. item.cat \in Tops /\ item.sub \in Subs \union {none}
    BY <1>2 DEF Lookups!Items, Lookups!Choice
  <2>2. d \in LookRequests /\ (item.sub # none => e \in LookRequests)
    BY <2>1 DEF LookRequests, Lookups!Levels
  <2>3. LookFor(item) = a \o b
    BY <1>2 DEF LookFor
  <2>4. d.kind = "sub" /\ d.of = item.cat /\ e.kind = "task" /\ e.of = item.sub
    OBVIOUS
  <2> HIDE DEF d, e
  <2>5. a \in Seq(LookRequests) /\ DOMAIN a = {1} /\ a[1] = d
    BY <2>2
  <2> HIDE DEF a
  <2>6. LookAny(a, "sub") /\ LookOf(a, "sub", item.cat) /\ ~LookAny(a, "task")
    BY <2>4, <2>5 DEF LookAny, LookOf
  <2>7. CASE item.sub = none
    <3>1. b = <<>> /\ b \in Seq(LookRequests) /\ ~LookAny(b, "sub")
      BY <2>7 DEF LookAny
    <3> HIDE DEF b
    <3>2. LookFor(item) \in Seq(LookRequests)
      BY <2>3, <2>5, <3>1
    <3>3. LookAny(a \o b, "sub") /\ LookOf(a \o b, "sub", item.cat)
      BY <2>5, <2>6, <3>1, LookConcat
    <3> QED
      BY <1>2, <2>3, <2>7, <3>2, <3>3, LookConstants
  <2>8. CASE item.sub # none
    <3>1. b \in Seq(LookRequests) /\ DOMAIN b = {1} /\ b[1] = e
      BY <2>2, <2>8
    <3> HIDE DEF b
    <3>2. LookAny(b, "task") /\ LookOf(b, "task", item.sub) /\ ~LookAny(b, "sub")
      BY <2>4, <3>1 DEF LookAny, LookOf
    <3>3. LookAny(a \o b, "sub") /\ LookOf(a \o b, "sub", item.cat)
      BY <2>5, <2>6, <3>1, <3>2, LookConcat
    <3>4. LookAny(a \o b, "task") /\ LookOf(a \o b, "task", item.sub)
      BY <2>5, <3>1, <3>2, LookConcat
    <3>5. LookFor(item) \in Seq(LookRequests)
      BY <2>3, <2>5, <3>1
    <3> QED
      BY <1>2, <2>3, <3>3, <3>4, <3>5
  <2> QED
    BY <2>7, <2>8
<1> QED
  BY <1>1, <1>2

LEMMA LookShow ==
    ASSUME LookInv, NEW item \in Lookups!Items \union {undefined}, NEW mounted \in BOOLEAN,
           Lookups!Show(item, mounted)
    PROVE  LookInv'
<1> DEFINE new == item = undefined
           before == IF mounted THEN Lookups!Empty ELSE chosen
           b == LookFor(item)
           kinds == {b[i].kind : i \in DOMAIN b}
           old == IF mounted THEN <<>> ELSE asked
           late == IF mounted THEN Lookups!NoReason ELSE Lookups!LateUnless(kinds)
           picked == IF mounted \/ new \/ item.cat # none THEN Lookups!NoReason
                     ELSE [lookupHist.picked EXCEPT !.task = {}]
<1>1. /\ screen = "form" /\ UNCHANGED <<screen, slug>>
      /\ chosen' = IF new THEN [Lookups!Empty EXCEPT !.sub = undefined]
                   ELSE IF item.cat = none THEN [before EXCEPT !.types = item.types]
                   ELSE item
      /\ asked' = old \o b
      /\ lists' = IF mounted THEN Lookups!NoLists ELSE lists
      /\ spin' = [k \in Lookups!Levels |-> k \in kinds \/ (~mounted /\ spin[k])]
      /\ lookupHist' = [late |-> late, picked |-> picked]
      /\ searched' = Lookups!Nothing /\ Lookups!Tapped
  BY DEF Lookups!Show, LookFor
<1>2. /\ screen \in Lookups!Screens /\ slug \in LookSlugs /\ lists \in LookLists
      /\ spin \in [Lookups!Levels -> BOOLEAN] /\ lookupHist \in LookHists
      /\ chosen \in Lookups!Choice /\ asked \in Seq(LookRequests)
      /\ lookupHist.late \in LookWhy /\ lookupHist.picked \in LookWhy
  BY DEF LookInv, LookTyped, LookHists
<1>3. searched' \in LookSent /\ touches' \in Nat /\ SentBelongTogether'
  BY <1>1, LookTouched
<1>4. \A k : k \in kinds <=> LookAny(b, k)
  BY DEF LookAny
<1>5. /\ b \in Seq(LookRequests)
      /\ new \/ item.cat = none => ~LookAny(b, "sub") /\ ~LookAny(b, "task")
      /\ ~(new \/ item.cat = none) =>
            /\ LookAny(b, "sub") /\ LookOf(b, "sub", item.cat)
            /\ item.sub \in Subs => LookAny(b, "task") /\ LookOf(b, "task", item.sub)
  BY LookForFacts
<1>6. old \in Seq(LookRequests)
  BY <1>2
<1> HIDE DEF kinds, b, old
<1>7. asked' \in Seq(LookRequests)
  BY <1>1, <1>5, <1>6
<1>8. spin' \in [Lookups!Levels -> BOOLEAN]
  <2>1. ASSUME NEW k \in Lookups!Levels
        PROVE  (k \in kinds \/ (~mounted /\ spin[k])) \in BOOLEAN
    BY Zenon
  <2> QED
    BY <1>1, <2>1, Zenon
<1>9. late \in LookWhy /\ (~mounted => \A k \in Lookups!Levels :
                              ~LookAny(b, k) => late[k] = lookupHist.late[k])
  <2>1. /\ Lookups!LateUnless(kinds) \in LookWhy
        /\ \A k \in Lookups!Levels :
              ~LookAny(b, k) => Lookups!LateUnless(kinds)[k] = lookupHist.late[k]
    BY <1>2, <1>4 DEF Lookups!LateUnless, LookWhy
  <2> QED
    BY <2>1, LookNothing
<1>10. picked \in LookWhy
       /\ (~mounted /\ ~new /\ item.cat = none => picked.sub = lookupHist.picked.sub)
  <2>1. /\ [lookupHist.picked EXCEPT !.task = {}] \in LookWhy
        /\ [lookupHist.picked EXCEPT !.task = {}].sub = lookupHist.picked.sub
    BY <1>2 DEF LookWhy, Lookups!Levels
  <2> QED
    BY <2>1, LookNothing
<1> HIDE DEF late, picked
<1>11. lookupHist' \in LookHists /\ lookupHist'.late = late /\ lookupHist'.picked = picked
  BY <1>1, <1>9, <1>10 DEF LookHists
<1>12. lists' \in LookLists
  BY <1>1, <1>2, LookNothing
<1>13. before \in Lookups!Choice
  BY <1>2, LookNothing
<1>14. ASSUME ~new
       PROVE  /\ item \in Lookups!Choice /\ item.sub \in Subs \union {none}
              /\ item.sub \in Subs => Parent[item.sub] = item.cat
              /\ \A y \in item.types : Parent[y] = item.sub
              /\ item.cat = none => item.sub = none /\ item.types = {}
  <2>1. item \in Lookups!Items
    BY <1>14
  <2>2. /\ item \in Lookups!Choice /\ item.sub \in Subs \union {none}
        /\ item.types \subseteq Types
    BY <2>1 DEF Lookups!Items, Lookups!Choice
  <2>3. /\ item.sub \in Subs => Parent[item.sub] = item.cat
        /\ \A y \in item.types : Parent[y] = item.sub
        /\ item.cat = none => item.sub = none
    BY <2>1 DEF Lookups!Items
  <2> QED
    BY <2>2, <2>3, LookConstants
<1>15. CASE new
  <2>1. /\ chosen' \in Lookups!Choice /\ chosen'.cat = none /\ chosen'.sub = undefined
    BY <1>1, <1>15 DEF Lookups!Choice, Lookups!Empty
  <2>2. LookTyped'
    BY <1>1, <1>2, <1>3, <1>7, <1>8, <1>11, <1>12, <2>1 DEF LookTyped
  <2>3. LookSub' /\ LookTask' /\ LookNone' /\ LookForm' /\ LookSlug'
    BY <1>1, <2>1, LookConstants DEF LookSub, LookTask, LookNone, LookForm, LookSlug
  <2> QED
    BY <1>3, <2>2, <2>3 DEF LookInv
<1>16. CASE ~new /\ item.cat # none
  <2>1. chosen' = item /\ chosen' \in Lookups!Choice
    BY <1>1, <1>14, <1>16
  <2>2. LookTyped'
    BY <1>1, <1>2, <1>3, <1>7, <1>8, <1>11, <1>12, <2>1 DEF LookTyped
  <2>3. LookAny(asked', "sub") /\ LookOf(asked', "sub", item.cat)
    <3>1. LookAny(b, "sub") /\ LookOf(b, "sub", item.cat)
      BY <1>5, <1>16
    <3> QED
      BY <1>1, <1>5, <1>6, <3>1, LookConcat
  <2>4. item.sub \in Subs => LookAny(asked', "task") /\ LookOf(asked', "task", item.sub)
    <3>1. item.sub \in Subs => LookAny(b, "task") /\ LookOf(b, "task", item.sub)
      BY <1>5, <1>16
    <3> QED
      BY <1>1, <1>5, <1>6, <3>1, LookConcat
  <2>5. LookSub' /\ LookTask' /\ LookNone' /\ LookForm' /\ LookSlug'
    BY <1>1, <1>14, <1>16, <2>1, <2>3, <2>4
       DEF LookSub, LookTask, LookNone, LookForm, LookSlug
  <2> QED
    BY <1>3, <2>2, <2>5 DEF LookInv
<1>17. CASE ~new /\ item.cat = none
  <2>1. /\ chosen' \in Lookups!Choice /\ chosen'.cat = before.cat /\ chosen'.sub = before.sub
        /\ chosen'.types = {}
    <3>1. chosen' = [before EXCEPT !.types = {}]
      BY <1>1, <1>14, <1>17
    <3> HIDE DEF before
    <3> QED
      BY <1>13, <3>1 DEF Lookups!Choice
  <2>2. LookTyped'
    BY <1>1, <1>2, <1>3, <1>7, <1>8, <1>11, <1>12, <2>1 DEF LookTyped
  <2>3. CASE mounted
    <3>1. chosen'.cat = none /\ chosen'.sub = none
      BY <2>1, <2>3 DEF Lookups!Empty
    <3>2. LookSub' /\ LookTask' /\ LookNone' /\ LookForm' /\ LookSlug'
      BY <1>1, <2>1, <3>1, LookConstants DEF LookSub, LookTask, LookNone, LookForm, LookSlug
    <3> QED
      BY <1>3, <2>2, <3>2 DEF LookInv
  <2>4. CASE ~mounted
    <3>1. /\ chosen'.cat = chosen.cat /\ chosen'.sub = chosen.sub /\ lists' = lists
          /\ picked.sub = lookupHist.picked.sub
      BY <1>1, <1>10, <1>17, <2>1, <2>4
    <3>2. ~LookAny(b, "sub") /\ ~LookAny(b, "task") /\ asked' = asked \o b
      BY <1>1, <1>5, <1>17, <2>4 DEF old
    <3>3. late["sub"] = lookupHist.late["sub"] /\ late["task"] = lookupHist.late["task"]
      BY <1>9, <2>4, <3>2 DEF Lookups!Levels
    <3>4. /\ LookAny(asked', "sub") <=> LookAny(asked, "sub")
          /\ \A d : LookOf(asked, "sub", d) => LookOf(asked', "sub", d)
      BY <1>2, <1>5, <3>2, LookConcat
    <3>5. /\ LookAny(asked', "task") <=> LookAny(asked, "task")
          /\ \A d : LookOf(asked, "task", d) => LookOf(asked', "task", d)
      BY <1>2, <1>5, <3>2, LookConcat
    <3>6. lookupHist'.late.sub = lookupHist.late.sub
          /\ lookupHist'.late.task = lookupHist.late.task
      BY <1>11, <3>3
    <3>7. LookSub' /\ LookTask' /\ LookNone'
      BY <1>1, <3>1, <3>4, <3>5, <3>6 DEF LookInv, LookSub, LookTask, LookNone
    <3>8. LookForm' /\ LookSlug'
      BY <1>1, <1>11, <2>1, <3>1 DEF LookInv, LookForm, LookSlug
    <3> QED
      BY <1>3, <2>2, <3>7, <3>8 DEF LookInv
  <2> QED
    BY <2>3, <2>4
<1> QED
  BY <1>15, <1>16, <1>17

LEMMA LookStep == ASSUME LookInv, [Lookups!Next]_(Lookups!vars) PROVE LookInv'
<1>1. CASE UNCHANGED Lookups!vars
  <2>1. UNCHANGED <<screen, chosen, slug, lists, spin, asked, searched, touches, lookupHist>>
    BY <1>1 DEF Lookups!vars
  <2> QED
    BY <2>1 DEF LookInv, LookTyped, LookSub, LookTask, LookNone, LookForm, LookSlug,
       SentBelongTogether, Lookups!SentBelongTogether
<1>2. CASE \E c \in Tops : Lookups!ChooseCategory(c) \/ Lookups!HandelSelectedCategory(c)
  BY <1>2, LookChooseCategory, LookHandelSelectedCategory
<1>3. CASE \E s \in Subs : Lookups!ChooseSubCategory(s) \/ Lookups!HandelSelectedSubCategory(s)
  BY <1>3, LookChooseSubCategory, LookHandelSelectedSubCategory
<1>4. CASE \E y \in Types : Lookups!ToggleType(y)
  BY <1>4, LookToggleType
<1>5. CASE Lookups!ClearAllData
  BY <1>5, LookClearAllData
<1>6. CASE Lookups!SaveStepOne \/ Lookups!Search \/ Lookups!SearchFromHome \/ Lookups!FocusHome
  BY <1>6, LookSaves
<1>7. CASE \E item \in Lookups!Items \union {undefined}, mounted \in BOOLEAN :
              Lookups!Show(item, mounted)
  BY <1>7, LookShow
<1>8. CASE \E i \in DOMAIN asked : Lookups!Answer(i) \/ Lookups!Fail(i)
  BY <1>8, LookAnswers
<1> QED
  BY <1>1, <1>2, <1>3, <1>4, <1>5, <1>6, <1>7, <1>8 DEF Lookups!Next

LEMMA LookAlways == Lookups!Spec => []LookInv
BY LookInit, LookStep, PTL DEF Lookups!Spec

\* Type correctness of the screens on which categories are chosen: what is chosen,
\* listed, looked up, saved and searched for.
THEOREM LookTypeCorrect == Lookups!Spec => []Lookups!TypeOK
<1>1. LookInv => Lookups!TypeOK
  BY LookType DEF LookInv
<1> QED
  BY <1>1, LookAlways, PTL

\* The lists are those of the choices (chooseCategory and chooseSubCategory of
\* PostTaskStepOne, handelSelectedCategory of narrowSearch) once no look-up is in
\* flight, for any categories, touches and order of answers, with the exceptions named.
THEOREM ListsFollow == Lookups!Spec => []ListsFollowChoice
<1>1. ASSUME LookInv PROVE ListsFollowChoice
  <2>1. \A k : Lookups!Pending(k) <=> LookAny(asked, k)
    BY DEF Lookups!Pending, LookAny
  <2> QED
    BY <1>1, <2>1 DEF LookInv, LookSub, LookTask, LookNone, ListsFollowChoice,
       Lookups!ListsFollowChoice
<1> QED
  BY <1>1, LookAlways, PTL

\* What is saved (saveUpdateStepOne) or searched for (searchTask, searchProjects)
\* belongs together, unless it was picked from a list of another choice, or kept.
THEOREM SavedBelongTogether == Lookups!Spec => []SentBelongTogether
BY LookAlways, PTL DEF LookInv

-----------------------------------------------------------------------------
(* The tasks of a seller: what is in flight                                 *)

CardLists == {"first", "more"}

\* How many rows the pages before p hold.
CardUpto(p) == (p - 1) * PageSize

CardApartIn(s) == \A i, j \in DOMAIN s : s[i] = s[j] => i = j

\* An answer on its way.
CardServed(m, kinds) == m \in requests /\ m.kind \in kinds /\ m.stage = "ok"

\* A deletion was carried out whose answer is on its way.
CardGoing(t) == \E m \in requests : CardServed(m, {"delete"}) /\ m.row.task = t

\* The rows of all arrays and those captured are of requests made; the requests
\* are numbered apart, and no row is of a list still on its way.
CardNumber(n) == n \in 0 .. MaxTaps /\ n < taps
CardNumbered ==
    /\ taps \in Nat /\ pageNumber >= 2
    /\ \A m \in requests :
          /\ CardNumber(m.n) /\ m.page >= 1 /\ m.array \in DOMAIN arrays
          /\ m.kind = "first" => m.page = 1
    /\ \A m, o \in requests : m.n = o.n => m = o
    /\ \A a \in DOMAIN arrays : \A i \in DOMAIN arrays[a] : CardNumber(arrays[a][i].n)
    /\ \A m \in requests :
          m.kind \notin CardLists => m.row \in Cards!Row /\ CardNumber(m.row.n)
CardFresh ==
    \A m \in requests : m.kind \in CardLists =>
        /\ \A a \in DOMAIN arrays : \A i \in DOMAIN arrays[a] : arrays[a][i].n # m.n
        /\ \A o \in requests : o.kind \notin CardLists => o.row.n # m.n

\* Before the first answer there is no list to ask more of.
CardBlank ==
    Len(arrays) = 1 => arrays[1] = <<>> /\ \A m \in requests : m.kind # "more"

\* A task is deleted once.
CardServer ==
    /\ CardApartIn(tasks)
    /\ \A m \in requests : CardServed(m, {"delete"}) => ~Cards!Exists(m.row.task)
    /\ \A m, o \in requests :
          CardServed(m, {"delete"}) /\ CardServed(o, {"delete"}) /\ m.row.task = o.row.task
          => m = o

\* What a page on its way lists stands, as far as it still exists, before the next page.
CardPages ==
    \A m \in requests : CardServed(m, CardLists) =>
        /\ CardApartIn(m.list)
        /\ \A i \in DOMAIN m.list : \A j \in DOMAIN tasks :
              m.list[i] = tasks[j] => j <= CardUpto(m.page + 1)
        /\ m.kind = "first" =>
              /\ Len(m.list) = PageSize \/ Len(tasks) <= PageSize
              /\ (\A i \in DOMAIN m.list : Cards!Exists(m.list[i])) =>
                    \A i \in DOMAIN m.list : i \in DOMAIN tasks /\ m.list[i] = tasks[i]

CardMore(m) == m \in requests /\ m.kind = "more" /\ m.array = Len(arrays)

\* No task has two rows.
CardSingle ==
    ~cardsHist.missed \/ ~cardsHist.turned =>
        /\ \A i, j \in DOMAIN Cards!Rows :
              Cards!Rows[i].task = Cards!Rows[j].task => i = j
        /\ \A i \in DOMAIN Cards!Rows : \A j \in DOMAIN tasks :
              Cards!Rows[i].task = tasks[j] => j <= CardUpto(pageNumber)
        /\ \A m \in requests : CardMore(m) =>
              /\ m.page = pageNumber
              /\ m.stage = "ok" => \A i \in DOMAIN Cards!Rows : \A k \in DOMAIN m.list :
                                      Cards!Rows[i].task # m.list[k]

\* A row is a task the server has, or one whose deletion will be answered.
CardKnown ==
    ~cardsHist.missed =>
        \A i \in DOMAIN Cards!Rows :
            Cards!Exists(Cards!Rows[i].task) \/ CardGoing(Cards!Rows[i].task)

\* What the server has before a task of a row has its row before that one.
CardInOrder ==
    ~cardsHist.missed /\ ~cardsHist.skipped =>
        \A i \in DOMAIN Cards!Rows : \A j \in DOMAIN tasks :
            Cards!Rows[i].task = tasks[j] =>
                \A k \in 1 .. j - 1 : \E l \in 1 .. i - 1 : Cards!Rows[l].task = tasks[k]

\* As long as nothing was deleted since the list was fetched the rows are the
\* first tasks, and the page on its way holds the next ones.
CardWhole ==
    ~cardsHist.missed /\ ~cardsHist.shifted =>
        /\ \A i \in DOMAIN Cards!Rows :
              i \in DOMAIN tasks /\ Cards!Rows[i].task = tasks[i]
        /\ Len(arrays) > 1 =>
              \/ Len(Cards!Rows) = CardUpto(pageNumber)
              \/ Len(tasks) <= CardUpto(pageNumber)
        /\ \A m \in requests :
              CardMore(m) /\ m.stage = "ok" => m.list = Cards!PageOf(tasks, m.page)

CardSwitch(m) == m \in requests /\ m.kind = "switch"

\* A switch on its way says what its row does not show.  When it was carried out
\* the server has what it says, else what the row shows, unless the task was
\* switched from a row that is gone.
CardSwitches ==
    ~cardsHist.turned =>
        \A i \in DOMAIN Cards!Rows : LET row == Cards!Rows[i] IN
            /\ \A m, o \in requests :
                  CardSwitch(m) /\ CardSwitch(o) /\ m.row = row /\ o.row = row => m = o
            /\ \A m \in requests : CardSwitch(m) /\ m.row = row => m.on = ~Cards!Shown(row)
            /\ (\A m \in requests :
                  CardServed(m, {"switch"}) /\ m.row.task = row.task => m.row = row) =>
                  row.task \in enabled <=>
                      IF \E m \in requests : CardServed(m, {"switch"}) /\ m.row = row
                      THEN ~Cards!Shown(row) ELSE Cards!Shown(row)

CardHists == [missed : BOOLEAN, shifted : BOOLEAN, skipped : BOOLEAN, turned : BOOLEAN,
              together : BOOLEAN]
CardHolds ==
    /\ tasks \in Seq(Tasks) /\ enabled \subseteq Tasks
    /\ arrays \in Seq(Seq(Cards!Row)) /\ arrays # <<>>
    /\ status \in [Tasks \X (0 .. MaxTaps) -> BOOLEAN]
    /\ pageNumber \in Nat /\ requests \subseteq Cards!Message /\ taps \in Nat
    /\ cardsHist \in CardHists

CardInv ==
    /\ CardHolds /\ CardNumbered /\ CardFresh /\ CardBlank /\ CardServer /\ CardPages
    /\ CardSingle /\ CardKnown /\ CardInOrder /\ CardWhole /\ CardSwitches

\* What is on the screen.
CardShows ==
    /\ cards \in Seq(Cards!Card) /\ refreshList \in BOOLEAN
    /\ overlay \in BOOLEAN /\ indicator \in BOOLEAN

\* A painted row is not of a list still on its way, and a row that is held is
\* painted where it is or further down.
CardPainted ==
    /\ \A i \in DOMAIN cards :
          /\ CardNumber(cards[i].row.n)
          /\ \A m \in requests : m.kind \in CardLists => cards[i].row.n # m.n
    /\ \A j \in DOMAIN Cards!Rows :
          \E i \in DOMAIN cards : j <= i /\ cards[i].row = Cards!Rows[j]

\* The rows are those that are painted, and the answer to a deletion in flight from
\* the array held changes refreshList.
CardAlike ==
    ~cardsHist.together =>
        /\ Cards!Rows = [i \in DOMAIN cards |-> cards[i].row]
        /\ \A m \in requests : m.kind = "delete" /\ m.array = Len(arrays) =>
              /\ m.refresh = refreshList
              /\ \A o \in requests : o.kind = "delete" /\ o.refresh = refreshList => o = m

\* A switch in flight is of a card that is where it was or further up, and the answer
\* changes the flag of its card if that was touched.
CardLit ==
    ~cardsHist.turned =>
        /\ \A i, j \in DOMAIN cards : cards[i].row = cards[j].row => i = j
        /\ \A i \in DOMAIN cards :
              /\ cards[i].on = Cards!Shown(cards[i].row)
              /\ \A m \in requests : m.kind = "switch" /\ m.row = cards[i].row =>
                    /\ i <= m.index
                    /\ Cards!Touched(m, i) => cards[i].refresh = m.refresh
                    /\ \A o \in requests : o.kind = "switch" /\ o.row = m.row => o = m

CardScreen == CardShows /\ CardPainted /\ CardAlike /\ CardLit
-----------------------------------------------------------------------------
(* Pages, and lists without one of their elements                           *)

LEMMA CardConstants ==
    /\ IsFiniteSet(Tasks) /\ PageSize \in Nat /\ PageSize >= 1 /\ MaxTaps \in Nat
    /\ none \notin Cards!Row
<1>1. Cards!IsFiniteSet(Tasks) <=> IsFiniteSet(Tasks)
  BY DEF IsFiniteSet, Cards!IsFiniteSet
<1> QED
  BY <1>1, CardsAssumption DEF Cards!ConstantsAssumption

LEMMA CardUptoNext ==
    ASSUME NEW p \in Nat, p >= 1
    PROVE  /\ CardUpto(p) \in Nat /\ CardUpto(p + 1) \in Nat
           /\ CardUpto(p + 1) = CardUpto(p) + PageSize
           /\ CardUpto(p + 1) = p * PageSize
           /\ CardUpto(1) = 0 /\ CardUpto(2) = PageSize
<1>1. PageSize \in Nat
  BY CardConstants
<1>2. /\ p * PageSize \in Nat /\ (p - 1) * PageSize \in Nat
      /\ p * PageSize = (p - 1) * PageSize + PageSize
  BY <1>1
<1>3. (p + 1) - 1 = p /\ 1 - 1 = 0 /\ 2 - 1 = 1
  OBVIOUS
<1>4. 0 * PageSize = 0 /\ 1 * PageSize = PageSize
  BY <1>1
<1> QED
  BY <1>1, <1>2, <1>3, <1>4 DEF CardUpto

\* The second page ends no later than any further one.
LEMMA CardUptoTwo == ASSUME NEW p \in Nat, p >= 2 PROVE CardUpto(p) >= PageSize
<1>1. PageSize \in Nat /\ p - 2 \in Nat
  BY CardConstants
<1>2. (p - 2) * PageSize \in Nat /\ (p - 1) * PageSize = (p - 2) * PageSize + PageSize
  BY <1>1
<1> QED
  BY <1>1, <1>2 DEF CardUpto

LEMMA CardRemoved ==
    ASSUME NEW S, NEW s \in Seq(S), NEW p \in DOMAIN s
    PROVE  /\ Cards!Without(s, p) \in Seq(S)
           /\ Len(Cards!Without(s, p)) = Len(s) - 1
           /\ \A i \in 1 .. Len(s) - 1 :
                 Cards!Without(s, p)[i] = IF i < p THEN s[i] ELSE s[i + 1]
<1> DEFINE a == SubSeq(s, 1, p - 1)
           b == SubSeq(s, p + 1, Len(s))
           n == Len(s)
<1>1. n \in Nat /\ DOMAIN s = 1 .. n /\ p \in 1 .. n
  OBVIOUS
<1>2. a \in Seq(S) /\ Len(a) = p - 1 /\ \A i \in 1 .. p - 1 : a[i] = s[i]
  BY <1>1, SMTT(30)
<1>3. b \in Seq(S) /\ Len(b) = n - p /\ \A i \in 1 .. n - p : b[i] = s[p + i]
  BY <1>1, SMTT(30)
<1> HIDE DEF a, b, n
<1>4. a \o b \in Seq(S) /\ Len(a \o b) = n - 1
  <2>1. a \in Seq(S) /\ b \in Seq(S)
    BY <1>2, <1>3
  <2>2. a \o b \in Seq(S)
    BY <2>1
  <2>3. Len(a \o b) = Len(a) + Len(b)
    BY <2>1
  <2> QED
    BY <1>1, <1>2, <1>3, <2>2, <2>3
<1>5. ASSUME NEW i \in 1 .. n - 1 PROVE (a \o b)[i] = IF i < p THEN s[i] ELSE s[i + 1]
  <2>1. CASE i < p
    BY <1>1, <1>2, <1>3, <2>1
  <2>2. CASE ~(i < p)
    <3>1. i - (p - 1) \in 1 .. n - p /\ p + (i - (p - 1)) = i + 1
      BY <1>1, <2>2
    <3>2. (a \o b)[i] = b[i - (p - 1)]
      BY <1>1, <1>2, <1>3, <2>2
    <3> QED
      BY <1>3, <2>2, <3>1, <3>2
  <2> QED
    BY <2>1, <2>2
<1> QED
  BY <1>4, <1>5 DEF a, b, n, Cards!Without

\* Where the elements that are left were, and where those are that were there.
CardUp(p, i) == IF i < p THEN i ELSE i + 1
CardDown(p, i) == IF i < p THEN i ELSE i - 1

LEMMA CardMoves ==
    ASSUME NEW S, NEW s \in Seq(S), NEW p \in DOMAIN s, NEW r, r = Cards!Without(s, p)
    PROVE  /\ r \in Seq(S) /\ Len(r) = Len(s) - 1 /\ DOMAIN r = 1 .. Len(s) - 1
           /\ \A i \in DOMAIN r : CardUp(p, i) \in DOMAIN s /\ CardUp(p, i) # p
                                  /\ i <= CardUp(p, i) /\ r[i] = s[CardUp(p, i)]
           /\ \A i \in DOMAIN s : i # p =>
                 /\ CardDown(p, i) \in DOMAIN r /\ r[CardDown(p, i)] = s[i]
                 /\ CardUp(p, CardDown(p, i)) = i
           /\ \A i, j \in DOMAIN r : i < j => CardUp(p, i) < CardUp(p, j)
           /\ \A i, j \in DOMAIN s : i < j /\ i # p /\ j # p => CardDown(p, i) < CardDown(p, j)
<1> DEFINE n == Len(s)
<1>1. n \in Nat /\ DOMAIN s = 1 .. n /\ p \in 1 .. n
  OBVIOUS
<1>2. /\ r \in Seq(S) /\ Len(r) = n - 1 /\ DOMAIN r = 1 .. n - 1
      /\ \A i \in 1 .. n - 1 : r[i] = IF i < p THEN s[i] ELSE s[i + 1]
  <2>1. /\ r \in Seq(S) /\ Len(r) = n - 1
        /\ \A i \in 1 .. n - 1 : r[i] = IF i < p THEN s[i] ELSE s[i + 1]
    BY CardRemoved, Zenon
  <2>2. DOMAIN r = 1 .. Len(r)
    BY <2>1
  <2> QED
    BY <2>1, <2>2
<1> HIDE DEF n
<1>3. \A i \in 1 .. n - 1 : CardUp(p, i) \in 1 .. n /\ CardUp(p, i) # p /\ i <= CardUp(p, i)
                            /\ r[i] = s[CardUp(p, i)]
  BY <1>1, <1>2 DEF CardUp
<1>4. \A i \in 1 .. n : i # p =>
        /\ CardDown(p, i) \in 1 .. n - 1 /\ CardUp(p, CardDown(p, i)) = i
  BY <1>1 DEF CardUp, CardDown
<1>5. \A i, j \in 1 .. n - 1 : i < j => CardUp(p, i) < CardUp(p, j)
  BY <1>1 DEF CardUp
<1>6. \A i, j \in 1 .. n : i < j /\ i # p /\ j # p => CardDown(p, i) < CardDown(p, j)
  BY <1>1 DEF CardDown
<1>7. \A i \in 1 .. n : i # p => r[CardDown(p, i)] = s[i]
  BY <1>3, <1>4
<1>8. Len(r) = Len(s) - 1 /\ DOMAIN r = 1 .. Len(s) - 1
  BY <1>2 DEF n
<1> QED
  BY <1>1, <1>2, <1>3, <1>4, <1>5, <1>6, <1>7, <1>8

\* A page holds what is listed after the pages before it.
LEMMA CardPage ==
    ASSUME NEW S, NEW s \in Seq(S), NEW p \in Nat, p >= 1, NEW q, q = Cards!PageOf(s, p)
    PROVE  /\ q \in Seq(S) /\ Len(q) <= PageSize
           /\ \A i \in DOMAIN q : CardUpto(p) + i \in DOMAIN s /\ q[i] = s[CardUpto(p) + i]
           /\ Len(q) = PageSize \/ Len(s) <= CardUpto(p + 1)
           /\ Len(s) <= CardUpto(p) => q = <<>>
<1> DEFINE n == Len(s)
           u == CardUpto(p)
           v == CardUpto(p + 1)
           z == IF v < n THEN v ELSE n
<1>1. n \in Nat /\ DOMAIN s = 1 .. n /\ PageSize \in Nat /\ PageSize >= 1
  BY CardConstants
<1>2. u \in Nat /\ v = u + PageSize /\ v = p * PageSize
  BY CardUptoNext
<1>3. q = SubSeq(s, u + 1, z)
  <2>1. p * PageSize - PageSize + 1 = u + 1
    BY <1>1, <1>2
  <2> QED
    BY <1>2, <2>1 DEF Cards!PageOf
<1> HIDE DEF n, u, v
<1>4. z \in Nat /\ z <= n /\ z <= v /\ (z = v \/ z = n)
  BY <1>1, <1>2
<1> HIDE DEF z
<1>5. CASE u >= z
  <2>1. q = <<>>
    BY <1>1, <1>2, <1>3, <1>4, <1>5
  <2>2. n <= v
    BY <1>1, <1>2, <1>4, <1>5
  <2> QED
    BY <1>1, <2>1, <2>2 DEF n, u, v
<1>6. CASE u < z
  <2>1. u + 1 \in 1 .. n /\ z \in 1 .. n /\ u + 1 <= z
    BY <1>1, <1>2, <1>4, <1>6
  <2>2. q \in Seq(S) /\ Len(q) = z - u /\ \A i \in 1 .. z - u : q[i] = s[u + i]
    <3> DEFINE w == u + 1
    <3>1. w \in 1 .. Len(s) /\ z \in 1 .. Len(s) /\ w <= z
      BY <2>1 DEF n
    <3> HIDE DEF w, z
    <3>2. /\ SubSeq(s, w, z) \in Seq(S) /\ Len(SubSeq(s, w, z)) = z - w + 1
          /\ \A i \in 1 .. z - w + 1 : SubSeq(s, w, z)[i] = s[w + i - 1]
      BY <3>1, SMTT(30)
    <3>3. w = u + 1
      BY DEF w
    <3>4. z - w + 1 = z - u /\ \A i \in 1 .. z - u : w + i - 1 = u + i
      BY <1>2, <1>4, <3>3
    <3> QED
      BY <1>3, <3>2, <3>3, <3>4
  <2>3. DOMAIN q = 1 .. z - u
    BY <2>2
  <2>4. \A i \in 1 .. z - u : u + i \in 1 .. n
    BY <1>1, <1>2, <1>4
  <2>5. Len(q) <= PageSize /\ (Len(q) = PageSize \/ n <= v) /\ ~(n <= u)
    BY <1>1, <1>2, <1>4, <1>6, <2>2
  <2> QED
    BY <1>1, <2>2, <2>3, <2>4, <2>5 DEF n, u, v
<1> QED
  BY <1>1, <1>2, <1>4, <1>5, <1>6
-----------------------------------------------------------------------------
(* The invariant holds in the initial states                                *)

LEMMA CardHowMany == Cards!Cardinality(Tasks) \in Nat
<1>1. Cards!Cardinality(Tasks) = Cardinality(Tasks)
  BY DEF Cards!Cardinality, Cardinality
<1> QED
  BY <1>1, CardConstants, FS_CardinalityType

LEMMA CardInit == ASSUME Cards!Init PROVE CardInv
<1> DEFINE m0 == [n |-> 0, kind |-> "first", page |-> 1, array |-> 1, index |-> 0,
                  since |-> 0, row |-> none, on |-> FALSE, refresh |-> FALSE, stage |-> "sent",
                  list |-> <<>>, enabled |-> {}]
<1>1. /\ m0 \in Cards!Message
      /\ m0.n = 0 /\ m0.kind = "first" /\ m0.page = 1 /\ m0.array = 1 /\ m0.stage = "sent"
  BY DEF Cards!Message
<1> HIDE DEF m0
<1>2. /\ requests = {m0} /\ arrays = <<<<>>>> /\ pageNumber = 2 /\ taps = 1
      /\ cardsHist = [missed |-> FALSE, shifted |-> FALSE, skipped |-> FALSE,
                      turned |-> FALSE, together |-> FALSE]
      /\ status = [o \in Tasks \X (0 .. MaxTaps) |-> FALSE]
      /\ enabled \in SUBSET Published
  BY DEF Cards!Init, m0
<1>3. tasks \in Seq(Tasks) /\ CardApartIn(tasks)
  BY CardHowMany DEF Cards!Init, CardApartIn
<1>4. /\ arrays \in Seq(Seq(Cards!Row)) /\ arrays # <<>> /\ Len(arrays) = 1
      /\ Cards!Rows = <<>> /\ arrays[1] = <<>>
  BY <1>2 DEF Cards!Rows
<1>5. CardHolds
  <2>1. Published \subseteq Tasks
    BY CardsAssumption DEF Cards!ConstantsAssumption
  <2>2. status \in [Tasks \X (0 .. MaxTaps) -> BOOLEAN]
    BY <1>2
  <2>3. cardsHist \in CardHists
    BY <1>2 DEF CardHists
  <2>4. pageNumber \in Nat /\ requests \subseteq Cards!Message /\ taps \in Nat
    BY <1>1, <1>2
  <2> QED
    BY <1>2, <1>3, <1>4, <2>1, <2>2, <2>3, <2>4 DEF CardHolds
<1>6. CardNumbered
  BY <1>1, <1>2, <1>4, CardConstants DEF CardNumbered, CardNumber, CardLists
<1>7. CardFresh /\ CardBlank
  BY <1>1, <1>2, <1>4 DEF CardFresh, CardLists, CardBlank
<1>8. CardServer /\ CardPages
  BY <1>1, <1>2, <1>3 DEF CardServer, CardPages, CardServed
<1>9. CardSingle /\ CardKnown /\ CardInOrder /\ CardWhole /\ CardSwitches
  BY <1>1, <1>2, <1>4 DEF CardSingle, CardKnown, CardInOrder, CardWhole, CardSwitches, CardMore,
     Cards!Rows
<1> QED
  BY <1>5, <1>6, <1>7, <1>8, <1>9 DEF CardInv
-----------------------------------------------------------------------------
(* A request is sent                                                        *)

CardSending(m) ==
    /\ m \in Cards!Message /\ requests' = requests \union {m}
    /\ taps < MaxTaps /\ taps' = taps + 1
    /\ m.n = taps /\ m.stage = "sent" /\ m.array = Len(arrays)
    /\ m.page = IF m.kind = "first" THEN 1 ELSE pageNumber
    /\ m.kind = "more" => Cards!Rows # <<>>
    /\ m.kind \notin CardLists =>
          /\ m.row \in Cards!Row /\ CardNumber(m.row.n)
          /\ \A o \in requests : o.kind \in CardLists => m.row.n # o.n
    /\ m.kind = "switch" => m.on = ~Cards!Shown(m.row)
    /\ UNCHANGED <<tasks, enabled, arrays, status, pageNumber>>
    /\ cardsHist'.missed = cardsHist.missed /\ cardsHist'.shifted = cardsHist.shifted
    /\ cardsHist'.skipped = cardsHist.skipped
    /\ ~cardsHist'.turned => ~cardsHist.turned
    /\ ~cardsHist'.turned /\ m.kind = "switch" =>
          \A o \in requests : o.kind = "switch" => o.row.task # m.row.task

LEMMA CardRowsTyped ==
    ASSUME CardHolds
    PROVE  /\ Cards!Rows \in Seq(Cards!Row) /\ Len(arrays) \in DOMAIN arrays
           /\ Cards!Rows = arrays[Len(arrays)] /\ Len(arrays) \in Nat
           /\ DOMAIN arrays = 1 .. Len(arrays)
<1>1. arrays \in Seq(Seq(Cards!Row)) /\ arrays # <<>>
  BY DEF CardHolds
<1> QED
  BY <1>1 DEF Cards!Rows

LEMMA CardSends ==
    ASSUME CardInv, NEW m, CardSending(m)
    PROVE  /\ CardNumbered' /\ CardFresh' /\ CardBlank' /\ CardServer' /\ CardPages'
           /\ CardSingle' /\ CardKnown' /\ CardInOrder' /\ CardWhole' /\ CardSwitches'
<1>1. /\ requests' = requests \union {m} /\ taps' = taps + 1 /\ taps < MaxTaps
      /\ m.n = taps /\ m.stage = "sent" /\ m.array = Len(arrays)
      /\ tasks' = tasks /\ enabled' = enabled /\ arrays' = arrays /\ status' = status
      /\ pageNumber' = pageNumber
      /\ cardsHist'.missed = cardsHist.missed /\ cardsHist'.shifted = cardsHist.shifted
      /\ cardsHist'.skipped = cardsHist.skipped /\ (~cardsHist'.turned => ~cardsHist.turned)
  BY DEF CardSending
<1>2. /\ CardNumbered /\ CardFresh /\ CardBlank /\ CardServer /\ CardPages /\ CardHolds
      /\ CardSingle /\ CardKnown /\ CardInOrder /\ CardWhole /\ CardSwitches
  BY DEF CardInv
<1>3. /\ Cards!Rows' = Cards!Rows /\ (\A t : Cards!Exists(t)' <=> Cards!Exists(t))
      /\ \A o : Cards!Shown(o)' <=> Cards!Shown(o)
      /\ \A p : Cards!PageOf(tasks, p)' = Cards!PageOf(tasks, p)
  BY <1>1 DEF Cards!Rows, Cards!Exists, Cards!Shown, Cards!PageOf
<1>4. /\ taps \in Nat /\ MaxTaps \in Nat /\ pageNumber \in Nat /\ pageNumber >= 2
      /\ m.n \in Nat /\ m.array \in DOMAIN arrays /\ Len(arrays) \in DOMAIN arrays
      /\ Cards!Rows \in Seq(Cards!Row) /\ Cards!Rows = arrays[Len(arrays)]
  <2>1. /\ Cards!Rows \in Seq(Cards!Row) /\ Cards!Rows = arrays[Len(arrays)]
        /\ Len(arrays) \in DOMAIN arrays
    BY <1>2, CardRowsTyped
  <2>2. taps \in Nat /\ pageNumber \in Nat /\ pageNumber >= 2
    BY <1>2 DEF CardHolds, CardNumbered
  <2> QED
    BY <1>1, <2>1, <2>2, CardConstants
<1>5. \A o, kinds : CardServed(o, kinds)' <=> CardServed(o, kinds)
  BY <1>1 DEF CardServed
<1>6. \A t : CardGoing(t)' <=> CardGoing(t)
  <2>1. \A o : CardServed(o, {"delete"})' => o \in requests
    BY <1>5 DEF CardServed
  <2> QED
    BY <1>1, <1>5, <2>1 DEF CardGoing
<1>7. \A o \in requests : o # m /\ o.n # m.n
  BY <1>1, <1>2, <1>4 DEF CardNumbered, CardNumber
<1>8. CardNumbered'
  <2>1. \A n : CardNumber(n) => CardNumber(n)'
    BY <1>1, <1>4 DEF CardNumber
  <2>2. CardNumber(m.n)'
    BY <1>1, <1>4 DEF CardNumber
  <2>3. m.page >= 1 /\ (m.kind = "first" => m.page = 1)
    BY <1>4 DEF CardSending
  <2>4. m.kind \notin CardLists => m.row \in Cards!Row /\ CardNumber(m.row.n)
    BY DEF CardSending
  <2> QED
    BY <1>1, <1>2, <1>4, <1>7, <2>1, <2>2, <2>3, <2>4 DEF CardNumbered
<1>9. CardFresh'
  <2>1. \A a \in DOMAIN arrays : \A i \in DOMAIN arrays[a] : arrays[a][i].n # m.n
    BY <1>1, <1>2, <1>4 DEF CardNumbered, CardNumber
  <2>2. \A o \in requests : o.kind \notin CardLists => o.row.n # m.n
    BY <1>1, <1>2, <1>4 DEF CardNumbered, CardNumber
  <2>3. \A o \in requests : o.kind \in CardLists /\ m.kind \notin CardLists => m.row.n # o.n
    BY DEF CardSending
  <2> QED
    BY <1>1, <1>2, <2>1, <2>2, <2>3 DEF CardFresh
<1>10. CardBlank'
  <2>1. m.kind = "more" => Len(arrays) # 1
    BY <1>2, <1>4 DEF CardBlank, CardSending
  <2> QED
    BY <1>1, <1>2, <2>1 DEF CardBlank
<1>11. CardServer'
  BY <1>1, <1>2, <1>3, <1>5 DEF CardServer, CardServed
<1>12. CardPages'
  BY <1>1, <1>2, <1>3, <1>5 DEF CardPages, CardServed
<1>13. m.kind = "more" => m.page = pageNumber
  BY DEF CardSending
<1>14. CardSingle'
  BY <1>1, <1>2, <1>3, <1>13 DEF CardSingle, CardMore
<1>15. CardKnown' /\ CardInOrder'
  BY <1>1, <1>2, <1>3, <1>6 DEF CardKnown, CardInOrder
<1>16. CardWhole'
  BY <1>1, <1>2, <1>3 DEF CardWhole, CardMore
<1>17. CardSwitches'
  <2> SUFFICES ASSUME ~cardsHist'.turned, NEW i \in DOMAIN Cards!Rows,
                      NEW row, row = Cards!Rows[i]
               PROVE  /\ \A q, o \in requests' : CardSwitch(q)' /\ CardSwitch(o)'
                            /\ q.row = row /\ o.row = row => q = o
                      /\ \A q \in requests' : CardSwitch(q)' /\ q.row = row =>
                            q.on = ~Cards!Shown(row)
                      /\ (\A q \in requests' :
                            CardServed(q, {"switch"})' /\ q.row.task = row.task =>
                               q.row = row) =>
                            row.task \in enabled <=>
                               IF \E q \in requests' : CardServed(q, {"switch"})' /\ q.row = row
                               THEN ~Cards!Shown(row) ELSE Cards!Shown(row)
    BY <1>1, <1>3 DEF CardSwitches
  <2>1. /\ \A q, o \in requests : CardSwitch(q) /\ CardSwitch(o)
                            /\ q.row = row /\ o.row = row => q = o
        /\ \A q \in requests : CardSwitch(q) /\ q.row = row => q.on = ~Cards!Shown(row)
        /\ (\A q \in requests : CardServed(q, {"switch"}) /\ q.row.task = row.task =>
               q.row = row) =>
              row.task \in enabled <=>
                 IF \E q \in requests : CardServed(q, {"switch"}) /\ q.row = row
                 THEN ~Cards!Shown(row) ELSE Cards!Shown(row)
    BY <1>1, <1>2 DEF CardSwitches
  <2>2. m.kind = "switch" => /\ m.on = ~Cards!Shown(m.row)
                             /\ \A o \in requests : o.kind = "switch" => o.row # m.row
    BY DEF CardSending
  <2>3. \A q \in requests' : CardServed(q, {"switch"})' => q \in requests
    BY <1>5 DEF CardServed
  <2>4. \A q : CardSwitch(q)' => CardSwitch(q) \/ (q = m /\ m.kind = "switch")
    BY <1>1 DEF CardSwitch
  <2>5. \A q \in requests' : CardSwitch(q)' /\ q.row = row => q.on = ~Cards!Shown(row)
    BY <1>1, <2>1, <2>2, <2>4 DEF CardSwitch
  <2>6. \A q, o \in requests' : CardSwitch(q)' /\ CardSwitch(o)'
                            /\ q.row = row /\ o.row = row => q = o
    BY <1>1, <2>1, <2>2, <2>4 DEF CardSwitch
  <2> QED
    BY <1>1, <1>5, <2>1, <2>3, <2>5, <2>6
<1> QED
  BY <1>8, <1>9, <1>10, <1>11, <1>12, <1>14, <1>15, <1>16, <1>17
-----------------------------------------------------------------------------
(* The user                                                                 *)

LEMMA CardSendingTyped ==
    ASSUME CardInv, NEW m, CardSending(m), cardsHist' \in CardHists
    PROVE  CardInv'
<1>1. /\ requests' = requests \union {m} /\ m \in Cards!Message /\ taps' = taps + 1
      /\ UNCHANGED <<tasks, enabled, arrays, status, pageNumber>>
  BY DEF CardSending
<1>2. CardHolds
  BY DEF CardInv
<1>3. CardHolds'
  BY <1>1, <1>2 DEF CardHolds
<1> QED
  BY <1>3, CardSends DEF CardInv

\* A step that changes nothing that is held.
LEMMA CardStands ==
    ASSUME CardInv,
           UNCHANGED <<tasks, enabled, arrays, status, pageNumber, requests, taps, cardsHist>>
    PROVE  CardInv'
<1>1. UNCHANGED <<tasks, enabled, arrays, status, pageNumber, requests, taps, cardsHist>>
  OBVIOUS
<1>2. Cards!Rows' = Cards!Rows
  BY <1>1 DEF Cards!Rows
<1>3. \A m, kinds : CardServed(m, kinds)' <=> CardServed(m, kinds)
  BY <1>1 DEF CardServed
<1>4. \A t : CardGoing(t)' <=> CardGoing(t)
  BY <1>1 DEF CardGoing, CardServed
<1>5. \A m : (CardMore(m)' <=> CardMore(m)) /\ (CardSwitch(m)' <=> CardSwitch(m))
  BY <1>1 DEF CardMore, CardSwitch
<1>6. \A t : Cards!Exists(t)' <=> Cards!Exists(t)
  BY <1>1 DEF Cards!Exists
<1>7. \A row : Cards!Shown(row)' <=> Cards!Shown(row)
  BY <1>1 DEF Cards!Shown
<1>8. CardHolds'
  BY <1>1, <1>2 DEF CardInv, CardHolds
<1>9. CardNumbered' /\ CardFresh' /\ CardBlank'
  <2>1. CardNumbered /\ CardFresh /\ CardBlank BY DEF CardInv
  <2> QED BY <1>1, <2>1 DEF CardNumbered, CardNumber, CardFresh, CardBlank
<1>10. CardServer' /\ CardPages'
  <2>1. CardServer /\ CardPages BY DEF CardInv
  <2> QED BY <1>1, <1>3, <1>6, <2>1 DEF CardServer, CardPages
<1>11. CardSingle' /\ CardKnown' /\ CardInOrder'
  <2>1. CardSingle /\ CardKnown /\ CardInOrder BY DEF CardInv
  <2>2. CardSingle' BY <1>1, <1>2, <1>5, <2>1 DEF CardSingle
  <2>3. CardKnown' BY <1>1, <1>2, <1>4, <1>6, <2>1 DEF CardKnown
  <2>4. CardInOrder' BY <1>1, <1>2, <2>1 DEF CardInOrder
  <2> QED BY <2>2, <2>3, <2>4
<1>12. CardWhole'
  <2>1. CardWhole BY DEF CardInv
  <2> QED BY <1>1, <1>2, <1>5, <2>1 DEF CardWhole
<1>13. CardSwitches'
  <2>1. CardSwitches BY DEF CardInv
  <2> QED BY <1>1, <1>2, <1>3, <1>5, <1>7, <2>1 DEF CardSwitches
<1> QED
  BY <1>8, <1>9, <1>10, <1>11, <1>12, <1>13 DEF CardInv

LEMMA CardReload == ASSUME CardInv, Cards!Reload PROVE CardInv'
<1> DEFINE m == Cards!GetTasks
<1>1. CardHolds
  BY DEF CardInv
<1>2. taps \in Nat /\ Len(arrays) \in Nat /\ pageNumber \in Nat /\ <<>> \in Seq(Tasks)
      /\ cardsHist \in CardHists
  BY <1>1, CardRowsTyped DEF CardHolds
<1>3. /\ m \in Cards!Message /\ m.n = taps /\ m.kind = "first" /\ m.page = 1
      /\ m.array = Len(arrays) /\ m.stage = "sent"
  BY <1>2 DEF Cards!GetTasks, Cards!Request, Cards!Message
<1>4. /\ taps < MaxTaps /\ taps' = taps + 1 /\ requests' = requests \union {m}
      /\ UNCHANGED <<tasks, enabled, arrays, status, pageNumber, cardsHist>>
  BY DEF Cards!Reload, Cards!Tap, Cards!Send
<1> HIDE DEF m
<1>5. CardSending(m)
  BY <1>3, <1>4 DEF CardSending, CardLists
<1> QED
  BY <1>2, <1>4, <1>5, CardSendingTyped

LEMMA CardLoadMore == ASSUME CardInv, Cards!LoadMoreTaskListing PROVE CardInv'
<1> DEFINE m == Cards!Request("more")
<1>1. CardHolds
  BY DEF CardInv
<1>2. taps \in Nat /\ Len(arrays) \in Nat /\ pageNumber \in Nat /\ <<>> \in Seq(Tasks)
      /\ cardsHist \in CardHists /\ Cards!Rows \in Seq(Cards!Row)
  BY <1>1, CardRowsTyped DEF CardHolds
<1>3. /\ m \in Cards!Message /\ m.n = taps /\ m.kind = "more" /\ m.page = pageNumber
      /\ m.array = Len(arrays) /\ m.stage = "sent"
  BY <1>2 DEF Cards!Request, Cards!Message
<1>4. /\ taps < MaxTaps /\ taps' = taps + 1 /\ requests' = requests \union {m}
      /\ UNCHANGED <<tasks, enabled, arrays, status, pageNumber, cardsHist>>
      /\ 2 * Len(Cards!Rows) >= PageSize
  BY DEF Cards!LoadMoreTaskListing, Cards!Tap, Cards!Send
<1> HIDE DEF m
<1>5. Cards!Rows # <<>>
  BY <1>4, CardConstants
<1>6. CardSending(m)
  BY <1>3, <1>4, <1>5 DEF CardSending, CardLists
<1> QED
  BY <1>2, <1>4, <1>6, CardSendingTyped

LEMMA CardRender == ASSUME CardInv, Cards!Render PROVE CardInv'
<1>1. UNCHANGED <<tasks, enabled, arrays, status, pageNumber, requests, taps, cardsHist>>
  BY DEF Cards!Render
<1> QED
  BY <1>1, CardStands

LEMMA CardDeleteTask ==
    ASSUME CardInv, CardShows, CardPainted, NEW i \in DOMAIN cards, Cards!DeleteTask(i)
    PROVE  CardInv'
<1> DEFINE m == [Cards!Request("delete") EXCEPT !.index = i, !.since = cards[i].since,
                                                !.row = cards[i].row, !.refresh = refreshList]
<1>1. CardHolds
  BY DEF CardInv
<1>2. taps \in Nat /\ Len(arrays) \in Nat /\ pageNumber \in Nat /\ <<>> \in Seq(Tasks)
      /\ cardsHist \in CardHists
  BY <1>1, CardRowsTyped DEF CardHolds
<1>3. /\ i \in Nat /\ cards[i].row \in Cards!Row /\ cards[i].since \in Nat
      /\ refreshList \in BOOLEAN
  <2>1. cards \in Seq(Cards!Card) /\ refreshList \in BOOLEAN
    BY DEF CardShows
  <2>2. i \in Nat /\ cards[i] \in Cards!Card
    BY <2>1
  <2> QED
    BY <2>1, <2>2 DEF Cards!Card
<1>4. /\ m \in Cards!Message /\ m.n = taps /\ m.kind = "delete" /\ m.page = pageNumber
      /\ m.array = Len(arrays) /\ m.stage = "sent" /\ m.row = cards[i].row
  BY <1>2, <1>3 DEF Cards!Request, Cards!Message
<1>5. /\ taps < MaxTaps /\ taps' = taps + 1 /\ requests' = requests \union {m}
      /\ cardsHist' = [cardsHist EXCEPT !.together = @ \/ Cards!Together(m)]
      /\ UNCHANGED <<tasks, enabled, arrays, status, pageNumber>>
  BY DEF Cards!DeleteTask, Cards!Tap, Cards!Send
<1> HIDE DEF m
<1>6. /\ cardsHist' \in CardHists
      /\ cardsHist'.missed = cardsHist.missed /\ cardsHist'.shifted = cardsHist.shifted
      /\ cardsHist'.skipped = cardsHist.skipped /\ cardsHist'.turned = cardsHist.turned
  BY <1>2, <1>5 DEF CardHists
<1>7. CardSending(m)
  BY <1>3, <1>4, <1>5, <1>6 DEF CardSending, CardLists, CardPainted
<1> QED
  BY <1>6, <1>7, CardSendingTyped

LEMMA CardChangeTaskDisplay ==
    ASSUME CardInv, CardShows, CardPainted, NEW i \in DOMAIN cards,
           Cards!ChangeTaskDisplay(i)
    PROVE  CardInv'
<1> DEFINE m == [Cards!Request("switch") EXCEPT !.index = i, !.since = cards[i].since,
                                                !.row = cards[i].row,
                                                !.on = ~Cards!Shown(cards[i].row),
                                                !.refresh = cards[i].refresh]
<1>1. CardHolds
  BY DEF CardInv
<1>2. taps \in Nat /\ Len(arrays) \in Nat /\ pageNumber \in Nat /\ <<>> \in Seq(Tasks)
      /\ cardsHist \in CardHists
  BY <1>1, CardRowsTyped DEF CardHolds
<1>3. /\ i \in Nat /\ cards[i].row \in Cards!Row /\ cards[i].since \in Nat
      /\ cards[i].refresh \in BOOLEAN
  <2>1. cards \in Seq(Cards!Card) /\ refreshList \in BOOLEAN
    BY DEF CardShows
  <2>2. i \in Nat /\ cards[i] \in Cards!Card
    BY <2>1
  <2> QED
    BY <2>1, <2>2 DEF Cards!Card
<1>4. /\ m \in Cards!Message /\ m.n = taps /\ m.kind = "switch" /\ m.page = pageNumber
      /\ m.array = Len(arrays) /\ m.stage = "sent" /\ m.row = cards[i].row
      /\ m.on = ~Cards!Shown(m.row)
  BY <1>2, <1>3 DEF Cards!Request, Cards!Message
<1>5. /\ taps < MaxTaps /\ taps' = taps + 1 /\ requests' = requests \union {m}
      /\ cardsHist' = [cardsHist EXCEPT !.turned = @ \/ Cards!Twice(m)]
      /\ UNCHANGED <<tasks, enabled, arrays, status, pageNumber>>
  BY DEF Cards!ChangeTaskDisplay, Cards!Tap, Cards!Send
<1> HIDE DEF m
<1>6. /\ cardsHist' \in CardHists
      /\ cardsHist'.missed = cardsHist.missed /\ cardsHist'.shifted = cardsHist.shifted
      /\ cardsHist'.skipped = cardsHist.skipped
      /\ cardsHist'.turned = (cardsHist.turned \/ Cards!Twice(m))
  BY <1>2, <1>5 DEF CardHists
<1>7. ~Cards!Twice(m) => \A o \in requests : o.kind = "switch" => o.row.task # m.row.task
  BY DEF Cards!Twice, Cards!InFlight
<1>8. CardSending(m)
  BY <1>3, <1>4, <1>5, <1>6, <1>7 DEF CardSending, CardLists, CardPainted
<1> QED
  BY <1>6, <1>8, CardSendingTyped
-----------------------------------------------------------------------------
(* The server carries out a request, or refuses it                          *)

CardServing(m, o) ==
    /\ m \in requests /\ m.stage = "sent" /\ o \in Cards!Message
    /\ o.n = m.n /\ o.kind = m.kind /\ o.page = m.page /\ o.array = m.array
    /\ o.row = m.row /\ o.on = m.on /\ o.stage # "sent"
    /\ requests' = (requests \ {m}) \union {o}
    /\ UNCHANGED <<arrays, status, pageNumber, taps>>
    /\ cardsHist' \in CardHists
    /\ cardsHist'.missed = cardsHist.missed /\ cardsHist'.turned = cardsHist.turned
    /\ cardsHist'.skipped = cardsHist.skipped
    /\ tasks' \in Seq(Tasks) /\ enabled' \subseteq Tasks

LEMMA CardServes ==
    ASSUME CardInv, NEW m, NEW o, CardServing(m, o)
    PROVE  /\ CardHolds' /\ CardNumbered' /\ CardFresh' /\ CardBlank'
           /\ Cards!Rows' = Cards!Rows /\ Cards!Rows \in Seq(Cards!Row)
           /\ \A row : Cards!Shown(row)' <=> Cards!Shown(row)
           /\ \A q, kinds : CardServed(q, kinds)' <=>
                 CardServed(q, kinds) \/ (q = o /\ o.kind \in kinds /\ o.stage = "ok")
           /\ \A q : CardMore(q)' => CardMore(q) \/ (q = o /\ CardMore(m))
           /\ \A q : CardSwitch(q)' => (CardSwitch(q) /\ q # m) \/ (q = o /\ CardSwitch(m))
           /\ o \in requests' /\ \A q \in requests' : q # o => q \in requests /\ q.n # m.n
           /\ m.page \in Nat /\ m.page >= 1 /\ pageNumber \in Nat /\ pageNumber >= 2
<1>1. /\ m \in requests /\ m.stage = "sent" /\ o \in Cards!Message /\ o.stage # "sent"
      /\ o.n = m.n /\ o.kind = m.kind /\ o.page = m.page /\ o.array = m.array
      /\ o.row = m.row /\ o.on = m.on
      /\ requests' = (requests \ {m}) \union {o}
      /\ arrays' = arrays /\ status' = status /\ pageNumber' = pageNumber
      /\ taps' = taps /\ cardsHist' \in CardHists
      /\ tasks' \in Seq(Tasks) /\ enabled' \subseteq Tasks
  BY DEF CardServing
<1>2. CardHolds /\ CardNumbered /\ CardFresh /\ CardBlank
  BY DEF CardInv
<1>3. Cards!Rows' = Cards!Rows /\ (\A row : Cards!Shown(row)' <=> Cards!Shown(row))
  BY <1>1 DEF Cards!Rows, Cards!Shown
<1>4. CardHolds'
  BY <1>1, <1>2, <1>3 DEF CardHolds
<1>5. CardNumbered'
  <2>1. \A n : CardNumber(n) => CardNumber(n)'
    BY <1>1 DEF CardNumber
  <2> QED
    BY <1>1, <1>2, <2>1 DEF CardNumbered
<1>6. CardFresh' /\ CardBlank'
  BY <1>1, <1>2 DEF CardFresh, CardBlank
<1>7. \A q, kinds : CardServed(q, kinds)' <=>
                 CardServed(q, kinds) \/ (q = o /\ o.kind \in kinds /\ o.stage = "ok")
  BY <1>1 DEF CardServed
<1>8. \A q : CardMore(q)' => CardMore(q) \/ (q = o /\ CardMore(m))
  BY <1>1 DEF CardMore
<1>9. m # o
  BY <1>1
<1>10. \A q : CardSwitch(q)' => (CardSwitch(q) /\ q # m) \/ (q = o /\ CardSwitch(m))
  BY <1>1, <1>9 DEF CardSwitch
<1>11. o \in requests' /\ \A q \in requests' : q # o => q \in requests /\ q.n # m.n
  BY <1>1, <1>2 DEF CardNumbered
<1>12. m.page \in Nat /\ m.page >= 1 /\ pageNumber \in Nat /\ pageNumber >= 2
  BY <1>1, <1>2 DEF CardNumbered, CardHolds, Cards!Message
<1>13. Cards!Rows \in Seq(Cards!Row)
  BY <1>2, CardRowsTyped
<1> QED
  BY <1>3, <1>4, <1>5, <1>6, <1>7, <1>8, <1>10, <1>11, <1>12, <1>13

\* What a step leaves as it was if it neither deletes nor lists.
LEMMA CardServesRest ==
    ASSUME CardInv, NEW m, NEW o, CardServing(m, o), UNCHANGED tasks, o.list = m.list,
           cardsHist'.shifted = cardsHist.shifted,
           o.stage = "ok" => o.kind \notin {"first", "more", "delete"}
    PROVE  CardServer' /\ CardPages' /\ CardSingle' /\ CardKnown' /\ CardInOrder' /\ CardWhole'
<1>1. /\ Cards!Rows' = Cards!Rows
      /\ \A q, kinds : CardServed(q, kinds)' <=>
            CardServed(q, kinds) \/ (q = o /\ o.kind \in kinds /\ o.stage = "ok")
      /\ \A q : CardMore(q)' => CardMore(q) \/ (q = o /\ CardMore(m))
  BY CardServes
<1>2. /\ m.stage = "sent" /\ o.kind = m.kind /\ o.page = m.page /\ o.list = m.list
      /\ cardsHist'.missed = cardsHist.missed /\ cardsHist'.turned = cardsHist.turned
      /\ cardsHist'.skipped = cardsHist.skipped /\ cardsHist'.shifted = cardsHist.shifted
      /\ tasks' = tasks /\ arrays' = arrays /\ pageNumber' = pageNumber
  BY DEF CardServing
<1>3. /\ CardServer /\ CardPages /\ CardSingle /\ CardKnown /\ CardInOrder /\ CardWhole
  BY DEF CardInv
<1>4. /\ \A t : Cards!Exists(t)' <=> Cards!Exists(t)
      /\ \A p : Cards!PageOf(tasks, p)' = Cards!PageOf(tasks, p)
  BY <1>2 DEF Cards!Exists, Cards!PageOf
<1>5. \A q : CardServed(q, {"delete"})' <=> CardServed(q, {"delete"})
  BY <1>1
<1>6. \A q : CardServed(q, CardLists)' <=> CardServed(q, CardLists)
  BY <1>1 DEF CardLists
<1>7. \A q : CardServed(q, {"delete"}) => q \in requests
  BY DEF CardServed
<1>8. \A q : CardServed(q, {"delete"})' => q \in requests'
  BY DEF CardServed
<1>9. \A t : CardGoing(t)' <=> CardGoing(t)
  BY <1>5, <1>7, <1>8 DEF CardGoing
<1>10. CardServer'
  BY <1>2, <1>3, <1>4, <1>5, <1>7 DEF CardServer
<1>11. CardPages'
  <2>1. \A q : CardServed(q, CardLists) => q \in requests
    BY DEF CardServed
  <2> QED
    BY <1>2, <1>3, <1>4, <1>6, <2>1 DEF CardPages
<1>12. \A q \in requests' : CardMore(q)' =>
          (q = o /\ CardMore(m) /\ o.stage # "ok") \/ (CardMore(q) /\ q \in requests)
  BY <1>1, <1>2 DEF CardMore
<1>13. CardSingle'
  BY <1>1, <1>2, <1>3, <1>12 DEF CardSingle, CardMore
<1>14. CardKnown' /\ CardInOrder'
  BY <1>1, <1>2, <1>3, <1>4, <1>9 DEF CardKnown, CardInOrder
<1>15. CardWhole'
  BY <1>1, <1>2, <1>3, <1>4, <1>12 DEF CardWhole
<1> QED
  BY <1>10, <1>11, <1>13, <1>14, <1>15
LEMMA CardServesSwitches ==
    ASSUME CardInv, NEW m, NEW o, CardServing(m, o), UNCHANGED enabled,
           o.stage = "ok" => o.kind # "switch"
    PROVE  CardSwitches'
<1>1. /\ Cards!Rows' = Cards!Rows /\ (\A row : Cards!Shown(row)' <=> Cards!Shown(row))
      /\ \A q, kinds : CardServed(q, kinds)' <=>
            CardServed(q, kinds) \/ (q = o /\ o.kind \in kinds /\ o.stage = "ok")
      /\ \A q : CardSwitch(q)' => (CardSwitch(q) /\ q # m) \/ (q = o /\ CardSwitch(m))
  BY CardServes
<1>2. /\ m.stage = "sent" /\ o.kind = m.kind /\ o.row = m.row /\ o.on = m.on
      /\ cardsHist'.turned = cardsHist.turned /\ enabled' = enabled
  BY DEF CardServing
<1>3. CardSwitches
  BY DEF CardInv
<1>4. \A q : CardServed(q, {"switch"})' <=> CardServed(q, {"switch"})
  BY <1>1
<1>5. /\ \A q : CardServed(q, {"switch"}) => q \in requests
      /\ \A q : CardServed(q, {"switch"})' => q \in requests'
  BY DEF CardServed
<1>6. /\ \A q : CardSwitch(q) => q \in requests
      /\ \A q : CardSwitch(q)' => q \in requests'
  BY DEF CardSwitch
<1> SUFFICES ASSUME ~cardsHist.turned, NEW i \in DOMAIN Cards!Rows,
                    NEW row, row = Cards!Rows[i]
             PROVE  /\ \A q, r \in requests' : CardSwitch(q)' /\ CardSwitch(r)'
                          /\ q.row = row /\ r.row = row => q = r
                    /\ \A q \in requests' : CardSwitch(q)' /\ q.row = row =>
                          q.on = ~Cards!Shown(row)
                    /\ (\A q \in requests' :
                          CardServed(q, {"switch"})' /\ q.row.task = row.task =>
                             q.row = row) =>
                          row.task \in enabled <=>
                             IF \E q \in requests' : CardServed(q, {"switch"})' /\ q.row = row
                             THEN ~Cards!Shown(row) ELSE Cards!Shown(row)
  BY <1>1, <1>2 DEF CardSwitches
<1>7. /\ \A q, r \in requests : CardSwitch(q) /\ CardSwitch(r)
                          /\ q.row = row /\ r.row = row => q = r
      /\ \A q \in requests : CardSwitch(q) /\ q.row = row => q.on = ~Cards!Shown(row)
      /\ (\A q \in requests : CardServed(q, {"switch"}) /\ q.row.task = row.task =>
             q.row = row) =>
            row.task \in enabled <=>
               IF \E q \in requests : CardServed(q, {"switch"}) /\ q.row = row
               THEN ~Cards!Shown(row) ELSE Cards!Shown(row)
  BY <1>3 DEF CardSwitches
<1>8. \A q, r \in requests' : CardSwitch(q)' /\ CardSwitch(r)'
                          /\ q.row = row /\ r.row = row => q = r
  BY <1>1, <1>2, <1>6, <1>7
<1>9. \A q \in requests' : CardSwitch(q)' /\ q.row = row => q.on = ~Cards!Shown(row)
  BY <1>1, <1>2, <1>6, <1>7
<1> QED
  BY <1>4, <1>5, <1>7, <1>8, <1>9

LEMMA CardRefuse ==
    ASSUME CardInv, NEW m \in requests, m.stage = "sent", Cards!Refuse(m),
           UNCHANGED <<arrays, status, pageNumber, taps>>
    PROVE  CardInv'
<1> DEFINE o == [m EXCEPT !.stage = "error"]
<1>1. CardHolds
  BY DEF CardInv
<1>2. /\ m \in Cards!Message /\ tasks \in Seq(Tasks) /\ enabled \subseteq Tasks
      /\ cardsHist \in CardHists
  BY <1>1 DEF CardHolds
<1>3. /\ o \in Cards!Message /\ o.n = m.n /\ o.kind = m.kind /\ o.page = m.page
      /\ o.array = m.array /\ o.row = m.row /\ o.on = m.on /\ o.stage = "error" /\ o.list = m.list
  BY <1>2 DEF Cards!Message
<1>4. /\ requests' = (requests \ {m}) \union {o}
      /\ tasks' = tasks /\ enabled' = enabled /\ cardsHist' = cardsHist
  BY DEF Cards!Refuse, Cards!Answer
<1> HIDE DEF o
<1>5. CardServing(m, o)
  BY <1>2, <1>3, <1>4 DEF CardServing
<1>6. /\ CardServer' /\ CardPages' /\ CardSingle' /\ CardKnown' /\ CardInOrder' /\ CardWhole'
  BY <1>3, <1>4, <1>5, CardServesRest
<1>7. CardSwitches'
  BY <1>3, <1>4, <1>5, CardServesSwitches
<1> QED
  BY <1>5, <1>6, <1>7, CardServes DEF CardInv

LEMMA CardServeSwitch ==
    ASSUME CardInv, NEW m \in requests, m.stage = "sent", Cards!ServeSwitch(m),
           UNCHANGED <<arrays, status, pageNumber, taps>>
    PROVE  CardInv'
<1> DEFINE o == [m EXCEPT !.stage = "ok"]
<1>1. CardHolds /\ CardNumbered /\ CardSwitches
  BY DEF CardInv
<1>2. /\ m \in Cards!Message /\ tasks \in Seq(Tasks) /\ enabled \subseteq Tasks
      /\ cardsHist \in CardHists
  BY <1>1 DEF CardHolds
<1>3. /\ o \in Cards!Message /\ o.n = m.n /\ o.kind = m.kind /\ o.page = m.page
      /\ o.array = m.array /\ o.row = m.row /\ o.on = m.on /\ o.stage = "ok" /\ o.list = m.list
  BY <1>2 DEF Cards!Message
<1>4. /\ requests' = (requests \ {m}) \union {o} /\ m.kind = "switch"
      /\ tasks' = tasks /\ cardsHist' = cardsHist
      /\ enabled' = IF m.on THEN enabled \union {m.row.task} ELSE enabled \ {m.row.task}
  BY DEF Cards!ServeSwitch, Cards!Answer
<1> HIDE DEF o
<1>5. m.row \in Cards!Row /\ m.row.task \in Tasks
  BY <1>1, <1>4 DEF CardNumbered, CardLists, Cards!Row
<1>6. CardServing(m, o)
  BY <1>2, <1>3, <1>4, <1>5 DEF CardServing
<1>7. /\ CardServer' /\ CardPages' /\ CardSingle' /\ CardKnown' /\ CardInOrder' /\ CardWhole'
  BY <1>3, <1>4, <1>6, CardServesRest
<1>8. /\ Cards!Rows' = Cards!Rows /\ (\A row : Cards!Shown(row)' <=> Cards!Shown(row))
      /\ \A q, kinds : CardServed(q, kinds)' <=>
            CardServed(q, kinds) \/ (q = o /\ o.kind \in kinds /\ o.stage = "ok")
      /\ \A q : CardSwitch(q)' => (CardSwitch(q) /\ q # m) \/ (q = o /\ CardSwitch(m))
      /\ o \in requests'
  BY <1>6, CardServes
<1>9. CardSwitches'
  <2>1. \A q : CardServed(q, {"switch"})' <=> CardServed(q, {"switch"}) \/ q = o
    BY <1>3, <1>4, <1>8
  <2>2. /\ \A q : CardServed(q, {"switch"}) => CardSwitch(q)
        /\ \A q : CardSwitch(q) => q \in requests
        /\ \A q : CardSwitch(q)' => q \in requests'
        /\ \A q : CardServed(q, {"switch"})' => q \in requests'
        /\ CardSwitch(m) /\ ~CardServed(m, {"switch"})
    BY <1>4 DEF CardServed, CardSwitch
  <2> SUFFICES ASSUME ~cardsHist.turned, NEW i \in DOMAIN Cards!Rows,
                      NEW row, row = Cards!Rows[i]
               PROVE  /\ \A q, r \in requests' : CardSwitch(q)' /\ CardSwitch(r)'
                            /\ q.row = row /\ r.row = row => q = r
                      /\ \A q \in requests' : CardSwitch(q)' /\ q.row = row =>
                            q.on = ~Cards!Shown(row)
                      /\ (\A q \in requests' :
                            CardServed(q, {"switch"})' /\ q.row.task = row.task =>
                               q.row = row) =>
                            row.task \in enabled' <=>
                               IF \E q \in requests' : CardServed(q, {"switch"})' /\ q.row = row
                               THEN ~Cards!Shown(row) ELSE Cards!Shown(row)
    BY <1>4, <1>8 DEF CardSwitches
  <2>4. /\ \A q, r \in requests : CardSwitch(q) /\ CardSwitch(r)
                            /\ q.row = row /\ r.row = row => q = r
        /\ \A q \in requests : CardSwitch(q) /\ q.row = row => q.on = ~Cards!Shown(row)
        /\ (\A q \in requests : CardServed(q, {"switch"}) /\ q.row.task = row.task =>
               q.row = row) =>
              row.task \in enabled <=>
                 IF \E q \in requests : CardServed(q, {"switch"}) /\ q.row = row
                 THEN ~Cards!Shown(row) ELSE Cards!Shown(row)
    BY <1>1 DEF CardSwitches
  <2>5. \A q, r \in requests' : CardSwitch(q)' /\ CardSwitch(r)'
                            /\ q.row = row /\ r.row = row => q = r
    BY <1>3, <1>8, <2>2, <2>4
  <2>6. \A q \in requests' : CardSwitch(q)' /\ q.row = row => q.on = ~Cards!Shown(row)
    BY <1>3, <1>8, <2>2, <2>4
  <2>7. CASE m.row = row
    <3>1. o.row = row /\ m.on = ~Cards!Shown(row)
      BY <1>3, <2>2, <2>4, <2>7
    <3>2. row.task \in enabled' <=> m.on
      BY <1>4, <2>7
    <3>3. row.task \in enabled' <=> ~Cards!Shown(row)
      BY <3>1, <3>2
    <3> QED
      BY <1>8, <2>1, <2>5, <2>6, <3>1, <3>3
  <2>8. CASE m.row # row /\ m.row.task = row.task
    BY <1>3, <1>8, <2>1, <2>5, <2>6, <2>8
  <2>9. CASE m.row.task # row.task
    <3>1. row.task \in enabled' <=> row.task \in enabled
      BY <1>4, <2>9
    <3>2. o.row.task # row.task /\ o.row # row
      BY <1>3, <2>9
    <3>3. (\A q \in requests' : CardServed(q, {"switch"})' /\ q.row.task = row.task =>
               q.row = row) =>
          (\A q \in requests : CardServed(q, {"switch"}) /\ q.row.task = row.task =>
               q.row = row)
      BY <2>1, <2>2
    <3>4. (\E q \in requests' : CardServed(q, {"switch"})' /\ q.row = row) <=>
          (\E q \in requests : CardServed(q, {"switch"}) /\ q.row = row)
      BY <2>1, <2>2, <3>2
    <3> QED
      BY <2>4, <2>5, <2>6, <3>1, <3>3, <3>4
  <2> QED
    BY <2>7, <2>8, <2>9
<1> QED
  BY <1>6, <1>7, <1>9, CardServes DEF CardInv
LEMMA CardServeList ==
    ASSUME CardInv, NEW m \in requests, m.stage = "sent", Cards!ServeList(m),
           UNCHANGED <<arrays, status, pageNumber, taps>>
    PROVE  CardInv'
<1> DEFINE q == Cards!PageOf(tasks, m.page)
           o == [m EXCEPT !.stage = "ok", !.list = q, !.enabled = enabled]
<1>1. CardHolds
  BY DEF CardInv
<1>2. /\ m \in Cards!Message /\ tasks \in Seq(Tasks) /\ enabled \subseteq Tasks
      /\ cardsHist \in CardHists /\ m.page \in Nat /\ m.page >= 1
  BY <1>1 DEF CardHolds, CardInv, CardNumbered, Cards!Message
<1>3. /\ q \in Seq(Tasks)
      /\ \A i \in DOMAIN q :
            CardUpto(m.page) + i \in DOMAIN tasks /\ q[i] = tasks[CardUpto(m.page) + i]
      /\ Len(q) <= PageSize
      /\ Len(q) = PageSize \/ Len(tasks) <= CardUpto(m.page + 1)
  <2>1. tasks \in Seq(Tasks) /\ m.page \in Nat /\ m.page >= 1 /\ q = Cards!PageOf(tasks, m.page)
    BY <1>2
  <2> HIDE DEF q
  <2>2. q \in Seq(Tasks) /\ Len(q) <= PageSize
    BY <2>1, CardPage
  <2>3. \A i \in DOMAIN q :
            CardUpto(m.page) + i \in DOMAIN tasks /\ q[i] = tasks[CardUpto(m.page) + i]
    BY <2>1, CardPage
  <2>4. Len(q) = PageSize \/ Len(tasks) <= CardUpto(m.page + 1)
    BY <2>1, CardPage
  <2> QED
    BY <2>2, <2>3, <2>4
<1> HIDE DEF q
<1>4. /\ o \in Cards!Message /\ o.n = m.n /\ o.kind = m.kind /\ o.page = m.page
      /\ o.array = m.array /\ o.row = m.row /\ o.on = m.on /\ o.stage = "ok" /\ o.list = q
  BY <1>2, <1>3 DEF Cards!Message
<1>5. /\ requests' = (requests \ {m}) \union {o} /\ m.kind \in {"first", "more"}
      /\ tasks' = tasks /\ enabled' = enabled /\ cardsHist' = cardsHist
  BY DEF Cards!ServeList, q
<1> HIDE DEF o
<1>6. CardServing(m, o)
  BY <1>2, <1>4, <1>5 DEF CardServing
<1>7. /\ Cards!Rows' = Cards!Rows
      /\ \A r, kinds : CardServed(r, kinds)' <=>
            CardServed(r, kinds) \/ (r = o /\ o.kind \in kinds /\ o.stage = "ok")
      /\ \A r : CardMore(r)' => CardMore(r) \/ (r = o /\ CardMore(m))
      /\ pageNumber \in Nat /\ pageNumber >= 2
      /\ pageNumber' = pageNumber /\ arrays' = arrays
  BY <1>6, CardServes DEF CardServing
<1>8. CardSwitches'
  BY <1>4, <1>5, <1>6, CardServesSwitches
<1>9. /\ CardServer /\ CardPages /\ CardSingle /\ CardKnown /\ CardInOrder /\ CardWhole
      /\ CardNumbered
  BY DEF CardInv
<1>10. /\ \A t : Cards!Exists(t)' <=> Cards!Exists(t)
       /\ \A p : Cards!PageOf(tasks, p)' = Cards!PageOf(tasks, p)
  BY <1>5 DEF Cards!Exists, Cards!PageOf
<1>11. \A r : CardServed(r, {"delete"})' <=> CardServed(r, {"delete"})
  BY <1>4, <1>5, <1>7
<1>12. /\ \A r, kinds : CardServed(r, kinds) => r \in requests
       /\ \A r, kinds : CardServed(r, kinds)' => r \in requests'
  BY DEF CardServed
<1>13. \A t : CardGoing(t)' <=> CardGoing(t)
  BY <1>11, <1>12 DEF CardGoing
<1>14. CardServer'
  BY <1>5, <1>9, <1>10, <1>11, <1>12 DEF CardServer
<1>15. /\ CardUpto(m.page) \in Nat /\ CardUpto(m.page + 1) = CardUpto(m.page) + PageSize
       /\ CardUpto(1) = 0 /\ CardUpto(2) = PageSize
  BY <1>2, CardUptoNext
<1>16. /\ DOMAIN q = 1 .. Len(q) /\ Len(q) \in Nat /\ PageSize \in Nat /\ Len(q) <= PageSize
       /\ DOMAIN tasks = 1 .. Len(tasks) /\ Len(tasks) \in Nat
  BY <1>2, <1>3, CardConstants
<1>17. \A i \in DOMAIN q : \A j \in DOMAIN tasks : q[i] = tasks[j] => j = CardUpto(m.page) + i
  BY <1>3, <1>9 DEF CardServer, CardApartIn
<1>18. CardPages'
  <2>1. CardApartIn(q)
    <3> SUFFICES ASSUME NEW i \in DOMAIN q, NEW j \in DOMAIN q, q[i] = q[j] PROVE i = j
      BY DEF CardApartIn
    <3>1. CardUpto(m.page) + i = CardUpto(m.page) + j
      BY <1>3, <1>17
    <3> QED
      BY <1>15, <1>16, <3>1
  <2>2. \A i \in DOMAIN q : \A j \in DOMAIN tasks : q[i] = tasks[j] => j <= CardUpto(m.page + 1)
    <3> SUFFICES ASSUME NEW i \in DOMAIN q, NEW j \in DOMAIN tasks, q[i] = tasks[j]
                 PROVE  j <= CardUpto(m.page + 1)
      OBVIOUS
    <3>1. j = CardUpto(m.page) + i
      BY <1>17
    <3>2. i <= PageSize /\ i \in Nat
      BY <1>16
    <3> QED
      BY <1>15, <1>16, <3>1, <3>2
  <2>3. m.kind = "first" =>
          /\ m.page = 1
          /\ Len(q) = PageSize \/ Len(tasks) <= PageSize
          /\ \A i \in DOMAIN q : i \in DOMAIN tasks /\ q[i] = tasks[i]
    <3> SUFFICES ASSUME m.kind = "first"
                 PROVE  /\ m.page = 1
                        /\ Len(q) = PageSize \/ Len(tasks) <= PageSize
                        /\ \A i \in DOMAIN q : i \in DOMAIN tasks /\ q[i] = tasks[i]
      OBVIOUS
    <3>1. m.page = 1
      BY <1>9 DEF CardNumbered
    <3>2. \A i \in DOMAIN q : CardUpto(m.page) + i = i
      BY <1>15, <1>16, <3>1
    <3> QED
      BY <1>3, <1>15, <3>1, <3>2
  <2>4. \A r \in requests' : CardServed(r, CardLists)' => r = o \/ CardServed(r, CardLists)
    BY <1>7
  <2> QED
    BY <1>4, <1>5, <1>9, <1>10, <1>12, <2>1, <2>2, <2>3, <2>4 DEF CardPages
<1>19. CardSingle'
  <2>1. CardMore(m) => m.page = pageNumber \/ ~(~cardsHist.missed \/ ~cardsHist.turned)
    BY <1>9 DEF CardSingle
  <2>2. ASSUME ~cardsHist.missed \/ ~cardsHist.turned, CardMore(m),
               NEW i \in DOMAIN Cards!Rows, NEW k \in DOMAIN q, Cards!Rows[i].task = q[k]
        PROVE  FALSE
    <3>1. CardUpto(m.page) + k \in DOMAIN tasks /\ q[k] = tasks[CardUpto(m.page) + k]
      BY <1>3
    <3>2. CardUpto(m.page) + k <= CardUpto(pageNumber)
      BY <1>9, <2>2, <3>1 DEF CardSingle
    <3> QED
      BY <1>15, <1>16, <2>1, <2>2, <3>2
  <2>3. \A r \in requests' :
           CardMore(r)' => (CardMore(r) /\ r \in requests) \/ (r = o /\ CardMore(m))
    BY <1>7 DEF CardMore
  <2> QED
    BY <1>4, <1>5, <1>7, <1>9, <2>1, <2>2, <2>3 DEF CardSingle
<1>20. CardKnown' /\ CardInOrder'
  BY <1>5, <1>7, <1>9, <1>10, <1>13 DEF CardKnown, CardInOrder
<1>21. CardWhole'
  <2>1. \A r \in requests' :
           CardMore(r)' => (CardMore(r) /\ r \in requests) \/ (r = o /\ CardMore(m))
    BY <1>7 DEF CardMore
  <2> QED
    BY <1>4, <1>5, <1>7, <1>9, <1>10, <2>1 DEF CardWhole, q
<1> QED
  BY <1>6, <1>8, <1>14, <1>18, <1>19, <1>20, <1>21, CardServes DEF CardInv
LEMMA CardServeDelete ==
    ASSUME CardInv, NEW m \in requests, m.stage = "sent", Cards!ServeDelete(m),
           UNCHANGED <<arrays, status, pageNumber, taps>>
    PROVE  CardInv'
<1> DEFINE o == [m EXCEPT !.stage = "ok"]
<1>1. CardHolds
  BY DEF CardInv
<1>2. /\ m \in Cards!Message /\ tasks \in Seq(Tasks) /\ enabled \subseteq Tasks
      /\ cardsHist \in CardHists /\ requests \subseteq Cards!Message
  BY <1>1 DEF CardHolds
<1>3. /\ o \in Cards!Message /\ o.n = m.n /\ o.kind = m.kind /\ o.page = m.page
      /\ o.array = m.array /\ o.row = m.row /\ o.on = m.on /\ o.stage = "ok"
  BY <1>2 DEF Cards!Message
<1>4. /\ requests' = (requests \ {m}) \union {o} /\ m.kind = "delete" /\ enabled' = enabled
      /\ cardsHist' = [cardsHist EXCEPT !.shifted = TRUE]
  BY DEF Cards!ServeDelete, Cards!Answer
<1>5. PICK p \in DOMAIN tasks : tasks[p] = m.row.task /\ tasks' = Cards!Without(tasks, p)
  BY DEF Cards!ServeDelete
<1> HIDE DEF o
<1>6. /\ tasks' \in Seq(Tasks) /\ Len(tasks') = Len(tasks) - 1
      /\ DOMAIN tasks' = 1 .. Len(tasks) - 1
  BY <1>2, <1>5, CardMoves
<1>7. /\ \A i \in DOMAIN tasks' : CardUp(p, i) \in DOMAIN tasks /\ CardUp(p, i) # p
                                 /\ i <= CardUp(p, i) /\ tasks'[i] = tasks[CardUp(p, i)]
      /\ \A i \in DOMAIN tasks : i # p =>
            /\ CardDown(p, i) \in DOMAIN tasks' /\ tasks'[CardDown(p, i)] = tasks[i]
            /\ CardUp(p, CardDown(p, i)) = i
  BY <1>2, <1>5, CardMoves
<1>8. \A i, j \in DOMAIN tasks' : i < j => CardUp(p, i) < CardUp(p, j)
  BY <1>2, <1>5, CardMoves
<1>9. /\ DOMAIN tasks = 1 .. Len(tasks) /\ Len(tasks) \in Nat
      /\ cardsHist' \in CardHists /\ cardsHist'.shifted = TRUE
      /\ cardsHist'.missed = cardsHist.missed /\ cardsHist'.turned = cardsHist.turned
      /\ cardsHist'.skipped = cardsHist.skipped
  <2>1. DOMAIN tasks = 1 .. Len(tasks) /\ Len(tasks) \in Nat
    BY <1>2
  <2>2. cardsHist' \in CardHists
    BY <1>2, <1>4 DEF CardHists
  <2>3. cardsHist'.shifted = TRUE
    BY <1>2, <1>4 DEF CardHists
  <2>4. /\ cardsHist'.missed = cardsHist.missed /\ cardsHist'.turned = cardsHist.turned
        /\ cardsHist'.skipped = cardsHist.skipped
    BY <1>2, <1>4 DEF CardHists
  <2> QED
    BY <2>1, <2>2, <2>3, <2>4
<1>10. CardServing(m, o)
  BY <1>2, <1>3, <1>4, <1>6, <1>9 DEF CardServing
<1>11. /\ Cards!Rows' = Cards!Rows /\ Cards!Rows \in Seq(Cards!Row)
       /\ \A q, kinds : CardServed(q, kinds)' <=>
             CardServed(q, kinds) \/ (q = o /\ o.kind \in kinds /\ o.stage = "ok")
       /\ \A q : CardMore(q)' => CardMore(q) \/ (q = o /\ CardMore(m))
       /\ pageNumber \in Nat /\ pageNumber >= 2
  BY <1>10, CardServes
<1>12. CardSwitches'
  BY <1>3, <1>4, <1>10, CardServesSwitches
<1>13. /\ CardServer /\ CardPages /\ CardSingle /\ CardKnown /\ CardInOrder /\ CardNumbered
  BY DEF CardInv
<1>14. CardApartIn(tasks)
  BY <1>13 DEF CardServer
<1>15. \A t : Cards!Exists(t)' <=> Cards!Exists(t) /\ t # m.row.task
  <2>1. ASSUME NEW t, Cards!Exists(t)' PROVE Cards!Exists(t) /\ t # m.row.task
    <3>1. PICK i \in DOMAIN tasks' : tasks'[i] = t
      BY <2>1 DEF Cards!Exists
    <3> QED
      BY <1>5, <1>7, <1>14, <3>1 DEF Cards!Exists, CardApartIn
  <2>2. ASSUME NEW t, Cards!Exists(t), t # m.row.task PROVE Cards!Exists(t)'
    <3>1. PICK i \in DOMAIN tasks : tasks[i] = t
      BY <2>2 DEF Cards!Exists
    <3>2. i # p
      BY <1>5, <2>2, <3>1
    <3> QED
      BY <1>7, <3>1, <3>2 DEF Cards!Exists
  <2> QED
    BY <2>1, <2>2
<1>16. /\ \A q, kinds : CardServed(q, kinds) => q \in requests
       /\ \A q, kinds : CardServed(q, kinds)' => q \in requests'
       /\ Cards!Exists(m.row.task)
       /\ \A q : CardServed(q, {"delete"})' <=> CardServed(q, {"delete"}) \/ q = o
       /\ \A q : CardServed(q, CardLists)' <=> CardServed(q, CardLists)
  BY <1>3, <1>4, <1>5, <1>11 DEF CardServed, Cards!Exists, CardLists
<1>17. CardServer'
  <2>1. CardApartIn(tasks')
    <3> SUFFICES ASSUME NEW i \in DOMAIN tasks', NEW j \in DOMAIN tasks', tasks'[i] = tasks'[j]
                 PROVE  i = j
      BY DEF CardApartIn
    <3>1. CardUp(p, i) = CardUp(p, j)
      BY <1>7, <1>14 DEF CardApartIn
    <3>2. CardUp(p, i) \in Nat /\ i \in Nat /\ j \in Nat
      BY <1>6, <1>7, <1>9
    <3> QED
      BY <1>8, <3>1, <3>2
  <2>2. \A q \in requests' : CardServed(q, {"delete"})' => ~Cards!Exists(q.row.task)'
    BY <1>3, <1>13, <1>15, <1>16 DEF CardServer
  <2>3. \A q : CardServed(q, {"delete"}) => q.row.task # o.row.task
    BY <1>3, <1>13, <1>16 DEF CardServer
  <2>4. \A q, r \in requests' :
          CardServed(q, {"delete"})' /\ CardServed(r, {"delete"})' /\ q.row.task = r.row.task
          => q = r
    BY <1>13, <1>16, <2>3 DEF CardServer
  <2> QED
    BY <2>1, <2>2, <2>4 DEF CardServer
<1>18. \A j \in DOMAIN tasks' : CardUp(p, j) \in DOMAIN tasks /\ j <= CardUp(p, j)
                                /\ j \in Nat /\ CardUp(p, j) \in Nat
  BY <1>6, <1>7, <1>9
<1>19. CardPages'
  <2> SUFFICES ASSUME NEW q \in requests, CardServed(q, CardLists)
               PROVE  /\ CardApartIn(q.list)
                      /\ \A i \in DOMAIN q.list : \A j \in DOMAIN tasks' :
                            q.list[i] = tasks'[j] => j <= CardUpto(q.page + 1)
                      /\ q.kind = "first" =>
                            /\ Len(q.list) = PageSize \/ Len(tasks') <= PageSize
                            /\ (\A i \in DOMAIN q.list : Cards!Exists(q.list[i])') =>
                                  \A i \in DOMAIN q.list :
                                      i \in DOMAIN tasks' /\ q.list[i] = tasks'[i]
    BY <1>16 DEF CardPages
  <2>1. /\ CardApartIn(q.list)
        /\ \A i \in DOMAIN q.list : \A j \in DOMAIN tasks :
              q.list[i] = tasks[j] => j <= CardUpto(q.page + 1)
        /\ q.kind = "first" =>
              /\ Len(q.list) = PageSize \/ Len(tasks) <= PageSize
              /\ (\A i \in DOMAIN q.list : Cards!Exists(q.list[i])) =>
                    \A i \in DOMAIN q.list : i \in DOMAIN tasks /\ q.list[i] = tasks[i]
    BY <1>13 DEF CardPages
  <2>2. q.list \in Seq(Tasks) /\ q.page \in Nat /\ q.page >= 1
    BY <1>2, <1>13 DEF CardNumbered, Cards!Message
  <2>3. CardUpto(q.page + 1) \in Nat /\ PageSize \in Nat
    BY <2>2, CardUptoNext, CardConstants
  <2>4. ASSUME NEW i \in DOMAIN q.list, NEW j \in DOMAIN tasks', q.list[i] = tasks'[j]
        PROVE  j <= CardUpto(q.page + 1)
    <3>1. CardUp(p, j) <= CardUpto(q.page + 1)
      BY <1>7, <2>1, <2>4
    <3> QED
      BY <1>18, <2>3, <3>1
  <2>5. q.kind = "first" => Len(q.list) = PageSize \/ Len(tasks') <= PageSize
    BY <1>6, <1>9, <2>1, <2>3
  <2>6. ASSUME q.kind = "first", \A i \in DOMAIN q.list : Cards!Exists(q.list[i])',
               NEW i \in DOMAIN q.list
        PROVE  i \in DOMAIN tasks' /\ q.list[i] = tasks'[i]
    <3>1. \A k \in DOMAIN q.list : k \in DOMAIN tasks /\ q.list[k] = tasks[k] /\ k # p
      BY <1>5, <1>15, <2>1, <2>6
    <3>2. i < p
      <4>1. DOMAIN q.list = 1 .. Len(q.list) /\ Len(q.list) \in Nat
        BY <2>2
      <4>2. ~(p \in DOMAIN q.list) /\ p \in Nat /\ p >= 1
        BY <1>9, <3>1
      <4> QED
        BY <4>1, <4>2
    <3>3. CardDown(p, i) = i /\ i # p
      BY <3>1, <3>2 DEF CardDown
    <3> QED
      BY <1>7, <3>1, <3>3
  <2> QED
    BY <2>1, <2>4, <2>5, <2>6
<1>20. /\ pageNumber' = pageNumber /\ arrays' = arrays
       /\ \A q : CardMore(q)' => CardMore(q) /\ q \in requests
  BY <1>4, <1>11 DEF CardMore
<1>21. CardSingle'
  <2> SUFFICES ASSUME ~cardsHist.missed \/ ~cardsHist.turned
               PROVE  \A i \in DOMAIN Cards!Rows : \A j \in DOMAIN tasks' :
                         Cards!Rows[i].task = tasks'[j] => j <= CardUpto(pageNumber)
    BY <1>9, <1>11, <1>13, <1>20 DEF CardSingle
  <2> SUFFICES ASSUME NEW i \in DOMAIN Cards!Rows, NEW j \in DOMAIN tasks',
                      Cards!Rows[i].task = tasks'[j]
               PROVE  j <= CardUpto(pageNumber)
    OBVIOUS
  <2>1. CardUp(p, j) <= CardUpto(pageNumber)
    BY <1>7, <1>13 DEF CardSingle
  <2>2. CardUpto(pageNumber) \in Nat
    <3>1. pageNumber \in Nat /\ pageNumber >= 1
      BY <1>11
    <3> QED
      BY <3>1, CardUptoNext
  <2> QED
    BY <1>18, <2>1, <2>2
<1>22. CardKnown'
  <2>1. CardGoing(m.row.task)'
    BY <1>3, <1>16 DEF CardGoing
  <2>2. \A t : CardGoing(t) => CardGoing(t)'
    BY <1>16 DEF CardGoing
  <2> QED
    BY <1>9, <1>11, <1>13, <1>15, <2>1, <2>2 DEF CardKnown
<1>23. CardInOrder'
  <2> SUFFICES ASSUME ~cardsHist.missed, ~cardsHist.skipped,
                      NEW i \in DOMAIN Cards!Rows, NEW j \in DOMAIN tasks',
                      Cards!Rows[i].task = tasks'[j], NEW k \in 1 .. j - 1
               PROVE  \E l \in 1 .. i - 1 : Cards!Rows[l].task = tasks'[k]
    BY <1>9, <1>11 DEF CardInOrder
  <2>1. k \in DOMAIN tasks' /\ k < j
    BY <1>6, <1>9
  <2>2. CardUp(p, k) < CardUp(p, j) /\ CardUp(p, k) >= 1
    BY <1>8, <1>9, <1>18, <2>1
  <2>3. CardUp(p, k) \in 1 .. CardUp(p, j) - 1
    BY <1>18, <2>1, <2>2
  <2>4. \E l \in 1 .. i - 1 : Cards!Rows[l].task = tasks[CardUp(p, k)]
    BY <1>7, <1>13, <2>3 DEF CardInOrder
  <2> QED
    BY <1>7, <2>1, <2>4
<1>24. CardWhole'
  BY <1>9 DEF CardWhole
<1> QED
  BY <1>10, <1>12, <1>17, <1>19, <1>21, <1>22, <1>23, <1>24, CardServes DEF CardInv

LEMMA CardServe == ASSUME CardInv, NEW m \in requests, Cards!Serve(m) PROVE CardInv'
BY CardServeList, CardServeDelete, CardServeSwitch, CardRefuse DEF Cards!Serve
-----------------------------------------------------------------------------
(* An answer is taken, or does not come                                     *)

CardTaking(m) ==
    /\ m \in requests /\ requests' = requests \ {m}
    /\ UNCHANGED <<tasks, enabled, taps>>

LEMMA CardTakes ==
    ASSUME CardInv, NEW m, CardTaking(m)
    PROVE  /\ CardServer' /\ CardPages'
           /\ requests' \subseteq Cards!Message /\ tasks' \in Seq(Tasks) /\ enabled' \subseteq Tasks
           /\ taps' \in Nat
           /\ \A q, kinds : CardServed(q, kinds)' <=> CardServed(q, kinds) /\ q # m
           /\ \A q : CardSwitch(q)' <=> CardSwitch(q) /\ q # m
           /\ \A q \in requests' : q \in requests /\ q # m
           /\ \A t : Cards!Exists(t)' <=> Cards!Exists(t)
           /\ \A p : Cards!PageOf(tasks, p)' = Cards!PageOf(tasks, p)
           /\ \A n : CardNumber(n)' <=> CardNumber(n)
<1>1. /\ m \in requests /\ requests' = requests \ {m}
      /\ tasks' = tasks /\ enabled' = enabled /\ taps' = taps
  BY DEF CardTaking
<1>2. CardServer /\ CardPages /\ CardHolds
  BY DEF CardInv
<1>3. /\ \A t : Cards!Exists(t)' <=> Cards!Exists(t)
      /\ \A p : Cards!PageOf(tasks, p)' = Cards!PageOf(tasks, p)
      /\ \A n : CardNumber(n)' <=> CardNumber(n)
  BY <1>1 DEF Cards!Exists, Cards!PageOf, CardNumber
<1>4. \A q, kinds : CardServed(q, kinds)' <=> CardServed(q, kinds) /\ q # m
  BY <1>1 DEF CardServed
<1>5. CardServer'
  BY <1>1, <1>2, <1>3, <1>4 DEF CardServer
<1>6. CardPages'
  BY <1>1, <1>2, <1>3, <1>4 DEF CardPages
<1>7. \A q : CardSwitch(q)' <=> CardSwitch(q) /\ q # m
  BY <1>1 DEF CardSwitch
<1>8. /\ requests' \subseteq Cards!Message /\ tasks' \in Seq(Tasks) /\ enabled' \subseteq Tasks
      /\ taps' \in Nat
  BY <1>1, <1>2 DEF CardHolds
<1> QED
  BY <1>1, <1>3, <1>4, <1>5, <1>6, <1>7, <1>8

\* What follows when the arrays stay as they are: all but what depends on the
\* answers that were carried out.
LEMMA CardTakesKept ==
    ASSUME CardInv, NEW m, CardTaking(m), UNCHANGED <<arrays, pageNumber>>,
           status' \in [Tasks \X (0 .. MaxTaps) -> BOOLEAN], cardsHist' \in CardHists,
           cardsHist.missed => cardsHist'.missed, cardsHist.turned => cardsHist'.turned,
           cardsHist'.shifted = cardsHist.shifted, cardsHist'.skipped = cardsHist.skipped,
           CardServed(m, {"delete"}) => cardsHist'.missed
    PROVE  /\ CardHolds' /\ CardNumbered' /\ CardFresh' /\ CardBlank' /\ CardServer'
           /\ CardPages' /\ CardSingle' /\ CardKnown' /\ CardInOrder' /\ CardWhole'
           /\ Cards!Rows' = Cards!Rows
<1>1. /\ m \in requests /\ requests' = requests \ {m}
      /\ tasks' = tasks /\ enabled' = enabled /\ taps' = taps
      /\ arrays' = arrays /\ pageNumber' = pageNumber
  BY DEF CardTaking
<1>2. /\ CardServer' /\ CardPages'
      /\ requests' \subseteq Cards!Message /\ tasks' \in Seq(Tasks) /\ enabled' \subseteq Tasks
      /\ taps' \in Nat
      /\ \A q, kinds : CardServed(q, kinds)' <=> CardServed(q, kinds) /\ q # m
      /\ \A q \in requests' : q \in requests /\ q # m
      /\ \A t : Cards!Exists(t)' <=> Cards!Exists(t)
      /\ \A p : Cards!PageOf(tasks, p)' = Cards!PageOf(tasks, p)
      /\ \A n : CardNumber(n)' <=> CardNumber(n)
  BY CardTakes
<1>3. /\ CardHolds /\ CardNumbered /\ CardFresh /\ CardBlank /\ CardSingle /\ CardKnown
      /\ CardInOrder /\ CardWhole
  BY DEF CardInv
<1>4. Cards!Rows' = Cards!Rows
  BY <1>1 DEF Cards!Rows
<1>5. CardHolds'
  BY <1>1, <1>2, <1>3, <1>4 DEF CardHolds
<1>6. CardNumbered' /\ CardFresh' /\ CardBlank'
  <2>1. CardNumbered'
    BY <1>1, <1>2, <1>3 DEF CardNumbered
  <2> QED
    BY <1>1, <1>3, <2>1 DEF CardFresh, CardBlank
<1>7. \A q : CardMore(q)' => CardMore(q) /\ q \in requests
  BY <1>1 DEF CardMore
<1>8. CardSingle' /\ CardWhole'
  BY <1>1, <1>2, <1>3, <1>4, <1>7 DEF CardSingle, CardWhole
<1>9. CardKnown'
  <2>1. ~CardServed(m, {"delete"}) => \A t : CardGoing(t) => CardGoing(t)'
    BY <1>1, <1>2 DEF CardGoing
  <2> QED
    BY <1>2, <1>3, <1>4, <2>1 DEF CardKnown
<1>10. CardInOrder'
  BY <1>1, <1>3, <1>4 DEF CardInOrder
<1> QED
  BY <1>2, <1>4, <1>5, <1>6, <1>8, <1>9, <1>10

LEMMA CardFail == ASSUME CardInv, NEW m \in requests, Cards!Fail(m) PROVE CardInv'
<1>1. CardHolds /\ CardSwitches
  BY DEF CardInv
<1>2. /\ requests' = requests \ {m}
      /\ UNCHANGED <<tasks, enabled, arrays, status, pageNumber, taps>>
      /\ cardsHist' = [cardsHist EXCEPT
                          !.missed = @ \/ (m.kind = "delete" /\ m.stage = "ok"),
                          !.turned = @ \/ (m.kind = "switch" /\ m.stage = "ok")]
  BY DEF Cards!Fail
<1>3. CardTaking(m)
  BY <1>2 DEF CardTaking
<1>4. cardsHist \in CardHists /\ status \in [Tasks \X (0 .. MaxTaps) -> BOOLEAN]
  BY <1>1 DEF CardHolds
<1>6. cardsHist' \in CardHists
  BY <1>2, <1>4 DEF CardHists
<1>7. /\ cardsHist'.missed = (cardsHist.missed \/ (m.kind = "delete" /\ m.stage = "ok"))
      /\ cardsHist'.turned = (cardsHist.turned \/ (m.kind = "switch" /\ m.stage = "ok"))
  BY <1>2, <1>4 DEF CardHists
<1>8. cardsHist'.shifted = cardsHist.shifted /\ cardsHist'.skipped = cardsHist.skipped
  BY <1>2, <1>4 DEF CardHists
<1>9. CardServed(m, {"delete"}) => cardsHist'.missed
  BY <1>7 DEF CardServed
<1>10. status' = status
  BY <1>2, <1>4
<1>11. /\ CardHolds' /\ CardNumbered' /\ CardFresh' /\ CardBlank' /\ CardServer'
       /\ CardPages' /\ CardSingle' /\ CardKnown' /\ CardInOrder' /\ CardWhole'
       /\ Cards!Rows' = Cards!Rows
  BY <1>2, <1>3, <1>4, <1>6, <1>7, <1>8, <1>9, <1>10, CardTakesKept
<1>12. CardSwitches'
  <2> SUFFICES ASSUME ~cardsHist'.turned PROVE CardSwitches'
    BY DEF CardSwitches
  <2>1. ~CardServed(m, {"switch"}) /\ ~cardsHist.turned
    BY <1>7 DEF CardServed
  <2>2. /\ \A q, kinds : CardServed(q, kinds)' <=> CardServed(q, kinds) /\ q # m
        /\ \A q : CardSwitch(q)' <=> CardSwitch(q) /\ q # m
    BY <1>3, CardTakes
  <2>3. \A q : CardServed(q, {"switch"})' <=> CardServed(q, {"switch"})
    BY <2>1, <2>2
  <2>4. /\ \A q : CardServed(q, {"switch"}) => q \in requests
        /\ \A q : CardServed(q, {"switch"})' => q \in requests'
    BY DEF CardServed
  <2>5. \A row : Cards!Shown(row)' <=> Cards!Shown(row)
    BY <1>10 DEF Cards!Shown
  <2>6. enabled' = enabled /\ \A q \in requests' : q \in requests
    BY <1>2
  <2> QED
    BY <1>1, <1>11, <2>1, <2>2, <2>3, <2>4, <2>5, <2>6 DEF CardSwitches
<1> QED
  BY <1>11, <1>12 DEF CardInv
\* The answer of a switch that the shown row, or one that is gone, was touched for.
LEMMA CardDeliverSwitch ==
    ASSUME CardInv, NEW m \in requests, Cards!DeliverSwitch(m) PROVE CardInv'
<1> DEFINE others == \/ Cards!Moved(m)
                     \/ /\ m.row \notin {Cards!Rows[i] : i \in DOMAIN Cards!Rows}
                        /\ m.row.task \in Cards!TasksOf(Cards!Rows)
<1>1. CardHolds /\ CardSwitches /\ CardNumbered
  BY DEF CardInv
<1>2. /\ m.kind = "switch" /\ m.stage = "ok" /\ requests' = requests \ {m}
      /\ status' = [status EXCEPT ![<<m.row.task, m.row.n>>] = ~@]
      /\ cardsHist' = [cardsHist EXCEPT !.turned = @ \/ others]
      /\ UNCHANGED <<tasks, enabled, arrays, pageNumber, taps>>
  BY DEF Cards!DeliverSwitch, Cards!Flipped
<1>3. CardTaking(m) /\ ~CardServed(m, {"delete"}) /\ CardServed(m, {"switch"}) /\ CardSwitch(m)
  BY <1>2 DEF CardTaking, CardServed, CardSwitch
<1>4. /\ cardsHist \in CardHists
      /\ status \in [Tasks \X (0 .. MaxTaps) -> BOOLEAN]
      /\ Cards!Rows \in Seq(Cards!Row) /\ Cards!Rows = arrays[Len(arrays)]
      /\ Len(arrays) \in DOMAIN arrays
  BY <1>1, CardRowsTyped DEF CardHolds
<1>5. m.row \in Cards!Row /\ CardNumber(m.row.n)
  BY <1>1, <1>2 DEF CardNumbered, CardLists
<1>6. status' \in [Tasks \X (0 .. MaxTaps) -> BOOLEAN]
  BY <1>2, <1>4
<1>7. cardsHist' \in CardHists
  BY <1>2, <1>4 DEF CardHists
<1>8. cardsHist'.turned = (cardsHist.turned \/ others)
  BY <1>2, <1>4 DEF CardHists
<1>9. /\ cardsHist'.missed = cardsHist.missed /\ cardsHist'.shifted = cardsHist.shifted
      /\ cardsHist'.skipped = cardsHist.skipped
  BY <1>2, <1>4 DEF CardHists
<1> HIDE DEF others
<1>10. /\ CardHolds' /\ CardNumbered' /\ CardFresh' /\ CardBlank' /\ CardServer'
       /\ CardPages' /\ CardSingle' /\ CardKnown' /\ CardInOrder' /\ CardWhole'
       /\ Cards!Rows' = Cards!Rows
  BY <1>2, <1>3, <1>4, <1>6, <1>7, <1>8, <1>9, CardTakesKept
<1>11. CardSwitches'
  <2> SUFFICES ASSUME ~cardsHist.turned, ~others, NEW i \in DOMAIN Cards!Rows,
                      NEW row, row = Cards!Rows[i]
               PROVE  /\ \A q, r \in requests' : CardSwitch(q)' /\ CardSwitch(r)'
                            /\ q.row = row /\ r.row = row => q = r
                      /\ \A q \in requests' : CardSwitch(q)' /\ q.row = row =>
                            q.on = ~Cards!Shown(row)'
                      /\ (\A q \in requests' :
                            CardServed(q, {"switch"})' /\ q.row.task = row.task =>
                               q.row = row) =>
                            row.task \in enabled <=>
                               IF \E q \in requests' : CardServed(q, {"switch"})' /\ q.row = row
                               THEN ~Cards!Shown(row)' ELSE Cards!Shown(row)'
    <3>1. ~cardsHist'.turned => ~cardsHist.turned /\ ~others
      BY <1>8
    <3>2. Cards!Rows' = Cards!Rows /\ enabled' = enabled
      BY <1>2, <1>10
    <3> QED
      BY <3>1, <3>2 DEF CardSwitches
  <2>1. /\ \A q, r \in requests : CardSwitch(q) /\ CardSwitch(r)
                            /\ q.row = row /\ r.row = row => q = r
        /\ \A q \in requests : CardSwitch(q) /\ q.row = row => q.on = ~Cards!Shown(row)
        /\ (\A q \in requests : CardServed(q, {"switch"}) /\ q.row.task = row.task =>
               q.row = row) =>
              row.task \in enabled <=>
                 IF \E q \in requests : CardServed(q, {"switch"}) /\ q.row = row
                 THEN ~Cards!Shown(row) ELSE Cards!Shown(row)
    BY <1>1 DEF CardSwitches
  <2>2. /\ \A q, kinds : CardServed(q, kinds)' <=> CardServed(q, kinds) /\ q # m
        /\ \A q : CardSwitch(q)' <=> CardSwitch(q) /\ q # m
    BY <1>3, CardTakes
  <2>3. /\ \A q : CardServed(q, {"switch"}) => q \in requests /\ CardSwitch(q)
        /\ \A q \in requests' : q \in requests /\ q # m
        /\ \A q \in requests : q # m => q \in requests'
    BY <1>2 DEF CardServed, CardSwitch
  <2>4. row \in Cards!Row /\ CardNumber(row.n)
    BY <1>1, <1>4 DEF CardNumbered
  <2>5. m.row.task = row.task => m.row = row
    <3>1. row.task \in Cards!TasksOf(Cards!Rows)
      BY DEF Cards!TasksOf
    <3>2. m.row.task = row.task => m.row \in {Cards!Rows[j] : j \in DOMAIN Cards!Rows}
      BY <3>1 DEF others
    <3> SUFFICES ASSUME m.row.task = row.task PROVE m.row = row
      OBVIOUS
    <3>3. PICK j \in DOMAIN Cards!Rows : m.row = Cards!Rows[j]
      BY <3>2
    <3>4. i = j
      BY <3>3 DEF CardInv, CardSingle
    <3> QED
      BY <3>3, <3>4
  <2>6. <<row.task, row.n>> \in DOMAIN status /\ <<m.row.task, m.row.n>> \in DOMAIN status
    BY <1>4, <1>5, <2>4 DEF Cards!Row, CardNumber
  <2>7. CASE m.row = row
    <3>1. Cards!Shown(row)' = ~Cards!Shown(row)
      BY <1>2, <2>6, <2>7 DEF Cards!Shown
    <3>2. \A q \in requests : CardSwitch(q) /\ q.row = row => q = m
      BY <1>3, <2>1, <2>7
    <3>3. ~ \E q \in requests' : CardServed(q, {"switch"})' /\ q.row = row
      BY <2>2, <2>3, <3>2
    <3>4. ASSUME \A q \in requests' : CardServed(q, {"switch"})' /\ q.row.task = row.task =>
                               q.row = row
          PROVE  row.task \in enabled <=> ~Cards!Shown(row)
      <4>1. \A q \in requests : CardServed(q, {"switch"}) /\ q.row.task = row.task =>
               q.row = row
        BY <2>2, <2>3, <2>7, <3>4
      <4> QED
        BY <1>3, <2>1, <2>7, <4>1
    <3> QED
      BY <2>2, <2>3, <3>1, <3>2, <3>3, <3>4
  <2>8. CASE m.row # row
    <3>1. <<row.task, row.n>> # <<m.row.task, m.row.n>>
      BY <2>5, <2>8
    <3>2. Cards!Shown(row)' = Cards!Shown(row)
      BY <1>2, <2>6, <3>1 DEF Cards!Shown
    <3>3. m.row.task # row.task
      BY <2>5, <2>8
    <3>4. (\A q \in requests' : CardServed(q, {"switch"})' /\ q.row.task = row.task =>
               q.row = row) =>
          (\A q \in requests : CardServed(q, {"switch"}) /\ q.row.task = row.task =>
               q.row = row)
      BY <2>2, <2>3, <3>3
    <3>5. (\E q \in requests' : CardServed(q, {"switch"})' /\ q.row = row) <=>
          (\E q \in requests : CardServed(q, {"switch"}) /\ q.row = row)
      BY <2>2, <2>3, <2>8
    <3> QED
      BY <2>1, <2>2, <2>3, <3>2, <3>4, <3>5
  <2> QED
    BY <2>7, <2>8
<1> QED
  BY <1>10, <1>11 DEF CardInv
\* deleteItem: the row at the captured index is taken out of the captured array.
LEMMA CardDeliverDelete ==
    ASSUME CardInv, NEW m \in requests, Cards!DeliverDelete(m) PROVE CardInv'
<1> DEFINE a == m.array
           x == m.index
           rows == Cards!Rows
           gone == IF x \in DOMAIN arrays[a] THEN Cards!Without(arrays[a], x) ELSE arrays[a]
<1>1. CardHolds /\ CardSwitches /\ CardNumbered /\ CardFresh /\ CardBlank /\ CardServer
      /\ CardSingle /\ CardKnown /\ CardInOrder /\ CardWhole
  BY DEF CardInv
<1>2. /\ m.kind = "delete" /\ m.stage = "ok" /\ requests' = requests \ {m}
      /\ arrays' = Cards!Gone(m)
      /\ cardsHist' = [cardsHist EXCEPT !.missed = @ \/ Cards!Missed(m)]
      /\ UNCHANGED <<tasks, enabled, status, pageNumber, taps>>
  BY DEF Cards!DeliverDelete
<1>3. /\ cardsHist \in CardHists /\ arrays \in Seq(Seq(Cards!Row))
      /\ status \in [Tasks \X (0 .. MaxTaps) -> BOOLEAN]
      /\ rows \in Seq(Cards!Row) /\ rows = arrays[Len(arrays)]
      /\ Len(arrays) \in DOMAIN arrays /\ DOMAIN arrays = 1 .. Len(arrays)
      /\ Len(arrays) \in Nat
  BY <1>1, CardRowsTyped DEF CardHolds
<1>4. a \in DOMAIN arrays /\ arrays[a] \in Seq(Cards!Row)
  BY <1>1, <1>3 DEF CardNumbered
<1>5. arrays' = [arrays EXCEPT ![a] = gone]
  BY <1>2 DEF Cards!Gone
<1>6. /\ gone \in Seq(Cards!Row) /\ Len(gone) <= Len(arrays[a])
      /\ \A i \in DOMAIN gone : \E j \in DOMAIN arrays[a] : gone[i] = arrays[a][j]
  <2>1. CASE x \in DOMAIN arrays[a]
    <3> DEFINE r == Cards!Without(arrays[a], x)
    <3>1. r \in Seq(Cards!Row) /\ Len(r) = Len(arrays[a]) - 1
      BY <1>4, <2>1, CardMoves
    <3>2. \A i \in DOMAIN r : CardUp(x, i) \in DOMAIN arrays[a]
                              /\ r[i] = arrays[a][CardUp(x, i)]
      BY <1>4, <2>1, CardMoves
    <3>3. Len(arrays[a]) \in Nat /\ gone = r
      BY <1>4, <2>1
    <3> QED
      BY <3>1, <3>2, <3>3
  <2>2. CASE ~(x \in DOMAIN arrays[a])
    BY <1>4, <2>2
  <2> QED
    BY <2>1, <2>2
<1> HIDE DEF gone
<1>7. /\ arrays' \in Seq(Seq(Cards!Row)) /\ Len(arrays') = Len(arrays) /\ arrays' # <<>>
      /\ DOMAIN arrays' = DOMAIN arrays
      /\ \A b \in DOMAIN arrays : arrays'[b] = IF b = a THEN gone ELSE arrays[b]
  BY <1>3, <1>4, <1>5, <1>6
<1>8. \A b \in DOMAIN arrays' : \A i \in DOMAIN arrays'[b] :
         \E j \in DOMAIN arrays[b] : arrays'[b][i] = arrays[b][j]
  BY <1>6, <1>7
<1>9. Cards!Rows' = IF a = Len(arrays) THEN gone ELSE rows
  BY <1>3, <1>7 DEF Cards!Rows
<1>10. CardTaking(m) /\ CardServed(m, {"delete"})
  BY <1>2 DEF CardTaking, CardServed
<1>11. /\ CardServer' /\ CardPages'
       /\ requests' \subseteq Cards!Message /\ tasks' \in Seq(Tasks) /\ enabled' \subseteq Tasks
       /\ taps' \in Nat
       /\ \A q, kinds : CardServed(q, kinds)' <=> CardServed(q, kinds) /\ q # m
       /\ \A q : CardSwitch(q)' <=> CardSwitch(q) /\ q # m
       /\ \A q \in requests' : q \in requests /\ q # m
       /\ \A t : Cards!Exists(t)' <=> Cards!Exists(t)
       /\ \A p : Cards!PageOf(tasks, p)' = Cards!PageOf(tasks, p)
       /\ \A n : CardNumber(n)' <=> CardNumber(n)
  BY <1>10, CardTakes
<1>12. /\ cardsHist' \in CardHists
       /\ cardsHist'.missed = (cardsHist.missed \/ Cards!Missed(m))
       /\ cardsHist'.shifted = cardsHist.shifted /\ cardsHist'.skipped = cardsHist.skipped
       /\ cardsHist'.turned = cardsHist.turned
  <2>1. cardsHist' \in CardHists
    BY <1>2, <1>3 DEF CardHists
  <2>2. cardsHist'.missed = (cardsHist.missed \/ Cards!Missed(m))
    BY <1>2, <1>3 DEF CardHists
  <2>3. /\ cardsHist'.shifted = cardsHist.shifted /\ cardsHist'.skipped = cardsHist.skipped
        /\ cardsHist'.turned = cardsHist.turned
    BY <1>2, <1>3 DEF CardHists
  <2> QED
    BY <2>1, <2>2, <2>3
<1>14. CardHolds'
  BY <1>1, <1>2, <1>3, <1>7, <1>11, <1>12 DEF CardHolds
<1>15. CardNumbered'
  BY <1>1, <1>2, <1>7, <1>8, <1>11 DEF CardNumbered
<1>16. CardFresh'
  BY <1>1, <1>2, <1>7, <1>8, <1>11 DEF CardFresh
<1>17. CardBlank'
  <2>1. ASSUME Len(arrays) = 1 PROVE arrays'[1] = <<>>
    <3>1. arrays[1] = <<>> /\ a = 1 /\ 1 \in DOMAIN arrays
      BY <1>1, <1>3, <1>4, <2>1 DEF CardBlank
    <3>2. arrays'[1] = gone
      BY <1>7, <3>1
    <3>3. gone \in Seq(Cards!Row) /\ Len(gone) <= 0
      BY <1>6, <3>1
    <3>4. gone = <<>>
      BY <3>3
    <3> QED
      BY <3>2, <3>4
  <2> QED
    BY <1>1, <1>7, <1>11, <2>1 DEF CardBlank
<1>18. \A q : CardMore(q)' => CardMore(q) /\ q \in requests
  BY <1>7, <1>11 DEF CardMore
<1>19. \A q : CardServed(q, {"switch"})' <=> CardServed(q, {"switch"})
  BY <1>2, <1>11 DEF CardServed
<1>20. \A i \in DOMAIN Cards!Rows' : \E j \in DOMAIN rows : Cards!Rows'[i] = rows[j]
  <2>1. Cards!Rows' = arrays'[Len(arrays)] /\ Len(arrays) \in DOMAIN arrays'
    BY <1>3, <1>7 DEF Cards!Rows
  <2> QED
    BY <1>3, <1>8, <2>1
<1>21. CardSwitches'
  <2> SUFFICES ASSUME ~cardsHist.turned, NEW i \in DOMAIN Cards!Rows',
                      NEW row, row = Cards!Rows'[i]
               PROVE  /\ \A q, r \in requests' : CardSwitch(q)' /\ CardSwitch(r)'
                            /\ q.row = row /\ r.row = row => q = r
                      /\ \A q \in requests' : CardSwitch(q)' /\ q.row = row =>
                            q.on = ~Cards!Shown(row)
                      /\ (\A q \in requests' :
                            CardServed(q, {"switch"})' /\ q.row.task = row.task =>
                               q.row = row) =>
                            row.task \in enabled <=>
                               IF \E q \in requests' : CardServed(q, {"switch"})' /\ q.row = row
                               THEN ~Cards!Shown(row) ELSE Cards!Shown(row)
    BY <1>2, <1>12 DEF CardSwitches, Cards!Shown
  <2>1. PICK j \in DOMAIN rows : row = rows[j]
    BY <1>20
  <2>2. /\ \A q, r \in requests : CardSwitch(q) /\ CardSwitch(r)
                            /\ q.row = row /\ r.row = row => q = r
        /\ \A q \in requests : CardSwitch(q) /\ q.row = row => q.on = ~Cards!Shown(row)
        /\ (\A q \in requests : CardServed(q, {"switch"}) /\ q.row.task = row.task =>
               q.row = row) =>
              row.task \in enabled <=>
                 IF \E q \in requests : CardServed(q, {"switch"}) /\ q.row = row
                 THEN ~Cards!Shown(row) ELSE Cards!Shown(row)
    BY <1>1, <2>1 DEF CardSwitches
  <2>3. /\ \A q : CardServed(q, {"switch"}) => q \in requests
        /\ \A q : CardServed(q, {"switch"})' => q \in requests'
    BY DEF CardServed
  <2> QED
    BY <1>11, <1>19, <2>2, <2>3
<1>22. CASE a = Len(arrays) /\ x \in DOMAIN rows
  <2>1. PICK r : r = Cards!Rows'
    OBVIOUS
  <2>2. r = Cards!Without(rows, x)
    BY <1>3, <1>9, <1>22, <2>1 DEF gone
  <2>3. rows \in Seq(Cards!Row) /\ x \in DOMAIN rows
    BY <1>3, <1>22
  <2>4. /\ r \in Seq(Cards!Row) /\ Len(r) = Len(rows) - 1 /\ DOMAIN r = 1 .. Len(rows) - 1
    BY <2>2, <2>3, CardMoves
  <2>5. /\ \A i \in DOMAIN r : CardUp(x, i) \in DOMAIN rows /\ CardUp(x, i) # x
                                  /\ i <= CardUp(x, i) /\ r[i] = rows[CardUp(x, i)]
        /\ \A i \in DOMAIN rows : i # x =>
              /\ CardDown(x, i) \in DOMAIN r /\ r[CardDown(x, i)] = rows[i]
              /\ CardUp(x, CardDown(x, i)) = i
    BY <2>2, <2>3, CardMoves
  <2>6. \A i, j \in DOMAIN r : i < j => CardUp(x, i) < CardUp(x, j)
    BY <2>2, <2>3, CardMoves
  <2>7. \A i, j \in DOMAIN rows : i < j /\ i # x /\ j # x => CardDown(x, i) < CardDown(x, j)
    BY <2>2, <2>3, CardMoves
  <2>8. DOMAIN rows = 1 .. Len(rows) /\ Len(rows) \in Nat /\ x \in Nat
    BY <1>3, <1>22
  <2>9. \A i \in DOMAIN r : i \in Nat /\ CardUp(x, i) \in Nat /\ CardDown(x, CardUp(x, i)) = i
    BY <2>4, <2>5, <2>8 DEF CardUp, CardDown
  <2>10. CardSingle'
    <3> SUFFICES ASSUME ~cardsHist.missed \/ ~cardsHist.turned
                 PROVE  /\ \A i, j \in DOMAIN r : r[i].task = r[j].task => i = j
                        /\ \A i \in DOMAIN r : \A j \in DOMAIN tasks :
                              r[i].task = tasks[j] => j <= CardUpto(pageNumber)
                        /\ \A q \in requests : CardMore(q) =>
                              /\ q.page = pageNumber
                              /\ q.stage = "ok" => \A i \in DOMAIN r : \A k \in DOMAIN q.list :
                                                      r[i].task # q.list[k]
      BY <1>2, <1>12, <1>18, <2>1 DEF CardSingle
    <3>1. ASSUME NEW i \in DOMAIN r, NEW j \in DOMAIN r, r[i].task = r[j].task PROVE i = j
      <4>1. CardUp(x, i) = CardUp(x, j)
        BY <1>1, <2>5, <3>1 DEF CardSingle
      <4> QED
        BY <2>6, <2>9, <4>1
    <3> QED
      BY <1>1, <2>5, <3>1 DEF CardSingle
  <2>11. ~cardsHist'.missed => ~cardsHist.missed /\ rows[x].task = m.row.task
    BY <1>12, <1>22 DEF Cards!Missed
  <2>12. ~Cards!Exists(m.row.task)
    BY <1>1, <1>10 DEF CardServer
  <2>13. CardKnown'
    <3> SUFFICES ASSUME ~cardsHist'.missed, NEW i \in DOMAIN r, NEW t, t = r[i].task
                 PROVE  Cards!Exists(t) \/ CardGoing(t)'
      BY <1>11, <2>1 DEF CardKnown
    <3>1. r[i] = rows[CardUp(x, i)] /\ CardUp(x, i) # x /\ CardUp(x, i) \in DOMAIN rows
      BY <2>5
    <3>2. t # m.row.task
      BY <1>1, <1>22, <2>11, <3>1 DEF CardSingle
    <3>3. CardGoing(t) => CardGoing(t)'
      BY <1>2, <1>11, <3>2 DEF CardGoing
    <3> QED
      BY <1>1, <2>11, <3>1, <3>3 DEF CardKnown
  <2>14. CardInOrder'
    <3> SUFFICES ASSUME ~cardsHist'.missed, ~cardsHist.skipped,
                        NEW i \in DOMAIN r, NEW j \in DOMAIN tasks, r[i].task = tasks[j],
                        NEW k \in 1 .. j - 1
                 PROVE  \E l \in 1 .. i - 1 : r[l].task = tasks[k]
      BY <1>2, <1>12, <2>1 DEF CardInOrder
    <3>1. r[i] = rows[CardUp(x, i)] /\ CardUp(x, i) # x /\ CardUp(x, i) \in DOMAIN rows
      BY <2>5
    <3>2. PICK l \in 1 .. CardUp(x, i) - 1 : rows[l].task = tasks[k]
      BY <1>1, <2>11, <3>1 DEF CardInOrder
    <3>3. k \in DOMAIN tasks
      <4>1. DOMAIN tasks = 1 .. Len(tasks) /\ Len(tasks) \in Nat
        BY <1>1 DEF CardHolds
      <4> QED
        BY <4>1
    <3>4. l # x
      BY <2>11, <2>12, <3>2, <3>3 DEF Cards!Exists
    <3>5. l \in DOMAIN rows /\ l < CardUp(x, i)
      BY <2>8, <2>9, <3>1
    <3>6. CardDown(x, l) \in DOMAIN r /\ r[CardDown(x, l)] = rows[l] /\ CardDown(x, l) < i
      BY <2>5, <2>7, <2>9, <3>1, <3>4, <3>5
    <3>7. CardDown(x, l) \in 1 .. i - 1
      BY <2>4, <2>8, <2>9, <3>6
    <3> QED
      BY <3>2, <3>6, <3>7
  <2>15. CardWhole'
    <3>1. ~cardsHist'.missed => cardsHist.shifted
      BY <1>1, <1>22, <2>11, <2>12 DEF CardWhole, Cards!Exists
    <3> QED
      BY <1>12, <3>1 DEF CardWhole
  <2> QED
    BY <1>11, <1>14, <1>15, <1>16, <1>17, <1>21, <2>10, <2>13, <2>14, <2>15 DEF CardInv
<1>23. CASE ~(a = Len(arrays) /\ x \in DOMAIN rows)
  <2>1. Cards!Rows' = rows
    BY <1>3, <1>9, <1>23 DEF gone
  <2>2. CardSingle'
    BY <1>1, <1>2, <1>12, <1>18, <2>1 DEF CardSingle
  <2>3. ~cardsHist'.missed => ~cardsHist.missed /\ m.row.task \notin Cards!TasksOf(rows)
    BY <1>12, <1>23 DEF Cards!Missed
  <2>4. CardKnown'
    <3> SUFFICES ASSUME ~cardsHist'.missed, NEW i \in DOMAIN rows, NEW t, t = rows[i].task
                 PROVE  Cards!Exists(t) \/ CardGoing(t)'
      BY <1>11, <2>1 DEF CardKnown
    <3>1. t # m.row.task
      BY <2>3 DEF Cards!TasksOf
    <3>2. CardGoing(t) => CardGoing(t)'
      BY <1>2, <1>11, <3>1 DEF CardGoing
    <3> QED
      BY <1>1, <2>3, <3>2 DEF CardKnown
  <2>5. CardInOrder'
    BY <1>1, <1>2, <1>12, <2>1, <2>3 DEF CardInOrder
  <2>6. CardWhole'
    BY <1>1, <1>2, <1>7, <1>11, <1>12, <1>18, <2>1 DEF CardWhole
  <2> QED
    BY <1>11, <1>14, <1>15, <1>16, <1>17, <1>21, <2>2, <2>4, <2>5, <2>6 DEF CardInv
<1> QED
  BY <1>22, <1>23
\* setTasks: another array is shown, with rows of this answer and of older ones.
CardSetting(m, rows) ==
    /\ CardTaking(m) /\ CardServed(m, CardLists)
    /\ rows \in Seq(Cards!Row)
    /\ arrays' = Append(arrays, rows) /\ status' = Cards!Fetched(m)
    /\ cardsHist' \in CardHists
    /\ pageNumber' \in Nat /\ pageNumber' >= 2
    /\ \A k \in DOMAIN rows :
          \/ rows[k].n = m.n
          \/ \E a \in DOMAIN arrays : \E i \in DOMAIN arrays[a] : rows[k] = arrays[a][i]

LEMMA CardSets ==
    ASSUME CardInv, NEW m, NEW rows, CardSetting(m, rows)
    PROVE  /\ CardHolds' /\ CardNumbered' /\ CardFresh' /\ CardBlank'
           /\ CardServer' /\ CardPages'
           /\ Cards!Rows' = rows /\ \A q : ~CardMore(q)'
           /\ \A row \in Cards!Row : row.n = m.n =>
                 /\ Cards!Shown(row)' <=> row.task \in m.enabled
                 /\ \A q \in requests : CardSwitch(q) => q.row # row
           /\ \A row \in Cards!Row :
                 row.n # m.n /\ CardNumber(row.n) => (Cards!Shown(row)' <=> Cards!Shown(row))
           /\ \A q : CardSwitch(q)' <=> CardSwitch(q)
           /\ \A q : CardServed(q, {"switch"})' <=> CardServed(q, {"switch"})
           /\ \A t : CardGoing(t)' <=> CardGoing(t)
<1>1. /\ CardTaking(m) /\ CardServed(m, CardLists) /\ rows \in Seq(Cards!Row)
      /\ arrays' = Append(arrays, rows) /\ status' = Cards!Fetched(m)
      /\ cardsHist' \in CardHists
      /\ pageNumber' \in Nat /\ pageNumber' >= 2
      /\ \A k \in DOMAIN rows :
            \/ rows[k].n = m.n
            \/ \E a \in DOMAIN arrays : \E i \in DOMAIN arrays[a] : rows[k] = arrays[a][i]
  BY DEF CardSetting
<1>2. /\ m \in requests /\ m.kind \in CardLists /\ m.kind # "switch" /\ m.kind # "delete"
      /\ requests' = requests \ {m} /\ taps' = taps
  BY <1>1 DEF CardTaking, CardServed, CardLists
<1>3. CardHolds /\ CardNumbered /\ CardFresh
  BY DEF CardInv
<1>4. /\ arrays \in Seq(Seq(Cards!Row)) /\ taps \in Nat
      /\ status \in [Tasks \X (0 .. MaxTaps) -> BOOLEAN] /\ requests \subseteq Cards!Message
  BY <1>3 DEF CardHolds
<1>5. /\ CardServer' /\ CardPages'
      /\ requests' \subseteq Cards!Message /\ tasks' \in Seq(Tasks) /\ enabled' \subseteq Tasks
      /\ taps' \in Nat
      /\ \A q, kinds : CardServed(q, kinds)' <=> CardServed(q, kinds) /\ q # m
      /\ \A q : CardSwitch(q)' <=> CardSwitch(q) /\ q # m
      /\ \A q \in requests' : q \in requests /\ q # m
      /\ \A n : CardNumber(n)' <=> CardNumber(n)
  BY <1>1, CardTakes
<1>6. /\ arrays' \in Seq(Seq(Cards!Row)) /\ Len(arrays') = Len(arrays) + 1 /\ arrays' # <<>>
      /\ Len(arrays) \in Nat
      /\ DOMAIN arrays = 1 .. Len(arrays) /\ DOMAIN arrays' = 1 .. Len(arrays) + 1
      /\ \A a \in DOMAIN arrays : arrays'[a] = arrays[a]
      /\ arrays'[Len(arrays) + 1] = rows
  <2>1. Len(arrays) \in Nat /\ DOMAIN arrays = 1 .. Len(arrays)
    BY <1>4
  <2>2. arrays' \in Seq(Seq(Cards!Row)) /\ Len(arrays') = Len(arrays) + 1
    BY <1>1, <1>4
  <2>3. arrays' # <<>> /\ DOMAIN arrays' = 1 .. Len(arrays) + 1
    BY <2>1, <2>2
  <2>4. /\ \A a \in DOMAIN arrays : arrays'[a] = arrays[a]
        /\ arrays'[Len(arrays) + 1] = rows
    BY <1>1, <1>4, <2>1
  <2> QED
    BY <2>1, <2>2, <2>3, <2>4
<1>7. Cards!Rows' = rows
  BY <1>6 DEF Cards!Rows
<1>9. status' \in [Tasks \X (0 .. MaxTaps) -> BOOLEAN]
  <2>1. status' = [o \in Tasks \X (0 .. MaxTaps) |->
                      IF o[2] = m.n THEN o[1] \in m.enabled ELSE status[o]]
    BY <1>1, <1>4 DEF Cards!Fetched
  <2>2. \A o \in Tasks \X (0 .. MaxTaps) : status[o] \in BOOLEAN
    BY <1>4
  <2>3. \A o \in Tasks \X (0 .. MaxTaps) :
           (IF o[2] = m.n THEN o[1] \in m.enabled ELSE status[o]) \in BOOLEAN
    <3> SUFFICES ASSUME NEW o \in Tasks \X (0 .. MaxTaps)
                 PROVE  (IF o[2] = m.n THEN o[1] \in m.enabled ELSE status[o]) \in BOOLEAN
      OBVIOUS
    <3>1. (o[1] \in m.enabled) \in BOOLEAN
      OBVIOUS
    <3>2. CASE o[2] = m.n
      BY <3>1, <3>2
    <3>3. CASE o[2] # m.n
      BY <2>2, <3>3
    <3> QED
      BY <3>2, <3>3
  <2> QED
    BY <2>1, <2>3
<1>10. CardHolds'
  BY <1>1, <1>5, <1>6, <1>7, <1>9 DEF CardHolds
<1>11. CardNumber(m.n)
  BY <1>2, <1>3 DEF CardNumbered
<1>12. \A a \in DOMAIN arrays' : \A i \in DOMAIN arrays'[a] :
          \/ arrays'[a][i].n = m.n
          \/ \E b \in DOMAIN arrays : \E j \in DOMAIN arrays[b] : arrays'[a][i] = arrays[b][j]
  <2> SUFFICES ASSUME NEW a \in DOMAIN arrays', NEW i \in DOMAIN arrays'[a]
               PROVE  \/ arrays'[a][i].n = m.n
                      \/ \E b \in DOMAIN arrays : \E j \in DOMAIN arrays[b] :
                            arrays'[a][i] = arrays[b][j]
    OBVIOUS
  <2>1. CASE a \in DOMAIN arrays
    BY <1>6, <2>1
  <2>2. CASE a = Len(arrays) + 1
    BY <1>1, <1>6, <2>2
  <2> QED
    BY <1>6, <2>1, <2>2
<1>13. CardNumbered'
  <2>1. \A q \in requests' : q.array \in DOMAIN arrays'
    BY <1>2, <1>3, <1>6 DEF CardNumbered
  <2>2. \A a \in DOMAIN arrays' : \A i \in DOMAIN arrays'[a] : CardNumber(arrays'[a][i].n)
    BY <1>3, <1>11, <1>12 DEF CardNumbered
  <2> QED
    BY <1>1, <1>2, <1>3, <1>5, <2>1, <2>2 DEF CardNumbered
<1>14. CardFresh'
  <2>1. \A q \in requests' : q.n # m.n
    BY <1>2, <1>3 DEF CardNumbered
  <2>2. \A q \in requests' : q.kind \in CardLists =>
           \A a \in DOMAIN arrays' : \A i \in DOMAIN arrays'[a] : arrays'[a][i].n # q.n
    BY <1>2, <1>3, <1>12, <2>1 DEF CardFresh
  <2> QED
    BY <1>2, <1>3, <2>2 DEF CardFresh
<1>15. CardBlank'
  <2>1. Len(arrays) # 0 /\ Len(arrays) \in Nat
    BY <1>3, <1>4 DEF CardHolds
  <2>2. Len(arrays') # 1
    <3>1. Len(arrays') = Len(arrays) + 1
      BY <1>6
    <3> QED
      BY <2>1, <3>1
  <2> QED
    BY <2>2 DEF CardBlank
<1>16. \A q : ~CardMore(q)'
  <2> SUFFICES ASSUME NEW q, q \in requests PROVE q.array # Len(arrays) + 1
    BY <1>2, <1>6 DEF CardMore
  <2>1. q.array \in 1 .. Len(arrays)
    BY <1>3, <1>6 DEF CardNumbered
  <2> QED
    BY <1>6, <2>1
<1>17. ASSUME NEW row \in Cards!Row, CardNumber(row.n)
       PROVE  Cards!Shown(row)' <=> IF row.n = m.n THEN row.task \in m.enabled ELSE Cards!Shown(row)
  <2>1. <<row.task, row.n>> \in Tasks \X (0 .. MaxTaps)
    BY <1>17 DEF CardNumber, Cards!Row
  <2> QED
    BY <1>1, <1>4, <2>1 DEF Cards!Shown, Cards!Fetched
<1>18. \A q \in requests : CardSwitch(q) => q.row.n # m.n
  BY <1>2, <1>3 DEF CardFresh, CardSwitch, CardLists
<1>19. \A row \in Cards!Row : row.n = m.n =>
          /\ Cards!Shown(row)' <=> row.task \in m.enabled
          /\ \A q \in requests : CardSwitch(q) => q.row # row
  BY <1>11, <1>17, <1>18
<1>20. \A row \in Cards!Row :
          row.n # m.n /\ CardNumber(row.n) => (Cards!Shown(row)' <=> Cards!Shown(row))
  BY <1>17
<1>21. \A q : CardSwitch(q)' <=> CardSwitch(q)
  BY <1>2, <1>5 DEF CardSwitch
<1>22. /\ \A q : CardServed(q, {"switch"})' <=> CardServed(q, {"switch"})
       /\ \A q : CardServed(q, {"delete"})' <=> CardServed(q, {"delete"})
  BY <1>2, <1>5 DEF CardServed
<1>23. \A t : CardGoing(t)' <=> CardGoing(t)
  <2>1. /\ \A q : CardServed(q, {"delete"}) => q \in requests
        /\ \A q : CardServed(q, {"delete"})' => q \in requests'
    BY DEF CardServed
  <2> QED
    BY <1>22, <2>1 DEF CardGoing
<1> QED
  BY <1>5, <1>7, <1>10, <1>13, <1>14, <1>15, <1>16, <1>19, <1>20, <1>21, <1>22, <1>23
LEMMA CardRowsOf ==
    ASSUME NEW m \in Cards!Message
    PROVE  /\ Cards!RowsOf(m) \in Seq(Cards!Row) /\ Len(Cards!RowsOf(m)) = Len(m.list)
           /\ DOMAIN Cards!RowsOf(m) = DOMAIN m.list
           /\ \A i \in DOMAIN m.list :
                 Cards!RowsOf(m)[i].task = m.list[i] /\ Cards!RowsOf(m)[i].n = m.n
<1>1. m.list \in Seq(Tasks) /\ m.n \in Nat
  BY DEF Cards!Message
<1>2. DOMAIN m.list = 1 .. Len(m.list) /\ Len(m.list) \in Nat
  BY <1>1
<1>3. \A i \in DOMAIN m.list : [task |-> m.list[i], n |-> m.n] \in Cards!Row
  BY <1>1 DEF Cards!Row
<1>4. Cards!RowsOf(m) = [i \in 1 .. Len(m.list) |-> [task |-> m.list[i], n |-> m.n]]
  BY <1>2 DEF Cards!RowsOf
<1>5. Cards!RowsOf(m) \in Seq(Cards!Row) /\ Len(Cards!RowsOf(m)) = Len(m.list)
  <2>1. PICK n : n = Len(m.list)
    OBVIOUS
  <2>2. PICK r : r = Cards!RowsOf(m)
    OBVIOUS
  <2>3. n \in Nat /\ r = [i \in 1 .. n |-> r[i]]
    BY <1>2, <1>4, <2>1, <2>2
  <2>4. \A i \in 1 .. n : r[i] \in Cards!Row
    BY <1>2, <1>3, <1>4, <2>1, <2>2
  <2>5. r \in Seq(Cards!Row) /\ Len(r) = n
    BY <2>3, <2>4
  <2> QED
    BY <2>1, <2>2, <2>5
<1>6. DOMAIN Cards!RowsOf(m) = DOMAIN m.list
  BY <1>2, <1>4
<1>7. \A i \in DOMAIN m.list :
         Cards!RowsOf(m)[i].task = m.list[i] /\ Cards!RowsOf(m)[i].n = m.n
  BY <1>2, <1>4
<1> QED
  BY <1>5, <1>6, <1>7

\* Rows that are the first tasks are in order.
LEMMA CardFirstInOrder ==
    ASSUME NEW rows \in Seq(Cards!Row), tasks \in Seq(Tasks), CardApartIn(tasks),
           \A i \in DOMAIN rows : i \in DOMAIN tasks /\ rows[i].task = tasks[i]
    PROVE  \A i \in DOMAIN rows : \A j \in DOMAIN tasks :
               rows[i].task = tasks[j] =>
                   \A k \in 1 .. j - 1 : \E l \in 1 .. i - 1 : rows[l].task = tasks[k]
<1> SUFFICES ASSUME NEW i \in DOMAIN rows, NEW j \in DOMAIN tasks, rows[i].task = tasks[j],
                    NEW k \in 1 .. j - 1
             PROVE  \E l \in 1 .. i - 1 : rows[l].task = tasks[k]
  OBVIOUS
<1>1. i = j
  BY DEF CardApartIn
<1>2. DOMAIN rows = 1 .. Len(rows) /\ Len(rows) \in Nat
  OBVIOUS
<1>3. k \in 1 .. i - 1 /\ k \in DOMAIN rows
  BY <1>1, <1>2
<1> QED
  BY <1>3

\* getTasks: the rows are those of the answer.
LEMMA CardDeliverFirst ==
    ASSUME CardInv, NEW m \in requests, Cards!DeliverFirst(m) PROVE CardInv'
<1> DEFINE rows == Cards!RowsOf(m)
           late == Cards!OldPage(m)
           stale == Cards!OldStatus(m)
<1>1. CardHolds /\ CardNumbered /\ CardServer /\ CardPages
  BY DEF CardInv
<1>2. /\ m.kind = "first" /\ m.stage = "ok" /\ requests' = requests \ {m}
      /\ arrays' = Append(arrays, rows)
      /\ pageNumber' = IF m.list = <<>> THEN pageNumber ELSE 2
      /\ status' = Cards!Fetched(m)
      /\ cardsHist' = [cardsHist EXCEPT !.missed = late, !.turned = stale, !.shifted = FALSE,
                                        !.skipped = FALSE, !.together = FALSE]
      /\ UNCHANGED <<tasks, enabled, taps>>
  BY DEF Cards!DeliverFirst, Cards!SetTasks
<1>3. /\ m \in Cards!Message /\ cardsHist \in CardHists /\ pageNumber \in Nat
      /\ tasks \in Seq(Tasks)
  BY <1>1 DEF CardHolds
<1>4. /\ rows \in Seq(Cards!Row) /\ Len(rows) = Len(m.list) /\ DOMAIN rows = DOMAIN m.list
      /\ \A i \in DOMAIN m.list : rows[i].task = m.list[i] /\ rows[i].n = m.n
      /\ m.list \in Seq(Tasks)
  BY <1>3, CardRowsOf DEF Cards!Message
<1>5. /\ cardsHist' \in CardHists
      /\ cardsHist'.missed = late /\ cardsHist'.turned = stale
      /\ cardsHist'.shifted = FALSE /\ cardsHist'.skipped = FALSE
  <2>1. late \in BOOLEAN /\ stale \in BOOLEAN
    BY DEF Cards!OldPage, Cards!OldStatus
  <2> HIDE DEF late, stale
  <2> QED
    BY <1>2, <1>3, <2>1 DEF CardHists
<1>6. /\ pageNumber >= 2 /\ pageNumber' \in Nat /\ pageNumber' >= 2 /\ m.page = 1
  BY <1>1, <1>2, <1>3 DEF CardNumbered
<1> HIDE DEF rows
<1>7. CardServed(m, CardLists) /\ CardTaking(m)
  BY <1>2 DEF CardServed, CardLists, CardTaking
<1>8. CardSetting(m, rows)
  BY <1>2, <1>4, <1>5, <1>6, <1>7 DEF CardSetting
<1>9. /\ CardHolds' /\ CardNumbered' /\ CardFresh' /\ CardBlank'
      /\ CardServer' /\ CardPages'
      /\ Cards!Rows' = rows /\ \A q : ~CardMore(q)'
      /\ \A row \in Cards!Row : row.n = m.n =>
            /\ Cards!Shown(row)' <=> row.task \in m.enabled
            /\ \A q \in requests : CardSwitch(q) => q.row # row
      /\ \A q : CardSwitch(q)' <=> CardSwitch(q)
      /\ \A q : CardServed(q, {"switch"})' <=> CardServed(q, {"switch"})
  BY <1>8, CardSets
<1>10. /\ CardApartIn(m.list)
       /\ \A i \in DOMAIN m.list : \A j \in DOMAIN tasks :
             m.list[i] = tasks[j] => j <= CardUpto(m.page + 1)
       /\ Len(m.list) = PageSize \/ Len(tasks) <= PageSize
       /\ (\A i \in DOMAIN m.list : Cards!Exists(m.list[i])) =>
             \A i \in DOMAIN m.list : i \in DOMAIN tasks /\ m.list[i] = tasks[i]
  BY <1>1, <1>2, <1>7 DEF CardPages
<1>11. CardUpto(2) = PageSize /\ m.page + 1 = 2 /\ PageSize \in Nat /\ PageSize >= 1
  BY <1>3, <1>6, CardUptoNext, CardConstants
<1>12. ~late => \A i \in DOMAIN rows : /\ Cards!Exists(rows[i].task)
                                       /\ i \in DOMAIN tasks /\ rows[i].task = tasks[i]
  BY <1>4, <1>10 DEF Cards!OldPage
<1>13. \A t : Cards!Exists(t)' <=> Cards!Exists(t)
  BY <1>2 DEF Cards!Exists
<1>14. CardSingle'
  <2>1. \A i, j \in DOMAIN rows : rows[i].task = rows[j].task => i = j
    BY <1>4, <1>10 DEF CardApartIn
  <2>2. ASSUME NEW i \in DOMAIN rows, NEW j \in DOMAIN tasks, rows[i].task = tasks[j]
        PROVE  j <= CardUpto(pageNumber')
    <3>1. j <= CardUpto(2)
      BY <1>4, <1>10, <1>11, <2>2
    <3>2. m.list # <<>>
      BY <1>4
    <3> QED
      BY <1>2, <3>1, <3>2
  <2> QED
    BY <1>2, <1>9, <2>1, <2>2 DEF CardSingle
<1>15. CardKnown'
  BY <1>5, <1>9, <1>12, <1>13 DEF CardKnown
<1>16. CardInOrder'
  <2>1. ~late => \A i \in DOMAIN rows : \A j \in DOMAIN tasks :
                    rows[i].task = tasks[j] =>
                        \A k \in 1 .. j - 1 : \E l \in 1 .. i - 1 : rows[l].task = tasks[k]
    BY <1>1, <1>3, <1>4, <1>12, CardFirstInOrder DEF CardServer
  <2> QED
    BY <1>2, <1>5, <1>9, <2>1 DEF CardInOrder
<1>17. CardWhole'
  <2>1. Len(rows) = CardUpto(pageNumber') \/ Len(tasks) <= CardUpto(pageNumber')
    <3>1. CASE m.list = <<>>
      <4>1. Len(tasks) <= PageSize /\ Len(tasks) \in Nat
        BY <1>3, <1>10, <1>11, <3>1
      <4>2. CardUpto(pageNumber') >= PageSize /\ CardUpto(pageNumber') \in Nat
        <5>1. pageNumber' >= 1
          BY <1>6
        <5> QED
          BY <1>6, <5>1, CardUptoTwo, CardUptoNext
      <4> QED
        BY <1>11, <4>1, <4>2
    <3>2. CASE m.list # <<>>
      BY <1>2, <1>4, <1>10, <1>11, <3>2
    <3> QED
      BY <3>1, <3>2
  <2> QED
    BY <1>2, <1>5, <1>9, <1>12, <2>1 DEF CardWhole
<1>18. CardSwitches'
  <2> SUFFICES ASSUME ~stale, NEW i \in DOMAIN rows, NEW row, row = rows[i]
               PROVE  /\ \A q, r \in requests' : CardSwitch(q)' /\ CardSwitch(r)'
                            /\ q.row = row /\ r.row = row => q = r
                      /\ \A q \in requests' : CardSwitch(q)' /\ q.row = row =>
                            q.on = ~Cards!Shown(row)'
                      /\ (\A q \in requests' :
                            CardServed(q, {"switch"})' /\ q.row.task = row.task =>
                               q.row = row) =>
                            row.task \in enabled <=>
                               IF \E q \in requests' : CardServed(q, {"switch"})' /\ q.row = row
                               THEN ~Cards!Shown(row)' ELSE Cards!Shown(row)'
    BY <1>2, <1>5, <1>9 DEF CardSwitches
  <2>1. row \in Cards!Row /\ row.n = m.n /\ row.task = m.list[i] /\ i \in DOMAIN m.list
    BY <1>4
  <2>2. Cards!Shown(row)' <=> row.task \in m.enabled
    BY <1>9, <2>1
  <2>3. \A q \in requests' : CardSwitch(q)' => q.row # row
    BY <1>2, <1>9, <2>1
  <2>4. \A q \in requests' : CardServed(q, {"switch"})' => q.row # row
    BY <2>3 DEF CardServed, CardSwitch
  <2>5. row.task \in m.enabled <=> row.task \in enabled
    BY <2>1 DEF Cards!OldStatus
  <2> QED
    BY <2>2, <2>3, <2>4, <2>5
<1> QED
  BY <1>9, <1>14, <1>15, <1>16, <1>17, <1>18 DEF CardInv
\* loadMoreTaskListing: the rows of the captured array and those of the answer.
LEMMA CardDeliverMore ==
    ASSUME CardInv, NEW m \in requests, Cards!DeliverMore(m) PROVE CardInv'
<1> DEFINE old == arrays[m.array]
           new == Cards!RowsOf(m)
           rows == old \o new
           late == Cards!OldPage(m) \/ m.array # Len(arrays)
           stale == Cards!OldStatus(m) \/ m.array # Len(arrays)
<1>1. /\ CardHolds /\ CardNumbered /\ CardFresh /\ CardBlank /\ CardServer /\ CardPages
      /\ CardSingle /\ CardKnown /\ CardWhole /\ CardSwitches
  BY DEF CardInv
<1>2. /\ m.kind = "more" /\ m.stage = "ok" /\ requests' = requests \ {m}
      /\ arrays' = Append(arrays, rows)
      /\ pageNumber' = m.page + 1 /\ status' = Cards!Fetched(m)
      /\ cardsHist' = [cardsHist EXCEPT
                          !.missed = @ \/ Cards!OldPage(m) \/ m.array # Len(arrays),
                          !.turned = @ \/ Cards!OldStatus(m) \/ m.array # Len(arrays),
                          !.skipped = @ \/ cardsHist.shifted, !.together = FALSE]
      /\ UNCHANGED <<tasks, enabled, taps>>
  BY DEF Cards!DeliverMore, Cards!SetTasks
<1>3. /\ m \in Cards!Message /\ cardsHist \in CardHists /\ pageNumber \in Nat
      /\ tasks \in Seq(Tasks) /\ arrays \in Seq(Seq(Cards!Row))
      /\ Cards!Rows = arrays[Len(arrays)] /\ Len(arrays) \in DOMAIN arrays
      /\ Cards!Rows \in Seq(Cards!Row)
  BY <1>1, CardRowsTyped DEF CardHolds
<1>4. /\ new \in Seq(Cards!Row) /\ Len(new) = Len(m.list) /\ DOMAIN new = DOMAIN m.list
      /\ \A i \in DOMAIN m.list : new[i].task = m.list[i] /\ new[i].n = m.n
      /\ m.list \in Seq(Tasks)
  BY <1>3, CardRowsOf DEF Cards!Message
<1>5. m.array \in DOMAIN arrays /\ old \in Seq(Cards!Row)
  BY <1>1, <1>3 DEF CardNumbered
<1>6. /\ cardsHist' \in CardHists
      /\ cardsHist'.missed = (cardsHist.missed \/ late)
      /\ cardsHist'.turned = (cardsHist.turned \/ stale)
      /\ cardsHist'.shifted = cardsHist.shifted
      /\ cardsHist'.skipped = (cardsHist.skipped \/ cardsHist.shifted)
  <2>1. cardsHist' \in CardHists
    BY <1>2, <1>3 DEF CardHists
  <2>2. cardsHist'.missed = (cardsHist.missed \/ late)
    BY <1>2, <1>3 DEF CardHists
  <2>3. cardsHist'.turned = (cardsHist.turned \/ stale)
    BY <1>2, <1>3 DEF CardHists
  <2>4. /\ cardsHist'.shifted = cardsHist.shifted
        /\ cardsHist'.skipped = (cardsHist.skipped \/ cardsHist.shifted)
    BY <1>2, <1>3 DEF CardHists
  <2> QED
    BY <2>1, <2>2, <2>3, <2>4
<1> HIDE DEF late, stale
<1>7. /\ ~cardsHist'.missed => ~cardsHist.missed /\ ~late
      /\ ~cardsHist'.turned => ~cardsHist.turned /\ ~stale
      /\ ~cardsHist'.skipped => ~cardsHist.shifted
  BY <1>6
<1> HIDE DEF new
<1>8. /\ rows \in Seq(Cards!Row) /\ Len(rows) = Len(old) + Len(new)
      /\ DOMAIN rows = 1 .. Len(old) + Len(new)
      /\ Len(old) \in Nat /\ Len(new) \in Nat
      /\ DOMAIN old = 1 .. Len(old) /\ DOMAIN new = 1 .. Len(new)
  <2>1. rows \in Seq(Cards!Row) /\ Len(rows) = Len(old) + Len(new)
    <3>1. old \in Seq(Cards!Row) /\ new \in Seq(Cards!Row)
      BY <1>4, <1>5
    <3> HIDE DEF old
    <3>2. old \o new \in Seq(Cards!Row)
      BY <3>1
    <3>3. Len(old \o new) = Len(old) + Len(new)
      BY <3>1
    <3> QED
      BY <3>2, <3>3
  <2>2. /\ Len(old) \in Nat /\ Len(new) \in Nat
        /\ DOMAIN old = 1 .. Len(old) /\ DOMAIN new = 1 .. Len(new)
    BY <1>4, <1>5
  <2>3. DOMAIN rows = 1 .. Len(rows)
    BY <2>1
  <2> QED
    BY <2>1, <2>2, <2>3
<1>9. /\ \A i \in DOMAIN old : rows[i] = old[i]
      /\ \A i \in DOMAIN new : rows[Len(old) + i] = new[i]
  BY <1>4, <1>5, <1>8
<1> HIDE DEF old, rows
<1>10. \A i \in DOMAIN rows :
          \/ i \in DOMAIN old /\ rows[i] = old[i]
          \/ i - Len(old) \in DOMAIN new /\ rows[i] = new[i - Len(old)]
  <2> SUFFICES ASSUME NEW i \in DOMAIN rows, ~(i \in DOMAIN old)
               PROVE  i - Len(old) \in DOMAIN new /\ rows[i] = new[i - Len(old)]
    BY <1>9
  <2>1. i - Len(old) \in DOMAIN new /\ i = Len(old) + (i - Len(old))
    BY <1>8
  <2> QED
    BY <1>9, <2>1
<1>11. CardServed(m, CardLists) /\ CardTaking(m) /\ ~CardSwitch(m)
  BY <1>2 DEF CardServed, CardLists, CardTaking, CardSwitch
<1>12. /\ pageNumber' \in Nat /\ pageNumber' >= 2 /\ m.page \in Nat /\ m.page >= 1
       /\ pageNumber >= 2
  BY <1>1, <1>2, <1>3 DEF CardNumbered, Cards!Message
<1>13. \A k \in DOMAIN rows :
          \/ rows[k].n = m.n
          \/ \E a \in DOMAIN arrays : \E i \in DOMAIN arrays[a] : rows[k] = arrays[a][i]
  BY <1>4, <1>5, <1>10 DEF old
<1>14. CardSetting(m, rows)
  BY <1>2, <1>3, <1>6, <1>8, <1>11, <1>12, <1>13 DEF CardSetting
<1>15. /\ CardHolds' /\ CardNumbered' /\ CardFresh' /\ CardBlank'
       /\ CardServer' /\ CardPages'
       /\ Cards!Rows' = rows /\ \A q : ~CardMore(q)'
       /\ \A row \in Cards!Row : row.n = m.n =>
             /\ Cards!Shown(row)' <=> row.task \in m.enabled
             /\ \A q \in requests : CardSwitch(q) => q.row # row
       /\ \A row \in Cards!Row :
             row.n # m.n /\ CardNumber(row.n) => (Cards!Shown(row)' <=> Cards!Shown(row))
       /\ \A q : CardSwitch(q)' <=> CardSwitch(q)
       /\ \A q : CardServed(q, {"switch"})' <=> CardServed(q, {"switch"})
       /\ \A t : CardGoing(t)' <=> CardGoing(t)
  BY <1>14, CardSets
<1>16. /\ CardApartIn(m.list)
       /\ \A i \in DOMAIN m.list : \A j \in DOMAIN tasks :
             m.list[i] = tasks[j] => j <= CardUpto(m.page + 1)
  BY <1>1, <1>2, <1>11 DEF CardPages
<1>17. \A t : Cards!Exists(t)' <=> Cards!Exists(t)
  BY <1>2 DEF Cards!Exists
<1>18. /\ CardUpto(m.page) \in Nat /\ CardUpto(m.page + 1) = CardUpto(m.page) + PageSize
       /\ CardUpto(m.page + 1) \in Nat /\ PageSize \in Nat
  BY <1>12, CardUptoNext, CardConstants
\* While this may be claimed at all, the captured array is the one shown.
<1>19. ~late \/ ~stale => m.array = Len(arrays) /\ old = Cards!Rows /\ CardMore(m)
  BY <1>2, <1>3 DEF old, CardMore, late, stale
<1>20. CardSingle'
  <2> SUFFICES ASSUME ~cardsHist'.missed \/ ~cardsHist'.turned
               PROVE  /\ \A i, j \in DOMAIN rows : rows[i].task = rows[j].task => i = j
                      /\ \A i \in DOMAIN rows : \A j \in DOMAIN tasks :
                            rows[i].task = tasks[j] => j <= CardUpto(m.page + 1)
    BY <1>2, <1>15 DEF CardSingle
  <2>1. /\ old = Cards!Rows /\ CardMore(m)
        /\ ~cardsHist.missed \/ ~cardsHist.turned
    BY <1>19, <1>7
  <2>2. /\ \A i, j \in DOMAIN old : old[i].task = old[j].task => i = j
        /\ \A i \in DOMAIN old : \A j \in DOMAIN tasks :
              old[i].task = tasks[j] => j <= CardUpto(m.page)
        /\ \A i \in DOMAIN old : \A k \in DOMAIN m.list : old[i].task # m.list[k]
    BY <1>1, <1>2, <2>1 DEF CardSingle
  <2>3. ASSUME NEW i \in DOMAIN rows, NEW j \in DOMAIN rows, rows[i].task = rows[j].task
        PROVE  i = j
    <3>1. CASE i \in DOMAIN old /\ rows[i] = old[i] /\ j \in DOMAIN old /\ rows[j] = old[j]
      BY <2>2, <2>3, <3>1
    <3>2. CASE /\ i - Len(old) \in DOMAIN new /\ rows[i] = new[i - Len(old)]
               /\ j - Len(old) \in DOMAIN new /\ rows[j] = new[j - Len(old)]
      <4>1. i - Len(old) = j - Len(old)
        BY <1>4, <1>16, <2>3, <3>2 DEF CardApartIn
      <4> QED
        BY <1>8, <4>1
    <3>3. CASE /\ i \in DOMAIN old /\ rows[i] = old[i]
               /\ j - Len(old) \in DOMAIN new /\ rows[j] = new[j - Len(old)]
      BY <1>4, <2>2, <2>3, <3>3
    <3>4. CASE /\ j \in DOMAIN old /\ rows[j] = old[j]
               /\ i - Len(old) \in DOMAIN new /\ rows[i] = new[i - Len(old)]
      BY <1>4, <2>2, <2>3, <3>4
    <3> QED
      BY <1>10, <3>1, <3>2, <3>3, <3>4
  <2>4. ASSUME NEW i \in DOMAIN rows, NEW j \in DOMAIN tasks, rows[i].task = tasks[j]
        PROVE  j <= CardUpto(m.page + 1)
    <3>1. CASE i \in DOMAIN old /\ rows[i] = old[i]
      <4>1. j <= CardUpto(m.page) /\ j \in Nat
        BY <1>3, <2>2, <2>4, <3>1
      <4> QED
        BY <1>18, <4>1
    <3>2. CASE i - Len(old) \in DOMAIN new /\ rows[i] = new[i - Len(old)]
      BY <1>4, <1>16, <2>4, <3>2
    <3> QED
      BY <1>10, <3>1, <3>2
  <2> QED
    BY <2>3, <2>4
<1>21. CardKnown'
  <2> SUFFICES ASSUME ~cardsHist'.missed, NEW i \in DOMAIN rows, NEW t, t = rows[i].task
               PROVE  Cards!Exists(t) \/ CardGoing(t)
    BY <1>15, <1>17 DEF CardKnown
  <2>1. old = Cards!Rows /\ ~cardsHist.missed /\ ~late
    BY <1>19, <1>7
  <2>2. CASE i \in DOMAIN old /\ rows[i] = old[i]
    BY <1>1, <2>1, <2>2 DEF CardKnown
  <2>3. CASE i - Len(old) \in DOMAIN new /\ rows[i] = new[i - Len(old)]
    BY <1>4, <2>1, <2>3 DEF late, Cards!OldPage
  <2> QED
    BY <1>10, <2>2, <2>3
\* As long as nothing was deleted the rows are the first tasks.
<1>22. ASSUME ~cardsHist'.missed, ~cardsHist.shifted
       PROVE  /\ \A i \in DOMAIN rows : i \in DOMAIN tasks /\ rows[i].task = tasks[i]
              /\ Len(rows) = CardUpto(m.page + 1) \/ Len(tasks) <= CardUpto(m.page + 1)
  <2>1. old = Cards!Rows /\ CardMore(m) /\ ~cardsHist.missed
    BY <1>19, <1>7, <1>22
  <2>2. Len(arrays) # 1
    BY <1>1, <2>1 DEF CardBlank, CardMore
  <2>3. Len(arrays) > 1
    <3>1. Len(arrays) \in Nat /\ Len(arrays) # 0
      BY <1>3
    <3> QED
      BY <2>2, <3>1
  <2>4. m.page = pageNumber
    BY <1>1, <2>1 DEF CardSingle
  <2>5. /\ \A i \in DOMAIN old : i \in DOMAIN tasks /\ old[i].task = tasks[i]
        /\ Len(old) = CardUpto(m.page) \/ Len(tasks) <= CardUpto(m.page)
        /\ m.list = Cards!PageOf(tasks, m.page)
    BY <1>1, <1>2, <1>22, <2>1, <2>3, <2>4 DEF CardWhole, CardMore
  <2>6. /\ tasks \in Seq(Tasks) /\ m.page \in Nat /\ m.page >= 1
        /\ m.list = Cards!PageOf(tasks, m.page)
    BY <1>3, <1>12, <2>5
  <2>7. \A i \in DOMAIN m.list :
           CardUpto(m.page) + i \in DOMAIN tasks /\ m.list[i] = tasks[CardUpto(m.page) + i]
    BY <2>6, CardPage
  <2>8. Len(m.list) = PageSize \/ Len(tasks) <= CardUpto(m.page + 1)
    BY <2>6, CardPage
  <2>9. Len(tasks) <= CardUpto(m.page) => m.list = <<>>
    BY <2>6, CardPage
  <2>10. Len(tasks) \in Nat
    BY <1>3
  <2>11. CASE Len(old) = CardUpto(m.page)
    <3>1. ASSUME NEW i \in DOMAIN rows PROVE i \in DOMAIN tasks /\ rows[i].task = tasks[i]
      <4>1. CASE i \in DOMAIN old /\ rows[i] = old[i]
        BY <2>5, <4>1
      <4>2. CASE i - Len(old) \in DOMAIN new /\ rows[i] = new[i - Len(old)]
        <5>1. CardUpto(m.page) + (i - Len(old)) = i
          BY <1>8, <1>18, <2>11
        <5> QED
          BY <1>4, <2>7, <4>2, <5>1
      <4> QED
        BY <1>10, <4>1, <4>2
    <3>2. Len(rows) = CardUpto(m.page + 1) \/ Len(tasks) <= CardUpto(m.page + 1)
      BY <1>4, <1>8, <1>18, <2>8, <2>11
    <3> QED
      BY <3>1, <3>2
  <2>12. CASE Len(tasks) <= CardUpto(m.page)
    <3>1. DOMAIN new = {}
      BY <1>4, <2>9, <2>12
    <3>2. Len(tasks) <= CardUpto(m.page + 1)
      BY <1>18, <2>10, <2>12
    <3> QED
      BY <1>10, <2>5, <3>1, <3>2
  <2> QED
    BY <2>5, <2>11, <2>12
<1>23. CardWhole'
  BY <1>2, <1>6, <1>15, <1>22 DEF CardWhole
<1>24. CardInOrder'
  <2>1. ~cardsHist'.missed /\ ~cardsHist.shifted =>
           \A i \in DOMAIN rows : \A j \in DOMAIN tasks :
               rows[i].task = tasks[j] =>
                   \A k \in 1 .. j - 1 : \E l \in 1 .. i - 1 : rows[l].task = tasks[k]
    BY <1>1, <1>3, <1>8, <1>22, CardFirstInOrder DEF CardServer
  <2> QED
    BY <1>2, <1>15, <1>7, <2>1 DEF CardInOrder
<1>25. CardSwitches'
  <2> SUFFICES ASSUME ~cardsHist.turned, ~stale, NEW i \in DOMAIN rows, NEW row, row = rows[i]
               PROVE  /\ \A q, r \in requests' : CardSwitch(q)' /\ CardSwitch(r)'
                            /\ q.row = row /\ r.row = row => q = r
                      /\ \A q \in requests' : CardSwitch(q)' /\ q.row = row =>
                            q.on = ~Cards!Shown(row)'
                      /\ (\A q \in requests' :
                            CardServed(q, {"switch"})' /\ q.row.task = row.task =>
                               q.row = row) =>
                            row.task \in enabled <=>
                               IF \E q \in requests' : CardServed(q, {"switch"})' /\ q.row = row
                               THEN ~Cards!Shown(row)' ELSE Cards!Shown(row)'
    <3>1. Cards!Rows' = rows /\ enabled' = enabled
      BY <1>2, <1>15
    <3> QED
      BY <1>7, <3>1 DEF CardSwitches
  <2>1. row \in Cards!Row
    BY <1>8
  <2>2. CASE i \in DOMAIN old /\ rows[i] = old[i]
    <3>1. old = Cards!Rows
      BY <1>19
    <3>2. /\ \A q, r \in requests : CardSwitch(q) /\ CardSwitch(r)
                              /\ q.row = row /\ r.row = row => q = r
          /\ \A q \in requests : CardSwitch(q) /\ q.row = row => q.on = ~Cards!Shown(row)
          /\ (\A q \in requests : CardServed(q, {"switch"}) /\ q.row.task = row.task =>
                 q.row = row) =>
                row.task \in enabled <=>
                   IF \E q \in requests : CardServed(q, {"switch"}) /\ q.row = row
                   THEN ~Cards!Shown(row) ELSE Cards!Shown(row)
      BY <1>1, <2>2, <3>1 DEF CardSwitches
    <3>3. row.n # m.n /\ CardNumber(row.n)
      BY <1>1, <1>2, <1>5, <2>2 DEF CardFresh, CardNumbered, CardLists, old
    <3>4. Cards!Shown(row)' <=> Cards!Shown(row)
      BY <1>15, <2>1, <3>3
    <3>5. /\ \A q : CardServed(q, {"switch"}) => q \in requests
          /\ \A q : CardServed(q, {"switch"})' => q \in requests'
          /\ \A q \in requests' : q \in requests
      BY <1>2 DEF CardServed
    <3> QED
      BY <1>15, <3>2, <3>4, <3>5
  <2>3. CASE i - Len(old) \in DOMAIN new /\ rows[i] = new[i - Len(old)]
    <3>1. row.n = m.n /\ \E k \in DOMAIN m.list : row.task = m.list[k]
      BY <1>4, <2>3
    <3>2. Cards!Shown(row)' <=> row.task \in m.enabled
      BY <1>15, <2>1, <3>1
    <3>3. \A q \in requests' : CardSwitch(q)' => q.row # row
      BY <1>2, <1>15, <2>1, <3>1
    <3>4. \A q \in requests' : CardServed(q, {"switch"})' => q.row # row
      BY <3>3 DEF CardServed, CardSwitch
    <3>5. row.task \in m.enabled <=> row.task \in enabled
      BY <3>1 DEF stale, Cards!OldStatus
    <3> QED
      BY <3>2, <3>3, <3>4, <3>5
  <2> QED
    BY <1>10, <2>2, <2>3
<1> QED
  BY <1>15, <1>20, <1>21, <1>23, <1>24, <1>25 DEF CardInv
-----------------------------------------------------------------------------
(* What is painted: cards that render, and cards whose state is set         *)

LEMMA CardBounds ==
    ASSUME CardInv
    PROVE  /\ taps \in Nat /\ status \in [Tasks \X (0 .. MaxTaps) -> BOOLEAN]
           /\ Cards!Rows \in Seq(Cards!Row)
           /\ \A i \in DOMAIN Cards!Rows : CardNumber(Cards!Rows[i].n)
           /\ \A i \in DOMAIN Cards!Rows : \A m \in requests :
                 m.kind \in CardLists => Cards!Rows[i].n # m.n
           /\ \A m, o \in requests : m.n = o.n => m = o
<1>1. CardHolds /\ CardNumbered /\ CardFresh
  BY DEF CardInv
<1>2. /\ Cards!Rows \in Seq(Cards!Row) /\ Cards!Rows = arrays[Len(arrays)]
      /\ Len(arrays) \in DOMAIN arrays
  BY <1>1, CardRowsTyped
<1>3. taps \in Nat /\ status \in [Tasks \X (0 .. MaxTaps) -> BOOLEAN]
  BY <1>1 DEF CardHolds
<1>4. \A i \in DOMAIN Cards!Rows : CardNumber(Cards!Rows[i].n)
  BY <1>1, <1>2 DEF CardNumbered
<1>5. \A i \in DOMAIN Cards!Rows : \A m \in requests :
                 m.kind \in CardLists => Cards!Rows[i].n # m.n
  BY <1>1, <1>2 DEF CardFresh
<1>6. \A m, o \in requests : m.n = o.n => m = o
  BY <1>1 DEF CardNumbered
<1> QED
  BY <1>2, <1>3, <1>4, <1>5, <1>6

CardBound ==
    /\ taps \in Nat /\ status \in [Tasks \X (0 .. MaxTaps) -> BOOLEAN]
    /\ Cards!Rows \in Seq(Cards!Row)
    /\ \A i \in DOMAIN Cards!Rows :
          Cards!Rows[i].n \in 0 .. MaxTaps /\ Cards!Rows[i].n < taps
    /\ \A i \in DOMAIN Cards!Rows : \A m \in requests :
          m.kind \in CardLists => Cards!Rows[i].n # m.n
    /\ \A m, o \in requests : m.n = o.n => m = o

LEMMA CardBounded == CardInv => CardBound
  BY CardBounds DEF CardNumber, CardBound

LEMMA CardBoundsNext ==
    ASSUME CardInv'
    PROVE  /\ taps' \in Nat /\ status' \in [Tasks \X (0 .. MaxTaps) -> BOOLEAN]
           /\ Cards!Rows' \in Seq(Cards!Row)
           /\ \A i \in DOMAIN Cards!Rows' :
                 Cards!Rows'[i].n \in 0 .. MaxTaps /\ Cards!Rows'[i].n < taps'
           /\ \A i \in DOMAIN Cards!Rows' : \A m \in requests' :
                 m.kind \in CardLists => Cards!Rows'[i].n # m.n
           /\ \A m, o \in requests' : m.n = o.n => m = o
<1>1. CardBound'
  BY CardBounded, PTL
<1> QED
  BY <1>1 DEF CardBound

LEMMA CardPaint ==
    ASSUME NEW card \in Cards!Card, NEW row \in Cards!Row, row.n \in 0 .. MaxTaps,
           NEW st \in [Tasks \X (0 .. MaxTaps) -> BOOLEAN]
    PROVE  /\ Cards!Paint(card, row, st) \in Cards!Card
           /\ Cards!Paint(card, row, st).row = row
           /\ Cards!Paint(card, row, st).on = st[<<row.task, row.n>>]
           /\ Cards!Paint(card, row, st).since = card.since
           /\ Cards!Paint(card, row, st).refresh = card.refresh
<1> DEFINE d == Cards!Paint(card, row, st)
<1>1. d = [card EXCEPT !.row = row, !.on = st[<<row.task, row.n>>]]
  BY DEF Cards!Paint
<1>2. st[<<row.task, row.n>>] \in BOOLEAN
  BY DEF Cards!Row
<1>3. PICK on \in BOOLEAN : on = st[<<row.task, row.n>>]
  BY <1>2
<1>4. d \in Cards!Card
  BY <1>1, <1>3 DEF Cards!Card
<1>5. d.row = row /\ d.on = on
  BY <1>1, <1>3 DEF Cards!Card
<1>6. d.since = card.since /\ d.refresh = card.refresh
  BY <1>1 DEF Cards!Card
<1> QED
  BY <1>3, <1>4, <1>5, <1>6

\* A list renders: the cards show the rows, and those that were mounted are kept.
CardPaintedAs(r, mounted, rows, st) ==
    /\ r \in Seq(Cards!Card) /\ DOMAIN r = DOMAIN rows
    /\ \A i \in DOMAIN rows :
          /\ r[i].row = rows[i] /\ r[i].on = st[<<rows[i].task, rows[i].n>>]
          /\ i \in DOMAIN mounted =>
                r[i].since = mounted[i].since /\ r[i].refresh = mounted[i].refresh

LEMMA CardPaints ==
    ASSUME taps \in Nat, NEW rows \in Seq(Cards!Row), NEW mounted \in Seq(Cards!Card),
           \A i \in DOMAIN rows : rows[i].n \in 0 .. MaxTaps,
           NEW st \in [Tasks \X (0 .. MaxTaps) -> BOOLEAN],
           NEW r, r = Cards!PaintAll(mounted, rows, st)
    PROVE  CardPaintedAs(r, mounted, rows, st)
<1> DEFINE card(i) == IF i \in DOMAIN mounted THEN mounted[i] ELSE Cards!NewCard(rows[i])
<1>1. DOMAIN rows = 1 .. Len(rows) /\ Len(rows) \in Nat
  OBVIOUS
<1>2. r = [i \in 1 .. Len(rows) |-> Cards!Paint(card(i), rows[i], st)]
  BY DEF Cards!PaintAll
<1>3. ASSUME NEW i \in DOMAIN rows
      PROVE  /\ r[i] \in Cards!Card
             /\ r[i].row = rows[i] /\ r[i].on = st[<<rows[i].task, rows[i].n>>]
             /\ i \in DOMAIN mounted =>
                   r[i].since = mounted[i].since /\ r[i].refresh = mounted[i].refresh
  <2>1. rows[i] \in Cards!Row
    BY <1>1
  <2>2. Cards!NewCard(rows[i]) \in Cards!Card
    <3>1. PICK row \in Cards!Row : row = rows[i]
      BY <2>1
    <3>2. Cards!NewCard(row) \in Cards!Card
      BY DEF Cards!NewCard, Cards!Card
    <3> QED
      BY <3>1, <3>2
  <2>3. card(i) \in Cards!Card
    BY <2>2
  <2>4. r[i] = Cards!Paint(card(i), rows[i], st)
    BY <1>1, <1>2
  <2>5. PICK c \in Cards!Card : c = card(i)
    BY <2>3
  <2>6. /\ r[i] \in Cards!Card /\ r[i].row = rows[i]
        /\ r[i].on = st[<<rows[i].task, rows[i].n>>]
        /\ r[i].since = c.since /\ r[i].refresh = c.refresh
    <3>1. PICK row \in Cards!Row : row = rows[i]
      BY <2>1
    <3>2. PICK d : d = r[i]
      OBVIOUS
    <3>3. d = Cards!Paint(c, row, st) /\ row.n \in 0 .. MaxTaps
      BY <1>1, <2>4, <2>5, <3>1, <3>2
    <3>4. /\ d \in Cards!Card /\ d.row = row /\ d.on = st[<<row.task, row.n>>]
          /\ d.since = c.since /\ d.refresh = c.refresh
      BY <3>3, CardPaint
    <3> QED
      BY <3>1, <3>2, <3>4
  <2> QED
    BY <2>5, <2>6
<1> HIDE DEF card
<1>4. PICK n : n = Len(rows)
  OBVIOUS
<1>5. n \in Nat /\ r = [i \in 1 .. n |-> r[i]] /\ \A i \in 1 .. n : r[i] \in Cards!Card
  BY <1>1, <1>2, <1>3, <1>4
<1>6. r \in Seq(Cards!Card) /\ DOMAIN r = 1 .. n
  BY <1>5
<1> QED
  BY <1>1, <1>3, <1>4, <1>6 DEF CardPaintedAs

\* Cards of which at most a state other than their own flag was set.
CardKept(cs) ==
    /\ cs \in Seq(Cards!Card) /\ DOMAIN cs = DOMAIN cards
    /\ \A i \in DOMAIN cards :
          /\ cs[i].row = cards[i].row /\ cs[i].since = cards[i].since
          /\ cs[i].refresh = cards[i].refresh
          /\ cs[i].on = cards[i].on \/ cs[i].on = Cards!Shown(cards[i].row)

LEMMA CardSetState ==
    ASSUME NEW c \in Cards!Card, c.row.n \in 0 .. MaxTaps,
           status \in [Tasks \X (0 .. MaxTaps) -> BOOLEAN],
           NEW next \in Cards!Card, next.row = c.row, next.since = c.since,
           next.refresh = c.refresh, next.on = c.on, NEW d, d = Cards!SetCard(c, next)
    PROVE  /\ d \in Cards!Card /\ d.row = c.row /\ d.since = c.since
           /\ d.refresh = c.refresh
           /\ d.on = c.on \/ d.on = Cards!Shown(c.row)
<1>1. CASE next = c
  BY <1>1 DEF Cards!SetCard
<1>2. CASE next # c
  <2>1. d = Cards!Paint(next, c.row, status) /\ c.row \in Cards!Row
    BY <1>2 DEF Cards!SetCard, Cards!Card
  <2>2. /\ d \in Cards!Card /\ d.row = c.row /\ d.on = status[<<c.row.task, c.row.n>>]
        /\ d.since = next.since /\ d.refresh = next.refresh
    <3>1. PICK st \in [Tasks \X (0 .. MaxTaps) -> BOOLEAN], row \in Cards!Row :
             st = status /\ row = c.row
      BY <2>1
    <3>2. PICK card \in Cards!Card : card = next
      OBVIOUS
    <3>3. d = Cards!Paint(card, row, st) /\ row.n \in 0 .. MaxTaps
      BY <2>1, <3>1, <3>2
    <3>4. /\ Cards!Paint(card, row, st) \in Cards!Card
          /\ Cards!Paint(card, row, st).row = row
          /\ Cards!Paint(card, row, st).on = st[<<row.task, row.n>>]
          /\ Cards!Paint(card, row, st).since = card.since
          /\ Cards!Paint(card, row, st).refresh = card.refresh
      BY <3>3, CardPaint
    <3> QED
      BY <3>1, <3>2, <3>3, <3>4
  <2> QED
    BY <2>2 DEF Cards!Shown
<1> QED
  BY <1>1, <1>2

\* The cards when each is kept or its state is set.
LEMMA CardKeeps ==
    ASSUME CardInv, CardShows, CardPainted, NEW cs, DOMAIN cs = DOMAIN cards,
           cs = [i \in DOMAIN cards |-> cs[i]],
           \A i \in DOMAIN cards :
              \/ cs[i] = cards[i]
              \/ \E next \in Cards!Card :
                    /\ next.row = cards[i].row /\ next.since = cards[i].since
                    /\ next.refresh = cards[i].refresh /\ next.on = cards[i].on
                    /\ cs[i] = Cards!SetCard(cards[i], next)
    PROVE  CardKept(cs)
<1>1. cards \in Seq(Cards!Card) /\ status \in [Tasks \X (0 .. MaxTaps) -> BOOLEAN]
  BY CardBounds DEF CardShows
<1>2. ASSUME NEW i \in DOMAIN cards
      PROVE  /\ cs[i] \in Cards!Card
             /\ cs[i].row = cards[i].row /\ cs[i].since = cards[i].since
             /\ cs[i].refresh = cards[i].refresh
             /\ cs[i].on = cards[i].on \/ cs[i].on = Cards!Shown(cards[i].row)
  <2>1. cards[i] \in Cards!Card /\ cards[i].row.n \in 0 .. MaxTaps
    BY <1>1 DEF CardPainted, CardNumber
  <2>2. CASE cs[i] = cards[i]
    BY <2>1, <2>2
  <2>3. CASE cs[i] # cards[i]
    <3>1. PICK next \in Cards!Card :
             /\ next.row = cards[i].row /\ next.since = cards[i].since
             /\ next.refresh = cards[i].refresh /\ next.on = cards[i].on
             /\ cs[i] = Cards!SetCard(cards[i], next)
      BY <2>3
    <3>2. PICK c \in Cards!Card : c = cards[i]
      BY <2>1
    <3> QED
      BY <1>1, <2>1, <3>1, <3>2, CardSetState
  <2> QED
    BY <2>2, <2>3
<1>3. PICK n \in Nat : DOMAIN cards = 1 .. n
  BY <1>1
<1>4. cs \in Seq(Cards!Card)
  BY <1>2, <1>3
<1> QED
  BY <1>2, <1>4 DEF CardKept

LEMMA CardSettles ==
    ASSUME CardInv, CardShows, CardPainted, NEW m, NEW keep \in BOOLEAN
    PROVE  CardKept(Cards!Settled(m, keep))
<1>1. PICK cs : cs = Cards!Settled(m, keep)
  OBVIOUS
<1>2. DOMAIN cs = DOMAIN cards /\ cs = [i \in DOMAIN cards |-> cs[i]]
  BY <1>1 DEF Cards!Settled
<1>3. ASSUME NEW i \in DOMAIN cards, cs[i] # cards[i]
      PROVE  \E next \in Cards!Card :
                    /\ next.row = cards[i].row /\ next.since = cards[i].since
                    /\ next.refresh = cards[i].refresh /\ next.on = cards[i].on
                    /\ cs[i] = Cards!SetCard(cards[i], next)
  <2> DEFINE next == [cards[i] EXCEPT !.selected = IF keep THEN @ ELSE none, !.loader = FALSE]
  <2>1. cards[i] \in Cards!Card
    BY DEF CardShows
  <2>2. next \in Cards!Card
    <3>1. cards[i].selected \in Tasks \union {none}
      BY <2>1 DEF Cards!Card
    <3>2. (IF keep THEN cards[i].selected ELSE none) \in Tasks \union {none}
      BY <3>1
    <3> QED
      BY <2>1, <3>2 DEF Cards!Card
  <2>3. /\ next.row = cards[i].row /\ next.since = cards[i].since
        /\ next.refresh = cards[i].refresh /\ next.on = cards[i].on
    BY <2>1 DEF Cards!Card
  <2>4. cs[i] = Cards!SetCard(cards[i], next)
    BY <1>1, <1>3 DEF Cards!Settled
  <2> QED
    BY <2>2, <2>3, <2>4
<1>4. CardKept(cs)
  BY <1>2, <1>3, CardKeeps
<1> QED
  BY <1>1, <1>4

LEMMA CardStops ==
    ASSUME CardInv, CardShows, CardPainted, NEW m
    PROVE  CardKept(Cards!Stopped(m))
<1>1. PICK cs : cs = Cards!Stopped(m)
  OBVIOUS
<1>2. DOMAIN cs = DOMAIN cards /\ cs = [i \in DOMAIN cards |-> cs[i]]
  BY <1>1 DEF Cards!Stopped
<1>3. ASSUME NEW i \in DOMAIN cards, cs[i] # cards[i]
      PROVE  \E next \in Cards!Card :
                    /\ next.row = cards[i].row /\ next.since = cards[i].since
                    /\ next.refresh = cards[i].refresh /\ next.on = cards[i].on
                    /\ cs[i] = Cards!SetCard(cards[i], next)
  <2> DEFINE next == [cards[i] EXCEPT !.spinner = FALSE]
  <2>1. cards[i] \in Cards!Card
    BY DEF CardShows
  <2>2. next \in Cards!Card
    BY <2>1 DEF Cards!Card
  <2>3. /\ next.row = cards[i].row /\ next.since = cards[i].since
        /\ next.refresh = cards[i].refresh /\ next.on = cards[i].on
    BY <2>1 DEF Cards!Card
  <2>4. cs[i] = Cards!SetCard(cards[i], next)
    BY <1>1, <1>3 DEF Cards!Stopped
  <2> QED
    BY <2>2, <2>3, <2>4
<1>4. CardKept(cs)
  BY <1>2, <1>3, CardKeeps
<1> QED
  BY <1>1, <1>4

\* A card that is touched.
LEMMA CardBusy ==
    ASSUME CardInv, CardShows, CardPainted, NEW i \in DOMAIN cards, NEW next \in Cards!Card,
           next.row = cards[i].row, next.since = cards[i].since,
           next.refresh = cards[i].refresh, next.on = cards[i].on,
           NEW cs, cs = [cards EXCEPT ![i] = Cards!SetCard(cards[i], next)]
    PROVE  CardKept(cs)
<1>1. cards \in Seq(Cards!Card)
  BY DEF CardShows
<1>2. cards = [k \in DOMAIN cards |-> cards[k]]
  BY <1>1
<1>3. DOMAIN cs = DOMAIN cards /\ cs = [k \in DOMAIN cards |-> cs[k]]
  BY <1>2
<1>4. \A k \in DOMAIN cards :
         cs[k] = IF k = i THEN Cards!SetCard(cards[i], next) ELSE cards[k]
  OBVIOUS
<1>5. \A k \in DOMAIN cards :
         \/ cs[k] = cards[k]
         \/ \E nx \in Cards!Card :
               /\ nx.row = cards[k].row /\ nx.since = cards[k].since
               /\ nx.refresh = cards[k].refresh /\ nx.on = cards[k].on
               /\ cs[k] = Cards!SetCard(cards[k], nx)
  BY <1>4
<1> QED
  BY <1>3, <1>5, CardKeeps

\* What a row shows after the step, and the cards after the list rendered.
CardNow(row) == status'[<<row.task, row.n>>]
CardDrawn ==
    /\ cards' \in Seq(Cards!Card) /\ DOMAIN cards' = DOMAIN Cards!Rows'
    /\ \A i \in DOMAIN Cards!Rows' :
          /\ cards'[i].row = Cards!Rows'[i] /\ cards'[i].on = CardNow(Cards!Rows'[i])
          /\ i \in DOMAIN cards =>
                cards'[i].since = cards[i].since /\ cards'[i].refresh = cards[i].refresh

LEMMA CardDraws ==
    ASSUME CardInv, CardInv', NEW mounted \in Seq(Cards!Card), DOMAIN mounted = DOMAIN cards,
           \A i \in DOMAIN cards :
              mounted[i].since = cards[i].since /\ mounted[i].refresh = cards[i].refresh,
           cards' = Cards!PaintAll(mounted, Cards!Rows', status')
    PROVE  CardDrawn
<1>1. taps \in Nat
  BY CardBounds
<1>2. PICK rows \in Seq(Cards!Row) : /\ rows = Cards!Rows'
                                     /\ \A i \in DOMAIN rows : rows[i].n \in 0 .. MaxTaps
  BY CardBoundsNext DEF CardNumber
<1>3. PICK st \in [Tasks \X (0 .. MaxTaps) -> BOOLEAN] : st = status'
  BY CardBoundsNext
<1>4. /\ cards' \in Seq(Cards!Card) /\ DOMAIN cards' = DOMAIN rows
      /\ \A i \in DOMAIN rows :
            /\ cards'[i].row = rows[i] /\ cards'[i].on = st[<<rows[i].task, rows[i].n>>]
            /\ i \in DOMAIN mounted =>
                  cards'[i].since = mounted[i].since /\ cards'[i].refresh = mounted[i].refresh
  <2>1. PICK cs : cs = cards'
    OBVIOUS
  <2>2. cs = Cards!PaintAll(mounted, rows, st)
    BY <1>2, <1>3, <2>1
  <2>3. CardPaintedAs(cs, mounted, rows, st)
    BY <1>1, <1>2, <2>2, CardPaints
  <2> QED
    BY <2>1, <2>3 DEF CardPaintedAs
<1>5. \A row : CardNow(row) = st[<<row.task, row.n>>]
  BY <1>3 DEF CardNow
<1>6. cards' \in Seq(Cards!Card) /\ DOMAIN cards' = DOMAIN Cards!Rows'
  BY <1>2, <1>4
<1>7. ASSUME NEW i \in DOMAIN Cards!Rows'
      PROVE  /\ cards'[i].row = Cards!Rows'[i] /\ cards'[i].on = CardNow(Cards!Rows'[i])
             /\ i \in DOMAIN cards =>
                   cards'[i].since = cards[i].since /\ cards'[i].refresh = cards[i].refresh
  <2>1. i \in DOMAIN rows /\ Cards!Rows'[i] = rows[i]
    BY <1>2
  <2>2. CardNow(rows[i]) = st[<<rows[i].task, rows[i].n>>]
    BY <1>5
  <2>3. i \in DOMAIN cards =>
           cards'[i].since = cards[i].since /\ cards'[i].refresh = cards[i].refresh
    BY <1>4, <2>1
  <2> QED
    BY <1>4, <2>1, <2>2, <2>3
<1> QED
  BY <1>6, <1>7 DEF CardDrawn
-----------------------------------------------------------------------------
(* What is painted: the requests in flight                                  *)

\* A request that was in flight, answered or not.
CardOld(q) ==
    \E o \in requests :
        /\ q.n = o.n /\ q.kind = o.kind /\ q.row = o.row /\ q.array = o.array
        /\ q.index = o.index /\ q.since = o.since /\ q.refresh = o.refresh

\* The request of a card or a list that was touched.
CardNew(q) ==
    /\ q.n = taps
    /\ q.kind = "delete" =>
          /\ q.refresh = refreshList
          /\ ~cardsHist'.together =>
                \A o \in requests : o.kind = "delete" => o.refresh # refreshList
    /\ q.kind = "switch" =>
          /\ q.index \in DOMAIN cards /\ q.row = cards[q.index].row
          /\ q.since = cards[q.index].since /\ q.refresh = cards[q.index].refresh
          /\ ~cardsHist'.turned =>
                \A o \in requests : o.kind = "switch" => o.row # q.row

CardAsks == \A q \in requests' : CardOld(q) \/ CardNew(q)

LEMMA CardPaintedDrawn == ASSUME CardInv', CardDrawn PROVE CardPainted'
<1>1. PICK rows \in Seq(Cards!Row) :
         /\ rows = Cards!Rows' /\ \A i \in DOMAIN rows :
                                    rows[i].n \in 0 .. MaxTaps /\ rows[i].n < taps'
         /\ \A i \in DOMAIN rows : \A m \in requests' :
                 m.kind \in CardLists => rows[i].n # m.n
  BY CardBoundsNext
<1>2. /\ DOMAIN cards' = DOMAIN rows /\ \A i \in DOMAIN rows : cards'[i].row = rows[i]
  BY <1>1 DEF CardDrawn
<1>3. \A j \in DOMAIN rows : j <= j
  BY <1>1
<1> QED
  BY <1>1, <1>2, <1>3 DEF CardPainted, CardNumber

\* Where nothing renders, at most a row that is held has gone.
LEMMA CardPaintedKept ==
    ASSUME CardInv, CardPainted, CardAsks, DOMAIN cards' = DOMAIN cards,
           \A i \in DOMAIN cards : cards'[i].row = cards[i].row,
           taps' \in {taps, taps + 1}, cards \in Seq(Cards!Card),
           Cards!Rows' \in Seq(Cards!Row),
           \A j \in DOMAIN Cards!Rows' :
              \E k \in DOMAIN Cards!Rows : j <= k /\ Cards!Rows'[j] = Cards!Rows[k]
    PROVE  CardPainted'
<1>1. taps \in Nat /\ MaxTaps \in Nat /\ Cards!Rows \in Seq(Cards!Row)
  BY CardBounds, CardConstants
<1>2. \A n : CardNumber(n) => n # taps
  BY <1>1 DEF CardNumber
<1>3. ASSUME NEW i \in DOMAIN cards'
      PROVE  cards'[i].row.n \in 0 .. MaxTaps /\ cards'[i].row.n < taps'
  <2>1. i \in DOMAIN cards /\ cards'[i].row = cards[i].row
    OBVIOUS
  <2>2. cards[i].row.n \in 0 .. MaxTaps /\ cards[i].row.n < taps
    BY <2>1 DEF CardPainted, CardNumber
  <2>3. PICK n : n = cards[i].row.n
    OBVIOUS
  <2>4. n \in Nat /\ n < taps'
    BY <1>1, <2>2, <2>3
  <2> QED
    BY <2>1, <2>2, <2>3, <2>4
<1>4. ASSUME NEW i \in DOMAIN cards', NEW q \in requests', q.kind \in CardLists
      PROVE  cards'[i].row.n # q.n
  <2>1. CASE CardOld(q)
    BY <1>4, <2>1 DEF CardPainted, CardOld
  <2>2. CASE CardNew(q)
    BY <1>2, <2>2 DEF CardPainted, CardNew
  <2> QED
    BY <2>1, <2>2 DEF CardAsks
<1>5. PICK rows \in Seq(Cards!Row) : rows = Cards!Rows'
  OBVIOUS
<1>6. ASSUME NEW j \in DOMAIN rows
      PROVE  \E i \in DOMAIN cards' : j <= i /\ cards'[i].row = rows[j]
  <2>1. PICK k \in DOMAIN Cards!Rows : j <= k /\ rows[j] = Cards!Rows[k]
    BY <1>5
  <2>2. PICK i \in DOMAIN cards : k <= i /\ cards[i].row = Cards!Rows[k]
    BY DEF CardPainted
  <2>3. i \in Nat /\ j \in Nat /\ k \in Nat
    BY <1>1
  <2> QED
    BY <2>1, <2>2, <2>3
<1> QED
  BY <1>3, <1>4, <1>5, <1>6 DEF CardPainted, CardNumber

\* As long as every card shows what is held.
LEMMA CardLooks ==
    ASSUME NEW rows \in Seq(Cards!Row), NEW cs, DOMAIN cs = DOMAIN rows,
           \A i \in DOMAIN rows : cs[i].row = rows[i]
    PROVE  rows = [i \in DOMAIN cs |-> cs[i].row]
<1>1. rows = [i \in DOMAIN rows |-> rows[i]]
  OBVIOUS
<1> QED
  BY <1>1

\* As long as neither the array that is held nor refreshList changes.
LEMMA CardAlikeKept ==
    ASSUME CardInv, CardInv', CardAlike, CardAsks, refreshList' = refreshList,
           Len(arrays') = Len(arrays), ~cardsHist'.together => ~cardsHist.together,
           \/ CardDrawn
           \/ /\ Cards!Rows' = Cards!Rows /\ DOMAIN cards' = DOMAIN cards
              /\ \A i \in DOMAIN cards : cards'[i].row = cards[i].row
    PROVE  CardAlike'
<1> SUFFICES ASSUME ~cardsHist'.together
             PROVE  /\ Cards!Rows' = [i \in DOMAIN cards' |-> cards'[i].row]
                    /\ \A m \in requests' : m.kind = "delete" /\ m.array = Len(arrays) =>
                          /\ m.refresh = refreshList
                          /\ \A o \in requests' :
                                o.kind = "delete" /\ o.refresh = refreshList => o = m
  BY DEF CardAlike
<1>1. /\ Cards!Rows = [i \in DOMAIN cards |-> cards[i].row]
      /\ \A m \in requests : m.kind = "delete" /\ m.array = Len(arrays) =>
            /\ m.refresh = refreshList
            /\ \A o \in requests : o.kind = "delete" /\ o.refresh = refreshList => o = m
  BY DEF CardAlike
<1>2. Cards!Rows' = [i \in DOMAIN cards' |-> cards'[i].row]
  <2>1. CASE CardDrawn
    <3>1. PICK rows \in Seq(Cards!Row) : rows = Cards!Rows'
      BY CardBoundsNext
    <3> QED
      BY <2>1, <3>1, CardLooks DEF CardDrawn
  <2>2. CASE ~CardDrawn
    BY <1>1, <2>2
  <2> QED
    BY <2>1, <2>2
<1>3. \A m, o \in requests' : m.n = o.n => m = o
  BY CardBoundsNext
<1>4. ASSUME NEW m \in requests', m.kind = "delete", m.array = Len(arrays)
      PROVE  /\ m.refresh = refreshList
             /\ \A o \in requests' : o.kind = "delete" /\ o.refresh = refreshList => o = m
  <2>1. m.refresh = refreshList
    BY <1>1, <1>4 DEF CardAsks, CardOld, CardNew
  <2>2. ASSUME NEW o \in requests', o.kind = "delete", o.refresh = refreshList PROVE o.n = m.n
    <3>1. CASE CardOld(m) /\ CardOld(o)
      BY <1>1, <1>4, <2>2, <3>1 DEF CardOld
    <3>2. CASE CardNew(m) /\ CardNew(o)
      BY <3>2 DEF CardNew
    <3>3. CASE CardOld(m) /\ CardNew(o)
      BY <1>4, <2>1, <2>2, <3>3 DEF CardOld, CardNew
    <3>4. CASE CardNew(m) /\ CardOld(o)
      BY <1>4, <2>2, <3>4 DEF CardOld, CardNew
    <3> QED
      BY <3>1, <3>2, <3>3, <3>4 DEF CardAsks
  <2> QED
    BY <1>3, <2>1, <2>2
<1> QED
  BY <1>2, <1>4

\* A row that a switch in flight is not of, or that is painted where it was or further
\* up, on a card that was mounted if it is where it was.
CardClear(row) == \A q \in requests' : q.kind = "switch" => q.row # row
CardWas(i) ==
    \E k \in DOMAIN cards :
        /\ cards[k].row = cards'[i].row /\ i <= k
        /\ i = k => cards'[i].since = cards[i].since /\ cards'[i].refresh = cards[i].refresh

LEMMA CardLitKept ==
    ASSUME CardInv, CardInv', CardShows, CardShows', CardLit, CardAsks,
           ~cardsHist'.turned => ~cardsHist.turned,
           ~cardsHist'.turned =>
              /\ \A i, j \in DOMAIN cards' : cards'[i].row = cards'[j].row => i = j
              /\ \A i \in DOMAIN cards' :
                    /\ cards'[i].on = CardNow(cards'[i].row)
                    /\ CardClear(cards'[i].row) \/ CardWas(i)
    PROVE  CardLit'
<1> SUFFICES ASSUME ~cardsHist'.turned, NEW i \in DOMAIN cards', NEW q \in requests',
                    q.kind = "switch", q.row = cards'[i].row
             PROVE  /\ i <= q.index
                    /\ Cards!Touched(q, i)' => cards'[i].refresh = q.refresh
                    /\ \A o \in requests' : o.kind = "switch" /\ o.row = q.row => o = q
  BY DEF CardLit, CardNow, Cards!Shown
<1>1. /\ \A k, j \in DOMAIN cards : cards[k].row = cards[j].row => k = j
      /\ \A k \in DOMAIN cards : \A m \in requests :
            m.kind = "switch" /\ m.row = cards[k].row =>
               /\ k <= m.index
               /\ Cards!Touched(m, k) => cards[k].refresh = m.refresh
               /\ \A o \in requests : o.kind = "switch" /\ o.row = m.row => o = m
  BY DEF CardLit
<1>2. PICK k \in DOMAIN cards :
         /\ cards[k].row = cards'[i].row /\ i <= k
         /\ i = k => cards'[i].since = cards[i].since /\ cards'[i].refresh = cards[i].refresh
  BY DEF CardClear, CardWas
<1>3. i \in Nat /\ k \in Nat
  BY DEF CardShows
<1>4. \A m, o \in requests' : m.n = o.n => m = o
  BY CardBoundsNext
<1>5. CASE CardOld(q)
  <2>1. PICK o \in requests :
           /\ q.n = o.n /\ q.kind = o.kind /\ q.row = o.row /\ q.array = o.array
           /\ q.index = o.index /\ q.since = o.since /\ q.refresh = o.refresh
    BY <1>5 DEF CardOld
  <2>2. /\ k <= o.index /\ (Cards!Touched(o, k) => cards[k].refresh = o.refresh)
        /\ \A p \in requests : p.kind = "switch" /\ p.row = o.row => p = o
    BY <1>1, <1>2, <2>1
  <2>3. i <= q.index
    <3>1. o.index \in Nat
      BY <2>1 DEF CardInv, CardHolds, Cards!Message
    <3> QED
      BY <1>2, <1>3, <2>1, <2>2, <3>1
  <2>4. Cards!Touched(q, i)' => cards'[i].refresh = q.refresh
    <3> SUFFICES ASSUME i = q.index, cards'[i].since = q.since
                 PROVE  cards'[i].refresh = q.refresh
      BY DEF Cards!Touched
    <3>1. i = k
      <4>1. o.index = i
        BY <2>1
      <4> QED
        BY <1>2, <1>3, <2>2, <4>1
    <3> QED
      BY <1>2, <2>1, <2>2, <3>1 DEF Cards!Touched
  <2>5. ASSUME NEW p \in requests', p.kind = "switch", p.row = q.row PROVE p.n = q.n
    <3>1. CASE CardOld(p)
      BY <2>1, <2>2, <2>5, <3>1 DEF CardOld
    <3>2. CASE CardNew(p)
      BY <2>1, <2>5, <3>2 DEF CardNew
    <3> QED
      BY <3>1, <3>2 DEF CardAsks
  <2> QED
    BY <1>4, <2>3, <2>4, <2>5
<1>6. CASE CardNew(q)
  <2>1. /\ q.index \in DOMAIN cards /\ q.row = cards[q.index].row
        /\ q.since = cards[q.index].since /\ q.refresh = cards[q.index].refresh
        /\ \A o \in requests : o.kind = "switch" => o.row # q.row
    BY <1>6 DEF CardNew
  <2>2. k = q.index
    BY <1>1, <1>2, <2>1
  <2>3. Cards!Touched(q, i)' => i = q.index
    BY DEF Cards!Touched
  <2>4. Cards!Touched(q, i)' => cards'[i].refresh = q.refresh
    BY <1>2, <2>1, <2>2, <2>3
  <2>5. ASSUME NEW p \in requests', p.kind = "switch", p.row = q.row PROVE p.n = q.n
    <3>1. CASE CardOld(p)
      BY <2>1, <2>5, <3>1 DEF CardOld
    <3>2. CASE CardNew(p)
      BY <1>6, <3>2 DEF CardNew
    <3> QED
      BY <3>1, <3>2 DEF CardAsks
  <2> QED
    BY <1>2, <1>4, <2>2, <2>4, <2>5
<1> QED
  BY <1>5, <1>6 DEF CardAsks

\* No array changes: the cards render, or keep what they show.
LEMMA CardScreenKept ==
    ASSUME CardInv, CardInv', CardScreen, CardAsks, CardShows',
           arrays' = arrays, status' = status, refreshList' = refreshList,
           taps' \in {taps, taps + 1},
           ~cardsHist'.together => ~cardsHist.together,
           ~cardsHist'.turned => ~cardsHist.turned,
           CardDrawn \/ CardKept(cards')
    PROVE  CardScreen'
<1>1. /\ CardShows /\ CardPainted /\ CardAlike /\ CardLit /\ cards \in Seq(Cards!Card)
      /\ Cards!Rows \in Seq(Cards!Row)
  BY CardBounds DEF CardScreen, CardShows
<1>2. Cards!Rows' = Cards!Rows /\ Len(arrays') = Len(arrays)
      /\ \A row : CardNow(row) = Cards!Shown(row)
  BY DEF Cards!Rows, Cards!Shown, CardNow
<1>3. CardKept(cards') => /\ DOMAIN cards' = DOMAIN cards
                          /\ \A i \in DOMAIN cards : cards'[i].row = cards[i].row
  BY DEF CardKept
<1>4. CardPainted'
  <2>1. CASE CardDrawn
    BY <2>1, CardPaintedDrawn
  <2>2. CASE CardKept(cards')
    <3>1. \A j \in DOMAIN Cards!Rows' :
              \E k \in DOMAIN Cards!Rows : j <= k /\ Cards!Rows'[j] = Cards!Rows[k]
      <4>1. \A j \in DOMAIN Cards!Rows : j <= j
        BY <1>1
      <4> QED
        BY <1>2, <4>1
    <3> QED
      BY <1>1, <1>2, <1>3, <2>2, <3>1, CardPaintedKept
  <2> QED
    BY <2>1, <2>2
<1>5. CardAlike'
  BY <1>1, <1>2, <1>3, CardAlikeKept
<1>6. CardLit'
  <2>1. CASE CardDrawn
    <3>1. DOMAIN cards' = DOMAIN Cards!Rows
      BY <1>2, <2>1 DEF CardDrawn
    <3>2. ~cardsHist'.turned =>
             \A i, j \in DOMAIN cards' : cards'[i].row = cards'[j].row => i = j
      BY <1>2, <2>1 DEF CardDrawn, CardInv, CardSingle
    <3>3. ASSUME NEW i \in DOMAIN cards'
          PROVE  cards'[i].on = CardNow(cards'[i].row) /\ CardWas(i)
      <4>1. /\ i \in DOMAIN Cards!Rows /\ cards'[i].row = Cards!Rows[i]
            /\ cards'[i].on = CardNow(cards'[i].row)
            /\ i \in DOMAIN cards =>
                  cards'[i].since = cards[i].since /\ cards'[i].refresh = cards[i].refresh
        BY <1>2, <2>1, <3>1 DEF CardDrawn
      <4>2. PICK k \in DOMAIN cards : i <= k /\ cards[k].row = Cards!Rows[i]
        BY <1>1, <4>1 DEF CardPainted
      <4>3. CardWas(i)
        BY <4>1, <4>2 DEF CardWas
      <4> QED
        BY <4>1, <4>3
    <3> QED
      BY <1>1, <3>2, <3>3, CardLitKept
  <2>2. CASE CardKept(cards')
    <3>1. ~cardsHist'.turned =>
             \A i, j \in DOMAIN cards' : cards'[i].row = cards'[j].row => i = j
      BY <1>1, <2>2 DEF CardKept, CardLit
    <3>2. \A i \in DOMAIN cards' : CardWas(i)
      <4>1. \A i \in DOMAIN cards : i <= i
        BY <1>1
      <4> QED
        BY <2>2, <4>1 DEF CardKept, CardWas
    <3>3. ~cardsHist'.turned =>
             \A i \in DOMAIN cards' : cards'[i].on = CardNow(cards'[i].row)
      BY <1>1, <1>2, <2>2 DEF CardKept, CardLit
    <3> QED
      BY <1>1, <3>1, <3>2, <3>3, CardLitKept
  <2> QED
    BY <2>1, <2>2
<1> QED
  BY <1>4, <1>5, <1>6 DEF CardScreen

\* The list renders where it does not know of a change.
LEMMA CardRenders ==
    ASSUME CardInv, CardInv', CardScreen, arrays' = arrays, status' = status,
           NEW changed \in BOOLEAN, cards' = Cards!Rendered(changed)
    PROVE  (CardDrawn \/ CardKept(cards')) /\ cards' \in Seq(Cards!Card)
<1>1. CardShows /\ CardPainted /\ cards \in Seq(Cards!Card)
  BY DEF CardScreen, CardShows
<1>2. CASE changed
  <2>1. Cards!Rows' = Cards!Rows
    BY DEF Cards!Rows
  <2>2. cards' = Cards!PaintAll(cards, Cards!Rows, status)
    BY <1>2 DEF Cards!Rendered
  <2>3. cards' = Cards!PaintAll(cards, Cards!Rows', status')
    BY <2>1, <2>2
  <2>4. CardDrawn
    BY <1>1, <2>3, CardDraws
  <2> QED
    BY <2>4 DEF CardDrawn
<1>3. CASE ~changed
  <2>1. cards' = cards
    BY <1>3 DEF Cards!Rendered
  <2>2. CardKept(cards)
    BY <1>1 DEF CardKept
  <2> QED
    BY <1>1, <2>1, <2>2
<1> QED
  BY <1>2, <1>3

\* The requests of a step that sends one, or none.
LEMMA CardAsksFor ==
    ASSUME NEW m, CardNew(m), requests' = requests \union {m}
    PROVE  CardAsks
BY DEF CardAsks, CardOld

LEMMA CardAsksLess == ASSUME requests' \subseteq requests PROVE CardAsks
BY DEF CardAsks, CardOld

LEMMA CardScreenTaps ==
    ASSUME CardInv, CardInv', CardScreen,
           Cards!Render \/ Cards!Reload \/ Cards!LoadMoreTaskListing
    PROVE  CardScreen'
<1>1. CardShows /\ overlay \in BOOLEAN /\ indicator \in BOOLEAN /\ refreshList \in BOOLEAN
  BY DEF CardScreen, CardShows
<1>2. /\ arrays' = arrays /\ status' = status /\ refreshList' = refreshList
      /\ cardsHist' = cardsHist
  BY DEF Cards!Render, Cards!Reload, Cards!LoadMoreTaskListing
<1>3. PICK changed \in BOOLEAN : cards' = Cards!Rendered(changed)
  BY <1>1 DEF Cards!Render, Cards!Reload, Cards!LoadMoreTaskListing
<1>4. (CardDrawn \/ CardKept(cards')) /\ cards' \in Seq(Cards!Card)
  BY <1>2, <1>3, CardRenders
<1>5. overlay' \in BOOLEAN /\ indicator' \in BOOLEAN
  BY <1>1 DEF Cards!Render, Cards!Reload, Cards!LoadMoreTaskListing
<1>6. CardShows'
  BY <1>1, <1>2, <1>4, <1>5 DEF CardShows
<1>7. CardAsks /\ taps' \in {taps, taps + 1}
  <2>1. CASE Cards!Render
    <3>1. requests' = requests /\ taps' = taps
      BY <2>1 DEF Cards!Render
    <3> QED
      BY <3>1, CardAsksLess
  <2>2. CASE Cards!Reload
    <3>1. /\ requests' = requests \union {Cards!GetTasks} /\ taps' = taps + 1
          /\ Cards!GetTasks.n = taps /\ Cards!GetTasks.kind = "first"
      BY <2>2 DEF Cards!Reload, Cards!Tap, Cards!Send, Cards!GetTasks, Cards!Request
    <3>2. CardNew(Cards!GetTasks)
      BY <3>1 DEF CardNew
    <3> QED
      BY <3>1, <3>2, CardAsksFor
  <2>3. CASE Cards!LoadMoreTaskListing
    <3> DEFINE m == Cards!Request("more")
    <3>1. requests' = requests \union {m} /\ taps' = taps + 1
          /\ m.n = taps /\ m.kind = "more"
      BY <2>3 DEF Cards!LoadMoreTaskListing, Cards!Tap, Cards!Send, Cards!Request
    <3> HIDE DEF m
    <3>2. CardNew(m)
      BY <3>1 DEF CardNew
    <3> QED
      BY <3>1, <3>2, CardAsksFor
  <2> QED
    BY <2>1, <2>2, <2>3
<1> QED
  BY <1>2, <1>4, <1>6, <1>7, CardScreenKept

LEMMA CardScreenDeleteTask ==
    ASSUME CardInv, CardInv', CardScreen, NEW i \in DOMAIN cards, Cards!DeleteTask(i)
    PROVE  CardScreen'
<1> DEFINE m == [Cards!Request("delete") EXCEPT !.index = i, !.since = cards[i].since,
                                                !.row = cards[i].row, !.refresh = refreshList]
           next == [cards[i] EXCEPT !.selected = cards[i].row.task, !.loader = TRUE]
<1>1. /\ CardShows /\ CardPainted /\ cards[i] \in Cards!Card /\ cards[i].row.task \in Tasks
      /\ cardsHist \in CardHists
  <2>1. CardShows /\ CardPainted /\ cardsHist \in CardHists
    BY DEF CardScreen, CardInv, CardHolds
  <2>2. cards[i] \in Cards!Card
    BY <2>1 DEF CardShows
  <2>3. cards[i].row \in Cards!Row
    BY <2>2 DEF Cards!Card
  <2> QED
    BY <2>1, <2>2, <2>3 DEF Cards!Row
<1>2. m.n = taps /\ m.kind = "delete" /\ m.refresh = refreshList
  BY DEF Cards!Request
<1>3. /\ next \in Cards!Card /\ next.row = cards[i].row /\ next.since = cards[i].since
      /\ next.refresh = cards[i].refresh /\ next.on = cards[i].on
  BY <1>1 DEF Cards!Card
<1>4. /\ taps' = taps + 1 /\ requests' = requests \union {m}
      /\ cards' = [cards EXCEPT ![i] = Cards!SetCard(cards[i], next)]
      /\ cardsHist' = [cardsHist EXCEPT !.together = @ \/ Cards!Together(m)]
      /\ UNCHANGED <<arrays, status, refreshList, overlay, indicator>>
  BY DEF Cards!DeleteTask, Cards!Tap, Cards!Send
<1> HIDE DEF m, next
<1>5. CardKept(cards')
  BY <1>1, <1>3, <1>4, CardBusy
<1>6. /\ cardsHist'.together = (cardsHist.together \/ Cards!Together(m))
      /\ cardsHist'.turned = cardsHist.turned
  BY <1>1, <1>4 DEF CardHists
<1>7. CardNew(m)
  BY <1>2, <1>6 DEF CardNew, Cards!Together, Cards!InFlight
<1>8. CardAsks
  BY <1>4, <1>7, CardAsksFor
<1>9. CardShows'
  BY <1>1, <1>4, <1>5 DEF CardShows, CardKept
<1> QED
  BY <1>4, <1>5, <1>6, <1>8, <1>9, CardScreenKept

LEMMA CardScreenChangeTaskDisplay ==
    ASSUME CardInv, CardInv', CardScreen, NEW i \in DOMAIN cards,
           Cards!ChangeTaskDisplay(i)
    PROVE  CardScreen'
<1> DEFINE m == [Cards!Request("switch") EXCEPT !.index = i, !.since = cards[i].since,
                                                !.row = cards[i].row,
                                                !.on = ~Cards!Shown(cards[i].row),
                                                !.refresh = cards[i].refresh]
           next == [cards[i] EXCEPT !.selected = cards[i].row.task, !.spinner = TRUE]
<1>1. /\ CardShows /\ CardPainted /\ cards[i] \in Cards!Card /\ cards[i].row.task \in Tasks
      /\ cardsHist \in CardHists
  <2>1. CardShows /\ CardPainted /\ cardsHist \in CardHists
    BY DEF CardScreen, CardInv, CardHolds
  <2>2. cards[i] \in Cards!Card
    BY <2>1 DEF CardShows
  <2>3. cards[i].row \in Cards!Row
    BY <2>2 DEF Cards!Card
  <2> QED
    BY <2>1, <2>2, <2>3 DEF Cards!Row
<1>2. /\ m.n = taps /\ m.kind = "switch" /\ m.index = i /\ m.row = cards[i].row
      /\ m.since = cards[i].since /\ m.refresh = cards[i].refresh
  BY DEF Cards!Request
<1>3. /\ next \in Cards!Card /\ next.row = cards[i].row /\ next.since = cards[i].since
      /\ next.refresh = cards[i].refresh /\ next.on = cards[i].on
  BY <1>1 DEF Cards!Card
<1>4. /\ taps' = taps + 1 /\ requests' = requests \union {m}
      /\ cards' = [cards EXCEPT ![i] = Cards!SetCard(cards[i], next)]
      /\ cardsHist' = [cardsHist EXCEPT !.turned = @ \/ Cards!Twice(m)]
      /\ UNCHANGED <<arrays, status, refreshList, overlay, indicator>>
  BY DEF Cards!ChangeTaskDisplay, Cards!Tap, Cards!Send
<1> HIDE DEF m, next
<1>5. CardKept(cards')
  BY <1>1, <1>3, <1>4, CardBusy
<1>6. /\ cardsHist'.turned = (cardsHist.turned \/ Cards!Twice(m))
      /\ cardsHist'.together = cardsHist.together
  BY <1>1, <1>4 DEF CardHists
<1>7. ~Cards!Twice(m) => \A o \in requests : o.kind = "switch" => o.row.task # m.row.task
  BY DEF Cards!Twice, Cards!InFlight
<1>8. CardNew(m)
  BY <1>2, <1>6, <1>7 DEF CardNew
<1>9. CardAsks
  BY <1>4, <1>8, CardAsksFor
<1>10. CardShows'
  BY <1>1, <1>4, <1>5 DEF CardShows, CardKept
<1> QED
  BY <1>4, <1>5, <1>6, <1>9, <1>10, CardScreenKept

LEMMA CardScreenServe ==
    ASSUME CardInv, CardInv', CardScreen, NEW m \in requests, Cards!Serve(m)
    PROVE  CardScreen'
<1>1. /\ CardShows /\ CardPainted /\ cards \in Seq(Cards!Card) /\ cardsHist \in CardHists
      /\ m \in Cards!Message /\ m.stage = "sent"
  BY DEF CardScreen, CardShows, CardInv, CardHolds, Cards!Serve
<1>2. UNCHANGED <<arrays, status, cards, refreshList, pageNumber, overlay, indicator, taps>>
  BY DEF Cards!Serve
<1>3. \E o : /\ requests' = (requests \ {m}) \union {o}
             /\ o.n = m.n /\ o.kind = m.kind /\ o.row = m.row /\ o.array = m.array
             /\ o.index = m.index /\ o.since = m.since /\ o.refresh = m.refresh
  <2>1. CASE Cards!ServeList(m)
    <3> DEFINE o == [m EXCEPT !.stage = "ok", !.list = Cards!PageOf(tasks, m.page),
                              !.enabled = enabled]
    <3>1. requests' = (requests \ {m}) \union {o}
      BY <2>1 DEF Cards!ServeList
    <3>2. /\ o.n = m.n /\ o.kind = m.kind /\ o.row = m.row /\ o.array = m.array
          /\ o.index = m.index /\ o.since = m.since /\ o.refresh = m.refresh
      BY <1>1 DEF Cards!Message
    <3> QED
      BY <3>1, <3>2
  <2>2. CASE ~Cards!ServeList(m)
    <3>1. PICK stage : Cards!Answer(m, stage)
      BY <2>2 DEF Cards!Serve, Cards!ServeDelete, Cards!ServeSwitch, Cards!Refuse
    <3> DEFINE o == [m EXCEPT !.stage = stage]
    <3>2. requests' = (requests \ {m}) \union {o}
      BY <3>1 DEF Cards!Answer
    <3>3. /\ o.n = m.n /\ o.kind = m.kind /\ o.row = m.row /\ o.array = m.array
          /\ o.index = m.index /\ o.since = m.since /\ o.refresh = m.refresh
      BY <1>1 DEF Cards!Message
    <3> QED
      BY <3>2, <3>3
  <2> QED
    BY <2>1, <2>2
<1>4. CardAsks
  BY <1>3 DEF CardAsks, CardOld
<1>5. cardsHist'.turned = cardsHist.turned /\ cardsHist'.together = cardsHist.together
  <2>1. cardsHist' = cardsHist \/ cardsHist' = [cardsHist EXCEPT !.shifted = TRUE]
    BY DEF Cards!Serve, Cards!ServeList, Cards!ServeDelete, Cards!ServeSwitch, Cards!Refuse
  <2> QED
    BY <1>1, <2>1 DEF CardHists
<1>6. CardKept(cards') /\ CardShows'
  BY <1>1, <1>2 DEF CardKept, CardShows
<1> QED
  BY <1>2, <1>4, <1>5, <1>6, CardScreenKept

LEMMA CardScreenFail ==
    ASSUME CardInv, CardInv', CardScreen, NEW m \in requests, Cards!Fail(m)
    PROVE  CardScreen'
<1>1. /\ CardShows /\ CardPainted /\ cards \in Seq(Cards!Card) /\ cardsHist \in CardHists
      /\ overlay \in BOOLEAN /\ indicator \in BOOLEAN /\ refreshList \in BOOLEAN
  BY DEF CardScreen, CardShows, CardInv, CardHolds
<1>2. /\ requests' = requests \ {m}
      /\ UNCHANGED <<arrays, status, refreshList, taps>>
      /\ cardsHist' = [cardsHist EXCEPT
                          !.missed = @ \/ (m.kind = "delete" /\ m.stage = "ok"),
                          !.turned = @ \/ (m.kind = "switch" /\ m.stage = "ok")]
      /\ overlay' = (overlay /\ m.kind # "first")
      /\ indicator' = (indicator /\ m.kind # "more")
  BY DEF Cards!Fail
<1>3. /\ cardsHist'.turned = (cardsHist.turned \/ (m.kind = "switch" /\ m.stage = "ok"))
      /\ cardsHist'.together = cardsHist.together
  BY <1>1, <1>2 DEF CardHists
<1>4. CardAsks
  BY <1>2, CardAsksLess
<1>5. (CardDrawn \/ CardKept(cards')) /\ cards' \in Seq(Cards!Card)
  <2>1. CASE m.kind = "delete"
    <3>1. PICK keep \in BOOLEAN : cards' = Cards!Settled(m, keep)
      BY <2>1 DEF Cards!Fail
    <3> QED
      BY <1>1, <3>1, CardSettles DEF CardKept
  <2>2. CASE m.kind = "switch"
    <3>1. cards' = Cards!Stopped(m)
      BY <2>2 DEF Cards!Fail
    <3> QED
      BY <1>1, <3>1, CardStops DEF CardKept
  <2>3. CASE m.kind \notin {"delete", "switch"}
    <3>1. PICK changed \in BOOLEAN : cards' = Cards!Rendered(changed)
      BY <2>3 DEF Cards!Fail
    <3> QED
      BY <1>2, <3>1, CardRenders
  <2> QED
    BY <2>1, <2>2, <2>3
<1>6. overlay' \in BOOLEAN /\ indicator' \in BOOLEAN
  BY <1>1, <1>2
<1>7. CardShows'
  BY <1>1, <1>2, <1>5, <1>6 DEF CardShows
<1> QED
  BY <1>2, <1>3, <1>4, <1>5, <1>7, CardScreenKept

\* The card that was touched shows its row still: it renders after the item changed.
LEMMA CardScreenDeliverSwitch ==
    ASSUME CardInv, CardInv', CardScreen, NEW m \in requests, Cards!DeliverSwitch(m)
    PROVE  CardScreen'
<1> DEFINE stop == Cards!Stopped(m)
           turns(i) == Cards!Touched(m, i) /\ Cards!Toggled(m) # cards[i].refresh
<1>1. /\ CardShows /\ CardPainted /\ CardAlike /\ CardLit /\ cards \in Seq(Cards!Card)
      /\ cardsHist \in CardHists /\ m \in Cards!Message
      /\ overlay \in BOOLEAN /\ indicator \in BOOLEAN /\ refreshList \in BOOLEAN
      /\ Cards!Rows \in Seq(Cards!Row)
      /\ status \in [Tasks \X (0 .. MaxTaps) -> BOOLEAN]
  BY CardBounds DEF CardScreen, CardShows, CardInv, CardHolds
<1>2. /\ requests' = requests \ {m} /\ m.kind = "switch"
      /\ UNCHANGED <<arrays, refreshList, overlay, indicator, taps>>
      /\ status' = Cards!Flipped(m)
      /\ cards' = [i \in DOMAIN cards |->
                      IF turns(i)
                      THEN Cards!Paint([stop[i] EXCEPT !.refresh = Cards!Toggled(m)],
                                       cards[i].row, status')
                      ELSE stop[i]]
      /\ cardsHist' = [cardsHist EXCEPT !.turned = @ \/ Cards!Moved(m)
                          \/ (m.row \notin {Cards!Rows[i] : i \in DOMAIN Cards!Rows}
                              /\ m.row.task \in Cards!TasksOf(Cards!Rows))]
  BY DEF Cards!DeliverSwitch
<1>3. /\ cardsHist'.together = cardsHist.together
      /\ ~cardsHist'.turned => ~cardsHist.turned /\ ~Cards!Moved(m)
  BY <1>1, <1>2 DEF CardHists
<1>4. CardAsks
  BY <1>2, CardAsksLess
<1>5. Cards!Toggled(m) \in BOOLEAN /\ Cards!Toggled(m) = ~m.refresh /\ m.refresh \in BOOLEAN
  BY <1>1 DEF Cards!Toggled, Cards!Message
<1>6. CardKept(stop)
  BY <1>1, CardStops
<1> HIDE DEF stop
<1>7. status' \in [Tasks \X (0 .. MaxTaps) -> BOOLEAN]
  BY CardBoundsNext
<1>8. m.row \in Cards!Row /\ CardNumber(m.row.n)
  BY <1>2 DEF CardInv, CardNumbered, CardLists
<1>9. \A row \in Cards!Row : CardNumber(row.n) /\ row # m.row =>
         CardNow(row) = Cards!Shown(row)
  <2> TAKE row \in Cards!Row
  <2> SUFFICES ASSUME CardNumber(row.n), row # m.row
               PROVE  CardNow(row) = Cards!Shown(row)
    OBVIOUS
  <2>1. <<row.task, row.n>> # <<m.row.task, m.row.n>>
    BY <1>8 DEF Cards!Row
  <2>2. <<row.task, row.n>> \in DOMAIN status
    BY <1>1 DEF CardNumber, Cards!Row
  <2> QED
    BY <1>2, <2>1, <2>2 DEF CardNow, Cards!Shown, Cards!Flipped
<1>10. ASSUME NEW i \in DOMAIN cards
       PROVE  /\ cards'[i] \in Cards!Card
              /\ cards'[i].row = cards[i].row /\ cards'[i].since = cards[i].since
              /\ ~turns(i) => cards'[i] = stop[i] /\ cards'[i].refresh = cards[i].refresh
              /\ turns(i) => cards'[i].on = CardNow(cards[i].row)
  <2>1. /\ stop[i] \in Cards!Card /\ stop[i].row = cards[i].row
        /\ stop[i].since = cards[i].since /\ stop[i].refresh = cards[i].refresh
    BY <1>1, <1>6 DEF CardKept
  <2>2. cards[i].row \in Cards!Row /\ cards[i].row.n \in 0 .. MaxTaps
    <3>1. cards[i] \in Cards!Card
      BY <1>1
    <3>2. cards[i].row \in Cards!Row
      BY <3>1 DEF Cards!Card
    <3> QED
      BY <1>1, <3>2 DEF CardPainted, CardNumber
  <2>3. CASE turns(i)
    <3> DEFINE c == [stop[i] EXCEPT !.refresh = Cards!Toggled(m)]
    <3>1. c \in Cards!Card /\ c.since = cards[i].since
      BY <1>5, <2>1 DEF Cards!Card
    <3>2. cards'[i] = Cards!Paint(c, cards[i].row, status')
      BY <1>2, <2>3
    <3> HIDE DEF c
    <3>3. PICK st \in [Tasks \X (0 .. MaxTaps) -> BOOLEAN] : st = status'
      BY <1>7
    <3>4. PICK d : d = cards'[i]
      OBVIOUS
    <3>5. PICK row \in Cards!Row : row = cards[i].row
      BY <2>2
    <3>6. /\ d \in Cards!Card /\ d.row = row /\ d.on = st[<<row.task, row.n>>]
          /\ d.since = c.since
      <4>1. d = Cards!Paint(c, row, st) /\ row.n \in 0 .. MaxTaps
        BY <2>2, <3>2, <3>3, <3>4, <3>5
      <4> QED
        BY <3>1, <4>1, CardPaint
    <3>7. CardNow(cards[i].row) = st[<<row.task, row.n>>]
      BY <3>3, <3>5 DEF CardNow
    <3> QED
      BY <2>3, <3>1, <3>4, <3>5, <3>6, <3>7
  <2>4. CASE ~turns(i)
    BY <1>2, <2>1, <2>4
  <2> QED
    BY <2>3, <2>4
<1> HIDE DEF turns
<1>11. DOMAIN cards' = DOMAIN cards
  BY <1>2
<1>12. cards' \in Seq(Cards!Card)
  <2>1. PICK n \in Nat : DOMAIN cards = 1 .. n
    BY <1>1
  <2>2. PICK cs : cs = cards'
    OBVIOUS
  <2>3. cs = [i \in 1 .. n |-> cs[i]]
    BY <1>2, <2>1, <2>2
  <2>4. \A i \in 1 .. n : cs[i] \in Cards!Card
    BY <1>10, <2>1, <2>2
  <2>5. cs \in Seq(Cards!Card)
    BY <2>3, <2>4
  <2> QED
    BY <2>2, <2>5
<1>13. CardShows'
  BY <1>1, <1>2, <1>12 DEF CardShows
<1>14. Cards!Rows' = Cards!Rows
  BY <1>2 DEF Cards!Rows
<1>15. CardPainted'
  <2>1. \A j \in DOMAIN Cards!Rows' :
            \E k \in DOMAIN Cards!Rows : j <= k /\ Cards!Rows'[j] = Cards!Rows[k]
    <3>1. \A j \in DOMAIN Cards!Rows : j <= j
      BY <1>1
    <3> QED
      BY <1>14, <3>1
  <2> QED
    BY <1>1, <1>2, <1>4, <1>10, <1>11, <1>14, <2>1, CardPaintedKept
<1>16. CardAlike'
  BY <1>1, <1>2, <1>3, <1>4, <1>10, <1>11, <1>14, CardAlikeKept
<1>17. CardLit'
  <2>1. ASSUME ~cardsHist'.turned, NEW i \in DOMAIN cards
        PROVE  /\ cards'[i].on = CardNow(cards[i].row)
               /\ CardClear(cards'[i].row) \/ CardWas(i)
    <3>1. /\ Cards!Touched(m, i) <=> cards[i].row = m.row
          /\ cards[i].on = Cards!Shown(cards[i].row)
          /\ m.row = cards[i].row /\ Cards!Touched(m, i) => cards[i].refresh = m.refresh
          /\ \A o \in requests : m.row = cards[i].row /\ o.kind = "switch" /\ o.row = m.row
                => o = m
      BY <1>1, <1>2, <1>3, <2>1 DEF CardLit, Cards!Moved
    <3>2. turns(i) <=> cards[i].row = m.row
      BY <1>5, <3>1 DEF turns
    <3>3. CASE cards[i].row = m.row
      <4>1. CardClear(m.row)
        BY <1>2, <3>1, <3>3 DEF CardClear
      <4> QED
        BY <1>10, <3>2, <3>3, <4>1
    <3>4. CASE cards[i].row # m.row
      <4>1. cards[i].row \in Cards!Row /\ CardNumber(cards[i].row.n)
        <5>1. cards[i] \in Cards!Card
          BY <1>1
        <5>2. cards[i].row \in Cards!Row
          BY <5>1 DEF Cards!Card
        <5> QED
          BY <1>1, <5>2 DEF CardPainted
      <4>2. CardNow(cards[i].row) = Cards!Shown(cards[i].row)
        <5>1. PICK row \in Cards!Row : row = cards[i].row
          BY <4>1
        <5>2. CardNow(row) = Cards!Shown(row)
          BY <1>9, <3>4, <4>1, <5>1
        <5> QED
          BY <5>1, <5>2
      <4>3. cards'[i].on = cards[i].on
        BY <1>6, <1>10, <3>1, <3>2, <3>4 DEF CardKept
      <4>4. i <= i /\ i \in DOMAIN cards
        BY <1>1
      <4>5. CardWas(i)
        BY <1>10, <3>2, <3>4, <4>4 DEF CardWas
      <4> QED
        BY <3>1, <4>2, <4>3, <4>5
    <3> QED
      BY <3>3, <3>4
  <2>2. ~cardsHist'.turned =>
           \A i, j \in DOMAIN cards' : cards'[i].row = cards'[j].row => i = j
    BY <1>1, <1>3, <1>10, <1>11 DEF CardLit
  <2>3. ~cardsHist'.turned =>
           \A i \in DOMAIN cards' :
              /\ cards'[i].on = CardNow(cards'[i].row)
              /\ CardClear(cards'[i].row) \/ CardWas(i)
    BY <1>10, <1>11, <2>1
  <2>4. ~cardsHist'.turned => ~cardsHist.turned
    BY <1>3
  <2> QED
    BY <1>1, <1>4, <1>13, <2>2, <2>3, <2>4, CardLitKept
<1> QED
  BY <1>13, <1>15, <1>16, <1>17 DEF CardScreen

\* Another array is held, of fresh rows and of those of the array held before.
LEMMA CardScreenSets ==
    ASSUME CardInv, CardInv', CardScreen, NEW m \in requests, NEW rows,
           rows \in Seq(Cards!Row), arrays' = Append(arrays, rows),
           requests' = requests \ {m}, m.kind \in CardLists, refreshList' = refreshList,
           overlay' \in BOOLEAN, indicator' \in BOOLEAN,
           cards' = Cards!PaintAll(cards, rows, status'),
           ~cardsHist'.turned /\ (\E i \in DOMAIN rows : rows[i].n # m.n) =>
              /\ ~cardsHist.turned
              /\ \A i \in DOMAIN rows :
                    rows[i].n # m.n => i \in DOMAIN Cards!Rows /\ rows[i] = Cards!Rows[i]
    PROVE  CardScreen'
<1>1. /\ CardShows /\ CardPainted /\ CardAlike /\ CardLit /\ cards \in Seq(Cards!Card)
      /\ arrays \in Seq(Seq(Cards!Row)) /\ CardNumbered /\ CardFresh
      /\ refreshList \in BOOLEAN
  BY DEF CardScreen, CardShows, CardInv, CardHolds
<1>2. Len(arrays') = Len(arrays) + 1 /\ Len(arrays) \in Nat
  BY <1>1
<1>3. Cards!Rows' = rows
  <2>1. arrays'[Len(arrays) + 1] = rows
    BY <1>1, <1>2
  <2> QED
    BY <1>2, <2>1 DEF Cards!Rows
<1>4. CardDrawn
  BY <1>1, <1>3, CardDraws
<1>5. CardShows'
  BY <1>1, <1>4 DEF CardShows, CardDrawn
<1>6. CardPainted'
  BY <1>4, CardPaintedDrawn
<1>7. /\ DOMAIN cards' = DOMAIN rows
      /\ \A i \in DOMAIN rows :
            /\ cards'[i].row = rows[i] /\ cards'[i].on = CardNow(rows[i])
            /\ i \in DOMAIN cards =>
                  cards'[i].since = cards[i].since /\ cards'[i].refresh = cards[i].refresh
  BY <1>3, <1>4 DEF CardDrawn
<1>8. CardAlike'
  <2>1. rows = [i \in DOMAIN cards' |-> cards'[i].row]
    BY <1>7, CardLooks
  <2>2. \A q \in requests' : q.array # Len(arrays')
    <3> SUFFICES ASSUME NEW q \in requests' PROVE q.array # Len(arrays) + 1
      BY <1>2
    <3>1. q.array \in DOMAIN arrays /\ DOMAIN arrays = 1 .. Len(arrays)
      BY <1>1 DEF CardNumbered
    <3> QED
      BY <1>2, <3>1
  <2> QED
    BY <1>3, <2>1, <2>2 DEF CardAlike
<1>9. CardLit'
  <2>1. \A i \in DOMAIN rows : rows[i].n = m.n => CardClear(rows[i])
    BY <1>1 DEF CardFresh, CardClear, CardLists
  <2>2. ~cardsHist'.turned =>
           \A i, j \in DOMAIN cards' : cards'[i].row = cards'[j].row => i = j
    BY <1>3, <1>7 DEF CardInv, CardSingle
  <2>3. CASE \E i \in DOMAIN rows : rows[i].n # m.n
    <3>1. \A i \in DOMAIN cards : CardNumber(cards[i].row.n)
      BY <1>1 DEF CardPainted
    <3>2. ASSUME ~cardsHist'.turned, NEW i \in DOMAIN rows, rows[i].n # m.n PROVE CardWas(i)
      <4>1. i \in DOMAIN Cards!Rows /\ rows[i] = Cards!Rows[i]
        BY <2>3, <3>2
      <4>2. PICK k \in DOMAIN cards : i <= k /\ cards[k].row = Cards!Rows[i]
        BY <1>1, <4>1 DEF CardPainted
      <4> QED
        BY <1>7, <4>1, <4>2 DEF CardWas
    <3>3. CardAsks
      BY CardAsksLess
    <3>4. ~cardsHist'.turned => ~cardsHist.turned
      BY <2>3
    <3>5. ~cardsHist'.turned =>
             \A i \in DOMAIN cards' :
                /\ cards'[i].on = CardNow(cards'[i].row)
                /\ CardClear(cards'[i].row) \/ CardWas(i)
      BY <1>7, <2>1, <3>2
    <3> QED
      BY <1>1, <1>5, <2>2, <3>3, <3>4, <3>5, CardLitKept
  <2>4. CASE ~ \E i \in DOMAIN rows : rows[i].n # m.n
    <3>1. \A i \in DOMAIN cards' :
             /\ cards'[i].on = CardNow(cards'[i].row)
             /\ CardClear(cards'[i].row)
      BY <1>7, <2>1, <2>4
    <3> QED
      BY <2>2, <3>1 DEF CardLit, CardClear, CardNow, Cards!Shown
  <2> QED
    BY <2>3, <2>4
<1> QED
  BY <1>5, <1>6, <1>8, <1>9 DEF CardScreen

\* The answer to a deletion renders the list, unless the flag was set to what it is.
LEMMA CardScreenDeliverDelete ==
    ASSUME CardInv, CardInv', CardScreen, NEW m \in requests, Cards!DeliverDelete(m)
    PROVE  CardScreen'
<1> DEFINE settled == Cards!Settled(m, FALSE)
           a == m.array
<1>1. /\ CardShows /\ CardPainted /\ CardAlike /\ CardLit /\ cards \in Seq(Cards!Card)
      /\ cardsHist \in CardHists /\ m \in Cards!Message
      /\ overlay \in BOOLEAN /\ indicator \in BOOLEAN /\ refreshList \in BOOLEAN
      /\ Cards!Rows \in Seq(Cards!Row) /\ arrays \in Seq(Seq(Cards!Row)) /\ CardHolds
  BY CardBounds DEF CardScreen, CardShows, CardInv, CardHolds
<1>2. /\ requests' = requests \ {m} /\ m.kind = "delete"
      /\ UNCHANGED <<status, overlay, indicator, taps>>
      /\ arrays' = Cards!Gone(m) /\ refreshList' = Cards!Toggled(m)
      /\ cards' = IF refreshList' = refreshList THEN settled
                  ELSE Cards!PaintAll(settled, arrays'[Len(arrays)], status)
      /\ cardsHist' = [cardsHist EXCEPT !.missed = @ \/ Cards!Missed(m)]
  BY DEF Cards!DeliverDelete
<1>3. cardsHist'.together = cardsHist.together /\ cardsHist'.turned = cardsHist.turned
  BY <1>1, <1>2 DEF CardHists
<1>4. CardAsks
  BY <1>2, CardAsksLess
<1>5. Cards!Toggled(m) = ~m.refresh /\ m.refresh \in BOOLEAN
  BY <1>1 DEF Cards!Toggled, Cards!Message
<1>6. CardKept(settled)
  BY <1>1, CardSettles
<1> HIDE DEF settled
<1>7. /\ a \in DOMAIN arrays /\ Len(arrays) \in DOMAIN arrays
      /\ Cards!Rows = arrays[Len(arrays)] /\ arrays[a] \in Seq(Cards!Row)
  BY <1>1, CardRowsTyped DEF CardInv, CardNumbered
<1>8. arrays' = [arrays EXCEPT ![a] = IF m.index \in DOMAIN arrays[a]
                                      THEN Cards!Without(arrays[a], m.index) ELSE arrays[a]]
  BY <1>2 DEF Cards!Gone
<1>9. Len(arrays') = Len(arrays) /\ DOMAIN arrays' = DOMAIN arrays
  <2> DEFINE gone == IF m.index \in DOMAIN arrays[a]
                     THEN Cards!Without(arrays[a], m.index) ELSE arrays[a]
  <2>1. gone \in Seq(Cards!Row)
    <3>1. m.index \in DOMAIN arrays[a] => Cards!Without(arrays[a], m.index) \in Seq(Cards!Row)
      BY <1>7, CardRemoved
    <3> QED
      BY <1>7, <3>1
  <2> HIDE DEF gone
  <2>2. arrays' = [arrays EXCEPT ![a] = gone]
    BY <1>8 DEF gone
  <2> QED
    BY <1>1, <1>7, <2>1, <2>2
<1>10. Cards!Rows' = arrays'[Len(arrays)]
  BY <1>9 DEF Cards!Rows
<1>11. a # Len(arrays) => Cards!Rows' = Cards!Rows
  BY <1>7, <1>8, <1>10
<1>12. \A j \in DOMAIN Cards!Rows' :
          \E k \in DOMAIN Cards!Rows : j <= k /\ Cards!Rows'[j] = Cards!Rows[k]
  <2>1. \A j \in DOMAIN Cards!Rows : j <= j
    BY <1>1
  <2>2. CASE a = Len(arrays) /\ m.index \in DOMAIN Cards!Rows
    <3>1. PICK r : r = Cards!Rows'
      OBVIOUS
    <3>2. r = Cards!Without(Cards!Rows, m.index)
      BY <1>7, <1>8, <1>10, <2>2, <3>1
    <3>3. \A i \in DOMAIN r : CardUp(m.index, i) \in DOMAIN Cards!Rows
                              /\ i <= CardUp(m.index, i) /\ r[i] = Cards!Rows[CardUp(m.index, i)]
      BY <1>1, <2>2, <3>2, CardMoves
    <3> QED
      BY <3>1, <3>3
  <2>3. CASE ~(a = Len(arrays) /\ m.index \in DOMAIN Cards!Rows)
    <3>1. Cards!Rows' = Cards!Rows
      BY <1>7, <1>8, <1>10, <1>11, <2>3
    <3> QED
      BY <2>1, <3>1
  <2> QED
    BY <2>2, <2>3
<1>13. Cards!Rows' \in Seq(Cards!Row)
  BY CardBoundsNext
<1>14. \A row : CardNow(row) = Cards!Shown(row)
  BY <1>2 DEF CardNow, Cards!Shown
<1>15. CASE refreshList' # refreshList
  <2>1. cards' = Cards!PaintAll(settled, Cards!Rows', status')
    BY <1>2, <1>10, <1>15
  <2>2. /\ settled \in Seq(Cards!Card) /\ DOMAIN settled = DOMAIN cards
        /\ \A i \in DOMAIN cards : /\ settled[i].since = cards[i].since
                                   /\ settled[i].refresh = cards[i].refresh
    BY <1>6 DEF CardKept
  <2>3. CardDrawn
    BY <2>1, <2>2, CardDraws
  <2>4. CardShows'
    BY <1>1, <1>2, <1>5, <2>3 DEF CardShows, CardDrawn
  <2>5. CardPainted'
    BY <2>3, CardPaintedDrawn
  <2>6. CardAlike'
    <3> SUFFICES ASSUME ~cardsHist.together
                 PROVE  /\ Cards!Rows' = [i \in DOMAIN cards' |-> cards'[i].row]
                        /\ \A q \in requests' : ~(q.kind = "delete" /\ q.array = Len(arrays))
      BY <1>3, <1>9 DEF CardAlike
    <3>1. Cards!Rows' = [i \in DOMAIN cards' |-> cards'[i].row]
      <4>1. PICK rows \in Seq(Cards!Row) : rows = Cards!Rows'
        BY <1>13
      <4> QED
        BY <2>3, <4>1, CardLooks DEF CardDrawn
    <3>2. m.refresh = refreshList
      BY <1>1, <1>2, <1>5, <1>15
    <3>3. ASSUME NEW q \in requests', q.kind = "delete", q.array = Len(arrays) PROVE FALSE
      <4>1. \A o \in requests : o.kind = "delete" /\ o.refresh = refreshList => o = q
        BY <1>1, <1>2, <3>3 DEF CardAlike
      <4> QED
        BY <1>2, <3>2, <4>1
    <3> QED
      BY <3>1, <3>3
  <2>7. CardLit'
    <3>1. ~cardsHist'.turned =>
             \A i, j \in DOMAIN cards' : cards'[i].row = cards'[j].row => i = j
      BY <2>3 DEF CardDrawn, CardInv, CardSingle
    <3>2. ASSUME NEW i \in DOMAIN cards'
          PROVE  cards'[i].on = CardNow(cards'[i].row) /\ CardWas(i)
      <4>1. /\ i \in DOMAIN Cards!Rows' /\ cards'[i].row = Cards!Rows'[i]
            /\ cards'[i].on = CardNow(Cards!Rows'[i])
            /\ i \in DOMAIN cards =>
                  cards'[i].since = cards[i].since /\ cards'[i].refresh = cards[i].refresh
        BY <2>3 DEF CardDrawn
      <4>2. PICK j \in DOMAIN Cards!Rows : i <= j /\ Cards!Rows'[i] = Cards!Rows[j]
        BY <1>12, <4>1
      <4>3. PICK k \in DOMAIN cards : j <= k /\ cards[k].row = Cards!Rows[j]
        BY <1>1 DEF CardPainted
      <4>4. i \in Nat /\ j \in Nat /\ k \in Nat
        <5>1. i \in Nat
          BY <1>13, <4>1
        <5> QED
          BY <1>1, <5>1
      <4>5. i <= k
        BY <4>2, <4>3, <4>4
      <4> QED
        BY <4>1, <4>2, <4>3, <4>5 DEF CardWas
    <3> QED
      BY <1>1, <1>3, <1>4, <2>4, <3>1, <3>2, CardLitKept
  <2> QED
    BY <2>4, <2>5, <2>6, <2>7 DEF CardScreen
<1>16. CASE refreshList' = refreshList
  <2>1. cards' = settled
    BY <1>2, <1>16
  <2>2. CardKept(cards')
    BY <1>6, <2>1
  <2>3. CardShows'
    BY <1>1, <1>2, <1>16, <2>2 DEF CardShows, CardKept
  <2>4. /\ DOMAIN cards' = DOMAIN cards
        /\ \A i \in DOMAIN cards : cards'[i].row = cards[i].row
    BY <2>2 DEF CardKept
  <2>5. CardPainted'
    BY <1>1, <1>2, <1>4, <1>12, <1>13, <2>4, CardPaintedKept
  <2>6. CardAlike'
    <3>1. CASE cardsHist'.together
      BY <3>1 DEF CardAlike
    <3>2. CASE ~cardsHist'.together
      <4>1. a # Len(arrays)
        BY <1>1, <1>2, <1>3, <1>5, <1>16, <3>2 DEF CardAlike
      <4>2. Cards!Rows' = Cards!Rows
        BY <1>11, <4>1
      <4> QED
        BY <1>1, <1>3, <1>4, <1>9, <1>16, <2>4, <4>2, CardAlikeKept
    <3> QED
      BY <3>1, <3>2
  <2>7. CardLit'
    <3>1. ~cardsHist'.turned =>
             \A i, j \in DOMAIN cards' : cards'[i].row = cards'[j].row => i = j
      BY <1>1, <1>3, <2>2 DEF CardKept, CardLit
    <3>2. \A i \in DOMAIN cards' : CardWas(i)
      <4>1. \A i \in DOMAIN cards : i <= i
        BY <1>1
      <4> QED
        BY <2>2, <4>1 DEF CardKept, CardWas
    <3>3. ~cardsHist'.turned =>
             \A i \in DOMAIN cards' : cards'[i].on = CardNow(cards'[i].row)
      BY <1>1, <1>3, <1>14, <2>2 DEF CardKept, CardLit
    <3> QED
      BY <1>1, <1>3, <1>4, <2>3, <3>1, <3>2, <3>3, CardLitKept
  <2> QED
    BY <2>3, <2>5, <2>6, <2>7 DEF CardScreen
<1> QED
  BY <1>15, <1>16

LEMMA CardScreenDeliverFirst ==
    ASSUME CardInv, CardInv', CardScreen, NEW m \in requests, Cards!DeliverFirst(m)
    PROVE  CardScreen'
<1>1. /\ m \in Cards!Message /\ indicator \in BOOLEAN
  BY DEF CardScreen, CardShows, CardInv, CardHolds
<1>2. PICK rows : rows = Cards!RowsOf(m)
  OBVIOUS
<1>3. /\ rows \in Seq(Cards!Row) /\ \A i \in DOMAIN rows : rows[i].n = m.n
  BY <1>1, <1>2, CardRowsOf
<1>4. /\ requests' = requests \ {m} /\ m.kind \in CardLists /\ refreshList' = refreshList
      /\ overlay' \in BOOLEAN /\ indicator' = indicator
      /\ arrays' = Append(arrays, rows) /\ cards' = Cards!PaintAll(cards, rows, status')
  BY <1>2 DEF Cards!DeliverFirst, Cards!SetTasks, CardLists
<1> QED
  BY <1>1, <1>3, <1>4, CardScreenSets

LEMMA CardScreenDeliverMore ==
    ASSUME CardInv, CardInv', CardScreen, NEW m \in requests, Cards!DeliverMore(m)
    PROVE  CardScreen'
<1>1. /\ m \in Cards!Message /\ overlay \in BOOLEAN /\ cardsHist \in CardHists
      /\ CardHolds
  BY DEF CardScreen, CardShows, CardInv, CardHolds
<1>2. PICK old : old = arrays[m.array]
  OBVIOUS
<1>3. PICK new : new = Cards!RowsOf(m)
  OBVIOUS
<1>4. PICK rows : rows = old \o new
  OBVIOUS
<1>5. /\ requests' = requests \ {m} /\ m.kind \in CardLists /\ refreshList' = refreshList
      /\ overlay' = overlay /\ indicator' = FALSE
      /\ arrays' = Append(arrays, rows) /\ cards' = Cards!PaintAll(cards, rows, status')
      /\ cardsHist' = [cardsHist EXCEPT
                          !.missed = @ \/ Cards!OldPage(m) \/ m.array # Len(arrays),
                          !.turned = @ \/ Cards!OldStatus(m) \/ m.array # Len(arrays),
                          !.skipped = @ \/ cardsHist.shifted, !.together = FALSE]
  BY <1>2, <1>3, <1>4 DEF Cards!DeliverMore, Cards!SetTasks, CardLists
<1>6. ~cardsHist'.turned => ~cardsHist.turned /\ m.array = Len(arrays)
  BY <1>1, <1>5 DEF CardHists
<1>7. old \in Seq(Cards!Row) /\ (m.array = Len(arrays) => old = Cards!Rows)
  BY <1>1, <1>2 DEF CardInv, CardNumbered, CardHolds, Cards!Rows
<1>8. new \in Seq(Cards!Row) /\ \A i \in DOMAIN new : new[i].n = m.n
  BY <1>1, <1>3, CardRowsOf
<1>9. rows \in Seq(Cards!Row) /\ Len(rows) = Len(old) + Len(new)
  BY <1>4, <1>7, <1>8
<1>10. /\ \A i \in 1 .. Len(old) : rows[i] = old[i]
       /\ \A i \in 1 .. Len(new) : rows[Len(old) + i] = new[i]
  BY <1>4, <1>7, <1>8
<1>11. ASSUME NEW i \in DOMAIN rows, rows[i].n # m.n
       PROVE  i \in DOMAIN old /\ rows[i] = old[i]
  <2>1. /\ Len(old) \in Nat /\ Len(new) \in Nat /\ i \in 1 .. Len(old) + Len(new)
        /\ DOMAIN old = 1 .. Len(old) /\ DOMAIN new = 1 .. Len(new)
    BY <1>7, <1>8, <1>9
  <2>2. i \in 1 .. Len(old)
    <3> SUFFICES ASSUME i > Len(old) PROVE FALSE
      BY <2>1
    <3>1. i - Len(old) \in 1 .. Len(new) /\ i = Len(old) + (i - Len(old))
      BY <2>1
    <3> QED
      BY <1>8, <1>10, <1>11, <2>1, <3>1
  <2> QED
    BY <1>10, <2>1, <2>2
<1>12. ~cardsHist'.turned /\ (\E i \in DOMAIN rows : rows[i].n # m.n) =>
          /\ ~cardsHist.turned
          /\ \A i \in DOMAIN rows :
                rows[i].n # m.n => i \in DOMAIN Cards!Rows /\ rows[i] = Cards!Rows[i]
  BY <1>6, <1>7, <1>11
<1>13. overlay' \in BOOLEAN /\ indicator' \in BOOLEAN
  BY <1>1, <1>5
<1> QED
  BY <1>5, <1>9, <1>12, <1>13, CardScreenSets
-----------------------------------------------------------------------------
(* Every step keeps the invariant                                           *)

LEMMA CardStutters == ASSUME CardInv, UNCHANGED Cards!vars PROVE CardInv'
<1>1. UNCHANGED <<tasks, enabled, arrays, status, pageNumber, requests, taps, cardsHist>>
  BY DEF Cards!vars
<1> QED
  BY <1>1, CardStands

LEMMA CardScreenStutters ==
    ASSUME CardInv, CardInv', CardScreen, UNCHANGED Cards!vars PROVE CardScreen'
<1>1. UNCHANGED <<arrays, status, cards, refreshList, overlay, indicator, requests, taps,
                  cardsHist>>
  BY DEF Cards!vars
<1>2. CardShows /\ cards \in Seq(Cards!Card)
  BY DEF CardScreen, CardShows
<1>3. CardAsks
  BY <1>1, CardAsksLess
<1>4. CardKept(cards') /\ CardShows'
  BY <1>1, <1>2 DEF CardKept, CardShows
<1> QED
  BY <1>1, <1>3, <1>4, CardScreenKept

LEMMA CardStep ==
    ASSUME CardInv, CardScreen, [Cards!Next]_(Cards!vars) PROVE CardInv' /\ CardScreen'
<1>1. CASE Cards!Render
  <2>1. CardInv'
    BY <1>1, CardRender
  <2> QED
    BY <1>1, <2>1, CardScreenTaps
<1>2. CASE Cards!Reload
  BY <1>2, CardReload, CardScreenTaps
<1>3. CASE Cards!LoadMoreTaskListing
  BY <1>3, CardLoadMore, CardScreenTaps
<1>4. ASSUME NEW i \in DOMAIN cards, Cards!DeleteTask(i) PROVE CardInv' /\ CardScreen'
  BY <1>4, CardDeleteTask, CardScreenDeleteTask DEF CardScreen
<1>5. ASSUME NEW i \in DOMAIN cards, Cards!ChangeTaskDisplay(i)
      PROVE  CardInv' /\ CardScreen'
  BY <1>5, CardChangeTaskDisplay, CardScreenChangeTaskDisplay DEF CardScreen
<1>6. ASSUME NEW m \in requests, Cards!Serve(m) PROVE CardInv' /\ CardScreen'
  BY <1>6, CardServe, CardScreenServe
<1>7. ASSUME NEW m \in requests, Cards!DeliverFirst(m) PROVE CardInv' /\ CardScreen'
  BY <1>7, CardDeliverFirst, CardScreenDeliverFirst
<1>8. ASSUME NEW m \in requests, Cards!DeliverMore(m) PROVE CardInv' /\ CardScreen'
  BY <1>8, CardDeliverMore, CardScreenDeliverMore
<1>9. ASSUME NEW m \in requests, Cards!DeliverDelete(m) PROVE CardInv' /\ CardScreen'
  BY <1>9, CardDeliverDelete, CardScreenDeliverDelete
<1>10. ASSUME NEW m \in requests, Cards!DeliverSwitch(m) PROVE CardInv' /\ CardScreen'
  BY <1>10, CardDeliverSwitch, CardScreenDeliverSwitch
<1>11. ASSUME NEW m \in requests, Cards!Fail(m) PROVE CardInv' /\ CardScreen'
  BY <1>11, CardFail, CardScreenFail
<1>12. CASE UNCHANGED Cards!vars
  BY <1>12, CardStutters, CardScreenStutters
<1> QED
  BY <1>1, <1>2, <1>3, <1>4, <1>5, <1>6, <1>7, <1>8, <1>9, <1>10, <1>11, <1>12
  DEF Cards!Next

LEMMA CardScreenInit == ASSUME Cards!Init PROVE CardScreen
<1>1. /\ cards = <<>> /\ refreshList = FALSE /\ overlay = TRUE /\ indicator = FALSE
      /\ arrays = <<<<>>>>
      /\ \A m \in requests : m.kind = "first"
  BY DEF Cards!Init
<1>2. Cards!Rows = <<>>
  BY <1>1 DEF Cards!Rows
<1>3. CardShows
  <2>1. <<>> \in Seq(Cards!Card) /\ TRUE \in BOOLEAN /\ FALSE \in BOOLEAN
    OBVIOUS
  <2> QED
    BY <1>1, <2>1 DEF CardShows
<1>4. CardPainted
  BY <1>1, <1>2 DEF CardPainted
<1>5. CardAlike
  BY <1>1, <1>2 DEF CardAlike
<1>6. CardLit
  BY <1>1 DEF CardLit
<1> QED
  BY <1>3, <1>4, <1>5, <1>6 DEF CardScreen

\* CardInv and CardScreen, the inductive invariant of the tasks of a seller: of what is
\* held, and of what is painted.
LEMMA CardAlways == Cards!Spec => [](CardInv /\ CardScreen)
<1>1. Cards!Init => CardInv /\ CardScreen
  BY CardInit, CardScreenInit
<1>2. CardInv /\ CardScreen /\ [Cards!Next]_(Cards!vars) => (CardInv /\ CardScreen)'
  BY CardStep
<1> QED BY <1>1, <1>2, PTL DEF Cards!Spec

-----------------------------------------------------------------------------
(* What it implies                                                          *)

LEMMA CardSmallest ==
    ASSUME NEW T \in SUBSET Nat, T # {}
    PROVE  \E x \in T : \A y \in T : x <= y
<1> DEFINE R == OpToRel(<, Nat)
<1>1. IsWellFoundedOn(R, Nat)
  BY NatLessThanWellFounded
<1> HIDE DEF R
<1>2. PICK x \in T : \A y \in T : ~(<<y, x>> \in R)
  BY <1>1, WFMin
<1>3. \A y \in T : ~(y < x)
  BY <1>2 DEF R, OpToRel
<1> QED
  BY <1>3

\* Rows that are apart, that exist and that have before them all that the server
\* has before them are the first tasks of the server.
LEMMA CardAreFirst ==
    ASSUME NEW rows \in Seq(Cards!Row), tasks \in Seq(Tasks), CardApartIn(tasks),
           \A i, j \in DOMAIN rows : rows[i].task = rows[j].task => i = j,
           \A i \in DOMAIN rows : \E j \in DOMAIN tasks : tasks[j] = rows[i].task,
           \A i \in DOMAIN rows : \A j \in DOMAIN tasks :
               rows[i].task = tasks[j] =>
                   \A k \in 1 .. j - 1 : \E l \in 1 .. i - 1 : rows[l].task = tasks[k]
    PROVE  \A i \in DOMAIN rows : i \in DOMAIN tasks /\ rows[i].task = tasks[i]
<1> DEFINE Off == {i \in DOMAIN rows : ~(i \in DOMAIN tasks /\ rows[i].task = tasks[i])}
<1>1. DOMAIN rows = 1 .. Len(rows) /\ Len(rows) \in Nat
      /\ DOMAIN tasks = 1 .. Len(tasks) /\ Len(tasks) \in Nat
  OBVIOUS
<1>2. SUFFICES ASSUME Off # {} PROVE FALSE
  OBVIOUS
<1>3. Off \in SUBSET Nat
  BY <1>1
<1>4. PICK x \in Off : \A y \in Off : x <= y
  <2> HIDE DEF Off
  <2> QED BY <1>2, <1>3, CardSmallest
<1>5. x \in DOMAIN rows /\ x \in Nat /\ x >= 1
  BY <1>1
<1>6. PICK j \in DOMAIN tasks : tasks[j] = rows[x].task
  BY <1>5
<1>7. j # x
  BY <1>6
<1>8. \A y \in 1 .. x - 1 : y \in DOMAIN tasks /\ rows[y].task = tasks[y]
  <2> TAKE y \in 1 .. x - 1
  <2>1. y \in DOMAIN rows /\ ~(x <= y)
    BY <1>1, <1>5
  <2> QED
    BY <1>4, <2>1
<1>9. CASE j < x
  <2>1. j \in 1 .. x - 1
    BY <1>1, <1>5, <1>9
  <2>2. rows[j].task = rows[x].task /\ j \in DOMAIN rows
    BY <1>1, <1>5, <1>6, <1>8, <2>1
  <2> QED
    BY <1>5, <1>7, <2>2
<1>10. CASE x < j
  <2>1. x \in 1 .. j - 1 /\ x \in DOMAIN tasks
    BY <1>1, <1>5, <1>10
  <2>2. PICK l \in 1 .. x - 1 : rows[l].task = tasks[x]
    BY <1>5, <1>6, <2>1
  <2>3. l \in DOMAIN tasks /\ tasks[l] = tasks[x] /\ l # x
    BY <1>5, <1>8, <2>2
  <2> QED
    BY <2>1, <2>3 DEF CardApartIn
<1> QED
  BY <1>1, <1>5, <1>7, <1>9, <1>10

LEMMA CardInvMeans == CardInv /\ CardScreen => RowsAreTheServers
<1> SUFFICES ASSUME CardInv, CardScreen PROVE RowsAreTheServers
  OBVIOUS
<1>1. /\ CardHolds /\ CardServer /\ CardSingle /\ CardKnown /\ CardInOrder /\ CardSwitches
      /\ Cards!Rows \in Seq(Cards!Row) /\ tasks \in Seq(Tasks)
  BY CardRowsTyped DEF CardInv, CardHolds
<1>2. ASSUME Cards!InFlight({"delete"}) = {}, ~cardsHist.missed
      PROVE  /\ \A t \in Cards!TasksOf(Cards!Rows) : Cards!Exists(t)
             /\ ~cardsHist.skipped => \A i \in DOMAIN Cards!Rows :
                   i \in DOMAIN tasks /\ Cards!Rows[i].task = tasks[i]
  <2>1. \A t : ~CardGoing(t)
    BY <1>2 DEF CardGoing, CardServed, Cards!InFlight
  <2>2. \A i \in DOMAIN Cards!Rows : Cards!Exists(Cards!Rows[i].task)
    BY <1>1, <1>2, <2>1 DEF CardKnown
  <2>3. \A t \in Cards!TasksOf(Cards!Rows) : Cards!Exists(t)
    BY <2>2 DEF Cards!TasksOf
  <2>4. ASSUME ~cardsHist.skipped
        PROVE  \A i \in DOMAIN Cards!Rows : i \in DOMAIN tasks /\ Cards!Rows[i].task = tasks[i]
    <3>1. \A i \in DOMAIN Cards!Rows : \E j \in DOMAIN tasks : tasks[j] = Cards!Rows[i].task
      BY <2>2 DEF Cards!Exists
    <3>2. \A i, j \in DOMAIN Cards!Rows :
              Cards!Rows[i].task = Cards!Rows[j].task => i = j
      BY <1>1, <1>2 DEF CardSingle
    <3>3. \A i \in DOMAIN Cards!Rows : \A j \in DOMAIN tasks :
              Cards!Rows[i].task = tasks[j] =>
                  \A k \in 1 .. j - 1 : \E l \in 1 .. i - 1 : Cards!Rows[l].task = tasks[k]
      BY <1>1, <1>2, <2>4 DEF CardInOrder
    <3>4. CardApartIn(tasks)
      BY <1>1 DEF CardServer
    <3> QED
      BY <1>1, <3>1, <3>2, <3>3, <3>4, CardAreFirst
  <2> QED
    BY <2>3, <2>4
<1>3. ASSUME Cards!InFlight({"switch"}) = {}, ~cardsHist.turned, NEW i \in DOMAIN Cards!Rows
      PROVE  Cards!Shown(Cards!Rows[i]) <=> Cards!Rows[i].task \in enabled
  <2>1. \A m : ~CardServed(m, {"switch"})
    BY <1>3 DEF CardServed, Cards!InFlight
  <2> QED
    BY <1>1, <1>3, <2>1 DEF CardSwitches
<1>4. ~cardsHist.together => Cards!Rows = [i \in DOMAIN cards |-> cards[i].row]
  BY DEF CardScreen, CardAlike
<1>5. ASSUME Cards!InFlight({"switch"}) = {}, ~cardsHist.turned,
             NEW i \in DOMAIN cards, NEW j \in DOMAIN Cards!Rows,
             cards[i].row = Cards!Rows[j]
      PROVE  cards[i].on <=> Cards!Rows[j].task \in enabled
  <2>1. cards[i].on = Cards!Shown(cards[i].row)
    BY <1>5 DEF CardScreen, CardLit
  <2> QED
    BY <1>3, <1>5, <2>1
<1> QED
  BY <1>2, <1>4, <1>5 DEF RowsAreTheServers, Cards!RowsAreTheServers

\* Type correctness of the tasks of a seller.
THEOREM CardTypeCorrect == Cards!Spec => []Cards!TypeOK
<1>1. CardInv /\ CardScreen => Cards!TypeOK
  BY DEF CardInv, CardHolds, CardHists, CardScreen, CardShows, Cards!TypeOK
<1> QED
  BY <1>1, CardAlways, PTL

\* For any tasks and any number of pages, deletions and switches, answered in any
\* order or lost: with no deletion in flight every row of TaskListing is a task the
\* server has, and the rows are the first of the server's; the rows that are held are
\* those on the screen; and with no switch in flight the card of a row shows the status
\* the server has, with the exceptions the property names (deleteItem splices the captured array
\* at the captured index and sets refreshList to the opposite of the captured one).
THEOREM RowsFollowServer == Cards!Spec => []RowsAreTheServers
<1>1. CardInv /\ CardScreen => RowsAreTheServers BY CardInvMeans
<1> QED BY <1>1, CardAlways, PTL
=============================================================================
