-------------------------- MODULE SearchResultProofs --------------------------
(***************************************************************************)
(* For any texts, any number of pages and of requests: no freelancer is      *)
(* listed twice and the list is that of the search, with the exceptions      *)
(* ResultsOfSearch names.                                                    *)
(*                                                                         *)
(* A request for more holds a reference to the array it will continue, so    *)
(* what is to hold of the list must hold of the captured arrays: Ordered for *)
(* all of them, Current for those that no later search will make obsolete.   *)
(*                                                                         *)
(* For any projects, any number of touches and of unanswered changes: the    *)
(* client's copy of the saved projects is the server's, and every heart on   *)
(* the screen is the copy's (SavedItems, the instance Saved).                *)
(***************************************************************************)
EXTENDS MCSearchResult, Integers, SequenceTheorems, FiniteSetTheorems,
        WellFoundedInduction, TLAPS

\* The pages of a list ascend and come before the next page p.
Ascends(l, p) ==
    /\ \A i \in DOMAIN l : l[i].page < p
    /\ \A i, j \in DOMAIN l : i < j => l[i].page < l[j].page

OfText(l, t) == \A i \in DOMAIN l : l[i].query.text = t

\* Requests are told apart by their numbers.
Numbered ==
    /\ \A m \in net : m.n <= sent
    /\ \A m, o \in net : m.n = o.n => m = o

Ordered ==
    /\ page >= 3 /\ Ascends(Rows, page)
    /\ \A m \in net : m.more =>
        m.page >= 3 /\ m.list \in DOMAIN heap /\ Ascends(heap[m.list], m.page)

\* Nothing was overtaken and nothing failed: then a request for anything else
\* than the search is older than a first fetch that is in flight.
Clean == hist \subseteq {"landed"}
Newest(m) == \A o \in Firsts : o.n <= m.n
Asked == Clean => \A m \in net : Newest(m) => m.query.text = search.text

\* Nothing happened that the property excepts: the list, and every array that
\* will be continued after the first fetch, holds rows of the search only.
Current ==
    hist = {} =>
        /\ Fetching => Rows = <<>>
        /\ OfText(Rows, search.text)
        /\ \A m \in net : m.more /\ Newest(m) => OfText(heap[m.list], search.text)

Inv == TypeOK /\ Numbered /\ Ordered /\ Asked /\ Current

-----------------------------------------------------------------------------
(* Lists and the heap                                                      *)

\* What the server answers: consecutive pages of the query, j + 1 - i at most.
LEMMA FoundFacts ==
    ASSUME NEW q \in Query, NEW i \in Nat \ {0}, NEW j \in Nat, i <= j
    PROVE  /\ Found(q, i, j) \in Seq(Row)
           /\ \A k \in DOMAIN Found(q, i, j) :
                /\ k \in Nat \ {0} /\ k <= j + 1 - i
                /\ Found(q, i, j)[k] = [query |-> q, page |-> i + k - 1]
<1> DEFINE last == IF q.types = "none" THEN Pages[q.text] ELSE Pages[q.text] \div 2
           end == (IF j <= last THEN j ELSE last) + 1 - i
<1>1. Pages[q.text] \in Nat
  BY ConstantsAssumption DEF Query
<1>2. last \in Nat
  BY <1>1
<1>3. end \in Int /\ end <= j + 1 - i
  BY <1>2
<1>4. Found(q, i, j) = [k \in 1 .. end |-> [query |-> q, page |-> i + k - 1]]
  BY DEF Found
<1> HIDE DEF last, end
<1>5. \A k \in 1 .. end : [query |-> q, page |-> i + k - 1] \in Row
  BY <1>3 DEF Row
<1>6. Found(q, i, j) \in Seq(Row)
  <2>1. Found(q, i, j) \in [1 .. end -> Row]
    BY <1>4, <1>5
  <2>2. \E n \in Nat : 1 .. end = 1 .. n
    <3>1. CASE end \in Nat
      BY <3>1
    <3>2. CASE end \notin Nat
      <4>1. 1 .. end = 1 .. 0
        BY <1>3, <3>2
      <4> QED  BY <4>1
    <3> QED  BY <3>1, <3>2
  <2>3. PICK n \in Nat : 1 .. end = 1 .. n
    BY <2>2
  <2>4. Found(q, i, j) \in [1 .. n -> Row]
    BY <2>1, <2>3
  <2> QED  BY <2>4, SeqDef
<1>7. \A k \in 1 .. end : k \in Nat \ {0} /\ k <= j + 1 - i
  BY <1>3
<1>8. DOMAIN Found(q, i, j) = 1 .. end
      /\ \A k \in 1 .. end : Found(q, i, j)[k] = [query |-> q, page |-> i + k - 1]
  BY <1>4
<1> QED  BY <1>6, <1>7, <1>8

\* Rows that are appended to an ascending list come after it.
LEMMA Continued ==
    ASSUME NEW q \in Query, NEW p \in Nat \ {0}, NEW l \in Seq(Row), Ascends(l, p)
    PROVE  /\ l \o Found(q, p, p) \in Seq(Row)
           /\ Ascends(l \o Found(q, p, p), p + 1)
           /\ OfText(l, q.text) => OfText(l \o Found(q, p, p), q.text)
<1> DEFINE f == Found(q, p, p)
           c == l \o f
<1>1. f \in Seq(Row) /\ \A k \in DOMAIN f : k = 1 /\ f[k] = [query |-> q, page |-> p]
  BY FoundFacts
<1> HIDE DEF f
<1>2. c \in Seq(Row) /\ Len(c) = Len(l) + Len(f)
  BY <1>1
<1>3. DOMAIN f = 1 .. Len(f) /\ Len(f) \in Nat /\ DOMAIN l = 1 .. Len(l) /\ Len(l) \in Nat
      /\ DOMAIN c = 1 .. Len(c)
  BY <1>1, <1>2
<1>4. Len(f) <= 1
  BY <1>1, <1>3
<1>5. ASSUME NEW k \in DOMAIN c
      PROVE  \/ k \in DOMAIN l /\ c[k] = l[k]
             \/ k = Len(l) + 1 /\ c[k] = [query |-> q, page |-> p]
  <2>1. CASE k <= Len(l)
    BY <1>1, <1>2, <1>3, <2>1
  <2>2. CASE ~(k <= Len(l))
    <3>1. k = Len(l) + 1 /\ 1 \in DOMAIN f
      BY <1>2, <1>3, <1>4, <2>2
    <3>2. c[k] = f[1]
      BY <1>1, <1>2, <1>3, <3>1
    <3> QED  BY <1>1, <3>1, <3>2
  <2> QED  BY <2>1, <2>2
<1> HIDE DEF c
<1>6. \A i \in DOMAIN l : l[i].page \in Nat /\ i \in Nat /\ i <= Len(l)
  <2>1. \A i \in DOMAIN l : l[i] \in Row
    BY <1>3, ElementOfSeq
  <2> QED  BY <1>3, <2>1 DEF Row
<1>7. Ascends(c, p + 1)
  <2>1. \A i \in DOMAIN c : c[i].page < p + 1
    BY <1>5, <1>6 DEF Ascends
  <2>2. ASSUME NEW i \in DOMAIN c, NEW j \in DOMAIN c, i < j
        PROVE  c[i].page < c[j].page
    BY <1>5, <1>6, <2>2 DEF Ascends
  <2> QED  BY <2>1, <2>2 DEF Ascends
<1>8. OfText(l, q.text) => OfText(c, q.text)
  BY <1>5 DEF OfText
<1> QED  BY <1>2, <1>7, <1>8 DEF c, f

\* setFreelancers makes a new array and leaves the others alone.
LEMMA ShowsFacts ==
    ASSUME TypeOK, NEW rows \in Seq(Row), Shows(rows)
    PROVE  /\ heap' \in Seq(Seq(Row)) /\ freelancers' \in DOMAIN heap'
           /\ Rows' = rows
           /\ \A a \in DOMAIN heap : a \in DOMAIN heap' /\ heap'[a] = heap[a]
<1>1. heap \in Seq(Seq(Row)) /\ heap' = Append(heap, rows) /\ freelancers' = Len(heap) + 1
  BY DEF TypeOK, Shows
<1> QED  BY <1>1 DEF Rows

\* Emptying an array in place is seen by everyone who holds it.
LEMMA EmptiedFacts ==
    ASSUME TypeOK
    PROVE  /\ Emptied \in Seq(Seq(Row)) /\ DOMAIN Emptied = DOMAIN heap
           /\ Emptied[freelancers] = <<>>
           /\ \A a \in DOMAIN heap : Emptied[a] = <<>> \/ Emptied[a] = heap[a]
<1>1. heap \in Seq(Seq(Row)) /\ freelancers \in DOMAIN heap
  BY DEF TypeOK
<1>2. DOMAIN Emptied = DOMAIN heap
  BY DEF Emptied
<1>3. \A a \in DOMAIN heap : Emptied[a] = IF a = freelancers THEN <<>> ELSE heap[a]
  BY DEF Emptied
<1>4. \A a \in DOMAIN heap : Emptied[a] \in Seq(Row)
  <2>1. \A a \in DOMAIN heap : heap[a] \in Seq(Row)
    BY <1>1, ElementOfSeq
  <2> QED  BY <1>3, <2>1, EmptySeq
<1>5. Emptied \in Seq(Seq(Row))
  <2>1. DOMAIN heap = 1 .. Len(heap) /\ Len(heap) \in Nat
    BY <1>1
  <2>2. Emptied = [a \in 1 .. Len(heap) |-> Emptied[a]]
    BY <1>2, <2>1 DEF Emptied
  <2> QED  BY <1>4, <2>1, <2>2
<1> QED  BY <1>1, <1>2, <1>3, <1>5

LEMMA EmptyFacts == \A p, t : Ascends(<<>>, p) /\ OfText(<<>>, t)
BY DEF Ascends, OfText

-----------------------------------------------------------------------------
(* The actions                                                             *)

LEMMA InitInv == Init => Inv
<1> SUFFICES ASSUME Init PROVE Inv
  OBVIOUS
<1>1. search \in Search /\ search.types \in Types
  BY DEF Init, Search, Types
<1>2. First(1, search) \in Request /\ ~First(1, search).more /\ First(1, search).n = 1
      /\ First(1, search).query = search
  BY <1>1 DEF First, Request, Query, Search, Types
<1>3. net = {First(1, search)} /\ sent = 1 /\ hist = {} /\ page = 3
      /\ heap = << <<>> >> /\ freelancers = 1
  BY DEF Init
<1>4. heap \in Seq(Seq(Row)) /\ freelancers \in DOMAIN heap /\ Rows = <<>>
  BY <1>3 DEF Rows
<1>5. TypeOK
  <2>1. freelancerSpinner = TRUE /\ loader = FALSE
    BY DEF Init
  <2>2. net \subseteq Request /\ sent \in Nat /\ hist \subseteq Reasons /\ page \in Nat
    BY <1>2, <1>3
  <2> QED  BY <1>1, <1>4, <2>1, <2>2 DEF TypeOK
<1>6. Numbered
  BY <1>2, <1>3 DEF Numbered
<1>7. Ordered
  BY <1>2, <1>3, <1>4, EmptyFacts DEF Ordered
<1>8. Asked
  BY <1>2, <1>3 DEF Asked
<1>9. Current
  BY <1>2, <1>3, <1>4, EmptyFacts DEF Current
<1> QED  BY <1>5, <1>6, <1>7, <1>8, <1>9 DEF Inv

\* A new search: every request that is in flight is older than its first fetch.
LEMMA FocusInv == ASSUME Inv, NEW s \in Search, Focus(s) PROVE Inv'
<1> DEFINE f == First(sent', s)
<1>1. TypeOK /\ Numbered /\ Ordered /\ sent \in Nat /\ sent' = sent + 1
  BY DEF Inv, TypeOK, Focus, Room
<1>2. /\ search' = s /\ heap' = Emptied /\ net' = net \union {f}
      /\ hist' = hist \ {"landed"} /\ freelancerSpinner' = TRUE
      /\ freelancers' = freelancers /\ page' = page /\ loader' = loader
  BY DEF Focus
<1>3. f \in Request /\ ~f.more /\ f.n = sent + 1 /\ f.query = s
  BY <1>1 DEF First, Request, Query, Search, Types
<1> HIDE DEF f
<1>4. heap' \in Seq(Seq(Row)) /\ DOMAIN heap' = DOMAIN heap /\ Rows' = <<>>
      /\ \A a \in DOMAIN heap : heap'[a] = <<>> \/ heap'[a] = heap[a]
  BY <1>1, <1>2, EmptiedFacts DEF Rows
<1>5. TypeOK'
  BY <1>1, <1>2, <1>3, <1>4 DEF TypeOK
<1>6. \A m \in net : m.n \in Nat /\ m.n < f.n
  BY <1>1, <1>3 DEF TypeOK, Numbered, Request
<1>7. Numbered'
  BY <1>1, <1>2, <1>3, <1>6 DEF Numbered
<1>8. Ordered'
  BY <1>1, <1>2, <1>3, <1>4, EmptyFacts DEF Ordered
<1>9. f \in Firsts' /\ \A m \in net : ~Newest(m)'
  <2>1. f \in Firsts'
    BY <1>2, <1>3 DEF Firsts
  <2>2. \A m \in net : ~(f.n <= m.n)
    BY <1>1, <1>3, <1>6
  <2> QED  BY <2>1, <2>2 DEF Newest
<1>10. Asked'
  BY <1>2, <1>3, <1>9 DEF Asked
<1>11. Current'
  BY <1>2, <1>3, <1>4, <1>9, EmptyFacts DEF Current
<1> QED  BY <1>5, <1>7, <1>8, <1>10, <1>11 DEF Inv

\* A request for more captures the list, which is as it should be.
LEMMA LoadMoreInv == ASSUME Inv, LoadMoreData PROVE Inv'
<1> DEFINE f == [n |-> sent', more |-> TRUE, page |-> page, list |-> freelancers,
                 query |-> [text |-> search.text, types |-> "undefined"]]
<1>1. TypeOK /\ Numbered /\ Ordered /\ Asked /\ Current /\ sent \in Nat /\ sent' = sent + 1
  BY DEF Inv, TypeOK, LoadMoreData, Room
<1>2. /\ net' = net \union {f} /\ loader' = TRUE
      /\ UNCHANGED <<search, heap, freelancers, page, freelancerSpinner, hist>>
  BY DEF LoadMoreData
<1>3. freelancers \in Nat
  BY <1>1 DEF TypeOK
<1>4. f \in Request /\ f.more /\ f.n = sent + 1 /\ f.query.text = search.text
      /\ f.list = freelancers /\ f.page = page
  BY <1>1, <1>3 DEF TypeOK, Request, Query, Search, Types
<1> HIDE DEF f
<1>5. TypeOK'
  BY <1>1, <1>2, <1>4 DEF TypeOK
<1>6. \A m \in net : m.n \in Nat /\ m.n < f.n
  BY <1>1, <1>4 DEF TypeOK, Numbered, Request
<1>7. Numbered'
  BY <1>1, <1>2, <1>4, <1>6 DEF Numbered
<1>8. Rows' = Rows /\ Rows = heap[freelancers] /\ freelancers \in DOMAIN heap
  BY <1>1, <1>2 DEF Rows, TypeOK
<1>9. Ordered'
  BY <1>1, <1>2, <1>4, <1>8 DEF Ordered
<1>10. Firsts' = Firsts /\ Fetching' = Fetching /\ \A m : Newest(m)' = Newest(m)
  BY <1>2, <1>4 DEF Firsts, Fetching, Newest
<1>11. Asked'
  BY <1>1, <1>2, <1>4, <1>10 DEF Asked, Clean
<1>12. Current'
  BY <1>1, <1>2, <1>4, <1>8, <1>10 DEF Current
<1> QED  BY <1>5, <1>7, <1>9, <1>11, <1>12 DEF Inv

\* The answer of a first fetch.  When it was not overtaken nothing older is left.
LEMMA FirstInv == ASSUME Inv, NEW m \in net, DeliverFirst(m) PROVE Inv'
<1> DEFINE rows == Found(m.query, 1, 2)
<1>1. TypeOK /\ Numbered /\ Ordered /\ Asked /\ Current
  BY DEF Inv
<1>2. ~m.more /\ net' = net \ {m} /\ search' = search /\ page' = page /\ loader' = loader
      /\ sent' = sent /\ freelancerSpinner' = FALSE
  BY DEF DeliverFirst
<1>3. IF rows = <<>> THEN UNCHANGED <<heap, freelancers>> ELSE Shows(rows)
  BY DEF DeliverFirst
<1>4. hist' = Crossed(m) \union
                (IF rows = <<>> THEN hist
                 ELSE IF net = {m} THEN hist \ {"landed"}
                 ELSE IF Firsts = {m} THEN hist ELSE hist \union {"landed"})
  BY DEF DeliverFirst
<1>5. m \in Request /\ m.query \in Query
  BY <1>1 DEF TypeOK, Request
<1>6. rows \in Seq(Row) /\ Ascends(rows, 3) /\ OfText(rows, m.query.text)
  <2>1. rows \in Seq(Row)
        /\ \A k \in DOMAIN rows : k \in Nat \ {0} /\ k <= 2
                                /\ rows[k] = [query |-> m.query, page |-> k]
    BY <1>5, FoundFacts
  <2> HIDE DEF rows
  <2> QED  BY <2>1 DEF Ascends, OfText
<1> HIDE DEF rows
<1>7. /\ heap' \in Seq(Seq(Row)) /\ freelancers' \in DOMAIN heap'
      /\ Rows' = IF rows = <<>> THEN Rows ELSE rows
      /\ \A a \in DOMAIN heap : a \in DOMAIN heap' /\ heap'[a] = heap[a]
  <2>1. CASE rows = <<>>
    BY <1>1, <1>3, <2>1 DEF TypeOK, Rows
  <2>2. CASE rows # <<>>
    BY <1>1, <1>3, <1>6, <2>2, ShowsFacts
  <2> QED  BY <2>1, <2>2
<1>8. Crossed(m) \subseteq Reasons /\ hist' \subseteq Reasons
  <2>1. Crossed(m) \subseteq Reasons /\ "landed" \in Reasons
    BY DEF Crossed, Reasons
  <2> QED  BY <1>1, <1>4, <2>1 DEF TypeOK
<1>9. TypeOK'
  BY <1>1, <1>2, <1>7, <1>8 DEF TypeOK
<1>10. Numbered'
  BY <1>1, <1>2 DEF Numbered
<1>11. Ordered'
  <2>1. page >= 3 /\ page \in Nat /\ Ascends(Rows, page)
    BY <1>1 DEF Ordered, TypeOK
  <2>2. \A k \in DOMAIN rows : rows[k].page \in Nat
    <3>1. \A k \in DOMAIN rows : rows[k] \in Row
      BY <1>6, ElementOfSeq
    <3> QED  BY <3>1 DEF Row
  <2>3. Ascends(rows, page)
    BY <1>6, <2>1, <2>2 DEF Ascends
  <2>4. Ascends(Rows', page)
    BY <1>7, <2>1, <2>3
  <2>5. \A o \in net' : o.more =>
            o.page >= 3 /\ o.list \in DOMAIN heap' /\ Ascends(heap'[o.list], o.page)
    BY <1>1, <1>2, <1>7 DEF Ordered
  <2> QED  BY <1>2, <2>1, <2>4, <2>5 DEF Ordered
\* Unless it overtook one, the requests left are newer, and the newest first fetch
\* is what they are newer than.
<1>12. ASSUME Crossed(m) = {}
       PROVE  \A o \in net' : Newest(o)' => Newest(o)
  <2>1. \A o \in net : m.n <= o.n
    <3>1. ~(\E o \in net : o.n < m.n)
      BY <1>12 DEF Crossed
    <3>2. \A o \in net : o.n \in Nat
      BY <1>1 DEF TypeOK, Request
    <3> QED  BY <3>1, <3>2
  <2>2. ASSUME NEW o \in net', Newest(o)', NEW p \in Firsts PROVE p.n <= o.n
    <3>1. CASE p = m
      BY <1>2, <2>1, <3>1
    <3>2. CASE p # m
      <4>1. p \in Firsts'
        BY <1>2, <3>2 DEF Firsts
      <4> QED  BY <2>2, <4>1 DEF Newest
    <3> QED  BY <3>1, <3>2
  <2> QED  BY <2>2 DEF Newest
<1>13. Clean' => Crossed(m) = {} /\ Clean
  BY <1>4 DEF Clean, Crossed
<1>14. Asked'
  BY <1>1, <1>2, <1>12, <1>13 DEF Asked
<1>15. ASSUME hist' = {} PROVE Crossed(m) = {} /\ (hist = {} \/ (net = {m} /\ rows # <<>>))
                              /\ Clean /\ (Fetching' => rows = <<>>)
  <2>1. Crossed(m) = {} /\ Clean /\ (hist = {} \/ (net = {m} /\ rows # <<>>))
    <3>1. Crossed(m) = {}
      BY <1>4, <1>15
    <3>2. CASE rows = <<>>
      BY <1>4, <1>15, <3>1, <3>2 DEF Clean
    <3>3. CASE rows # <<>> /\ net = {m}
      BY <1>4, <1>15, <3>1, <3>3 DEF Clean
    <3>4. CASE rows # <<>> /\ net # {m}
      BY <1>4, <1>15, <3>1, <3>4 DEF Clean
    <3> QED  BY <3>2, <3>3, <3>4
  <2>2. ASSUME rows # <<>> PROVE ~Fetching'
    <3>1. net = {m} \/ Firsts = {m}
      BY <1>4, <1>15, <2>2
    <3> QED  BY <1>2, <3>1 DEF Fetching, Firsts
  <2> QED  BY <2>1, <2>2
<1>16. ASSUME hist' = {} PROVE (Newest(m) /\ m.query.text = search.text) \/ Fetching'
  <2>1. ASSUME ~Fetching' PROVE Newest(m)
    <3>1. Firsts \subseteq {m}
      BY <1>2, <2>1 DEF Fetching, Firsts
    <3>2. m.n <= m.n
      BY <1>5 DEF Request
    <3> QED  BY <3>1, <3>2 DEF Newest
  <2> QED  BY <1>1, <1>15, <1>16, <2>1 DEF Asked
<1>17. ASSUME hist' = {}
       PROVE  /\ Fetching' => Rows' = <<>>
              /\ OfText(Rows', search.text)
              /\ \A o \in net' : o.more /\ Newest(o)' => OfText(heap'[o.list], search.text)
  <2>1. CASE rows = <<>>
    <3>1. hist = {} /\ Fetching
      BY <1>2, <1>15, <1>17, <2>1 DEF Fetching, Firsts
    <3>2. Rows = <<>> /\ Rows' = <<>>
      BY <1>1, <1>7, <2>1, <3>1 DEF Current
    <3>3. \A o \in net' : o.more /\ Newest(o)' => OfText(heap'[o.list], search.text)
      BY <1>1, <1>2, <1>7, <1>12, <1>15, <1>17, <3>1 DEF Current, Ordered
    <3> QED  BY <3>2, <3>3, EmptyFacts
  <2>2. CASE rows # <<>>
    <3>1. Rows' = rows /\ ~Fetching' /\ m.query.text = search.text
      BY <1>7, <1>15, <1>16, <1>17, <2>2
    <3>2. \A o \in net' : o.more /\ Newest(o)' => OfText(heap'[o.list], search.text)
      BY <1>1, <1>2, <1>7, <1>12, <1>15, <1>17 DEF Current, Ordered
    <3> QED  BY <1>6, <3>1, <3>2
  <2> QED  BY <2>1, <2>2
<1>18. Current'
  BY <1>2, <1>17 DEF Current
<1> QED  BY <1>9, <1>10, <1>11, <1>14, <1>18 DEF Inv

\* The answer of a request for more: while a first fetch is in flight it lands,
\* and after it, it continues a list of the search.
LEMMA MoreInv == ASSUME Inv, NEW m \in net, DeliverMore(m) PROVE Inv'
<1> DEFINE l == heap[m.list]
           rows == l \o Found(m.query, m.page, m.page)
<1>1. TypeOK /\ Numbered /\ Ordered /\ Asked /\ Current
  BY DEF Inv
<1>2. m.more /\ net' = net \ {m} /\ search' = search /\ page' = m.page + 1
      /\ loader' = FALSE /\ sent' = sent /\ freelancerSpinner' = freelancerSpinner
  BY DEF DeliverMore
<1>3. Shows(rows) /\ hist' = hist \union (IF Fetching THEN {"landed"} ELSE {})
  BY DEF DeliverMore
<1>4. m \in Request /\ m.query \in Query /\ m.page \in Nat \ {0} /\ m.page >= 3
      /\ l \in Seq(Row) /\ Ascends(l, m.page)
  BY <1>1, <1>2, ElementOfSeq DEF TypeOK, Request, Ordered
<1>5. rows \in Seq(Row) /\ Ascends(rows, m.page + 1)
      /\ (OfText(l, m.query.text) => OfText(rows, m.query.text))
  BY <1>4, Continued
<1> HIDE DEF rows
<1>6. /\ heap' \in Seq(Seq(Row)) /\ freelancers' \in DOMAIN heap' /\ Rows' = rows
      /\ \A a \in DOMAIN heap : a \in DOMAIN heap' /\ heap'[a] = heap[a]
  BY <1>1, <1>3, <1>5, ShowsFacts
<1>7. TypeOK'
  <2>1. hist' \subseteq Reasons
    <3>1. hist \subseteq Reasons /\ "landed" \in Reasons
      BY <1>1 DEF TypeOK, Reasons
    <3> QED  BY <1>3, <3>1
  <2>2. page' \in Nat
    BY <1>2, <1>4
  <2>3. loader' \in BOOLEAN
    BY <1>2
  <2> QED  BY <1>1, <1>2, <1>6, <2>1, <2>2, <2>3 DEF TypeOK
<1>8. Numbered'
  BY <1>1, <1>2 DEF Numbered
<1>9. Ordered'
  <2>1. page' >= 3 /\ Ascends(Rows', page')
    BY <1>2, <1>4, <1>5, <1>6
  <2>2. \A o \in net' : o.more =>
            o.page >= 3 /\ o.list \in DOMAIN heap' /\ Ascends(heap'[o.list], o.page)
    BY <1>1, <1>2, <1>6 DEF Ordered
  <2> QED  BY <2>1, <2>2 DEF Ordered
<1>10. Firsts' = Firsts /\ Fetching' = Fetching /\ \A o : Newest(o)' = Newest(o)
  BY <1>2 DEF Firsts, Fetching, Newest
<1>11. Clean' => Clean
  BY <1>3 DEF Clean
<1>12. Asked'
  BY <1>1, <1>2, <1>10, <1>11 DEF Asked
<1>13. ASSUME hist' = {}
       PROVE  /\ ~Fetching' /\ OfText(Rows', search.text)
              /\ \A o \in net' : o.more /\ Newest(o)' => OfText(heap'[o.list], search.text)
  <2>1. hist = {} /\ ~Fetching /\ Clean
    BY <1>3, <1>13 DEF Clean
  <2>2. Newest(m)
    BY <2>1 DEF Newest, Fetching
  <2>3. m.query.text = search.text /\ OfText(l, search.text)
    BY <1>1, <1>2, <2>1, <2>2 DEF Asked, Current
  <2>4. \A o \in net' : o.more /\ Newest(o)' => OfText(heap'[o.list], search.text)
    BY <1>1, <1>2, <1>6, <1>10, <2>1 DEF Current, Ordered
  <2> QED  BY <1>5, <1>6, <1>10, <2>1, <2>3, <2>4
<1>14. Current'
  BY <1>2, <1>13 DEF Current
<1> QED  BY <1>7, <1>8, <1>9, <1>12, <1>14 DEF Inv

\* After a failure nothing is claimed but the order.
LEMMA FailInv == ASSUME Inv, NEW m \in net, Fail(m) PROVE Inv'
<1>1. TypeOK /\ Numbered /\ Ordered
  BY DEF Inv
<1>2. net' = net \ {m} /\ hist' = hist \union {"failed"}
      /\ UNCHANGED <<search, heap, freelancers, page, freelancerSpinner, loader, sent>>
  BY DEF Fail
<1>3. TypeOK'
  <2>1. hist' \subseteq Reasons
    BY <1>1, <1>2 DEF TypeOK, Reasons
  <2> QED  BY <1>1, <1>2, <2>1 DEF TypeOK
<1>4. Numbered'
  BY <1>1, <1>2 DEF Numbered
<1>5. Ordered'
  BY <1>1, <1>2 DEF Ordered, Rows
<1>6. Asked' /\ Current'
  BY <1>2 DEF Asked, Clean, Current
<1> QED  BY <1>3, <1>4, <1>5, <1>6 DEF Inv

LEMMA StepInv == Inv /\ [Next]_vars => Inv'
<1> SUFFICES ASSUME Inv, [Next]_vars PROVE Inv'
  OBVIOUS
<1>1. CASE UNCHANGED vars
  BY <1>1 DEF vars, Inv, TypeOK, Numbered, Ordered, Asked, Current, Clean, Newest,
              Firsts, Fetching, Rows
<1>2. ASSUME NEW s \in Search, Focus(s) PROVE Inv'
  BY <1>2, FocusInv
<1>3. CASE LoadMoreData
  BY <1>3, LoadMoreInv
<1>4. ASSUME NEW m \in net, DeliverFirst(m) \/ DeliverMore(m) \/ Fail(m) PROVE Inv'
  BY <1>4, FirstInv, MoreInv, FailInv
<1> QED  BY <1>1, <1>2, <1>3, <1>4 DEF Next

-----------------------------------------------------------------------------
\* What holds of the list holds of the arrays that requests for more captured
\* (freelancers in loadMoreData's closure).
THEOREM ArraysSound == Spec => []Inv
<1> QED  BY InitInv, StepInv, PTL DEF Spec

\* Type correctness of the sellers' list: a captured array exists.
THEOREM TypeCorrect == Spec => []TypeOK
<1>1. Inv => TypeOK
  BY DEF Inv
<1> QED  BY <1>1, ArraysSound, PTL

\* The freelancers listed are those of the search (searchResult.js: the effect on
\* isFocused, getFreelancers and loadMoreData), each once, for any number of
\* requests answered in any order or lost, with the exceptions named.
THEOREM SellersOfSearch == Spec => []ResultsOfSearch
<1>1. Inv => ResultsOfSearch
  BY DEF Inv, Ordered, Current, Ascends, OfText, ResultsOfSearch
<1> QED  BY <1>1, ArraysSound, PTL

-----------------------------------------------------------------------------
(* SavedItems.  Numbers and sequences                                      *)

\* The operators of FiniteSets in the instance are those of the module.
LEMMA SavedFinite == \A S : Saved!IsFiniteSet(S) <=> IsFiniteSet(S)
BY DEF Saved!IsFiniteSet, IsFiniteSet

LEMMA SavedCardinality == \A S : Saved!Cardinality(S) = Cardinality(S)
BY DEF Saved!Cardinality, Cardinality

\* A set of numbers has a least one.
LEMMA SavedSmallest ==
    ASSUME NEW T \in SUBSET Nat, T # {}
    PROVE  \E x \in T : \A y \in T : x <= y
<1> DEFINE R == OpToRel(<, Nat)
<1>1. IsWellFoundedOn(R, Nat)
  BY NatLessThanWellFounded
<1> HIDE DEF R
<1>2. PICK x \in T : \A y \in T : ~(<<y, x>> \in R)
  BY <1>1, WFMin
<1>3. \A y \in T : ~(y < x)
  BY <1>2 DEF R, OpToRel
<1>4. \A y \in T : x <= y
  BY <1>3
<1> QED
  BY <1>4

\* Induction over the numbers in a set.
LEMMA SavedNatsInSet ==
    ASSUME NEW T \in SUBSET Nat, 0 \in T, \A n \in T : n + 1 \in T
    PROVE  T = Nat
<1> SUFFICES ASSUME NEW k \in Nat, k \notin T PROVE FALSE
  OBVIOUS
<1> DEFINE U == Nat \ T
<1>1. PICK x \in U : \A y \in U : x <= y
  <2>1. U \in SUBSET Nat /\ U # {}
    OBVIOUS
  <2> HIDE DEF U
  <2> QED BY <2>1, SavedSmallest
<1>2. x # 0 /\ x - 1 \in Nat
  OBVIOUS
<1>3. x - 1 \in T
  BY <1>1, <1>2
<1> QED
  BY <1>1, <1>2, <1>3

\* f is Without for the first n items of s and all fewer.
SavedIsKept(f, s, p, n) ==
    /\ f = [i \in 0 .. n |-> f[i]] /\ f[0] = <<>>
    /\ \A i \in 1 .. n :
          f[i] = IF s[i] = p THEN f[i - 1] ELSE Append(f[i - 1], s[i])

LEMMA SavedKeptIs ==
    ASSUME NEW f, NEW s, NEW p, NEW n \in Nat
    PROVE  SavedIsKept(f, s, p, n) <=>
              f = [i \in 0 .. n |->
                      IF i = 0 THEN <<>>
                      ELSE IF s[i] = p THEN f[i - 1] ELSE Append(f[i - 1], s[i])]
<1> DEFINE g == [i \in 0 .. n |->
                      IF i = 0 THEN <<>>
                      ELSE IF s[i] = p THEN f[i - 1] ELSE Append(f[i - 1], s[i])]
<1>1. ASSUME SavedIsKept(f, s, p, n) PROVE f = g
  <2>1. \A i \in 0 .. n : i = 0 \/ i \in 1 .. n
    OBVIOUS
  <2>2. \A i \in 0 .. n : f[i] = g[i]
    BY <1>1, <2>1 DEF SavedIsKept
  <2> QED
    BY <1>1, <2>2 DEF SavedIsKept
<1>2. ASSUME f = g PROVE SavedIsKept(f, s, p, n)
  <2>1. f = [i \in 0 .. n |-> f[i]]
    BY <1>2
  <2>2. f[0] = <<>>
    BY <1>2
  <2>3. \A i \in 1 .. n : i \in 0 .. n /\ i # 0
    OBVIOUS
  <2>4. ASSUME NEW i \in 1 .. n
        PROVE  f[i] = IF s[i] = p THEN f[i - 1] ELSE Append(f[i - 1], s[i])
    <3>1. f[i] = g[i]
      BY <1>2
    <3>2. g[i] = IF s[i] = p THEN f[i - 1] ELSE Append(f[i - 1], s[i])
      BY <2>3
    <3> HIDE DEF g
    <3> QED BY <3>1, <3>2
  <2> HIDE DEF g
  <2> QED BY <2>1, <2>2, <2>4 DEF SavedIsKept
<1> QED BY <1>1, <1>2

LEMMA SavedKeptExists ==
    ASSUME NEW S, NEW s \in Seq(S), NEW p
    PROVE  \A n \in Nat : \E f : SavedIsKept(f, s, p, n)
<1> DEFINE T == {n \in Nat : \E f : SavedIsKept(f, s, p, n)}
<1>1. 0 \in T
  <2>1. SavedIsKept([i \in 0 .. 0 |-> <<>>], s, p, 0)
    BY DEF SavedIsKept
  <2> QED BY <2>1
<1>2. ASSUME NEW n \in T PROVE n + 1 \in T
  <2>1. PICK f : SavedIsKept(f, s, p, n)
    OBVIOUS
  <2> DEFINE g == [i \in 0 .. n + 1 |->
                    IF i = n + 1 THEN IF s[n + 1] = p THEN f[n] ELSE Append(f[n], s[n + 1])
                    ELSE f[i]]
  <2>2. SavedIsKept(g, s, p, n + 1)
    <3>1. g = [i \in 0 .. n + 1 |-> g[i]] /\ g[0] = <<>>
      BY <2>1 DEF SavedIsKept
    <3>2. ASSUME NEW i \in 1 .. n + 1
          PROVE  g[i] = IF s[i] = p THEN g[i - 1] ELSE Append(g[i - 1], s[i])
      <4>1. CASE i = n + 1
        <5>1. g[i] = IF s[i] = p THEN f[n] ELSE Append(f[n], s[i])
          BY <4>1
        <5>2. g[i - 1] = f[n]
          BY <4>1
        <5> HIDE DEF g
        <5> QED BY <5>1, <5>2
      <4>2. CASE i # n + 1
        <5>1. i \in 1 .. n /\ g[i] = f[i] /\ g[i - 1] = f[i - 1]
          BY <4>2
        <5> HIDE DEF g
        <5> QED BY <2>1, <5>1 DEF SavedIsKept
      <4> QED BY <4>1, <4>2
    <3> HIDE DEF g
    <3> QED BY <3>1, <3>2 DEF SavedIsKept
  <2> QED BY <2>2
<1> HIDE DEF T
<1>3. T = Nat
  <2>1. T \in SUBSET Nat
    BY DEF T
  <2> QED BY <1>1, <1>2, <2>1, SavedNatsInSet
<1> QED BY <1>3 DEF T

LEMMA SavedWithoutIsKept ==
    ASSUME NEW S, NEW s \in Seq(S), NEW p
    PROVE  \E f : SavedIsKept(f, s, p, Len(s)) /\ Saved!Without(s, p) = f[Len(s)]
<1> DEFINE f == CHOOSE g : g = [i \in 0 .. Len(s) |->
                      IF i = 0 THEN <<>>
                      ELSE IF s[i] = p THEN g[i - 1] ELSE Append(g[i - 1], s[i])]
<1>1. Len(s) \in Nat
  OBVIOUS
<1>2. PICK g : SavedIsKept(g, s, p, Len(s))
  BY <1>1, SavedKeptExists
<1>3. g = [i \in 0 .. Len(s) |->
              IF i = 0 THEN <<>>
              ELSE IF s[i] = p THEN g[i - 1] ELSE Append(g[i - 1], s[i])]
  BY <1>1, <1>2, SavedKeptIs
<1>4. f = [i \in 0 .. Len(s) |->
              IF i = 0 THEN <<>>
              ELSE IF s[i] = p THEN f[i - 1] ELSE Append(f[i - 1], s[i])]
  BY <1>3
<1>5. Saved!Without(s, p) = f[Len(s)]
  BY DEF Saved!Without
<1> HIDE DEF f
<1>6. SavedIsKept(f, s, p, Len(s))
  BY <1>1, <1>4, SavedKeptIs
<1> QED BY <1>5, <1>6

\* No item twice.
SavedDistinct(s) == \A i, j \in DOMAIN s : s[i] = s[j] => i = j

LEMMA SavedAppendItems ==
    ASSUME NEW S, NEW s \in Seq(S), NEW x \in S
    PROVE  /\ Append(s, x) \in Seq(S)
           /\ Saved!Items(Append(s, x)) = Saved!Items(s) \union {x}
           /\ SavedDistinct(s) /\ x \notin Saved!Items(s) => SavedDistinct(Append(s, x))
<1> DEFINE a == Append(s, x)
<1>1. /\ a \in Seq(S) /\ DOMAIN a = 1 .. Len(s) + 1 /\ DOMAIN s = 1 .. Len(s)
      /\ \A i \in 1 .. Len(s) : a[i] = s[i]
      /\ a[Len(s) + 1] = x /\ Len(s) \in Nat
  OBVIOUS
<1> HIDE DEF a
<1>2. DOMAIN a = DOMAIN s \union {Len(s) + 1}
  BY <1>1
<1>3. Saved!Items(a) = Saved!Items(s) \union {x}
  BY <1>1, <1>2 DEF Saved!Items
<1>4. ASSUME SavedDistinct(s), x \notin Saved!Items(s) PROVE SavedDistinct(a)
  <2> SUFFICES ASSUME NEW i \in DOMAIN a, NEW j \in DOMAIN a, a[i] = a[j] PROVE i = j
    BY DEF SavedDistinct
  <2>1. CASE i \in DOMAIN s /\ j \in DOMAIN s
    BY <1>1, <1>4, <2>1 DEF SavedDistinct
  <2>2. CASE i \in DOMAIN s /\ j = Len(s) + 1
    BY <1>1, <1>4, <2>2 DEF Saved!Items
  <2>3. CASE i = Len(s) + 1 /\ j \in DOMAIN s
    BY <1>1, <1>4, <2>3 DEF Saved!Items
  <2> QED
    BY <1>2, <2>1, <2>2, <2>3
<1> QED
  BY <1>1, <1>3, <1>4 DEF a

\* What Without keeps.
LEMMA SavedWithoutItems ==
    ASSUME NEW S, NEW s \in Seq(S), NEW p
    PROVE  /\ Saved!Without(s, p) \in Seq(S)
           /\ Saved!Items(Saved!Without(s, p)) = Saved!Items(s) \ {p}
           /\ SavedDistinct(s) => SavedDistinct(Saved!Without(s, p))
<1>1. PICK f : SavedIsKept(f, s, p, Len(s)) /\ Saved!Without(s, p) = f[Len(s)]
  BY SavedWithoutIsKept
<1> DEFINE Till(n) == {s[i] : i \in 1 .. n}
           Good(n) == /\ f[n] \in Seq(S)
                      /\ Saved!Items(f[n]) = Till(n) \ {p}
                      /\ SavedDistinct(s) => SavedDistinct(f[n])
           T == {n \in Nat : n <= Len(s) => Good(n)}
<1>2. Len(s) \in Nat /\ DOMAIN s = 1 .. Len(s)
  OBVIOUS
<1>3. 0 \in T
  <2>1. f[0] = <<>>
    BY <1>1 DEF SavedIsKept
  <2>2. Saved!Items(<<>>) = {} /\ SavedDistinct(<<>>)
    BY DEF Saved!Items, SavedDistinct
  <2>3. Till(0) = {}
    OBVIOUS
  <2>4. <<>> \in Seq(S)
    OBVIOUS
  <2> QED
    BY <2>1, <2>2, <2>3, <2>4
<1>4. ASSUME NEW n \in T PROVE n + 1 \in T
  <2> SUFFICES ASSUME n + 1 <= Len(s) PROVE Good(n + 1)
    OBVIOUS
  <2>1. Good(n)
    BY <1>2
  <2>2. n + 1 \in 1 .. Len(s) /\ (n + 1) - 1 = n
    BY <1>2
  <2>3. f[n + 1] = IF s[n + 1] = p THEN f[n] ELSE Append(f[n], s[n + 1])
    BY <1>1, <2>2 DEF SavedIsKept
  <2>4. s[n + 1] \in S
    BY <2>2
  <2>5. Till(n + 1) = Till(n) \union {s[n + 1]}
    <3>1. 1 .. n + 1 = (1 .. n) \union {n + 1}
      OBVIOUS
    <3> QED BY <3>1
  <2>6. CASE s[n + 1] = p
    <3>1. f[n + 1] = f[n]
      BY <2>3, <2>6
    <3>2. Till(n + 1) \ {p} = Till(n) \ {p}
      BY <2>5, <2>6
    <3> HIDE DEF Till
    <3> QED
      BY <2>1, <3>1, <3>2
  <2>7. CASE s[n + 1] # p
    <3>1. f[n + 1] = Append(f[n], s[n + 1])
      BY <2>3, <2>7
    <3>2. Till(n + 1) \ {p} = (Till(n) \ {p}) \union {s[n + 1]}
      BY <2>5, <2>7
    <3>3. SavedDistinct(s) => s[n + 1] \notin Till(n)
      BY <1>2, <2>2 DEF SavedDistinct
    <3> HIDE DEF Till
    <3>4. f[n] \in Seq(S) /\ Saved!Items(f[n]) = Till(n) \ {p}
      BY <2>1
    <3>5. Append(f[n], s[n + 1]) \in Seq(S)
          /\ Saved!Items(Append(f[n], s[n + 1])) = Saved!Items(f[n]) \union {s[n + 1]}
          /\ (SavedDistinct(f[n]) /\ s[n + 1] \notin Saved!Items(f[n]) => SavedDistinct(Append(f[n], s[n + 1])))
      BY <2>4, <3>4, SavedAppendItems
    <3> QED
      BY <2>1, <3>1, <3>2, <3>3, <3>4, <3>5
  <2> QED
    BY <2>6, <2>7
<1> HIDE DEF T
<1>5. T = Nat
  <2>1. T \in SUBSET Nat
    BY DEF T
  <2> QED BY <1>3, <1>4, <2>1, SavedNatsInSet
<1>6. Good(Len(s))
  <2>1. Len(s) \in T
    BY <1>2, <1>5
  <2>2. Len(s) <= Len(s)
    BY <1>2
  <2> HIDE DEF Good
  <2> QED BY <2>1, <2>2 DEF T
<1>7. Till(Len(s)) = Saved!Items(s)
  BY <1>2 DEF Saved!Items
<1> QED
  BY <1>1, <1>6, <1>7

LEMMA SavedDistinctCounts ==
    ASSUME NEW S, NEW s \in Seq(S), SavedDistinct(s)
    PROVE  Cardinality(Saved!Items(s)) = Len(s)
<1>1. DOMAIN s = 1 .. Len(s) /\ Len(s) \in Nat
  OBVIOUS
<1>2. s \in Bijection(1 .. Len(s), Saved!Items(s))
  <2>1. s \in [1 .. Len(s) -> Saved!Items(s)]
    <3>1. s = [i \in 1 .. Len(s) |-> s[i]]
      BY <1>1
    <3>2. \A i \in 1 .. Len(s) : s[i] \in Saved!Items(s)
      BY <1>1 DEF Saved!Items
    <3> QED BY <3>1, <3>2
  <2>2. \A i, j \in 1 .. Len(s) : s[i] = s[j] => i = j
    BY <1>1 DEF SavedDistinct
  <2>3. \A x \in Saved!Items(s) : \E i \in 1 .. Len(s) : s[i] = x
    BY <1>1 DEF Saved!Items
  <2> QED
    BY <2>1, <2>2, <2>3 DEF Bijection, Injection, Surjection, IsInjective
<1>3. ExistsBijection(1 .. Len(s), Saved!Items(s))
  BY <1>2 DEF ExistsBijection
<1> QED
  BY <1>1, <1>3, FS_CountingElements

LEMMA SavedOrdersOf ==
    ASSUME NEW S, IsFiniteSet(S), NEW s \in Saved!Orders(S)
    PROVE  s \in Seq(S) /\ SavedDistinct(s) /\ Saved!Items(s) = S
<1>1. Cardinality(S) \in Nat /\ s \in [1 .. Cardinality(S) -> S]
  BY FS_CardinalityType, SavedCardinality DEF Saved!Orders
<1>2. s \in Seq(S) /\ DOMAIN s = 1 .. Cardinality(S)
  BY <1>1
<1>3. SavedDistinct(s)
  BY DEF Saved!Orders, SavedDistinct
<1>4. Cardinality(Saved!Items(s)) = Cardinality(S)
  BY <1>1, <1>2, <1>3, SavedDistinctCounts
<1>5. Saved!Items(s) = S
  <2>1. Saved!Items(s) \subseteq S
    BY <1>1, <1>2 DEF Saved!Items
  <2> QED
    BY <1>4, <2>1, FS_Subset
<1> QED
  BY <1>2, <1>3, <1>5

-----------------------------------------------------------------------------
(* Types                                                                   *)

SavedHistory == [stale : BOOLEAN, moved : BOOLEAN, again : BOOLEAN]
SavedDetail == [item : Projects \union {none}, added : BOOLEAN, visit : Nat]

LEMMA SavedChangedItems ==
    ASSUME NEW s \in Seq(Projects), NEW p \in Projects, NEW save \in BOOLEAN
    PROVE  /\ Saved!Changed(s, p, save) \in Seq(Projects)
           /\ Saved!Items(Saved!Changed(s, p, save)) =
                 IF save THEN Saved!Items(s) \union {p} ELSE Saved!Items(s) \ {p}
           /\ SavedDistinct(s) /\ (save => p \notin Saved!Items(s)) => SavedDistinct(Saved!Changed(s, p, save))
<1>1. CASE save
  <2>1. Saved!Changed(s, p, save) = Append(s, p)
    BY <1>1 DEF Saved!Changed
  <2>2. /\ Append(s, p) \in Seq(Projects)
        /\ Saved!Items(Append(s, p)) = Saved!Items(s) \union {p}
        /\ SavedDistinct(s) /\ p \notin Saved!Items(s) => SavedDistinct(Append(s, p))
    BY SavedAppendItems
  <2> QED
    BY <1>1, <2>1, <2>2
<1>2. CASE ~save
  <2>1. Saved!Changed(s, p, save) = Saved!Without(s, p)
    BY <1>2 DEF Saved!Changed
  <2> QED
    BY <1>2, <2>1, SavedWithoutItems
<1> QED
  BY <1>1, <1>2

LEMMA SavedCardEffectType ==
    ASSUME NEW old \in [Projects -> BOOLEAN], cached \in Seq(Projects)
    PROVE  Saved!CardEffect(old) \in [Projects -> BOOLEAN]
<1> DEFINE x == cached[Len(cached)]
           new == [p \in Projects |-> p = x]
<1>1. new \in [Projects -> BOOLEAN]
  <2> HIDE DEF x
  <2> QED OBVIOUS
<1>2. Saved!CardEffect(old) = old \/ Saved!CardEffect(old) = new
  BY DEF Saved!CardEffect
<1> HIDE DEF new
<1>3. CASE Saved!CardEffect(old) = old
  BY <1>3
<1>4. CASE Saved!CardEffect(old) = new
  BY <1>1, <1>4
<1> QED
  BY <1>2, <1>3, <1>4

LEMMA SavedRequestType ==
    ASSUME Saved!TypeOK, NEW kind \in {"change", "reload", "list"}, NEW p \in Projects \union {none},
           NEW save \in BOOLEAN, NEW place \in Saved!Places
    PROVE  Saved!Request(kind, p, save, place) \in Saved!Message
<1>1. (IF kind = "change" THEN cached ELSE <<>>) \in Seq(Projects)
  BY DEF Saved!TypeOK
<1>2. detail.visit \in Nat /\ taps \in Nat
  BY DEF Saved!TypeOK
<1> QED
  BY <1>1, <1>2 DEF Saved!Request, Saved!Message

LEMMA SavedAskedType ==
  ASSUME Saved!TypeOK
  PROVE  Saved!Reload \in Saved!Message /\ Saved!GetSavedProjects \in Saved!Message
BY SavedRequestType DEF Saved!Reload, Saved!GetSavedProjects, Saved!Places

LEMMA SavedSentType ==
    ASSUME Saved!TypeOK, NEW ms, ms \subseteq Saved!Message, Saved!Send(ms)
    PROVE  requests' \subseteq Saved!Message
BY DEF Saved!TypeOK, Saved!Send

\* The messages that a screen sends when it gains the focus.
LEMMA SavedShowSends ==
    ASSUME NEW s \in Saved!Drawers, Saved!Show(s)
    PROVE  \E ms \in SUBSET {Saved!Reload, Saved!GetSavedProjects} : Saved!Send(ms)
<1>1. CASE s = "home"
  <2>1. Saved!Send({Saved!Reload})
    BY <1>1 DEF Saved!Show
  <2> QED BY <2>1
<1>2. CASE s = "savedItem"
  <2>1. Saved!Send({Saved!GetSavedProjects})
    BY <1>2 DEF Saved!Show
  <2> QED BY <2>1
<1>3. CASE s = "projectListing"
  <2>1. Saved!Send({})
    BY <1>3 DEF Saved!Show
  <2> QED BY <2>1
<1> QED
  BY <1>1, <1>2, <1>3 DEF Saved!Drawers

LEMMA SavedShowType ==
    ASSUME Saved!TypeOK, NEW s \in Saved!Drawers, Saved!Show(s)
    PROVE  /\ focus' \in Saved!Drawers /\ cards' \in [Projects -> BOOLEAN] /\ savedHist' \in SavedHistory
           /\ overlay' \in BOOLEAN /\ others' \in 0 .. 2 /\ requests' \subseteq Saved!Message
<1>1. requests' \subseteq Saved!Message
  BY SavedShowSends, SavedAskedType, SavedSentType
<1>2. cards' \in [Projects -> BOOLEAN]
  BY SavedCardEffectType DEF Saved!TypeOK, Saved!Show
<1>3. savedHist' \in SavedHistory
  <2>1. (cached = <<>>) \in BOOLEAN
    OBVIOUS
  <2> QED
    BY <2>1 DEF Saved!TypeOK, Saved!Show, SavedHistory
<1>4. others' \in 0 .. 2
  BY DEF Saved!TypeOK, Saved!Show
<1> QED
  BY <1>1, <1>2, <1>3, <1>4 DEF Saved!TypeOK, Saved!Show

LEMMA SavedNavigateType ==
  ASSUME Saved!TypeOK, NEW s \in Saved!Drawers, Saved!Navigate(s)
  PROVE  Saved!TypeOK'
BY SavedShowType DEF Saved!TypeOK, Saved!Navigate, Saved!Tapped, SavedHistory

LEMMA SavedGoBackType == ASSUME Saved!TypeOK, Saved!GoBack PROVE Saved!TypeOK'
<1>1. below \in Saved!Drawers /\ Saved!Show(below)
  BY DEF Saved!TypeOK, Saved!GoBack
<1>2. detail' \in SavedDetail
  BY DEF Saved!TypeOK, Saved!GoBack, SavedDetail
<1> QED
  BY <1>1, <1>2, SavedShowType
     DEF Saved!TypeOK, Saved!GoBack, Saved!Tapped, SavedHistory, SavedDetail

LEMMA SavedMountCardsType == ASSUME Saved!TypeOK, Saved!MountCards PROVE Saved!TypeOK'
<1>1. cards' \in [Projects -> BOOLEAN]
  BY SavedCardEffectType DEF Saved!TypeOK, Saved!MountCards
<1> QED
  BY <1>1 DEF Saved!TypeOK, Saved!MountCards

LEMMA SavedOpenDetailsType ==
  ASSUME Saved!TypeOK, NEW p \in Projects, Saved!OpenDetails(p)
  PROVE  Saved!TypeOK'
<1>1. detail' \in SavedDetail
  BY DEF Saved!TypeOK, Saved!OpenDetails, SavedDetail
<1>2. savedHist' \in SavedHistory
  BY DEF Saved!TypeOK, Saved!OpenDetails, SavedHistory
<1> QED
  BY <1>1, <1>2 DEF Saved!TypeOK, Saved!OpenDetails, Saved!Tapped, SavedDetail, SavedHistory

LEMMA SavedRefocusType == ASSUME Saved!TypeOK, Saved!Refocus PROVE Saved!TypeOK'
<1>1. detail' \in SavedDetail
  BY DEF Saved!TypeOK, Saved!Refocus, SavedDetail
<1> QED
  BY <1>1 DEF Saved!TypeOK, Saved!Refocus, Saved!Tapped, SavedDetail

LEMMA SavedToggleType ==
    ASSUME Saved!TypeOK, NEW p \in Projects \union {none}, NEW save \in BOOLEAN, NEW place \in Saved!Places,
           Saved!Send({Saved!Request("change", p, save, place)}), Saved!Again(p, save), Saved!Tapped,
           UNCHANGED <<server, cached, Saved!ui, others>>
    PROVE  Saved!TypeOK'
<1>1. requests' \subseteq Saved!Message
  BY SavedRequestType, SavedSentType
<1>2. savedHist' \in SavedHistory
  BY DEF Saved!TypeOK, Saved!Again, SavedHistory
<1> QED
  BY <1>1, <1>2 DEF Saved!TypeOK, Saved!Tapped, Saved!ui, SavedHistory

LEMMA SavedToggleCardType ==
  ASSUME Saved!TypeOK, NEW p \in Projects, Saved!ToggleCard(p)
  PROVE  Saved!TypeOK'
<1> DEFINE save == ~cards[p]
<1>1. save \in BOOLEAN /\ "card" \in Saved!Places
  BY DEF Saved!TypeOK, Saved!Places
<1>2. /\ Saved!Send({Saved!Request("change", p, save, "card")}) /\ Saved!Again(p, save) /\ Saved!Tapped
      /\ UNCHANGED <<server, cached, Saved!ui, others>>
  BY DEF Saved!ToggleCard
<1> HIDE DEF save
<1> QED
  BY <1>1, <1>2, SavedToggleType

LEMMA SavedToggleDetailType == ASSUME Saved!TypeOK, Saved!ToggleDetail PROVE Saved!TypeOK'
<1> DEFINE save == ~detail.added
           p == detail.item
<1>1. save \in BOOLEAN /\ p \in Projects \union {none} /\ "detail" \in Saved!Places
  BY DEF Saved!TypeOK, Saved!Places
<1>2. /\ Saved!Send({Saved!Request("change", p, save, "detail")}) /\ Saved!Again(p, save) /\ Saved!Tapped
      /\ UNCHANGED <<server, cached, Saved!ui, others>>
  BY DEF Saved!ToggleDetail
<1> HIDE DEF save, p
<1> QED
  BY <1>1, <1>2, SavedToggleType

LEMMA SavedRemoveType ==
  ASSUME Saved!TypeOK, NEW p \in Projects, Saved!RemoveToSaveList(p)
  PROVE  Saved!TypeOK'
<1>1. requests' \subseteq Saved!Message
  BY SavedRequestType, SavedSentType DEF Saved!RemoveToSaveList, Saved!Places
<1> QED
  BY <1>1 DEF Saved!TypeOK, Saved!RemoveToSaveList, Saved!Tapped

LEMMA SavedAnswerType ==
    ASSUME Saved!TypeOK, NEW m \in requests, NEW stage \in {"ok", "error"}, NEW l \in Seq(Projects),
           Saved!Answer(m, stage, l)
    PROVE  requests' \subseteq Saved!Message
<1>1. [m EXCEPT !.stage = stage, !.list = l] \in Saved!Message
  BY DEF Saved!TypeOK, Saved!Message
<1> QED
  BY <1>1 DEF Saved!TypeOK, Saved!Answer

\* Changes are about a project, as is the screen that shows one.
SavedNamed ==
    /\ focus = "projectDetails" => detail.item # none
    /\ \A m \in requests : m.kind = "change" => m.item # none

LEMMA SavedServeType ==
    ASSUME Saved!ConstantsAssumption, Saved!TypeOK, SavedNamed, NEW m \in requests, Saved!Serve(m)
     PROVE  Saved!TypeOK'
<1>1. m \in Saved!Message /\ m.list \in Seq(Projects) /\ m.item \in Projects \union {none}
  BY DEF Saved!TypeOK, Saved!Message
<1>2. ASSUME NEW s \in Saved!Orders(server) PROVE s \in Seq(Projects)
  <2>1. IsFiniteSet(server)
    BY FS_Subset, SavedFinite DEF Saved!TypeOK, Saved!ConstantsAssumption
  <2>2. s \in Seq(server)
    BY <2>1, SavedOrdersOf
  <2> QED
    BY <2>2 DEF Saved!TypeOK
<1>3. requests' \subseteq Saved!Message
  BY <1>1, <1>2, SavedAnswerType DEF Saved!Serve
<1>4. server' \subseteq Projects
  BY <1>1 DEF Saved!TypeOK, SavedNamed, Saved!Serve
<1> QED
  BY <1>3, <1>4 DEF Saved!TypeOK, Saved!Serve, Saved!ui

LEMMA SavedDeliverChangeType ==
    ASSUME Saved!TypeOK, SavedNamed, NEW m \in requests, Saved!DeliverChange(m)
    PROVE  Saved!TypeOK'
<1>1. /\ m \in Saved!Message /\ m.item \in Projects /\ m.list \in Seq(Projects)
      /\ m.save \in BOOLEAN /\ m.n \in Nat
  BY DEF Saved!TypeOK, Saved!Message, SavedNamed, Saved!DeliverChange
<1>2. cached' \in Seq(Projects)
  BY <1>1, SavedChangedItems DEF Saved!DeliverChange
<1>3. cards' \in [Projects -> BOOLEAN]
  BY <1>1 DEF Saved!TypeOK, Saved!DeliverChange, Saved!Hearts
<1>4. detail' \in SavedDetail
  BY <1>1 DEF Saved!TypeOK, Saved!DeliverChange, Saved!Hearts, SavedDetail
<1>5. savedHist' \in SavedHistory
  <2> DEFINE stale == Saved!Stale(m)
             moved == savedHist.moved \/ ~Saved!Own(m)
  <2>1. stale \in BOOLEAN /\ moved \in BOOLEAN
    BY <1>1 DEF Saved!Stale, Saved!DeliverChange
  <2>2. savedHist' = [savedHist EXCEPT !.stale = stale, !.moved = moved]
    BY DEF Saved!DeliverChange
  <2> HIDE DEF stale, moved
  <2> QED
    BY <2>1, <2>2 DEF Saved!TypeOK, SavedHistory
<1>6. [Saved!GetSavedProjects EXCEPT !.n = m.n] \in Saved!Message
  BY <1>1, SavedAskedType DEF Saved!Message
<1>7. requests' \subseteq Saved!Message
  BY <1>6 DEF Saved!TypeOK, Saved!DeliverChange
<1>8. overlay' \in BOOLEAN
  BY DEF Saved!TypeOK, Saved!DeliverChange
<1> QED
  BY <1>2, <1>3, <1>4, <1>5, <1>7, <1>8
     DEF Saved!TypeOK, Saved!DeliverChange, SavedDetail, SavedHistory

LEMMA SavedDeliverReloadType ==
  ASSUME Saved!TypeOK, NEW m \in requests, Saved!DeliverReload(m)
  PROVE  Saved!TypeOK'
<1>1. m.list \in Seq(Projects)
  BY DEF Saved!TypeOK, Saved!Message
<1>2. savedHist' \in SavedHistory
  <2> DEFINE stale == Saved!Stale(m)
  <2>1. stale \in BOOLEAN
    BY DEF Saved!Stale, Saved!DeliverReload
  <2>2. savedHist' = [savedHist EXCEPT !.stale = stale, !.moved = TRUE]
    BY DEF Saved!DeliverReload
  <2> HIDE DEF stale
  <2> QED
    BY <2>1, <2>2 DEF Saved!TypeOK, SavedHistory
<1> QED
  BY <1>1, <1>2 DEF Saved!TypeOK, Saved!DeliverReload, Saved!ui, SavedHistory

LEMMA SavedDeliverListType ==
  ASSUME Saved!TypeOK, NEW m \in requests, Saved!DeliverList(m)
  PROVE  Saved!TypeOK'
<1>1. m.list \in Seq(Projects)
  BY DEF Saved!TypeOK, Saved!Message
<1>2. Saved!Items(m.list) \subseteq Projects
  BY <1>1 DEF Saved!Items
<1> QED
  BY <1>2 DEF Saved!TypeOK, Saved!DeliverList

LEMMA SavedFailType == ASSUME Saved!TypeOK, NEW m \in requests, Saved!Fail(m) PROVE Saved!TypeOK'
<1>1. savedHist' \in SavedHistory
  BY DEF Saved!TypeOK, Saved!Fail, SavedHistory
<1>2. overlay' \in BOOLEAN
  BY DEF Saved!TypeOK, Saved!Fail
<1> QED
  BY <1>1, <1>2 DEF Saved!TypeOK, Saved!Fail, SavedHistory

LEMMA SavedOtherTabType == ASSUME Saved!TypeOK, Saved!OtherTab PROVE Saved!TypeOK'
<1>1. others' \in 0 .. 2
  BY DEF Saved!TypeOK, Saved!OtherTab
<1>2. /\ UNCHANGED <<server, cached, focus, below, mounted, cards, detail, shown, requests, taps, savedHist>>
      /\ overlay' = FALSE
  BY DEF Saved!OtherTab
<1> QED
  BY <1>1, <1>2 DEF Saved!TypeOK

LEMMA SavedNextType ==
    ASSUME Saved!ConstantsAssumption, Saved!TypeOK, SavedNamed, Saved!Next
    PROVE  Saved!TypeOK'
<1>1. CASE \E s \in Saved!Drawers : Saved!Navigate(s)
  BY <1>1, SavedNavigateType
<1>2. CASE Saved!MountCards \/ Saved!Refocus \/ Saved!GoBack \/ Saved!ToggleDetail \/ Saved!OtherTab
  BY <1>2, SavedMountCardsType, SavedRefocusType, SavedGoBackType, SavedToggleDetailType,
     SavedOtherTabType
<1>3. CASE \E p \in Projects : Saved!OpenDetails(p) \/ Saved!ToggleCard(p) \/ Saved!RemoveToSaveList(p)
  BY <1>3, SavedOpenDetailsType, SavedToggleCardType, SavedRemoveType
<1>4. ASSUME NEW m \in requests,
             Saved!Serve(m) \/ Saved!DeliverChange(m) \/ Saved!DeliverReload(m)
               \/ Saved!DeliverList(m) \/ Saved!Fail(m)
      PROVE  Saved!TypeOK'
  BY <1>4, SavedServeType, SavedDeliverChangeType, SavedDeliverReloadType, SavedDeliverListType,
     SavedFailType
<1> QED
  BY <1>1, <1>2, <1>3, <1>4 DEF Saved!Next

-----------------------------------------------------------------------------
(* The shapes of the steps                                                 *)

\* What is asked for: a change is built on the copy as it is.
SavedFresh(m) ==
    /\ m.stage = "sent"
    /\ m.kind = "change" => m.list = cached
    /\ m.place = "detail" => focus = "projectDetails" /\ m.visit = detail.visit /\ m.item = detail.item
    /\ m.kind = "change" => m.item # none
    /\ m.kind = "change" /\ m.save /\ m.item \in Saved!Items(cached) => savedHist'.again

\* Steps that neither read an answer nor reach the server.
SavedAsks ==
    /\ UNCHANGED <<server, cached>>
    /\ savedHist'.stale = savedHist.stale
    /\ savedHist.again => savedHist'.again
    /\ \A m \in requests' \ requests : SavedFresh(m)
    /\ requests \subseteq requests'

LEMMA SavedSendFresh ==
    ASSUME NEW ms, Saved!Send(ms), \A m \in ms : SavedFresh(m)
    PROVE  (\A m \in requests' \ requests : SavedFresh(m)) /\ requests \subseteq requests'
BY DEF Saved!Send

LEMMA SavedAskedFresh == SavedFresh(Saved!Reload) /\ SavedFresh(Saved!GetSavedProjects)
BY DEF SavedFresh, Saved!Reload, Saved!GetSavedProjects, Saved!Request

LEMMA SavedShowAsks ==
    ASSUME Saved!TypeOK, NEW s \in Saved!Drawers, Saved!Show(s), UNCHANGED <<server, cached>>
    PROVE  SavedAsks
<1>1. PICK ms \in SUBSET {Saved!Reload, Saved!GetSavedProjects} : Saved!Send(ms)
  BY SavedShowSends
<1>2. (\A m \in requests' \ requests : SavedFresh(m)) /\ requests \subseteq requests'
  BY <1>1, SavedAskedFresh, SavedSendFresh
<1>3. savedHist'.stale = savedHist.stale /\ (savedHist.again => savedHist'.again)
  BY DEF Saved!Show, Saved!TypeOK
<1> QED
  BY <1>2, <1>3 DEF SavedAsks

LEMMA SavedToggleAsks ==
    ASSUME Saved!TypeOK, NEW p \in Projects, NEW save, NEW place \in Saved!Places,
           Saved!Send({Saved!Request("change", p, save, place)}), Saved!Again(p, save),
           UNCHANGED <<server, cached>>,
           place = "detail" => focus = "projectDetails" /\ p = detail.item,
           p # none
    PROVE  SavedAsks
<1> DEFINE m == Saved!Request("change", p, save, place)
<1>1. /\ m.stage = "sent" /\ m.kind = "change" /\ m.list = cached /\ m.item = p
      /\ m.place = place /\ m.save = save /\ m.visit = detail.visit
  BY DEF Saved!Request
<1>2. /\ savedHist'.stale = savedHist.stale /\ (savedHist.again => savedHist'.again)
      /\ save /\ p \in Saved!Items(cached) => savedHist'.again
  BY DEF Saved!Again, Saved!TypeOK
<1> HIDE DEF m
<1>3. SavedFresh(m)
  BY <1>1, <1>2 DEF SavedFresh
<1>4. Saved!Send({m})
  BY DEF m
<1>5. (\A o \in requests' \ requests : SavedFresh(o)) /\ requests \subseteq requests'
  BY <1>3, <1>4, SavedSendFresh
<1> QED
  BY <1>2, <1>5 DEF SavedAsks

LEMMA SavedUserAsks ==
    ASSUME Saved!ConstantsAssumption, Saved!TypeOK, SavedNamed,
           \/ \E s \in Saved!Drawers : Saved!Navigate(s)
           \/ Saved!MountCards \/ Saved!Refocus \/ Saved!GoBack \/ Saved!ToggleDetail
           \/ Saved!OtherTab
           \/ \E p \in Projects :
                Saved!OpenDetails(p) \/ Saved!ToggleCard(p) \/ Saved!RemoveToSaveList(p)
    PROVE  SavedAsks
<1>1. CASE \E s \in Saved!Drawers : Saved!Navigate(s)
  BY <1>1, SavedShowAsks DEF Saved!Navigate
<1>2. CASE Saved!MountCards
  BY <1>2 DEF Saved!MountCards, SavedAsks, Saved!TypeOK
<1>3. CASE Saved!Refocus
  BY <1>3 DEF Saved!Refocus, SavedAsks, Saved!TypeOK
<1>4. CASE Saved!GoBack
  BY <1>4, SavedShowAsks DEF Saved!GoBack, Saved!TypeOK
<1>5. CASE Saved!ToggleDetail
  <2>1. /\ Saved!Send({Saved!Request("change", detail.item, ~detail.added, "detail")})
        /\ Saved!Again(detail.item, ~detail.added) /\ UNCHANGED <<server, cached>>
        /\ focus = "projectDetails"
    BY <1>5 DEF Saved!ToggleDetail
  <2>2. detail.item \in Projects /\ detail.item # none /\ "detail" \in Saved!Places
    BY <2>1 DEF SavedNamed, Saved!TypeOK, Saved!Places
  <2> QED
    BY <2>1, <2>2, SavedToggleAsks
<1>6. CASE Saved!OtherTab
  BY <1>6 DEF Saved!OtherTab, SavedAsks, Saved!TypeOK
<1>7. ASSUME NEW p \in Projects, Saved!OpenDetails(p) PROVE SavedAsks
  BY <1>7 DEF Saved!OpenDetails, SavedAsks, Saved!TypeOK
<1>8. ASSUME NEW p \in Projects, Saved!ToggleCard(p) PROVE SavedAsks
  <2>1. p # none /\ "card" \in Saved!Places
    BY DEF Saved!ConstantsAssumption, Saved!Places
  <2>2. /\ Saved!Send({Saved!Request("change", p, ~cards[p], "card")})
        /\ Saved!Again(p, ~cards[p]) /\ UNCHANGED <<server, cached>>
    BY <1>8 DEF Saved!ToggleCard
  <2> QED
    BY <2>1, <2>2, SavedToggleAsks
<1>9. ASSUME NEW p \in Projects, Saved!RemoveToSaveList(p) PROVE SavedAsks
  <2>1. p # none
    BY DEF Saved!ConstantsAssumption
  <2> DEFINE m == Saved!Request("change", p, FALSE, "savedItem")
  <2>2. SavedFresh(m)
    BY <2>1 DEF SavedFresh, Saved!Request
  <2>3. Saved!Send({m}) /\ UNCHANGED <<server, cached, savedHist>>
    BY <1>9 DEF Saved!RemoveToSaveList
  <2> HIDE DEF m
  <2>4. (\A o \in requests' \ requests : SavedFresh(o)) /\ requests \subseteq requests'
    BY <2>2, <2>3, SavedSendFresh
  <2> QED
    BY <2>3, <2>4 DEF SavedAsks
<1> QED
  BY <1>1, <1>2, <1>3, <1>4, <1>5, <1>6, <1>7, <1>8, <1>9

SavedAnswered(m, stage, l) == [m EXCEPT !.stage = stage, !.list = l]

\* The server answers m.
SavedServes(m, a) ==
    /\ m.stage = "sent" /\ requests' = (requests \ {m}) \union {a}
    /\ a.stage \in {"ok", "error"}
    /\ a.kind = m.kind /\ a.item = m.item /\ a.save = m.save /\ a.place = m.place
    /\ a.visit = m.visit
    /\ UNCHANGED <<cached, focus, below, mounted, cards, detail, savedHist>>
    /\ m.kind = "change" => a.list = m.list
    /\ m.kind # "change" => UNCHANGED server /\ Saved!Items(a.list) = server /\ SavedDistinct(a.list)
    /\ m.kind = "change" =>
          IF a.stage = "error" THEN UNCHANGED server
          ELSE server' = IF m.save THEN server \union {m.item} ELSE server \ {m.item}

LEMMA SavedServeIs ==
    ASSUME Saved!ConstantsAssumption, Saved!TypeOK, NEW m \in requests, Saved!Serve(m)
    PROVE  \E a : SavedServes(m, a)
<1>1. m \in Saved!Message
  BY DEF Saved!TypeOK
<1>2. UNCHANGED <<cached, focus, below, mounted, cards, detail, savedHist>> /\ m.stage = "sent"
  BY DEF Saved!Serve, Saved!ui
<1>3. ASSUME NEW stage \in {"ok", "error"}, NEW l
      PROVE  LET a == SavedAnswered(m, stage, l)
             IN  /\ a.kind = m.kind /\ a.item = m.item /\ a.save = m.save
                 /\ a.place = m.place /\ a.visit = m.visit /\ a.stage = stage /\ a.list = l
  BY <1>1 DEF SavedAnswered, Saved!Message
<1>4. CASE m.kind = "change" /\ Saved!Answer(m, "ok", m.list)
           /\ server' = IF m.save THEN server \union {m.item} ELSE server \ {m.item}
  <2>1. SavedServes(m, SavedAnswered(m, "ok", m.list))
    BY <1>2, <1>3, <1>4 DEF SavedServes, Saved!Answer, SavedAnswered
  <2> QED BY <2>1
<1>5. CASE m.kind = "change" /\ Saved!Answer(m, "error", m.list) /\ UNCHANGED server
  <2>1. SavedServes(m, SavedAnswered(m, "error", m.list))
    BY <1>2, <1>3, <1>5 DEF SavedServes, Saved!Answer, SavedAnswered
  <2> QED BY <2>1
<1>6. CASE m.kind # "change" /\ UNCHANGED server /\ \E s \in Saved!Orders(server) : Saved!Answer(m, "ok", s)
  <2>1. PICK s \in Saved!Orders(server) : Saved!Answer(m, "ok", s)
    BY <1>6
  <2>2. IsFiniteSet(server)
    BY FS_Subset, SavedFinite DEF Saved!TypeOK, Saved!ConstantsAssumption
  <2>3. Saved!Items(s) = server /\ SavedDistinct(s)
    BY <2>2, SavedOrdersOf
  <2>4. SavedServes(m, SavedAnswered(m, "ok", s))
    BY <1>2, <1>3, <1>6, <2>1, <2>3 DEF SavedServes, Saved!Answer, SavedAnswered
  <2> QED BY <2>4
<1> QED
  BY <1>4, <1>5, <1>6 DEF Saved!Serve

\* A request or its answer leaves the network; the copy stays.
SavedDrops(m) ==
    /\ UNCHANGED <<server, cached>> /\ requests' = requests \ {m}
    /\ savedHist'.again = savedHist.again /\ savedHist'.moved = savedHist.moved
    /\ IF m.kind = "change" /\ m.stage # "error" THEN savedHist'.stale ELSE savedHist'.stale = savedHist.stale
    /\ UNCHANGED <<focus, below, mounted, cards, detail>>

LEMMA SavedDropsIs ==
    ASSUME Saved!TypeOK, NEW m \in requests, Saved!DeliverList(m) \/ Saved!Fail(m)
    PROVE  SavedDrops(m)
BY DEF Saved!TypeOK, Saved!DeliverList, Saved!Fail, SavedDrops

\* The answer of a change is written to the copy.
SavedWrites(m) ==
    /\ m.kind = "change" /\ m.stage = "ok" /\ UNCHANGED server
    /\ Saved!Items(cached') = IF m.save THEN Saved!Items(m.list) \union {m.item} ELSE Saved!Items(m.list) \ {m.item}
    /\ SavedDistinct(m.list) /\ (m.save => m.item \notin Saved!Items(m.list)) => SavedDistinct(cached')
    /\ savedHist'.again = savedHist.again
    /\ ~savedHist'.stale => /\ ~savedHist.stale /\ Saved!Items(m.list) = Saved!Items(cached)
                       /\ m.save = (m.item \in server)
    /\ savedHist'.moved = (savedHist.moved \/ ~Saved!Own(m))
    /\ \A o \in requests' : o \in requests \/ (o.kind = "list" /\ o.place = "savedItem" /\ o.list = <<>>)
    /\ requests \ {m} \subseteq requests'
    /\ Saved!Hearts(m) /\ UNCHANGED <<focus, below, mounted>>

LEMMA SavedWritesIs ==
    ASSUME Saved!TypeOK, SavedNamed, NEW m \in requests, Saved!DeliverChange(m)
    PROVE  SavedWrites(m)
<1>1. /\ m \in Saved!Message /\ m.item \in Projects /\ m.list \in Seq(Projects)
      /\ m.save \in BOOLEAN /\ m.kind = "change" /\ m.stage = "ok"
  BY DEF Saved!TypeOK, Saved!Message, SavedNamed, Saved!DeliverChange
<1>2. cached' = Saved!Changed(m.list, m.item, m.save)
  BY DEF Saved!DeliverChange
<1>3. /\ Saved!Items(cached') = IF m.save THEN Saved!Items(m.list) \union {m.item}
                           ELSE Saved!Items(m.list) \ {m.item}
      /\ SavedDistinct(m.list) /\ (m.save => m.item \notin Saved!Items(m.list)) => SavedDistinct(cached')
  BY <1>1, <1>2, SavedChangedItems
<1>4. /\ savedHist'.again = savedHist.again /\ savedHist'.moved = (savedHist.moved \/ ~Saved!Own(m))
      /\ savedHist'.stale = Saved!Stale(m)
  BY DEF Saved!DeliverChange, Saved!TypeOK
<1>5. Saved!Stale(m) <=> \/ savedHist.stale \/ Saved!Items(m.list) # Saved!Items(cached)
                   \/ m.save # (m.item \in server)
  BY <1>1 DEF Saved!Stale
<1>6. /\ \A o \in requests' : o \in requests \/ (o.kind = "list" /\ o.place = "savedItem" /\ o.list = <<>>)
      /\ requests \ {m} \subseteq requests'
  BY DEF Saved!DeliverChange, Saved!GetSavedProjects, Saved!Request
<1>7. Saved!Hearts(m) /\ UNCHANGED <<server, focus, below, mounted>>
  BY DEF Saved!DeliverChange
<1> QED
  BY <1>1, <1>3, <1>4, <1>5, <1>6, <1>7 DEF SavedWrites

\* The answer of a reload is the copy.
SavedReloads(m) ==
    /\ m.kind = "reload" /\ m.stage # "sent" /\ cached' = m.list /\ requests' = requests \ {m}
    /\ savedHist'.moved /\ savedHist'.again = savedHist.again
    /\ ~savedHist'.stale => Saved!Changing = {} /\ Saved!Items(m.list) = server
    /\ UNCHANGED <<server, focus, below, mounted, cards, detail>>

LEMMA SavedReloadsIs ==
  ASSUME Saved!TypeOK, NEW m \in requests, Saved!DeliverReload(m)
  PROVE  SavedReloads(m)
BY DEF Saved!TypeOK, Saved!DeliverReload, SavedReloads, Saved!Stale, Saved!ui

\* Every step is of one of these shapes.
SavedShapes ==
    \/ SavedAsks
    \/ \E m \in requests : (\E a : SavedServes(m, a)) \/ SavedDrops(m) \/ SavedWrites(m) \/ SavedReloads(m)

LEMMA SavedNextShapes ==
  ASSUME Saved!ConstantsAssumption, Saved!TypeOK, SavedNamed, Saved!Next
  PROVE  SavedShapes
<1>1. CASE \/ \E s \in Saved!Drawers : Saved!Navigate(s)
           \/ Saved!MountCards \/ Saved!Refocus \/ Saved!GoBack \/ Saved!ToggleDetail
           \/ Saved!OtherTab
           \/ \E p \in Projects :
                Saved!OpenDetails(p) \/ Saved!ToggleCard(p) \/ Saved!RemoveToSaveList(p)
  BY <1>1, SavedUserAsks DEF SavedShapes
<1>2. ASSUME NEW m \in requests,
             Saved!Serve(m) \/ Saved!DeliverChange(m) \/ Saved!DeliverReload(m)
               \/ Saved!DeliverList(m) \/ Saved!Fail(m)
      PROVE  SavedShapes
  BY <1>2, SavedServeIs, SavedWritesIs, SavedReloadsIs, SavedDropsIs DEF SavedShapes
<1> QED
  BY <1>1, <1>2 DEF Saved!Next

-----------------------------------------------------------------------------
(* The copy                                                                *)

\* A change that the server carried out and that was not delivered.
SavedPending(p) == \E m \in requests : m.kind = "change" /\ m.stage = "ok" /\ m.item = p

\* The copy differs from the server only in what is to be delivered.
SavedMirrored ==
    ~savedHist.stale =>
        \A p \in Projects : (p \in Saved!Items(cached) <=> p \in server) \/ SavedPending(p)

LEMMA SavedMirroredStep ==
    ASSUME Saved!TypeOK, SavedMirrored, SavedShapes
    PROVE  SavedMirrored'
<1> SUFFICES ASSUME ~savedHist'.stale, NEW p \in Projects
             PROVE  (p \in Saved!Items(cached') <=> p \in server') \/ SavedPending(p)'
  BY DEF SavedMirrored, Saved!Items
<1>1. CASE SavedAsks
  BY <1>1 DEF SavedAsks, SavedMirrored, SavedPending
<1>2. ASSUME NEW m \in requests, NEW a, SavedServes(m, a)
      PROVE  (p \in Saved!Items(cached') <=> p \in server') \/ SavedPending(p)'
  <2>1. ~savedHist.stale /\ cached' = cached /\ a \in requests'
    BY <1>2 DEF SavedServes
  <2>2. CASE SavedPending(p)
    <3>1. PICK o \in requests : o.kind = "change" /\ o.stage = "ok" /\ o.item = p
      BY <2>2 DEF SavedPending
    <3>2. o # m
      BY <1>2, <3>1 DEF SavedServes
    <3> QED
      BY <1>2, <3>1, <3>2 DEF SavedServes, SavedPending
  <2>3. CASE (p \in Saved!Items(cached) <=> p \in server) /\ (p \in server <=> p \in server')
    BY <2>1, <2>3
  <2>4. CASE ~(p \in server <=> p \in server')
    <3>1. m.kind = "change" /\ a.stage = "ok" /\ a.kind = "change" /\ a.item = p
      BY <1>2, <2>4 DEF SavedServes
    <3> QED
      BY <2>1, <3>1 DEF SavedPending
  <2> QED
    BY <2>1, <2>2, <2>3, <2>4 DEF SavedMirrored
<1>3. ASSUME NEW m \in requests, SavedDrops(m)
      PROVE  (p \in Saved!Items(cached') <=> p \in server') \/ SavedPending(p)'
  <2>1. ~savedHist.stale /\ (m.kind # "change" \/ m.stage = "error")
    BY <1>3 DEF SavedDrops
  <2> QED
    BY <1>3, <2>1 DEF SavedDrops, SavedMirrored, SavedPending
<1>4. ASSUME NEW m \in requests, SavedWrites(m)
      PROVE  (p \in Saved!Items(cached') <=> p \in server') \/ SavedPending(p)'
  <2>1. /\ ~savedHist.stale /\ Saved!Items(m.list) = Saved!Items(cached) /\ m.save = (m.item \in server)
        /\ server' = server
    BY <1>4 DEF SavedWrites
  <2>2. CASE p = m.item
    BY <1>4, <2>1, <2>2 DEF SavedWrites
  <2>3. CASE p # m.item
    <3>1. p \in Saved!Items(cached') <=> p \in Saved!Items(cached)
      BY <1>4, <2>1, <2>3 DEF SavedWrites
    <3>2. SavedPending(p) => SavedPending(p)'
      BY <1>4, <2>3 DEF SavedWrites, SavedPending
    <3> QED
      BY <2>1, <3>1, <3>2 DEF SavedMirrored
  <2> QED
    BY <2>2, <2>3
<1>5. ASSUME NEW m \in requests, SavedReloads(m)
      PROVE  (p \in Saved!Items(cached') <=> p \in server') \/ SavedPending(p)'
  BY <1>5 DEF SavedReloads
<1> QED
  BY <1>1, <1>2, <1>3, <1>4, <1>5 DEF SavedShapes

\* No item twice, in the copy and in whatever will be it.
SavedSingle ==
    /\ ~savedHist.again =>
          /\ SavedDistinct(cached)
          /\ \A m \in requests : m.kind = "change" =>
                SavedDistinct(m.list) /\ (m.save => m.item \notin Saved!Items(m.list))
    /\ \A m \in requests : m.kind = "reload" /\ m.stage # "sent" => SavedDistinct(m.list)

LEMMA SavedSingleStep ==
    ASSUME Saved!TypeOK, SavedSingle, SavedShapes
    PROVE  SavedSingle'
<1>1. ASSUME SavedAsks PROVE SavedSingle'
  <2>1. ASSUME ~savedHist'.again, NEW m \in requests', m.kind = "change"
        PROVE  SavedDistinct(m.list) /\ (m.save => m.item \notin Saved!Items(m.list))
    BY <1>1, <2>1 DEF SavedAsks, SavedSingle, SavedFresh
  <2>2. ASSUME NEW m \in requests', m.kind = "reload", m.stage # "sent" PROVE SavedDistinct(m.list)
    BY <1>1, <2>2 DEF SavedAsks, SavedSingle, SavedFresh
  <2>3. ~savedHist'.again => SavedDistinct(cached')
    BY <1>1 DEF SavedAsks, SavedSingle
  <2> QED
    BY <2>1, <2>2, <2>3 DEF SavedSingle, Saved!Items, SavedDistinct
<1>2. ASSUME NEW m \in requests, NEW a, SavedServes(m, a) PROVE SavedSingle'
  <2>1. ASSUME ~savedHist'.again, NEW o \in requests', o.kind = "change"
        PROVE  SavedDistinct(o.list) /\ (o.save => o.item \notin Saved!Items(o.list))
    BY <1>2, <2>1 DEF SavedServes, SavedSingle
  <2>2. ASSUME NEW o \in requests', o.kind = "reload", o.stage # "sent" PROVE SavedDistinct(o.list)
    BY <1>2, <2>2 DEF SavedServes, SavedSingle
  <2>3. ~savedHist'.again => SavedDistinct(cached')
    BY <1>2 DEF SavedServes, SavedSingle
  <2> QED
    BY <2>1, <2>2, <2>3 DEF SavedSingle, Saved!Items, SavedDistinct
<1>3. ASSUME NEW m \in requests, SavedDrops(m) PROVE SavedSingle'
  BY <1>3 DEF SavedDrops, SavedSingle, Saved!Items, SavedDistinct
<1>4. ASSUME NEW m \in requests, SavedWrites(m) PROVE SavedSingle'
  <2>1. ASSUME ~savedHist'.again, NEW o \in requests', o.kind = "change"
        PROVE  SavedDistinct(o.list) /\ (o.save => o.item \notin Saved!Items(o.list))
    BY <1>4, <2>1 DEF SavedWrites, SavedSingle
  <2>2. ASSUME NEW o \in requests', o.kind = "reload", o.stage # "sent" PROVE SavedDistinct(o.list)
    BY <1>4, <2>2 DEF SavedWrites, SavedSingle
  <2>3. ~savedHist'.again => SavedDistinct(cached')
    BY <1>4 DEF SavedWrites, SavedSingle
  <2> QED
    BY <2>1, <2>2, <2>3 DEF SavedSingle, Saved!Items, SavedDistinct
<1>5. ASSUME NEW m \in requests, SavedReloads(m), m.stage # "sent" PROVE SavedSingle'
  <2>1. ASSUME ~savedHist'.again, NEW o \in requests', o.kind = "change"
        PROVE  SavedDistinct(o.list) /\ (o.save => o.item \notin Saved!Items(o.list))
    BY <1>5, <2>1 DEF SavedReloads, SavedSingle
  <2>2. ASSUME NEW o \in requests', o.kind = "reload", o.stage # "sent" PROVE SavedDistinct(o.list)
    BY <1>5, <2>2 DEF SavedReloads, SavedSingle
  <2>3. ~savedHist'.again => SavedDistinct(cached')
    BY <1>5 DEF SavedReloads, SavedSingle
  <2> QED
    BY <2>1, <2>2, <2>3 DEF SavedSingle, Saved!Items, SavedDistinct
<1> QED
  BY <1>1, <1>2, <1>3, <1>4, <1>5 DEF SavedShapes, SavedReloads

-----------------------------------------------------------------------------
(* The screens                                                             *)

\* projectDetails is opened, left, or stays what it is.
SavedTurns ==
    \/ /\ detail'.item = detail.item /\ detail'.visit = detail.visit
       /\ focus' = "projectDetails" => focus = "projectDetails"
    \/ /\ detail'.visit = detail.visit + 1 /\ detail'.item # none
       /\ requests' = requests
    \/ /\ detail'.visit = detail.visit /\ detail'.item = none
       /\ focus' # "projectDetails" /\ focus = "projectDetails"

LEMMA SavedUserTurns ==
    ASSUME Saved!ConstantsAssumption, Saved!TypeOK,
           \/ \E s \in Saved!Drawers : Saved!Navigate(s)
           \/ Saved!MountCards \/ Saved!Refocus \/ Saved!GoBack \/ Saved!ToggleDetail
           \/ Saved!OtherTab
           \/ \E p \in Projects :
                Saved!OpenDetails(p) \/ Saved!ToggleCard(p) \/ Saved!RemoveToSaveList(p)
    PROVE  SavedTurns
<1>1. CASE \E s \in Saved!Drawers : Saved!Navigate(s)
  BY <1>1 DEF Saved!Navigate, Saved!Show, SavedTurns, Saved!Drawers
<1>2. CASE Saved!MountCards
  BY <1>2 DEF Saved!MountCards, SavedTurns
<1>3. CASE Saved!Refocus
  BY <1>3 DEF Saved!Refocus, SavedTurns, Saved!TypeOK
<1>4. CASE Saved!GoBack
  BY <1>4 DEF Saved!GoBack, SavedTurns, Saved!TypeOK, Saved!Show, Saved!Drawers
<1>5. CASE Saved!ToggleDetail
  BY <1>5 DEF Saved!ToggleDetail, SavedTurns, Saved!ui
<1>6. CASE Saved!OtherTab
  BY <1>6 DEF Saved!OtherTab, SavedTurns
<1>7. ASSUME NEW p \in Projects, Saved!OpenDetails(p) PROVE SavedTurns
  BY <1>7 DEF Saved!OpenDetails, SavedTurns, Saved!ConstantsAssumption
<1>8. ASSUME NEW p \in Projects, Saved!ToggleCard(p) PROVE SavedTurns
  BY <1>8 DEF Saved!ToggleCard, SavedTurns, Saved!ui
<1>9. ASSUME NEW p \in Projects, Saved!RemoveToSaveList(p) PROVE SavedTurns
  BY <1>9 DEF Saved!RemoveToSaveList, SavedTurns
<1> QED
  BY <1>1, <1>2, <1>3, <1>4, <1>5, <1>6, <1>7, <1>8, <1>9

\* A change of projectDetails is of this visit, or an earlier one.
SavedVisits ==
    \A m \in requests : m.place = "detail" =>
        /\ m.visit <= detail.visit
        /\ m.visit = detail.visit => detail.item \in {m.item, none}

LEMMA SavedAnswersStay ==
    ASSUME Saved!TypeOK, NEW m \in requests,
           (\E a : SavedServes(m, a)) \/ SavedDrops(m) \/ SavedWrites(m) \/ SavedReloads(m)
    PROVE  /\ focus' = focus /\ detail'.item = detail.item /\ detail'.visit = detail.visit
           /\ \A o \in requests' :
                 \/ o \in requests
                 \/ o.kind = "list" /\ o.place = "savedItem"
                 \/ \E k \in requests : o.kind = k.kind /\ o.place = k.place
                                   /\ o.visit = k.visit /\ o.item = k.item
<1>1. CASE \E a : SavedServes(m, a)
  BY <1>1 DEF SavedServes
<1>2. CASE SavedDrops(m)
  BY <1>2 DEF SavedDrops
<1>3. CASE SavedWrites(m)
  BY <1>3 DEF SavedWrites, Saved!Hearts, Saved!TypeOK
<1>4. CASE SavedReloads(m)
  BY <1>4 DEF SavedReloads
<1> QED
  BY <1>1, <1>2, <1>3, <1>4

\* As NextShapes, with what the screens do.
LEMMA SavedNextTurns ==
    ASSUME Saved!ConstantsAssumption, Saved!TypeOK, SavedNamed, Saved!Next
    PROVE  \/ SavedAsks /\ SavedTurns
           \/ \E m \in requests : (\E a : SavedServes(m, a)) \/ SavedDrops(m) \/ SavedWrites(m) \/ SavedReloads(m)
<1>1. CASE \/ \E s \in Saved!Drawers : Saved!Navigate(s)
           \/ Saved!MountCards \/ Saved!Refocus \/ Saved!GoBack \/ Saved!ToggleDetail
           \/ Saved!OtherTab
           \/ \E p \in Projects :
                Saved!OpenDetails(p) \/ Saved!ToggleCard(p) \/ Saved!RemoveToSaveList(p)
  BY <1>1, SavedUserAsks, SavedUserTurns
<1>2. ASSUME NEW m \in requests,
             Saved!Serve(m) \/ Saved!DeliverChange(m) \/ Saved!DeliverReload(m)
               \/ Saved!DeliverList(m) \/ Saved!Fail(m)
      PROVE  (\E a : SavedServes(m, a)) \/ SavedDrops(m) \/ SavedWrites(m) \/ SavedReloads(m)
  BY <1>2, SavedServeIs, SavedWritesIs, SavedReloadsIs, SavedDropsIs
<1> QED
  BY <1>1, <1>2 DEF Saved!Next

LEMMA SavedNamedStep ==
    ASSUME Saved!ConstantsAssumption, Saved!TypeOK, SavedNamed, Saved!Next PROVE SavedNamed'
<1>1. CASE SavedAsks /\ SavedTurns
  <2>1. ASSUME NEW m \in requests', m.kind = "change" PROVE m.item # none
    BY <1>1, <2>1 DEF SavedAsks, SavedFresh, SavedNamed
  <2>2. focus' = "projectDetails" => detail'.item # none
    BY <1>1 DEF SavedTurns, SavedNamed
  <2> QED
    BY <2>1, <2>2 DEF SavedNamed
<1>2. ASSUME NEW m \in requests, (\E a : SavedServes(m, a)) \/ SavedDrops(m) \/ SavedWrites(m) \/ SavedReloads(m)
      PROVE  SavedNamed'
  <2>1. /\ focus' = focus /\ detail'.item = detail.item
        /\ \A o \in requests' : o \in requests \/ o.kind = "list"
                           \/ \E k \in requests : o.kind = k.kind /\ o.item = k.item
    BY <1>2, SavedAnswersStay
  <2> QED
    BY <2>1 DEF SavedNamed
<1> QED
  BY <1>1, <1>2, SavedNextTurns

LEMMA SavedVisitsStep ==
    ASSUME Saved!ConstantsAssumption, Saved!TypeOK, SavedNamed, SavedVisits, Saved!Next
     PROVE  SavedVisits'
<1>0. detail.visit \in Nat /\ \A m \in requests : m.visit \in Nat
  BY DEF Saved!TypeOK, Saved!Message
<1>1. CASE SavedAsks /\ SavedTurns
  <2> SUFFICES ASSUME NEW m \in requests', m.place = "detail"
               PROVE  /\ m.visit <= detail'.visit
                      /\ m.visit = detail'.visit => detail'.item \in {m.item, none}
    BY DEF SavedVisits
  <2>1. CASE m \in requests
    <3>1. m.visit <= detail.visit /\ (m.visit = detail.visit => detail.item \in {m.item, none})
      BY <2>1 DEF SavedVisits
    <3> QED
      BY <1>0, <1>1, <2>1, <3>1 DEF SavedTurns
  <2>2. CASE m \notin requests
    BY <1>0, <1>1, <2>2 DEF SavedAsks, SavedFresh, SavedTurns
  <2> QED
    BY <2>1, <2>2
<1>2. ASSUME NEW m \in requests, (\E a : SavedServes(m, a)) \/ SavedDrops(m) \/ SavedWrites(m) \/ SavedReloads(m)
      PROVE  SavedVisits'
  <2>1. /\ detail'.visit = detail.visit /\ detail'.item = detail.item
        /\ \A o \in requests' : o \in requests \/ o.place = "savedItem"
              \/ \E k \in requests : o.place = k.place /\ o.visit = k.visit /\ o.item = k.item
    BY <1>2, SavedAnswersStay
  <2> QED
    BY <2>1 DEF SavedVisits
<1> QED
  BY <1>1, <1>2, SavedNextTurns

\* The hearts of the screen with the focus are those of the copy, if only this
\* screen wrote it since.
SavedHeartsOfCopy ==
    ~savedHist.stale /\ ~savedHist.moved =>
        /\ focus = "projectListing" /\ mounted =>
              \A p \in Projects : cards[p] => p \in Saved!Items(cached)
        /\ focus = "projectDetails" => (detail.added <=> detail.item \in Saved!Items(cached))

LEMMA SavedCardEffectShows ==
    ASSUME Saved!TypeOK, NEW old, NEW p \in Projects, Saved!CardEffect(old)[p],
           cached # <<>> \/ ~old[p]
    PROVE  p \in Saved!Items(cached)
<1>1. cached # <<>>
  BY DEF Saved!CardEffect
<1>2. Saved!CardEffect(old)[p] <=> p = cached[Len(cached)]
  BY <1>1 DEF Saved!CardEffect
<1>3. Len(cached) \in DOMAIN cached
  BY <1>1 DEF Saved!TypeOK
<1> QED
  BY <1>2, <1>3 DEF Saved!Items

LEMMA SavedShowHearts ==
    ASSUME Saved!TypeOK, NEW s \in Saved!Drawers, Saved!Show(s), UNCHANGED <<cached, mounted>>
    PROVE  SavedHeartsOfCopy'
<1>1. focus' # "projectDetails"
  BY DEF Saved!Show, Saved!Drawers
<1>2. ASSUME ~savedHist'.moved, focus' = "projectListing", mounted', NEW p \in Projects, cards'[p]
      PROVE  p \in Saved!Items(cached)
  <2>1. cached # <<>> /\ s = "projectListing" /\ mounted /\ cards' = Saved!CardEffect(cards)
    BY <1>2 DEF Saved!Show, Saved!TypeOK
  <2> QED
    BY <1>2, <2>1, SavedCardEffectShows
<1> QED
  BY <1>1, <1>2 DEF SavedHeartsOfCopy, Saved!Items

LEMMA SavedHeartsUser ==
    ASSUME Saved!ConstantsAssumption, Saved!TypeOK, SavedHeartsOfCopy,
           \/ \E s \in Saved!Drawers : Saved!Navigate(s)
           \/ Saved!MountCards \/ Saved!Refocus \/ Saved!GoBack \/ Saved!ToggleDetail
           \/ Saved!OtherTab
           \/ \E p \in Projects :
                Saved!OpenDetails(p) \/ Saved!ToggleCard(p) \/ Saved!RemoveToSaveList(p)
    PROVE  SavedHeartsOfCopy'
<1> DEFINE still == UNCHANGED <<cached, focus, mounted, cards, detail>>
                    /\ savedHist'.stale = savedHist.stale /\ savedHist'.moved = savedHist.moved
<1>0. still => SavedHeartsOfCopy'
  BY DEF SavedHeartsOfCopy, Saved!Items
<1>1. CASE \E s \in Saved!Drawers : Saved!Navigate(s)
  BY <1>1, SavedShowHearts DEF Saved!Navigate
<1>2. CASE Saved!MountCards
  <2>1. ASSUME NEW p \in Projects, cards'[p] PROVE p \in Saved!Items(cached)
    <3> DEFINE blank == [q \in Projects |-> FALSE]
    <3>1. cards' = Saved!CardEffect(blank) /\ ~blank[p]
      BY <1>2 DEF Saved!MountCards
    <3> HIDE DEF blank
    <3> QED
      BY <2>1, <3>1, SavedCardEffectShows
  <2>2. focus' = "projectListing" /\ cached' = cached
    BY <1>2 DEF Saved!MountCards
  <2> QED
    BY <2>1, <2>2 DEF SavedHeartsOfCopy, Saved!Items
<1>3. CASE Saved!Refocus
  <2>1. /\ focus' = "projectDetails" /\ focus = "projectDetails"
        /\ UNCHANGED <<cached, savedHist>> /\ detail'.item = detail.item
        /\ detail'.added <=> detail.added \/ detail.item \in Saved!Items(cached)
    BY <1>3 DEF Saved!Refocus, Saved!TypeOK
  <2> QED
    BY <2>1 DEF SavedHeartsOfCopy, Saved!Items
<1>4. CASE Saved!GoBack
  <2>1. below \in Saved!Drawers /\ Saved!Show(below) /\ UNCHANGED <<cached, mounted>>
    BY <1>4 DEF Saved!GoBack, Saved!TypeOK
  <2> QED
    BY <2>1, SavedShowHearts
<1>5. CASE Saved!ToggleDetail
  BY <1>0, <1>5 DEF Saved!ToggleDetail, Saved!Again, Saved!ui, Saved!TypeOK
<1>6. CASE Saved!OtherTab
  BY <1>0, <1>6 DEF Saved!OtherTab
<1>7. ASSUME NEW p \in Projects, Saved!OpenDetails(p) PROVE SavedHeartsOfCopy'
  <2>1. /\ focus' = "projectDetails" /\ cached' = cached /\ detail'.item = p
        /\ detail'.added <=> p \in Saved!Items(cached)
    BY <1>7 DEF Saved!OpenDetails
  <2> QED
    BY <2>1 DEF SavedHeartsOfCopy, Saved!Items
<1>8. ASSUME NEW p \in Projects, Saved!ToggleCard(p) PROVE SavedHeartsOfCopy'
  BY <1>0, <1>8 DEF Saved!ToggleCard, Saved!Again, Saved!ui, Saved!TypeOK
<1>9. ASSUME NEW p \in Projects, Saved!RemoveToSaveList(p) PROVE SavedHeartsOfCopy'
  BY <1>0, <1>9 DEF Saved!RemoveToSaveList
<1> QED
  BY <1>1, <1>2, <1>3, <1>4, <1>5, <1>6, <1>7, <1>8, <1>9

LEMMA SavedHeartsStep ==
    ASSUME Saved!ConstantsAssumption, Saved!TypeOK, SavedNamed, SavedVisits, SavedHeartsOfCopy, Saved!Next
    PROVE  SavedHeartsOfCopy'
<1>1. CASE \/ \E s \in Saved!Drawers : Saved!Navigate(s)
           \/ Saved!MountCards \/ Saved!Refocus \/ Saved!GoBack \/ Saved!ToggleDetail
           \/ Saved!OtherTab
           \/ \E p \in Projects :
                Saved!OpenDetails(p) \/ Saved!ToggleCard(p) \/ Saved!RemoveToSaveList(p)
  BY <1>1, SavedHeartsUser
<1>2. ASSUME NEW m \in requests, NEW a, SavedServes(m, a) PROVE SavedHeartsOfCopy'
  BY <1>2 DEF SavedServes, SavedHeartsOfCopy, Saved!Items
<1>3. ASSUME NEW m \in requests, SavedDrops(m) PROVE SavedHeartsOfCopy'
  <2>1. ~savedHist'.stale => ~savedHist.stale
    BY <1>3 DEF SavedDrops
  <2> QED
    BY <1>3, <2>1 DEF SavedDrops, SavedHeartsOfCopy, Saved!Items
<1>4. ASSUME NEW m \in requests, SavedReloads(m) PROVE SavedHeartsOfCopy'
  BY <1>4 DEF SavedReloads, SavedHeartsOfCopy
<1>5. ASSUME NEW m \in requests, SavedWrites(m) PROVE SavedHeartsOfCopy'
  <2> SUFFICES ASSUME ~savedHist'.stale, ~savedHist'.moved PROVE SavedHeartsOfCopy'
    BY DEF SavedHeartsOfCopy
  <2>1. /\ ~savedHist.stale /\ ~savedHist.moved /\ Saved!Own(m) /\ Saved!Items(m.list) = Saved!Items(cached)
        /\ UNCHANGED <<focus, mounted>> /\ Saved!Hearts(m)
    BY <1>5 DEF SavedWrites
  <2>2. m.item \in Projects /\ m.save \in BOOLEAN
    BY <1>5 DEF SavedWrites, SavedNamed, Saved!TypeOK, Saved!Message
  <2>3. \A p : p \in Saved!Items(cached') <=>
               IF p = m.item THEN m.save ELSE p \in Saved!Items(cached)
    BY <1>5, <2>1, <2>2 DEF SavedWrites
  <2>4. CASE m.place = "card" /\ focus = "projectListing"
    <3>1. cards' = [cards EXCEPT ![m.item] = m.save] /\ cards \in [Projects -> BOOLEAN]
      BY <2>1, <2>4 DEF Saved!Hearts, Saved!TypeOK
    <3>2. ASSUME mounted, NEW p \in Projects, cards'[p] PROVE p \in Saved!Items(cached')
      <4>1. mounted => \A q \in Projects : cards[q] => q \in Saved!Items(cached)
        BY <2>1, <2>4 DEF SavedHeartsOfCopy
      <4>2. cards'[p] = IF p = m.item THEN m.save ELSE cards[p]
        BY <3>1
      <4> QED
        BY <2>3, <3>2, <4>1, <4>2
    <3> QED
      BY <2>1, <2>4, <3>2 DEF SavedHeartsOfCopy
  <2>5. CASE m.place = "detail" /\ focus = "projectDetails" /\ m.visit = detail.visit
    <3>1. m.item = detail.item
      BY <2>5 DEF SavedVisits, SavedNamed
    <3>2. detail'.added = m.save /\ detail'.item = detail.item
      BY <2>1, <2>5, <3>1 DEF Saved!Hearts, Saved!TypeOK
    <3> QED
      BY <2>1, <2>3, <2>5, <3>1, <3>2 DEF SavedHeartsOfCopy
  <2> QED
    BY <2>1, <2>4, <2>5 DEF Saved!Own
<1>6. ASSUME NEW m \in requests,
             Saved!Serve(m) \/ Saved!DeliverChange(m) \/ Saved!DeliverReload(m)
               \/ Saved!DeliverList(m) \/ Saved!Fail(m)
      PROVE  (\E a : SavedServes(m, a)) \/ SavedDrops(m) \/ SavedWrites(m) \/ SavedReloads(m)
  BY <1>6, SavedServeIs, SavedWritesIs, SavedReloadsIs, SavedDropsIs
<1> QED
  BY <1>1, <1>2, <1>3, <1>4, <1>5, <1>6 DEF Saved!Next

-----------------------------------------------------------------------------

SavedInv == Saved!TypeOK /\ SavedNamed /\ SavedVisits /\ SavedMirrored /\ SavedSingle /\ SavedHeartsOfCopy

LEMMA SavedInvInit == ASSUME Saved!ConstantsAssumption, Saved!Init PROVE SavedInv
<1>1. Saved!TypeOK
  <2>1. <<>> \in Seq(Projects)
    OBVIOUS
  <2>2. requests \subseteq Saved!Message
    BY <2>1 DEF Saved!Init, Saved!Message, Saved!Places
  <2>3. cards \in [Projects -> BOOLEAN] /\ detail \in [item : Projects \union {none}, added : BOOLEAN, visit : Nat]
    BY DEF Saved!Init
  <2>4. savedHist \in [stale : BOOLEAN, moved : BOOLEAN, again : BOOLEAN]
    BY DEF Saved!Init
  <2>5. cached \in Seq(Projects) /\ server \subseteq Projects
    BY <2>1 DEF Saved!Init
  <2>6. /\ focus \in Saved!Drawers \union {"projectDetails"} /\ below \in Saved!Drawers
        /\ mounted \in BOOLEAN /\ shown \subseteq Projects /\ overlay \in BOOLEAN
        /\ others \in 0 .. 2 /\ taps \in Nat
    <3>1. 0 \in 0 .. 2 /\ 1 \in Nat /\ {} \subseteq Projects
      OBVIOUS
    <3> QED
      BY <3>1 DEF Saved!Init, Saved!Drawers
  <2> QED
    BY <2>2, <2>3, <2>4, <2>5, <2>6 DEF Saved!TypeOK
<1>2. SavedNamed /\ SavedVisits
  BY DEF Saved!Init, SavedNamed, SavedVisits
<1>3. SavedMirrored /\ SavedHeartsOfCopy
  BY DEF Saved!Init, SavedMirrored, SavedHeartsOfCopy
<1>4. SavedSingle
  BY DEF Saved!Init, SavedSingle, SavedDistinct
<1> QED
  BY <1>1, <1>2, <1>3, <1>4 DEF SavedInv

LEMMA SavedInvStep ==
  ASSUME Saved!ConstantsAssumption, SavedInv, [Saved!Next]_(Saved!vars)
  PROVE  SavedInv'
<1>1. CASE Saved!Next
  BY <1>1, SavedNextType, SavedNextShapes, SavedNamedStep, SavedVisitsStep, SavedMirroredStep,
     SavedSingleStep, SavedHeartsStep
     DEF SavedInv
<1>2. CASE UNCHANGED Saved!vars
  <2>1. UNCHANGED <<server, cached, focus, below, mounted, cards, detail, shown, overlay, others,
                    requests, taps, savedHist>>
    BY <1>2 DEF Saved!vars, Saved!ui
  <2>2. Saved!TypeOK'
    BY <2>1 DEF SavedInv, Saved!TypeOK
  <2>3. SavedNamed' /\ SavedVisits'
    BY <2>1 DEF SavedInv, SavedNamed, SavedVisits
  <2>4. SavedMirrored' /\ SavedSingle'
    BY <2>1 DEF SavedInv, SavedMirrored, SavedSingle, Saved!Items, SavedDistinct, SavedPending
  <2>5. SavedHeartsOfCopy'
    BY <2>1 DEF SavedInv, SavedHeartsOfCopy, Saved!Items
  <2> QED
    BY <2>2, <2>3, <2>4, <2>5 DEF SavedInv
<1> QED
  BY <1>1, <1>2

LEMMA SavedInvAlways == Saved!Spec => []SavedInv
BY SavedInvInit, SavedInvStep, SavedAssumption, PTL DEF Saved!Spec

\* With nothing to deliver the copy is the server's.
LEMMA SavedNothingPending ==
    ASSUME SavedInv, Saved!Changing = {}, ~savedHist.stale
    PROVE  Saved!Items(cached) = server
<1>1. \A p : ~SavedPending(p)
  BY DEF SavedPending, Saved!Changing
<1>2. Saved!Items(cached) \subseteq Projects /\ server \subseteq Projects
  <2>1. cached \in Seq(Projects)
    BY DEF SavedInv, Saved!TypeOK
  <2> QED
    BY <2>1 DEF SavedInv, Saved!TypeOK, Saved!Items
<1> QED
  BY <1>1, <1>2 DEF SavedInv, SavedMirrored

\* Type correctness of the saved items: a copy is a list of projects, and what is
\* asked for and answered is about one.
THEOREM SavedTypeCorrect == Saved!Spec => []Saved!TypeOK
BY SavedInvAlways, PTL DEF SavedInv

\* With no change unanswered the copy in the store (actionSaveProject and
\* actionGetSavedProjects) is what the server holds, each project once, unless an
\* answer was built on an older copy or list (stale) or a save repeated (again).
THEOREM SavedCopyIsKept == Saved!Spec => []CopyIsTheServers
<1>1. ASSUME SavedInv PROVE CopyIsTheServers
  <2>1. ~savedHist.again => Cardinality(Saved!Items(cached)) = Len(cached)
    <3>1. cached \in Seq(Projects) /\ (~savedHist.again => SavedDistinct(cached))
      BY <1>1 DEF SavedInv, Saved!TypeOK, SavedSingle
    <3>2. SavedDistinct(cached) => Cardinality(Saved!Items(cached)) = Len(cached)
      BY <3>1, SavedDistinctCounts, SavedCardinality
    <3> QED
      BY <3>1, <3>2
  <2> QED
    BY <1>1, <2>1, SavedNothingPending, SavedCardinality
       DEF CopyIsTheServers, Saved!CopyIsTheServers
<1> QED
  BY <1>1, SavedInvAlways, PTL

\* With no change unanswered and the copy up to date, projectListing shows a heart
\* only on saved projects and projectDetails shows whether its project is saved
\* (setAdded and the effects), unless others wrote the copy under the screen (moved).
THEOREM SavedHeartsAreKept == Saved!Spec => []HeartsAreSaved
<1>1. ASSUME SavedInv PROVE HeartsAreSaved
  BY <1>1, SavedNothingPending DEF SavedInv, SavedHeartsOfCopy, HeartsAreSaved, Saved!HeartsAreSaved
<1> QED
  BY <1>1, SavedInvAlways, PTL
=============================================================================
