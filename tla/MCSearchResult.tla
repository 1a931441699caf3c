---------------------------- MODULE MCSearchResult ----------------------------
(***************************************************************************)
(* Two instances that share nothing: the list of sellers (SearchResult),    *)
(* where t1 and t3 have many results and every other text none, and the     *)
(* saved projects (SavedItems).  One of them moves while the other waits in *)
(* an initial state.                                                        *)
(***************************************************************************)
EXTENDS SearchResult, TLC

CONSTANTS
    t1, t3,
    Projects, none, MaxTouches, MaxChanges      \* of SavedItems

VARIABLES
    active,         \* the instance that moves
    server, cached, focus, below, mounted, cards, detail, shown, overlay, others,
    requests, taps, savedHist

savedVars == <<server, cached, focus, below, mounted, cards, detail, shown, overlay,
               others, requests, taps, savedHist>>

MCPages == [t \in Texts |-> IF t \in {t1, t3} THEN 8 ELSE 0]

Saved == INSTANCE SavedItems
    WITH None <- none, MaxTaps <- MaxTouches, MaxPending <- MaxChanges,
         loader <- overlay, net <- requests, hist <- savedHist

ASSUME SavedAssumption == Saved!ConstantsAssumption

\* The texts with results are interchangeable.
TextSymmetry == Permutations({t1, t3})

MCInit ==
    /\ Init /\ Saved!Init
    /\ active \in {"sellers", "saved"}
    /\ active = "sellers" => server = {}
    /\ active = "saved" => search.text \notin {t1, t3} /\ search.types = "none"

MCNext ==
    \/ active = "sellers" /\ Next /\ UNCHANGED <<active, savedVars>>
    \/ active = "saved" /\ Saved!Next /\ UNCHANGED <<active, vars>>

MCSpec == MCInit /\ [][MCNext]_<<active, vars, savedVars>>

\* The copy of the saved projects in the store has those the server has, each once,
\* whenever no change is in flight: unless an answer was built on an older copy or
\* an older list, or a heart was touched on a screen that did not know of it.
CopyIsTheServers == Saved!CopyIsTheServers

\* projectListing shows a heart only on projects that are saved, if the copy was not
\* written by others since it gained the focus and was not empty then, and
\* projectDetails shows whether its project is saved.
HeartsAreSaved == Saved!HeartsAreSaved
=============================================================================
