----------------------------- MODULE MCSession -----------------------------
(***************************************************************************)
(* Two instances that share nothing: the session of two people, the first   *)
(* of whom has a profile as a buyer and one as a seller (Session), and the  *)
(* categories of Home, of which there are three, two or all of them hidden  *)
(* perhaps (HomeCategories).  One of them moves while the other waits in an *)
(* initial state.                                                           *)
(***************************************************************************)
EXTENDS Session

CONSTANTS
    ada, bob, buyer, seller, other,
    Categories, none, MaxFocus, MaxLookUps      \* of HomeCategories

VARIABLES
    active,         \* the instance that moves
    present, hidden, settings, taxonomy, tab, categories, spinner, hide, requests,
    focuses, why

homeVars == <<present, hidden, settings, taxonomy, tab, categories, spinner, hide,
              requests, focuses, why>>

MCPerson == [p \in Profiles |-> IF p = other THEN bob ELSE ada]

HomeList == INSTANCE HomeCategories
    WITH None <- none, MaxPending <- MaxLookUps, screen <- tab, net <- requests

ASSUME HomeAssumption == HomeList!ConstantsAssumption

Symmetry == Permutations({buyer, seller}) \union Permutations(Categories)

MCInit ==
    /\ Init /\ HomeList!Init
    /\ active \in {"session", "home"}
    /\ active = "session" =>
          present = {} /\ hidden = {} /\ settings = none /\ taxonomy = HomeList!Empty
    /\ active = "home" =>
          taxonomy \in {HomeList!Empty, HomeList!Built(Categories, {})}

MCNext ==
    \/ active = "session" /\ Next /\ UNCHANGED <<active, homeVars>>
    \/ active = "home" /\ HomeList!Next /\ UNCHANGED <<active, vars>>

MCSpec == MCInit /\ [][MCNext]_<<active, vars, homeVars>>

\* Once no look-up is in flight Home offers every category that is not hidden, and
\* just these when one or none is hidden: if the settings had arrived when it asked,
\* and no look-up failed or was made with other settings.
CategoriesShown == HomeList!CategoriesShown
=============================================================================
