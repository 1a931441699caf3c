---------------------------- MODULE HomeCategories ----------------------------
(***************************************************************************)
(* The categories of Home (home/Home.js), which the wizards of projects and *)
(* of tasks offer too, from the store.  The server's setting                *)
(* hide_product_cat names categories to leave out.  The splash screen and   *)
(* Home each ask for the settings, and Home asks for the categories twice   *)
(* when it is mounted and at each focus; the loop that leaves the hidden    *)
(* ones out reads the settings of the render that asked.  The store,        *)
(* settings and categories included, comes back from the disk when the      *)
(* program starts, so a behaviour starts with what an earlier one left.     *)
(*                                                                         *)
(* A category is pushed once for each hidden one that it differs from: the  *)
(* lists are therefore kept as the number of times each category occurs.    *)
(***************************************************************************)
EXTENDS Naturals, FiniteSets, SequencesExt

CONSTANTS
    Categories,     \* all categories there can be
    None,           \* ''; settings: {}; an empty answer
    MaxFocus,       \* how often Home gains the focus
    MaxPending      \* requests in flight

VARIABLES
    present, hidden,    \* the server: the categories, and the setting
    settings, taxonomy, \* the store: hide_product_cat, categoriesTaxonomy
    screen,             \* "preloader", "home", or "away"
    categories,         \* the list of Home
    spinner, hide,      \* categoriesSpinner, hideCategory
    net,                \* requests in flight, in the order they were sent
    focuses,            \* how often Home gained the focus
    why                 \* history: why the list may not be that of the settings

vars == <<present, hidden, settings, taxonomy, screen, categories, spinner, hide,
          net, focuses, why>>

ConstantsAssumption ==
    /\ IsFiniteSet(Categories) /\ \A s \in SUBSET Categories : s # None
    /\ MaxFocus \in Nat /\ MaxPending \in Nat \ {0}

-----------------------------------------------------------------------------
(* The loop of getCategories                                               *)

Lists == [Categories -> 0 .. Cardinality(Categories)]
Empty == [c \in Categories |-> 0]

\* Mutant: nothing is pushed when nothing is hidden.
BuiltByLoop(all, skip) ==
    [c \in Categories |-> IF c \in all THEN Cardinality(skip \ {c}) ELSE 0]

\* A category for each hidden one it differs from; every category once when none
\* is hidden.
Built(all, skip) ==
    [c \in Categories |->
        IF c \notin all THEN 0
        ELSE IF skip = {} THEN 1 ELSE Cardinality(skip \ {c})]

-----------------------------------------------------------------------------
(* Requests: for the settings, and for the categories with the settings of  *)
(* the render that asked                                                   *)

AskSettings == [kind |-> "settings", settings |-> None]
AskCategories == [kind |-> "categories", settings |-> settings]
Asked(kind) == {i \in DOMAIN net : net[i].kind = kind}

Request == [kind : {"settings", "categories"}, settings : (SUBSET Categories) \union {None}]

TypeOK ==
    /\ present \subseteq Categories /\ hidden \subseteq Categories
    /\ settings \in (SUBSET Categories) \union {None}
    /\ taxonomy \in Lists /\ categories \in Lists
    /\ screen \in {"preloader", "home", "away"}
    /\ spinner \in BOOLEAN /\ hide \in BOOLEAN
    /\ net \in Seq(Request) /\ Len(net) <= MaxPending
    /\ focuses \in 0 .. MaxFocus
    /\ why \subseteq {"unknown", "overtaken", "failed"}

\* The program starts: the splash screen asks for the settings.
Init ==
    /\ present \in SUBSET Categories /\ hidden \in SUBSET Categories
    /\ settings \in (SUBSET Categories) \union {None}
    /\ taxonomy \in {Empty} \union {Built(Categories, s) : s \in SUBSET Categories}
    /\ screen = "preloader" /\ categories = Empty /\ spinner = TRUE /\ hide = FALSE
    /\ net = <<AskSettings>> /\ focuses = 0 /\ why = {}

-----------------------------------------------------------------------------
(* Focus                                                                   *)

\* getSettings and getCategories, by the effects of a render.
Ask(times) ==
    LET both == <<AskSettings, AskCategories>>
    IN  /\ Len(net) + 2 * times <= MaxPending
        /\ net' = net \o (IF times = 1 THEN both
                          ELSE <<AskCategories, AskSettings>> \o both)
        /\ focuses < MaxFocus /\ focuses' = focuses + 1
        /\ why' = (IF settings = hidden THEN {} ELSE {"unknown"})
                  \union (IF \E i \in DOMAIN net :
                                 net[i].kind = "categories" /\ net[i].settings # hidden
                          THEN {"overtaken"} ELSE {})

\* The timer of the splash screen: both effects of Home run.
Mount ==
    /\ screen = "preloader" /\ screen' = "home" /\ Ask(2)
    /\ UNCHANGED <<present, hidden, settings, taxonomy, categories, spinner, hide>>

Leave ==
    /\ screen = "home" /\ screen' = "away"
    /\ UNCHANGED <<present, hidden, settings, taxonomy, categories, spinner, hide, net,
                   focuses, why>>

Focus ==
    /\ screen = "away" /\ screen' = "home" /\ Ask(1)
    /\ UNCHANGED <<present, hidden, settings, taxonomy, categories, spinner, hide>>

-----------------------------------------------------------------------------
(* The answers                                                             *)

\* getSettings' then, of the splash screen and of Home.
DeliverSettings(i) ==
    /\ net[i].kind = "settings" /\ settings' = hidden /\ net' = RemoveAt(net, i)
    /\ UNCHANGED <<present, hidden, taxonomy, screen, categories, spinner, hide, focuses,
                   why>>

\* getCategories' then: the loop throws when the settings were not known.
DeliverCategories(i) ==
    /\ net[i].kind = "categories" /\ net' = RemoveAt(net, i)
    /\ IF present = {}
       THEN hide' = TRUE /\ UNCHANGED <<categories, taxonomy, spinner>>
       ELSE IF net[i].settings = None
       THEN UNCHANGED <<categories, taxonomy, spinner, hide>>
       ELSE /\ categories' = Built(present, net[i].settings)
            /\ taxonomy' = categories' /\ spinner' = FALSE /\ UNCHANGED hide
    /\ UNCHANGED <<present, hidden, settings, screen, focuses, why>>

Fail(i) ==
    /\ net' = RemoveAt(net, i)
    /\ why' = IF net[i].kind = "categories" THEN why \union {"failed"} ELSE why
    /\ UNCHANGED <<present, hidden, settings, taxonomy, screen, categories, spinner, hide,
                   focuses>>

Next ==
    \/ Mount \/ Leave \/ Focus
    \/ \E i \in DOMAIN net : DeliverSettings(i) \/ DeliverCategories(i) \/ Fail(i)

Spec == Init /\ [][Next]_vars

-----------------------------------------------------------------------------
\* Once no look-up of categories is in flight, Home and the wizards offer every
\* category that is not hidden, and just these, once each, when one or none is
\* hidden: with more, the hidden ones are offered too.  Not so when the
\* settings had not arrived when Home asked, as at the first start; when an
\* earlier look-up, with other settings, was still in flight; or one failed.
CategoriesShown ==
    screen # "preloader" /\ Asked("categories") = {} /\ why = {} =>
        IF present = {} THEN hide
        ELSE /\ ~spinner /\ taxonomy = categories
             /\ \A c \in present \ hidden : categories[c] >= 1
             /\ Cardinality(hidden) <= 1 =>
                   \A c \in Categories :
                       categories[c] = IF c \in present \ hidden THEN 1 ELSE 0
=============================================================================
