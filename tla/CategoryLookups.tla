---------------------------- MODULE CategoryLookups ----------------------------
(***************************************************************************)
(* The screens on which a category is chosen: PostTaskStepOne (the "form"), *)
(* narrowSearch, searchProjects and Home.  A choice asks the server for its *)
(* sub-categories, and a sub-category for its types (those of a task on the *)
(* form, services on narrowSearch); answers come in any order, and a list   *)
(* that arrives replaces the one shown, whichever choice it is of.  The     *)
(* form saves what is chosen; a search sends slugs, which are kept apart    *)
(* from the names shown.  Home stays mounted while it is "away".            *)
(*                                                                         *)
(* Each behaviour is that of one screen.  Nothing else that the screens     *)
(* hold is related to the categories.                                       *)
(***************************************************************************)
EXTENDS Naturals, SequencesExt

CONSTANTS
    Tops, Subs, Types,      \* categories, sub-categories, types
    Parent,                 \* the category of a sub-category, and so on
    None,                   \* ''
    Undefined,              \* setSelectedSubCategory()
    MaxTaps, MaxPending     \* bounds

VARIABLES
    screen,     \* the screen of this behaviour
    chosen,     \* the category, sub-category and types shown as chosen
    slug,       \* the category and sub-category a search will send
    lists,      \* the sub-categories and types that can be chosen
    spin,       \* spinner and subSpinner
    asked,      \* look-ups in flight, in the order they were sent
    sent,       \* what the last touch saved or searched for
    taps,       \* touches
    hist        \* history

vars == <<screen, chosen, slug, lists, spin, asked, sent, taps, hist>>

Screens == {"form", "narrow", "projects", "home", "away"}
Filtered == {"narrow", "projects"}
Levels == {"sub", "task"}
Reasons == {"overtaken", "failed", "cleared", "early", "kept"}

ConstantsAssumption ==
    /\ Parent \in [Subs \union Types -> Tops \union Subs]
    /\ \A s \in Subs : Parent[s] \in Tops
    /\ \A y \in Types : Parent[y] \in Subs
    /\ {None, Undefined} \intersect (Tops \union Subs \union Types) = {}
    /\ None # Undefined /\ MaxTaps \in Nat /\ MaxPending \in Nat

Kids(c) == {k \in Subs \union Types : Parent[k] = c}

Choice == [cat : Tops \union {None}, sub : Subs \union {None, Undefined},
           types : SUBSET Types]
Empty == [cat |-> None, sub |-> None, types |-> {}]
NoReason == [sub |-> {}, task |-> {}]
Nothing == [choice |-> Empty, shown |-> Empty, why |-> NoReason]

\* A task's category_arr.
Items == {i \in Choice : /\ i.cat = None => i.sub = None
                         /\ i.sub \in Subs => Parent[i.sub] = i.cat
                         /\ i.sub # Undefined
                         /\ \A y \in i.types : Parent[y] = i.sub}

\* A screen that was just mounted.
NoSlug == [cat |-> None, sub |-> None]
NoLists == [sub |-> {}, task |-> {}]
NoSpin == [sub |-> FALSE, task |-> FALSE]
NoHist == [late |-> NoReason, picked |-> NoReason]

Init ==
    /\ screen \in Screens \ {"away"}
    /\ chosen = Empty /\ slug = NoSlug /\ lists = NoLists /\ spin = NoSpin
    /\ asked = <<>> /\ sent = Nothing /\ taps = 0 /\ hist = NoHist

-----------------------------------------------------------------------------
(* The user                                                                *)

Tapped == taps < MaxTaps /\ taps' = taps + 1

Pending(k) == \E i \in DOMAIN asked : asked[i].kind = k
Early(k) == IF Pending(k) THEN {"early"} ELSE {}

\* getSubCatAndTaskType; getSubCategories, getSubCategoriesServices.  What kept
\* the list from being that of the choice ends with a new look-up.
Ask(requests) ==
    /\ Len(asked) + Len(requests) <= MaxPending
    /\ asked' = asked \o requests
LateUnless(kinds) == [k \in Levels |-> IF k \in kinds THEN {} ELSE hist.late[k]]

\* Mutant: the form keeps what was chosen below the last category.
ChooseCategoryOnly(c) ==
    /\ screen = "form"
    /\ chosen' = [chosen EXCEPT !.cat = c]
    /\ Ask(<<[kind |-> "sub", of |-> c]>>)
    /\ spin' = [spin EXCEPT !.sub = TRUE]
    /\ hist' = [late |-> LateUnless({"sub"}), picked |-> NoReason]
    /\ sent' = Nothing /\ Tapped /\ UNCHANGED <<screen, slug, lists>>

\* The form: chooseCategory.
ChooseCategory(c) ==
    /\ screen = "form"
    /\ chosen' = [Empty EXCEPT !.cat = c]
    /\ Ask(<<[kind |-> "sub", of |-> c]>>)
    /\ spin' = [spin EXCEPT !.sub = TRUE]
    /\ hist' = [late |-> LateUnless({"sub"}), picked |-> NoReason]
    /\ sent' = Nothing /\ Tapped /\ UNCHANGED <<screen, slug, lists>>

\* A search: handelSelectedCategory, which leaves the sub-category as it is.
HandelSelectedCategory(c) ==
    /\ screen \in Filtered \union {"home"}
    /\ chosen' = [chosen EXCEPT !.cat = c] /\ slug' = [slug EXCEPT !.cat = c]
    /\ IF screen = "narrow"
       THEN /\ Ask(<<[kind |-> "sub", of |-> c]>>)
            /\ spin' = [spin EXCEPT !.sub = TRUE]
            /\ hist' = [late |-> LateUnless({"sub"}),
                        picked |-> IF slug.sub = None THEN hist.picked
                                   ELSE [hist.picked EXCEPT !.sub = @ \union {"kept"}]]
       ELSE UNCHANGED <<asked, spin, hist>>
    /\ sent' = Nothing /\ Tapped /\ UNCHANGED <<screen, lists>>

\* The form: chooseSubCategory, which leaves the types as they are.
ChooseSubCategory(s) ==
    /\ screen = "form" /\ chosen.cat # None /\ ~spin.sub /\ s \in lists.sub
    /\ chosen' = [chosen EXCEPT !.sub = s]
    /\ Ask(<<[kind |-> "task", of |-> s]>>)
    /\ spin' = [spin EXCEPT !.task = TRUE]
    /\ hist' = [late |-> LateUnless({"task"}),
                picked |-> [sub |-> hist.late.sub \union Early("sub"),
                            task |-> IF chosen.types = {} THEN {}
                                     ELSE hist.picked.task \union {"kept"}]]
    /\ sent' = Nothing /\ Tapped /\ UNCHANGED <<screen, slug, lists>>

\* narrowSearch: handelSelectedSubCategory.  Its sheet opens while the spinner
\* is shown.
HandelSelectedSubCategory(s) ==
    /\ screen = "narrow" /\ chosen.cat # None /\ s \in lists.sub
    /\ chosen' = [chosen EXCEPT !.sub = s] /\ slug' = [slug EXCEPT !.sub = s]
    /\ Ask(<<[kind |-> "task", of |-> s]>>)
    /\ spin' = [spin EXCEPT !.sub = TRUE]
    /\ hist' = [late |-> LateUnless({"task"}),
                picked |-> [hist.picked EXCEPT !.sub = hist.late.sub \union Early("sub")]]
    /\ sent' = Nothing /\ Tapped /\ UNCHANGED <<screen, lists>>

\* setSelectedTaskType; manageSelectedServices.
ToggleType(y) ==
    /\ screen # "projects" /\ y \in lists.task
    /\ screen = "form" => chosen.sub # None
    /\ chosen' = [chosen EXCEPT !.types = IF y \in @ THEN @ \ {y} ELSE @ \union {y}]
    /\ hist' = [hist EXCEPT !.picked.task = @ \union hist.late.task \union Early("task")]
    /\ sent' = Nothing /\ Tapped /\ UNCHANGED <<screen, slug, lists, spin, asked>>

\* Mutant: the services stay.
ClearNames ==
    /\ screen \in Filtered
    /\ chosen' = Empty
    /\ hist' = [hist EXCEPT !.late.task = IF Pending("task") THEN @ \union {"cleared"} ELSE @]
    /\ sent' = Nothing /\ Tapped /\ UNCHANGED <<screen, slug, lists, spin, asked>>

\* clearAllData: the names shown, not the slugs.
ClearAllData ==
    /\ screen \in Filtered
    /\ chosen' = Empty
    /\ lists' = [lists EXCEPT !.task = {}]
    /\ hist' = [hist EXCEPT !.late.task = IF Pending("task") THEN @ \union {"cleared"} ELSE @]
    /\ sent' = Nothing /\ Tapped /\ UNCHANGED <<screen, slug, spin, asked>>

\* The effect of the form when it gains the focus: filled from the task that is
\* edited, or emptied for a new one (item Undefined).  A form that is mounted
\* anew forgets its lists, and the look-ups sent before cannot reach it.
Show(item, mounted) ==
    LET new == item = Undefined
        before == IF mounted THEN Empty ELSE chosen
        requests == IF new \/ item.cat = None THEN <<>>
                    ELSE <<[kind |-> "sub", of |-> item.cat]>> \o
                         (IF item.sub = None THEN <<>>
                          ELSE <<[kind |-> "task", of |-> item.sub]>>)
        kinds == {requests[i].kind : i \in DOMAIN requests}
        old == IF mounted THEN <<>> ELSE asked
    IN  /\ screen = "form"
        /\ chosen' = IF new THEN [Empty EXCEPT !.sub = Undefined]
                     ELSE IF item.cat = None THEN [before EXCEPT !.types = item.types]
                     ELSE item
        /\ Len(old) + Len(requests) <= MaxPending /\ asked' = old \o requests
        /\ lists' = IF mounted THEN NoLists ELSE lists
        /\ spin' = [k \in Levels |-> k \in kinds \/ (~mounted /\ spin[k])]
        /\ hist' = [late |-> IF mounted THEN NoReason ELSE LateUnless(kinds),
                    picked |-> IF mounted \/ new \/ item.cat # None THEN NoReason
                               ELSE [hist.picked EXCEPT !.task = {}]]
        /\ sent' = Nothing /\ Tapped /\ UNCHANGED <<screen, slug>>

\* saveUpdateStepOne, which throws while the sub-category is undefined.
SaveStepOne ==
    /\ screen = "form" /\ chosen.sub # Undefined
    /\ sent' = [choice |-> chosen, shown |-> chosen, why |-> hist.picked]
    /\ Tapped /\ UNCHANGED <<screen, chosen, slug, lists, spin, asked, hist>>

Searched == [choice |-> [cat |-> slug.cat, sub |-> slug.sub, types |-> {}],
             shown |-> [chosen EXCEPT !.types = {}], why |-> hist.picked]

\* Home's button leads to another screen, as the drawer and its rows do.
SearchFromHome ==
    /\ screen = "home" /\ screen' = "away" /\ sent' \in {Nothing, Searched}
    /\ Tapped /\ UNCHANGED <<chosen, slug, lists, spin, asked, hist>>

\* The effect of Home when it gains the focus again: the name goes, the slug stays.
FocusHome ==
    /\ screen = "away" /\ screen' = "home"
    /\ chosen' = [chosen EXCEPT !.cat = None] /\ sent' = Nothing
    /\ Tapped /\ UNCHANGED <<slug, lists, spin, asked, hist>>

\* searchTask, searchProjects: the services chosen are not sent.  The screen is
\* left, and mounted anew when it is opened again.
Search ==
    /\ screen \in Filtered /\ sent' = Searched
    /\ chosen' = Empty /\ slug' = NoSlug /\ lists' = NoLists /\ spin' = NoSpin
    /\ asked' = <<>> /\ hist' = NoHist
    /\ Tapped /\ UNCHANGED screen

-----------------------------------------------------------------------------
(* The answers                                                             *)

Older(i) == \E j \in 1 .. i - 1 : asked[j].kind = asked[i].kind
Newer(i) == \E j \in i + 1 .. Len(asked) : asked[j].kind = asked[i].kind

Filled(i) == [lists EXCEPT ![asked[i].kind] = Kids(asked[i].of)]

\* Either answer ends both spinners.
Answer(i) ==
    /\ lists' = Filled(i)
    /\ hist' = IF Older(i)
               THEN [hist EXCEPT !.late[asked[i].kind] = @ \union {"overtaken"}] ELSE hist
    /\ spin' = NoSpin /\ asked' = RemoveAt(asked, i)
    /\ UNCHANGED <<screen, chosen, slug, sent, taps>>

Fail(i) ==
    /\ hist' = IF Newer(i) THEN hist
               ELSE [hist EXCEPT !.late[asked[i].kind] = @ \union {"failed"}]
    /\ spin' = NoSpin /\ asked' = RemoveAt(asked, i)
    /\ UNCHANGED <<screen, chosen, slug, lists, sent, taps>>

Next ==
    \/ \E c \in Tops : ChooseCategory(c) \/ HandelSelectedCategory(c)
    \/ \E s \in Subs : ChooseSubCategory(s) \/ HandelSelectedSubCategory(s)
    \/ \E y \in Types : ToggleType(y)
    \/ ClearAllData \/ SaveStepOne \/ Search \/ SearchFromHome \/ FocusHome
    \/ \E item \in Items \union {Undefined}, mounted \in BOOLEAN : Show(item, mounted)
    \/ \E i \in DOMAIN asked : Answer(i) \/ Fail(i)

Spec == Init /\ [][Next]_vars

-----------------------------------------------------------------------------
TypeOK ==
    /\ screen \in Screens /\ chosen \in Choice
    /\ slug \in [cat : Tops \union {None}, sub : Subs \union {None}]
    /\ lists \in [Levels -> SUBSET (Subs \union Types)] /\ spin \in [Levels -> BOOLEAN]
    /\ asked \in Seq([kind : Levels, of : Tops \union Subs])
    /\ sent \in [choice : Choice, shown : Choice, why : [Levels -> SUBSET Reasons]]
    /\ taps \in Nat
    /\ hist \in [late : [Levels -> SUBSET Reasons], picked : [Levels -> SUBSET Reasons]]

\* What can be chosen below a choice is what the server has below it, once no
\* look-up is in flight: unless the answers arrived out of order, the last one
\* failed, or it arrived after the filters were cleared.
ListsFollowChoice ==
    /\ chosen.cat # None /\ ~Pending("sub") /\ hist.late.sub = {}
       /\ screen \in {"form", "narrow"}
       => lists.sub = Kids(chosen.cat)
    /\ chosen.sub \in Subs /\ ~Pending("task") /\ hist.late.task = {}
       => lists.task = Kids(chosen.sub)
    /\ screen = "narrow" /\ chosen.sub = None /\ ~Pending("task") /\ hist.late.task = {}
       => lists.task = {}

\* A task is saved, and a search made, with a sub-category of its category and
\* types of its sub-category: unless one was picked from a list that was not of
\* the choice (late, or before the answer, since either answer ends both
\* spinners), or was kept when what it is below was chosen again.
SentBelongTogether ==
    /\ sent.choice.sub \in Subs /\ sent.why.sub = {}
       => Parent[sent.choice.sub] = sent.choice.cat
    /\ sent.why.task = {} =>
       \A y \in sent.choice.types : Parent[y] = sent.choice.sub

\* "Clear all filters" (constants/translation.js:352): a search filters by the
\* category that is shown.
SearchIsWhatIsShown == sent.choice.cat = sent.shown.cat
=============================================================================
