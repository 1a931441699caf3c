------------------------------ MODULE SavedItems ------------------------------
(***************************************************************************)
(* Saved projects: the list on the server, its copy `savedProjects` in      *)
(* SavedSlice, and the hearts that screens show.  Home reloads the copy     *)
(* when it gains the focus.  A card of projectListing and the screen        *)
(* projectDetails save and remove; their answers write the copy anew from   *)
(* the one they captured.  savedItem removes, and lists what the server     *)
(* has.                                                                    *)
(***************************************************************************)
EXTENDS Naturals, Sequences, FiniteSets

CONSTANTS
    Projects,
    None,                       \* no project is open in projectDetails
    MaxTaps, MaxPending         \* bounds

VARIABLES
    server,         \* the projects saved, as the server knows them
    cached,         \* state.saved.savedProjects, a sequence
    focus, below,   \* the screen with the focus; what projectDetails lies on
    mounted,        \* whether projectListing has rendered its cards
    cards,          \* `added` of the cards of projectListing
    detail,         \* projectDetails: its item, its `added`, which visit
    shown, loader,  \* savedItem: its own list, its overlay
    others,         \* its requests for sellers and tasks in flight
    net, taps,
    hist            \* history

ui == <<focus, below, mounted, cards, detail, shown, loader>>
vars == <<server, cached, ui, others, net, taps, hist>>

Drawers == {"home", "projectListing", "savedItem"}
Places == {"card", "detail", "savedItem"}

\* change: update-saveditem; reload: get-saved-items; list: get_projects of
\* savedItem.  list is the copy captured by a change, what the server
\* answers a reload, and visit the visit of projectDetails it came from.
Message ==
    [n : Nat, kind : {"change", "reload", "list"}, item : Projects \union {None},
     save : BOOLEAN, place : Places, visit : Nat, list : Seq(Projects),
     stage : {"sent", "ok", "error"}]

ConstantsAssumption ==
    /\ IsFiniteSet(Projects) /\ None \notin Projects
    /\ MaxTaps \in Nat /\ MaxPending \in Nat

TypeOK ==
    /\ server \subseteq Projects
    /\ cached \in Seq(Projects)
    /\ focus \in Drawers \union {"projectDetails"} /\ below \in Drawers
    /\ mounted \in BOOLEAN
    /\ cards \in [Projects -> BOOLEAN]
    /\ detail \in [item : Projects \union {None}, added : BOOLEAN, visit : Nat]
    /\ shown \subseteq Projects /\ loader \in BOOLEAN
    /\ others \in 0 .. 2
    /\ net \subseteq Message
    /\ taps \in Nat
    /\ hist \in [stale : BOOLEAN, moved : BOOLEAN, again : BOOLEAN]

Items(s) == {s[i] : i \in DOMAIN s}

\* The items of s that are not p, in their order.
Without(s, p) ==
    LET kept[i \in 0 .. Len(s)] ==
            IF i = 0 THEN <<>>
            ELSE IF s[i] = p THEN kept[i - 1] ELSE Append(kept[i - 1], s[i])
    IN  kept[Len(s)]

\* Mutant: saving leaves the other items out.
ChangedAlone(s, p, save) ==
    IF save THEN <<p>> ELSE Without(s, p)

\* A change that is delivered writes the captured copy, with its own item
\* added at the end, or every occurrence of it removed.
Changed(s, p, save) ==
    IF save THEN Append(s, p) ELSE Without(s, p)

Request(kind, p, save, place) ==
    [n |-> taps, kind |-> kind, item |-> p, save |-> save, place |-> place,
     visit |-> detail.visit,
     list |-> IF kind = "change" THEN cached ELSE <<>>, stage |-> "sent"]

Reload == Request("reload", None, FALSE, "card")
GetSavedProjects == Request("list", None, FALSE, "savedItem")

\* Mutant: the effect of the cards does not compare.
CardEffectAlways(old) ==
    IF cached = <<>> THEN old ELSE [p \in Projects |-> TRUE]

\* The effect of a mounted card when its screen has the focus: it compares
\* with one entry after the other, so that the last one decides.
CardEffect(old) ==
    IF cached = <<>> THEN old
    ELSE [p \in Projects |-> p = cached[Len(cached)]]

Init ==
    /\ server \in SUBSET Projects
    /\ cached = <<>>
    /\ focus = "home" /\ below = "home"
    /\ mounted = FALSE /\ cards = [p \in Projects |-> FALSE]
    /\ detail = [item |-> None, added |-> FALSE, visit |-> 0]
    /\ shown = {} /\ loader = FALSE /\ others = 0
    /\ net = {[n |-> 0, kind |-> "reload", item |-> None, save |-> FALSE,
               place |-> "card", visit |-> 0, list |-> <<>>, stage |-> "sent"]}
    /\ taps = 1
    /\ hist = [stale |-> TRUE, moved |-> FALSE, again |-> FALSE]

-----------------------------------------------------------------------------
(* The user                                                                *)

\* The overlay of savedItem covers the drawer too.
CanTap == taps <= MaxTaps /\ ~(focus = "savedItem" /\ loader)

Tapped == CanTap /\ taps' = taps + 1

Send(ms) ==
    /\ net' = net \union ms
    /\ Cardinality(net') <= MaxPending

\* What the screens do when they gain the focus.
Show(s) ==
    /\ focus' = s
    /\ cards' = IF s = "projectListing" /\ mounted THEN CardEffect(cards) ELSE cards
    /\ hist' = [hist EXCEPT !.moved = cached = <<>>]
    /\ loader' = (loader \/ s = "savedItem")
    /\ others' = IF s = "savedItem" THEN 2 ELSE others
    /\ Send(CASE s = "home"      -> {Reload}
              [] s = "savedItem" -> {GetSavedProjects}
              [] OTHER           -> {})

Navigate(s) ==
    /\ focus \in Drawers \ {s}
    /\ Show(s) /\ Tapped
    /\ UNCHANGED <<server, cached, below, mounted, detail, shown>>

\* The first answer of get_projects: projectListing renders its cards.
MountCards ==
    /\ focus = "projectListing" /\ ~mounted
    /\ mounted' = TRUE
    /\ cards' = CardEffect([p \in Projects |-> FALSE])
    /\ hist' = [hist EXCEPT !.moved = FALSE]
    /\ UNCHANGED <<server, cached, focus, below, detail, shown, loader, others,
                   net, taps>>

OpenDetails(p) ==
    /\ focus \in Drawers /\ (focus = "savedItem" => p \in shown)
    /\ focus' = "projectDetails" /\ below' = focus
    /\ detail' = [item |-> p, added |-> p \in Items(cached),
                  visit |-> detail.visit + 1]
    /\ Tapped
    /\ hist' = [hist EXCEPT !.moved = FALSE]
    /\ UNCHANGED <<server, cached, mounted, cards, shown, loader, others, net>>

\* Back from sendProposal: the effect looks again, and can only set the heart.
Refocus ==
    /\ focus = "projectDetails"
    /\ detail' = [detail EXCEPT !.added = @ \/ detail.item \in Items(cached)]
    /\ Tapped
    /\ UNCHANGED <<server, cached, focus, below, mounted, cards, shown, loader,
                   others, net, hist>>

GoBack ==
    /\ focus = "projectDetails"
    /\ Show(below) /\ Tapped
    /\ detail' = [detail EXCEPT !.item = None, !.added = FALSE]
    /\ UNCHANGED <<server, cached, below, mounted, shown>>

\* A save of what the copy already has.
Again(p, save) ==
    hist' = [hist EXCEPT !.again = @ \/ (save /\ p \in Items(cached))]

\* AddToSaveList of a card.
ToggleCard(p) ==
    /\ focus = "projectListing" /\ mounted
    /\ Send({Request("change", p, ~cards[p], "card")})
    /\ Again(p, ~cards[p])
    /\ Tapped /\ UNCHANGED <<server, cached, ui, others>>

\* AddToSaveList of projectDetails.
ToggleDetail ==
    /\ focus = "projectDetails"
    /\ Send({Request("change", detail.item, ~detail.added, "detail")})
    /\ Again(detail.item, ~detail.added)
    /\ Tapped /\ UNCHANGED <<server, cached, ui, others>>

RemoveToSaveList(p) ==
    /\ focus = "savedItem" /\ p \in shown
    /\ loader' = TRUE
    /\ Send({Request("change", p, FALSE, "savedItem")})
    /\ Tapped
    /\ UNCHANGED <<server, cached, focus, below, mounted, cards, detail, shown,
                   others, hist>>

-----------------------------------------------------------------------------
(* The server, external                                                    *)

\* The orders in which the items of a set may be listed.
Orders(S) ==
    {s \in [1 .. Cardinality(S) -> S] : \A i, j \in DOMAIN s : s[i] = s[j] => i = j}

Answer(m, stage, list) ==
    net' = (net \ {m}) \union {[m EXCEPT !.stage = stage, !.list = list]}

Serve(m) ==
    /\ m.stage = "sent"
    /\ \/ /\ m.kind = "change"
          /\ server' = IF m.save THEN server \union {m.item} ELSE server \ {m.item}
          /\ Answer(m, "ok", m.list)
       \/ /\ m.kind = "change"
          /\ Answer(m, "error", m.list) /\ UNCHANGED server
       \/ /\ m.kind # "change"
          /\ \E s \in Orders(server) : Answer(m, "ok", s)
          /\ UNCHANGED server
    /\ UNCHANGED <<cached, ui, others, taps, hist>>

-----------------------------------------------------------------------------
(* The answers                                                             *)

Changing == {m \in net : m.kind = "change"}

\* Whether the copy is written from something that is out of date: a captured
\* copy that is no longer the one in the store, a change that a later one of
\* its item has undone, or a list that has changed on the server.  A reload that is up to date repairs it.
Stale(m) ==
    CASE m.kind = "change" -> \/ hist.stale
                                \/ Items(m.list) # Items(cached)
                                \/ m.save # (m.item \in server)
      [] m.kind = "reload" -> Changing # {} \/ Items(m.list) # server

\* A change made on the screen that has the focus; any other answer writes
\* the copy under the screen, which does not look at it again.
Own(m) ==
    \/ m.place = "card" /\ focus = "projectListing"
    \/ m.place = "detail" /\ focus = "projectDetails" /\ m.visit = detail.visit

\* setAdded of the card, or of projectDetails if it is still mounted.
Hearts(m) ==
    /\ cards' = IF m.place = "card" THEN [cards EXCEPT ![m.item] = m.save] ELSE cards
    /\ detail' = IF m.place = "detail" /\ m.item = detail.item /\ m.visit = detail.visit
                 THEN [detail EXCEPT !.added = m.save] ELSE detail

\* The then of AddToSaveList and of RemoveToSaveList, which lists anew.
DeliverChange(m) ==
    /\ m.kind = "change" /\ m.stage = "ok"
    /\ cached' = Changed(m.list, m.item, m.save)
    /\ Hearts(m)
    /\ hist' = [hist EXCEPT !.stale = Stale(m), !.moved = @ \/ ~Own(m)]
    /\ loader' = (m.place = "savedItem" \/ loader)
    /\ net' = (net \ {m}) \union
                 (IF m.place = "savedItem" THEN {[GetSavedProjects EXCEPT !.n = m.n]} ELSE {})
    /\ UNCHANGED <<server, focus, below, mounted, shown, others, taps>>

\* getsavedItems.
DeliverReload(m) ==
    /\ m.kind = "reload" /\ m.stage = "ok"
    /\ cached' = m.list
    /\ hist' = [hist EXCEPT !.stale = Stale(m), !.moved = TRUE]
    /\ net' = net \ {m}
    /\ UNCHANGED <<server, ui, others, taps>>

\* getSavedProjects of savedItem.
DeliverList(m) ==
    /\ m.kind = "list" /\ m.stage = "ok"
    /\ shown' = Items(m.list) /\ loader' = FALSE
    /\ net' = net \ {m}
    /\ UNCHANGED <<server, cached, focus, below, mounted, cards, detail, others,
                   taps, hist>>

\* An answer of type 'error', or the catch: the overlay goes.  A lost change
\* may have been carried out.
Fail(m) ==
    /\ loader' = (loader /\ m.place # "savedItem")
    /\ net' = net \ {m}
    /\ hist' = IF m.kind = "change" /\ m.stage # "error"
               THEN [hist EXCEPT !.stale = TRUE] ELSE hist
    /\ UNCHANGED <<server, cached, focus, below, mounted, cards, detail, shown,
                   others, taps>>

\* getSavedSeller and getSavedTask take the overlay down as well.
OtherTab ==
    /\ others > 0 /\ others' = others - 1
    /\ loader' = FALSE
    /\ UNCHANGED <<server, cached, focus, below, mounted, cards, detail, shown,
                   net, taps, hist>>

Next ==
    \/ \E s \in Drawers : Navigate(s)
    \/ MountCards \/ Refocus \/ GoBack \/ ToggleDetail \/ OtherTab
    \/ \E p \in Projects : OpenDetails(p) \/ ToggleCard(p) \/ RemoveToSaveList(p)
    \/ \E m \in net :
          Serve(m) \/ DeliverChange(m) \/ DeliverReload(m) \/ DeliverList(m) \/ Fail(m)

Spec == Init /\ [][Next]_vars

-----------------------------------------------------------------------------
\* The copy in the store has exactly the projects the server has, whenever no
\* change is in flight: only an answer that was built on an older copy or an
\* older list makes it differ, and only until the next reload.  It has none of
\* them twice, however often a heart is touched, unless it was touched on a
\* screen that did not know the project was saved.
CopyIsTheServers ==
    /\ Changing = {} /\ ~hist.stale => Items(cached) = server
    /\ ~hist.again => Cardinality(Items(cached)) = Len(cached)

\* projectListing shows a heart only on projects that are saved, if the copy
\* was not written by others since it gained the focus and was not empty then:
\* with nothing to compare with, a card keeps what it showed.  It does not show
\* all that are saved: the effect of a card keeps the last comparison.
\* projectDetails shows whether its project is saved, if the copy was not
\* written by others since it was opened.
HeartsAreSaved ==
    Changing = {} /\ ~hist.stale /\ ~hist.moved =>
        /\ focus = "projectListing" /\ mounted =>
              \A p \in Projects : cards[p] => p \in server
        /\ focus = "projectDetails" => (detail.added <=> detail.item \in server)
=============================================================================
