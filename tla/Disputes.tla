------------------------------- MODULE Disputes -------------------------------
(***************************************************************************)
(* A dispute: the list of disputes, which is fetched once (disputes.js),    *)
(* and the screen that shows one and replies to it (disputesDetails.js).    *)
(* The item shown is the list's own object.  A reply to the dispute of a    *)
(* project is pushed to its comments when it was accepted, one to that of   *)
(* an order is not; the item's status never changes.  The button of the     *)
(* sheet stays enabled, and nothing covers the screen.                      *)
(*                                                                         *)
(* The comments change in place: painted are those that were there when the *)
(* screen rendered last, and it renders when a state is set to another      *)
(* value (an answer renders at each one, in React 17); after the push       *)
(* refresh is set to the opposite of what it was when the button was        *)
(* touched.                                                                 *)
(*                                                                         *)
(* A comment is the number of the touch that typed it, or of the one after  *)
(* which the other party sent it; 0 is the empty text.                      *)
(***************************************************************************)
EXTENDS Naturals, FiniteSets, SequencesExt

CONSTANTS MaxTaps, MaxPending       \* bounds

VARIABLES
    user_type, project,     \* of the user; dispute_type == "project"
    comments, status,       \* the server's dispute
    item,                   \* the list's object: its comments and status
    visit, screen,          \* of the detail screen; "list" or "detail"
    availableTaskList,      \* the order was fetched
    description, selectedReply, open,       \* the sheet
    loading, refresh,       \* the spinner of its button
    painted,                \* how many of the comments are painted
    net,                    \* requests in flight
    taps,                   \* touches
    hist                    \* history: why the dispute may not be shown

sheet == <<description, selectedReply, open>>
shown == <<loading, refresh, painted>>
vars == <<user_type, project, comments, status, item, visit, screen, availableTaskList,
          sheet, shown, net, taps, hist>>

ConstantsAssumption == MaxTaps \in Nat /\ MaxPending \in Nat

Replies == {"reply", "refund", "decline"}
NoReply == ""
Statuses == {"publish", "refunded", "declined", "disputed"}
Reasons == {"others", "left", "lost", "order", "again"}
Request == [kind : {"order", "post"}, n : Nat, visit : Nat, text : Nat,
            action : Replies \union {NoReply}, refresh : BOOLEAN,
            stage : {"sent", "success", "error"}]

TypeOK ==
    /\ user_type \in {"buyers", "sellers"} /\ project \in BOOLEAN
    /\ comments \in Seq(Nat) /\ status \in Statuses
    /\ item \in [comments : Seq(Nat), status : Statuses]
    /\ visit \in Nat /\ screen \in {"list", "detail"} /\ availableTaskList \in BOOLEAN
    /\ description \in Nat /\ selectedReply \in Replies \union {NoReply} /\ open \in BOOLEAN
    /\ loading \in BOOLEAN /\ refresh \in BOOLEAN /\ painted \in Nat
    /\ net \subseteq Request /\ taps \in 0 .. MaxTaps /\ hist \subseteq Reasons

\* The list was fetched.
Init ==
    /\ user_type \in {"buyers", "sellers"} /\ project \in BOOLEAN
    /\ comments = <<>> /\ status \in Statuses
    /\ item = [comments |-> comments, status |-> status]
    /\ visit = 0 /\ screen = "list" /\ availableTaskList = FALSE
    /\ description = 0 /\ selectedReply = NoReply /\ open = FALSE
    /\ loading = FALSE /\ refresh = FALSE /\ painted = 0
    /\ net = {} /\ taps = 0 /\ hist = {}

-----------------------------------------------------------------------------
(* The user, and React                                                     *)

Tapped == taps < MaxTaps /\ taps' = taps + 1

Send(v, kind, text, action) ==
    /\ Cardinality(net) < MaxPending
    /\ net' = net \union {[kind |-> kind, n |-> taps, visit |-> v, text |-> text,
                           action |-> action, refresh |-> refresh, stage |-> "sent"]}

\* A state of the detail screen is set, which renders if it had another value.
Rendered(changed) == IF changed THEN Len(item.comments) ELSE painted

\* The list of comments renders for another reason.
Render ==
    /\ screen = "detail" /\ painted # Rendered(TRUE) /\ painted' = Rendered(TRUE)
    /\ UNCHANGED <<user_type, project, comments, status, item, visit, screen,
                   availableTaskList, sheet, loading, refresh, net, taps, hist>>

\* A row of the list: the screen is mounted, and its effect asks for the order.
Open ==
    /\ screen = "list" /\ Tapped /\ screen' = "detail" /\ visit' = visit + 1
    /\ availableTaskList' = FALSE /\ description' = 0 /\ selectedReply' = NoReply /\ open' = FALSE
    /\ loading' = FALSE /\ refresh' = FALSE /\ painted' = Rendered(TRUE)
    /\ Send(visit + 1, "order", 0, NoReply)
    /\ hist' = hist \ {"again"}
    /\ UNCHANGED <<user_type, project, comments, status, item>>

Leave ==
    /\ screen = "detail" /\ ~open /\ Tapped /\ screen' = "list"
    /\ UNCHANGED <<user_type, project, comments, status, item, visit, availableTaskList,
                   sheet, shown, net, hist>>

\* The three buttons: only "reply" clears what was typed.
OpenSheet(r) ==
    /\ screen = "detail" /\ ~open /\ Tapped
    /\ item.status = "publish" /\ (r # "reply" => user_type = "sellers")
    /\ open' = TRUE /\ selectedReply' = r
    /\ description' = IF r = "reply" THEN 0 ELSE description
    /\ painted' = Rendered(selectedReply' # selectedReply \/ description' # description)
    /\ UNCHANGED <<user_type, project, comments, status, item, visit, screen,
                   availableTaskList, loading, refresh, net, hist>>

CloseSheet ==
    /\ open /\ Tapped /\ open' = FALSE
    /\ UNCHANGED <<user_type, project, comments, status, item, visit, screen,
                   availableTaskList, description, selectedReply, shown, net, hist>>

SetDescription ==
    /\ open /\ Tapped /\ description' = taps' /\ painted' = Rendered(TRUE)
    /\ UNCHANGED <<user_type, project, comments, status, item, visit, screen,
                   availableTaskList, selectedReply, open, loading, refresh, net, hist>>

\* The button was touched before, at the same refresh, and not yet answered.
Again == \E m \in net : m.kind = "post" /\ m.visit = visit /\ m.refresh = refresh

\* taskPostReply, and postReply, which needs the order.
PostReply ==
    /\ open /\ Tapped /\ (project \/ availableTaskList)
    /\ Send(visit, "post", description, selectedReply)
    /\ loading' = TRUE /\ painted' = Rendered(~loading)
    /\ hist' = IF Again THEN hist \union {"again"} ELSE hist
    /\ UNCHANGED <<user_type, project, comments, status, item, visit, screen,
                   availableTaskList, sheet, refresh>>

-----------------------------------------------------------------------------
(* The server, and the other party                                         *)

Decided(action) ==
    IF action = "refund" THEN "refunded" ELSE IF action = "decline" THEN "declined" ELSE status

Served(m, stage) == net' = (net \ {m}) \union {[m EXCEPT !.stage = stage]}

Serve(m) ==
    /\ m.stage = "sent"
    /\ \/ Served(m, "success")
          /\ IF m.kind = "post"
             THEN comments' = Append(comments, m.text) /\ status' = Decided(m.action)
             ELSE UNCHANGED <<comments, status>>
       \/ Served(m, "error") /\ UNCHANGED <<comments, status>>
    /\ UNCHANGED <<user_type, project, item, visit, screen, availableTaskList, sheet, shown,
                   taps, hist>>

OtherReplies ==
    /\ Tapped /\ comments' = Append(comments, taps') /\ status' \in Statuses
    /\ hist' = hist \union {"others"}
    /\ UNCHANGED <<user_type, project, item, visit, screen, availableTaskList, sheet, shown,
                   net>>

-----------------------------------------------------------------------------
(* The answers                                                             *)

\* The screen the request is of is still the one that is mounted.
Mounted(m) == m.visit = visit /\ screen = "detail"

DeliverOrder(m) ==
    /\ m.kind = "order" /\ m.stage # "sent" /\ net' = net \ {m}
    /\ availableTaskList' = IF m.visit = visit THEN m.stage = "success" ELSE availableTaskList
    /\ painted' = Rendered(Mounted(m))
    /\ UNCHANGED <<user_type, project, comments, status, item, visit, screen, sheet, loading,
                   refresh, taps, hist>>

\* Mutant: what is in the sheet when the answer comes is pushed.
PushedNow(m) == [item EXCEPT !.comments = Append(@, description)]

Pushed(m) == [item EXCEPT !.comments = Append(@, m.text)]

\* Mutant: refresh is set to what it was.
Same(m) == m.refresh

\* setRefresh(!refresh).
Toggled(m) == ~m.refresh

\* The then of both: closing the sheet of a screen that was left throws, before
\* anything is pushed.  setLoading(false) comes first.
DeliverPost(m) ==
    LET mounted == Mounted(m)
        pushed  == mounted /\ project /\ m.stage = "success"
        why == (IF mounted THEN {} ELSE {"left"}) \union (IF project THEN {} ELSE {"order"})
    IN  /\ m.kind = "post" /\ m.stage # "sent" /\ net' = net \ {m}
        /\ loading' = (loading /\ ~mounted)
        /\ refresh' = IF pushed THEN Toggled(m) ELSE refresh
        /\ item' = IF pushed THEN Pushed(m) ELSE item
        /\ painted' = IF refresh' # refresh THEN Len(item'.comments)
                      ELSE Rendered(loading' # loading)
        /\ IF m.stage = "success"
           THEN open' = (open /\ ~mounted) /\ hist' = hist \union why
           ELSE UNCHANGED <<open, hist>>
        /\ UNCHANGED <<user_type, project, comments, status, visit, screen,
                       availableTaskList, description, selectedReply, taps>>

\* The catch of a reply takes the spinner down.
Fail(m) ==
    /\ net' = net \ {m}
    /\ loading' = (loading /\ ~(m.kind = "post" /\ Mounted(m)))
    /\ painted' = Rendered(loading' # loading)
    /\ hist' = IF m.kind = "post" /\ m.stage = "success" THEN hist \union {"lost"} ELSE hist
    /\ UNCHANGED <<user_type, project, comments, status, item, visit, screen,
                   availableTaskList, sheet, refresh, taps>>

Next ==
    \/ Render \/ Open \/ Leave \/ CloseSheet \/ SetDescription \/ PostReply \/ OtherReplies
    \/ \E r \in Replies : OpenSheet(r)
    \/ \E m \in net : Serve(m) \/ DeliverOrder(m) \/ DeliverPost(m) \/ Fail(m)

Spec == Init /\ [][Next]_vars

-----------------------------------------------------------------------------
Times(text, replies) == Cardinality({i \in DOMAIN replies : replies[i] = text})

\* When no reply is in flight, the list and the screen hold the replies the
\* server has, whatever was typed while they were in flight: unless the other
\* party wrote since the list was fetched, the screen was left before the
\* answer, the answer was lost, or the dispute is of an order.  All that the screen
\* holds is painted, unless the button was touched again before it was answered: the
\* second reply sets refresh to the value that the first one set.
RepliesShown ==
    /\ (\A m \in net : m.kind # "post") /\ hist \subseteq {"again"} =>
          \A text \in 0 .. MaxTaps : Times(text, item.comments) = Times(text, comments)
    /\ screen = "detail" /\ "again" \notin hist => painted = Len(item.comments)
=============================================================================
