------------------------------ MODULE MCContract ------------------------------
(***************************************************************************)
(* A buyer and a seller on the screens of ProjectActivity, in four          *)
(* situations: both work through one milestone; the buyer goes between two  *)
(* proposals; the seller creates milestones; the buyer pays, comments and   *)
(* disputes on a network that loses messages.                               *)
(***************************************************************************)
EXTENDS ProjectActivity

CONSTANTS buyer, seller, p1, p2, p3, m1, m2, m3, m4, m5

VARIABLE situation

MCOwner == [k \in {m1, m2, m3, m4, m5} |->
               CASE k = m2 -> p2 [] k = m5 -> p3 [] OTHER -> p1]
MCListed == [s \in {buyer, seller} |-> IF s = buyer THEN {p1, p2, p3} ELSE {p1}]
MCTaps == [s \in {buyer, seller} |-> IF s = buyer THEN 4 ELSE 6]

\* The milestones of ks start in one of sts, no other exists.
Starts(ks, sts) ==
    {[k \in {m1, m2, m3, m4, m5} |-> IF k \in ks THEN f[k] ELSE "absent"] :
        f \in [ks -> sts]}

StartsOf(sit) ==
    CASE sit = "contract" -> Starts({m1}, {""})
      [] sit = "board"    -> Starts({m1, m2}, {"", "requested"})
      [] sit = "create"   -> Starts({m1, m3, m4}, {"absent", "hired"})
      [] sit = "overlay"  -> Starts({m5}, {""})

Situations == {"contract", "board", "create", "overlay"}
MCStarts == UNION {StartsOf(sit) : sit \in Situations}

MCInit ==
    /\ Init
    /\ situation \in Situations
    /\ status \in StartsOf(situation)
    /\ ui[buyer].disputed \subseteq {p3}
    /\ ui[buyer].disputed # {} => situation = "overlay"
    /\ ui[buyer].selected \in CASE situation = "board"   -> {p1, p2}
                                [] situation = "overlay" -> {p3}
                                [] OTHER                 -> {p1}

\* What is asked for, and opened, in the situation.
Only(kinds, dialogs) ==
    /\ \A m \in net' : m.kind \in kinds \union {"amounts"}
    /\ \A s \in Screens : ui'[s].open \subseteq dialogs

Reliable == \A s \in Screens : ~hist'[s].failed

Buyer == User(buyer) \/ Network(buyer) \/ \E k \in Milestones : PayAtCheckout(k)
Seller == User(seller) \/ Network(seller)

ContractNext ==
    /\ situation = "contract" /\ (Buyer \/ Seller)
    /\ Only({"status", "pay", "checkout"}, {"wallet", "decline"})
    /\ Reliable /\ taps'[seller] <= 2 /\ ui'[buyer].selected = p1

BoardNext ==
    /\ situation = "board" /\ Buyer
    /\ Only({"status", "pay", "checkout"}, {"wallet", "decline"})
    /\ Reliable /\ ui'[buyer].selected # p3

CreateNext ==
    /\ situation = "create" /\ Seller
    /\ Only({"status", "add"}, {"menu", "add"})
    /\ Reliable

OverlayNext ==
    /\ situation = "overlay" /\ Buyer
    /\ Only(Kinds \ {"status", "add"}, Modals \ {"decline", "add"})
    /\ ui'[buyer].selected = p3

MCNext == /\ ContractNext \/ BoardNext \/ CreateNext \/ OverlayNext
          /\ UNCHANGED situation

MCSpec == MCInit /\ [][MCNext]_<<situation, vars>>
=============================================================================
