------------------------------- MODULE Forest -------------------------------
(***************************************************************************)
(* What the injector tree promises: an injector has one owner at most, the *)
(* owner knows it, and when it leaves, the owner forgets that one and      *)
(* nothing else changes.                                                   *)
(***************************************************************************)
CONSTANTS Injectors, NoParent

VARIABLES owner, kids

Init ==
    /\ owner = [i \in Injectors |-> NoParent]
    /\ kids = [i \in Injectors |-> {}]

Join(p, c) ==
    /\ owner[c] = NoParent
    /\ owner' = [owner EXCEPT ![c] = p]
    /\ kids' = [kids EXCEPT ![p] = @ \cup {c}]

Leave(c) ==
    /\ owner[c] # NoParent
    /\ owner' = [owner EXCEPT ![c] = NoParent]
    /\ kids' = [kids EXCEPT ![owner[c]] = @ \ {c}]

Next ==
    \/ \E p, c \in Injectors : Join(p, c)
    \/ \E c \in Injectors : Leave(c)

Spec == Init /\ [][Next]_<<owner, kids>>
=============================================================================
