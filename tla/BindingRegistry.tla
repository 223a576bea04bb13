-------------------------- MODULE BindingRegistry --------------------------
(***************************************************************************)
(* What an injector promises about its bindings ("by default all providers *)
(* are immutable"): a token is bound once, a token handed over as mutable  *)
(* may be bound again, and only destroying the injector unbinds, all       *)
(* tokens at once.                                                         *)
(***************************************************************************)
CONSTANTS Providers, MutableKeys, Unbound

VARIABLE bound      \* bound[p]: the value p resolves to, or Unbound

Init == bound = [p \in Providers |-> Unbound]

Bind(p) ==
    /\ bound[p] = Unbound \/ p \in MutableKeys
    /\ bound'[p] # Unbound
    /\ bound' = [bound EXCEPT ![p] = bound'[p]]

Clear == bound' = [p \in Providers |-> Unbound]

Next == (\E p \in Providers : Bind(p)) \/ Clear

Spec == Init /\ [][Next]_bound
=============================================================================
