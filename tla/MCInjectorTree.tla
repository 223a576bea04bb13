--------------------------- MODULE MCInjectorTree ---------------------------
(* Injectors and values are interchangeable.  Bindings multiply the states,  *)
(* and what the lists of children become does not depend on them: behaviours *)
(* have bindings and an injector less, or no bindings, or no bindings and    *)
(* the discipline of LifoSpec from the start.                                *)
EXTENDS InjectorTree

VARIABLE about
mcVars == <<vars, about>>

MCInit == Init /\ about \in {"bindings", "lists", "discipline"}
MCNext ==
    /\ UNCHANGED about
    /\ IF about = "discipline" THEN LifoNext ELSE Next
    /\ IF about = "bindings" THEN Injectors \ created' # {} ELSE \A i \in Injectors : providers'[i] = <<>>
MCSpec == MCInit /\ [][MCNext]_mcVars

\* IsForest of the behaviours that keep to the discipline: every injector is
\* owned by the parent that lists it, and nobody else is taken away with it.
LifoIsForest ==
    /\ about = "discipline" => Forest!Init
    /\ [][about = "discipline" => Forest!Next \/ UNCHANGED <<parent, children>>]_mcVars

Symmetry == Permutations(Injectors) \cup Permutations(Values)
=============================================================================
