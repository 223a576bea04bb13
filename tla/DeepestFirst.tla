---------------------------- MODULE DeepestFirst ----------------------------
(***************************************************************************)
(* The order the modules README promises: the deepest modules first, a     *)
(* module only when every module it imports is there.                      *)
(***************************************************************************)
CONSTANT Modules

VARIABLES
    graph,      \* graph.imports[m]: the modules m imports, as a sequence
    ready       \* the modules that have been created

Imported(m) == {graph.imports[m][i] : i \in DOMAIN graph.imports[m]}

Init == ready = {}

Create(m) ==
    /\ Imported(m) \subseteq ready
    /\ ready' = ready \cup {m}
    /\ UNCHANGED graph

Next == \E m \in Modules : Create(m)

Spec == Init /\ [][Next]_<<graph, ready>>
=============================================================================
