--------------------------- MODULE MCModuleGraph ---------------------------
(***************************************************************************)
(* The graphs of the unit tests, and variants of the example in the modules *)
(* README: D provides and exports A and B, C imports D and re-exports, B    *)
(* imports C and exports what it provides, A imports B and D.  The B service *)
(* takes A in its constructor or as a property; D takes the shared C.       *)
(***************************************************************************)
EXTENDS ModuleTests, TLC

Variant(providersD, exportsD, providersB, root, needs) ==
    [imports |-> [Chain EXCEPT !.ModuleA = root],
     exports |-> [ModuleD |-> exportsD, ModuleC |-> exportsD, ModuleB |-> providersB, ModuleA |-> <<>>],
     providers |-> [ModuleD |-> providersD, ModuleC |-> <<>>, ModuleB |-> providersB, ModuleA |-> <<>>],
     needs |-> [t \in Tokens |-> IF needs /\ t = B THEN <<A>> ELSE <<>>],
     injects |-> [x \in Tokens \cup Modules |->
                    CASE x = B -> IF needs THEN {} ELSE {A}
                      [] x = "ModuleC" -> {B}
                      [] x = "ModuleD" -> {"CService"}
                      [] OTHER -> {}]]

MCGraphs ==
    {Variant(pd, ed, pb, r, n) :
        pd \in {AB, <<B>>}, ed \in {AB, <<B>>}, pb \in {<<>>, <<A>>, <<B>>},
        r \in {<<"ModuleB", "ModuleD">>, <<"ModuleD", "ModuleB">>}, n \in BOOLEAN}
    \cup {test.classes : test \in Tests}

Symmetry == Permutations(Calls)
=============================================================================
