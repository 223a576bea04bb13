--------------------------- MODULE MCLambdaServer ---------------------------
(***************************************************************************)
(* Tables of up to three routes without interceptors: owners matter by     *)
(* being the same or not, so the failing route's is a, and names of        *)
(* parameters by being shared.  And seven tables of a failing route and an *)
(* error route, in either order and either module, with and without a      *)
(* common parameter, each with up to two interceptors.                     *)
(***************************************************************************)
EXTENDS LambdaServer

ARoute(kind, params, owner) == [kind |-> kind, params |-> params, owner |-> owner]

MCRoutes ==
    {ARoute("main", p, "a") : p \in {{}, {"id"}}} \cup {ARoute(k, {}, "a") : k \in {"other"} \cup Broken}
        \cup {ARoute("error", p, o) : p \in {{}, {"id"}, {"tab"}}, o \in Owners}

MCTables == UNION {[1..n -> MCRoutes] : n \in 0..3}

SmallTables ==
    LET main == ARoute("main", {"id"}, "a")
        errors == {ARoute("error", p, "b") : p \in {{}, {"id"}}}
    IN  {<<main>>, <<ARoute("broken", {}, "a"), main>>, <<ARoute("refused", {}, "a"), main>>}
            \cup {<<main, e>> : e \in errors} \cup {<<e, main>> : e \in errors}

MCChains == {<<>>, <<"user">>, <<"body">>, <<"body", "user">>, <<"user", "user">>}

\* LambdaSpec from these states.
MCInit ==
    \/ table \in SmallTables /\ LambdaInit
    \/ chain = [p \in {1, 2} |-> <<>>] /\ LambdaInit

MCSpec == MCInit /\ [][LambdaNext]_lambdaVars /\ LambdaFairness
=============================================================================
