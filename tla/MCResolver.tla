----------------------------- MODULE MCResolver -----------------------------
(***************************************************************************)
(* A module-like graph: ctrl takes svc in its constructor, lists fac, has   *)
(* an injected cfg, a created aux and an intercepted method; svc takes cfg; *)
(* fac is a factory over cfg; cfg is a value that may be a promise.         *)
(***************************************************************************)
EXTENDS Resolver, TLC

None == [p \in Providers |-> <<>>]
MCKind == [p \in Providers |->
             IF p = "cfg" THEN "value" ELSE IF p = "fac" THEN "factory" ELSE "class"]
MCNeeds == [None EXCEPT !["svc"] = <<"cfg">>, !["ctrl"] = <<"svc">>]
MCInner == [None EXCEPT !["fac"] = <<"cfg">>, !["ctrl"] = <<"fac">>]
MCProps == [None EXCEPT !["ctrl"] = <<"cfg", "aux">>]
MCCreated == [p \in Providers |-> IF p = "ctrl" THEN {"aux"} ELSE {}]
MCWraps == [None EXCEPT !["ctrl"] = <<"log">>]
\* Roots: any provider, with its dependencies as getProviders lists them, in
\* another order, or left out.
MCGiven == [p \in Providers |->
              CASE p = "ctrl" -> {<<"svc">>, <<"fac", "svc">>}
                [] p = "svc" -> {<<>>, <<"cfg">>}
                [] OTHER -> {<<>>}]

Symmetry == Permutations(Calls)
=============================================================================
