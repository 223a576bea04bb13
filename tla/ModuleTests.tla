---------------------------- MODULE ModuleTests ----------------------------
(***************************************************************************)
(* The unit tests of modules, as instances of ModuleGraph: their classes   *)
(* are graphs, what they expect is a property.  ModuleGraph runs them with *)
(* everything else that may happen meanwhile.                              *)
(***************************************************************************)
EXTENDS SyncModuleInjector, TLC

\* Classes of a test: modules A to D, services A to C; B injects A.  Only
\* imports, exports and providers of the modules differ, and what they inject.
Classes(imports, exports, providers, injected) ==
    [imports |-> imports, exports |-> exports, providers |-> providers,
     needs |-> [t \in Tokens |-> <<>>],
     injects |-> [x \in Tokens \cup Modules |->
         IF x \in Modules THEN injected[x] ELSE IF x = "BService" THEN {"AService"} ELSE {}]]

\* same[t]: the modules (and "shared", the shared injector) grouped by the instance of t
\* they are expected to have; wired: those whose B holds their own A.
Test(classes, same, wired) == [classes |-> classes, same |-> same, wired |-> wired]

A == "AService"
B == "BService"
AB == <<A, B>>
All(x) == [m \in Modules |-> x]
Each(x) == {{m} : m \in x}

NoImportsExports ==
    Test(Classes(All(<<>>), All(<<>>), [All(<<>>) EXCEPT !["ModuleA"] = AB],
                 [All({}) EXCEPT !["ModuleA"] = {A, B}]),
         [AService |-> {{"ModuleA"}}, BService |-> {{"ModuleA"}}], {"ModuleA"})

\* A imports B and D, B imports C, C imports D.
Chain == [ModuleA |-> <<"ModuleB", "ModuleD">>, ModuleB |-> <<"ModuleC">>,
          ModuleC |-> <<"ModuleD">>, ModuleD |-> <<>>]

ImportsTest ==
    Test(Classes(Chain, All(<<>>), All(AB), All({A, B})),
         [AService |-> Each(Modules), BService |-> Each(Modules)], Modules)

\* D and C export both services.
Exports == [ModuleA |-> <<>>, ModuleB |-> <<>>, ModuleC |-> AB, ModuleD |-> AB]

ExportsTest ==
    LET ofD == {{"ModuleD", "ModuleC", "ModuleB"}, {"ModuleA"}}
    IN  Test(Classes(Chain, Exports, [All(<<>>) EXCEPT !["ModuleA"] = AB, !["ModuleD"] = AB],
                     All({A, B})),
             [AService |-> ofD, BService |-> ofD], Modules)

\* B has an A of its own, beside the B service it takes from D.
LeftProviders ==
    [ModuleA |-> AB, ModuleB |-> <<A>>, ModuleC |-> <<>>, ModuleD |-> AB]

LeftSame ==
    [AService |-> {{"ModuleD", "ModuleC"}, {"ModuleB"}, {"ModuleA"}},
     BService |-> {{"ModuleD", "ModuleC", "ModuleB"}, {"ModuleA"}}]

LeftOrderTest ==
    Test(Classes(Chain, Exports, LeftProviders, All({A, B})), LeftSame, Modules \ {"ModuleB"})

\* A and D provide a C service, B and C take the shared one.
SharedTest ==
    Test(Classes(Chain, Exports,
                 [LeftProviders EXCEPT !["ModuleA"] = Append(@, "CService"),
                                       !["ModuleD"] = Append(@, "CService")],
                 All({A, B, "CService"})),
         LeftSame @@ [CService |-> {{"ModuleA"}, {"ModuleB", "ModuleC", "shared"}, {"ModuleD"}}],
         Modules \ {"ModuleB"})

Tests == {NoImportsExports, ImportsTest, ExportsTest, LeftOrderTest, SharedTest}

-----------------------------------------------------------------------------
\* The instance of t that module m has in state st of the module injector.
InstanceOf(st, m, t) ==
    IF m = "shared" THEN [by |-> 0, token |-> t] ELSE Get(st.injectors[st.registered[m]].binds, t)

\* The instance of u that the instance i injects.
InjectedInto(st, i, u) == Get(st.injectors[i.by].binds, u)

\* toBe and not.toBe of the services of modules, and of the A in their B.
Expected(test, st) ==
    /\ \A t \in DOMAIN test.same : \A m, n \in UNION test.same[t] :
           InstanceOf(st, m, t) = InstanceOf(st, n, t)
               <=> \E group \in test.same[t] : {m, n} \subseteq group
    /\ \A m \in UNION test.same.AService :
           InjectedInto(st, InstanceOf(st, m, B), A) = InstanceOf(st, m, A) <=> m \in test.wired

\* The same tests of SyncModuleInjector; created again, module A throws.
Created == SyncCreateAndResolve(Empty, "ModuleA")
Sync(test) == graph = test.classes => Expected(test, Created)

SyncNoImportsExports == Sync(NoImportsExports)
SyncImportsTest == Sync(ImportsTest) /\ SyncCreateAndResolve(Created, "ModuleA").threw
SyncExportsTest == Sync(ExportsTest)
SyncLeftOrderTest == Sync(LeftOrderTest)
SyncMetadataTest == graph = LeftOrderTest.classes => Created.metadata = Modules
SyncSharedTest == Sync(SharedTest)

SyncTests ==
    /\ SyncNoImportsExports /\ SyncImportsTest /\ SyncExportsTest
    /\ SyncLeftOrderTest /\ SyncMetadataTest /\ SyncSharedTest

\* ModuleInjector, once module A is there.
Kept == [injectors |-> injectors, registered |-> registered]
Async(test) == graph = test.classes => Expected(test, Kept)

MetadataTest == graph = LeftOrderTest.classes => metadata = Modules

\* However the parts of a test were created, by one call or by several, after
\* calls that failed too, its modules share the instances that the unit tests
\* of ModuleInjector and of SyncModuleInjector expect, and no others.
AsTested ==
    /\ SyncTests
    /\ Undisturbed /\ registered["ModuleA"] # None =>
           MetadataTest /\ \A test \in Tests : Async(test)
=============================================================================
