------------------------- MODULE SyncModuleInjector -------------------------
(***************************************************************************)
(* SyncModuleInjector: the modules of a graph created by one recursive     *)
(* function, without awaits, and what that says of ModuleInjector.         *)
(***************************************************************************)
EXTENDS ModuleGraph

\* What the module injector keeps, and whether the call has thrown.
SyncState == [injectors : Seq([mod : Modules, binds : Binds]),
              registered : [Modules -> Nat \cup {None}],
              metadata : SUBSET Modules, threw : BOOLEAN]

Empty == [injectors |-> <<>>, registered |-> [m \in Modules |-> None],
          metadata |-> {}, threw |-> FALSE]

\* One round of the loop in processImportsAndExports of m; create is createAndResolve.
\* r.st is what the injector keeps by then, r.items the providers that were imported.
SyncImport(create, r, m, x) ==
    IF r.st.threw THEN r
    ELSE LET st == IF r.st.registered[x] # None THEN r.st ELSE create[r.st][x]
             binds == st.injectors[st.registered[x]].binds
         IN  IF st.threw THEN [r EXCEPT !.st = st]
             ELSE IF \E t \in ToSet(graph.exports[x]) : ~Visible(binds, t)
             THEN [r EXCEPT !.st = [st EXCEPT !.threw = TRUE]]
             ELSE [st |-> st, items |-> ShiftLeft(m, r.items, Exported(x, binds))]

SyncImports(create, st, m) ==
    FoldLeft(LAMBDA r, x : SyncImport(create, r, m, x), [st |-> st, items |-> <<>>], graph.imports[m])

\* createAndResolve: the imports, then the injector of m, then its registration.
SyncCreate(create, st, m) ==
    LET imported == SyncImports(create, st, m)
        n == Len(imported.st.injectors) + 1
        binds == CreateProviders(n, m, imported.items)
    IN  IF st.registered[m] # None THEN [st EXCEPT !.threw = TRUE]
        ELSE IF imported.st.threw \/ binds = None THEN [imported.st EXCEPT !.threw = TRUE]
        ELSE [injectors |-> Append(imported.st.injectors, [mod |-> m, binds |-> binds]),
              registered |-> [imported.st.registered EXCEPT ![m] = n],
              metadata |-> imported.st.metadata \cup {m}, threw |-> FALSE]

\* It calls itself along the imports, which are acyclic: no chain of them has more
\* modules than there are.
SyncCreated[n \in 0 .. Cardinality(Modules)] ==
    [st \in SyncState |-> [m \in Modules |->
        IF n = 0 THEN [st EXCEPT !.threw = TRUE] ELSE SyncCreate(SyncCreated[n - 1], st, m)]]

SyncCreateAndResolve(st, m) == SyncCreated[Cardinality(Modules)][st][m]

\* A call of the asynchronous injector that nobody disturbs leaves what the
\* synchronous one computes: the same injectors in the same order, with the
\* same bindings, however its awaits cut the loop over the imports.
AgreesWithSync ==
    \A c \in Calls :
        Undisturbed /\ status[c] = "done" /\ (\A d \in Calls \ {c} : status[d] = "idle") =>
            SyncCreateAndResolve(Empty, Last(injectors).mod) =
                [injectors |-> injectors, registered |-> registered,
                 metadata |-> metadata, threw |-> FALSE]
=============================================================================
