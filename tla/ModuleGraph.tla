---------------------------- MODULE ModuleGraph ----------------------------
(***************************************************************************)
(* ModuleInjector: creating a graph of modules, and removing modules.  A   *)
(* call of createAndResolve is a stack of frames, one per module being     *)
(* initialised; other calls run at its awaits.  What happens inside the    *)
(* injector of one module, up to its registration, is one step: nobody     *)
(* else has that injector before it is registered.                         *)
(***************************************************************************)
EXTENDS Integers, Sequences, FiniteSets, SequencesExt

CONSTANTS
    Modules,      \* module classes
    Tokens,       \* provider classes
    Shared,       \* tokens the shared injector binds
    Graphs,       \* the @Module and @Inject metadata to check, see Graph
    Calls,        \* concurrent callers of createAndResolve
    Faulty,       \* modules whose own code may reject: a provider, a hook
    MaxRemoves,   \* bound on remove
    None

\* imports, exports, providers: the fields of @Module.  needs[t]: constructor
\* parameters of class t; injects[t]: its @Inject properties, and those of a
\* module class.  imports and needs are acyclic: the code recurses along them.
Graph == [imports : [Modules -> Seq(Modules)], exports : [Modules -> Seq(Tokens)],
          providers : [Modules -> Seq(Tokens)], needs : [Tokens -> Seq(Tokens)],
          injects : [Tokens \cup Modules -> SUBSET Tokens]]

\* An instance is known by the injector that made it, 0 for the shared one.
Instance == [by : Nat, token : Tokens]
Binds == [Tokens -> Instance \cup {None}]
Item == [token : Tokens, value : Instance]

ASSUME ModuleAssumption ==
    /\ Graphs \subseteq Graph /\ Shared \subseteq Tokens /\ Faulty \subseteq Modules
    /\ MaxRemoves \in Nat /\ Modules \cap Tokens = {} /\ IsFiniteSet(Tokens) /\ IsFiniteSet(Modules)
    /\ None \notin Nat \cup Instance \cup Binds
    /\ \A g \in Graphs : \E depth \in [Modules -> 1 .. Cardinality(Modules)] :
           \A m \in Modules : \A x \in ToSet(g.imports[m]) : depth[x] < depth[m]

VARIABLES
    graph,        \* the metadata, fixed
    injectors,    \* the injectors of modules whose providers were created
    registered,   \* registered[m]: the injector in _providers, or None
    metadata,     \* the keys of _allModulesMetadata
    stack, status,\* the frames of each call, and how it ended
    removes,      \* how often remove was called
    overlapped    \* whether two calls were ever under way together

vars == <<graph, injectors, registered, metadata, stack, status, removes, overlapped>>

\* todo: imports to process; items: the exported values collected.  The call
\* holds the thread at "next"; it awaits the first import at "import", its own
\* providers at "ready".
Frame == [mod : Modules, at : {"next", "import", "ready"},
          todo : Seq(Modules), items : Seq(Item)]

Ends == {"done", "already", "failed"}

\* Call c is between two awaits.
Synchronous(c) == stack[c] # <<>> /\ Last(stack[c]).at = "next"

TypeOK ==
    /\ graph \in Graphs
    /\ injectors \in Seq([mod : Modules, binds : Binds])
    /\ registered \in [Modules -> 1 .. Len(injectors) \cup {None}]
    /\ metadata \subseteq Modules
    /\ stack \in [Calls -> Seq(Frame)]
    /\ status \in [Calls -> {"idle", "running"} \cup Ends]
    /\ \A c \in Calls : status[c] = "running" <=> stack[c] # <<>>
    /\ Cardinality({c \in Calls : Synchronous(c)}) <= 1
    /\ removes \in 0 .. MaxRemoves
    /\ overlapped \in BOOLEAN

NewFrame(m) == [mod |-> m, at |-> "next", todo |-> graph.imports[m], items |-> <<>>]

Init ==
    /\ graph \in Graphs
    /\ injectors = <<>>
    /\ registered = [m \in Modules |-> None]
    /\ metadata = {}
    /\ stack = [c \in Calls |-> <<>>]
    /\ status = [c \in Calls |-> "idle"]
    /\ removes = 0
    /\ overlapped = FALSE

-----------------------------------------------------------------------------
(* Creating the providers of one module                                    *)

\* What order gives for the classes of seq, one after the other.
Concat(order, seq) == FoldLeft(LAMBDA s, t : s \o order[t], <<>>, seq)

\* The order in which createAndResolve(t, getProviders(t)) visits classes.
Order ==
    LET ord[n \in 0 .. Cardinality(Tokens)] ==
            [t \in Tokens |->
                IF n = 0 THEN <<t>> ELSE Concat(ord[n - 1], graph.needs[t]) \o <<t>>]
    IN  ord[Cardinality(Tokens)]

Visible(binds, t) == binds[t] # None \/ t \in Shared

\* get on a module injector, whose parent is the shared injector.
Get(binds, t) == IF binds[t] # None THEN binds[t] ELSE [by |-> 0, token |-> t]

\* One class on injector n: skipped if bound; an error, None, if something
\* it injects is not there yet.
CreateClass(n, binds, t) ==
    IF binds = None \/ binds[t] # None THEN binds
    ELSE IF \A u \in graph.injects[t] \cup ToSet(graph.needs[t]) : Visible(binds, u)
    THEN [binds EXCEPT ![t] = [by |-> n, token |-> t]]
    ELSE None

\* An imported value is set unless the token is bound by now.
SetValue(binds, item) ==
    IF binds = None \/ binds[item.token] # None THEN binds
    ELSE [binds EXCEPT ![item.token] = item.value]

Nothing == [t \in Tokens |-> None]

CreateClasses(n, binds, classes) ==
    FoldLeft(LAMBDA b, t : CreateClass(n, b, t), binds, classes)
SetValues(binds, items) == FoldLeft(SetValue, binds, items)

\* The module itself comes last: what it injects must be there.
CreateModule(m, binds) ==
    IF binds # None /\ \A t \in graph.injects[m] : Visible(binds, t) THEN binds ELSE None

\* Mutant: imported values first, so that they win over own providers.
ImportsFirst(n, m, items) ==
    CreateModule(m, CreateClasses(n, SetValues(Nothing, items), Concat(Order, graph.providers[m])))

\* The module's own providers come first, the imported ones after them.
CreateProviders(n, m, items) ==
    CreateModule(m, SetValues(CreateClasses(n, Nothing, Concat(Order, graph.providers[m])), items))

\* Mutant: the imported value replaces one that is there already.
ShiftLeftOver(m, items, imported) ==
    SelectSeq(items, LAMBDA i : i.token \notin {j.token : j \in ToSet(imported)}) \o imported

\* The tokens of m's own providers and of the items collected for it.
Provided(m, items) == ToSet(graph.providers[m]) \cup {i.token : i \in ToSet(items)}

\* shiftLeft: what the source provides already is not taken from the target.
ShiftLeft(m, items, imported) ==
    FoldLeft(LAMBDA s, i : IF i.token \in Provided(m, items) THEN s ELSE Append(s, i),
             items, imported)

-----------------------------------------------------------------------------
(* Actions                                                                 *)

Quiet == \A c \in Calls : ~Synchronous(c)

\* Call c goes on with f as its innermost frame.
Continue(c, f) ==
    /\ stack' = [stack EXCEPT ![c] = Append(Front(@), f)]
    /\ UNCHANGED <<graph, injectors, registered, metadata, status, removes, overlapped>>

\* A rejection unwinds the whole call; modules it registered stay.
Fail(c) ==
    /\ stack' = [stack EXCEPT ![c] = <<>>]
    /\ status' = [status EXCEPT ![c] = "failed"]
    /\ UNCHANGED <<graph, injectors, registered, metadata, removes, overlapped>>

\* Mutant: a module that is registered is initialised again.
StartAgain(c, m) ==
    /\ Quiet /\ status[c] = "idle"
    /\ status' = [status EXCEPT ![c] = "running"]
    /\ stack' = [stack EXCEPT ![c] = <<NewFrame(m)>>]
    /\ overlapped' = (overlapped \/ \E d \in Calls : status[d] = "running")
    /\ UNCHANGED <<graph, injectors, registered, metadata, removes>>

\* Mutant: _allModulesMetadata.set before the imports are processed.
StartWithMetadata(c, m) ==
    /\ Quiet /\ status[c] = "idle" /\ registered[m] = None
    /\ status' = [status EXCEPT ![c] = "running"]
    /\ stack' = [stack EXCEPT ![c] = <<NewFrame(m)>>]
    /\ overlapped' = (overlapped \/ \E d \in Calls : status[d] = "running")
    /\ metadata' = metadata \cup {m}
    /\ UNCHANGED <<graph, injectors, registered, removes>>

Start(c, m) ==
    /\ Quiet /\ status[c] = "idle"
    /\ IF registered[m] # None
       THEN /\ status' = [status EXCEPT ![c] = "already"]
            /\ UNCHANGED <<stack, overlapped>>
       ELSE /\ status' = [status EXCEPT ![c] = "running"]
            /\ stack' = [stack EXCEPT ![c] = <<NewFrame(m)>>]
            /\ overlapped' = (overlapped \/ \E d \in Calls : status[d] = "running")
    /\ UNCHANGED <<graph, injectors, registered, metadata, removes>>

\* What x exports, with the values its injector has for it.
Exported(x, binds) ==
    [i \in DOMAIN graph.exports[x] |->
        [token |-> graph.exports[x][i], value |-> Get(binds, graph.exports[x][i])]]

\* Mutant: what was imported before an await is lost to what comes after it.
TakeExportsOver(c, f) ==
    LET x == Head(f.todo)
        binds == injectors[registered[x]].binds
    IN  IF graph.exports[x] # <<>> /\ (registered[x] = None
                               \/ \E t \in ToSet(graph.exports[x]) : ~Visible(binds, t))
        THEN Fail(c)
        ELSE Continue(c, [f EXCEPT !.at = "next", !.todo = Tail(@),
                !.items = IF f.at = "import" THEN Exported(x, binds)
                          ELSE ShiftLeft(f.mod, @, Exported(x, binds))])

\* The exports of the import at the head of todo; getInjector is undefined
\* for a module that is not registered any more.
TakeExports(c, f) ==
    LET x == Head(f.todo)
        binds == injectors[registered[x]].binds
    IN  IF graph.exports[x] # <<>> /\ (registered[x] = None
                               \/ \E t \in ToSet(graph.exports[x]) : ~Visible(binds, t))
        THEN Fail(c)
        ELSE Continue(c, [f EXCEPT !.at = "next", !.todo = Tail(@),
                                   !.items = ShiftLeft(f.mod, @, Exported(x, binds))])

\* One round of the loop over imports: a module that is not there is
\* initialised first.  After the loop the caller awaits.
ImportNext(c) ==
    /\ Synchronous(c)
    /\ LET f == Last(stack[c])
       IN  IF f.todo = <<>> THEN Continue(c, [f EXCEPT !.at = "ready"])
           ELSE IF registered[Head(f.todo)] # None THEN TakeExports(c, f)
           ELSE /\ stack' = [stack EXCEPT ![c] =
                       Append(Append(Front(@), [f EXCEPT !.at = "import"]),
                              NewFrame(Head(f.todo)))]
                /\ UNCHANGED <<graph, injectors, registered, metadata, status,
                               removes, overlapped>>

\* The await on the import is over.
Imported(c) ==
    /\ Quiet /\ stack[c] # <<>> /\ Last(stack[c]).at = "import"
    /\ TakeExports(c, Last(stack[c]))

\* The module's providers and the module itself are created and registered.
\* Map.set replaces: a module registered meanwhile loses its entry.
Register(c) ==
    /\ Quiet /\ stack[c] # <<>> /\ Last(stack[c]).at = "ready"
    /\ LET m == Last(stack[c]).mod
           n == Len(injectors) + 1
           binds == CreateProviders(n, m, Last(stack[c]).items)
       IN  IF binds = None THEN Fail(c)
           ELSE /\ injectors' = Append(injectors, [mod |-> m, binds |-> binds])
                /\ registered' = [registered EXCEPT ![m] = n]
                /\ metadata' = metadata \cup {m}
                /\ stack' = [stack EXCEPT ![c] = Front(@)]
                /\ status' = IF Len(stack[c]) > 1 THEN status
                             ELSE [status EXCEPT ![c] = "done"]
                /\ UNCHANGED <<graph, removes, overlapped>>

\* Something the module's own code awaits rejects.
Throw(c) ==
    /\ Quiet /\ stack[c] # <<>> /\ Last(stack[c]).at = "ready"
    /\ Last(stack[c]).mod \in Faulty
    /\ Fail(c)

\* remove destroys the injector; the metadata stays.
RemoveModule(m) ==
    /\ Quiet /\ removes < MaxRemoves /\ registered[m] # None
    /\ injectors' = [injectors EXCEPT ![registered[m]].binds = Nothing]
    /\ registered' = [registered EXCEPT ![m] = None]
    /\ removes' = removes + 1
    /\ UNCHANGED <<graph, metadata, stack, status, overlapped>>

\* Calls and removes are finite in number: a call that could not go on would
\* show as a deadlock.
Finished == \A c \in Calls : status[c] \in Ends

Next ==
    \/ \E c \in Calls : ImportNext(c) \/ Imported(c) \/ Register(c) \/ Throw(c)
    \/ \E c \in Calls, m \in Modules : Start(c, m)
    \/ \E m \in Modules : RemoveModule(m)
    \/ Finished /\ UNCHANGED vars

Spec == Init /\ [][Next]_vars

-----------------------------------------------------------------------------
(* Properties                                                              *)

\* However calls, failures and removals interleave, a module is created when
\* all it imports has been (the modules README: deepest objects first).
Traversal == INSTANCE DeepestFirst WITH ready <- metadata
IsDeepestFirst == Traversal!Spec

\* One caller at a time, nothing removed.
Undisturbed == ~overlapped /\ removes = 0

\* Retries after a failure included, callers that do not overlap never create
\* a module twice: the injector registered is the only one there is.
CreatedOnce ==
    Undisturbed =>
        \A i, j \in DOMAIN injectors : injectors[i].mod = injectors[j].mod => i = j

\* Classes that the own providers of m are or are constructed with.
OwnClasses(m) == UNION {ToSet(Order[t]) : t \in ToSet(graph.providers[m])}

\* The first module m imports that exports t.
Exporter(m, t) ==
    LET s == graph.imports[m]
    IN  s[SelectInSeq(s, LAMBDA x : t \in ToSet(graph.exports[x]))]

ImportedTokens(m) ==
    UNION {ToSet(graph.exports[x]) : x \in ToSet(graph.imports[m])}

Binding(m, t) == Get(injectors[registered[m]].binds, t)

\* A token a module imports, and that none of its own providers is or needs,
\* is the very instance the exporting module has, at any distance.
SharedReference ==
    Undisturbed =>
        \A m \in Modules : registered[m] # None =>
            \A t \in ImportedTokens(m) \ OwnClasses(m) :
                Binding(m, t) = Binding(Exporter(m, t), t)

\* A registered module is complete, whatever raced with its creation: its
\* own providers are its own instances, and what it imports is bound.
RegisteredIsComplete ==
    \A m \in Modules : registered[m] # None =>
        LET n == registered[m]
            binds == injectors[n].binds
        IN  /\ injectors[n].mod = m
            /\ \A t \in OwnClasses(m) : binds[t] = [by |-> n, token |-> t]
            /\ \A t \in ImportedTokens(m) : binds[t] # None
=============================================================================
