------------------------------ MODULE Resolver ------------------------------
(***************************************************************************)
(* Concurrent calls of Injector.createAndResolve on one injector.  A call  *)
(* is a stack of frames, one per nested createAndResolve; each action runs *)
(* one call from where it resumes to the next await at which another call  *)
(* can observe it.  The injector has no parent, so get finds a token here  *)
(* or throws.                                                              *)
(***************************************************************************)
EXTENDS Integers, Sequences, FiniteSets, SequencesExt

CONSTANTS
    Providers,    \* providers, each under a token of its own
    Kind,         \* Kind[p]: "class", "value" or "factory"
    Needs,        \* Needs[p]: what getProviders returns, constructor parameters
    Inner,        \* Inner[p]: the providers listed in provider.providers
    Props,        \* Props[p]: @Inject and @CreateProvider properties in order
    Created,      \* Created[p]: those of them that are @CreateProvider
    Wraps,        \* Wraps[p]: interceptor classes of p's methods
    Hooked,       \* providers whose code may fail: promise, factory, hook
    MutableKeys,
    Calls,        \* concurrent callers
    Given,        \* Given[p]: argument lists a caller may pass beside p
    MaxDestroys,  \* bound on destroy
    Unbound

Lists == [Providers -> Seq(Providers)]

ASSUME ResolverAssumption ==
    /\ Kind \in [Providers -> {"class", "value", "factory"}]
    /\ {Needs, Inner, Props, Wraps} \subseteq Lists
    /\ Created \in [Providers -> SUBSET Providers]
    /\ Given \in [Providers -> SUBSET Seq(Providers)]
    /\ MutableKeys \subseteq Providers /\ Hooked \subseteq Providers
    /\ \A p \in Providers : Kind[p] # "class" => Needs[p] = <<>>
    /\ MaxDestroys \in Nat /\ Unbound \notin Nat /\ Calls # {}

VARIABLES
    bound,        \* bound[p]: the instance in _providers, or Unbound
    made,         \* made[n]: how instance n, that was bound once, was made
    epoch,        \* how often the injector was destroyed
    stack,        \* stack[c]: the frames of call c, the innermost last
    status,       \* status[c]: idle, running, or how the call ended
    result,       \* result[c]: what the call returned
    began         \* began[c]: the epoch in which it started

vars == <<bound, made, epoch, stack, status, result, began>>

Stages == {"deps", "inner", "pending", "props", "wrap", "hook"}
Ends == {"done", "lost", "missing", "threw"}

\* got: the values the instance was given so far; born: the epoch when the
\* constructor or the factory ran; inst: the instance, once bound.
Frame == [prov : Providers, at : Stages, todo : Seq(Providers),
          got : [Providers -> Nat \cup {Unbound}], born : Nat, inst : Nat]

TypeOK ==
    /\ bound \in [Providers -> Nat \cup {Unbound}]
    /\ made \in Seq([prov : Providers, born : Nat, got : [Providers -> Nat \cup {Unbound}]])
    /\ epoch \in Nat
    /\ stack \in [Calls -> Seq(Frame)]
    /\ status \in [Calls -> {"idle", "running"} \cup Ends]
    /\ \A c \in Calls : status[c] = "running" <=> stack[c] # <<>>
    /\ result \in [Calls -> Nat \cup {Unbound}]
    /\ began \in [Calls -> Nat]

Has(p) == bound[p] # Unbound

Nothing == [p \in Providers |-> Unbound]

NewFrame(p, list) ==
    [prov |-> p, at |-> "deps", todo |-> list, got |-> Nothing, born |-> 0, inst |-> 0]

Init ==
    /\ bound = Nothing
    /\ made = <<>>
    /\ epoch = 0
    /\ stack = [c \in Calls |-> <<>>]
    /\ status = [c \in Calls |-> "idle"]
    /\ result = [c \in Calls |-> Unbound]
    /\ began = [c \in Calls |-> 0]

-----------------------------------------------------------------------------
(* Moves of one call.  f is the innermost frame.                           *)

\* Call c stands at an innermost frame in stage at with nothing left to await.
Stands(c, at) ==
    status[c] = "running" /\ Last(stack[c]).at = at /\ Last(stack[c]).todo = <<>>

Replace(c, f) == stack' = [stack EXCEPT ![c] = Append(Front(@), f)]

\* The call goes on in frame f and no shared state changes.
Continue(c, f) == Replace(c, f) /\ UNCHANGED <<bound, made, epoch, status, result, began>>

\* Mutant: an error that rejects every call under way on the injector.
FailEverybody(c, why) ==
    /\ stack' = [d \in Calls |-> <<>>]
    /\ status' = [d \in Calls |-> IF status[d] = "running" THEN why ELSE status[d]]
    /\ UNCHANGED <<bound, made, epoch, result, began>>

\* A rejection: every enclosing await rethrows it.
Fail(c, why) ==
    /\ stack' = [stack EXCEPT ![c] = <<>>]
    /\ status' = [status EXCEPT ![c] = why]
    /\ UNCHANGED <<bound, made, epoch, result, began>>

\* What the caller of the frame sees: a property keeps the value it awaited.
Receive(f, p, v) ==
    IF f.at = "props" THEN [f EXCEPT !.got[p] = v] ELSE f

\* The innermost frame ends with v; the frame below resumes, or the call ends.
Give(c, v) ==
    IF Len(stack[c]) = 1
    THEN /\ stack' = [stack EXCEPT ![c] = <<>>]
         /\ status' = [status EXCEPT ![c] = "done"]
         /\ result' = [result EXCEPT ![c] = v]
    ELSE /\ LET below == Front(stack[c])
            IN  stack' = [stack EXCEPT ![c] =
                    Append(Front(below), Receive(Last(below), Last(@).prov, v))]
         /\ UNCHANGED <<status, result>>

Return(c, v) == Give(c, v) /\ UNCHANGED <<bound, made, epoch, began>>

\* Frame f awaits createAndResolve(p, list).
Enter(c, f, p, list) ==
    /\ stack' = [stack EXCEPT ![c] = Append(Append(Front(@), f), NewFrame(p, list))]
    /\ UNCHANGED <<bound, made, epoch, status, result, began>>

\* Mutant: a set without the check that throws.
BindOver(c, f) ==
    /\ made' = Append(made, [prov |-> f.prov, born |-> f.born, got |-> f.got])
    /\ bound' = [bound EXCEPT ![f.prov] = Len(made) + 1]
    /\ IF Kind[f.prov] = "class"
       THEN /\ Replace(c, [f EXCEPT !.at = "wrap", !.todo = Wraps[f.prov],
                                    !.inst = Len(made) + 1])
            /\ UNCHANGED <<status, result>>
       ELSE Give(c, Len(made) + 1)
    /\ UNCHANGED <<epoch, began>>

\* Mutant: a set that leaves the first value and lets the loser go on.
BindQuietly(c, f) ==
    /\ made' = Append(made, [prov |-> f.prov, born |-> f.born, got |-> f.got])
    /\ bound' = IF Has(f.prov) THEN bound ELSE [bound EXCEPT ![f.prov] = Len(made) + 1]
    /\ IF Kind[f.prov] = "class"
       THEN /\ Replace(c, [f EXCEPT !.at = "wrap", !.todo = Wraps[f.prov],
                                    !.inst = Len(made) + 1])
            /\ UNCHANGED <<status, result>>
       ELSE Give(c, Len(made) + 1)
    /\ UNCHANGED <<epoch, began>>

\* ProviderList.set, then either the interceptors of a class, or the end of
\* a value or factory.  A token that is bound and not mutable is a TypeError.
\* An instance is numbered here, when somebody else can first see it.
BindAs(c, f) ==
    IF Has(f.prov) /\ f.prov \notin MutableKeys THEN Fail(c, "lost")
    ELSE /\ made' = Append(made, [prov |-> f.prov, born |-> f.born, got |-> f.got])
         /\ bound' = [bound EXCEPT ![f.prov] = Len(made) + 1]
         /\ IF Kind[f.prov] = "class"
            THEN /\ Replace(c, [f EXCEPT !.at = "wrap", !.todo = Wraps[f.prov],
                                         !.inst = Len(made) + 1])
                 /\ UNCHANGED <<status, result>>
            ELSE Give(c, Len(made) + 1)
         /\ UNCHANGED <<epoch, began>>

\* The properties up to the next @CreateProvider, whose createAndResolve is
\* awaited, then that one or, when all have their value, the binding.  The code
\* asks has(token) first, but the token is the provider itself and not what it
\* is bound under, so the answer is always no.
RunProps(c, f) ==
    \E n \in 0..Len(f.todo) :
        /\ \A i \in 1..n : f.todo[i] \notin Created[f.prov]
        /\ n < Len(f.todo) => f.todo[n + 1] \in Created[f.prov]
        /\ LET injected == {f.todo[i] : i \in 1..n}
               g == [f EXCEPT !.got = [p \in Providers |->
                                           IF p \in injected THEN bound[p] ELSE @[p]],
                              !.todo = SubSeq(@, n + 2, Len(@))]
           IN  IF \E p \in injected : ~Has(p) THEN Fail(c, "missing")
               ELSE IF n = Len(f.todo) THEN BindAs(c, g)
               ELSE Enter(c, g, f.todo[n + 1], <<>>)

\* The constructor or the factory is called with what get answers now.
Build(c, f) ==
    LET args == IF Kind[f.prov] = "class" THEN Needs[f.prov] ELSE Inner[f.prov]
        g == [f EXCEPT !.got = [p \in Providers |->
                                    IF p \in ToSet(args) THEN bound[p] ELSE Unbound],
                       !.born = epoch]
    IN  IF \E p \in ToSet(args) : ~Has(p) THEN Fail(c, "missing")
        ELSE IF Kind[f.prov] = "class"
        THEN RunProps(c, [g EXCEPT !.at = "props", !.todo = Props[f.prov]])
        ELSE Continue(c, [g EXCEPT !.at = "pending"])

-----------------------------------------------------------------------------
(* Actions                                                                 *)

Start(c, p, list) ==
    /\ status[c] = "idle"
    /\ stack' = [stack EXCEPT ![c] = <<NewFrame(p, list)>>]
    /\ status' = [status EXCEPT ![c] = "running"]
    /\ began' = [began EXCEPT ![c] = epoch]
    /\ UNCHANGED <<bound, made, epoch, result>>

\* The next provider of a for loop that awaits createAndResolve.
ResolveNext(c) ==
    /\ status[c] = "running"
    /\ LET f == Last(stack[c])
       IN  /\ f.at \in {"deps", "inner", "wrap"} /\ f.todo # <<>>
           /\ Enter(c, [f EXCEPT !.todo = Tail(@)], Head(f.todo), Needs[Head(f.todo)])

\* The providers passed along are there: is this one?
Check(c) ==
    /\ Stands(c, "deps")
    /\ LET f == Last(stack[c])
       IN  IF Has(f.prov) THEN Return(c, bound[f.prov])
           ELSE IF Kind[f.prov] = "value"
           THEN Continue(c, [f EXCEPT !.at = "pending", !.born = epoch])
           ELSE IF Inner[f.prov] # <<>>
           THEN Continue(c, [f EXCEPT !.at = "inner", !.todo = Inner[f.prov]])
           ELSE Build(c, f)

AfterInner(c) == Stands(c, "inner") /\ Build(c, Last(stack[c]))

\* useValue or the factory's promise is fulfilled.
Settle(c) == Stands(c, "pending") /\ BindAs(c, Last(stack[c]))

\* A property created here has its value.
AfterProp(c) ==
    /\ status[c] = "running" /\ Last(stack[c]).at = "props"
    /\ RunProps(c, Last(stack[c]))

\* applyInterceptors reads the binding again, which after a destroy may be
\* another instance or none, and defines the intercepted methods on what it
\* finds; one that is defined already stays as it is and is no error.  Then
\* afterConstruct is called.
Intercept(c) ==
    /\ Stands(c, "wrap")
    /\ LET f == Last(stack[c])
       IN  IF Has(f.prov) THEN Continue(c, [f EXCEPT !.at = "hook"])
           ELSE Fail(c, "missing")

AfterHook(c) == Stands(c, "hook") /\ Return(c, Last(stack[c]).inst)

\* The promise, the factory or afterConstruct rejects; what is bound stays.
Reject(c) ==
    /\ Stands(c, "pending") \/ Stands(c, "hook")
    /\ Last(stack[c]).prov \in Hooked
    /\ Fail(c, "threw")

\* Mutant: destroy drops the instances of classes and keeps the values.
DestroyClasses ==
    /\ epoch < MaxDestroys
    /\ bound' = [p \in Providers |-> IF Kind[p] = "class" THEN Unbound ELSE bound[p]]
    /\ epoch' = epoch + 1
    /\ UNCHANGED <<made, stack, status, result, began>>

\* Injector.destroy; calls under way are not told.
Destroy ==
    /\ epoch < MaxDestroys
    /\ bound' = Nothing
    /\ epoch' = epoch + 1
    /\ UNCHANGED <<made, stack, status, result, began>>

Step(c) ==
    \/ ResolveNext(c) \/ Check(c) \/ AfterInner(c) \/ Settle(c)
    \/ AfterProp(c) \/ Intercept(c) \/ AfterHook(c) \/ Reject(c)

\* Where nothing is left to do.  Calls and destroys are finite in number, so
\* a call that could not go on would show as a deadlock elsewhere.
Finished == \A c \in Calls : status[c] \in Ends

Next ==
    \/ \E c \in Calls : Step(c)
    \/ \E c \in Calls, p \in Providers : \E list \in Given[p] : Start(c, p, list)
    \/ Destroy
    \/ Finished /\ UNCHANGED vars

Spec == Init /\ [][Next]_vars

-----------------------------------------------------------------------------
(* Properties                                                              *)

\* However calls interleave, a token is bound once until the injector is
\* destroyed (the DI README: by default all providers are immutable).
Registry == INSTANCE BindingRegistry
BindingsAreImmutable == Registry!Spec

\* What a call returned is what get answers as long as the injector was not
\* destroyed since the call began: nobody is left with a private second copy.
ResultIsBinding ==
    \A c \in Calls :
        status[c] = "done" /\ began[c] = epoch =>
            LET p == made[result[c]].prov
            IN  p \in MutableKeys \/ bound[p] = result[c]

\* An instance made since the last destroy holds the bindings of its injector,
\* not those of another call that lost, although it read some of them before
\* an await and was bound after it.
WiredToBindings ==
    \A p \in Providers :
        Has(p) /\ made[bound[p]].born = epoch =>
            \A d \in Providers \ MutableKeys :
                made[bound[p]].got[d] \in {Unbound, bound[d]}

\* Calls that race for the same tokens fail with "already defined", but they
\* cannot all make each other fail, as long as no instance is bound before its
\* interceptors exist: two calls that need the same interceptor may, when one of
\* them has used an instance of the other that was not yet done.
SomeCallSurvives ==
    Finished /\ epoch = 0 /\ (\A n \in DOMAIN made : Wraps[made[n].prov] = <<>>) =>
        \E c \in Calls : status[c] # "lost"
=============================================================================
