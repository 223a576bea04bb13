------------------------- MODULE InterceptedMethod -------------------------
(***************************************************************************)
(* Method interceptors: what createInterceptors finds in the metadata of a *)
(* new instance, and the Executor that runs one call of the method.  An    *)
(* executor that is asynchronous awaits every step and the result;         *)
(* otherwise an interceptor that returns a promise goes on by itself.      *)
(***************************************************************************)
EXTENDS ClassMetadata

CONSTANTS Interceptors,  \* the decorators made by createMethodInterceptor
          Written,       \* how invoke is written: plain, async, or a promise the source does not show
          AsyncMark,     \* the decorator AsyncInterceptor
          MaxRuns        \* bound on the runs of the method in one call

ASSUME InterceptorAssumption ==
    /\ Interceptors \subseteq Decorators
    /\ Written \in [Interceptors -> {"plain", "async", "hidden"}]
    /\ AsyncMark \in Decorators \ Interceptors

VARIABLES intercepts,    \* what createInterceptors put in front of the method, by <<token, class>>
          call           \* the one call that is looked at

interceptVars == <<metadataVars, intercepts, call>>

\* turn: who runs, the executor (0), an interceptor, or nobody: all wait.
Loop == -1
NoCall == [at |-> "idle"]

Marked(c) == Found(defined, c, AsyncMark) # None

InterceptorsOf(methods) ==
    FoldLeft(LAMBDA s, m : IF m.dec \in Interceptors THEN Append(s, m) ELSE s, <<>>, methods)

CreateIntercepted(t, c) ==
    /\ Create(t, c)
    /\ intercepts' = [intercepts EXCEPT ![<<t, c>>] =
         [steps |-> InterceptorsOf(cachedMetadata'[t].methods),
          async |-> Marked(c)]]
    /\ UNCHANGED call

\* No call is under way, nor an interceptor that a call has left behind.
Quiet == \/ call.at = "idle"
         \/ call.at = "ended" /\ \A i \in DOMAIN call.state : call.state[i] \notin {"running", "waiting"}

\* Mutant: what marks the method is forgotten.
IsAsyncBySource(p) == \E m \in ToSet(intercepts[p].steps) : Written[m.dec] = "async"

\* addInterceptor for each: one that is seen to be asynchronous makes the executor so.
IsAsync(p) == \/ intercepts[p].async
              \/ \E m \in ToSet(intercepts[p].steps) : Written[m.dec] = "async"

Call(p, returns) ==
    /\ intercepts[p] # None /\ intercepts[p].steps # <<>> /\ Quiet
    /\ call' = [at |-> "steps", of |-> p, returns |-> returns, async |-> IsAsync(p), turn |-> 0, next |-> 1,
                state |-> [i \in DOMAIN intercepts[p].steps |-> "todo"],
                result |-> "undefined", promise |-> "none", log |-> <<>>, answer |-> "none", after |-> 0]
    /\ UNCHANGED <<metadataVars, intercepts>>

\* Mutant: the method runs whenever it is invoked.
InvokeAlways(e, o) ==
    [e EXCEPT !.result = IF o \in {"value", "promise"} THEN o ELSE @,
              !.promise = IF o = "promise" THEN "pending" ELSE @,
              !.log = Append(@, o)]

\* Executor.invoke with what the method does if it is run: undefined stands for
\* not yet run, and the promise of an asynchronous method is not undefined.
Invoke(e, o) ==
    IF e.result # "undefined" THEN e
    ELSE [e EXCEPT !.result = IF o \in {"value", "promise"} THEN o ELSE @,
                   !.promise = IF o = "promise" THEN "pending" ELSE @,
                   !.log = Append(@, o)]

Outcomes == IF call.returns = "promise" THEN {"promise"} ELSE {"value", "undefined", "throws"}

Answered(e, a) == [e EXCEPT !.at = "ended", !.turn = Loop, !.answer = a, !.after = Len(e.log)]

\* doSync, doAsync: the next step.
NextStep ==
    /\ call.at = "steps" /\ call.turn = 0 /\ call.next <= Len(call.state)
    /\ call' = [call EXCEPT !.state[call.next] = "running", !.turn = call.next, !.next = @ + 1]

\* The end of both: invoke, unless an interceptor has done it.
LastInvoke ==
    /\ call.at = "steps" /\ call.turn = 0 /\ call.next > Len(call.state)
    /\ \E o \in Outcomes :
          LET e == Invoke(call, o) IN
          call' = IF e.log # call.log /\ o = "throws" THEN Answered(e, "failed")
                  ELSE IF ~call.async THEN Answered(e, e.result)
                  ELSE [e EXCEPT !.at = "last", !.turn = Loop]

ResultSettles ==
    /\ call.at = "last" /\ call.turn = Loop
    /\ call.result = "promise" => call.promise # "pending"
    /\ call' = Answered(call, IF call.result = "promise" /\ call.promise = "failed" THEN "failed" ELSE call.result)

\* The interceptor whose turn it is invokes the method, catching what it throws,
InterceptorInvokes(i) ==
    /\ call.turn = i /\ Len(call.log) < MaxRuns
    /\ \E o \in Outcomes : call' = Invoke(call, o)

\* or replaces the result, by a promise of the same data in an asynchronous call,
Transform(i) ==
    /\ call.turn = i /\ Len(call.log) < MaxRuns
    /\ call' = [call EXCEPT !.result = "data", !.log = Append(@, "data")]

\* or waits for the method. The executor waits for the interceptor, or goes on.
InterceptorAwaits(i) ==
    /\ call.turn = i /\ call.result = "promise" /\ call.promise = "pending"
    /\ Written[intercepts[call.of].steps[i].dec] # "plain"
    /\ call' = [call EXCEPT !.state[i] = "waiting",
                            !.turn = IF call.async \/ call.at = "ended" THEN Loop ELSE 0]

InterceptorReturns(i) ==
    /\ call.turn = i
    /\ call' = [call EXCEPT !.state[i] = "done",
                            !.turn = IF call.at = "steps" THEN 0 ELSE Loop]

\* It throws, or rejects; nobody hears the promise that a synchronous step returned.
InterceptorFails(i) ==
    /\ call.turn = i
    /\ LET e == [call EXCEPT !.state[i] = "failed"]
           heard == call.at = "steps" /\ (call.async \/ Written[intercepts[call.of].steps[i].dec] = "plain")
       IN call' = IF heard THEN Answered(e, "failed")
                  ELSE [e EXCEPT !.turn = IF call.at = "steps" THEN 0 ELSE Loop]

PromiseSettles ==
    /\ call.turn = Loop /\ call.promise = "pending"
    /\ \E o \in {"value", "undefined", "failed"} : call' = [call EXCEPT !.promise = o]

InterceptorResumes(i) ==
    /\ call.turn = Loop /\ call.state[i] = "waiting" /\ call.promise # "pending"
    /\ call' = [call EXCEPT !.state[i] = "running", !.turn = i]

CallNext ==
    /\ call.at # "idle"
    /\ \/ NextStep \/ LastInvoke \/ ResultSettles \/ PromiseSettles
       \/ \E i \in DOMAIN call.state :
             \/ InterceptorInvokes(i) \/ Transform(i) \/ InterceptorAwaits(i)
             \/ InterceptorReturns(i) \/ InterceptorFails(i) \/ InterceptorResumes(i)
    /\ UNCHANGED <<metadataVars, intercepts>>

InterceptInit ==
    /\ MetadataInit
    /\ intercepts = [p \in Providers |-> None]
    /\ call = NoCall

InterceptNext ==
    \/ /\ Quiet
       /\ \/ \E c \in Classes : \E d \in Declarations[c] : Declare(c, d) /\ UNCHANGED <<intercepts, call>>
          \/ \E t \in Tokens, c \in Classes : CreateIntercepted(t, c)
    \/ \E p \in Providers, r \in {"value", "promise"} : Call(p, r)
    \/ CallNext

InterceptSpec == InterceptInit /\ [][InterceptNext]_interceptVars
-----------------------------------------------------------------------------
\* The method runs again only when what it gave before was undefined or thrown,
\* never once it returned a value or a promise or an interceptor gave data
\* instead; and the caller gets the last of these.
ResultIsKept ==
    call.at # "idle" =>
        /\ \A i, j \in DOMAIN call.log :
              (i < j /\ call.log[j] # "data") => call.log[i] \in {"undefined", "throws"}
        /\ call.answer \notin {"none", "failed"} =>
              call.answer = IF call.after = 0 \/ call.log[call.after] = "throws" THEN "undefined"
                            ELSE call.log[call.after]

\* The interceptors that the statements of the class and its bases apply to the method.
Applied(c) ==
    {m \in UNION {ToSet(declaration[e].methods) : e \in ToSet(Prototypes[c])} : m.dec \in Interceptors}

\* When a call has given its answer, every interceptor of the class and of its
\* bases has run to its end, one that returns a promise too if the method or a base's
\* is marked or some interceptor of it shows to be asynchronous.
InterceptorsHaveRun ==
    (call.at = "ended" /\ call.answer # "failed") =>
        LET c == call.of[2]
            steps == intercepts[call.of].steps
            awaited == \/ \E e \in ToSet(Prototypes[c]) : AsyncMark \in {m.dec : m \in ToSet(declaration[e].methods)}
                       \/ \E i \in DOMAIN steps : Written[steps[i].dec] = "async"
        IN /\ cachedMetadata[call.of[1]].class = c => Applied(c) \subseteq ToSet(steps)
           /\ \A i \in DOMAIN steps :
                 call.state[i] = "done" \/ (~awaited /\ Written[steps[i].dec] = "hidden")
=============================================================================
