---------------------------- MODULE RouteHandler ----------------------------
(***************************************************************************)
(* The handlers createRouteHandler of @typeix/resty makes, in the place of *)
(* the abstract handler of RequestHandler: the controller is created, then *)
(* the Executor runs the request interceptors one after the other and the  *)
(* action, which an interceptor may also have run on its own account.      *)
(* Every handler call has its Executor; the request's body is there once.  *)
(***************************************************************************)
EXTENDS RequestHandler

CONSTANTS
    Chains,      \* lists of interceptors: "body" is BodyAsBufferInterceptor
    MaxCalls     \* bound on method.handler() calls that run the action

ASSUME ChainsAssumption == Chains \subseteq Seq({"body", "user"}) /\ MaxCalls \in Nat

VARIABLES
    chain,       \* chain[p]: the interceptors of the route that matches in pass p
    exec,        \* the Executor of the handler that is running, and where it is
    gone         \* the request has emitted its end event (or an error): no other comes

restyVars == <<vars, chain, exec, gone>>

Interceptors == chain[pass]

\* The handler runs and waits for what an interceptor of this kind returns.
Awaits(kind) ==
    at = "handler" /\ exec.at = "interceptor" /\ Interceptors[exec.step] = kind

\* step: 0 before the controller is there, then the interceptor that runs, past
\* the last one in execute's own invoke; gave: history, the action has
\* returned a value in this pass.
Exec == [at : {"create", "interceptor", "action"}, step : Nat, calls : Nat,
         result : {"undefined", "value"}, gave : BOOLEAN]

RestyTypeOK ==
    /\ TypeOK
    /\ chain \in [{1, 2} -> Chains] /\ exec \in Exec
    /\ exec.calls <= MaxCalls + 1
    /\ at = "handler" /\ exec.at = "interceptor" => exec.step \in 1..Len(Interceptors)
    /\ gone \in BOOLEAN

NewExec == [at |-> "create", step |-> 0, calls |-> 0, result |-> "undefined", gave |-> FALSE]

RestyInit ==
    /\ Init
    /\ chain \in [{1, 2} -> Chains]
    /\ exec = NewExec
    /\ gone = FALSE

-----------------------------------------------------------------------------
(* The Executor                                                            *)

\* The handler is still running, and has not answered.
Goes == UNCHANGED <<pass, next, at, status, ends, body, cause>>

\* The handler returns; a value may be one that response.end does not take.
Returns(v) ==
    \/ /\ Answer(IF v = "value" THEN "value" ELSE "empty")
       /\ at' = "done"
       /\ UNCHANGED <<pass, next, status, cause>>
    \/ v = "value" /\ ends = 0 /\ Catch("plain")

\* Mutant: the result of an earlier run is not looked at.
InvokeAlways(e) ==
    exec' = [e EXCEPT !.at = "action", !.calls = @ + 1] /\ Goes

\* Executor.invoke at the end of execute: a result that is there is returned.
Invoke(e) ==
    IF e.result = "value" THEN exec' = e /\ Returns("value")
    ELSE exec' = [e EXCEPT !.at = "action", !.calls = @ + 1] /\ Goes

\* The next round of the loop in execute.
Step(n) ==
    IF n <= Len(Interceptors)
    THEN exec' = [exec EXCEPT !.at = "interceptor", !.step = n] /\ Goes
    ELSE Invoke([exec EXCEPT !.step = n])

\* Mutant: an interceptor that gave nothing ends the loop.
SettledStops(v) ==
    IF v = "value" THEN exec' = [exec EXCEPT !.result = v] /\ Returns(v)
    ELSE IF ends > 0 THEN UNCHANGED exec /\ Catch("router")
    ELSE UNCHANGED exec /\ Goes

\* Mutant: a value is sent, but the loop goes on.
SettledSends(v) ==
    IF v = "value" /\ ends = 0
    THEN Answer("value") /\ exec' = [exec EXCEPT !.at = "action"]
         /\ UNCHANGED <<pass, next, at, status, cause>>
    ELSE IF v = "value" THEN exec' = [exec EXCEPT !.result = v] /\ Returns(v)
    ELSE IF ends > 0 THEN UNCHANGED exec /\ Catch("router")
    ELSE Step(exec.step + 1)

\* An interceptor has settled with v: a value ends the loop, and nothing on a
\* response that is ended is an error.
Settled(v) ==
    IF v = "value" THEN exec' = [exec EXCEPT !.result = v] /\ Returns(v)
    ELSE IF ends > 0 THEN UNCHANGED exec /\ Catch("router")
    ELSE Step(exec.step + 1)

-----------------------------------------------------------------------------
(* Actions                                                                 *)

\* What a step of the handler leaves alone.
InHandler == at = "handler" /\ UNCHANGED <<table, ran, finished, parent, resolved, bound, chain>>

Begin == Match /\ exec' = NewExec /\ UNCHANGED <<chain, gone>>

Search == (Skip \/ NoRoute) /\ UNCHANGED <<chain, exec, gone>>

\* Controller, interceptor or action call response.end.
UserEnds == HandlerEnds /\ UNCHANGED <<chain, exec, gone>>

\* Creating the controller, or a user's interceptor, throws.
UserFails ==
    /\ InHandler
    /\ exec.at = "create" \/ Awaits("user")
    /\ \E e \in Errors \ {"missing"} : Catch(e)
    /\ UNCHANGED <<exec, gone>>

Created ==
    /\ InHandler /\ exec.at = "create"
    /\ Step(1)
    /\ UNCHANGED gone

\* An interceptor awaits method.handler(); a result that is there is all it gets.
HandlerCalled ==
    /\ InHandler /\ Awaits("user")
    /\ exec.calls < MaxCalls /\ exec.result = "undefined"
    /\ exec' = [exec EXCEPT !.at = "action", !.calls = @ + 1]
    /\ Goes /\ UNCHANGED gone

InterceptorSettles ==
    /\ InHandler /\ Awaits("user")
    /\ \E v \in {"value", "undefined"} : Settled(v)
    /\ UNCHANGED gone

\* BodyAsBufferInterceptor: the end event comes and the body is bound,
BodyEnds ==
    /\ InHandler /\ Awaits("body")
    /\ ~gone /\ gone' = TRUE
    /\ Settled("undefined")

\* or the request reports an error.
BodyBreaks ==
    /\ InHandler /\ Awaits("body")
    /\ ~gone /\ gone' = TRUE
    /\ Catch("plain") /\ UNCHANGED exec

ActionReturns ==
    /\ InHandler /\ exec.at = "action"
    /\ \E v \in {"value", "undefined"} :
           LET e == [exec EXCEPT !.result = v, !.gave = @ \/ v = "value"]
           IN  IF exec.step <= Len(Interceptors)
               THEN exec' = [e EXCEPT !.at = "interceptor"] /\ Goes
               ELSE exec' = e /\ Returns(v)
    /\ UNCHANGED gone

\* The interceptor that called it may catch what the action throws.
ActionFails ==
    /\ InHandler /\ exec.at = "action"
    /\ IF exec.step <= Len(Interceptors)
       THEN exec' = [exec EXCEPT !.at = "interceptor"] /\ Goes
       ELSE UNCHANGED exec /\ \E e \in Errors \ {"missing"} : Catch(e)
    /\ UNCHANGED gone

\* node then drops what is left of the request's body.
Finished ==
    /\ Finish
    /\ gone' \in {gone, TRUE}
    /\ UNCHANGED <<chain, exec>>

Settles == Created \/ UserFails \/ InterceptorSettles \/ ActionReturns \/ ActionFails

RestyNext ==
    Begin \/ Search \/ UserEnds \/ HandlerCalled \/ Settles \/ BodyEnds \/ BodyBreaks \/ Finished

\* User code settles and a body that is there arrives.
RestySpec ==
    /\ RestyInit /\ [][RestyNext]_restyVars
    /\ WF_restyVars(Begin \/ Search)
    /\ WF_restyVars(Settles \/ BodyEnds \/ BodyBreaks)

-----------------------------------------------------------------------------
(* Properties                                                              *)

\* Whatever interceptors do, a route handler is one of the handlers Router is
\* made for (RequestHandler): it ends the response once at most, returns or
\* throws once, and touches nothing else of the request.
IsRequestHandler == Init /\ [][Next]_vars

\* An action that returned a value is not run again in the same pass, however
\* many interceptors ask for its result.  (One that returns nothing is.)
ValueIsKept == ~(at = "handler" /\ exec.at = "action" /\ exec.gave)

\* The request is answered unless user code threw what is no Error, or the
\* error route waits for a body that the failing route has read already: its
\* end event does not come again.
RestyAnswers ==
    <>(\/ ends > 0
       \/ at = "done" /\ cause \in {"bare", "void"}
       \/ pass = 2 /\ gone /\ Awaits("body"))
=============================================================================
