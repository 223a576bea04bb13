---------------------------- MODULE LambdaServer ----------------------------
(***************************************************************************)
(* One event of @typeix/resty-aws-lambda: the handler of lambdaServer puts *)
(* it to the fake server of @typeix/resty as a request, waits for its      *)
(* response and calls back.  The router and the route handlers are those   *)
(* of RouteHandler; what differs from node's server is when events come.   *)
(* FakeServerResponse emits finish inside of end, before anything else can *)
(* happen, and FakeServerApi emits the end event of the request once, on   *)
(* the next tick, whether anybody listens by then or not.  The event names *)
(* a method of FakeServerApi.  http is node's server, for comparison.      *)
(***************************************************************************)
EXTENDS RouteHandler

VARIABLES
    transport,   \* http, or fake
    outcome      \* of the event: waiting, success or error (called back), rejected

lambdaVars == <<restyVars, transport, outcome>>

LambdaTypeOK ==
    /\ RestyTypeOK
    /\ transport \in {"http", "fake"}
    /\ outcome \in {"waiting", "success", "error", "rejected"}
    /\ outcome # "waiting" => transport = "fake" /\ ends > 0

LambdaInit ==
    /\ RestyInit
    /\ transport \in {"http", "fake"}
    /\ outcome = "waiting"

-----------------------------------------------------------------------------

\* The response is in its end method.
Emitting == transport = "fake" /\ ends > 0 /\ ~finished

\* Mutant: an end without a chunk emits nothing.
EmitWithChunk ==
    /\ Emitting /\ body # "empty" /\ Finish
    /\ UNCHANGED <<chain, exec, gone, transport, outcome>>

\* finish destroys the request's injector and resolves the awaited promise.
EmitFinish ==
    /\ Emitting /\ Finish
    /\ UNCHANGED <<chain, exec, gone, transport, outcome>>

\* Over HTTP the body and the finish event come as in RouteHandler.
Network ==
    /\ transport = "http" /\ (BodyEnds \/ BodyBreaks)
    /\ UNCHANGED <<transport, outcome>>

HttpFinish == transport = "http" /\ Finished /\ UNCHANGED <<transport, outcome>>

Route == ~Emitting /\ (Begin \/ Search) /\ UNCHANGED <<transport, outcome>>

Run == ~Emitting /\ Settles /\ UNCHANGED <<transport, outcome>>

RunOn == ~Emitting /\ (UserEnds \/ HandlerCalled) /\ UNCHANGED <<transport, outcome>>

\* The next tick: FakeServerApi.request emits data and end.
Tick ==
    /\ transport = "fake" /\ ~Emitting /\ ~gone
    /\ IF Awaits("body") THEN BodyEnds
       ELSE gone' = TRUE /\ UNCHANGED <<vars, chain, exec>>
    /\ UNCHANGED <<transport, outcome>>

\* Mutant: the failure is called back as the answer of a gateway event.
OutcomesOfBody == IF status = "ok" \/ body = "report" THEN {"success"} ELSE {"rejected"}

\* What the handler makes of the response it awaited: the body of an error is
\* parsed as JSON, which the router's report is and a user's text need not be.
Outcomes ==
    IF status = "ok" THEN {"success"}
    ELSE CASE body = "report" -> {"error"}
           [] body \in {"own", "value"} -> {"error", "rejected"}
           [] OTHER -> {"rejected"}

\* The status is read when the handler goes on, which may be later.
CallBack ==
    /\ transport = "fake" /\ finished /\ outcome = "waiting"
    /\ outcome' \in Outcomes
    /\ UNCHANGED <<restyVars, transport>>

LambdaNext == Route \/ Run \/ RunOn \/ Network \/ HttpFinish \/ EmitFinish \/ Tick \/ CallBack

\* As in RouteHandler; the fake server's events and the handler need nobody.
LambdaFairness ==
    /\ WF_lambdaVars(Route) /\ WF_lambdaVars(Run \/ Network)
    /\ WF_lambdaVars(EmitFinish) /\ WF_lambdaVars(Tick) /\ WF_lambdaVars(CallBack)

LambdaSpec == LambdaInit /\ [][LambdaNext]_lambdaVars /\ LambdaFairness

-----------------------------------------------------------------------------
(* Properties                                                              *)

\* The body that the running handler waits for has come when nobody listened.
BodyIsMissed == gone /\ Awaits("body")

\* Every event is settled, called back or rejected, unless user code threw
\* what is no Error, or the end event of the fake request came before the
\* body reader listened (in either pass), and then never again.
EventSettles ==
    transport = "fake" =>
        <>(\/ outcome # "waiting"
           \/ at = "done" /\ cause \in {"bare", "void"}
           \/ BodyIsMissed)

\* Over HTTP the request is answered with the exceptions of RestyAnswers.
HttpAnswers == transport = "http" => RestyAnswers

\* However a call comes in, somebody is told how it ended.
CallsAreAnswered == HttpAnswers /\ EventSettles

\* A failure that the router reports reaches the callback as an error, never
\* as a rejection; as a success only if the error route failed as well.
ReportIsCalledBack ==
    body = "report" /\ outcome # "waiting" =>
        \/ outcome = "error"
        \/ outcome = "success" /\ \E n \in 1..Len(table) : table[n].kind \in {"error", "broken"}

\* Over either transport the response is ended once at most.
AnsweredOnce == LambdaTypeOK /\ EndedOnce
=============================================================================
