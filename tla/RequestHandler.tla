--------------------------- MODULE RequestHandler ---------------------------
(***************************************************************************)
(* One request in Router.pipe: requestHandler looks for a route, runs its  *)
(* handler, and after an error does both again, once, for an error route.  *)
(* The handlers are those @typeix/resty makes: they bind the parameters of *)
(* the path in the request's injector before they run any user code.       *)
(* Requests share only the table of routes, which is complete before they  *)
(* arrive, so one request at a time shows all a request can do.  A path    *)
(* matches a route or not; what a handler does is up to its author.        *)
(***************************************************************************)
EXTENDS Naturals, Sequences, FiniteSets

CONSTANTS
    Params,      \* names of path parameters
    Owners,      \* injectors the routes were created in
    Tables,      \* the tables of routes: sequences of Routes
    None

\* The promise of createRule was rejected (and the process lives on): the path
\* is no regular expression, or with a RouterError, as it begins with no slash.
Broken == {"broken", "refused"}

\* What a route is to this request: "main" matches it, "error" is an error
\* route whose path matches it, "other" does not match.
Routes == [kind : {"main", "error", "other"} \cup Broken, params : SUBSET Params, owner : Owners]

\* What is thrown: a RouterError of code 404 or of another one, some other
\* Error, a value without a stack (a string), and undefined or null.
Errors == {"missing", "router", "plain", "bare", "void"}

ASSUME TablesAssumption == None \notin Owners \cup Errors /\ Tables \subseteq Seq(Routes)

VARIABLES
    table,       \* this.routes
    pass,        \* 1, and 2 when requestHandler was given an error
    next,        \* the route parseRequest looks at
    at,          \* where requestHandler is: scan, handler, done
    ran,         \* history: the passes in which a handler came to the user's code
    status,      \* statusCode: ok, missing (404), or that of a thrown RouterError
    ends,        \* how often response.end was called
    body,        \* with what, the first time
    finished,    \* the finish event of the response has been emitted
    parent,      \* the parent of the request's injector
    resolved,    \* the route (its number) bound to ResolvedRoute, 0 for none
    cause,       \* the error bound to RouterError
    bound        \* the path parameters bound

injector == <<parent, resolved, cause, bound>>
response == <<status, ends, body>>
vars == <<table, pass, next, at, ran, status, ends, body, finished, injector>>

TypeOK ==
    /\ table \in Seq(Routes)
    /\ pass \in {1, 2} /\ next \in 1..Len(table) + 1
    /\ at \in {"scan", "handler", "done"}
    /\ ran \subseteq {1, 2}
    /\ status \in {"ok", "missing", "router"}
    /\ ends \in Nat
    /\ body \in {"none", "own", "value", "empty", "report"} /\ (ends = 0 <=> body = "none")
    /\ finished \in BOOLEAN
    /\ parent \in Owners \cup {None} /\ bound \subseteq Params
    /\ resolved \in 0..Len(table) /\ cause \in Errors \cup {None}

Init ==
    /\ table \in Tables
    /\ pass = 1 /\ next = 1 /\ at = "scan"
    /\ ran = {}
    /\ status = "ok" /\ ends = 0 /\ body = "none" /\ finished = FALSE
    /\ parent = None /\ resolved = 0 /\ cause = None /\ bound = {}

-----------------------------------------------------------------------------
(* The response and the error path                                         *)

\* Mutant: the body is sent without asking for writableEnded.
AnswerAgain(b) ==
    /\ ends' = ends + 1
    /\ body' = IF ends = 0 THEN b ELSE body

\* response.end, unless the response is ended.
Answer(b) ==
    IF ends = 0 THEN ends' = 1 /\ body' = b
    ELSE UNCHANGED <<ends, body>>

\* Mutant: the status of an error is set in the first pass only.
CatchKeepsStatus(e) ==
    /\ status' = IF e \in {"missing", "router"} /\ pass = 1 THEN e ELSE status
    /\ cause' = IF pass = 1 /\ cause = None THEN e ELSE cause
    /\ IF pass = 1 /\ e # "void"
       THEN pass' = 2 /\ next' = 1 /\ at' = "scan"
       ELSE UNCHANGED <<pass, next>> /\ at' = "done"
    /\ IF pass = 2 /\ cause # "bare" THEN Answer("report") ELSE UNCHANGED <<ends, body>>

\* The catch clause.  It throws itself, and nobody answers, when it makes a
\* RouterError of undefined, or reports a first error that has no stack.
Catch(e) ==
    /\ status' = IF e \in {"missing", "router"} THEN e ELSE status
    /\ cause' = IF pass = 1 /\ cause = None THEN e ELSE cause
    /\ IF pass = 1 /\ e # "void"
       THEN pass' = 2 /\ next' = 1 /\ at' = "scan"
       ELSE UNCHANGED <<pass, next>> /\ at' = "done"
    /\ IF pass = 2 /\ cause # "bare" THEN Answer("report") ELSE UNCHANGED <<ends, body>>

-----------------------------------------------------------------------------
(* Finding the route                                                       *)

Matches(r) == r.kind = IF pass = 1 THEN "main" ELSE "error"

\* Mutant: every pass names its own route as the resolved one.
AdoptRenames(r) ==
    /\ parent' = IF parent = None THEN r.owner ELSE parent
    /\ resolved' = next

\* The request's injector is adopted and told the route, unless it has a
\* parent and a route already.
Adopt(r) ==
    /\ parent' = IF parent = None THEN r.owner ELSE parent
    /\ resolved' = IF resolved = 0 THEN next ELSE resolved

\* The handler asks for request and response, which are gone when the response
\* has finished, and binds its parameters before it runs the user's code.  One
\* that is bound cannot be bound again: a TypeError.
CallHandler(r) ==
    \/ /\ ~finished /\ r.params \cap bound = {}
       /\ bound' = bound \cup r.params
       /\ at' = "handler" /\ ran' = ran \cup {pass}
       /\ UNCHANGED <<pass, next, cause, response>>
    \/ /\ ~finished /\ r.params \cap bound # {}
       /\ \E S \in SUBSET (r.params \ bound) : bound' = bound \cup S
       /\ Catch("plain") /\ UNCHANGED ran
    \/ finished /\ Catch("plain") /\ UNCHANGED <<bound, ran>>

\* Mutant: setParent without asking for a parent, which throws if there is one.
EnterAdopts(r) ==
    IF parent \in {None, r.owner} THEN Adopt(r) /\ CallHandler(r)
    ELSE Catch("plain") /\ UNCHANGED <<parent, resolved, bound, ran>>

\* The route matches.
Enter(r) == Adopt(r) /\ CallHandler(r)

Match ==
    /\ at = "scan" /\ next <= Len(table)
    /\ Matches(table[next])
    /\ Enter(table[next])
    /\ UNCHANGED <<table, finished>>

Skip ==
    /\ at = "scan" /\ next <= Len(table)
    /\ table[next].kind \notin Broken /\ ~Matches(table[next])
    /\ next' = next + 1
    /\ UNCHANGED <<table, pass, at, ran, response, finished, injector>>

\* No route is left, or awaiting the next one throws what createRule threw.
NoRoute ==
    /\ at = "scan"
    /\ \/ next > Len(table) /\ Catch("missing")
       \/ next <= Len(table) /\ table[next].kind = "broken" /\ Catch("plain")
       \/ next <= Len(table) /\ table[next].kind = "refused" /\ Catch("router")
    /\ UNCHANGED <<table, ran, finished, parent, resolved, bound>>

-----------------------------------------------------------------------------
(* The handler, and the finish event                                       *)

\* It ends the response itself and goes on.
HandlerEnds ==
    /\ at = "handler" /\ ends = 0
    /\ Answer("own")
    /\ UNCHANGED <<table, pass, next, at, ran, status, finished, injector>>

\* It returns a value that can be sent, or nothing.
HandlerReturns ==
    /\ at = "handler"
    /\ Answer("value") \/ Answer("empty")
    /\ at' = "done"
    /\ UNCHANGED <<table, pass, next, ran, status, finished, injector>>

\* It throws, or returns what response.end does not take.
HandlerFails ==
    /\ at = "handler"
    /\ \E e \in Errors \ {"missing"} : Catch(e)
    /\ UNCHANGED <<table, ran, finished, parent, resolved, bound>>

\* pipe destroys the request's injector, whatever the handler is doing.
Finish ==
    /\ ends > 0 /\ ~finished
    /\ finished' = TRUE
    /\ parent' = None /\ resolved' = 0 /\ cause' = None /\ bound' = {}
    /\ UNCHANGED <<table, pass, next, at, ran, response>>

Next == Match \/ Skip \/ NoRoute \/ HandlerEnds \/ HandlerReturns \/ HandlerFails \/ Finish

\* Routes come to be or are rejected, and handlers settle.
Fairness ==
    /\ WF_vars(Match \/ Skip \/ NoRoute)
    /\ WF_vars(HandlerReturns \/ HandlerFails)

Spec == Init /\ [][Next]_vars /\ Fairness

-----------------------------------------------------------------------------
(* Properties                                                              *)

\* Whoever answers first, the handler or the router in either pass, is the
\* only one to end the response.
EndedOnce == ends <= 1

\* The router's own report goes out with status 200 only if the second pass
\* failed with a plain error too: then there was an error route, or a broken
\* one.  A failure nobody handles is not reported as a success.
ReportIsNoSuccess ==
    body = "report" /\ status = "ok" =>
        \E n \in 1..Len(table) : table[n].kind \in {"error", "broken"}

\* The first error route is one the second pass gets to.
ErrorRoute(n) ==
    /\ table[n].kind = "error"
    /\ \A m \in 1..n - 1 : table[m].kind \notin {"error"} \cup Broken

\* The handler of an error route finds the error and the route that failed,
\* not its own, unless the response has been finished in the meantime.
ErrorHandlerSeesFailure ==
    pass = 2 /\ at = "handler" /\ ~finished =>
        /\ cause # None
        /\ 1 \in ran => table[resolved].kind = "main" /\ parent = table[resolved].owner

\* "If any errors is thrown in route handler, router will forward exception
\* to internal route handler" (the router README, of error routes).
FailureReachesErrorRoute ==
    at = "done" /\ pass = 2 /\ 1 \in ran /\ (\E n \in 1..Len(table) : ErrorRoute(n)) => 2 \in ran

\* That holds if the error route and the others share no parameter names,
\* also if the routes belong to different modules, unless the failing handler
\* had ended the response itself and that has finished.
FailureReachesFreshRoute ==
    (\A m, n \in 1..Len(table) : m # n => table[m].params \cap table[n].params = {})
        => FailureReachesErrorRoute \/ (finished /\ body = "own")
=============================================================================
