------------------------- MODULE RouteHandlerProofs -------------------------
(***************************************************************************)
(* Theorems about RequestHandler, for every table of routes, and about     *)
(* RouteHandler and LambdaServer, for all lists of interceptors: a request *)
(* is answered once, by the first route that matches, and a failure by the *)
(* error route; over HTTP or as a lambda event, the handlers of            *)
(* createRouteHandler are handlers of RequestHandler, and so what is       *)
(* proved of a request holds of theirs.                                    *)
(***************************************************************************)
EXTENDS LambdaServer, TLAPS

-----------------------------------------------------------------------------
(* The invariant                                                           *)

\* No route has been entered before the first pass has found one.
FirstScan ==
    pass = 1 /\ at = "scan" =>
        ran = {} /\ ends = 0 /\ parent = None /\ resolved = 0 /\ bound = {}

\* The pass has skipped what it may skip, and is at the route it runs.
Place ==
    /\ at = "handler" => next <= Len(table) /\ Matches(table[next]) /\ pass \in ran
    /\ at = "scan" => \A m \in 1..next - 1 : table[m].kind \notin Broken /\ ~Matches(table[m])
    /\ pass = 1 => 2 \notin ran

\* Where the answers come from.
Answers ==
    /\ ends = 0 => ~finished
    /\ ends > 0 /\ at # "done" => body = "own"

\* What the second pass finds of the first: the error, and the route if there
\* is one, until finish takes both away.
Remembered ==
    ~finished =>
        /\ pass = 2 => cause # None
        /\ 1 \in ran => /\ resolved \in 1..Len(table) /\ table[resolved].kind = "main"
                        /\ parent = table[resolved].owner

\* Only the route of the first pass has bound parameters when the second looks.
BoundByMain ==
    at = "scan" /\ bound # {} =>
        \E k \in 1..Len(table) : table[k].kind = "main" /\ bound \subseteq table[k].params

MainBinds ==
    at = "handler" /\ pass = 1 => bound \subseteq table[next].params

FreshParams ==
    \A m, n \in 1..Len(table) : m # n => table[m].params \cap table[n].params = {}

\* A second pass that is over has run a handler if there was one to reach, and
\* the request was still there for it.
SecondPassRuns ==
    FreshParams /\ at = "done" /\ pass = 2 =>
        \/ 2 \in ran
        \/ finished /\ body = "own"
        \/ \A n \in 1..Len(table) : ~ErrorRoute(n)

Inv ==
    /\ TypeOK /\ EndedOnce
    /\ FirstScan /\ Place /\ Answers
    /\ Remembered /\ BoundByMain /\ MainBinds /\ SecondPassRuns
    /\ ReportIsNoSuccess

\* A request that has just come satisfies the invariant.
LEMMA InitInv == Init => Inv
<1> SUFFICES ASSUME Init PROVE Inv
  OBVIOUS
<1>1. TypeOK
  <2>1. table \in Seq(Routes) /\ Len(table) \in Nat
    BY TablesAssumption DEF Init
  <2>2. next \in 1..Len(table) + 1 /\ resolved \in 0..Len(table) /\ ran \subseteq {1, 2}
    BY <2>1 DEF Init
  <2>3. finished \in BOOLEAN /\ bound \subseteq Params
    BY DEF Init
  <2>4. QED
    BY <2>1, <2>2, <2>3 DEF Init, TypeOK
<1>2. QED
  BY <1>1 DEF Init, Inv, EndedOnce, FirstScan, Place, Answers, Remembered, BoundByMain,
              MainBinds, SecondPassRuns, ReportIsNoSuccess

-----------------------------------------------------------------------------
(* The steps                                                               *)

\* The catch clause, by what it leaves: it goes on to the second pass from the
\* top, or is done.  It answers only when it is done.
LEMMA CatchCases ==
  ASSUME NEW e \in Errors, TypeOK, EndedOnce, Catch(e)
  PROVE  /\ \/ pass = 1 /\ pass' = 2 /\ next' = 1 /\ at' = "scan" /\ UNCHANGED <<ends, body>>
            \/ pass' = pass /\ next' = next /\ at' = "done"
         /\ \/ UNCHANGED <<ends, body>>
            \/ pass = 2 /\ ends = 0 /\ ends' = 1 /\ body' = "report"
         /\ status' = IF e \in {"missing", "router"} THEN e ELSE status
         /\ cause' \in Errors \cup {None}
         /\ pass' = 2 /\ pass = 1 => cause' # None
         /\ pass = 2 => cause' = cause
  BY TablesAssumption DEF Catch, Answer, TypeOK, EndedOnce

\* Entering a route that matches: its handler runs, or its parameters clash, or
\* there is no request any more.
LEMMA EnterCases ==
  ASSUME TypeOK, EndedOnce, at = "scan", next \in 1..Len(table), Matches(table[next]),
         Enter(table[next])
  PROVE  /\ parent' = IF parent = None THEN table[next].owner ELSE parent
         /\ resolved' = IF resolved = 0 THEN next ELSE resolved
         /\ bound' \subseteq bound \cup table[next].params
         /\ \/ /\ ~finished /\ bound \cap table[next].params = {}
               /\ at' = "handler" /\ ran' = ran \cup {pass}
               /\ UNCHANGED <<pass, next, cause, response>>
            \/ /\ finished \/ bound \cap table[next].params # {}
               /\ Catch("plain") /\ UNCHANGED ran
  BY DEF Enter, Adopt, CallHandler

\* What a match does to the rest of the state.
LEMMA MatchCases ==
  ASSUME TypeOK, EndedOnce, Match
  PROVE  /\ at = "scan" /\ next \in 1..Len(table) /\ Matches(table[next])
         /\ table[next] \in Routes /\ Enter(table[next])
         /\ UNCHANGED <<table, finished>>
  BY DEF Match, TypeOK

\* The types, and that no step answers a request that has been answered.
LEMMA TypeStep ==
  ASSUME Inv, [Next]_vars
  PROVE  TypeOK' /\ EndedOnce'
<1>0. TypeOK /\ EndedOnce
  BY DEF Inv
<1>1. ASSUME NEW e \in Errors, Catch(e), UNCHANGED <<table, finished>>,
             ran' \subseteq {1, 2}, parent' \in Owners \cup {None},
             bound' \subseteq Params, resolved' \in 0..Len(table)
      PROVE  TypeOK' /\ EndedOnce'
  <2>1. status' \in {"ok", "missing", "router"}
    BY <1>0, <1>1, CatchCases DEF TypeOK
  <2>2. ends' \in Nat /\ ends' <= 1 /\ (ends' = 0 <=> body' = "none")
        /\ body' \in {"none", "own", "value", "empty", "report"}
    BY <1>0, <1>1, CatchCases DEF TypeOK, EndedOnce
  <2>3. pass' \in {1, 2} /\ next' \in 1..Len(table) + 1 /\ at' \in {"scan", "handler", "done"}
    BY <1>0, <1>1, CatchCases DEF TypeOK
  <2>4. cause' \in Errors \cup {None}
    BY <1>0, <1>1, CatchCases
  <2>5. QED
    BY <1>0, <1>1, <2>1, <2>2, <2>3, <2>4 DEF TypeOK, EndedOnce
<1>2. CASE Match
  <2>1. /\ parent' \in Owners \cup {None} /\ resolved' \in 0..Len(table)
        /\ bound' \subseteq Params
    BY <1>0, <1>2, MatchCases, EnterCases DEF TypeOK, Routes
  <2>2. CASE Catch("plain") /\ UNCHANGED ran
    BY <1>0, <1>1, <1>2, <2>1, <2>2, MatchCases DEF TypeOK, Errors
  <2>3. CASE at' = "handler" /\ ran' = ran \cup {pass} /\ UNCHANGED <<pass, next, cause, response>>
    BY <1>0, <1>2, <2>1, <2>3, MatchCases DEF TypeOK, EndedOnce, response
  <2>4. QED
    BY <1>0, <1>2, <2>2, <2>3, MatchCases, EnterCases
<1>3. CASE Skip
  BY <1>0, <1>3 DEF Skip, TypeOK, EndedOnce, response, injector
<1>4. CASE NoRoute
  <2>1. \E e \in Errors : Catch(e)
    BY <1>4 DEF NoRoute, Errors
  <2>2. QED
    BY <1>0, <1>1, <1>4, <2>1 DEF NoRoute, TypeOK
<1>5. CASE HandlerEnds \/ HandlerReturns
  <2>1. /\ ends' \in Nat /\ ends' <= 1 /\ (ends' = 0 <=> body' = "none")
        /\ body' \in {"none", "own", "value", "empty", "report"}
    BY <1>0, <1>5 DEF HandlerEnds, HandlerReturns, Answer, TypeOK, EndedOnce
  <2>2. at' \in {"scan", "handler", "done"}
        /\ UNCHANGED <<table, pass, next, ran, status, finished, injector>>
    BY <1>0, <1>5 DEF HandlerEnds, HandlerReturns, TypeOK
  <2>3. QED
    BY <1>0, <2>1, <2>2 DEF TypeOK, EndedOnce, injector
<1>6. CASE HandlerFails
  BY <1>0, <1>1, <1>6 DEF HandlerFails, TypeOK
<1>7. CASE Finish
  BY <1>0, <1>7 DEF Finish, TypeOK, EndedOnce, response
<1>8. CASE UNCHANGED vars
  BY <1>0, <1>8 DEF vars, injector, TypeOK, EndedOnce
<1>9. QED
  BY <1>2, <1>3, <1>4, <1>5, <1>6, <1>7, <1>8 DEF Next

\* The first pass stays untouched until it finds its route.
LEMMA FirstScanStep ==
  ASSUME Inv, [Next]_vars
  PROVE  FirstScan'
<1>0. TypeOK /\ EndedOnce /\ FirstScan
  BY DEF Inv
<1>1. ASSUME NEW e \in Errors, Catch(e)
      PROVE  FirstScan'
  BY <1>0, <1>1, CatchCases DEF FirstScan, TypeOK
<1>2. CASE Match
  BY <1>0, <1>1, <1>2, MatchCases, EnterCases DEF FirstScan, Errors
<1>3. CASE Skip
  BY <1>0, <1>3 DEF Skip, FirstScan, response, injector
<1>4. CASE NoRoute
  BY <1>1, <1>4 DEF NoRoute, Errors
<1>5. CASE HandlerEnds \/ HandlerReturns
  BY <1>5 DEF HandlerEnds, HandlerReturns, FirstScan
<1>6. CASE HandlerFails
  BY <1>1, <1>6 DEF HandlerFails
<1>7. CASE Finish
  BY <1>0, <1>7 DEF Finish, FirstScan, response
<1>8. CASE UNCHANGED vars
  BY <1>0, <1>8 DEF vars, injector, FirstScan
<1>9. QED
  BY <1>2, <1>3, <1>4, <1>5, <1>6, <1>7, <1>8 DEF Next

\* A handler runs at the route that matches its pass, and every route before
\* the one a pass looks at has been skipped for a reason.
LEMMA PlaceStep ==
  ASSUME Inv, [Next]_vars
  PROVE  Place'
<1>0. TypeOK /\ EndedOnce /\ Place
  BY DEF Inv
<1>1. ASSUME NEW e \in Errors, Catch(e), ran' = ran, table' = table
      PROVE  Place'
  BY <1>0, <1>1, CatchCases DEF Place, TypeOK
<1>2. CASE Match
  <2>1. CASE Catch("plain") /\ UNCHANGED ran
    BY <1>1, <1>2, <2>1 DEF Match, Errors
  <2>2. CASE at' = "handler" /\ ran' = ran \cup {pass} /\ UNCHANGED <<pass, next, cause, response>>
    BY <1>0, <1>2, <2>2, MatchCases DEF Place, Matches, TypeOK
  <2>3. QED
    BY <1>0, <1>2, <2>1, <2>2, MatchCases, EnterCases
<1>3. CASE Skip
  <2>1. next \in Nat /\ next' = next + 1
    BY <1>0, <1>3 DEF Skip, TypeOK
  <2>2. \A m \in 1..next' - 1 : table[m].kind \notin Broken /\ ~Matches(table[m])
    BY <1>0, <1>3, <2>1 DEF Skip, Place
  <2>3. QED
    BY <1>0, <1>3, <2>2 DEF Skip, Place, Matches
<1>4. CASE NoRoute
  BY <1>1, <1>4 DEF NoRoute, Errors
<1>5. CASE HandlerEnds
  BY <1>0, <1>5 DEF HandlerEnds, Place, Matches
<1>6. CASE HandlerReturns
  BY <1>0, <1>6 DEF HandlerReturns, Place
<1>7. CASE HandlerFails
  BY <1>1, <1>7 DEF HandlerFails
<1>8. CASE Finish \/ UNCHANGED vars
  BY <1>0, <1>8 DEF Finish, vars, Place, Matches
<1>9. QED
  BY <1>2, <1>3, <1>4, <1>5, <1>6, <1>7, <1>8 DEF Next

\* The router's own report is the last thing a request sees.
LEMMA AnswersStep ==
  ASSUME Inv, [Next]_vars
  PROVE  Answers'
<1>0. TypeOK /\ EndedOnce /\ Answers
  BY DEF Inv
<1>1. ASSUME NEW e \in Errors, Catch(e), at # "done", UNCHANGED finished
      PROVE  Answers'
  BY <1>0, <1>1, CatchCases DEF Answers, TypeOK
<1>2. CASE Match
  <2>1. CASE Catch("plain")
    BY <1>1, <1>2, <2>1, MatchCases DEF Match, Errors
  <2>2. CASE UNCHANGED response
    BY <1>0, <1>2, <2>2, MatchCases DEF Answers, response
  <2>3. QED
    BY <1>0, <1>2, <2>1, <2>2, MatchCases, EnterCases
<1>3. CASE Skip
  BY <1>0, <1>3 DEF Skip, Answers, response
<1>4. CASE NoRoute
  BY <1>1, <1>4 DEF NoRoute, Errors
<1>5. CASE HandlerEnds \/ HandlerReturns
  BY <1>0, <1>5 DEF HandlerEnds, HandlerReturns, Answer, Answers
<1>6. CASE HandlerFails
  BY <1>1, <1>6 DEF HandlerFails
<1>7. CASE Finish \/ UNCHANGED vars
  BY <1>0, <1>7 DEF Finish, vars, Answers, response, TypeOK
<1>8. QED
  BY <1>2, <1>3, <1>4, <1>5, <1>6, <1>7 DEF Next

\* In the first pass no parameter is bound, so a match enters its handler.
LEMMA FirstMatch ==
  ASSUME Inv, Match, pass = 1
  PROVE  /\ at' = "handler" /\ ran' = ran \cup {pass} /\ bound' \subseteq table[next].params
         /\ UNCHANGED <<table, pass, next, cause, response>>
  BY MatchCases, EnterCases DEF Inv, FirstScan, Answers

\* The error and the failing route stay bound until the finish event.
LEMMA RememberedStep ==
  ASSUME Inv, [Next]_vars
  PROVE  Remembered'
<1>0. TypeOK /\ EndedOnce /\ FirstScan /\ Place /\ Answers /\ Remembered
  BY DEF Inv
<1>1. ASSUME NEW e \in Errors, Catch(e), UNCHANGED <<table, finished, ran, parent, resolved>>
      PROVE  Remembered'
  BY <1>0, <1>1, CatchCases DEF Remembered, TypeOK
<1>2. CASE Match
  <2>1. CASE pass = 1
    <3>1. ~finished
      BY <1>0, <1>2, <2>1 DEF Match, FirstScan, Answers
    <3>2. parent' = table[next].owner /\ resolved' = next /\ table[next].kind = "main"
      BY <1>0, <1>2, <2>1, MatchCases, EnterCases DEF FirstScan, Matches
    <3>3. QED
      BY <1>2, <2>1, <3>2, FirstMatch, MatchCases DEF Remembered, Inv, TypeOK
  <2>2. CASE pass = 2
    <3>1. ~finished' => cause' # None
      BY <1>0, <1>2, <2>2, MatchCases, EnterCases, CatchCases DEF Remembered, Errors, TypeOK
    <3>2. ASSUME ~finished', 1 \in ran'
          PROVE  /\ resolved' \in 1..Len(table') /\ table'[resolved'].kind = "main"
                 /\ parent' = table'[resolved'].owner
      <4>1. ~finished /\ 1 \in ran /\ table' = table
        BY <1>0, <1>2, <2>2, <3>2, MatchCases, EnterCases
      <4>2. table[resolved] \in Routes /\ resolved \in 1..Len(table)
            /\ parent = table[resolved].owner /\ table[resolved].kind = "main"
        BY <1>0, <4>1 DEF Remembered, TypeOK
      <4>3. parent # None /\ resolved # 0
        BY <4>2, TablesAssumption DEF Routes
      <4>4. parent' = parent /\ resolved' = resolved
        BY <1>0, <1>2, <4>3, MatchCases, EnterCases
      <4>5. QED
        BY <4>1, <4>2, <4>4
    <3>3. QED
      BY <3>1, <3>2 DEF Remembered
  <2>3. QED
    BY <1>0, <2>1, <2>2 DEF TypeOK
<1>3. CASE Skip
  BY <1>0, <1>3 DEF Skip, Remembered, injector
<1>4. CASE NoRoute
  BY <1>1, <1>4 DEF NoRoute, Errors
<1>5. CASE HandlerEnds \/ HandlerReturns
  BY <1>0, <1>5 DEF HandlerEnds, HandlerReturns, Remembered, injector
<1>6. CASE HandlerFails
  BY <1>1, <1>6 DEF HandlerFails
<1>7. CASE Finish
  BY <1>7 DEF Finish, Remembered
<1>8. CASE UNCHANGED vars
  BY <1>0, <1>8 DEF vars, injector, Remembered
<1>9. QED
  BY <1>2, <1>3, <1>4, <1>5, <1>6, <1>7, <1>8 DEF Next

\* The parameters bound are those of the route that failed.
LEMMA BoundStep ==
  ASSUME Inv, [Next]_vars
  PROVE  BoundByMain' /\ MainBinds'
<1>0. TypeOK /\ EndedOnce /\ FirstScan /\ Place /\ BoundByMain /\ MainBinds
  BY DEF Inv
<1>1. CASE Match
  <2>1. CASE pass = 1
    BY <1>1, <2>1, FirstMatch DEF BoundByMain, MainBinds
  <2>2. CASE pass = 2
    BY <1>0, <1>1, <2>2, MatchCases, EnterCases, CatchCases
       DEF BoundByMain, MainBinds, Errors
  <2>3. QED
    BY <1>0, <2>1, <2>2 DEF TypeOK
<1>2. CASE Skip
  BY <1>0, <1>2 DEF Skip, BoundByMain, MainBinds, injector
<1>3. CASE NoRoute
  BY <1>0, <1>3, CatchCases DEF NoRoute, BoundByMain, MainBinds, Errors, TypeOK
<1>4. CASE HandlerEnds \/ HandlerReturns
  BY <1>0, <1>4 DEF HandlerEnds, HandlerReturns, BoundByMain, MainBinds, injector
<1>5. CASE HandlerFails
  <2>1. PICK e \in Errors : Catch(e)
    BY <1>5 DEF HandlerFails
  <2>2. CASE pass = 2
    BY <1>0, <1>5, <2>1, <2>2, CatchCases DEF HandlerFails, BoundByMain, MainBinds
  <2>3. CASE pass = 1
    <3>1. next \in 1..Len(table) /\ table[next].kind = "main" /\ bound \subseteq table[next].params
      BY <1>0, <1>5, <2>3 DEF HandlerFails, Place, Matches, MainBinds, TypeOK
    <3>2. UNCHANGED <<table, bound>> /\ at' # "handler"
      BY <1>0, <1>5, <2>1, CatchCases DEF HandlerFails
    <3>3. QED
      BY <3>1, <3>2 DEF BoundByMain, MainBinds
  <2>4. QED
    BY <1>0, <2>2, <2>3 DEF TypeOK
<1>6. CASE Finish
  BY <1>6 DEF Finish, BoundByMain, MainBinds
<1>7. CASE UNCHANGED vars
  BY <1>0, <1>7 DEF vars, injector, BoundByMain, MainBinds
<1>8. QED
  BY <1>1, <1>2, <1>3, <1>4, <1>5, <1>6, <1>7 DEF Next

\* A second pass ends without a handler only if it meets a broken route first,
\* has no error route, or clashes with the parameters of the route that failed.
LEMMA SecondPassStep ==
  ASSUME Inv, [Next]_vars
  PROVE  SecondPassRuns'
<1>0. TypeOK /\ EndedOnce /\ Place /\ BoundByMain /\ SecondPassRuns /\ FirstScan /\ Answers
  BY DEF Inv
<1>1. CASE Match
  <2>1. CASE pass = 1
    BY <1>1, <2>1, FirstMatch DEF SecondPassRuns
  <2>2. CASE pass = 2 /\ ~finished /\ bound \cap table[next].params # {}
    <3>1. PICK k \in 1..Len(table) : table[k].kind = "main" /\ bound \subseteq table[k].params
      BY <1>0, <1>1, <2>2, MatchCases DEF BoundByMain
    <3>2. next \in 1..Len(table) /\ table[next].kind = "error"
      BY <1>0, <1>1, <2>2, MatchCases DEF Matches
    <3>3. ~FreshParams
      BY <2>2, <3>1, <3>2 DEF FreshParams
    <3>4. QED
      BY <1>0, <1>1, <3>3, MatchCases DEF SecondPassRuns, FreshParams
  <2>3. CASE pass = 2 /\ ~finished /\ bound \cap table[next].params = {}
    BY <1>0, <1>1, <2>3, MatchCases, EnterCases DEF SecondPassRuns
  <2>4. CASE pass = 2 /\ finished
    <3>1. at = "scan" /\ UNCHANGED finished
      BY <1>0, <1>1, MatchCases
    <3>2. ends = 1 /\ body = "own"
      BY <1>0, <2>4, <3>1 DEF Answers, TypeOK, EndedOnce
    <3>3. body' = body
      BY <1>0, <1>1, <2>4, <3>2, MatchCases, EnterCases, CatchCases DEF Errors
    <3>4. finished'
      BY <2>4, <3>1, Zenon
    <3>5. QED
      BY <3>2, <3>3, <3>4 DEF SecondPassRuns
  <2>5. QED
    BY <1>0, <2>1, <2>2, <2>3, <2>4 DEF TypeOK
<1>2. CASE Skip
  BY <1>0, <1>2 DEF Skip, SecondPassRuns
<1>3. CASE NoRoute
  <2>1. UNCHANGED <<table, ran>> /\ (pass' = 2 /\ at' = "done" => pass = 2)
    BY <1>0, <1>3, CatchCases DEF NoRoute, Errors, TypeOK
  <2>2. ASSUME pass = 2, NEW n \in 1..Len(table), ErrorRoute(n)
        PROVE  FALSE
    <3>1. next \in Nat /\ n \in Nat /\ Len(table) \in Nat /\ next >= 1
      BY <1>0 DEF TypeOK
    <3>2. ~(n < next)
      BY <1>0, <1>3, <2>2, <3>1 DEF NoRoute, Place, Matches, ErrorRoute
    <3>3. next <= Len(table) /\ table[next].kind \in Broken
      BY <1>3, <2>2, <3>1, <3>2 DEF NoRoute, Broken
    <3>4. n # next
      BY <2>2, <3>3 DEF ErrorRoute, Broken
    <3>5. QED
      BY <2>2, <3>1, <3>2, <3>3, <3>4 DEF ErrorRoute
  <2>3. QED
    BY <1>0, <2>1, <2>2 DEF SecondPassRuns, FreshParams, ErrorRoute
<1>4. CASE HandlerEnds \/ HandlerReturns
  BY <1>0, <1>4 DEF HandlerEnds, HandlerReturns, SecondPassRuns, Place, FreshParams, ErrorRoute
<1>5. CASE HandlerFails
  <2>1. PICK e \in Errors : Catch(e)
    BY <1>5 DEF HandlerFails
  <2>2. QED
    BY <1>0, <1>5, <2>1, CatchCases DEF HandlerFails, SecondPassRuns, Place, TypeOK
<1>6. CASE Finish \/ UNCHANGED vars
  BY <1>0, <1>6 DEF Finish, vars, SecondPassRuns, FreshParams, ErrorRoute
<1>7. QED
  BY <1>1, <1>2, <1>3, <1>4, <1>5, <1>6 DEF Next

\* The second pass reports with status 200 only what an error route threw, or
\* a broken one.
LEMMA ReportStep ==
  ASSUME Inv, [Next]_vars
  PROVE  ReportIsNoSuccess'
<1>0. TypeOK /\ EndedOnce /\ Place /\ Answers /\ ReportIsNoSuccess
  BY DEF Inv
<1> DEFINE Faulty == \E n \in 1..Len(table) : table[n].kind \in {"error", "broken"}
<1>1. ASSUME NEW e \in Errors, Catch(e), table' = table, at # "done",
             pass = 2 => e \in {"missing", "router"} \/ Faulty
      PROVE  ReportIsNoSuccess'
  <2>1. CASE body' = "report" /\ body # "report"
    BY <1>0, <1>1, <2>1, CatchCases DEF ReportIsNoSuccess
  <2>2. CASE body' # "report"
    BY <2>2 DEF ReportIsNoSuccess
  <2>3. QED
    BY <1>0, <1>1, <2>1, <2>2 DEF Answers, TypeOK
<1>2. CASE Match
  <2>1. CASE Catch("plain")
    <3>1. pass = 2 => Faulty
      BY <1>2, MatchCases, <1>0 DEF Matches
    <3>2. QED
      BY <1>1, <1>2, <2>1, <3>1 DEF Match, Errors
  <2>2. CASE UNCHANGED response
    BY <1>0, <1>2, <2>2, MatchCases DEF ReportIsNoSuccess, response
  <2>3. QED
    BY <1>0, <1>2, <2>1, <2>2, MatchCases, EnterCases
<1>3. CASE Skip
  BY <1>0, <1>3 DEF Skip, ReportIsNoSuccess, response
<1>4. CASE NoRoute
  <2>1. CASE Catch("missing")
    BY <1>1, <1>4, <2>1 DEF NoRoute, Errors
  <2>2. CASE next <= Len(table) /\ table[next].kind = "broken" /\ Catch("plain")
    <3>1. Faulty
      BY <1>0, <2>2 DEF TypeOK
    <3>2. QED
      BY <1>1, <1>4, <2>2, <3>1 DEF NoRoute, Errors
  <2>3. CASE Catch("router")
    BY <1>1, <1>4, <2>3 DEF NoRoute, Errors
  <2>4. QED
    BY <1>4, <2>1, <2>2, <2>3 DEF NoRoute
<1>5. CASE HandlerEnds \/ HandlerReturns
  BY <1>0, <1>5 DEF HandlerEnds, HandlerReturns, Answer, ReportIsNoSuccess
<1>6. CASE HandlerFails
  <2>1. PICK e \in Errors : Catch(e)
    BY <1>6 DEF HandlerFails
  <2>2. pass = 2 => Faulty
    BY <1>0, <1>6 DEF HandlerFails, Place, Matches, TypeOK
  <2>3. QED
    BY <1>1, <1>6, <2>1, <2>2 DEF HandlerFails
<1>7. CASE Finish \/ UNCHANGED vars
  BY <1>0, <1>7 DEF Finish, vars, ReportIsNoSuccess, response
<1>8. QED
  BY <1>2, <1>3, <1>4, <1>5, <1>6, <1>7 DEF Next

\* Every step of a request keeps the whole invariant.
LEMMA InvStep == Inv /\ [Next]_vars => Inv'
  BY TypeStep, FirstScanStep, PlaceStep, AnswersStep, RememberedStep, BoundStep,
     SecondPassStep, ReportStep DEF Inv

\* What the invariant says of one state.
LEMMA InvImplies ==
  ASSUME Inv
  PROVE  ErrorHandlerSeesFailure /\ FailureReachesFreshRoute
  BY DEF Inv, ErrorHandlerSeesFailure, FailureReachesFreshRoute, FailureReachesErrorRoute,
         Remembered, SecondPassRuns, FreshParams

-----------------------------------------------------------------------------
(* The theorems.  The invariant is about Init /\ [][Next]_vars, the safety  *)
(* part of Spec, so that what implements a request handler inherits it.    *)

\* The invariant holds in every state of a request, for every table.
THEOREM RequestInvariance == Init /\ [][Next]_vars => []Inv
  BY InitInv, InvStep, PTL

\* Whatever handlers and the two passes do, the response is ended once.
THEOREM RequestEndedOnce == Spec => []EndedOnce
  BY RequestInvariance, PTL DEF Spec, Inv

\* A failure nobody handles is not reported as a success.
THEOREM RequestReportIsNoSuccess == Spec => []ReportIsNoSuccess
  BY RequestInvariance, PTL DEF Spec, Inv

\* The handler of an error route finds the error and the route that failed.
THEOREM RequestErrorHandlerSeesFailure == Spec => []ErrorHandlerSeesFailure
  BY RequestInvariance, InvImplies, PTL DEF Spec

\* A failure reaches the first error route if no parameter name is shared and
\* the failing handler had not ended the response, with that finished.
THEOREM RequestFailureReachesFreshRoute == Spec => []FailureReachesFreshRoute
  BY RequestInvariance, InvImplies, PTL DEF Spec

-----------------------------------------------------------------------------
(* Every step of a route handler is a step of RequestHandler, or none       *)

\* A handler that returns is seen as returning or failing.
LEMMA ReturnsMaps ==
  ASSUME InHandler, NEW v \in {"value", "undefined"}, Returns(v)
  PROVE  Next
  BY DEF InHandler, Returns, Next, HandlerReturns, HandlerFails, Errors, injector

\* One that throws is seen as failing.
LEMMA CatchMaps ==
  ASSUME InHandler, NEW e \in Errors \ {"missing"}, Catch(e)
  PROVE  Next
  BY DEF InHandler, Next, HandlerFails

\* Whatever goes on inside is not seen.
LEMMA GoesMaps ==
  ASSUME InHandler, Goes
  PROVE  UNCHANGED vars
  BY DEF InHandler, Goes, vars, injector

\* The end of execute is either of them,
LEMMA StepMaps ==
  ASSUME InHandler, NEW n, Step(n)
  PROVE  [Next]_vars
  BY ReturnsMaps, GoesMaps DEF Step, Invoke

\* and so is what an interceptor leaves.
LEMMA SettledMaps ==
  ASSUME InHandler, NEW v \in {"value", "undefined"}, Settled(v)
  PROVE  [Next]_vars
  BY ReturnsMaps, CatchMaps, StepMaps DEF Settled, Errors

\* So every step of a route handler is a step of RequestHandler, or none.
LEMMA RestyStepMaps == [RestyNext]_restyVars => [Next]_vars
<1> SUFFICES ASSUME [RestyNext]_restyVars PROVE [Next]_vars
  OBVIOUS
<1>1. CASE Begin \/ Search \/ UserEnds \/ Finished
  BY <1>1 DEF Begin, Search, UserEnds, Finished, Next
<1>2. CASE HandlerCalled
  BY <1>2, GoesMaps DEF HandlerCalled
<1>3. CASE UserFails
  BY <1>3, CatchMaps DEF UserFails
<1>4. CASE Created
  BY <1>4, StepMaps DEF Created
<1>5. CASE InterceptorSettles
  BY <1>5, SettledMaps DEF InterceptorSettles
<1>6. CASE BodyEnds \/ BodyBreaks
  BY <1>6, SettledMaps, CatchMaps DEF BodyEnds, BodyBreaks, Errors
<1>7. CASE ActionReturns
  BY <1>7, ReturnsMaps, GoesMaps DEF ActionReturns
<1>8. CASE ActionFails
  BY <1>8, CatchMaps, GoesMaps DEF ActionFails
<1>9. CASE UNCHANGED restyVars
  BY <1>9 DEF restyVars
<1>10. QED
  BY <1>1, <1>2, <1>3, <1>4, <1>5, <1>6, <1>7, <1>8, <1>9 DEF RestyNext, Settles

\* The transports only decide when these steps come, and may end a body that
\* nobody waits for.
LEMMA LambdaStepIsResty ==
  ASSUME [LambdaNext]_lambdaVars
  PROVE  [RestyNext]_restyVars \/ (UNCHANGED <<vars, chain, exec>> /\ gone' = TRUE)
  BY DEF LambdaNext, lambdaVars, Route, Run, RunOn, Network, HttpFinish, EmitFinish, Tick,
         CallBack, RestyNext, restyVars, Finished

\* So is every step of a request, whatever brings it.
LEMMA LambdaStepMaps ==
  ASSUME [LambdaNext]_lambdaVars
  PROVE  [Next]_vars
  BY LambdaStepIsResty, RestyStepMaps

-----------------------------------------------------------------------------
(* The Executor                                                            *)

ExecTypeOK ==
    /\ chain \in [{1, 2} -> Chains] /\ exec \in Exec /\ gone \in BOOLEAN
    /\ at = "handler" /\ exec.at = "interceptor" => exec.step \in 1..Len(Interceptors)
    /\ at = "handler" /\ exec.at = "action" => exec.step # 0

\* Only the invocation at the end of execute goes beyond the bound.
CallsBounded ==
    /\ exec.calls <= MaxCalls + 1
    /\ at = "handler" /\ (exec.at # "action" \/ exec.step <= Len(Interceptors)) =>
           exec.calls <= MaxCalls

\* A value that the action gave is there for everybody, and it is not running.
ValueIsThere ==
    at = "handler" /\ exec.gave => exec.result = "value" /\ exec.at # "action"

ExecInv == ExecTypeOK /\ CallsBounded /\ ValueIsThere

\* The list of the running pass is a list.
LEMMA InterceptorsType ==
  ASSUME TypeOK, ExecTypeOK
  PROVE  /\ Interceptors \in Seq({"body", "user"}) /\ Len(Interceptors) \in Nat
         /\ exec.step \in Nat /\ exec.calls \in Nat /\ MaxCalls \in Nat
  BY ChainsAssumption DEF TypeOK, ExecTypeOK, Interceptors, Exec

\* A step that ends the handler leaves nothing of the Executor to be wrong.
LEMMA HandlerOver ==
  ASSUME at' # "handler", exec' \in Exec, exec'.calls <= MaxCalls + 1,
         chain' \in [{1, 2} -> Chains], gone' \in BOOLEAN
  PROVE  ExecInv'
  BY DEF ExecInv, ExecTypeOK, CallsBounded, ValueIsThere

\* A handler that returns or throws is over.
LEMMA ReturnsEnds ==
  ASSUME NEW v, Returns(v)
  PROVE  at' # "handler"
  BY DEF Returns, Catch

\* So is one that throws.
LEMMA CatchEnds ==
  ASSUME NEW e, Catch(e)
  PROVE  at' # "handler"
  BY DEF Catch

\* Running the action is one more call of it.
LEMMA ActionCalled ==
  ASSUME NEW e \in Exec, NEW f, f = [e EXCEPT !.at = "action", !.calls = @ + 1]
  PROVE  /\ f \in Exec /\ f.at = "action" /\ f.step = e.step /\ f.calls = e.calls + 1
         /\ f.gave = e.gave
<1>1. e.calls + 1 \in Nat
  BY DEF Exec
<1>2. f = [at |-> "action", step |-> e.step, calls |-> e.calls + 1, result |-> e.result,
           gave |-> e.gave]
  BY DEF Exec
<1>3. QED
  BY <1>1, <1>2 DEF Exec

\* The next interceptor, or the invocation at the end.
LEMMA ExecStepOn ==
  ASSUME TypeOK, ExecInv, InHandler, gone' \in BOOLEAN, NEW n \in Nat \ {0},
         exec.at # "action", Step(n)
  PROVE  ExecInv'
<1>1. /\ Len(Interceptors) \in Nat /\ exec.calls \in Nat /\ exec.calls <= MaxCalls
      /\ exec \in Exec /\ MaxCalls \in Nat /\ chain' = chain /\ at = "handler"
      /\ chain \in [{1, 2} -> Chains] /\ (exec.gave => exec.result = "value")
  BY InterceptorsType DEF ExecInv, ExecTypeOK, CallsBounded, ValueIsThere, InHandler
<1>2. CASE n <= Len(Interceptors)
  <2>1. exec' = [exec EXCEPT !.at = "interceptor", !.step = n] /\ Goes
    BY <1>2 DEF Step
  <2>2. Interceptors' = Interceptors /\ at' = at
    BY <1>1, <2>1 DEF Goes, Interceptors
  <2>3. exec' \in Exec /\ exec'.at = "interceptor" /\ exec'.step = n /\ exec'.calls = exec.calls
        /\ exec'.gave = exec.gave /\ exec'.result = exec.result
    BY <1>1, <2>1 DEF Exec
  <2>4. QED
    BY <1>1, <1>2, <2>2, <2>3 DEF ExecInv, ExecTypeOK, CallsBounded, ValueIsThere
<1>3. CASE ~(n <= Len(Interceptors)) /\ exec.result = "value"
  <2>1. exec' = [exec EXCEPT !.step = n] /\ Returns("value")
    BY <1>1, <1>3 DEF Step, Invoke, Exec
  <2>2. exec' \in Exec /\ exec'.calls = exec.calls
    BY <1>1, <2>1 DEF Exec
  <2>3. QED
    BY <1>1, <2>1, <2>2, ReturnsEnds, HandlerOver
<1>4. CASE ~(n <= Len(Interceptors)) /\ exec.result # "value"
  <2>1. exec' = [[exec EXCEPT !.step = n] EXCEPT !.at = "action", !.calls = @ + 1] /\ Goes
    BY <1>1, <1>4 DEF Step, Invoke, Exec
  <2>2. Interceptors' = Interceptors /\ at' = at
    BY <1>1, <2>1 DEF Goes, Interceptors
  <2> DEFINE e == [exec EXCEPT !.step = n]
  <2>3. e \in Exec /\ e.step = n /\ e.calls = exec.calls /\ e.gave = exec.gave
    BY <1>1 DEF Exec
  <2>4. exec' = [e EXCEPT !.at = "action", !.calls = @ + 1]
    BY <2>1
  <2> HIDE DEF e
  <2>5. exec' \in Exec /\ exec'.at = "action" /\ exec'.step = n /\ exec'.calls = exec.calls + 1
        /\ exec'.gave = exec.gave
    BY <2>3, <2>4, ActionCalled
  <2>6. QED
    BY <1>1, <1>4, <2>2, <2>5 DEF ExecInv, ExecTypeOK, CallsBounded, ValueIsThere
<1>5. QED
  BY <1>2, <1>3, <1>4

\* What an interceptor leaves.
LEMMA ExecSettled ==
  ASSUME TypeOK, ExecInv, InHandler, gone' \in BOOLEAN, exec.at = "interceptor",
         NEW v \in {"value", "undefined"}, Settled(v)
  PROVE  ExecInv'
<1>1. /\ exec.step + 1 \in Nat \ {0} /\ exec.calls <= MaxCalls + 1
      /\ exec \in Exec /\ chain' = chain /\ chain \in [{1, 2} -> Chains]
  BY InterceptorsType DEF ExecInv, ExecTypeOK, CallsBounded, InHandler
<1>2. CASE v = "value"
  <2>1. exec' \in Exec /\ exec'.calls = exec.calls
    BY <1>1, <1>2 DEF Settled, Exec
  <2>2. QED
    BY <1>1, <1>2, <2>1, ReturnsEnds, HandlerOver DEF Settled
<1>3. CASE v # "value" /\ ends > 0
  BY <1>1, <1>3, CatchEnds, HandlerOver DEF Settled
<1>4. CASE v # "value" /\ ~(ends > 0)
  <2>1. Step(exec.step + 1)
    BY <1>4 DEF Settled
  <2>2. QED
    BY <1>1, <2>1, ExecStepOn
<1>5. QED
  BY <1>2, <1>3, <1>4

\* Every step of a route handler keeps its Executor in order.
LEMMA ExecStep ==
  ASSUME TypeOK, ExecInv, [RestyNext]_restyVars
  PROVE  ExecInv'
<1>0. /\ chain \in [{1, 2} -> Chains] /\ exec \in Exec /\ gone \in BOOLEAN
      /\ exec.calls <= MaxCalls + 1 /\ exec.calls \in Nat /\ MaxCalls \in Nat
      /\ exec.step \in Nat /\ Len(Interceptors) \in Nat
  BY InterceptorsType DEF ExecInv, ExecTypeOK, CallsBounded
<1>1. CASE Begin
  <2>1. exec' = NewExec /\ UNCHANGED <<chain, gone>>
    BY <1>1 DEF Begin
  <2>2. exec' \in Exec /\ exec'.calls = 0 /\ exec'.at = "create" /\ ~exec'.gave
    BY <2>1 DEF NewExec, Exec
  <2>3. QED
    BY <1>0, <2>1, <2>2 DEF ExecInv, ExecTypeOK, CallsBounded, ValueIsThere
<1>2. CASE Search
  BY <1>0, <1>2, CatchEnds, HandlerOver DEF Search, Skip, NoRoute
<1>3. ASSUME UNCHANGED <<chain, exec, at, pass>>, gone' \in BOOLEAN
      PROVE  ExecInv'
  BY <1>3 DEF ExecInv, ExecTypeOK, CallsBounded, ValueIsThere, Interceptors
<1>4. CASE UserEnds \/ Finished \/ UNCHANGED restyVars
  BY <1>0, <1>3, <1>4 DEF UserEnds, HandlerEnds, Finished, Finish, restyVars, vars
<1>5. CASE UserFails \/ BodyBreaks
  BY <1>0, <1>5, CatchEnds, HandlerOver DEF UserFails, BodyBreaks, InHandler
<1>6. CASE Created
  BY <1>0, <1>6, ExecStepOn DEF Created
<1>7. CASE InterceptorSettles
  BY <1>0, <1>7, ExecSettled DEF InterceptorSettles, Awaits
<1>8. CASE BodyEnds
  BY <1>8, ExecSettled DEF BodyEnds, Awaits
<1>9. CASE HandlerCalled
  <2>1. /\ exec' = [exec EXCEPT !.at = "action", !.calls = @ + 1] /\ exec.calls < MaxCalls
        /\ exec.result = "undefined" /\ UNCHANGED <<chain, gone, at, pass>>
        /\ at = "handler" /\ exec.at = "interceptor"
    BY <1>9 DEF HandlerCalled, Goes, InHandler, Awaits
  <2>2. exec' \in Exec /\ exec'.at = "action" /\ exec'.calls = exec.calls + 1
        /\ exec'.gave = exec.gave /\ exec'.step = exec.step
    BY <1>0, <2>1, ActionCalled
  <2>3. ~exec.gave
    BY <2>1 DEF ExecInv, ValueIsThere
  <2>4. QED
    BY <1>0, <2>1, <2>2, <2>3 DEF ExecInv, ExecTypeOK, CallsBounded, ValueIsThere
<1>10. CASE ActionReturns
  <2>1. PICK v \in {"value", "undefined"} :
            LET e == [exec EXCEPT !.result = v, !.gave = @ \/ v = "value"]
            IN  IF exec.step <= Len(Interceptors)
                THEN exec' = [e EXCEPT !.at = "interceptor"] /\ Goes
                ELSE exec' = e /\ Returns(v)
    BY <1>10 DEF ActionReturns
  <2> DEFINE e == [exec EXCEPT !.result = v, !.gave = @ \/ v = "value"]
  <2>2. /\ e \in Exec /\ e.calls = exec.calls /\ e.step = exec.step /\ e.result = v
        /\ e.gave = (exec.gave \/ v = "value")
    BY <1>0 DEF Exec
  <2>3. at = "handler" /\ exec.at = "action" /\ UNCHANGED <<chain, gone>>
    BY <1>10 DEF ActionReturns, InHandler
  <2>4. ~exec.gave
    BY <2>3 DEF ExecInv, ValueIsThere
  <2> HIDE DEF e
  <2>5. CASE exec.step <= Len(Interceptors)
    <3>1. exec' = [e EXCEPT !.at = "interceptor"] /\ Goes
      BY <2>1, <2>5 DEF e
    <3>2. /\ exec' \in Exec /\ exec'.at = "interceptor" /\ exec'.step = exec.step
          /\ exec'.calls = exec.calls /\ exec'.result = v /\ (exec'.gave <=> e.gave)
      BY <2>2, <3>1 DEF Exec
    <3>3. exec'.gave => v = "value"
      BY <2>2, <2>4, <3>2
    <3>4. exec.step # 0
      BY <2>3 DEF ExecInv, ExecTypeOK
    <3>5. QED
      BY <1>0, <2>3, <2>5, <3>1, <3>2, <3>3, <3>4
         DEF ExecInv, ExecTypeOK, CallsBounded, ValueIsThere, Goes, Interceptors
  <2>6. CASE ~(exec.step <= Len(Interceptors))
    <3>1. exec' = e /\ Returns(v)
      BY <2>1, <2>6 DEF e
    <3>2. QED
      BY <1>0, <2>2, <2>3, <3>1, ReturnsEnds, HandlerOver
  <2>7. QED
    BY <2>5, <2>6
<1>11. CASE ActionFails
  <2>1. at = "handler" /\ exec.at = "action" /\ UNCHANGED <<chain, gone>>
    BY <1>11 DEF ActionFails, InHandler
  <2>2. CASE exec.step <= Len(Interceptors)
    <3>1. exec' = [exec EXCEPT !.at = "interceptor"] /\ Goes
      BY <1>11, <2>2 DEF ActionFails
    <3>2. /\ exec' \in Exec /\ exec'.at = "interceptor" /\ exec'.step = exec.step
          /\ exec'.calls = exec.calls /\ exec'.gave = exec.gave
      BY <1>0, <3>1 DEF Exec
    <3>3. QED
      BY <1>0, <2>1, <2>2, <3>1, <3>2
         DEF ExecInv, ExecTypeOK, CallsBounded, ValueIsThere, Goes, Interceptors
  <2>3. CASE ~(exec.step <= Len(Interceptors))
    BY <1>0, <1>11, <2>1, <2>3, CatchEnds, HandlerOver DEF ActionFails
  <2>4. QED
    BY <2>2, <2>3
<1>12. QED
  BY <1>1, <1>2, <1>4, <1>5, <1>6, <1>7, <1>8, <1>9, <1>10, <1>11 DEF RestyNext, Settles

-----------------------------------------------------------------------------
(* The transports                                                          *)

\* An event is settled after its response only, and the report it is settled
\* with stays what it was.
Settlement ==
    /\ transport \in {"http", "fake"}
    /\ outcome \in {"waiting", "success", "error", "rejected"}
    /\ outcome # "waiting" => transport = "fake" /\ ends > 0

LambdaInv == Inv /\ ExecInv /\ Settlement /\ ReportIsCalledBack

\* A request that has just come, over either transport.
LEMMA LambdaInitInv == LambdaInit => LambdaInv
<1> SUFFICES ASSUME LambdaInit PROVE LambdaInv
  OBVIOUS
<1>1. Inv
  BY InitInv DEF LambdaInit, RestyInit
<1>2. ExecInv
  <2>1. exec \in Exec /\ exec.calls = 0 /\ exec.at = "create" /\ ~exec.gave
    BY DEF LambdaInit, RestyInit, NewExec, Exec
  <2>2. gone \in BOOLEAN
    BY Zenon DEF LambdaInit, RestyInit
  <2>3. QED
    BY <2>1, <2>2, ChainsAssumption
       DEF LambdaInit, RestyInit, Init, ExecInv, ExecTypeOK, CallsBounded, ValueIsThere
<1>3. QED
  BY <1>1, <1>2 DEF LambdaInit, LambdaInv, Settlement, ReportIsCalledBack

\* Responses that are ended stay so, with their body and table.
LEMMA EndedStays ==
  ASSUME Inv, [Next]_vars, ends > 0
  PROVE  ends' > 0 /\ body' = body /\ table' = table
<1>0. TypeOK /\ EndedOnce /\ ends = 1
  BY DEF Inv, TypeOK, EndedOnce
<1>1. CASE Match
  BY <1>0, <1>1, MatchCases, EnterCases, CatchCases DEF response, Errors
<1>2. CASE NoRoute \/ HandlerFails
  BY <1>0, <1>2, CatchCases DEF NoRoute, HandlerFails, Errors
<1>3. CASE Skip \/ HandlerEnds \/ HandlerReturns \/ Finish \/ UNCHANGED vars
  BY <1>0, <1>3 DEF Skip, HandlerEnds, HandlerReturns, Finish, Answer, vars, response
<1>4. QED
  BY <1>1, <1>2, <1>3 DEF Next

\* A callback comes after the answer and says of it what it was.
LEMMA SettlementStep ==
  ASSUME LambdaInv, [LambdaNext]_lambdaVars
  PROVE  Settlement' /\ ReportIsCalledBack'
<1>0. Inv /\ Settlement /\ ReportIsCalledBack /\ [Next]_vars /\ TypeOK
  BY LambdaStepMaps DEF LambdaInv, Inv
<1>1. CASE CallBack
  <2>1. /\ transport = "fake" /\ ends > 0 /\ outcome' \in Outcomes
        /\ UNCHANGED <<table, status, ends, body, transport>>
    BY <1>0, <1>1 DEF CallBack, Inv, Answers, TypeOK, restyVars, vars
  <2>2. outcome' \in {"success", "error", "rejected"}
    BY <2>1 DEF Outcomes
  <2>3. body = "report" => outcome' = IF status = "ok" THEN "success" ELSE "error"
    BY <2>1 DEF Outcomes
  <2>4. QED
    BY <1>0, <2>1, <2>2, <2>3 DEF Settlement, ReportIsCalledBack, Inv, ReportIsNoSuccess
<1>2. CASE UNCHANGED <<transport, outcome>>
  <2>1. CASE outcome = "waiting"
    BY <1>0, <1>2, <2>1 DEF Settlement, ReportIsCalledBack
  <2>2. CASE outcome # "waiting"
    BY <1>0, <1>2, <2>2, EndedStays DEF Settlement, ReportIsCalledBack
  <2>3. QED
    BY <2>1, <2>2
<1>3. QED
  BY <1>1, <1>2 DEF LambdaNext, lambdaVars, Route, Run, RunOn, Network, HttpFinish,
                    EmitFinish, Tick

\* Every step of a request, over either transport, keeps the whole invariant.
LEMMA LambdaInvStep ==
  ASSUME LambdaInv, [LambdaNext]_lambdaVars
  PROVE  LambdaInv'
<1>1. Inv' /\ TypeOK
  BY LambdaStepMaps, InvStep DEF LambdaInv, Inv
<1>2. ExecInv'
  <2>1. CASE [RestyNext]_restyVars
    BY <1>1, <2>1, ExecStep DEF LambdaInv
  <2>2. CASE UNCHANGED <<vars, chain, exec>> /\ gone' = TRUE
    <3>1. gone' \in BOOLEAN
      BY <2>2, Zenon
    <3>2. QED
      BY <2>2, <3>1 DEF LambdaInv, ExecInv, ExecTypeOK, CallsBounded, ValueIsThere,
                        Interceptors, vars
  <2>3. QED
    BY <2>1, <2>2, LambdaStepIsResty
<1>3. QED
  BY <1>1, <1>2, SettlementStep DEF LambdaInv

\* So it holds in every state.
LEMMA LambdaInvariance == LambdaSpec => []LambdaInv
<1>1. LambdaInv /\ [LambdaNext]_lambdaVars => LambdaInv'
  BY LambdaInvStep
<1>2. QED
  BY LambdaInitInv, <1>1, PTL DEF LambdaSpec

-----------------------------------------------------------------------------
(* The theorems                                                            *)

\* Whatever interceptors and actions do, over either transport, a route
\* handler is one of the handlers of RequestHandler.
THEOREM LambdaImplementsRequest == LambdaSpec => IsRequestHandler
<1>1. LambdaInit => Init
  BY DEF LambdaInit, RestyInit
<1>2. [LambdaNext]_lambdaVars => [Next]_vars
  BY LambdaStepMaps
<1>3. QED
  BY <1>1, <1>2, PTL DEF LambdaSpec, IsRequestHandler

\* The same of RouteHandler alone, over HTTP.
THEOREM RestyImplementsRequest == RestySpec => IsRequestHandler
<1>1. RestyInit => Init
  BY DEF RestyInit
<1>2. QED
  BY <1>1, RestyStepMaps, PTL DEF RestySpec, IsRequestHandler

\* Over either transport the state keeps its types and the response is ended
\* once at most.
THEOREM LambdaAnsweredOnce == LambdaSpec => []AnsweredOnce
<1>1. LambdaInv => AnsweredOnce
  BY DEF LambdaInv, Inv, ExecInv, ExecTypeOK, CallsBounded, Settlement, AnsweredOnce,
         LambdaTypeOK, RestyTypeOK
<1>2. QED
  BY LambdaInvariance, <1>1, PTL

\* An action that gave a value is not run again in the same pass, for any list
\* of interceptors.
THEOREM LambdaValueIsKept == LambdaSpec => []ValueIsKept
<1>1. LambdaInv => ValueIsKept
  BY DEF LambdaInv, ExecInv, ValueIsThere, ValueIsKept
<1>2. QED
  BY LambdaInvariance, <1>1, PTL

\* What the router reports of a failure reaches the callback as an error.
THEOREM LambdaReportIsCalledBack == LambdaSpec => []ReportIsCalledBack
  BY LambdaInvariance, PTL DEF LambdaInv

\* The request's own properties, of every route handler.
THEOREM LambdaRequest ==
    LambdaSpec => [](ReportIsNoSuccess /\ ErrorHandlerSeesFailure /\ FailureReachesFreshRoute)
<1>1. LambdaInv => ReportIsNoSuccess /\ ErrorHandlerSeesFailure /\ FailureReachesFreshRoute
  BY InvImplies DEF LambdaInv, Inv
<1>2. QED
  BY LambdaInvariance, <1>1, PTL
=============================================================================
