------------------------------- MODULE Startup -------------------------------
(***************************************************************************)
(* How servers of one application come up: pipeServer of resty creates the *)
(* modules of the class, or finds the ones that the class remembers, and   *)
(* adds the routes of their controllers to the router; pipeWebSocket uses  *)
(* what the class remembers.  Rules of routes come to be asynchronously    *)
(* (Router.createRule), so a request may look for its route before them.   *)
(*                                                                         *)
(* Modules are named after the server whose start has created them.        *)
(***************************************************************************)
EXTENDS FiniteSetsExt, RouteParser

CONSTANTS
    Servers, None,
    Declarations,   \* controllers' methods, each a sequence as getAllMetadata lists them
    OwnRoutes,      \* routes the application gives to the router itself
    Paths, Verbs

ASSUME StartupAssumption == None \notin Servers

IsSequence(s) == s \in Seq(ToSet(s))

AreParts(parts) == IsSequence(parts) /\ \A part \in ToSet(parts) : part.groups \in Nat

ASSUME SequencesAssumption ==
    /\ \A defs \in Declarations :
          IsSequence(defs) /\ \A def \in ToSet(defs) : AreParts(def.prefix) /\ AreParts(def.path)
    /\ \A rs \in OwnRoutes :
          IsSequence(rs) /\ \A route \in ToSet(rs) : AreParts(route.pattern.parts)
    /\ \A path \in Paths : IsSequence(path)

VARIABLES
    declared,     \* the methods of all controllers
    own,          \* the routes that the application adds while it is created
    at,           \* server -> how far its start is
    modules,      \* server -> the modules that answer its requests
    socket,       \* server -> the modules that answer its web sockets
    remembered,   \* the class's @typeix:moduleInjector
    overlapped,   \* a start came while another was creating its modules
    routes,       \* modules -> the table of their router
    lookup        \* a request that looks for its route

startVars == <<declared, own, at, modules, socket, remembered, overlapped, routes>>
vars == <<startVars, lookup>>

Idle == [at |-> "none"]

\* Web socket controllers have no routes.
RouteDefinitions ==
    FoldLeft(LAMBDA definitions, def :
                 IF def.controller = "rest" THEN Append(definitions, def) ELSE definitions,
             <<>>, declared)

\* getRoutePath starts with a slash whatever the paths are.
RoutePath(def) == [rooted |-> TRUE, parts |-> def.prefix \o def.path]

RouteOf(def) == [pattern |-> RoutePath(def), verb |-> def.verb]

Rule(route) == [route |-> route, rule |-> "pending"]

AllRoutes == own \o [k \in DOMAIN RouteDefinitions |-> RouteOf(RouteDefinitions[k])]

TypeOK ==
    /\ at \in [Servers -> {"idle", "creating", "piped", "failed"}]
    /\ modules \in [Servers -> Servers \cup {None}]
    /\ socket \in [Servers -> Servers \cup {None}]
    /\ remembered \in Servers \cup {None} /\ overlapped \in BOOLEAN
    /\ \A s \in Servers : at[s] = "piped" <=> modules[s] # None

TableTypeOK ==
    /\ declared \in Declarations /\ own \in OwnRoutes
    /\ \A m \in Servers : \A k \in DOMAIN routes[m] :
          /\ routes[m][k].route \in ToSet(AllRoutes)
          /\ routes[m][k].rule \in {"pending", "created", "broken"}
    /\ lookup.at \in {"none", "looking", "found", "broken", "missing"}

Init ==
    /\ declared \in Declarations /\ own \in OwnRoutes
    /\ at = [s \in Servers |-> "idle"]
    /\ modules = [s \in Servers |-> None]
    /\ socket = [s \in Servers |-> None]
    /\ remembered = None /\ overlapped = FALSE
    /\ routes = [s \in Servers |-> <<>>]
    /\ lookup = Idle

-----------------------------------------------------------------------------
(* The start of a server                                                   *)

\* Mutant: the class does not keep its modules.
RememberNothing(m) == UNCHANGED remembered

\* Reflect.set, unless another start has been faster.
Remember(m) == remembered' = IF remembered = None THEN m ELSE remembered

\* Routes are added behind what the router has, and the server piped.
Serve(s, m, table) ==
    /\ at' = [at EXCEPT ![s] = "piped"]
    /\ modules' = [modules EXCEPT ![s] = m]
    /\ routes' = [routes EXCEPT ![m] =
                     table \o [k \in DOMAIN RouteDefinitions |-> Rule(RouteOf(RouteDefinitions[k]))]]
    /\ Remember(m)

Fails(s) ==
    /\ at' = [at EXCEPT ![s] = "failed"]
    /\ UNCHANGED <<modules, routes, remembered>>

\* The application's own routes are there before those of its controllers.
ServeNew(s) == Serve(s, s, [k \in DOMAIN own |-> Rule(own[k])])

\* pipeServer up to its await, or to its end when there is none.
PipeServer(s, useSyncInjector) ==
    /\ at[s] \in {"idle", "failed"}
    /\ overlapped' = (overlapped \/ \E t \in Servers : at[t] = "creating")
    /\ \/ remembered # None /\ Serve(s, remembered, routes[remembered])
       \/ remembered = None /\ useSyncInjector /\ (ServeNew(s) \/ Fails(s))
       \/ /\ remembered = None /\ ~useSyncInjector
          /\ at' = [at EXCEPT ![s] = "creating"]
          /\ UNCHANGED <<modules, routes, remembered>>
    /\ UNCHANGED <<declared, own, socket, lookup>>

\* ModuleInjector.createAndResolve settles.
ModulesCreated(s) ==
    /\ at[s] = "creating"
    /\ ServeNew(s) \/ Fails(s)
    /\ UNCHANGED <<declared, own, socket, overlapped, lookup>>

\* It throws before pipeServer has been awaited.
PipeWebSocket(s) ==
    /\ remembered # None /\ socket[s] = None
    /\ socket' = [socket EXCEPT ![s] = remembered]
    /\ UNCHANGED <<declared, own, at, modules, remembered, overlapped, routes, lookup>>

\* A rule is created in an injector of its own, or its pattern throws.
CreateRule(m, k) ==
    /\ routes[m][k].rule = "pending"
    /\ routes' = [routes EXCEPT ![m][k].rule =
                     IF Compiles(routes[m][k].route.pattern) THEN "created" ELSE "broken"]
    /\ UNCHANGED <<declared, own, at, modules, socket, remembered, overlapped, lookup>>

-----------------------------------------------------------------------------
(* The search for a route                                                  *)

Request(s, path, verb) ==
    /\ at[s] = "piped" /\ lookup.at # "looking"
    /\ lookup' = [at |-> "looking", table |-> modules[s], path |-> path, verb |-> verb, next |-> 1]
    /\ UNCHANGED startVars

\* Mutant: rules that are not there yet are passed over.
AwaitsNothing(rule) == TRUE

Awaited(rule) == rule.rule # "pending"

IsValid(route) == route.verb = lookup.verb /\ Matches(route.pattern, lookup.path)

Ends(how) == lookup' = [at |-> how, path |-> lookup.path, verb |-> lookup.verb]

\* parseRequest awaits one rule after the other, of a table that may grow.
ParseRequest ==
    /\ lookup.at = "looking" /\ lookup.next \in DOMAIN routes[lookup.table]
    /\ LET rule == routes[lookup.table][lookup.next]
       IN  /\ Awaited(rule)
           /\ \/ /\ rule.rule = "broken"
                 /\ Ends("broken")
              \/ /\ rule.rule = "created" /\ IsValid(rule.route)
                 /\ lookup' = [at |-> "found", path |-> lookup.path, verb |-> lookup.verb,
                               route |-> rule.route,
                               params |-> Params(rule.route.pattern, lookup.path)]
              \/ /\ rule.rule # "broken"
                 /\ rule.rule = "created" => ~IsValid(rule.route)
                 /\ lookup' = [lookup EXCEPT !.next = @ + 1]
    /\ UNCHANGED startVars

NoRouteFound ==
    /\ lookup.at = "looking" /\ lookup.next \notin DOMAIN routes[lookup.table]
    /\ Ends("missing")
    /\ UNCHANGED startVars

Next ==
    \/ \E s \in Servers, sync \in BOOLEAN : PipeServer(s, sync)
    \/ \E s \in Servers : ModulesCreated(s) \/ PipeWebSocket(s)
    \/ \E m \in Servers : \E k \in DOMAIN routes[m] : CreateRule(m, k)
    \/ \E s \in Servers, path \in Paths, verb \in Verbs : Request(s, path, verb)
    \/ ParseRequest \/ NoRouteFound

Spec == Init /\ [][Next]_vars

-----------------------------------------------------------------------------
(* Properties                                                              *)

\* If one start is awaited before the next, all servers of an application,
\* their routes and their web sockets share one set of modules, also after
\* starts that failed.  Starts that overlap make modules of their own, and
\* web sockets get those of the start that was done first.
ModulesAreShared ==
    /\ TypeOK
    /\ \A s \in Servers : socket[s] \in {None, remembered}
    /\ ~overlapped => \A s \in Servers : modules[s] \in {None, remembered}

\* What answers a request: the first route that is of its verb and matches it,
\* or a broken one before it.
Candidates ==
    {k \in DOMAIN AllRoutes :
        ~Compiles(AllRoutes[k].pattern) \/ IsValid(AllRoutes[k])}

\* Whatever order rules come to be in, however many servers have added the
\* routes again and although the table grows under the search: a request is
\* answered by the first of the routes as they were declared, and a parameter
\* has the text its own variable stands for.  That is so unless a text before it
\* opens a group ("/(api|v1)/<id:\d+>" binds "api" to id), a variable before it
\* none or several, or its own source begins with a group that is not all of it.
FirstRouteAnswers ==
    /\ TableTypeOK
    /\ lookup.at \notin {"none", "looking"} =>
          IF Candidates = {} THEN lookup.at = "missing"
          ELSE LET first == AllRoutes[Min(Candidates)]
               IN  IF ~Compiles(first.pattern) THEN lookup.at = "broken"
                   ELSE /\ lookup.at = "found" /\ lookup.route = first
                        /\ \A name \in Names(first.pattern) : IsAligned(first.pattern, name) =>
                              lookup.params[name] \in OwnTexts(first.pattern, lookup.path, name)
=============================================================================
