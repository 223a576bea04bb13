# A TLA+ model of typeix

Typeix is a TypeScript monorepo (`src/packages/*`): a dependency injection
container, a module system on top of it, an HTTP router, a REST framework on top
of both, web socket, socket.io and AWS Lambda adapters of that framework, and
the tools around them. Everything runs on one thread. What makes it hard are
the awaits: between two of them anything else may run, and most of the code
reads shared maps before an await and writes them after it.

This directory holds TLA+ modules that model the system, the configurations
that check them with TLC, and proofs checked by TLAPS. `PROJECT.json` maps every
definition to the lines it models, lists the runs, the mutants that show each
property can fail, the hazards and the theorems.

## The system

| Part | State | Operations | Talks to |
| --- | --- | --- | --- |
| `di`: injector tree (`abstract-injector.ts`, `provider.ts`) | `_parent`, `_children`, `_providers` of each injector | `setParent`, `addChild`, `detach`, `destroy`, `set`, `has`, `get` | used by everybody |
| `di`: `Injector` (`injector.ts`) | the stack of each call in progress, the bindings | `createAndResolve`, `createAndResolveChild` (asynchronous) | the tree, interceptors, user code |
| `di`: `SyncInjector` (`sync-injector.ts`) | static caches of metadata and dependencies, by token | the same, without awaits | the tree, metadata |
| `di`: method interceptors (`interceptor.ts`) | the result and the steps of one call | `createInterceptors`, `execute`, `invoke` | metadata, user code |
| `metadata` | metadata in `Reflect` by class and property | `decorate`, lookups along prototypes | `di` |
| `modules` (`injector.ts`, `abstract-module-injector.ts`) | `_providers` (module to injector), `_allModulesMetadata` | `createAndResolve`, `processImportsAndExports`, `remove`, `getInjector` | `Injector` |
| `router` (`router.ts`, `route-rule.ts`, `parser.ts`) | the table of routes, a tree of patterns per route | `addRules`, `parseRequest`, `requestHandler`, `pipe` | node's HTTP server, an injector per request |
| `resty` (`helpers/server.ts`, `servers`, `mocks.ts`) | modules remembered by the class; per request: controller, interceptors, their result | `pipeServer`, route handler, `Executor`, body reader, fake server | `router`, `modules` |
| `resty-ws` (`helpers/server.ts`) | per connection: injector, controller, alive mark; one interval | connection, pong, close, ping, close of the server | `ws`, `di` |
| `resty-socket-io` | the same per socket and namespace, and an instance of each middleware a client entered | the same, with an asynchronous heartbeat | `socket.io`, `di` |
| `resty-aws-lambda` | one fake server, one callback per event | one event to one callback | `resty` |
| `cli` | the watched compiler and the child process; configuration; packages | `build`, `start`, `add`, `update`, `remove`, `new`, `generate` | compilers, package managers, git, `schematics` |
| `schematics` | a tree of files, the source of modules | `application` and five elements, declared in a module | the Angular devkit |
| `utils`, `logger` | none | predicates; a wrapper of winston | everybody |

How they interact: `pipeServer` creates the modules once and lets the class
remember them, collects the controllers, and adds a route with a handler for
each action. A request gets an injector of its own; the route that matches
adopts it; the handler creates the controller in it; the `finish` event of the
response destroys it. A web socket connection gets a child of the module's
injector and a controller in it, destroyed on `close`. A lambda event is a request to the
fake server, whose response is the callback.

### What is hard, and what must hold

* **Injector tree.** `detach` looks for itself in its own children, so it
  removes the parent's *last* child, and `addChild` lists a child again that lost its
  place that way. Yet no parent may list more children than
  it has for any other reason (a server creates a child per connection, for ever), a departure may
  not change what others look up, and an immutable binding may not change.
* **Injector.** Calls that race for one token: `has` is tested before the await,
  `set` comes after it. Nobody may keep a private second copy, no instance may
  hold bindings the injector does not have, and not every racer may lose.
  `destroy` during a call, rejecting promises and hooks.
* **Metadata and its caches.** Arrays of parameter types and lists of decorators
  are shared along the prototypes and rewritten in place; `SyncInjector` keeps
  what it found for a token for ever. A constructor must still get what it asks
  for, and a base class must not change when another class extends it.
* **Method interceptors.** The method runs when an interceptor asks, or at the
  end; a value may not be lost or computed twice, and no interceptor may be left
  behind when the answer is given.
* **Modules.** Racing callers, failures half-way and retries, removal, diamonds
  in the import graph: modules deepest first, once, complete when registered,
  imported tokens shared with their exporter.
* **Metadata.** Decorators add up or replace each other along the bases, and the lookup
  of everything must find those that count, in any order of declaration; decorating
  a method must not change what it does.
* **Start-up and route table.** Servers of one application may start again after
  a failure or at the same time, and must share one set of modules; rules of
  routes come to be in any order while requests look for theirs.
* **Router and route handler.** Two passes over the table in one injector, user
  code that may end the response itself and go on, the `finish` event that
  destroys the injector under it. One answer, always an answer, failures are not
  reported as success, a failure reaches its error route.
* **Lambda.** The fake server emits `end` of the request on the next tick,
  whether or not a body reader listens, and `finish` inside of `end`. Every event
  must be called back or rejected.
* **Web sockets and socket.io.** Events that come while the controller is being
  created, a heartbeat that must end dead connections and no others (for
  socket.io one that awaits the list of sockets it judges), a server that must
  be able to stop, injectors that must not pile up.
* **Cli.** Restarts that overlap, kills that fail, flags handed from one program
  to another, a new project of which a step fails, source files edited again and again.

## The modules

| Module | Models | Abstract specification |
| --- | --- | --- |
| `InjectorTree` | the tree of injectors | `Forest` |
| `Resolver` | concurrent `Injector.createAndResolve` on one injector | `BindingRegistry` |
| `ClassMetadata` | `decorate`, metadata lookups, the caches of `SyncInjector` | |
| `DecoratorMetadata` | the metadata package: decorators, lookups | |
| `MetadataTests` | its unit tests (extends `DecoratorMetadata`) | |
| `InterceptedMethod` | method interceptors (extends `ClassMetadata`) | |
| `InterceptorTests` | the unit tests of interceptors, as scripts for them (extends `InterceptedMethod`) | |
| `ModuleGraph` | `ModuleInjector` | `DeepestFirst` |
| `SyncModuleInjector` | `SyncModuleInjector`, as a function (extends `ModuleGraph`) | |
| `ModuleTests` | the unit tests of modules, as graphs and expectations | |
| `RouteParser` | what a pattern matches and binds | |
| `Startup` | `pipeServer`, `pipeWebSocket`, the route table (extends `RouteParser`) | |
| `RequestHandler` | one request: `Router` and the handler of `resty` | |
| `RouteHandler` | the handlers of `createRouteHandler`, their interceptors | `RequestHandler` |
| `LambdaServer` | one event through the fake server (extends `RouteHandler`) | `RequestHandler` |
| `WebSocketServer` | `createSocketHandler` of `resty-ws` | |
| `SocketEvents` | messages and the calls they cause (extends `WebSocketServer`) | `WebSocketServer` |
| `SocketIoServer` | `createSocketHandler` of `resty-socket-io` | |
| `WatchMode` | `build` and `start`, the restart of the server | |
| `PackageCommands` | `add`, `update`, `remove` | |
| `Schematics` | the schematics and the declaration of elements | |
| `ProjectCommands` | `new` and `generate` (extends `Schematics`) | |
| `Cli` | the program: composes the four above | |
| `InjectorProofs` (the tree, metadata and interceptors), `ResolverProofs`, `ModuleGraphProofs`, `StartupProofs`, `RouteHandlerProofs` (requests, their handlers and lambda events), `SocketEventsProofs` (web sockets and their messages), `SocketIoProofs`, `CliProofs` | theorems | |
| `MC...` | instances for TLC | |

Definitions marked *Mutant* are plausible bugs of the definition that follows
them; no specification uses them. For each property `PROJECT.json` names one
that TLC finds violating it.

**InjectorTree.** `parent`, `children`, `providers` are the three fields; every
operation is synchronous code and one action. `Splice` and `IndexOf` have
JavaScript's meaning, negative index included, since that is where the tree
goes wrong. `get` climbs from an injector to its parent until it finds the key;
`Chain(i)` is the set it may visit, as the least set that holds `i` and the
parents of its members, and `Nearest` the member that answers. An operation
that throws changes nothing and is a guard. `addChild` throws only for a child of
another parent: one that points at this parent and is not listed, because the
`detach` of a sibling took it away, is listed (again). `relisted` counts these. The model assumes that nobody
adopts an injector he stands below; the code does not check it, and with a cycle
`get` would not return.

**Resolver.** A call is a stack of frames, one per nested `createAndResolve`;
a frame knows its provider, its stage (dependencies, inner providers, pending
promise, properties, interceptors, hook) and what is left of the loop it is
in. An action runs a call from where it resumes to the next await at which
another call can see it. `Needs`, `Inner`, `Props`, `Created`, `Wraps` are the
decorators' metadata. `Reject` is user code that fails, `Destroy` may come at
any await. A method interceptor is defined on whatever instance is bound when
`applyInterceptors` reads the binding again; one that is defined already stays
(`Reflect.defineProperty` does not throw) and the call goes on. Properties to be created are
awaited one by one, bound or not. The dependency graph of the instance is acyclic, since the code recurses along it;
the injector has no parent.

**ClassMetadata.** `Declare(c)` is a class statement with its decorators, in the
order of classes, bases first. `recorded` is `Reflect`'s storage; a list found
along the prototypes is extended in place where the code does so, and the array
of parameter types is the compiler's own. `cachedMetadata` and `cachedDependencies`
are the static maps of `SyncInjector`, by token.

**DecoratorMetadata.** A class statement is a list of sites: the class and its decorated
members, each with the list that TypeScript hands to `__decorate`, the design types at
its end. `Execute(c)` goes through the sites in order and through each list from its
end, as `__decorate` does; `heap` is what that leaves: the ordered maps of `Reflect`, the
arrays that `decorate` made (known by number, so that sharing shows), and the keys of
prototypes. `decorate` returns its target and `__decorate` takes it for the descriptor of
the member: `Redefined` says what follows. Members called `writable`, `enumerable` and
`configurable` would be read as well and are left out. The lookups are operators on `heap`.
`ClassMetadata` keeps of all this one method and the constructor, for what is cached of
them. `MetadataTests` has the classes of the unit tests and what they expect.

**InterceptedMethod.** `Create` fixes the steps of an instance; a call runs
them one by one and then the method, if nobody has. `turn` is the step the
executor waits for: all of them when it is asynchronous, otherwise a step that
returns a promise goes on by itself. What an interceptor is written to do
(`Written`) is ours to choose, what it may do with the method call is not.
`InterceptorTests` chooses what the unit tests of `Injector` and `Injector.Sync` write:
a script per interceptor (invoke, await, log, transform), and compares what is logged and
returned with what they expect.

**ModuleGraph.** A call is a stack of modules being initialised. Imports that
are registered are read without an await, others are initialised first. The
providers of a module are created in an injector nobody else has yet, so that
part is one step, `CreateProviders`, which follows the order in which
`createAndResolve` visits the classes: own providers and what they need, then
the values imported, skipping what is bound. `RemoveModule` is `remove`.

**SyncModuleInjector, ModuleTests.** The synchronous twin does not wait, so that
one call is a recursive function from what the injector keeps to what it keeps
then. `SyncCreated[n]` is that function for calls that nest at most `n` deep; with as many levels
as there are modules it never runs out, the imports being acyclic. The unit tests of both (`module-spec.ts`, `sync-module-spec.ts`) are graphs with
what `toBe` and `not.toBe` compare, a partition of the modules per service.

**RouteParser, Startup.** A path is a sequence of words; a pattern is a sequence
of parts (text, variable, star, a part that does not compile). The text of a route goes
into the regular expression as it is, like the source of a variable, so both are
given by the texts they stand for and the groups they open: `/a` stands for one
text and opens none, `/(a|b)` for two and opens one, `(.*)` stands for any text. `Matches` and `Params` follow the regular
expression that the tree of patterns is turned into: captures are those of all
groups, in order, and the variable at the n-th place gets the n-th of them. A
group in a text, a variable that opens a second group, or none, shifts what stands behind it;
`IsAligned` says when a parameter gets its own text. An operator of a text reaches no
further than its part, except that a star behind a slash repeats the slash; so alternatives
without parentheses (`/a|/b`) and lookarounds or back references across parts are not modelled. In `Startup`, a server is
idle, creating its modules, piped or failed, from where it may start again; modules
are named after the start that made them. `AllRoutes` are the application's own and those
the controllers declare, in order; each becomes a rule by
a promise of its own, and a search awaits the rules in the order of the table,
which may grow under it. A rule that does not compile is a rejected promise
nobody handles until a request awaits it; the model assumes the process
survives that. One server is piped once.

**RequestHandler.** `table` says what each route is to this request. `Match`,
`Skip` and `NoRoute` are the loop of `parseRequest`, `Catch` the catch clause
(with the two cases in which it throws itself), `Handler...` what the author
of a handler may do, `Finish` the event. `Adopt` is `setParent` and the
`ResolvedRoute` binding, `CallHandler` what `resty` does first: it asks for request
and response, which throws once the response has finished and its injector is
empty, and binds the path parameters. A route whose rule could not be made is `broken` (its
expression does not compile, a plain error) or `refused` (the parser throws a `RouterError`).
What the action and its interceptors do between is left open here. Requests share only
the table; `Startup` models how it comes to be, so here one request is enough.

**RouteHandler.** The `Handler...` actions of `RequestHandler` replaced by what
`createRouteHandler` does: `Created` is the controller, `Step` the next round of
`execute`, `Settled` what it makes of an interceptor's result, `Invoke` the
invocation at its end, `HandlerCalled` the one an interceptor makes. `exec` is
the `Executor` of the pass, made anew by the handler of the second one; `gone`
is node's promise that a request emits `end` once. An interceptor awaits the
action it has run. User code may end the response at any moment of the handler.

**LambdaServer.** `transport` is node's server or the fake one. With the fake one
`finish` is emitted inside of `end`, the request's `end` on the next tick
(`Tick`), and `outcome` is what the caller of the lambda handler sees: nothing
yet, a callback with a result or an error, a rejection.

**WebSocketServer.** `Connect` to `Close` are the connection listener and the
listeners it attaches, `Ping` the interval function, `ServerClosed` the close
of the HTTP server. The socket, its peer and the `ws` library are external,
modelled from how the handler uses them. The mode (`useSyncInjector`) is a
variable chosen at the start.

**SocketEvents.** `fate[s][m]` follows the message `m` of a socket from its peer
(`Send`) through the listener of the event (`Deliver`, with `HandlerParams` for
`getSocketHandlerParams`) to the end of the call (`Return`); every step of
`WebSocketServer` may come in between (`ConnectionStep`). A message that comes before its
listener is `lost`, one the socket had not emitted when it closed `undelivered`.
What a parameter gets is the list of places of the event's arguments it holds.

**SocketIoServer.** A client has a connection and a socket in each namespace it
joins. The middlewares and the heartbeat are those of the main namespace,
whatever the controller subscribes to. `Ping` starts a heartbeat that asks for
the sockets, `Fetched` resumes it with the list of that moment, when some of them
may be closed and others open; the list is assumed to come before the interval
fires again. `listed` counts what the module's injector lists.

**WatchMode, PackageCommands, Schematics, ProjectCommands, Cli.** `WatchMode`
numbers the spawn events; `restart[e]` is where the listener stands with event
`e`, `process[e]` the server it started. `PackageCommands` builds the words of a
command line from the ones that were typed and lets the package manager, which is
external, act on them and fail half-way. `Schematics` has files and
the sources of modules (lines before the class, metadata of the decorator), and
what the declarators do to them; paths between directories are computed, not
assumed. `ProjectCommands` adds options, prompts, exits and errors around them.
A `git init` that fails is printed and no more, so `new` may end without an error and without
a repository; `.gitignore` is written all the same, and to fail there is an error. Providers
and interceptors are flat by default, and the command line has no way to say otherwise.
`Cli` hands the command line to one of them, and lets `generate` run again in
the project that is there.

## The runs

| Run | Module | Bounds | Shows |
| --- | --- | --- | --- |
| `tree` | `MCInjectorTree` | 3 injectors, 1 key, 2 values, or 4 injectors without bindings; `MaxRelisted` 1 | `NoChildLeak`, `DepartureIsLocal`, `BindingsImmutable`; `LifoIsForest`: refinement of `Forest` while parents lose their newest child first |
| `tree_detach` | `MCInjectorTree` | 3 injectors | *violated*: detach removes another child |
| `startup` | `MCStartup` | 2 servers; single declarations of 29 kinds, pairs of 6; 5 paths, 2 verbs | `ModulesAreShared`, `FirstRouteAnswers` |
| `resolver` | `MCResolver` | 6 providers, 2 calls, 1 destroy | `ResultIsBinding`, `WiredToBindings`, `SomeCallSurvives`, `BindingsAreImmutable` (refinement of `BindingRegistry`) |
| `modules` | `MCModuleGraph` | 48 graphs of 4 modules and 3 tokens and those of the unit tests, 2 calls, 1 removal | `CreatedOnce`, `SharedReference`, `RegisteredIsComplete`, `AgreesWithSync`, `AsTested`, `IsDeepestFirst` (refinement of `DeepestFirst`) |
| `interceptors` | `MCInterceptedMethod` | a class and two below it, 2 instances, one call, `MCRuns` 2; and the 11 tests, calls without end, `MaxRuns` 4; or 200 programs of three classes and the 11 of the tests | `InjectedAsDeclared`, `BasesKeepTheirMetadata`, `ResultIsKept`, `InterceptorsHaveRun`, `AsTested` (`CallsAsTested` and `MetadataIsSound`) |
| `resty` | `MCLambdaServer` | tables of up to 3 routes without interceptors, 6 small tables with 5 lists of up to 2 interceptors in each pass, `MaxCalls` 2 | `AnsweredOnce`, `ReportIsNoSuccess`, `ErrorHandlerSeesFailure`, `FailureReachesFreshRoute`, `ValueIsKept`, `ReportIsCalledBack`, `IsRequestHandler` (refinement), and `CallsAreAnswered`: HTTP requests are answered, events settle |
| `request_errors` | `MCRequestHandler` | tables of up to 3 routes | *violated*: an error route with the same path parameter is not reached |
| `websocket` | `MCSocketEvents` | 2 connections, 2 messages on one of them | `SyncDestroysOnceClosed`, `EventsAreSound` (messages lost only before the listener is there, arguments that fit), `OnlyStaleTerminated`, `GoneIsClosed` |
| `websocket_close` | `WebSocketServer` | 2 connections | *violated*: the README's promise in asynchronous mode |
| `socketio` | `MCSocketIoServer` | a web socket client and a polling one, 2 namespaces, 2 middlewares | `InjectorsAreSound`, `HeartbeatEndsTheStale` |
| `cli` | `MCCli` | `MaxEvents` 3, `MaxGenerates` 2, one library, 4 configurations, 4 locations, one of them called like the application's files | `ServersAreSound`, `PackagesAreSound`, `ProjectIsSound`, `SpecsOnlyWhereConfigured`, `LatestIsServed` |

Why the bounds are enough.

* *Tree*: a wrong removal needs a parent and two children; its consequence for the lists of a
  third party needs one injector more, and what `get` answers, which never reads the
  lists, does not. Injectors may be created, destroyed and adopted again for
  ever; `MaxRelisted` bounds how often a parent lists again what it lost, between two
  destructions of that parent, as its list would grow for ever. The
  single key is immutable, as mutable ones are exempt by definition.
* *Start-up*: two starts are what can overlap, fail or follow each other. A request's
  result depends on one route and what stands before it, so pairs of
  routes, behind one or none of the application's own, show every conflict; single routes have
  each kind of part, with no group, one or two, before and behind a variable; one
  search at a time, as searches only read.
* *Resolver*: the graph has each kind of provider (value, factory, class with
  constructor, created and injected properties, inner providers, an interceptor)
  and every provider may be the root of either call, with its dependencies in
  either order or missing; races are between two calls, and one destroy meets each
  stage. `MaxDestroys` is the only bound on behaviour.
* *Modules*: chain, diamond and re-export in both orders, with the depth-three
  chain that the README's example has; two calls may start at any module;
  `MaxRemoves` bounds removals.
* *Interceptors*: sharing needs a base and two classes below it. The statements
  differ in what matters (a constructor of their own or not, a decorator once or twice,
  parameters decorated or not, the mark of asynchrony). A call changes nothing the
  next call sees, so one per behaviour will do; `MCRuns` bounds how often
  interceptors run the method.
* *Metadata*: what merges and replaces takes a base and two classes, the second below
  either, with the same and other names of members, decorated once and twice; one
  class takes the descriptor's names. Runs of interceptors and of metadata share a
  configuration, not a behaviour.
* *Resty*: a table matters through its first match, its first error route and what
  stands before them, which three routes exhaust up to repetition; what an
  interceptor leaves to the next one is `result`, `ends` and `gone`, so two in a row
  show all; `MaxCalls` bounds how often interceptors run an action that gives
  nothing. The product of both is not taken: tables with interceptors are those
  in which the second pass is reached or not.
* *Web sockets, socket.io*: connections interact only through the one interval, the
  list it fetched, and the close of the server; two show that. Messages
  touch no other socket, so one peer sends them; two can be lost, heard and answered in every
  order. The two
  clients of `socketio` differ in transport and in the namespaces they join.
* *Cli*: three spawn events overlap in every way that two can, with one more to
  follow; the second element meets what the first one left. Packages and
  watching are checked in an empty directory, since they do not read the
  project; requests have one option at most besides `flat`, and the last
  one leaves out the options that make it like another.

Symmetry is used for injectors, servers and calls, in runs without liveness.
`CHECK_DEADLOCK FALSE` is set where a run may end: a request that is done, a
server that is closed, a method that has answered, a command that has run. In
`resolver` and `modules` the end is an explicit stuttering step, so a call that
could not go on would be reported, and trees and start-ups never end.

### Fairness

`LambdaSpec`: the loop over the routes goes on; controllers, interceptors and
actions settle and the peer sends the body it announced (`Run \/ Network`);
the response emits `finish`, the next tick comes, the callback is called. Nothing
forces a handler to end the response itself. `WebSocketServer`: the
interval fires, the event loop delivers pong and close events, and node emits the
server's close event when no connection is left. There is no fairness on
`Attach`: a controller may take for ever, and the heartbeat must still end such a
connection. The model lets a peer that answers do so before the next tick, that is a
round trip is shorter than the interval (30 s by default): with a longer one
the code ends live connections. `SocketIoServer`: the same for `Ping` and
`Pong`, and the list of sockets arrives (`Fetched`); nothing is owed by
middlewares, controllers or clients. `WatchMode`: tree-kill calls back, with an
error or without; nothing is owed by compilers or processes. The other
specifications have safety properties only.

### What the violated properties say

* `DetachRemovesTheChild` (`abstract-injector.ts:39`): the index is looked up
  in the wrong array. Parents list the wrong children from then on, but
  `NoChildLeak` and `DepartureIsLocal` show the damage is confined to the lists, which
  grow only where `addChild` lists a child again that is still there.
* `FailureReachesErrorRoute` (`resty/src/helpers/server.ts:303`):
  `FailureReachesFreshRoute` states what does hold.
* `DestroyedOnceClosed` (`resty-ws/src/helpers/server.ts:162`): the listener
  comes too late; with `useSyncInjector` the promise is kept.

Where documents say more than the code does, without a run of its own:

* `destroy` does not reach the children of an injector (`di/README.md:156`): they keep
  their providers; `InjectorTree` models what it does.
* `modules/README.md:80` promises one reference of an imported token; one that is a
  dependency of an own provider is created before the import is copied, and
  `SharedReference` states what holds.
* `@OnError("*")` "will match all routes on this controller"
  (`resty/README.md:78`, `resty-aws-lambda/README.md:56`), but the decorator's path
  becomes `/*`, whose expression `^/*$` matches the root path only. A bare `*`
  works through `router.onError`, which is the own route of `MCStartup`.

Exceptions that passing properties state, since this is what the code does:

* an action that returns nothing is run again at the end of `execute` when an
  interceptor has run it (`ValueIsKept` and `ResultIsKept` cover values only);
* an error route with a body reader waits for ever for a body that was read or has
  ended before (the exceptions of `CallsAreAnswered`);
* a token that stood for another class first gets that one's parameters, and
  decorated parameters of a base replace those of a constructor that leaves them alone
  (`InjectedAsDeclared`); a decorator applied twice is a list
  that classes below extend in place (`BasesKeepTheirMetadata`);
* middlewares' injectors are never taken out (`OnlyMiddlewaresLeak`);
* a kill that fails is the end of restarting (`LatestIsServed`), and overlapping
  restarts leave servers behind (`NoMoreServersThanOverlaps`);
* the word typed for the command is passed on as a package when no long flag is
  there (`OnlyTheNamed`);
* starts that overlap make modules of their own (`ModulesAreShared`).

## What is proved

For all values of the constants under the named assumptions:

* `InjectorProofs` (`TreeAssumption`): `TreeTypeOK`, `TreeNoChildLeak`,
  `TreeBindingsImmutable`, `TreeDepartureIsLocal`, and `LifoImplementsForest`.
  Of metadata and intercepted methods (`ClassAssumption`: finitely many classes, none among
  its own bases; `StatementAssumption`: a statement consists of sequences, and of decorated
  parameters that the constructor has, each listed once; `InterceptorAssumption`):
  `InjectionIsAsDeclared`, `BasesAreKept`, `InterceptorsKeepResult`, `InterceptorsRunToTheEnd`.
* `ResolverProofs` (`ResolverAssumption`): `ResolverTypeOK` (no run repeats it),
  `ResolverResultIsBinding`, `ResolverWiredToBindings`, `ResolverSomeCallSurvives`, and
  `ResolverBindingsAreImmutable`, the refinement of `BindingRegistry`.
* `ModuleGraphProofs` (`ModuleAssumption`: finitely many modules, whose imports are acyclic, so
  that a depth of at most their number descends along them): `ModulesDeepestFirst`,
  the refinement of `DeepestFirst`, `ModulesCreatedOnce`, `ModulesComplete`,
  `ModulesShareReferences`, `ModulesAgreeWithSync`.
* `StartupProofs` (`StartupAssumption`; `SequencesAssumption`: what is declared, and a path, is a
  sequence): `StartupSharesModules`, `StartupFirstRouteAnswers`.
* `RouteHandlerProofs` (`TablesAssumption`): `RequestEndedOnce`,
  `RequestReportIsNoSuccess`, `RequestErrorHandlerSeesFailure`,
  `RequestFailureReachesFreshRoute`; and with `ChainsAssumption`: `RestyImplementsRequest`,
  `LambdaImplementsRequest`, and through them `LambdaRequest`, the properties of
  a request for every route handler; `LambdaAnsweredOnce`, `LambdaValueIsKept`,
  `LambdaReportIsCalledBack`.
* `SocketEventsProofs` (`MessagesAssumption`): `WebSocketTypeOK`, `WebSocketSyncDestroys`,
  `WebSocketOnlyStale`; `EventsSound`, `MessagesHeardOnceAttached`, and
  `EventsImplementConnections`, by which the three before it hold with messages as well.
* `SocketIoProofs` (`ClientsAssumption`: finitely many clients): `SocketIoInjectorsAreSound`
  and `SocketIoOnlyStale`, the safety half of `HeartbeatEndsTheStale`.
* `CliProofs` (`MaxEventsAssumption`, `NamesAssumption`, `LocationsAssumption`,
  `ConfigurationsAssumption`, `RequestsAssumption`, `MaxGeneratesAssumption`):
  `CliServersAreSound`, `CliPackagesAreSound`, `CliSpecsOnlyWhereConfigured`,
  `CliProjectIsSound`.

The arguments.

*Tree.* `NoChildLeak` is not inductive: `detach` of an injector drops one
child from the parent's list *because* it finds index -1, which needs that no
injector is in its own list, and `CreateChild` adds one to both sides because a
new injector has no parent. `AddChild` adds one to both sides as well, or
to the list and to `relisted`. So `Inv == TypeOK /\ Blank /\ NoChildLeak`, where
`Blank` says that nobody lists himself and who was not created has no parent.
`Adopt` and `Leave` are the two lemmas about cardinalities the steps need. For
`DepartureIsLocal`, `ChainUnaffected` shows that the chain of an injector
that does not pass through `i` is the same set when `i` loses its parent,
`NearestExists` (by taking a member of the chain with the fewest injectors above)
that a lookup that can succeed has a nearest answer, and the two together that
the answers agree. For the refinement, `Listed` (everybody is in the list of his
parent) makes the removed last element the departing injector itself.

*Metadata.* What is injected is found along three chains of objects: the prototypes, the lists
of recorded metadata, and the compiler's arrays of types. `MetadataInv` says of a class
that is declared (`ClassInv`) that everything it and its bases apply is in the list that is
found from it (`Covers`), and that its array of types is the compiler's wherever nothing is
decorated (`TypesOf`), unless a base replaces a parameter that the class leaves alone; and of
a token (`CacheInv`) that what is cached is what the class asks for whose metadata was cached. A
list is allocated for the class or a base (`OwnersAbove`), so one that a class found before
can only be extended (`DecorateStep`, `DeclareIs`), and it is only if it is an array of a base
of both: which is `BasesAreKept`. That rewriting the array in place is harmless takes
`ParamTypesAre`: of the parameters, in the order of the chain, those a class below has decorated
too are passed over (`OverriddenAre`), the array has a place for every other one, so nothing is
appended, and a second run finds what the first one wrote. The folds are shown to be runs
(`FoldRuns`), `FlattenSeq` to be the concatenation (`FlattenRun`), and the recursive function
`Prototypes` to exist, by the depth of classes (`PrototypesAre`).

*Interceptors.* `Kept` relates the result of the executor to all that was given so far: it is what
was given last, and undefined only while nothing but undefined and errors were given.
An interceptor that is left behind by a synchronous call may add to that after the answer, which
stays what it was (`KeptAnswer`). For `InterceptorsRunToTheEnd`, `ExecutorInv` says that an executor has
all the interceptors of the class and its bases, which `Covers` gives when the instance is made and
which later statements do not disturb, and the mark if any of them has it. `StepsInv` says that the
interceptors before the next have run, except the last one while it has its turn or the
executor waits for it; what it takes is that only interceptors that nobody waits for go on after
their step (`ActingIs`), so no other is running or waiting when the executor is through.

*Resolver.* An instance is wired to what is bound only if what its frame was given
is still bound when it is bound itself, many awaits later; and what a call
returns comes up through frames that waited for it. `Sound` says that what a
frame was given since its constructor ran *in this epoch* is bound (and that an
instance it has bound is its provider's), `Kept` that the instance it has bound is
the one that is bound. `Kept` is not true of every frame, since a destroy may
have come between; it is true of frames above which nothing is older, that
is when the call began in this epoch or a frame below was constructed in it, and
those are the only cases in which somebody relies on it. `Extends` is what a step of
one call does to the injector, and `ExtendsCall` that other calls stay good under it,
however deep their stacks are; so each action is proved for its own call
alone (`CallMoves`). `GiveInv`, `BindInv` and `RunPropsInv` are the moves, and the
actions follow from them. A destroy raises the epoch, and no frame is of it.
`SomeCallSurvives` is about all calls at once: a call loses when it binds what another one
has bound, and who bound last may lose in turn. `SurvivorInv` names the survivor: a call that
has not lost and has in the making only tokens that are free (`Open`). Whoever binds a free
token takes the role over: what is bound requires nothing that is not (`Closed`), and what
a frame requires is bound or still to do (`Steady`), so that all else this call
has in the making is free, too. It needs that a token is free until its instance is done,
which is not so when an instance has method interceptors: they are created after it is
bound, and two calls may then make each other fail. So the property is about instances without.

*Modules.* Two ideas make the stacks of modules an invariant. `GoodFrame`: an import of a
module that is being initialised has been created or is still to do, so when nothing is left
to do, all are there. `GoodStack`: each frame awaits the import the next one initialises, and
the modules get less deep towards the top, which is what acyclic imports are for:
so no module is twice on a stack, and the frame that returns leaves what the frame below
awaits created. `Created` says both of every call, whatever the others do: calls only add
to the metadata (`MoreCreated`). What a module contains is the result of folds, over the
providers, what they need, and what was imported. Each fold is shown to be a run, a
sequence of bindings that starts with the one before and ends with the result
(`FoldExists`, `RecursionExists`), and facts about the result follow along the run: every
class is bound, own instances stay the module's own, a value that is bound is the first that
was imported (`OwnFacts`, `CreateFacts`). `Complete` and `SharesAll` carry them through
the stacks: `Collecting` says that what a frame has collected is what the imports it has
taken export (`Position` tells how far it is), so all that is registered has all it imports.
`Once` adds, while nothing overlaps and nothing is removed,
that every injector is the registered one and no module on a stack is registered. The stack
of one call changes by `ContinueGood`, `PushGood` or `PopGood`, and the actions follow.
`ModulesAgreeWithSync` says what the stack of a lone call means: `Follows` gives each frame
the state in which the synchronous recursion would have entered it, which is what the loop
of the frame around it has come to (`Began`), and an import that is awaited ends where the recursion
ends from there (`Waits`). The loop over the imports is a run again (`ImportsRun`), so a
step of the call moves one frame one round ahead (`TakingBegan`), enters a module
(`FrameBegins`) or leaves it as the recursion does (`CreationEnds`), until the first frame
returns what `SyncCreateAndResolve` does. That `SyncCreated` exists is shown level
by level (`SyncCreatedIs`), and its levels suffice because frame `i` has a depth of at most the number of
modules less `i - 1`.

*Start-up.* Two servers share the modules the class remembers only if no
start is under way when another one ends; `Alone` says that without overlap at most
one start is under way, and only while nothing is remembered. For `FirstRouteAnswers`, `Tables` says
that a table somebody is served from has a rule for each route, in order, at its beginning
(`Filled`), and a rule is broken only if its pattern is; so does a table that is added to once
more. `Lookup` says that a search has passed no candidate among `AllRoutes`, whatever its table
was at the time. A rule behind those of `AllRoutes` has a route the search has already
passed, so it is no candidate (`RuleAt`). That a parameter has its own text is a fact
about patterns: a greedy cut exists (`GreedyIsCut`, position by position); groups are finitely many
(`GroupsAreFinite`) and differ in their numbers (`NumberIsOwn`), and the first group of an aligned
variable has the number at which it is read, since what stands before it opens as many groups as
there are variables (`NumberIsIndex`).

*Request.* `RequestInvariance` relates the place in the table, the pass, the cause
and the response: `Place` says that the routes before the current one do not match,
`Remembered` what the second pass finds of the first until `finish` takes it away,
`BoundByMain` that only the failing route has bound parameters by then, so an error route that
shares none of them is reached (`SecondPassRuns`), unless the response has finished, which it can only
have if the failing handler had ended it. The handlers implement `RequestHandler` by the identity mapping: each
of their steps is one of the `Handler...` actions or changes none of its
variables; so the theorems about requests are cited and not proved again.

*Web sockets.* `SyncDestroysOnceClosed` needs that with the synchronous injector
there is no moment between connection and attachment (`SyncNeverWaits`);
`WebSocketOnlyStale` that the mark of an open connection whose peer answers is only
off while that answer is on its way (`AnswerComes`). For messages, a message is only lost
when those before it were emitted (`LostAfterEmitted`) and was only heard by a listener that
stays (`HeardByListener`); `ArgumentsInv` keeps what a method was called with, and
`FindFits` that `find` gives an argument of the type if there is one.

*socket.io.* `OnlyMiddlewaresLeak` equates the length of a list with two counts: sockets
whose injector is listed, and instances of middlewares, the pairs of a client and
a middleware it has entered. Both are cardinalities of finite sets
(`CountedIsFinite`), and each action that connects, enters or disconnects moves each by
one or not at all (`OneMoreAlive`, `OneMoreInstance`, `DisconnectedCount`), as an injector is
listed only while its listener is there and its socket is not closed (`ChildOfListener`).
`SocketIoOnlyStale` needs `Answers`: of a client whose heart beats the controller has heard,
will hear, or could not; while the heartbeat waits for its list no answer is under way.

*Cli: servers.* `NoMoreServersThanOverlaps` is not inductive, since a restart starts a
server before it is known whether the kill of the old one succeeds. `Servers` counts
what costs an overlap: the servers nobody will ever kill, the kills that are under way, and
the remembered server if no kill aims at it; a restart that finds another one under
way makes `overlaps` grow.

*Cli: packages.* `Progress` says where a command stands: nothing has changed before
its operations begin, and an operation that is to come is its own, or the second one of a
forced update. `NamedAreTyped` bounds what the words of a command line can name.

*Cli: projects.* `SourcesInv` has four parts: `FilesTyped`; `ModulesAreGood`, that the source
of every module is in order (`GoodSource`) and its imports lead to files that have the
class (`Leads`); `ImportedOnce`; and `FilesLieUnderRoots`. The lemma that carries it is about a path:
from a directory to a file through their longest common beginning, and back as
a module loader resolves it, is where the file is (`CommonBeginning`, `ImportLeads`).
`InsertImport` puts a line behind an import and not behind the last one, so an import never
comes after code in a source that begins with one (`InsertedImport`, `LinesWithImport`). An element adds one
import, to a module above it (`DeclaredIn`), of a class nobody imported before, since
its file was not there (`AddedElement`); the application's module is above everything
that lies under the root of the configuration, so there is a nearest one (`NearestIs`).
`NewOK` and `GenerateOK` are where the two commands stand: `.gitignore` and the repository are there
only after the last step, and the repository only in the directory of the files.

Only model-checked: the two `AsTested`, which compare finitely many programs, those of the unit tests among them, with what is expected of each. Out of the prover's reach: liveness
(`CallsAreAnswered`, `GoneIsClosed`, `StaleIsClosed` in `HeartbeatEndsTheStale`,
`LatestIsServed`), and what recursive functions compute for every input by an
induction over data (the metadata lists).

## Not modelled

* `logger` (the configuration of winston) and `utils` (predicates, used by the
  models as what they mean).
* `SyncInjector` beyond its caches: its recursion cannot interleave, and is the
  behaviours of `Resolver` in which one call runs at a time.
* The dispatch of application events in `resty-socket-io`. It is that of `SocketEvents`,
  except that an `@Arg` whose type no argument has takes the first argument not taken this
  way yet, and that parameters come last first.
* `schematics`: the templates, and `json-file.util` and `dependencies.utils`, which
  nobody calls. `cli`: `info`, which prints.
* The decorators of `router` and `resty` that only record their arguments, and the
  refusal of decorators without a name in `metadata`.
* Circular dependencies and imports: the code recurses along them without end, the
  graphs of the models have none.
* Two requests over one controller, HTTP redirects and headers, the bodies.

Of the source lines of the repository more than half are unit tests
(`*-spec.ts`, `*.test.ts`), and a good part of the rest are types, signatures, comments
and decorators; the map covers what holds state or decides about it.

## The plan

Done: everything in the table of modules. Left, in order of importance:

1. `InjectorTree` composed with connections and requests, so that the lists of
   children are those of the server's injectors and not a count.
2. The dispatch of events in `resty-socket-io`, with its own choice of arguments.
