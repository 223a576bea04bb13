--------------------------- MODULE SocketIoServer ---------------------------
(***************************************************************************)
(* createSocketHandler of @typeix/resty-socket-io.  A client has one       *)
(* connection and a socket for each namespace it joins; the middlewares    *)
(* and the heartbeat are those of the main namespace, whatever namespaces  *)
(* the controller subscribes to.  Each socket gets a controller, and each  *)
(* middleware an instance, in a child of the module's injector.  Clients,  *)
(* network and socket.io are external and modelled from how the handler    *)
(* uses them: disconnect(true) closes the connection and emits disconnect  *)
(* on its sockets before it returns, fetchSockets gives the sockets of the *)
(* moment it was called.  The process survives an unhandled rejection.     *)
(***************************************************************************)
EXTENDS Naturals, FiniteSets

CONSTANTS
    Clients,
    Wants,          \* Wants[c]: the namespaces client c may join
    Transport,      \* Transport[c]: how it is connected, websocket or polling
    Subscribed,     \* sets of namespaces a controller subscribes to
    Middlewares     \* how many the controller names

ASSUME MiddlewaresAssumption == Middlewares \in Nat

ASSUME ClientsAssumption ==
    IsFiniteSet(Clients) /\ Transport \in [Clients -> {"websocket", "polling"}]

VARIABLES
    sync,         \* config.useSyncInjector
    spaces,       \* the namespaces groupByEventsByNamespace finds
    server,       \* the HTTP server: listening, closing, closed
    conn,         \* conn[c]: new, websocket, polling, closed
    socket,       \* socket[c][n]: none, pending (in middlewares), open, closed
    middleware,   \* middleware[c]: where the middlewares of c's main socket are
    entered,      \* entered[c]: how many of them were entered
    handler,      \* handler[c][n]: how far the connection listener has come
    child,        \* child[c][n]: the injector of the socket's controller
    listed,       \* the length of the module injector's list of children
    keepAlive,    \* keepAlive[c]: KEEP_ALIVE of the main socket (no other is read)
    fetched,      \* the clients whose main sockets ping got, or Idle
    silent,       \* silent[c]: the client does not answer a ping event any more
    pong,         \* pong[c]: an answer to the last ping event is on its way
    missed        \* missed[c]: history, the last pong came before its listener

Idle == {"idle"}
Namespaces == {"main", "chat"}

external == <<server, conn, silent, pong, missed>>
sockets == <<socket, handler, child, keepAlive>>
admission == <<middleware, entered>>
vars == <<sync, spaces, external, sockets, admission, listed, fetched>>

TypeOK ==
    /\ sync \in BOOLEAN /\ spaces \in Subscribed
    /\ server \in {"listening", "closing", "closed"}
    /\ conn \in [Clients -> {"new", "websocket", "polling", "closed"}]
    /\ socket \in [Clients -> [Namespaces -> {"none", "pending", "open", "closed"}]]
    /\ middleware \in [Clients -> {"none", "creating", "using", "stuck", "passed"}]
    /\ entered \in [Clients -> 0..Middlewares]
    /\ handler \in [Clients -> [Namespaces -> {"none", "creating", "attached", "failed"}]]
    /\ child \in [Clients -> [Namespaces -> {"none", "listed", "destroyed"}]]
    /\ listed \in Nat
    /\ {silent, pong, missed, keepAlive} \subseteq [Clients -> BOOLEAN]
    /\ fetched = Idle \/ fetched \subseteq Clients
    /\ \A c \in Clients : conn[c] = "closed" => \A n \in Namespaces : socket[c][n] # "open"

EachSocket(x) == [c \in Clients |-> [n \in Namespaces |-> x]]

Init ==
    /\ sync \in BOOLEAN /\ spaces \in Subscribed
    /\ server = "listening"
    /\ conn = [c \in Clients |-> "new"] /\ socket = EachSocket("none")
    /\ middleware = [c \in Clients |-> "none"] /\ entered = [c \in Clients |-> 0]
    /\ handler = EachSocket("none") /\ child = EachSocket("none")
    /\ listed = 0
    /\ silent = [c \in Clients |-> FALSE]
    /\ pong = silent /\ missed = silent /\ keepAlive = silent
    /\ fetched = Idle

-----------------------------------------------------------------------------
(* The connection and disconnect listeners                                 *)

\* applySocketConnection, up to its await; without subscriptions in n the
\* socket has no listener.  The synchronous creation is done or has thrown.
Connected(c, n) ==
    /\ socket' = [socket EXCEPT ![c][n] = "open"]
    /\ IF n \in spaces
       THEN /\ keepAlive' = IF n = "main" THEN [keepAlive EXCEPT ![c] = TRUE] ELSE keepAlive
            /\ child' = [child EXCEPT ![c][n] = "listed"] /\ listed' = listed + 1
            /\ \E h \in IF sync THEN {"attached", "failed"} ELSE {"creating"} :
                   handler' = [handler EXCEPT ![c][n] = h]
       ELSE UNCHANGED <<keepAlive, child, listed, handler>>

\* The controller is there, or its creation rejects.
Created(c, n) ==
    /\ handler[c][n] = "creating"
    /\ \E h \in {"attached", "failed"} : handler' = [handler EXCEPT ![c][n] = h]
    /\ UNCHANGED <<sync, spaces, external, socket, child, keepAlive, admission, listed, fetched>>

\* The sockets S, of connections marked so, emit disconnect.  Those whose listener is attached destroy
\* their injector, and the module's injector loses the last child it lists.
Disconnected(S, mark) ==
    LET heard == {s \in S : socket[s[1]][s[2]] = "open" /\ handler[s[1]][s[2]] = "attached"}
    IN  /\ socket' = [c \in Clients |-> [n \in Namespaces |->
                        IF <<c, n>> \in S /\ socket[c][n] = "open" THEN "closed" ELSE socket[c][n]]]
        /\ child' = [c \in Clients |-> [n \in Namespaces |->
                        IF <<c, n>> \in heard THEN "destroyed" ELSE child[c][n]]]
        /\ keepAlive' = [c \in Clients |-> mark[c] /\ <<c, "main">> \notin heard]
        /\ listed' = listed - Cardinality(heard)

\* socket.disconnect(true), or the loss of the connection, of each of C.
CloseConnections(C, mark) ==
    /\ Disconnected(C \X Namespaces, mark)
    /\ conn' = [c \in Clients |-> IF c \in C THEN "closed" ELSE conn[c]]

-----------------------------------------------------------------------------
(* Joining, and the middlewares of the main namespace                      *)

Connect(c) ==
    /\ server = "listening" /\ conn[c] = "new"
    /\ conn' = [conn EXCEPT ![c] = Transport[c]]
    /\ UNCHANGED <<sync, spaces, server, silent, pong, missed, sockets, admission, listed, fetched>>

\* Mutant: the injector is listed when the instance exists.
EnterListsLater(c) ==
    /\ entered' = [entered EXCEPT ![c] = @ + 1]
    /\ \E m \in IF sync THEN {"using", "stuck"} ELSE {"creating"} :
           /\ middleware' = [middleware EXCEPT ![c] = m]
           /\ listed' = IF m = "using" THEN listed + 1 ELSE listed

\* The next middleware: its injector is listed before its instance exists.
EnterMiddleware(c) ==
    /\ entered' = [entered EXCEPT ![c] = @ + 1] /\ listed' = listed + 1
    /\ \E m \in IF sync THEN {"using", "stuck"} ELSE {"creating"} :
           middleware' = [middleware EXCEPT ![c] = m]

\* A namespace exists if it is the main one or somebody subscribes to it.
Join(c, n) ==
    /\ n \in Wants[c] /\ conn[c] \in {"websocket", "polling"} /\ socket[c][n] = "none"
    /\ n = "main" \/ n \in spaces
    /\ IF n = "main" /\ Middlewares > 0
       THEN /\ socket' = [socket EXCEPT ![c][n] = "pending"]
            /\ EnterMiddleware(c) /\ UNCHANGED <<handler, child, keepAlive>>
       ELSE Connected(c, n) /\ UNCHANGED admission
    /\ UNCHANGED <<sync, spaces, external, fetched>>

\* The instance is there and use is called, or nobody will ever call next.
MiddlewareCreated(c) ==
    /\ middleware[c] = "creating"
    /\ \E m \in {"using", "stuck"} : middleware' = [middleware EXCEPT ![c] = m]
    /\ UNCHANGED <<sync, spaces, external, sockets, entered, listed, fetched>>

\* use calls next: the following middleware, or the socket is connected if
\* there is a connection still.
NextCalled(c) ==
    /\ middleware[c] = "using"
    /\ IF entered[c] < Middlewares
       THEN EnterMiddleware(c) /\ UNCHANGED sockets
       ELSE /\ middleware' = [middleware EXCEPT ![c] = "passed"] /\ UNCHANGED entered
            /\ IF conn[c] # "closed" THEN Connected(c, "main")
               ELSE /\ socket' = [socket EXCEPT ![c]["main"] = "closed"]
                    /\ UNCHANGED <<handler, child, keepAlive, listed>>
    /\ UNCHANGED <<sync, spaces, external, fetched>>

\* use calls next with an error.
NextRefuses(c) ==
    /\ middleware[c] = "using"
    /\ middleware' = [middleware EXCEPT ![c] = "stuck"]
    /\ socket' = [socket EXCEPT ![c]["main"] = "closed"]
    /\ UNCHANGED <<sync, spaces, external, handler, child, keepAlive, entered, listed, fetched>>

-----------------------------------------------------------------------------
(* The heartbeat                                                           *)

\* The interval fires: ping asks for the sockets.  A client that answers does
\* so, and fetchSockets settles, before it fires again.
Ping ==
    /\ server # "closed" /\ fetched = Idle /\ \A c \in Clients : ~pong[c]
    /\ fetched' = {c \in Clients : socket[c]["main"] = "open"}
    /\ UNCHANGED <<sync, spaces, external, sockets, admission, listed>>

Stale == {c \in fetched : socket[c]["main"] = "open" /\ ~keepAlive[c]}

\* The clients that get a ping event and answer it.
Answering == {c \in fetched \ Stale : socket[c]["main"] = "open" /\ ~silent[c]}

\* Mutant: the mark is not taken away.
FetchedKeepsMark ==
    /\ fetched # Idle
    /\ CloseConnections(Stale, keepAlive)
    /\ pong' = [c \in Clients |-> c \in Answering]
    /\ fetched' = Idle
    /\ UNCHANGED <<sync, spaces, server, silent, missed, handler, admission>>

\* ping goes on with the sockets it got, some of which may be closed by now.
Fetched ==
    /\ fetched # Idle
    /\ CloseConnections(Stale, [c \in Clients |-> keepAlive[c] /\ c \notin fetched])
    /\ pong' = [c \in Clients |-> c \in Answering]
    /\ fetched' = Idle
    /\ UNCHANGED <<sync, spaces, server, silent, missed, handler, admission>>

\* Mutant: the pong listener does not mark the socket.
PongIgnored(c) ==
    /\ pong[c] /\ socket[c]["main"] = "open"
    /\ pong' = [pong EXCEPT ![c] = FALSE]
    /\ missed' = [missed EXCEPT ![c] = handler[c]["main"] # "attached"]
    /\ UNCHANGED <<keepAlive, sync, spaces, server, conn, silent, socket, handler, child,
                   admission, listed, fetched>>

\* The pong event of the main socket.
Pong(c) ==
    /\ pong[c] /\ socket[c]["main"] = "open"
    /\ pong' = [pong EXCEPT ![c] = FALSE]
    /\ missed' = [missed EXCEPT ![c] = handler[c]["main"] # "attached"]
    /\ keepAlive' = IF handler[c]["main"] = "attached" THEN [keepAlive EXCEPT ![c] = TRUE]
                    ELSE keepAlive
    /\ UNCHANGED <<sync, spaces, server, conn, silent, socket, handler, child,
                   admission, listed, fetched>>

-----------------------------------------------------------------------------
(* Clients and the HTTP server                                             *)

\* Events of a client whose main socket is closed, or that is silent, are lost.
Unheard(C) == pong' = [c \in Clients |-> pong[c] /\ c \notin C]

\* The connection ends: the client closes it, or engine.io gives it up.
ConnectionLost(c) ==
    /\ conn[c] \in {"websocket", "polling"}
    /\ CloseConnections({c}, keepAlive) /\ Unheard({c})
    /\ UNCHANGED <<sync, spaces, server, silent, missed, handler, admission, fetched>>

\* The client leaves a namespace.
Leave(c, n) ==
    /\ socket[c][n] = "open"
    /\ Disconnected({<<c, n>>}, keepAlive) /\ Unheard(IF n = "main" THEN {c} ELSE {})
    /\ UNCHANGED <<sync, spaces, server, conn, silent, missed, handler, admission, fetched>>

\* The client stops answering: it is gone, or never heard of ping events.
FallSilent(c) ==
    /\ conn[c] \in {"websocket", "polling"} /\ ~silent[c]
    /\ silent' = [silent EXCEPT ![c] = TRUE] /\ Unheard({c})
    /\ UNCHANGED <<sync, spaces, server, conn, missed, sockets, admission, listed, fetched>>

CloseServer ==
    /\ server = "listening" /\ server' = "closing"
    /\ UNCHANGED <<sync, spaces, conn, silent, pong, missed, sockets, admission, listed, fetched>>

\* The close event of the HTTP server, which has no socket open any more, but
\* may have clients that poll: the interval is cleared, the main sockets and
\* their connections are closed.
ServerClosed ==
    /\ server = "closing" /\ \A c \in Clients : conn[c] # "websocket"
    /\ server' = "closed"
    /\ LET C == {c \in Clients : socket[c]["main"] = "open"}
       IN  CloseConnections(C, keepAlive) /\ Unheard(C)
    /\ UNCHANGED <<sync, spaces, silent, missed, handler, admission, fetched>>

Next ==
    \/ \E c \in Clients :
           \/ Connect(c) \/ MiddlewareCreated(c) \/ NextCalled(c) \/ NextRefuses(c)
           \/ Pong(c) \/ ConnectionLost(c) \/ FallSilent(c)
           \/ \E n \in Namespaces : Join(c, n) \/ Created(c, n) \/ Leave(c, n)
    \/ Ping \/ Fetched \/ CloseServer \/ ServerClosed

\* The interval fires, fetchSockets settles and answers arrive; nothing is
\* owed by middlewares, controllers and clients.
Fairness == WF_vars(Ping) /\ WF_vars(Fetched) /\ \A c \in Clients : WF_vars(Pong(c))

Spec == Init /\ [][Next]_vars /\ Fairness

-----------------------------------------------------------------------------
(* Properties                                                              *)

\* With the synchronous injector the controller of a socket that has its
\* listeners is destroyed when the socket is closed, whoever closes it and
\* whatever becomes of the client's other sockets ("destroyed once connection
\* is closed or staled", the README of resty-socket-io).
SyncDestroysOnceClosed ==
    sync => \A c \in Clients, n \in Namespaces :
                handler[c][n] = "attached" =>
                    (socket[c][n] = "closed" <=> child[c][n] = "destroyed")

\* What the module's injector lists: the controllers not destroyed yet, and an
\* instance for every middleware a client ever entered.  Nobody takes those out.
Alive == {s \in Clients \X Namespaces : child[s[1]][s[2]] = "listed"}
Instances == {i \in Clients \X (1..Middlewares) : i[2] <= entered[i[1]]}

OnlyMiddlewaresLeak == listed = Cardinality(Alive) + Cardinality(Instances)

\* The heartbeat, late as it may be, closes no socket of a client, in either
\* namespace, unless the client is silent, its main socket has no controller,
\* or its answer came when the controller was not there to hear it.
OnlyStaleDisconnected ==
    [][\A c \in Clients : Fetched /\ conn[c] # conn'[c] =>
          silent[c] \/ missed[c] \/ handler[c]["main"] # "attached"]_vars

\* A silent client is disconnected in the end, if it is in the main namespace.
StaleIsClosed ==
    \A c \in Clients :
        (silent[c] /\ socket[c]["main"] = "open" /\ server # "closed") ~> socket[c]["main"] # "open"

\* The heartbeat ends the sockets that are stale, and no others.
HeartbeatEndsTheStale == OnlyStaleDisconnected /\ StaleIsClosed

\* The injectors of sockets: destroyed with their socket, and listed until then.
InjectorsAreSound == TypeOK /\ SyncDestroysOnceClosed /\ OnlyMiddlewaresLeak
=============================================================================
