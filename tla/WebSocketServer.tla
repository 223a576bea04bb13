-------------------------- MODULE WebSocketServer --------------------------
(***************************************************************************)
(* createSocketHandler of @typeix/resty-ws: connections, the controller    *)
(* each of them gets in a child injector, the heartbeat, and the close of  *)
(* the HTTP server.  The peer, the network and the ws library are external *)
(* and modelled from how the handler uses them: a socket is in             *)
(* server.clients from the connection event until its close event, ping on *)
(* a socket that is not open does nothing, and terminate is followed by    *)
(* one close event.  Events other than pong and close are left out.        *)
(***************************************************************************)
EXTENDS Naturals

CONSTANT Sockets      \* identities of connections

VARIABLES
    sync,         \* config.useSyncInjector
    server,       \* the HTTP server: listening, closing, closed
    timer,        \* whether the ping interval is set
    net,          \* net[s]: new, open, closing, closed
    silent,       \* silent[s]: the peer is gone without closing
    pong,         \* pong[s]: an answer to the last ping is on its way
    keepAlive,    \* keepAlive[s]: the property KEEP_ALIVE of the socket
    handler,      \* handler[s]: how far the connection listener of s has come
    child,        \* child[s]: the injector created for s
    missed        \* missed[s]: history, the last pong came before its listener

vars == <<sync, server, timer, net, silent, pong, keepAlive, handler, child, missed>>

TypeOK ==
    /\ sync \in BOOLEAN
    /\ server \in {"listening", "closing", "closed"}
    /\ timer = (server # "closed")
    /\ net \in [Sockets -> {"new", "open", "closing", "closed"}]
    /\ handler \in [Sockets -> {"none", "creating", "attached", "failed"}]
    /\ child \in [Sockets -> {"none", "listed", "destroyed"}]
    /\ silent \in [Sockets -> BOOLEAN] /\ pong \in [Sockets -> BOOLEAN]
    /\ keepAlive \in [Sockets -> BOOLEAN] /\ missed \in [Sockets -> BOOLEAN]
    /\ \A s \in Sockets : net[s] = "new" <=> handler[s] = "none"
    /\ \A s \in Sockets : server = "closed" => net[s] \in {"new", "closed"}

Init ==
    /\ sync \in BOOLEAN
    /\ server = "listening"
    /\ timer = TRUE
    /\ net = [s \in Sockets |-> "new"]
    /\ handler = [s \in Sockets |-> "none"]
    /\ child = [s \in Sockets |-> "none"]
    /\ silent = [s \in Sockets |-> FALSE]
    /\ pong = silent /\ keepAlive = silent /\ missed = silent

-----------------------------------------------------------------------------
(* The connection listener                                                 *)

\* createAndResolveChild lists the child before it creates the controller; the
\* synchronous one is done, or has thrown, before anything else can happen.
Connect(s) ==
    /\ server = "listening" /\ net[s] = "new"
    /\ net' = [net EXCEPT ![s] = "open"]
    /\ keepAlive' = [keepAlive EXCEPT ![s] = TRUE]
    /\ child' = [child EXCEPT ![s] = "listed"]
    /\ \E h \in IF sync THEN {"attached", "failed"} ELSE {"creating"} :
           handler' = [handler EXCEPT ![s] = h]
    /\ UNCHANGED <<sync, server, timer, silent, pong, missed>>

\* The await is over: the listeners are attached, whatever became of s.
Attach(s) ==
    /\ handler[s] = "creating"
    /\ handler' = [handler EXCEPT ![s] = "attached"]
    /\ UNCHANGED <<sync, server, timer, net, silent, pong, keepAlive, child, missed>>

\* The controller's creation rejects.
CreationFails(s) ==
    /\ handler[s] = "creating"
    /\ handler' = [handler EXCEPT ![s] = "failed"]
    /\ UNCHANGED <<sync, server, timer, net, silent, pong, keepAlive, child, missed>>

\* Mutant: a pong listener that forgets to mark the socket alive.
PongIgnored(s) ==
    /\ pong[s] /\ net[s] = "open"
    /\ pong' = [pong EXCEPT ![s] = FALSE]
    /\ missed' = [missed EXCEPT ![s] = handler[s] # "attached"]
    /\ UNCHANGED <<sync, server, timer, net, silent, keepAlive, handler, child>>

\* The pong event of a socket that is open.
Pong(s) ==
    /\ pong[s] /\ net[s] = "open"
    /\ pong' = [pong EXCEPT ![s] = FALSE]
    /\ missed' = [missed EXCEPT ![s] = handler[s] # "attached"]
    /\ keepAlive' = IF handler[s] = "attached" THEN [keepAlive EXCEPT ![s] = TRUE]
                    ELSE keepAlive
    /\ UNCHANGED <<sync, server, timer, net, silent, handler, child>>

\* Mutant: the close listener does not destroy the injector.
CloseKeepsInjector(s) ==
    /\ net[s] = "closing"
    /\ net' = [net EXCEPT ![s] = "closed"]
    /\ pong' = [pong EXCEPT ![s] = FALSE]
    /\ keepAlive' = IF handler[s] = "attached" THEN [keepAlive EXCEPT ![s] = FALSE]
                    ELSE keepAlive
    /\ UNCHANGED <<sync, server, timer, silent, handler, child, missed>>

\* The close event: if its listener is there, the injector is destroyed.
Close(s) ==
    /\ net[s] = "closing"
    /\ net' = [net EXCEPT ![s] = "closed"]
    /\ pong' = [pong EXCEPT ![s] = FALSE]
    /\ IF handler[s] = "attached"
       THEN /\ child' = [child EXCEPT ![s] = "destroyed"]
            /\ keepAlive' = [keepAlive EXCEPT ![s] = FALSE]
       ELSE UNCHANGED <<child, keepAlive>>
    /\ UNCHANGED <<sync, server, timer, silent, handler, missed>>

-----------------------------------------------------------------------------
(* The heartbeat and the HTTP server                                       *)

Clients == {s \in Sockets : net[s] \in {"open", "closing"}}

\* Mutant: the heartbeat pings, but does not take the mark away first.
PingKeepsMark ==
    /\ timer /\ \A s \in Sockets : ~pong[s]
    /\ net' = [s \in Sockets |->
                 IF s \in Clients /\ ~keepAlive[s] THEN "closing" ELSE net[s]]
    /\ pong' = [s \in Sockets |-> net[s] = "open" /\ keepAlive[s] /\ ~silent[s]]
    /\ UNCHANGED <<sync, server, timer, silent, keepAlive, handler, child, missed>>

\* The interval function.  A peer that answers does so before the next tick.
Ping ==
    /\ timer /\ \A s \in Sockets : ~pong[s]
    /\ net' = [s \in Sockets |->
                 IF s \in Clients /\ ~keepAlive[s] THEN "closing" ELSE net[s]]
    /\ pong' = [s \in Sockets |-> net[s] = "open" /\ keepAlive[s] /\ ~silent[s]]
    /\ keepAlive' = [s \in Sockets |-> keepAlive[s] /\ s \notin Clients]
    /\ UNCHANGED <<sync, server, timer, silent, handler, child, missed>>

\* Somebody closes the HTTP server: it accepts no more connections.
CloseServer ==
    /\ server = "listening"
    /\ server' = "closing"
    /\ UNCHANGED <<sync, timer, net, silent, pong, keepAlive, handler, child, missed>>

\* The close event of the HTTP server, which Node emits when it has no
\* connection left: there is no client to terminate any more.
ServerClosed ==
    /\ server = "closing" /\ Clients = {}
    /\ server' = "closed"
    /\ timer' = FALSE
    /\ UNCHANGED <<sync, net, silent, pong, keepAlive, handler, child, missed>>

-----------------------------------------------------------------------------
(* The peer                                                                *)

PeerCloses(s) ==
    /\ net[s] = "open" /\ ~silent[s]
    /\ net' = [net EXCEPT ![s] = "closing"]
    /\ UNCHANGED <<sync, server, timer, silent, pong, keepAlive, handler, child, missed>>

PeerVanishes(s) ==
    /\ net[s] = "open" /\ ~silent[s]
    /\ silent' = [silent EXCEPT ![s] = TRUE]
    /\ pong' = [pong EXCEPT ![s] = FALSE]
    /\ UNCHANGED <<sync, server, timer, net, keepAlive, handler, child, missed>>

Next ==
    \/ \E s \in Sockets :
           \/ Connect(s) \/ Attach(s) \/ CreationFails(s) \/ Pong(s) \/ Close(s)
           \/ PeerCloses(s) \/ PeerVanishes(s)
    \/ Ping \/ CloseServer \/ ServerClosed

\* The event loop runs the interval, delivers a pong and a close event; it
\* owes nothing to a controller that never comes to be.
Fairness ==
    /\ WF_vars(Ping) /\ WF_vars(ServerClosed)
    /\ \A s \in Sockets : WF_vars(Pong(s)) /\ WF_vars(Close(s))

Spec == Init /\ [][Next]_vars /\ Fairness

-----------------------------------------------------------------------------
(* Properties                                                              *)

\* "each connection has dedicated controller instance and it's destroyed once
\* connection is closed or staled" (the resty-ws README).
DestroyedOnceClosed ==
    \A s \in Sockets :
        net[s] = "closed" /\ handler[s] = "attached" => child[s] = "destroyed"

\* With the synchronous injector the README is right, whoever ends the
\* connection: the peer, the heartbeat, before or after the server closes.
SyncDestroysOnceClosed == sync => DestroyedOnceClosed

\* The heartbeat ends a connection only if its peer is gone, if it never got
\* a controller, or if the answer to the last ping came while the controller
\* was being created, when nobody listened.
OnlyStaleTerminated ==
    [][\A s \in Sockets :
          Ping /\ net[s] = "open" /\ net'[s] = "closing" =>
              silent[s] \/ missed[s] \/ handler[s] # "attached"]_vars

\* A peer that vanishes is noticed: its connection ends, also while the
\* server is closing and while the controller is still being created.
StaleIsClosed == \A s \in Sockets : silent[s] ~> net[s] = "closed"

\* A server that is asked to close does, once all peers are gone.
ServerStops ==
    (server = "closing" /\ \A s \in Sockets : silent[s] \/ net[s] # "open") ~> server = "closed"

\* Both at once: no peer that is gone keeps its connection, or the server, alive.
GoneIsClosed == StaleIsClosed /\ ServerStops
=============================================================================
