--------------------------- MODULE SocketIoProofs ---------------------------
(***************************************************************************)
(* Theorems about SocketIoServer, for every set of clients, whatever they  *)
(* subscribe to and however many middlewares there are: injectors go with  *)
(* their sockets and are listed until then, and the heartbeat ends no      *)
(* socket of a client that answers.                                        *)
(***************************************************************************)
EXTENDS SocketIoServer, FiniteSetTheorems, TLAPS

\* A socket has an injector from the moment its listener runs; only the
\* listener of a socket that is closed has destroyed it.
ChildOfListener ==
    \A c \in Clients : \A n \in Namespaces :
        /\ child[c][n] = "none" <=> handler[c][n] = "none"
        /\ child[c][n] = "destroyed" => socket[c][n] = "closed" /\ handler[c][n] = "attached"
        /\ socket[c][n] \in {"none", "pending"} => handler[c][n] = "none"
        /\ sync => handler[c][n] # "creating"

\* A socket waits for its middlewares, and enters none before it is there.
WaitsForMiddlewares ==
    \A c \in Clients :
        /\ middleware[c] \in {"creating", "using"} => socket[c]["main"] = "pending"
        /\ socket[c]["main"] = "none" => entered[c] = 0

\* The heart of a client beats: its controller, if it has one, has heard of it,
\* will hear of it, or could not.
Answers(c) ==
    socket[c]["main"] = "open" /\ handler[c]["main"] # "none" =>
        silent[c] \/ missed[c] \/ keepAlive[c] \/ pong[c]

\* Without the mark, the answer to the last ping event is on its way; there is
\* none while ping waits for the sockets.
AnswerComes ==
    /\ \A c \in Clients : Answers(c)
    /\ fetched # Idle => \A c \in Clients : ~pong[c]

\* The fields keep their types; what is counted is left to the last part.
SettingsOK == sync \in BOOLEAN /\ spaces \in Subscribed /\ (fetched = Idle \/ fetched \subseteq Clients)

ExternalOK ==
    /\ server \in {"listening", "closing", "closed"}
    /\ conn \in [Clients -> {"new", "websocket", "polling", "closed"}]
    /\ silent \in [Clients -> BOOLEAN] /\ pong \in [Clients -> BOOLEAN]
    /\ missed \in [Clients -> BOOLEAN]

SocketsOK ==
    /\ socket \in [Clients -> [Namespaces -> {"none", "pending", "open", "closed"}]]
    /\ handler \in [Clients -> [Namespaces -> {"none", "creating", "attached", "failed"}]]
    /\ child \in [Clients -> [Namespaces -> {"none", "listed", "destroyed"}]]
    /\ keepAlive \in [Clients -> BOOLEAN]

AdmissionOK ==
    /\ middleware \in [Clients -> {"none", "creating", "using", "stuck", "passed"}]
    /\ entered \in [Clients -> 0..Middlewares]

\* No socket is open on a closed connection.
ClosedOK ==
    \A c \in Clients : conn[c] = "closed" => \A n \in Namespaces : socket[c][n] # "open"

FieldsOK == SettingsOK /\ ExternalOK /\ SocketsOK /\ AdmissionOK /\ ClosedOK

SocketInv == FieldsOK /\ ChildOfListener /\ WaitsForMiddlewares /\ AnswerComes

-----------------------------------------------------------------------------
(* What is counted                                                         *)

\* Whatever is counted of the clients is finite.
LEMMA CountedIsFinite ==
  /\ IsFiniteSet(Alive) /\ Cardinality(Alive) \in Nat
  /\ IsFiniteSet(Instances) /\ Cardinality(Instances) \in Nat
<1>1. IsFiniteSet(Clients \X Namespaces)
  <2>1. IsFiniteSet({"main"} \cup {"chat"})
    BY FS_Singleton, FS_AddElement
  <2>2. Namespaces = {"main"} \cup {"chat"}
    BY DEF Namespaces
  <2>3. QED
    BY <2>1, <2>2, ClientsAssumption, FS_Product
<1>2. IsFiniteSet(Clients \X (1..Middlewares))
  <2>1. IsFiniteSet(1..Middlewares)
    BY MiddlewaresAssumption, FS_Interval
  <2>2. QED
    BY <2>1, ClientsAssumption, FS_Product
<1>3. Alive \in SUBSET (Clients \X Namespaces) /\ Instances \in SUBSET (Clients \X (1..Middlewares))
  BY DEF Alive, Instances
<1>4. QED
  BY <1>1, <1>2, <1>3, FS_Subset, FS_CardinalityType

\* A controller more.
LEMMA OneMoreAlive ==
  ASSUME NEW c \in Clients, NEW n \in Namespaces, FieldsOK, child[c][n] = "none",
         child' = [child EXCEPT ![c][n] = "listed"]
  PROVE  Cardinality(Alive') = Cardinality(Alive) + 1
<1>1. Alive' = Alive \cup {<<c, n>>} /\ <<c, n>> \notin Alive
  BY DEF Alive, FieldsOK, SocketsOK
<1>2. QED
  BY <1>1, CountedIsFinite, FS_AddElement

\* A middleware more.
LEMMA OneMoreInstance ==
  ASSUME NEW c \in Clients, FieldsOK, entered[c] < Middlewares,
         entered' = [entered EXCEPT ![c] = @ + 1]
  PROVE  Cardinality(Instances') = Cardinality(Instances) + 1
<1> DEFINE i == <<c, entered[c] + 1>>
<1>1. i \notin Instances
  BY DEF Instances, FieldsOK, AdmissionOK
<1>2. Instances' = Instances \cup {i}
  <2>1. ASSUME NEW d \in Clients, NEW k \in 1..Middlewares
        PROVE  <<d, k>> \in Instances' <=> <<d, k>> \in Instances \/ <<d, k>> = i
    BY MiddlewaresAssumption DEF Instances, FieldsOK, AdmissionOK
  <2>2. i \in Clients \X (1..Middlewares)
    BY MiddlewaresAssumption DEF FieldsOK, AdmissionOK
  <2>3. Instances' \subseteq Clients \X (1..Middlewares) /\ Instances \subseteq Clients \X (1..Middlewares)
    BY DEF Instances
  <2> HIDE DEF i
  <2>4. QED
    BY <2>1, <2>2, <2>3
<1>3. QED
  BY <1>1, <1>2, CountedIsFinite, FS_AddElement

-----------------------------------------------------------------------------
(* The fields                                                              *)

\* No client is connected in the beginning.
LEMMA InitSocketInv == Init => SocketInv
<1>1. ASSUME Init
      PROVE  FieldsOK
  <2>1. pong = silent /\ missed = silent /\ keepAlive = silent
    BY <1>1, Zenon DEF Init
  <2>2. SettingsOK /\ AdmissionOK /\ ClosedOK
    BY <1>1, MiddlewaresAssumption DEF Init, SettingsOK, AdmissionOK, ClosedOK, EachSocket
  <2>3. ExternalOK /\ SocketsOK
    BY <1>1, <2>1 DEF Init, ExternalOK, SocketsOK, EachSocket
  <2>4. QED
    BY <2>2, <2>3 DEF FieldsOK
<1>2. ASSUME Init
      PROVE  ChildOfListener /\ WaitsForMiddlewares
  BY <1>2 DEF Init, EachSocket, ChildOfListener, WaitsForMiddlewares, Namespaces
<1>3. ASSUME Init
      PROVE  AnswerComes
  <2>1. pong = [c \in Clients |-> FALSE] /\ fetched = Idle
    BY <1>3, Zenon DEF Init
  <2>2. \A c \in Clients : socket[c]["main"] = "none"
    BY <1>3 DEF Init, EachSocket, Namespaces
  <2>3. QED
    BY <2>1, <2>2 DEF AnswerComes, Answers
<1>4. QED
  BY <1>1, <1>2, <1>3 DEF SocketInv

-----------------------------------------------------------------------------
(* Every step preserves them: one lemma for each part                      *)

\* The state of a socket is one of these.
LEMMA Typed ==
  ASSUME SocketsOK, NEW c \in Clients, NEW n \in Namespaces
  PROVE  /\ socket[c][n] \in {"none", "pending", "open", "closed"}
         /\ handler[c][n] \in {"none", "creating", "attached", "failed"}
         /\ child[c][n] \in {"none", "listed", "destroyed"}
BY DEF SocketsOK

\* The listener leaves fields of their types.
LEMMA ConnectedFields ==
  ASSUME SocketsOK, NEW c \in Clients, NEW n \in Namespaces, Connected(c, n)
  PROVE  /\ SocketsOK'
         /\ socket' = [socket EXCEPT ![c][n] = "open"]
<1>1. CASE n \in spaces
  <2>1. PICK h \in {"attached", "failed", "creating"} : handler' = [handler EXCEPT ![c][n] = h]
    BY <1>1 DEF Connected
  <2>2. keepAlive' = [keepAlive EXCEPT ![c] = TRUE] \/ keepAlive' = keepAlive
    BY <1>1 DEF Connected
  <2>3. keepAlive' \in [Clients -> BOOLEAN]
    BY <2>2 DEF SocketsOK
  <2>4. /\ socket' = [socket EXCEPT ![c][n] = "open"]
        /\ child' = [child EXCEPT ![c][n] = "listed"]
    BY <1>1 DEF Connected
  <2>5. QED
    BY <2>1, <2>3, <2>4 DEF SocketsOK
<1>2. CASE n \notin spaces
  BY <1>2 DEF Connected, SocketsOK
<1>3. QED
  BY <1>1, <1>2

\* So do the disconnect listeners, of which those of S are open no longer.
LEMMA DisconnectedFields ==
  ASSUME SocketsOK, handler' = handler, NEW S \in SUBSET (Clients \X Namespaces),
         NEW mark \in [Clients -> BOOLEAN], Disconnected(S, mark)
  PROVE  /\ SocketsOK'
         /\ \A c \in Clients : \A n \in Namespaces :
               /\ socket'[c][n] = "open" <=> socket[c][n] = "open" /\ <<c, n>> \notin S
               /\ socket'[c][n] =
                     IF <<c, n>> \in S /\ socket[c][n] = "open" THEN "closed" ELSE socket[c][n]
               /\ child'[c][n] =
                     IF <<c, n>> \in S /\ socket[c][n] = "open" /\ handler[c][n] = "attached"
                     THEN "destroyed" ELSE child[c][n]
         /\ \A c \in Clients : keepAlive'[c] <=>
               /\ mark[c]
               /\ ~(/\ <<c, "main">> \in S /\ socket[c]["main"] = "open"
                    /\ handler[c]["main"] = "attached")
<1>1. /\ socket' = [c \in Clients |-> [n \in Namespaces |->
                       IF <<c, n>> \in S /\ socket[c][n] = "open" THEN "closed" ELSE socket[c][n]]]
      /\ child' = [c \in Clients |-> [n \in Namespaces |->
                       IF <<c, n>> \in S /\ socket[c][n] = "open" /\ handler[c][n] = "attached"
                       THEN "destroyed" ELSE child[c][n]]]
  BY DEF Disconnected
<1>2. keepAlive' = [c \in Clients |-> /\ mark[c]
                       /\ ~(/\ <<c, "main">> \in S /\ socket[c]["main"] = "open"
                            /\ handler[c]["main"] = "attached")]
  BY DEF Disconnected
<1>3. QED
  BY <1>1, <1>2 DEF SocketsOK

\* The connections of C are closed, and their sockets.
LEMMA ClosedFields ==
  ASSUME FieldsOK, handler' = handler, NEW C \in SUBSET Clients,
         NEW mark \in [Clients -> BOOLEAN], CloseConnections(C, mark)
  PROVE  /\ SocketsOK' /\ ClosedOK'
         /\ conn' \in [Clients -> {"new", "websocket", "polling", "closed"}]
<1>1. C \X Namespaces \in SUBSET (Clients \X Namespaces) /\ Disconnected(C \X Namespaces, mark)
  BY DEF CloseConnections
<1>2. /\ SocketsOK'
      /\ \A c \in Clients : \A n \in Namespaces :
            socket'[c][n] = "open" <=> socket[c][n] = "open" /\ <<c, n>> \notin C \X Namespaces
  BY <1>1, DisconnectedFields DEF FieldsOK
<1>3. ClosedOK'
  BY <1>2 DEF CloseConnections, FieldsOK, ClosedOK
<1>4. QED
  BY <1>2, <1>3 DEF CloseConnections, FieldsOK, ExternalOK

\* What an action leaves alone stays as it is.
LEMMA LeftAlone ==
  /\ UNCHANGED <<sync, spaces, fetched>> => (SettingsOK' <=> SettingsOK)
  /\ UNCHANGED external => (ExternalOK' <=> ExternalOK)
  /\ UNCHANGED sockets => (SocketsOK' <=> SocketsOK)
  /\ UNCHANGED admission => (AdmissionOK' <=> AdmissionOK)
  /\ UNCHANGED <<conn, socket>> => (ClosedOK' <=> ClosedOK)
BY DEF SettingsOK, ExternalOK, SocketsOK, AdmissionOK, ClosedOK, external, sockets, admission

\* A middleware is entered only while there are more.
LEMMA Entered ==
  ASSUME AdmissionOK, NEW c \in Clients, entered[c] < Middlewares, EnterMiddleware(c)
  PROVE  AdmissionOK'
BY MiddlewaresAssumption DEF AdmissionOK, EnterMiddleware

\* The fields keep their types, and a closed connection has no open socket.
LEMMA FieldsStep ==
  ASSUME SocketInv, [Next]_vars
  PROVE  FieldsOK'
<1>0. FieldsOK /\ WaitsForMiddlewares /\ "main" \in Namespaces
  BY DEF SocketInv, Namespaces
<1> USE LeftAlone DEF FieldsOK
<1>1. CASE \E c \in Clients : Connect(c)
  <2>0. PICK c \in Clients : conn' = [conn EXCEPT ![c] = Transport[c]]
    BY <1>1 DEF Connect
  <2>1. ExternalOK' /\ ClosedOK'
    <3>1. UNCHANGED <<server, silent, pong, missed, socket>>
      BY <1>1 DEF Connect, sockets
    <3>2. Transport[c] \in {"websocket", "polling"}
      BY ClientsAssumption
    <3>3. QED
      BY <1>0, <2>0, <3>1, <3>2 DEF ExternalOK, ClosedOK
  <2>2. QED
    BY <1>0, <1>1, <2>1 DEF Connect
<1>2. CASE \E c \in Clients : MiddlewareCreated(c)
  <2>1. AdmissionOK'
    BY <1>0, <1>2 DEF MiddlewareCreated, AdmissionOK
  <2>2. QED
    BY <1>0, <1>2, <2>1 DEF MiddlewareCreated, external, sockets
<1>3. ASSUME NEW c \in Clients, NextCalled(c)
      PROVE  FieldsOK'
  <2>0. UNCHANGED <<sync, spaces, fetched>> /\ UNCHANGED external /\ conn' = conn
    BY <1>3 DEF NextCalled, external
  <2>1. CASE entered[c] < Middlewares
    <3>1. EnterMiddleware(c) /\ UNCHANGED sockets /\ socket' = socket
      BY <1>3, <2>1 DEF NextCalled, sockets
    <3>2. QED
      BY <1>0, <2>0, <2>1, <3>1, Entered
  <2>2. CASE ~(entered[c] < Middlewares)
    <3>1. AdmissionOK'
      BY <1>0, <1>3, <2>2 DEF NextCalled, AdmissionOK
    <3>2. SocketsOK' /\ ClosedOK'
      <4>1. CASE conn[c] # "closed"
        <5>1. Connected(c, "main")
          BY <1>3, <2>2, <4>1 DEF NextCalled
        <5>2. SocketsOK' /\ socket' = [socket EXCEPT ![c]["main"] = "open"]
          BY <1>0, <5>1, ConnectedFields
        <5>3. QED
          BY <1>0, <2>0, <4>1, <5>2 DEF ClosedOK, SocketsOK
      <4>2. CASE conn[c] = "closed"
        <5>1. socket' = [socket EXCEPT ![c]["main"] = "closed"] /\ UNCHANGED <<handler, child, keepAlive>>
          BY <1>3, <2>2, <4>2 DEF NextCalled
        <5>2. QED
          BY <1>0, <2>0, <5>1 DEF ClosedOK, SocketsOK
      <4>3. QED
        BY <4>1, <4>2
    <3>3. QED
      BY <1>0, <2>0, <3>1, <3>2
  <2>3. QED
    BY <2>1, <2>2
<1>4. CASE \E c \in Clients : NextRefuses(c)
  <2>1. AdmissionOK'
    BY <1>0, <1>4 DEF NextRefuses, AdmissionOK
  <2>2. SocketsOK' /\ ClosedOK'
    BY <1>0, <1>4 DEF NextRefuses, SocketsOK, ClosedOK, external
  <2>3. QED
    BY <1>0, <1>4, <2>1, <2>2 DEF NextRefuses
<1>5. CASE \E c \in Clients : Pong(c)
  <2>1. ExternalOK' /\ UNCHANGED <<socket, handler, child>> /\ keepAlive' \in [Clients -> BOOLEAN]
    BY <1>0, <1>5 DEF Pong, ExternalOK, SocketsOK
  <2>2. SocketsOK'
    BY <1>0, <2>1 DEF SocketsOK
  <2>3. QED
    BY <1>0, <1>5, <2>1, <2>2 DEF Pong
<1>6. ASSUME NEW c \in Clients, ConnectionLost(c)
      PROVE  FieldsOK'
  <2>1. SocketsOK' /\ ClosedOK' /\ conn' \in [Clients -> {"new", "websocket", "polling", "closed"}]
    BY <1>0, <1>6, ClosedFields DEF ConnectionLost, SocketsOK
  <2>2. ExternalOK'
    BY <1>0, <1>6, <2>1 DEF ConnectionLost, Unheard, ExternalOK
  <2>3. QED
    BY <1>0, <1>6, <2>1, <2>2 DEF ConnectionLost
<1>7. CASE \E c \in Clients : FallSilent(c)
  <2>1. ExternalOK'
    BY <1>0, <1>7 DEF FallSilent, ExternalOK, Unheard
  <2>2. QED
    BY <1>0, <1>7, <2>1 DEF FallSilent, sockets
<1>8. ASSUME NEW c \in Clients, NEW n \in Namespaces, Join(c, n)
      PROVE  FieldsOK'
  <2>0. /\ UNCHANGED <<sync, spaces, fetched>> /\ UNCHANGED external /\ conn' = conn
        /\ conn[c] # "closed" /\ socket[c][n] = "none"
    BY <1>8 DEF Join, external
  <2>1. CASE n = "main" /\ Middlewares > 0
    <3>1. /\ EnterMiddleware(c) /\ UNCHANGED <<handler, child, keepAlive>>
          /\ socket' = [socket EXCEPT ![c][n] = "pending"]
      BY <1>8, <2>1 DEF Join
    <3>2. entered[c] < Middlewares
      BY <1>0, <2>0, <2>1, MiddlewaresAssumption DEF WaitsForMiddlewares
    <3>3. SocketsOK' /\ ClosedOK'
      BY <1>0, <2>0, <3>1 DEF SocketsOK, ClosedOK
    <3>4. QED
      BY <1>0, <2>0, <3>1, <3>2, <3>3, Entered
  <2>2. CASE ~(n = "main" /\ Middlewares > 0)
    <3>1. Connected(c, n) /\ UNCHANGED admission
      BY <1>8, <2>2 DEF Join
    <3>2. SocketsOK' /\ socket' = [socket EXCEPT ![c][n] = "open"]
      BY <1>0, <3>1, ConnectedFields
    <3>3. ClosedOK'
      BY <1>0, <2>0, <3>2 DEF ClosedOK, SocketsOK
    <3>4. QED
      BY <1>0, <2>0, <3>1, <3>2, <3>3
  <2>3. QED
    BY <2>1, <2>2
<1>9. CASE \E c \in Clients : \E n \in Namespaces : Created(c, n)
  <2>1. SocketsOK'
    BY <1>0, <1>9 DEF Created, SocketsOK
  <2>2. QED
    BY <1>0, <1>9, <2>1 DEF Created, external
<1>10. ASSUME NEW c \in Clients, NEW n \in Namespaces, Leave(c, n)
       PROVE  FieldsOK'
  <2>1. /\ SocketsOK'
        /\ \A d \in Clients : \A o \in Namespaces :
              socket'[d][o] = "open" <=> socket[d][o] = "open" /\ <<d, o>> \notin {<<c, n>>}
    <3>1. /\ Disconnected({<<c, n>>}, keepAlive) /\ handler' = handler
          /\ {<<c, n>>} \in SUBSET (Clients \X Namespaces)
      BY <1>10 DEF Leave
    <3> DEFINE S == {<<c, n>>}
    <3> HIDE DEF S
    <3>2. QED
      BY <1>0, <3>1, DisconnectedFields DEF SocketsOK
  <2>2. ClosedOK' /\ ExternalOK'
    BY <1>0, <1>10, <2>1 DEF Leave, Unheard, ExternalOK, ClosedOK
  <2>3. QED
    BY <1>0, <1>10, <2>1, <2>2 DEF Leave
<1>11. CASE Ping
  <2>1. SettingsOK'
    BY <1>11, <1>0 DEF Ping, SettingsOK
  <2>2. QED
    BY <1>0, <1>11, <2>1 DEF Ping, external, sockets
<1>12. ASSUME Fetched
       PROVE  FieldsOK'
  <2> DEFINE mark == [c \in Clients |-> keepAlive[c] /\ c \notin fetched]
  <2>1. CloseConnections(Stale, mark) /\ mark \in [Clients -> BOOLEAN]
    BY <1>12 DEF Fetched
  <2>2. Stale \in SUBSET Clients /\ handler' = handler
    BY <1>0, <1>12 DEF Stale, SettingsOK, Fetched
  <2>3. pong' \in [Clients -> BOOLEAN] /\ fetched' = Idle
        /\ UNCHANGED <<sync, spaces, server, silent, missed>> /\ UNCHANGED admission
    BY <1>12 DEF Fetched
  <2> HIDE DEF mark
  <2>4. SocketsOK' /\ ClosedOK' /\ conn' \in [Clients -> {"new", "websocket", "polling", "closed"}]
    BY <1>0, <2>1, <2>2, ClosedFields
  <2>5. ExternalOK' /\ SettingsOK'
    BY <1>0, <2>3, <2>4 DEF ExternalOK, SettingsOK
  <2>6. QED
    BY <1>0, <2>3, <2>4, <2>5
<1>13. CASE CloseServer
  <2>1. ExternalOK'
    BY <1>0, <1>13 DEF CloseServer, ExternalOK
  <2>2. QED
    BY <1>0, <1>13, <2>1 DEF CloseServer, sockets
<1>14. ASSUME ServerClosed
       PROVE  FieldsOK'
  <2> DEFINE C == {c \in Clients : socket[c]["main"] = "open"}
  <2>1. CloseConnections(C, keepAlive) /\ C \in SUBSET Clients
    BY <1>14 DEF ServerClosed
  <2>2. pong' \in [Clients -> BOOLEAN] /\ server' = "closed" /\ UNCHANGED admission
        /\ UNCHANGED <<sync, spaces, silent, missed, handler, fetched>> /\ handler' = handler
    BY <1>14 DEF ServerClosed, Unheard
  <2> HIDE DEF C
  <2>3. SocketsOK' /\ ClosedOK' /\ conn' \in [Clients -> {"new", "websocket", "polling", "closed"}]
    BY <1>0, <2>1, <2>2, ClosedFields DEF SocketsOK
  <2>4. ExternalOK'
    BY <1>0, <2>2, <2>3 DEF ExternalOK
  <2>5. QED
    BY <1>0, <2>2, <2>3, <2>4
<1>15. CASE UNCHANGED vars
  BY <1>0, <1>15 DEF vars, external, sockets
<1>16. QED
  BY <1>1, <1>2, <1>3, <1>4, <1>5, <1>6, <1>7, <1>8, <1>9, <1>10, <1>11, <1>12, <1>13, <1>14, <1>15
     DEF Next

-----------------------------------------------------------------------------
(* Injectors, and how many of them are listed                              *)

ChildInv == ChildOfListener /\ SyncDestroysOnceClosed /\ OnlyMiddlewaresLeak

\* A socket that is connected gets its injector with its listener.
LEMMA ConnectedChild ==
  ASSUME FieldsOK, ChildInv, NEW c \in Clients, NEW n \in Namespaces, Connected(c, n),
         handler[c][n] = "none", sync' = sync, entered' = entered
  PROVE  ChildInv'
<1>1. child[c][n] = "none"
  BY DEF ChildInv, ChildOfListener
<1>2. Instances' = Instances
  BY DEF Instances
<1>3. CASE n \in spaces
  <2>1. PICK h \in {"attached", "failed", "creating"} :
            /\ handler' = [handler EXCEPT ![c][n] = h]
            /\ sync => h # "creating"
    BY <1>3 DEF Connected
  <2>2. /\ socket' = [socket EXCEPT ![c][n] = "open"] /\ listed' = listed + 1
        /\ child' = [child EXCEPT ![c][n] = "listed"]
    BY <1>3 DEF Connected
  <2>3. ChildOfListener'
    BY <2>1, <2>2 DEF ChildInv, ChildOfListener, FieldsOK, SocketsOK
  <2>4. SyncDestroysOnceClosed'
    BY <1>1, <2>1, <2>2 DEF ChildInv, SyncDestroysOnceClosed, FieldsOK, SocketsOK
  <2>5. OnlyMiddlewaresLeak'
    <3>1. Cardinality(Alive') = Cardinality(Alive) + 1
      BY <1>1, <2>2, OneMoreAlive
    <3>2. QED
      BY <1>2, <2>2, <3>1, CountedIsFinite DEF ChildInv, OnlyMiddlewaresLeak
  <2>6. QED
    BY <2>3, <2>4, <2>5 DEF ChildInv
<1>4. CASE n \notin spaces
  <2>1. socket' = [socket EXCEPT ![c][n] = "open"] /\ UNCHANGED <<child, listed, handler>>
    BY <1>4 DEF Connected
  <2>2. ChildOfListener'
    BY <1>1, <2>1 DEF ChildInv, ChildOfListener, FieldsOK, SocketsOK
  <2>3. SyncDestroysOnceClosed'
    BY <1>1, <2>1 DEF ChildInv, SyncDestroysOnceClosed, FieldsOK, SocketsOK
  <2>4. Alive' = Alive
    BY <2>1 DEF Alive
  <2>5. QED
    BY <1>2, <2>1, <2>2, <2>3, <2>4 DEF ChildInv, OnlyMiddlewaresLeak
<1>5. QED
  BY <1>3, <1>4

\* The sockets that hear of their end take out of the list what they listed.
LEMMA DisconnectedCount ==
  ASSUME FieldsOK, ChildInv, NEW S \in SUBSET (Clients \X Namespaces),
         NEW mark \in [Clients -> BOOLEAN], Disconnected(S, mark),
         entered' = entered, handler' = handler
  PROVE  OnlyMiddlewaresLeak'
<1> DEFINE heard == {s \in S : socket[s[1]][s[2]] = "open" /\ handler[s[1]][s[2]] = "attached"}
<1>1. listed' = listed - Cardinality(heard)
  BY DEF Disconnected
<1>2. heard \subseteq Alive
  <2>1. ASSUME NEW s \in heard
        PROVE  s \in Alive
    BY <2>1 DEF ChildInv, ChildOfListener, FieldsOK, SocketsOK, Alive
  <2>2. QED
    BY <2>1
<1>3. Alive' = Alive \ heard
  <2>1. \A c \in Clients : \A n \in Namespaces :
            <<c, n>> \in Alive' <=> <<c, n>> \in Alive /\ <<c, n>> \notin heard
    BY DisconnectedFields DEF FieldsOK, Alive
  <2>2. Alive \subseteq Clients \X Namespaces /\ Alive' \subseteq Clients \X Namespaces
    BY DEF Alive
  <2> HIDE DEF heard
  <2>3. QED
    BY <2>1, <2>2
<1>4. Instances' = Instances
  BY DEF Instances
<1> HIDE DEF heard
<1>5. Cardinality(Alive') = Cardinality(Alive) - Cardinality(heard)
  <2>1. Alive \cap heard = heard
    BY <1>2
  <2>2. QED
    BY <1>3, <2>1, CountedIsFinite, FS_Difference
<1>6. Cardinality(heard) \in Nat
  BY <1>2, CountedIsFinite, FS_Subset, FS_CardinalityType
<1>7. QED
  BY <1>1, <1>4, <1>5, <1>6, CountedIsFinite DEF ChildInv, OnlyMiddlewaresLeak

\* Their injectors are destroyed with them.
LEMMA DisconnectedChild ==
  ASSUME FieldsOK, ChildInv, NEW S \in SUBSET (Clients \X Namespaces),
         NEW mark \in [Clients -> BOOLEAN], Disconnected(S, mark),
         sync' = sync, entered' = entered, handler' = handler
  PROVE  ChildInv'
<1>0. sync \in BOOLEAN
  BY DEF FieldsOK, SettingsOK
<1>1. ASSUME NEW c \in Clients, NEW n \in Namespaces
      PROVE  /\ socket[c][n] \in {"none", "pending", "open", "closed"}
             /\ socket'[c][n] = IF <<c, n>> \in S /\ socket[c][n] = "open" THEN "closed" ELSE socket[c][n]
             /\ child'[c][n] =
                   IF <<c, n>> \in S /\ socket[c][n] = "open" /\ handler[c][n] = "attached"
                   THEN "destroyed" ELSE child[c][n]
  <2>1. SocketsOK
    BY DEF FieldsOK
  <2>2. QED
    BY <2>1, DisconnectedFields, Typed
<1>2. ChildOfListener'
  <2> SUFFICES ASSUME NEW c \in Clients, NEW n \in Namespaces
               PROVE  /\ child'[c][n] = "none" <=> handler'[c][n] = "none"
                      /\ child'[c][n] = "destroyed" =>
                            socket'[c][n] = "closed" /\ handler'[c][n] = "attached"
                      /\ socket'[c][n] \in {"none", "pending"} => handler'[c][n] = "none"
                      /\ sync' => handler'[c][n] # "creating"
    BY DEF ChildOfListener
  <2>1. /\ child[c][n] = "none" <=> handler[c][n] = "none"
        /\ child[c][n] = "destroyed" => socket[c][n] = "closed" /\ handler[c][n] = "attached"
        /\ socket[c][n] \in {"none", "pending"} => handler[c][n] = "none"
        /\ sync' => handler[c][n] # "creating"
    BY <1>0 DEF ChildInv, ChildOfListener
  <2>2. handler'[c][n] = handler[c][n]
    OBVIOUS
  <2>3. QED
    BY ONLY <1>1, <2>1, <2>2, c \in Clients, n \in Namespaces
<1>3. SyncDestroysOnceClosed'
  <2> SUFFICES ASSUME sync', NEW c \in Clients, NEW n \in Namespaces, handler'[c][n] = "attached"
               PROVE  socket'[c][n] = "closed" <=> child'[c][n] = "destroyed"
    BY DEF SyncDestroysOnceClosed
  <2>1. /\ socket[c][n] = "closed" <=> child[c][n] = "destroyed"
        /\ handler[c][n] = "attached"
    BY <1>0 DEF ChildInv, SyncDestroysOnceClosed
  <2>2. QED
    BY ONLY <1>1, <2>1, c \in Clients, n \in Namespaces
<1>4. OnlyMiddlewaresLeak'
  BY DisconnectedCount
<1>5. QED
  BY <1>2, <1>3, <1>4 DEF ChildInv

\* A middleware is entered.
LEMMA EnteredChild ==
  ASSUME FieldsOK, ChildInv, NEW c \in Clients, entered[c] < Middlewares, EnterMiddleware(c),
         sync' = sync, handler' = handler, child' = child, NEW n \in Namespaces, handler[c][n] = "none",
         \/ socket' = socket
         \/ socket' = [socket EXCEPT ![c][n] = "pending"]
  PROVE  ChildInv'
<1>1. Alive' = Alive
  BY DEF Alive
<1>2. OnlyMiddlewaresLeak'
  <2>1. Cardinality(Instances') = Cardinality(Instances) + 1 /\ listed' = listed + 1
    BY OneMoreInstance DEF EnterMiddleware
  <2>2. QED
    BY <1>1, <2>1, CountedIsFinite DEF ChildInv, OnlyMiddlewaresLeak
<1>3. ASSUME NEW d \in Clients, NEW o \in Namespaces
      PROVE  \/ socket'[d][o] = socket[d][o]
             \/ socket'[d][o] = "pending" /\ handler[d][o] = "none"
  <2>1. socket \in [Clients -> [Namespaces -> {"none", "pending", "open", "closed"}]]
    BY DEF FieldsOK, SocketsOK
  <2>2. CASE socket' = socket
    BY <2>2
  <2>3. CASE socket' = [socket EXCEPT ![c][n] = "pending"]
    BY <2>1, <2>3
  <2>4. QED
    BY <2>2, <2>3
<1>4. sync \in BOOLEAN
  BY DEF FieldsOK, SettingsOK
<1>5. ChildOfListener'
  BY <1>3, <1>4 DEF ChildInv, ChildOfListener
<1>6. SyncDestroysOnceClosed'
  BY <1>3, <1>4 DEF ChildInv, SyncDestroysOnceClosed
<1>7. QED
  BY <1>2, <1>5, <1>6 DEF ChildInv

\* Injectors and their sockets: every step keeps them together.
LEMMA ChildStep ==
  ASSUME SocketInv, ChildInv, [Next]_vars
  PROVE  ChildInv'
<1>0. FieldsOK /\ WaitsForMiddlewares /\ ChildOfListener /\ "main" \in Namespaces
  BY DEF SocketInv, Namespaces
<1>1. ASSUME UNCHANGED <<sync, socket, handler, child, entered, listed>>
      PROVE  ChildInv'
  BY <1>1 DEF ChildInv, ChildOfListener, SyncDestroysOnceClosed, OnlyMiddlewaresLeak, Alive, Instances
<1>2. CASE \/ \E c \in Clients : Connect(c) \/ MiddlewareCreated(c) \/ Pong(c) \/ FallSilent(c)
           \/ Ping \/ CloseServer \/ UNCHANGED vars
  BY <1>1, <1>2 DEF Connect, MiddlewareCreated, Pong, FallSilent, Ping, CloseServer, vars,
                    sockets, admission
<1>3. ASSUME NEW c \in Clients, NextCalled(c)
      PROVE  ChildInv'
  <2>0. sync' = sync /\ handler[c]["main"] = "none" /\ socket[c]["main"] = "pending"
    BY <1>0, <1>3 DEF NextCalled, WaitsForMiddlewares, ChildOfListener
  <2>1. CASE entered[c] < Middlewares
    <3>1. EnterMiddleware(c) /\ UNCHANGED <<socket, handler, child>>
      BY <1>3, <2>1 DEF NextCalled, sockets
    <3>2. QED
      BY <1>0, <2>0, <2>1, <3>1, EnteredChild
  <2>2. CASE ~(entered[c] < Middlewares) /\ conn[c] # "closed"
    <3>1. Connected(c, "main") /\ entered' = entered
      BY <1>3, <2>2 DEF NextCalled
    <3>2. QED
      BY <1>0, <2>0, <3>1, ConnectedChild
  <2>3. CASE ~(entered[c] < Middlewares) /\ conn[c] = "closed"
    <3>1. socket' = [socket EXCEPT ![c]["main"] = "closed"]
          /\ UNCHANGED <<handler, child, listed, entered>>
      BY <1>3, <2>3 DEF NextCalled
    <3>2. ChildOfListener' /\ SyncDestroysOnceClosed'
      BY <1>0, <2>0, <3>1 DEF ChildInv, ChildOfListener, SyncDestroysOnceClosed, FieldsOK, SocketsOK
    <3>3. QED
      BY <3>1, <3>2 DEF ChildInv, OnlyMiddlewaresLeak, Alive, Instances
  <2>4. QED
    BY <2>1, <2>2, <2>3
<1>4. ASSUME NEW c \in Clients, NextRefuses(c)
      PROVE  ChildInv'
  <2>1. handler[c]["main"] = "none"
    BY <1>0, <1>4 DEF NextRefuses, WaitsForMiddlewares, ChildOfListener
  <2>2. socket' = [socket EXCEPT ![c]["main"] = "closed"]
        /\ UNCHANGED <<sync, handler, child, listed, entered>>
    BY <1>4 DEF NextRefuses
  <2>3. ChildOfListener' /\ SyncDestroysOnceClosed'
    BY <1>0, <2>1, <2>2 DEF ChildInv, ChildOfListener, SyncDestroysOnceClosed, FieldsOK, SocketsOK
  <2>4. QED
    BY <2>2, <2>3 DEF ChildInv, OnlyMiddlewaresLeak, Alive, Instances
<1>5. ASSUME NEW c \in Clients, NEW n \in Namespaces, Join(c, n)
      PROVE  ChildInv'
  <2>0. sync' = sync /\ handler[c][n] = "none" /\ socket[c][n] = "none"
    BY <1>0, <1>5 DEF Join, ChildOfListener
  <2>1. CASE n = "main" /\ Middlewares > 0
    <3>1. EnterMiddleware(c) /\ UNCHANGED <<handler, child>>
          /\ socket' = [socket EXCEPT ![c][n] = "pending"]
      BY <1>5, <2>1 DEF Join
    <3>2. entered[c] < Middlewares
      BY <1>0, <2>0, <2>1, MiddlewaresAssumption DEF WaitsForMiddlewares
    <3>3. QED
      BY <1>0, <2>0, <3>1, <3>2, EnteredChild
  <2>2. CASE ~(n = "main" /\ Middlewares > 0)
    <3>1. Connected(c, n) /\ entered' = entered
      BY <1>5, <2>2 DEF Join, admission
    <3>2. QED
      BY <1>0, <2>0, <3>1, ConnectedChild
  <2>3. QED
    BY <2>1, <2>2
<1>6. ASSUME NEW c \in Clients, NEW n \in Namespaces, Created(c, n)
      PROVE  ChildInv'
  <2>1. PICK h \in {"attached", "failed"} : handler' = [handler EXCEPT ![c][n] = h]
    BY <1>6 DEF Created
  <2>2. handler[c][n] = "creating" /\ UNCHANGED <<sync, socket, child, listed, entered>>
    BY <1>6 DEF Created, admission
  <2>3. ChildOfListener' /\ SyncDestroysOnceClosed'
    BY <1>0, <2>1, <2>2 DEF ChildInv, ChildOfListener, SyncDestroysOnceClosed, FieldsOK, SocketsOK
  <2>4. QED
    BY <2>2, <2>3 DEF ChildInv, OnlyMiddlewaresLeak, Alive, Instances
<1>7. ASSUME NEW S \in SUBSET (Clients \X Namespaces), NEW mark \in [Clients -> BOOLEAN],
             Disconnected(S, mark), sync' = sync, entered' = entered, handler' = handler
      PROVE  ChildInv'
  BY <1>0, <1>7, DisconnectedChild
<1>8. keepAlive \in [Clients -> BOOLEAN]
  BY <1>0 DEF FieldsOK, SocketsOK
<1>9. ASSUME NEW c \in Clients, ConnectionLost(c)
      PROVE  ChildInv'
  <2> DEFINE S == {c} \X Namespaces
  <2>1. Disconnected(S, keepAlive) /\ S \in SUBSET (Clients \X Namespaces)
    BY <1>9 DEF ConnectionLost, CloseConnections
  <2>2. sync' = sync /\ entered' = entered /\ handler' = handler
    BY <1>9 DEF ConnectionLost, admission
  <2> HIDE DEF S
  <2>3. QED
    BY <1>7, <1>8, <2>1, <2>2
<1>10. ASSUME NEW c \in Clients, NEW n \in Namespaces, Leave(c, n)
       PROVE  ChildInv'
  <2> DEFINE S == {<<c, n>>}
  <2>1. Disconnected(S, keepAlive) /\ S \in SUBSET (Clients \X Namespaces)
    BY <1>10 DEF Leave
  <2>2. sync' = sync /\ entered' = entered /\ handler' = handler
    BY <1>10 DEF Leave, admission
  <2> HIDE DEF S
  <2>3. QED
    BY <1>7, <1>8, <2>1, <2>2
<1>11. CASE Fetched
  <2>1. Disconnected(Stale \X Namespaces, [c \in Clients |-> keepAlive[c] /\ c \notin fetched])
        /\ sync' = sync /\ entered' = entered /\ handler' = handler
    BY <1>11 DEF Fetched, CloseConnections, admission
  <2>2. Stale \subseteq Clients
    BY <1>0, <1>11 DEF Stale, Fetched, FieldsOK, SettingsOK
  <2>3. [c \in Clients |-> keepAlive[c] /\ c \notin fetched] \in [Clients -> BOOLEAN]
    OBVIOUS
  <2>4. QED
    BY <1>7, <2>1, <2>2, <2>3
<1>12. CASE ServerClosed
  <2>1. PICK C \in SUBSET Clients : Disconnected(C \X Namespaces, keepAlive)
    BY <1>12 DEF ServerClosed, CloseConnections
  <2>2. sync' = sync /\ entered' = entered /\ handler' = handler
    BY <1>12 DEF ServerClosed, admission
  <2>3. QED
    BY <1>7, <1>8, <2>1, <2>2
<1>13. QED
  BY <1>2, <1>3, <1>4, <1>5, <1>6, <1>9, <1>10, <1>11, <1>12 DEF Next

-----------------------------------------------------------------------------
(* Middlewares and the heartbeat                                           *)

\* A socket that is connected was pending in its last middleware, or none.
LEMMA WaitStep ==
  ASSUME SocketInv, [Next]_vars
  PROVE  WaitsForMiddlewares'
<1>0. FieldsOK /\ SocketsOK /\ AdmissionOK /\ WaitsForMiddlewares /\ "main" \in Namespaces
  BY DEF SocketInv, Namespaces, FieldsOK
<1>1. ASSUME UNCHANGED <<socket, middleware, entered>>
      PROVE  WaitsForMiddlewares'
  BY <1>0, <1>1 DEF WaitsForMiddlewares
<1>2. CASE \/ \E c \in Clients : Connect(c) \/ Pong(c) \/ FallSilent(c)
           \/ \E c \in Clients : \E n \in Namespaces : Created(c, n)
           \/ Ping \/ CloseServer \/ UNCHANGED vars
  BY <1>1, <1>2 DEF Connect, Created, Pong, FallSilent, Ping, CloseServer, vars, sockets, admission
<1>3. CASE \E c \in Clients : MiddlewareCreated(c)
  BY <1>0, <1>3 DEF MiddlewareCreated, sockets, WaitsForMiddlewares, AdmissionOK
<1>4. ASSUME NEW c \in Clients, NextCalled(c)
      PROVE  WaitsForMiddlewares'
  <2>0. middleware[c] = "using" /\ socket[c]["main"] = "pending"
    BY <1>0, <1>4 DEF NextCalled, WaitsForMiddlewares
  <2>1. CASE entered[c] < Middlewares
    BY <1>0, <1>4, <2>0, <2>1 DEF NextCalled, EnterMiddleware, sockets, WaitsForMiddlewares, AdmissionOK
  <2>2. CASE ~(entered[c] < Middlewares)
    <3>1. middleware' = [middleware EXCEPT ![c] = "passed"] /\ entered' = entered
      BY <1>4, <2>2 DEF NextCalled
    <3>2. \/ socket' = [socket EXCEPT ![c]["main"] = "open"]
          \/ socket' = [socket EXCEPT ![c]["main"] = "closed"]
      BY <1>4, <2>2 DEF NextCalled, Connected
    <3>3. QED
      BY <1>0, <3>1, <3>2 DEF WaitsForMiddlewares, AdmissionOK, SocketsOK
  <2>3. QED
    BY <2>1, <2>2
<1>5. CASE \E c \in Clients : NextRefuses(c)
  BY <1>0, <1>5 DEF NextRefuses, WaitsForMiddlewares, AdmissionOK, SocketsOK
<1>6. ASSUME NEW c \in Clients, NEW n \in Namespaces, Join(c, n)
      PROVE  WaitsForMiddlewares'
  <2>1. CASE n = "main" /\ Middlewares > 0
    BY <1>0, <1>6, <2>1 DEF Join, EnterMiddleware, WaitsForMiddlewares, AdmissionOK, SocketsOK
  <2>2. CASE ~(n = "main" /\ Middlewares > 0)
    <3>1. socket' = [socket EXCEPT ![c][n] = "open"] /\ UNCHANGED <<middleware, entered>>
          /\ socket[c][n] = "none"
      BY <1>6, <2>2 DEF Join, Connected, admission
    <3>2. QED
      BY <1>0, <3>1 DEF WaitsForMiddlewares, AdmissionOK, SocketsOK
  <2>3. QED
    BY <2>1, <2>2
<1>7. ASSUME NEW S, NEW mark, Disconnected(S, mark), UNCHANGED <<middleware, entered>>
      PROVE  WaitsForMiddlewares'
  <2>1. socket' = [c \in Clients |-> [n \in Namespaces |->
                      IF <<c, n>> \in S /\ socket[c][n] = "open" THEN "closed" ELSE socket[c][n]]]
    BY <1>7 DEF Disconnected
  <2>2. \A c \in Clients : socket'[c]["main"] \in {socket[c]["main"], "closed"}
                           /\ (socket[c]["main"] # "open" => socket'[c]["main"] = socket[c]["main"])
    BY <1>0, <2>1
  <2>3. QED
    BY <1>0, <1>7, <2>2 DEF WaitsForMiddlewares
<1>8. CASE \/ \E c \in Clients : ConnectionLost(c) \/ \E n \in Namespaces : Leave(c, n)
           \/ Fetched \/ ServerClosed
  BY <1>7, <1>8 DEF ConnectionLost, Leave, Fetched, ServerClosed, CloseConnections, admission
<1>9. QED
  BY <1>2, <1>3, <1>4, <1>5, <1>6, <1>8 DEF Next

\* The mark is set with the listener and taken away with a ping event, which
\* is answered; an answer that is not heard is missed.
LEMMA AnswerStep ==
  ASSUME SocketInv, [Next]_vars
  PROVE  AnswerComes'
<1>0. /\ FieldsOK /\ SettingsOK /\ ExternalOK /\ SocketsOK /\ AdmissionOK /\ "main" \in Namespaces
      /\ AnswerComes /\ ChildOfListener /\ WaitsForMiddlewares
  BY DEF SocketInv, Namespaces, FieldsOK
<1>1. CASE CloseServer \/ UNCHANGED vars \/ \E c \in Clients : Connect(c) \/ MiddlewareCreated(c)
  <2>1. UNCHANGED <<socket, handler, silent, missed, keepAlive, pong, fetched>>
    BY <1>1 DEF CloseServer, Connect, MiddlewareCreated, vars, external, sockets
  <2>2. QED
    BY <1>0, <2>1 DEF AnswerComes, Answers
<1>2. ASSUME NEW c \in Clients, NEW n \in Namespaces, Connected(c, n), handler[c][n] = "none",
             silent' = silent, missed' = missed, pong' = pong, fetched' = fetched
      PROVE  AnswerComes'
  <2>1. /\ \A d \in Clients : keepAlive[d] => keepAlive'[d]
        /\ n = "main" => keepAlive'[c] \/ handler'[c]["main"] = "none"
    <3>1. n = "main" => keepAlive' = [keepAlive EXCEPT ![c] = TRUE] \/ (keepAlive' = keepAlive /\ handler' = handler)
      BY <1>2 DEF Connected
    <3>2. n # "main" => keepAlive' = keepAlive
      BY <1>2 DEF Connected
    <3>3. QED
      BY <1>0, <1>2, <3>1, <3>2 DEF SocketsOK
  <2>2. \A d \in Clients : d # c \/ n # "main" =>
            socket'[d]["main"] = socket[d]["main"] /\ handler'[d]["main"] = handler[d]["main"]
    BY <1>0, <1>2 DEF Connected, SocketsOK
  <2>3. ASSUME NEW d \in Clients
        PROVE  Answers(d)'
    BY <1>0, <1>2, <2>1, <2>2 DEF AnswerComes, Answers
  <2>4. QED
    BY <1>0, <1>2, <2>3 DEF AnswerComes
<1>3. ASSUME NEW c \in Clients, UNCHANGED <<handler, silent, missed, keepAlive, pong, fetched>>,
             \/ socket' = socket
             \/ \E x \in {"pending", "closed"} : socket' = [socket EXCEPT ![c]["main"] = x]
      PROVE  AnswerComes'
  <2>1. \A d \in Clients : socket'[d]["main"] = "open" => socket[d]["main"] = "open"
    <3>1. socket \in [Clients -> [Namespaces -> {"none", "pending", "open", "closed"}]]
      BY <1>0 DEF SocketsOK
    <3>2. ASSUME NEW x \in {"pending", "closed"}, socket' = [socket EXCEPT ![c]["main"] = x]
          PROVE  \A d \in Clients : socket'[d]["main"] = "open" => socket[d]["main"] = "open"
      BY <1>0, <3>1, <3>2
    <3>3. QED
      BY <1>3, <3>2
  <2>2. QED
    BY <1>0, <1>3, <2>1 DEF AnswerComes, Answers
<1>4. ASSUME NEW c \in Clients, NextCalled(c)
      PROVE  AnswerComes'
  <2>0. UNCHANGED <<silent, missed, pong, fetched>> /\ handler[c]["main"] = "none"
    BY <1>0, <1>4 DEF NextCalled, external, WaitsForMiddlewares, ChildOfListener
  <2>1. CASE entered[c] < Middlewares \/ conn[c] = "closed"
    BY <1>3, <1>4, <2>0, <2>1 DEF NextCalled, sockets
  <2>2. CASE ~(entered[c] < Middlewares \/ conn[c] = "closed")
    BY <1>0, <1>2, <1>4, <2>0, <2>2 DEF NextCalled
  <2>3. QED
    BY <2>1, <2>2
<1>5. CASE \E c \in Clients : NextRefuses(c)
  BY <1>3, <1>5 DEF NextRefuses, external
<1>6. ASSUME NEW c \in Clients, NEW n \in Namespaces, Join(c, n)
      PROVE  AnswerComes'
  <2>0. UNCHANGED <<silent, missed, pong, fetched>> /\ handler[c][n] = "none"
    BY <1>0, <1>6 DEF Join, external, ChildOfListener
  <2>1. CASE n = "main" /\ Middlewares > 0
    BY <1>3, <1>6, <2>0, <2>1 DEF Join
  <2>2. CASE ~(n = "main" /\ Middlewares > 0)
    BY <1>2, <1>6, <2>0, <2>2 DEF Join
  <2>3. QED
    BY <2>1, <2>2
<1>7. CASE \E c \in Clients : \E n \in Namespaces : Created(c, n)
  <2>1. UNCHANGED <<socket, silent, missed, keepAlive, pong, fetched>>
    BY <1>7 DEF Created, external
  <2>2. \A c \in Clients : handler'[c]["main"] # "none" => handler[c]["main"] # "none"
    BY <1>0, <1>7 DEF Created, SocketsOK
  <2>3. QED
    BY <1>0, <2>1, <2>2 DEF AnswerComes, Answers
<1>8. ASSUME NEW c \in Clients, Pong(c)
      PROVE  AnswerComes'
  <2>1. UNCHANGED <<socket, handler, silent, fetched>> /\ pong' = [pong EXCEPT ![c] = FALSE]
        /\ missed' = [missed EXCEPT ![c] = handler[c]["main"] # "attached"]
    BY <1>8 DEF Pong
  <2>2. /\ \A d \in Clients : keepAlive[d] => keepAlive'[d]
        /\ handler[c]["main"] = "attached" => keepAlive'[c]
    BY <1>0, <1>8 DEF Pong, SocketsOK
  <2>3. ASSUME NEW d \in Clients
        PROVE  Answers(d)' /\ (pong'[d] => pong[d])
    BY <1>0, <2>1, <2>2 DEF AnswerComes, Answers, ExternalOK
  <2>4. QED
    BY <1>0, <2>1, <2>3 DEF AnswerComes
<1>9. CASE \E c \in Clients : FallSilent(c)
  <2>1. PICK c \in Clients : /\ silent' = [silent EXCEPT ![c] = TRUE]
                             /\ pong' = [d \in Clients |-> pong[d] /\ d \notin {c}]
                             /\ UNCHANGED <<socket, handler, missed, keepAlive, fetched>>
    BY <1>9 DEF FallSilent, Unheard, sockets
  <2>2. QED
    BY <1>0, <2>1 DEF AnswerComes, Answers, ExternalOK
<1>10. CASE Ping
  <2>1. UNCHANGED <<socket, handler, silent, missed, keepAlive, pong>> /\ \A c \in Clients : ~pong[c]
    BY <1>10 DEF Ping, external, sockets
  <2>2. QED
    BY <1>0, <2>1 DEF AnswerComes, Answers
<1>11. ASSUME NEW S \in SUBSET (Clients \X Namespaces), NEW C,
              Disconnected(S, keepAlive), Unheard(C),
              \A c \in C \cap Clients : <<c, "main">> \in S,
              UNCHANGED <<handler, silent, missed, fetched>>
       PROVE  AnswerComes'
  <2>1. keepAlive \in [Clients -> BOOLEAN]
    BY <1>0 DEF SocketsOK
  <2>2. ASSUME NEW c \in Clients, socket'[c]["main"] = "open"
        PROVE  /\ socket[c]["main"] = "open"
               /\ pong[c] => pong'[c]
               /\ keepAlive[c] => keepAlive'[c]
    <3>1. socket[c]["main"] = "open" /\ <<c, "main">> \notin S /\ (keepAlive[c] => keepAlive'[c])
      BY <1>0, <1>11, <2>1, <2>2, DisconnectedFields
    <3>2. QED
      BY <1>11, <3>1 DEF Unheard
  <2>3. \A c \in Clients : pong'[c] => pong[c]
    BY <1>11 DEF Unheard
  <2>4. QED
    BY <1>0, <1>11, <2>2, <2>3 DEF AnswerComes, Answers
<1>12. ASSUME NEW c \in Clients, ConnectionLost(c)
       PROVE  AnswerComes'
  <2> DEFINE S == {c} \X Namespaces
  <2>1. /\ Disconnected(S, keepAlive) /\ S \in SUBSET (Clients \X Namespaces)
        /\ \A d \in {c} \cap Clients : <<d, "main">> \in S
    BY <1>0, <1>12 DEF ConnectionLost, CloseConnections
  <2>2. Unheard({c}) /\ UNCHANGED <<handler, silent, missed, fetched>>
    BY <1>12 DEF ConnectionLost
  <2> HIDE DEF S
  <2>3. QED
    BY <1>11, <2>1, <2>2
<1>13. ASSUME NEW c \in Clients, NEW n \in Namespaces, Leave(c, n)
       PROVE  AnswerComes'
  <2> DEFINE S == {<<c, n>>}
             C == IF n = "main" THEN {c} ELSE {}
  <2>1. /\ Disconnected(S, keepAlive) /\ S \in SUBSET (Clients \X Namespaces)
        /\ \A d \in C \cap Clients : <<d, "main">> \in S
    BY <1>13 DEF Leave
  <2>2. Unheard(C) /\ UNCHANGED <<handler, silent, missed, fetched>>
    BY <1>13 DEF Leave
  <2> HIDE DEF S, C
  <2>3. QED
    BY <1>11, <2>1, <2>2
<1>14. CASE ServerClosed
  <2> DEFINE C == {c \in Clients : socket[c]["main"] = "open"}
             S == C \X Namespaces
  <2>1. /\ Disconnected(S, keepAlive) /\ S \in SUBSET (Clients \X Namespaces)
        /\ \A d \in C \cap Clients : <<d, "main">> \in S
    BY <1>0, <1>14 DEF ServerClosed, CloseConnections
  <2>2. Unheard(C) /\ UNCHANGED <<handler, silent, missed, fetched>>
    BY <1>14 DEF ServerClosed
  <2> HIDE DEF S, C
  <2>3. QED
    BY <1>11, <2>1, <2>2
<1>15. CASE Fetched
  <2> DEFINE S == Stale \X Namespaces
             mark == [c \in Clients |-> keepAlive[c] /\ c \notin fetched]
  <2>1. /\ Disconnected(S, mark) /\ S \in SUBSET (Clients \X Namespaces)
        /\ mark \in [Clients -> BOOLEAN]
    BY <1>0, <1>15 DEF Fetched, CloseConnections, Stale, SettingsOK
  <2>2. /\ pong' = [c \in Clients |-> c \in Answering] /\ fetched' = Idle
        /\ UNCHANGED <<handler, silent, missed>> /\ \A c \in Clients : ~pong[c]
    BY <1>0, <1>15 DEF Fetched, AnswerComes
  <2>3. \A c \in Clients : mark[c] <=> keepAlive[c] /\ c \notin fetched
    OBVIOUS
  <2>4. \A c \in Clients : <<c, "main">> \in S <=> c \in Stale
    BY <1>0
  <2> HIDE DEF S, mark
  <2>5. ASSUME NEW c \in Clients, socket'[c]["main"] = "open"
        PROVE  /\ socket[c]["main"] = "open" /\ c \notin Stale
               /\ keepAlive[c] /\ c \notin fetched => keepAlive'[c]
    <3>1. /\ socket[c]["main"] = "open" /\ <<c, "main">> \notin S
          /\ keepAlive'[c] <=> mark[c]
      BY <1>0, <2>1, <2>2, <2>5, DisconnectedFields
    <3>2. QED
      BY <2>3, <2>4, <3>1
  <2>6. ASSUME NEW c \in Clients
        PROVE  Answers(c)'
    <3>1. CASE c \in fetched
      BY <2>2, <2>5, <3>1 DEF Answers, Answering
    <3>2. CASE c \notin fetched
      BY <1>0, <2>2, <2>5, <3>2 DEF Answers, AnswerComes
    <3>3. QED
      BY <3>1, <3>2
  <2>7. QED
    BY <2>2, <2>6 DEF AnswerComes
<1>16. QED
  BY <1>1, <1>4, <1>5, <1>6, <1>7, <1>8, <1>9, <1>10, <1>12, <1>13, <1>14, <1>15 DEF Next

-----------------------------------------------------------------------------
(* The theorems                                                            *)

\* The invariant holds in the beginning: nothing is counted yet.
LEMMA InitInv == Init => SocketInv /\ ChildInv
<1> SUFFICES ASSUME Init PROVE ChildInv
  BY InitSocketInv
<1>1. ChildOfListener
  BY InitSocketInv DEF SocketInv
<1>2. SyncDestroysOnceClosed
  BY DEF Init, EachSocket, SyncDestroysOnceClosed
<1>3. Alive = {} /\ Instances = {} /\ listed = 0
  BY MiddlewaresAssumption DEF Init, EachSocket, Alive, Instances
<1>4. QED
  BY <1>1, <1>2, <1>3, FS_EmptySet DEF ChildInv, OnlyMiddlewaresLeak

\* And in every state.
LEMMA Invariance == Spec => [](SocketInv /\ ChildInv)
<1>1. SocketInv /\ ChildInv /\ [Next]_vars => (SocketInv /\ ChildInv)'
  BY FieldsStep, WaitStep, AnswerStep, ChildStep DEF SocketInv, ChildInv
<1>2. QED
  BY InitInv, <1>1, PTL DEF Spec

\* Whoever closes a socket, in whatever order the namespaces and middlewares of
\* however many clients come and go: the controllers of the synchronous mode are
\* destroyed with their sockets, and the module's injector lists exactly the
\* controllers that are not, and every instance of a middleware there ever was.
THEOREM SocketIoInjectorsAreSound == Spec => []InjectorsAreSound
<1>1. SocketInv /\ ChildInv => TypeOK
  BY CountedIsFinite DEF SocketInv, ChildInv, FieldsOK, SettingsOK, ExternalOK, SocketsOK,
                         AdmissionOK, ClosedOK, OnlyMiddlewaresLeak, TypeOK
<1>2. SocketInv /\ ChildInv => InjectorsAreSound
  BY <1>1 DEF ChildInv, InjectorsAreSound
<1>3. QED
  BY Invariance, <1>2, PTL

\* The heartbeat closes no connection of a client that answers, unless it has no
\* controller or its answer came too early for it.
THEOREM SocketIoOnlyStale == Spec => OnlyStaleDisconnected
<1>1. ASSUME SocketInv, [Next]_vars
      PROVE  [\A c \in Clients : Fetched /\ conn[c] # conn'[c] =>
                 silent[c] \/ missed[c] \/ handler[c]["main"] # "attached"]_vars
  <2> SUFFICES ASSUME NEW c \in Clients, Fetched, conn[c] # conn'[c]
               PROVE  silent[c] \/ missed[c] \/ handler[c]["main"] # "attached"
    OBVIOUS
  <2>1. c \in Stale /\ fetched # Idle
    <3>1. conn' = [d \in Clients |-> IF d \in Stale THEN "closed" ELSE conn[d]] /\ fetched # Idle
      BY DEF Fetched, CloseConnections
    <3>2. QED
      BY <3>1
  <2>2. QED
    BY <1>1, <2>1 DEF Stale, SocketInv, AnswerComes, Answers
<1>2. QED
  BY Invariance, <1>1, PTL DEF Spec, OnlyStaleDisconnected
=============================================================================
