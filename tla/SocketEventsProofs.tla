------------------------- MODULE SocketEventsProofs -------------------------
(***************************************************************************)
(* Theorems about WebSocketServer, for every set of connections, and about *)
(* SocketEvents, for every set of signatures and any number of messages: a *)
(* controller of the synchronous mode goes with its connection, and the    *)
(* heartbeat ends no connection that still answers; messages and calls do  *)
(* not disturb the connections, the messages nobody hears are the first    *)
(* ones, and methods are called with the arguments their parameters ask    *)
(* for.                                                                    *)
(***************************************************************************)
EXTENDS SocketEvents, WellFoundedInduction, TLAPS

\* In synchronous mode no controller is half created when an event comes.
SyncNeverWaits == sync => \A s \in Sockets : handler[s] # "creating"

\* The mark of a connection that is open and answers is only missing while
\* the answer to the last ping is on its way.
AnswerComes ==
    \A s \in Sockets :
        net[s] = "open" /\ ~silent[s] /\ ~missed[s] /\ ~keepAlive[s] => pong[s]

Inv == TypeOK /\ SyncNeverWaits /\ SyncDestroysOnceClosed /\ AnswerComes

\* The initial states satisfy the invariant: there is no connection yet.
LEMMA InitInv == Init => Inv
<1>1. ASSUME Init
      PROVE  TypeOK
  <2>1. timer = (server # "closed")
    BY <1>1, Zenon DEF Init
  <2>2. QED
    BY <1>1, <2>1 DEF Init, TypeOK
<1>2. Init => SyncNeverWaits /\ SyncDestroysOnceClosed /\ AnswerComes
  BY DEF Init, SyncNeverWaits, SyncDestroysOnceClosed, DestroyedOnceClosed, AnswerComes
<1>3. QED
  BY <1>1, <1>2 DEF Inv

-----------------------------------------------------------------------------
(* Every step preserves it: one lemma for each part                        *)

\* The fields keep their types; a server is closed only when every
\* connection is, and nobody connects to it any more.
LEMMA TypeStep ==
  ASSUME TypeOK, [Next]_vars
  PROVE  TypeOK'
<1> USE DEF TypeOK
<1>1. CASE \E s \in Sockets : Connect(s)
  BY <1>1 DEF Connect
<1>2. CASE \E s \in Sockets : Attach(s) \/ CreationFails(s)
  BY <1>2 DEF Attach, CreationFails
<1>3. CASE \E s \in Sockets : Pong(s)
  BY <1>3 DEF Pong
<1>4. CASE \E s \in Sockets : Close(s)
  BY <1>4 DEF Close
<1>5. CASE \E s \in Sockets : PeerCloses(s) \/ PeerVanishes(s)
  BY <1>5 DEF PeerCloses, PeerVanishes
<1>6. CASE Ping
  <2>1. pong' \in [Sockets -> BOOLEAN] /\ keepAlive' \in [Sockets -> BOOLEAN]
    BY <1>6, Zenon DEF Ping
  <2>2. QED
    BY <1>6, <2>1 DEF Ping, Clients
<1>7. CASE CloseServer \/ ServerClosed
  <2>1. timer' = (server' # "closed")
    <3>1. CASE CloseServer
      BY <3>1, Zenon DEF CloseServer
    <3>2. CASE ServerClosed
      BY <3>2, Zenon DEF ServerClosed
    <3>3. QED
      BY <1>7, <3>1, <3>2
  <2>2. QED
    BY <1>7, <2>1 DEF CloseServer, ServerClosed, Clients
<1>8. CASE UNCHANGED vars
  BY <1>8 DEF vars
<1>9. QED
  BY <1>1, <1>2, <1>3, <1>4, <1>5, <1>6, <1>7, <1>8 DEF Next

\* Only the asynchronous connection listener leaves a controller half created.
LEMMA SyncStep ==
  ASSUME TypeOK, SyncNeverWaits, [Next]_vars
  PROVE  SyncNeverWaits'
<1> USE DEF TypeOK, SyncNeverWaits
<1>1. CASE \E s \in Sockets : Connect(s)
  BY <1>1 DEF Connect
<1>2. CASE \E s \in Sockets : Attach(s) \/ CreationFails(s)
  BY <1>2 DEF Attach, CreationFails
<1>3. ASSUME UNCHANGED <<sync, handler>>
      PROVE  SyncNeverWaits'
  BY <1>3
<1>4. QED
  BY <1>1, <1>2, <1>3 DEF Next, vars, Pong, Close, PeerCloses, PeerVanishes,
                           Ping, CloseServer, ServerClosed

\* A connection that closes has its listener or will never have one, so the
\* close event destroys what there is to destroy.
LEMMA DestroyStep ==
  ASSUME TypeOK, SyncNeverWaits, SyncDestroysOnceClosed, [Next]_vars
  PROVE  SyncDestroysOnceClosed'
<1> USE DEF TypeOK, SyncNeverWaits, SyncDestroysOnceClosed, DestroyedOnceClosed
<1>1. CASE \E s \in Sockets : Connect(s)
  BY <1>1 DEF Connect
<1>2. CASE \E s \in Sockets : Attach(s) \/ CreationFails(s)
  BY <1>2 DEF Attach, CreationFails
<1>3. CASE \E s \in Sockets : Pong(s) \/ PeerCloses(s) \/ PeerVanishes(s)
  BY <1>3 DEF Pong, PeerCloses, PeerVanishes
<1>4. CASE \E s \in Sockets : Close(s)
  BY <1>4 DEF Close
<1>5. CASE Ping
  BY <1>5 DEF Ping
<1>6. CASE CloseServer \/ ServerClosed \/ UNCHANGED vars
  BY <1>6 DEF CloseServer, ServerClosed, vars
<1>7. QED
  BY <1>1, <1>2, <1>3, <1>4, <1>5, <1>6 DEF Next

\* The heartbeat takes the mark away exactly when it asks for an answer; the
\* answer brings it back or comes too early for its listener.
LEMMA AnswerStep ==
  ASSUME TypeOK, AnswerComes, [Next]_vars
  PROVE  AnswerComes'
<1> USE DEF TypeOK, AnswerComes
<1>1. CASE \E s \in Sockets : Connect(s)
  BY <1>1 DEF Connect
<1>2. CASE \E s \in Sockets : Attach(s) \/ CreationFails(s)
  BY <1>2 DEF Attach, CreationFails
<1>3. CASE \E s \in Sockets : Pong(s)
  BY <1>3 DEF Pong
<1>4. CASE \E s \in Sockets : Close(s)
  BY <1>4 DEF Close
<1>5. CASE \E s \in Sockets : PeerCloses(s) \/ PeerVanishes(s)
  BY <1>5 DEF PeerCloses, PeerVanishes
<1>6. CASE Ping
  BY <1>6 DEF Ping, Clients
<1>7. CASE CloseServer \/ ServerClosed \/ UNCHANGED vars
  BY <1>7 DEF CloseServer, ServerClosed, vars
<1>8. QED
  BY <1>1, <1>2, <1>3, <1>4, <1>5, <1>6, <1>7 DEF Next

\* The invariant holds in every state of every behaviour.
LEMMA Invariance == Spec => []Inv
<1>1. Inv /\ [Next]_vars => Inv'
  BY TypeStep, SyncStep, DestroyStep, AnswerStep DEF Inv
<1>2. QED
  BY InitInv, <1>1, PTL DEF Spec

-----------------------------------------------------------------------------
(* The theorems                                                            *)

\* The fields keep their types, and a closed server has no connection.
THEOREM WebSocketTypeOK == Spec => []TypeOK
  BY Invariance, PTL DEF Inv

\* In synchronous mode the controller of every connection that has closed has
\* been destroyed, whoever closed it and however many there are.
THEOREM WebSocketSyncDestroys == Spec => []SyncDestroysOnceClosed
  BY Invariance, PTL DEF Inv

\* The heartbeat ends a connection only if its peer is gone, it has no
\* controller, or the last answer came before its listener.
THEOREM WebSocketOnlyStale == Spec => OnlyStaleTerminated
<1>1. ASSUME Inv, [Next]_vars
      PROVE  [\A s \in Sockets :
                 Ping /\ net[s] = "open" /\ net'[s] = "closing" =>
                     silent[s] \/ missed[s] \/ handler[s] # "attached"]_vars
  BY <1>1 DEF Inv, TypeOK, AnswerComes, Ping, Clients
<1>2. QED
  BY Invariance, <1>1, PTL DEF Spec, OnlyStaleTerminated

-----------------------------------------------------------------------------
(* Messages                                                                *)

\* fate and params have an entry for each message of each socket.
Entries(f) ==
    /\ DOMAIN f = Sockets
    /\ \A s \in Sockets : DOMAIN f[s] = Numbers(s)

\* A message is sent after those before it.
SentInOrder ==
    \A s \in Sockets : \A i, j \in Numbers(s) :
        i < j /\ fate[s][j] # "unsent" => fate[s][i] # "unsent"

\* Only an attached listener hears messages, and it stays attached.
HeardByListener ==
    \A s \in Sockets : \A m \in Numbers(s) :
        fate[s][m] \in Heard => handler[s] = "attached"

\* When a message is lost, all before it have been emitted.
LostAfterEmitted ==
    \A s \in Sockets : \A i, j \in Numbers(s) :
        i < j /\ fate[s][j] = "lost" => fate[s][i] \notin {"unsent", "sent"}

\* In synchronous mode a message is only lost on a socket without controller.
LostWithoutController ==
    sync => \A s \in Sockets : \A m \in Numbers(s) :
                fate[s][m] = "lost" => handler[s] = "failed"

HeardInv ==
    /\ Entries(fate) /\ SentInOrder /\ HeardByListener
    /\ LostAfterEmitted /\ LostWithoutController /\ HeardOnceAttached

ConnectionInv == TypeOK /\ SyncNeverWaits

\* Messages change nothing of the connections: their invariants stay.
LEMMA EventsStepIsConnectionStep == EventsNext => [Next]_vars
  BY DEF EventsNext, ConnectionStep, Send, Deliver, Return

LEMMA ConnectionInvStep ==
  ASSUME ConnectionInv, [EventsNext]_eventVars
  PROVE  ConnectionInv'
<1>1. [Next]_vars
  BY EventsStepIsConnectionStep DEF eventVars, vars
<1>2. QED
  BY <1>1, TypeStep, SyncStep DEF ConnectionInv

\* The listener of a socket, once attached, and the failure to create one stay.
LEMMA HandlerStays ==
  ASSUME TypeOK, Next, NEW s \in Sockets, handler[s] \in {"attached", "failed"}
  PROVE  handler'[s] = handler[s] /\ sync' = sync
<1>1. CASE \E t \in Sockets : Connect(t)
  BY <1>1 DEF Connect, TypeOK
<1>2. CASE \E t \in Sockets : Attach(t) \/ CreationFails(t)
  BY <1>2 DEF Attach, CreationFails, TypeOK
<1>3. CASE UNCHANGED <<sync, handler>>
  BY <1>3
<1>4. QED
  BY <1>1, <1>2, <1>3 DEF Next, Pong, Close, PeerCloses, PeerVanishes,
                           Ping, CloseServer, ServerClosed

\* No step of a connection touches config.useSyncInjector.
LEMMA SyncStays ==
  ASSUME Next
  PROVE  sync' = sync
  BY DEF Next, Connect, Attach, CreationFails, Pong, Close, PeerCloses, PeerVanishes,
         Ping, CloseServer, ServerClosed

-----------------------------------------------------------------------------
(* The steps                                                               *)

LEMMA SendHeardInv ==
  ASSUME ConnectionInv, HeardInv, NEW s \in Sockets, NEW m \in Numbers(s), Send(s, m)
  PROVE  HeardInv'
<1>1. fate[s][m] = "unsent" /\ \A k \in 1 .. m - 1 : fate[s][k] # "unsent"
  BY DEF Send
<1>2. UNCHANGED <<sync, handler>>
  BY DEF Send, vars
<1>3. /\ Entries(fate') /\ fate'[s][m] = "sent"
      /\ \A t \in Sockets : \A k \in Numbers(t) : t # s \/ k # m => fate'[t][k] = fate[t][k]
  <2>1. Entries(fate) /\ fate' = [fate EXCEPT ![s][m] = "sent"]
    BY DEF Send, HeardInv
  <2>2. QED
    BY <2>1 DEF Entries, Numbers
<1>4. \A i \in Numbers(s) : i < m => i \in 1 .. m - 1
  BY MessagesAssumption DEF Numbers
<1>5. SentInOrder'
  BY <1>1, <1>3, <1>4 DEF HeardInv, SentInOrder, Numbers
<1>6. HeardByListener' /\ LostWithoutController'
  BY <1>2, <1>3 DEF HeardInv, HeardByListener, LostWithoutController, Numbers, Heard, Called
<1>7. LostAfterEmitted'
  BY <1>1, <1>3 DEF HeardInv, LostAfterEmitted, SentInOrder, Numbers
<1>8. HeardOnceAttached'
  BY <1>2, <1>3 DEF HeardInv, HeardOnceAttached, Numbers, Heard, Called
<1>9. QED
  BY <1>3, <1>5, <1>6, <1>7, <1>8 DEF HeardInv, Entries, Numbers

LEMMA DeliverHeardInv ==
  ASSUME ConnectionInv, HeardInv, NEW s \in Sockets, NEW m \in Numbers(s), Deliver(s, m)
  PROVE  HeardInv'
<1>1. fate[s][m] = "sent" /\ net[s] \in {"open", "closing"}
      /\ \A k \in 1 .. m - 1 : fate[s][k] # "sent"
  BY DEF Deliver, Emits
<1>2. UNCHANGED <<sync, handler>>
  BY DEF Deliver, vars
<1>3. PICK x \in Heard \cup {"lost"} :
          /\ fate' = [fate EXCEPT ![s][m] = x]
          /\ x = "lost" <=> handler[s] # "attached"
  BY DEF Deliver, Heard, Called
<1>4. /\ Entries(fate') /\ fate'[s][m] = x
      /\ \A t \in Sockets : \A k \in Numbers(t) : t # s \/ k # m => fate'[t][k] = fate[t][k]
  <2>1. Entries(fate)
    BY DEF HeardInv
  <2>2. QED
    BY <1>3, <2>1 DEF Entries, Numbers
<1>5. x \notin {"unsent", "sent"}
  BY DEF Heard, Called
<1>6. \A i \in Numbers(s) : i < m => i \in 1 .. m - 1
  BY MessagesAssumption DEF Numbers
<1>7. SentInOrder'
  BY <1>1, <1>4, <1>5 DEF HeardInv, SentInOrder, Numbers
<1>8. HeardByListener'
  <2>1. x = "lost" => x \notin Heard
    BY DEF Heard, Called
  <2>2. \A t \in Sockets : \A k \in Numbers(t) :
            fate'[t][k] \in Heard => handler[t] = "attached"
    <3> SUFFICES ASSUME NEW t \in Sockets, NEW k \in Numbers(t), fate'[t][k] \in Heard
                 PROVE  handler[t] = "attached"
      OBVIOUS
    <3>1. CASE t = s /\ k = m
      BY <3>1, <2>1, <1>3, <1>4
    <3>2. CASE t # s \/ k # m
      BY <3>2, <1>4 DEF HeardInv, HeardByListener
    <3>3. QED
      BY <3>1, <3>2
  <2>3. QED
    BY <1>2, <2>2 DEF HeardByListener, Numbers
<1>9. \A i \in Numbers(s) : i < m => fate[s][i] \notin {"unsent", "sent"}
  BY <1>1, <1>6 DEF HeardInv, SentInOrder
<1>10. LostAfterEmitted'
  BY <1>1, <1>4, <1>5, <1>9 DEF HeardInv, LostAfterEmitted, Numbers
<1>11. sync /\ x = "lost" => handler[s] = "failed"
  BY <1>1, <1>3 DEF ConnectionInv, TypeOK, SyncNeverWaits
<1>12. LostWithoutController'
  BY <1>2, <1>4, <1>11 DEF HeardInv, LostWithoutController, Numbers
<1>13. \A i, j \in Numbers(s) : i < j /\ fate'[s][i] \in Heard => fate'[s][j] # "lost"
  <2> SUFFICES ASSUME NEW i \in Numbers(s), NEW j \in Numbers(s), i < j,
                      fate'[s][i] \in Heard, fate'[s][j] = "lost"
               PROVE  FALSE
    OBVIOUS
  <2>1. i # j
    BY DEF Numbers
  <2>2. CASE j = m
    <3>1. handler[s] # "attached" /\ fate[s][i] \in Heard
      BY <2>1, <2>2, <1>3, <1>4
    <3>2. QED
      BY <3>1 DEF HeardInv, HeardByListener
  <2>3. CASE i = m
    <3>1. fate[s][j] = "lost" /\ fate[s][i] = "sent"
      BY <2>1, <2>3, <1>1, <1>4
    <3>2. QED
      BY <3>1 DEF HeardInv, LostAfterEmitted
  <2>4. CASE i # m /\ j # m
    BY <2>4, <1>4 DEF HeardInv, HeardOnceAttached
  <2>5. QED
    BY <2>2, <2>3, <2>4
<1>14. HeardOnceAttached'
  BY <1>2, <1>3, <1>4, <1>13 DEF HeardInv, HeardOnceAttached, Numbers
<1>15. QED
  BY <1>4, <1>7, <1>8, <1>10, <1>12, <1>14 DEF HeardInv, Entries, Numbers

LEMMA ReturnHeardInv ==
  ASSUME ConnectionInv, HeardInv, NEW s \in Sockets, NEW m \in Numbers(s), Return(s, m)
  PROVE  HeardInv'
<1>1. fate[s][m] = "running" /\ fate[s][m] \in Heard
  BY DEF Return, Heard, Called
<1>2. UNCHANGED <<sync, handler>>
  BY DEF Return, vars
<1>3. PICK x \in {"answered", "ended"} : fate' = [fate EXCEPT ![s][m] = x]
  BY DEF Return
<1>4. /\ Entries(fate') /\ fate'[s][m] = x
      /\ \A t \in Sockets : \A k \in Numbers(t) : t # s \/ k # m => fate'[t][k] = fate[t][k]
  <2>1. Entries(fate)
    BY DEF HeardInv
  <2>2. QED
    BY <1>3, <2>1 DEF Entries, Numbers
<1>5. x \in Heard /\ x \notin {"unsent", "sent", "lost"}
  BY DEF Heard, Called
<1>6. \A t \in Sockets : \A k \in Numbers(t) :
          /\ \A f \in {"unsent", "sent", "lost"} : fate'[t][k] = f <=> fate[t][k] = f
          /\ fate'[t][k] \in Heard <=> fate[t][k] \in Heard
  BY <1>1, <1>4, <1>5
<1>7. SentInOrder' /\ HeardByListener' /\ LostAfterEmitted' /\ LostWithoutController'
      /\ HeardOnceAttached'
  BY <1>2, <1>6 DEF HeardInv, SentInOrder, HeardByListener, LostAfterEmitted,
                     LostWithoutController, HeardOnceAttached, Numbers
<1>8. QED
  BY <1>4, <1>7 DEF HeardInv, Entries, Numbers

LEMMA ConnectionHeardInv ==
  ASSUME ConnectionInv, HeardInv, ConnectionStep
  PROVE  HeardInv'
<1>1. Entries(fate')
  BY DEF ConnectionStep, Entries
<1>2. \A s \in Sockets : \A m \in Numbers(s) :
          \/ fate'[s][m] = fate[s][m]
          \/ fate[s][m] = "sent" /\ fate'[s][m] = "undelivered"
  BY DEF ConnectionStep
<1>3. \A s \in Sockets : handler[s] \in {"attached", "failed"} => handler'[s] = handler[s]
  BY HandlerStays DEF ConnectionStep, ConnectionInv
<1>4. sync' = sync
  BY SyncStays DEF ConnectionStep
<1>5. SentInOrder' /\ LostAfterEmitted'
  BY <1>2 DEF HeardInv, SentInOrder, LostAfterEmitted, Numbers
<1>6. \A s \in Sockets : \A m \in Numbers(s) :
          /\ fate'[s][m] = "lost" => fate[s][m] = "lost"
          /\ fate'[s][m] \in Heard => fate[s][m] \in Heard
  BY <1>2 DEF Heard, Called
<1>7. HeardByListener' /\ LostWithoutController'
  BY <1>3, <1>4, <1>6 DEF HeardInv, HeardByListener, LostWithoutController, Numbers
<1>8. HeardOnceAttached'
  <2>1. \A s \in Sockets : \A i, j \in Numbers(s) :
            i < j /\ fate'[s][i] \in Heard => fate'[s][j] # "lost"
    BY <1>6 DEF HeardInv, HeardOnceAttached
  <2>2. ASSUME NEW s \in Sockets, sync', handler'[s] = "attached",
               NEW m \in Numbers(s), fate'[s][m] = "lost"
        PROVE  FALSE
    BY <2>2, <1>3, <1>4, <1>6 DEF HeardInv, LostWithoutController
  <2>3. QED
    BY <2>1, <2>2 DEF HeardOnceAttached, Numbers
<1>9. QED
  BY <1>1, <1>5, <1>7, <1>8 DEF HeardInv, Entries, Numbers

LEMMA EventsInvariance == EventsSpec => [](ConnectionInv /\ HeardInv)
<1>1. EventsInit => ConnectionInv /\ HeardInv
  <2>1. EventsInit => ConnectionInv
    BY InitInv DEF EventsInit, Inv, ConnectionInv
  <2>2. ASSUME EventsInit
        PROVE  HeardInv
    <3>1. Entries(fate) /\ \A s \in Sockets : \A m \in Numbers(s) : fate[s][m] = "unsent"
      BY <2>2 DEF EventsInit, EachMessage, Entries
    <3>2. QED
      BY <3>1 DEF HeardInv, SentInOrder, HeardByListener, LostAfterEmitted,
                  LostWithoutController, HeardOnceAttached, Heard, Called
  <2>3. QED
    BY <2>1, <2>2
<1>2. ASSUME ConnectionInv, HeardInv, [EventsNext]_eventVars
      PROVE  HeardInv'
  <2>1. CASE UNCHANGED eventVars
    BY <1>2, <2>1 DEF eventVars, vars, messages, HeardInv, Entries, SentInOrder, HeardByListener,
           LostAfterEmitted, LostWithoutController, HeardOnceAttached, Numbers
  <2>2. QED
    BY <1>2, <2>1, SendHeardInv, DeliverHeardInv, ReturnHeardInv, ConnectionHeardInv
       DEF EventsNext
<1>3. QED
  BY <1>1, <1>2, ConnectionInvStep, PTL DEF EventsSpec

-----------------------------------------------------------------------------
(* What methods are called with                                            *)

ArgumentsInv ==
    /\ Entries(fate) /\ Entries(content) /\ Entries(params) /\ signature \in Signatures
    /\ \A s \in Sockets : \A m \in Numbers(s) :
           /\ fate[s][m] \in {"unsent", "sent", "lost", "undelivered"} \cup Heard
           /\ fate[s][m] # "unsent" => content[s][m] \in Contents
           /\ fate[s][m] \in Called => params[s][m] = HandlerParams(content[s][m])

\* find gives the place of an argument of the type, and fails if there is none.
LEMMA FindFits ==
  ASSUME NEW args \in Contents, NEW type
  PROVE  \/ Find(args, type) = <<>> /\ \A i \in DOMAIN args : args[i] # type
         \/ \E i \in DOMAIN args : args[i] = type /\ Find(args, type) = <<i>>
<1> DEFINE found == {i \in DOMAIN args : args[i] = type}
<1>1. found \in SUBSET Nat
  BY MessagesAssumption
<1>2. CASE found = {}
  BY <1>2 DEF Find
<1>3. CASE found # {}
  <2>1. \E x \in found : \A y \in found : x <= y
    <3>1. PICK x \in found : \A y \in found : <<y, x>> \notin OpToRel(<, Nat)
      BY <1>1, <1>3, NatLessThanWellFounded, WFMin
    <3>2. \A y \in found : ~ y < x
      BY <1>1, <3>1 DEF OpToRel
    <3>3. QED
      BY <1>1, <3>2
  <2>2. Min(found) \in found
    BY <2>1 DEF Min
  <2>3. Find(args, type) = <<Min(found)>>
    BY <1>3 DEF Find
  <2>4. QED
    BY <2>2, <2>3
<1>4. QED
  BY <1>2, <1>3

\* The three steps of a message keep the invariant.
LEMMA SendArguments ==
  ASSUME ArgumentsInv, NEW s \in Sockets, NEW m \in Numbers(s), Send(s, m)
  PROVE  ArgumentsInv'
<1>1. PICK args \in Contents : content' = [content EXCEPT ![s][m] = args]
  BY DEF Send
<1>2. fate' = [fate EXCEPT ![s][m] = "sent"] /\ UNCHANGED <<signature, params>>
  BY DEF Send
<1>3. Entries(fate') /\ Entries(content')
  BY <1>1, <1>2 DEF ArgumentsInv, Entries, Numbers
<1>4. /\ fate'[s][m] = "sent" /\ content'[s][m] = args
      /\ \A t \in Sockets : \A k \in Numbers(t) :
             t # s \/ k # m => fate'[t][k] = fate[t][k] /\ content'[t][k] = content[t][k]
  BY <1>1, <1>2 DEF ArgumentsInv, Entries, Numbers
<1>5. ASSUME NEW t \in Sockets, NEW k \in Numbers(t)
      PROVE  /\ fate'[t][k] \in {"unsent", "sent", "lost", "undelivered"} \cup Heard
             /\ fate'[t][k] # "unsent" => content'[t][k] \in Contents
             /\ fate'[t][k] \in Called => params'[t][k] = HandlerParams(content'[t][k])
  <2>1. CASE t = s /\ k = m
    BY <2>1, <1>4 DEF Called
  <2>2. CASE t # s \/ k # m
    BY <2>2, <1>2, <1>4 DEF ArgumentsInv
  <2>3. QED
    BY <2>1, <2>2
<1>6. QED
  BY <1>2, <1>3, <1>5 DEF ArgumentsInv, Entries, Numbers, HandlerParams

LEMMA DeliverArguments ==
  ASSUME ArgumentsInv, NEW s \in Sockets, NEW m \in Numbers(s), Deliver(s, m)
  PROVE  ArgumentsInv'
<1>1. fate[s][m] = "sent" /\ UNCHANGED <<signature, content>>
  BY DEF Deliver, Emits
<1>2. PICK x \in {"lost", "unresolved", "running"} :
          /\ fate' = [fate EXCEPT ![s][m] = x]
          /\ \/ x # "running" /\ params' = params
             \/ params' = [params EXCEPT ![s][m] = HandlerParams(content[s][m])]
  BY DEF Deliver
<1>3. /\ Entries(fate') /\ fate'[s][m] = x
      /\ \A t \in Sockets : \A k \in Numbers(t) : t # s \/ k # m => fate'[t][k] = fate[t][k]
  BY <1>2 DEF ArgumentsInv, Entries, Numbers
<1>4. /\ Entries(params')
      /\ x = "running" => params'[s][m] = HandlerParams(content[s][m])
      /\ \A t \in Sockets : \A k \in Numbers(t) :
             t # s \/ k # m => params'[t][k] = params[t][k]
  <2>1. CASE x # "running" /\ params' = params
    BY <2>1 DEF ArgumentsInv, Entries, Numbers
  <2>2. CASE params' = [params EXCEPT ![s][m] = HandlerParams(content[s][m])]
    BY <2>2 DEF ArgumentsInv, Entries, Numbers
  <2>3. QED
    BY <1>2, <2>1, <2>2
<1>5. ASSUME NEW t \in Sockets, NEW k \in Numbers(t)
      PROVE  /\ fate'[t][k] \in {"unsent", "sent", "lost", "undelivered"} \cup Heard
             /\ fate'[t][k] # "unsent" => content[t][k] \in Contents
             /\ fate'[t][k] \in Called => params'[t][k] = HandlerParams(content[t][k])
  <2>1. CASE t = s /\ k = m
    BY <2>1, <1>1, <1>3, <1>4 DEF ArgumentsInv, Called, Heard
  <2>2. CASE t # s \/ k # m
    BY <2>2, <1>3, <1>4 DEF ArgumentsInv
  <2>3. QED
    BY <2>1, <2>2
<1>6. QED
  BY <1>1, <1>3, <1>4, <1>5 DEF ArgumentsInv, Entries, Numbers, HandlerParams

LEMMA ReturnArguments ==
  ASSUME ArgumentsInv, NEW s \in Sockets, NEW m \in Numbers(s), Return(s, m)
  PROVE  ArgumentsInv'
<1>1. fate[s][m] = "running" /\ UNCHANGED <<signature, content, params>>
  BY DEF Return
<1>2. PICK x \in {"answered", "ended"} : fate' = [fate EXCEPT ![s][m] = x]
  BY DEF Return
<1>3. /\ Entries(fate') /\ fate'[s][m] = x
      /\ \A t \in Sockets : \A k \in Numbers(t) : t # s \/ k # m => fate'[t][k] = fate[t][k]
  BY <1>2 DEF ArgumentsInv, Entries, Numbers
<1>4. ASSUME NEW t \in Sockets, NEW k \in Numbers(t)
      PROVE  /\ fate'[t][k] \in {"unsent", "sent", "lost", "undelivered"} \cup Heard
             /\ fate'[t][k] # "unsent" => content[t][k] \in Contents
             /\ fate'[t][k] \in Called => params[t][k] = HandlerParams(content[t][k])
  <2>1. CASE t = s /\ k = m
    BY <2>1, <1>1, <1>3 DEF ArgumentsInv, Called, Heard
  <2>2. CASE t # s \/ k # m
    BY <2>2, <1>3 DEF ArgumentsInv
  <2>3. QED
    BY <2>1, <2>2
<1>5. QED
  BY <1>1, <1>3, <1>4 DEF ArgumentsInv, Entries, Numbers, HandlerParams

LEMMA ArgumentsInvariance == EventsSpec => []ArgumentsInv
<1>1. ASSUME EventsInit
      PROVE  ArgumentsInv
  <2>1. /\ Entries(fate) /\ Entries(content) /\ Entries(params) /\ signature \in Signatures
        /\ \A s \in Sockets : \A m \in Numbers(s) : fate[s][m] = "unsent"
    BY <1>1 DEF EventsInit, EachMessage, Entries
  <2>2. QED
    BY <2>1 DEF ArgumentsInv, Called
<1>2. ASSUME ArgumentsInv, [EventsNext]_eventVars
      PROVE  ArgumentsInv'
  <2>1. CASE ConnectionStep
    <3>1. UNCHANGED <<signature, content, params>> /\ Entries(fate')
      BY <2>1 DEF ConnectionStep, Entries
    <3>2. \A s \in Sockets : \A m \in Numbers(s) :
              \/ fate'[s][m] = fate[s][m]
              \/ fate[s][m] = "sent" /\ fate'[s][m] = "undelivered"
      BY <2>1 DEF ConnectionStep
    <3>3. QED
      BY <1>2, <3>1, <3>2 DEF ArgumentsInv, Entries, Numbers, HandlerParams, Called
  <2>2. CASE UNCHANGED eventVars
    BY <1>2, <2>2 DEF eventVars, messages, ArgumentsInv, Entries, Numbers, HandlerParams
  <2>3. QED
    BY <1>2, <2>1, <2>2, SendArguments, DeliverArguments, ReturnArguments DEF EventsNext
<1>3. QED
  BY <1>1, <1>2, PTL DEF EventsSpec

\* What the parameters get fits them.
LEMMA HandlerParamsFit ==
  ASSUME ArgumentsInv
  PROVE  ArgumentsFit
<1> SUFFICES ASSUME NEW s \in Sockets, NEW m \in Numbers(s), fate[s][m] \in Called
             PROVE  LET args == content[s][m]
                        held(p) == {params[s][m][p][i] : i \in DOMAIN params[s][m][p]}
                        by(way) == {p \in DOMAIN signature : signature[p].by = way}
                    IN  /\ \A p \in by("arg") :
                               /\ \A i \in held(p) : args[i] = signature[p].type
                               /\ held(p) = {} => \A i \in DOMAIN args : args[i] # signature[p].type
                               /\ \A q \in by("args") : held(p) \subseteq held(q)
                               /\ \A q \in by("arg") :
                                      signature[p] = signature[q] => held(p) = held(q)
                        /\ \A q \in by("args") : params[s][m][q] = Places(args)
  BY DEF ArgumentsFit
<1> DEFINE args == content[s][m]
           held(p) == {params[s][m][p][i] : i \in DOMAIN params[s][m][p]}
           by(way) == {p \in DOMAIN signature : signature[p].by = way}
<1>1. args \in Contents /\ params[s][m] = HandlerParams(args)
  BY DEF ArgumentsInv, Called
<1>2. \A q \in by("args") : params[s][m][q] = Places(args)
  BY <1>1 DEF HandlerParams
<1>3. ASSUME NEW q \in by("args")
      PROVE  held(q) = DOMAIN args
  <2>1. held(q) = {Places(args)[i] : i \in DOMAIN Places(args)}
    BY <1>2
  <2>2. DOMAIN Places(args) = DOMAIN args /\ \A i \in DOMAIN args : Places(args)[i] = i
    BY DEF Places
  <2>3. QED
    BY <2>1, <2>2
<1>4. \A p \in by("arg") : params[s][m][p] = Find(args, signature[p].type)
  BY <1>1 DEF HandlerParams
<1>5. ASSUME NEW p \in by("arg")
      PROVE  \/ held(p) = {} /\ \A i \in DOMAIN args : args[i] # signature[p].type
             \/ \E i \in DOMAIN args : args[i] = signature[p].type /\ held(p) = {i}
  <2>1. CASE params[s][m][p] = <<>> /\ \A i \in DOMAIN args : args[i] # signature[p].type
    BY <2>1
  <2>2. CASE \E i \in DOMAIN args : args[i] = signature[p].type /\ params[s][m][p] = <<i>>
    BY <2>2
  <2>3. QED
    BY <1>1, <1>4, <2>1, <2>2, FindFits
<1>6. \A p, q \in by("arg") : signature[p] = signature[q] => held(p) = held(q)
  BY <1>4
<1>7. ASSUME NEW p \in by("arg")
      PROVE  /\ \A i \in held(p) : args[i] = signature[p].type
             /\ held(p) = {} => \A i \in DOMAIN args : args[i] # signature[p].type
             /\ \A q \in by("args") : held(p) \subseteq held(q)
  <2> HIDE DEF held, args
  <2>1. QED
    BY <1>3, <1>5
<1>8. QED
  BY <1>2, <1>6, <1>7, Zenon

-----------------------------------------------------------------------------
(* The theorems                                                            *)

\* The messages nobody hears came before the listener was attached, and there
\* are none in synchronous mode, for any number of messages and sockets.
THEOREM MessagesHeardOnceAttached == EventsSpec => []HeardOnceAttached
  BY EventsInvariance, PTL DEF HeardInv

\* Messages keep their types, are lost only before the listener is attached, and
\* methods are called with arguments that fit, for every set of signatures.
THEOREM EventsSound == EventsSpec => []EventsAreSound
<1>1. ConnectionInv /\ HeardInv /\ ArgumentsInv => EventsAreSound
  BY HandlerParamsFit DEF ConnectionInv, HeardInv, ArgumentsInv, EventsAreSound, EventsTypeOK
<1>2. QED
  BY <1>1, EventsInvariance, ArgumentsInvariance, PTL

\* Sockets with messages behave like those of WebSocketServer.
THEOREM EventsImplementConnections == EventsSpec => Spec
<1>1. EventsInit => Init
  BY DEF EventsInit
<1>2. [EventsNext]_eventVars => [Next]_vars
  BY EventsStepIsConnectionStep DEF eventVars, vars
<1>3. QED
  BY <1>1, <1>2, PTL DEF EventsSpec, Spec
=============================================================================
