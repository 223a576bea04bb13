---------------------------- MODULE SocketEvents ----------------------------
(***************************************************************************)
(* The messages of @typeix/resty-ws, on top of the connections of          *)
(* WebSocketServer: what becomes of a message that a peer sends, from the  *)
(* event of the socket by way of getSocketHandlerParams to the method of   *)
(* the controller and its answer.  Calls of one controller overlap: the    *)
(* listener does not wait for the call before.  The process survives an    *)
(* unhandled rejection.  A message is the list of the constructors of the  *)
(* arguments the event has.                                                *)
(***************************************************************************)
EXTENDS WebSocketServer, FiniteSetsExt

CONSTANTS
    MaxMessages,    \* how many messages the peer of each socket sends at most
    Contents,       \* the messages: sequences of constructors
    Signatures      \* of the subscribed method: sequences of [by, type]

ASSUME MessagesAssumption ==
    /\ MaxMessages \in [Sockets -> Nat]
    /\ \A args \in Contents : DOMAIN args \subseteq Nat

VARIABLES
    signature,      \* the parameters of the subscribed method
    fate,           \* fate[s][m]: what has become of the m-th message of s
    content,        \* content[s][m]: its arguments
    params          \* params[s][m]: what the method is called with

messages == <<signature, fate, content, params>>
eventVars == <<vars, messages>>

Numbers(s) == 1 .. MaxMessages[s]
EachMessage(x) == [s \in Sockets |-> [m \in Numbers(s) |-> x]]

\* The method was called: it runs, or has returned by now.
Called == {"running", "answered", "ended"}

\* The listener of the event was there.
Heard == Called \cup {"unresolved"}

EventsTypeOK ==
    /\ TypeOK /\ signature \in Signatures
    /\ \A s \in Sockets : \A m \in Numbers(s) :
           /\ fate[s][m] \in {"unsent", "sent", "lost", "undelivered"} \cup Heard
           /\ fate[s][m] # "unsent" => content[s][m] \in Contents

EventsInit ==
    /\ Init
    /\ signature \in Signatures
    /\ fate = EachMessage("unsent")
    /\ content = EachMessage(<<>>) /\ params = EachMessage(<<>>)

-----------------------------------------------------------------------------
(* getSocketHandlerParams: the arguments of the event that each parameter  *)
(* gets, by their places.  An injected parameter gets none, and one that   *)
(* has no decorator keeps its constructor.                                 *)

\* args.find(i => i.constructor === paramType)
Find(args, type) ==
    LET found == {i \in DOMAIN args : args[i] = type}
    IN  IF found = {} THEN <<>> ELSE <<Min(found)>>

Places(args) == [i \in DOMAIN args |-> i]

\* Mutant: an @Arg gets the argument in its own place, whatever its type.
HandlerParamsByPlace(args) ==
    [p \in DOMAIN signature |->
        CASE signature[p].by = "args" -> Places(args)
          [] signature[p].by = "arg" -> IF p \in DOMAIN args THEN <<p>> ELSE <<>>
          [] OTHER -> <<>>]

HandlerParams(args) ==
    [p \in DOMAIN signature |->
        CASE signature[p].by = "args" -> Places(args)
          [] signature[p].by = "arg" -> Find(args, signature[p].type)
          [] OTHER -> <<>>]

\* injector.get throws for a token that no injector of the socket provides.
Resolves == \A p \in DOMAIN signature : signature[p] # [by |-> "inject", type |-> "unknown"]

-----------------------------------------------------------------------------
(* The listener of the event                                               *)

\* The peer sends its next message.
Send(s, m) ==
    /\ net[s] = "open" /\ ~silent[s]
    /\ fate[s][m] = "unsent" /\ \A k \in 1 .. m - 1 : fate[s][k] # "unsent"
    /\ fate' = [fate EXCEPT ![s][m] = "sent"]
    /\ \E args \in Contents : content' = [content EXCEPT ![s][m] = args]
    /\ UNCHANGED <<vars, signature, params>>

\* A socket that is not closed emits its messages in order.
Emits(s, m) ==
    /\ net[s] \in {"open", "closing"}
    /\ fate[s][m] = "sent" /\ \A k \in 1 .. m - 1 : fate[s][k] # "sent"

\* Mutant: a message that comes while a call is running is not heard.
DeliverWhenIdle(s, m) ==
    /\ Emits(s, m)
    /\ IF handler[s] # "attached" \/ \E k \in Numbers(s) : fate[s][k] = "running"
       THEN fate' = [fate EXCEPT ![s][m] = "lost"] /\ UNCHANGED params
       ELSE /\ fate' = [fate EXCEPT ![s][m] = IF Resolves THEN "running" ELSE "unresolved"]
            /\ params' = [params EXCEPT ![s][m] = HandlerParams(content[s][m])]
    /\ UNCHANGED <<vars, signature, content>>

\* Without the listener nobody hears the message; with it the method is called.
Deliver(s, m) ==
    /\ Emits(s, m)
    /\ IF handler[s] # "attached"
       THEN fate' = [fate EXCEPT ![s][m] = "lost"] /\ UNCHANGED params
       ELSE IF Resolves
       THEN /\ fate' = [fate EXCEPT ![s][m] = "running"]
            /\ params' = [params EXCEPT ![s][m] = HandlerParams(content[s][m])]
       ELSE fate' = [fate EXCEPT ![s][m] = "unresolved"] /\ UNCHANGED params
    /\ UNCHANGED <<vars, signature, content>>

\* The call returns.  A buffer or an object is sent, which a socket that is not
\* open any more ignores; of another result, or a rejection, the peer hears nothing.
Return(s, m) ==
    /\ fate[s][m] = "running"
    /\ \E f \in {"answered", "ended"} :
           /\ f = "answered" => net[s] = "open"
           /\ fate' = [fate EXCEPT ![s][m] = f]
    /\ UNCHANGED <<vars, signature, content, params>>

\* A step of the connections; what a socket has not emitted is gone with it.
ConnectionStep ==
    /\ Next
    /\ fate' = [s \in Sockets |-> [m \in Numbers(s) |->
                  IF fate[s][m] = "sent" /\ net'[s] = "closed" THEN "undelivered" ELSE fate[s][m]]]
    /\ UNCHANGED <<signature, content, params>>

EventsNext ==
    \/ ConnectionStep
    \/ \E s \in Sockets : \E m \in Numbers(s) : Send(s, m) \/ Deliver(s, m) \/ Return(s, m)

EventsSpec == EventsInit /\ [][EventsNext]_eventVars /\ Fairness

-----------------------------------------------------------------------------
(* Properties                                                              *)

\* No message is lost between two that are heard: those that nobody hears came
\* before the controller was there ("for (const event of events) socket.on",
\* after the await), however calls, answers, the heartbeat and the close of the
\* socket interleave.  With the synchronous injector none is lost at all.
HeardOnceAttached ==
    \A s \in Sockets :
        /\ \A i, j \in Numbers(s) : i < j /\ fate[s][i] \in Heard => fate[s][j] # "lost"
        /\ sync /\ handler[s] = "attached" => \A m \in Numbers(s) : fate[s][m] # "lost"

\* "expect(args).toEqual([buffer, isBinary])" (the resty-ws tests), in whatever
\* order the parameters and the arguments come: what the @Arg parameters hold
\* is among what @Args holds, has the type of its parameter, is missing only
\* if the message has none, and is the same for two parameters of a type.
ArgumentsFit ==
    \A s \in Sockets : \A m \in {n \in Numbers(s) : fate[s][n] \in Called} :
        LET args == content[s][m]
            held(p) == {params[s][m][p][i] : i \in DOMAIN params[s][m][p]}
            by(way) == {p \in DOMAIN signature : signature[p].by = way}
        IN  /\ \A p \in by("arg") :
                   /\ \A i \in held(p) : args[i] = signature[p].type
                   /\ held(p) = {} => \A i \in DOMAIN args : args[i] # signature[p].type
                   /\ \A q \in by("args") : held(p) \subseteq held(q)
                   /\ \A q \in by("arg") : signature[p] = signature[q] => held(p) = held(q)
            /\ \A q \in by("args") : params[s][m][q] = Places(args)

\* What messages are called with, and which are called for at all.
EventsAreSound == EventsTypeOK /\ HeardOnceAttached /\ ArgumentsFit
=============================================================================
