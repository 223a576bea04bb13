-------------------------- MODULE MCSocketIoServer --------------------------
(***************************************************************************)
(* Two clients: one may join both namespaces and polls, the other only the *)
(* main namespace, over a web socket. A controller that subscribes to the  *)
(* main namespace alone does what one that subscribes to both does when no *)
(* client joins the other.                                                 *)
(***************************************************************************)
EXTENDS SocketIoServer

CONSTANTS c1, c2

MCWants == [c \in {c1, c2} |-> IF c = c1 THEN Namespaces ELSE {"main"}]

MCTransport == [c \in {c1, c2} |-> IF c = c1 THEN "polling" ELSE "websocket"]

MCSubscribed == {{"main", "chat"}, {"chat"}}
=============================================================================
