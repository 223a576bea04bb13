--------------------------- MODULE MCSocketEvents ---------------------------
(***************************************************************************)
(* Two sockets; the peer of one sends two messages at most.  They come as  *)
(* a Buffer or, with another binaryType, as an ArrayBuffer.  The method    *)
(* has its parameters in another order and two of one type, or one that    *)
(* no injector can provide.                                                *)
(***************************************************************************)
EXTENDS SocketEvents, TLC

CONSTANTS s1, s2

MCMaxMessages == (s1 :> 2) @@ (s2 :> 0)

MCContents == {<<"Buffer", "Boolean">>, <<"ArrayBuffer", "Boolean">>}

Arg(type) == [by |-> "arg", type |-> type]

MCSignatures == {
    <<Arg("Boolean"), [by |-> "args", type |-> "Array"], Arg("Buffer"), Arg("Boolean")>>,
    <<[by |-> "args", type |-> "Array"], [by |-> "inject", type |-> "unknown"]>>}
=============================================================================
