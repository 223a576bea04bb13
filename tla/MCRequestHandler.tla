-------------------------- MODULE MCRequestHandler --------------------------
(***************************************************************************)
(* Every table of up to three routes; what a route that never runs has for *)
(* parameters and owner makes no difference.                               *)
(***************************************************************************)
EXTENDS RequestHandler

MCTables ==
    {t \in UNION {[1..n -> Routes] : n \in 0..3} :
        \A m \in DOMAIN t : t[m].kind \in {"other"} \cup Broken => t[m].params = {} /\ t[m].owner = "a"}
=============================================================================
