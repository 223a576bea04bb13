------------------------------ MODULE MCStartup ------------------------------
(* Patterns with every kind of part, alone and behind a prefix, and tables   *)
(* of up to two routes of the controllers behind one of the application.     *)
(* Servers are interchangeable.                                              *)
EXTENDS Startup

Words == {"a", "b"}
AWord == SeqOf(Words, 1) \ {<<>>}
SomeWords == SeqOf(Words, 3) \ {<<>>}

Literal(texts, groups) ==
    [kind |-> "text", texts |-> texts, groups |-> groups, whole |-> groups > 0]
Variable(name, texts, groups, whole) ==
    [kind |-> "variable", name |-> name, texts |-> texts, groups |-> groups, whole |-> whole]

TextA == Literal({<<"a">>}, 0)
TextB == Literal({<<"b">>}, 0)
AOrB == Literal(AWord, 1)                            \* (a|b)
Rest == Literal(SomeWords, 1)                        \* (.+)
Anything == Literal(SomeWords \cup {<<>>}, 1)        \* (.*)
One == Variable("id", AWord, 1, TRUE)                \* <id:(\w+)>
Nested == Variable("slug", AWord, 2, TRUE)           \* <slug:((\w)\w*)>
Several == Variable("slug", AWord, 2, FALSE)         \* <slug:(\w)(\w*)>
Ungrouped == Variable("slug", AWord, 0, FALSE)       \* <slug:(?:\w+)>
Many == Variable("any", SomeWords, 1, TRUE)          \* <any>
Star == [kind |-> "star", groups |-> 0]
Bad == [kind |-> "bad", groups |-> 0]

Def(controller, verb, prefix, path) ==
    [controller |-> controller, verb |-> verb, prefix |-> prefix, path |-> path]

Definitions ==
    {Def("rest", "get", prefix, path) :
        prefix \in {<<>>, <<TextA>>},
        path \in {<<>>, <<TextB>>, <<One>>, <<Star>>, <<Rest>>, <<Many, One>>, <<Nested, Many>>,
                  <<Several, Many>>, <<Ungrouped, Many>>, <<AOrB, One>>, <<One, AOrB>>,
                  <<One, TextB, One>>}}
    \cup {Def("rest", "error", <<>>, <<Star>>), Def("rest", "error", <<TextA>>, <<Many>>),
          Def("rest", "error", <<>>, <<Anything>>),
          Def("rest", "get", <<>>, <<Bad>>), Def("socket", "get", <<>>, <<Many>>)}

\* What may stand before or behind each other.
Neighbours ==
    {Def("rest", "get", <<>>, <<TextA>>), Def("rest", "get", <<>>, <<Many>>),
     Def("rest", "get", <<TextA>>, <<One>>), Def("rest", "error", <<TextA>>, <<Many>>),
     Def("rest", "get", <<>>, <<Bad>>), Def("socket", "get", <<>>, <<Many>>)}

DeclarationsDef == {<<def>> : def \in Definitions} \cup SeqOf(Neighbours, 2)
OwnRoutesDef ==
    {<<>>, <<[pattern |-> [rooted |-> FALSE, parts |-> <<Star>>], verb |-> "error"]>>}
PathsDef == {<<>>, <<"a">>, <<"a", "b">>, <<"a", "a", "b">>, <<"b", "a">>}

Symmetry == Permutations(Servers)
=============================================================================
