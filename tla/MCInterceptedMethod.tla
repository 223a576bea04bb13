------------------------ MODULE MCInterceptedMethod ------------------------
(***************************************************************************)
(* A class S, two classes below it, and a token that a second class may    *)
(* take; and the class of the unit tests with the decorators they make.    *)
(* Beside them, the metadata package: one of the two runs in a behaviour.  *)
(***************************************************************************)
EXTENDS InterceptorTests, MetadataTests

MCExtends == [S |-> None, A |-> "S", B |-> "S", AService |-> None]

Plain == <<"FLog", "plain">>
Late == <<"Late", "hidden">>
Wait == <<"FLog", "async">>
MCMark == <<"AsyncInterceptor", "plain">>
MCInterceptors ==
    {Late} \cup ({m.dec : m \in UNION {ToSet(t.applied) : t \in Tests}} \ {MCMark})
MCDecorators == MCInterceptors \cup {MCMark}
MCWritten == [d \in MCInterceptors |-> IF d[2] = "then" THEN "async" ELSE d[2]]

Applies(d, a) == [dec |-> d, arg |-> [value |-> a, script |-> <<>>]]
At(i, t) == [index |-> i, token |-> t]
Statement(ms, ts, ps) == [methods |-> ms, types |-> ts, params |-> ps]

\* Decorators and constructor of S, of A with or without a constructor, of B.
MCDeclarations ==
    [S |-> {Statement(<<>>, <<"x", "y">>, <<At(2, "u"), At(1, None)>>),
            Statement(<<Applies(Late, "S")>>, <<"x", "y">>, <<At(2, "u")>>),
            Statement(<<Applies(Plain, "S"), Applies(Plain, "S2")>>, <<"x", "y">>, <<>>)},
     A |-> {Statement(<<Applies(Plain, "A")>>, None, <<>>),
            Statement(<<Applies(Plain, "A")>>, <<"z">>, <<At(1, "v")>>),
            Statement(<<Applies(MCMark, "A"), Applies(Late, "A")>>, <<"z", "y">>, <<At(2, "v")>>),
            Statement(<<>>, <<"z">>, <<>>)},
     B |-> {Statement(<<Applies(Plain, "B")>>, None, <<>>),
            Statement(<<Applies(Wait, "B")>>, None, <<>>)},
     AService |-> {StatementOf(t) : t \in Tests}]

\* Without a test: a provider is its class's own token, or stands for A in the place
\* of S. One call ends a behaviour: it changes nothing that the next one would see, and
\* its interceptors were fixed when the instance was made, so few instances will do.
MCRuns == 2

MCWithoutTest ==
    /\ call.at = "idle" \/ ~Quiet
    /\ WithoutTest
    /\ call.at # "idle" =>
          /\ call'.log = call.log \/ call.turn = 0 \/ Len(call.log) < MCRuns
    /\ call'.at # "idle" => Cardinality({p \in Providers : given[p] # None}) <= 2
    /\ \A p \in Providers : given'[p] # None => p \in {<<"S", "A">>} \cup {<<c, c>> : c \in {"S", "A", "B"}}
    /\ declaration'["AService"] = None

MCMethods == TestNext \/ MCWithoutTest
-----------------------------------------------------------------------------
\* Metadata: a base, a class below it, and one below either.  They decorate the same
\* method once or twice, fields and parameters of the same and of other names, and members
\* that the descriptor is made of.
MCDecoratorType ==
    [Injectable |-> "constructor", Inject |-> "mixed", InjectProperty |-> "property",
     InjectMethod |-> "method", SetHeader |-> "method", Produces |-> "method"]
MCKeys == {<<"metadata">>}

Lists(n, as) == Method(n, [i \in DOMAIN as |-> Uses("Produces", <<as[i]>>)], <<>>, Void)
Holds(n, a) == Field(n, Uses("Inject", <<a>>), "Type")
Takes(i, a) == Param(i, <<a>>)

MCBases ==
    {<<Lists("list", <<"s">>)>>,
     <<Lists("list", <<"s", "s2">>)>>,
     <<Holds("item", "s"), Lists("get", <<"s">>)>>,
     <<Holds("value", "s"), OnClass(<<Uses("Injectable", <<"s">>), Takes(0, "s")>>)>>}

MCClasses(a) ==
    {<<>>,
     <<Lists("list", <<a>>)>>,
     <<Holds("item", a), Lists("list", <<a>>)>>,
     <<Holds("entry", a), Lists("get", <<a>>), Lists("list", <<a>>)>>,
     <<OnClass(<<Takes(0, a), Takes(1, a)>>)>>}

Stated(extends, sites) ==
    LET methods == SelectSeq(sites, LAMBDA s : s.name \in {"get", "list"})
    IN Class(extends, [i \in DOMAIN methods |-> methods[i].name], <<>>, sites)

MCExtra ==
    {[AService |-> Stated(Undefined, a), BService |-> Stated("AService", b), CService |-> Stated(base, c)] :
        a \in MCBases, b \in MCClasses("b"), c \in MCClasses("c"), base \in {"AService", "BService"}}
-----------------------------------------------------------------------------
MCPrograms == Everything \cup {<<>>}

MCInit ==
    /\ TestInit /\ DecoratorInit
    /\ program # <<>> => test = None

MCNext ==
    \/ program = <<>> /\ MCMethods /\ UNCHANGED decoratorVars
    \/ program # <<>> /\ DecoratorNext /\ UNCHANGED testVars

MCSpec == MCInit /\ [][MCNext]_<<testVars, decoratorVars>>
-----------------------------------------------------------------------------
\* In either run: what the calls of the unit tests leave is what they expect, and so is
\* what lookups find of the metadata, which is all that the decorators left.
AsTested == CallsAsTested /\ MetadataIsSound
=============================================================================
