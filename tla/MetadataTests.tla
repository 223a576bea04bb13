--------------------------- MODULE MetadataTests ---------------------------
(* The unit tests of the metadata package: their classes, as programs, and *)
(* what they expect of the lookups.                                        *)
EXTENDS DecoratorMetadata

CONSTANT Extra   \* programs of no test

\* Decorators as they are written, and the design types after them.
Uses(decorator, given) == [decorator |-> decorator, index |-> Undefined, args |-> given]
Param(i, given) == [decorator |-> "Inject", index |-> i, args |-> given]
Emits(key, value) == [key |-> key, value |-> value]
Signature(params, returns) ==
    <<Emits(TS_TYPE, <<"Function">>), Emits(TS_PARAMS, params), Emits(TS_RETURN, returns)>>

Site(on, name, written) == [on |-> on, name |-> name, written |-> written]
OnClass(written) == Site("class", Undefined, written)
Field(name, d, type) == Site("prototype", name, <<d, Emits(TS_TYPE, <<type>>)>>)
Method(name, ds, params, returns) == Site("prototype", name, ds \o Signature(params, returns))

Class(extends, methods, statics, sites) ==
    [extends |-> extends, methods |-> methods, statics |-> statics, sites |-> sites]
Service == Class(Undefined, <<>>, <<>>, <<OnClass(<<Uses("Injectable", <<>>)>>)>>)

\* What decorate records.
Recorded(decorator, type, member, index, given, design) ==
    [args |-> given, decorator |-> decorator, type |-> type, index |-> index, member |-> member,
     design |-> design]
Typed(type) == [k \in {TS_TYPE} |-> <<type>>]
Signed(params, returns) ==
    [k \in Design |-> IF k = TS_TYPE THEN <<"Function">> ELSE IF k = TS_PARAMS THEN params ELSE returns]
OfCompiler(key, member, v) == [args |-> v, key |-> key, member |-> member]
-----------------------------------------------------------------------------
(* One class.                                                              *)

ClassTest(given) == [BService |-> Class(Undefined, <<>>, <<>>, <<OnClass(<<Uses("Injectable", given)>>)>>)]
ClassTests == {ClassTest(<<>>), ClassTest(<<"Custom", "Arguments">>)}

ClassExpected ==
    /\ GetClassMetadata("Injectable", "BService")
          = Recorded("Injectable", "constructor", Undefined, Undefined,
                     program["BService"].sites[1].written[1].args, <<>>)
    /\ HasDecorator(ClassOf("BService"), Undefined, "Injectable", Undefined)

PropertyTest ==
    [AService |-> Service,
     BService |-> Class(Undefined, <<>>, <<>>,
                        <<Field("publicProperty", Uses("InjectProperty", <<"AService">>), "AService")>>)]

PropertyExpected ==
    GetPropertyMetadata("InjectProperty", "BService", "publicProperty")
        = Recorded("InjectProperty", "property", "publicProperty", Undefined, <<"AService">>, Typed("AService"))

Void == <<>>
Three == <<"AService", "AService", "String">>
TwoParameters == <<Param(0, <<>>), Param(1, <<"AService">>)>>

ParameterTest ==
    [AService |-> Service,
     BService |-> Class(Undefined, <<"publicMethod">>, <<>>,
         <<Field("publicProperty", Uses("Inject", <<>>), "AService"),
           Method("publicMethod", TwoParameters, Three, Void),
           OnClass(<<Param(0, <<>>), Emits(TS_PARAMS, <<"AService">>)>>)>>)]

ParameterExpected ==
    /\ GetPropertyMetadata("Inject", "BService", "publicProperty")
          = Recorded("Inject", "property", "publicProperty", Undefined, <<>>, Typed("AService"))
    /\ \A i \in {0, 1} :
          GetParameterMetadata("Inject", "BService", i, "publicMethod")
              = Recorded("Inject", "parameter", "publicMethod", i, TwoParameters[i + 1].args, Signed(Three, Void))

StaticTests ==
    {[AService |-> Service, BService |-> Class(Undefined, <<>>, <<s.name>>, <<s>>)] :
        s \in {Site("class", "staticMethod", TwoParameters \o Signature(Three, Void)),
               Site("class", "staticProperty", <<Uses("Inject", <<>>), Emits(TS_TYPE, <<"AService">>)>>)}}

StaticExpected == executed["BService"] = "threw"

MethodTest ==
    [AService |-> Service,
     BService |-> Class(Undefined, <<"methodDecoratorString", "methodDecorator">>, <<"staticDecorator">>,
         <<Method("methodDecoratorString", <<Uses("InjectMethod", <<>>)>>, <<>>, <<"String">>),
           Method("methodDecorator", <<Uses("InjectMethod", <<1>>), Uses("InjectMethod", <<2>>)>>, <<>>, Void),
           Site("class", "staticDecorator", <<Uses("InjectMethod", <<>>)>> \o Signature(<<>>, Void))>>)]

MethodExpected ==
    LET one(type, n, given, returns) ==
            Recorded("InjectMethod", type, n, Undefined, given, Signed(<<>>, returns))
    IN /\ GetMethodMetadata("InjectMethod", "BService", "methodDecorator", FALSE)
             = <<one("method", "methodDecorator", <<2>>, Void), one("method", "methodDecorator", <<1>>, Void)>>
       /\ GetMethodMetadata("InjectMethod", "BService", "methodDecoratorString", FALSE)
             = <<one("method", "methodDecoratorString", <<>>, <<"String">>)>>
       /\ GetMethodMetadata("InjectMethod", "BService", "staticDecorator", TRUE)
             = <<one("static", "staticDecorator", <<>>, Void)>>
-----------------------------------------------------------------------------
(* A class and its base: both have a constructor, a decorated field and     *)
(* publicMethod; the lists ds are what decorates the method of each.       *)

Pair(dsOfB, dsOfC) ==
    [AService |-> Service, DService |-> Service,
     BService |-> Class(Undefined, <<"publicMethod">>, <<>>,
         <<Field("bServiceProperty", Uses("Inject", <<>>), "AService"),
           Method("publicMethod", dsOfB \o TwoParameters, Three, Void),
           OnClass(<<Uses("Injectable", <<>>), Param(0, <<>>), Emits(TS_PARAMS, <<"AService">>)>>)>>),
     CService |-> Class("BService", <<"publicMethod">>, <<>>,
         <<Field("cServiceProperty", Uses("Inject", <<>>), "AService"),
           Method("publicMethod", dsOfC \o TwoParameters, Three, Void),
           OnClass(<<Uses("Injectable", <<>>), Param(0, <<>>), Param(1, <<>>),
                     Emits(TS_PARAMS, <<"AService", "DService">>)>>)>>)]

SetHeader == <<Uses("SetHeader", <<"content-type", "application/json">>),
               Uses("SetHeader", <<"connection", "closed">>)>>
Produces == Uses("Produces", <<"application/json">>)
ReCheck == Uses("Produces", <<"/nice/">>)

DecoratorTest == Pair(SetHeader, <<>>)
ConstructorTest == Pair(<<Produces>>, <<ReCheck>>)

\* Keys as the tests write them: what is at a member of a target, in order.
KeysAt(target, member, keys) ==
    [i \in DOMAIN keys |-> [member |-> member, target |-> target, key |-> keys[i]]]
Inject(i) == GetDecoratorId("Inject", i)

KeysOfConstructor ==
    KeysAt(ClassOf("CService"), Undefined,
        <<TS_PARAMS, Inject(1), Inject(0), GetDecoratorId("Injectable", Undefined)>>)
KeysOfMethod(last) ==
    KeysAt(PrototypeOf("CService"), "publicMethod",
        <<TS_RETURN, TS_PARAMS, TS_TYPE, Inject(1), Inject(0), GetDecoratorId(last, Undefined)>>)
KeysOfField(c, n) == KeysAt(PrototypeOf(c), n, <<TS_TYPE, Inject(Undefined)>>)

\* The metadata there.
OfConstructor ==
    LET params == [k \in {TS_PARAMS} |-> <<"AService", "DService">>]
    IN <<OfCompiler(TS_PARAMS, Undefined, <<"AService", "DService">>),
         Recorded("Inject", "parameter", Undefined, 1, <<>>, params),
         Recorded("Inject", "parameter", Undefined, 0, <<>>, params),
         Recorded("Injectable", "constructor", Undefined, Undefined, <<>>, params)>>
OfMethod(ds) ==
    <<OfCompiler(TS_RETURN, "publicMethod", Void), OfCompiler(TS_PARAMS, "publicMethod", Three),
      OfCompiler(TS_TYPE, "publicMethod", <<"Function">>)>>
    \o [i \in 1 .. 2 |-> Recorded("Inject", "parameter", "publicMethod", 2 - i,
                                  TwoParameters[3 - i].args, Signed(Three, Void))]
    \o [i \in DOMAIN ds |-> Recorded(ds[i].decorator, "method", "publicMethod", Undefined,
                                     ds[i].args, Signed(Three, Void))]
OfField(n) ==
    <<OfCompiler(TS_TYPE, n, <<"AService">>),
      Recorded("Inject", "property", n, Undefined, <<>>, Typed("AService"))>>

DecoratorExpected ==
    /\ GetAllMetadataKeysForTarget["CService"]
          = KeysOfConstructor \o KeysOfMethod("SetHeader")
            \o KeysOfField("CService", "cServiceProperty") \o KeysOfField("BService", "bServiceProperty")
    /\ GetAllMetadataForTarget("CService")
          = OfConstructor \o OfMethod(Reverse(SetHeader)) \o OfField("cServiceProperty") \o OfField("bServiceProperty")

ConstructorExpected ==
    /\ GetMetadataKeysForTarget(ClassOf("CService"), Undefined) = KeysOfConstructor
    /\ GetMetadataForTarget("CService", Undefined) = OfConstructor

MethodOfClassExpected ==
    /\ GetMetadataKeysForTarget(ClassOf("CService"), "publicMethod") = KeysOfMethod("Produces")
    /\ GetMetadataForTarget("CService", "publicMethod") = OfMethod(<<Produces, ReCheck>>)
-----------------------------------------------------------------------------
(* Keys of the program's own, and the decorators behind all of them.       *)

CustomTest == [AService |-> Class(Undefined, <<>>, <<>>, <<>>)]

CustomExpected ==
    \A k \in CustomKeys :
        LET o == ClassOf("AService") at == <<Undefined, k>>
        IN HasMetadata(heap, o, at) =>
              /\ Own(heap, o, at) /\ GetMetadata(heap, o, at).data = k
              /\ k \in ToSet(OwnKeys(heap, o, Undefined))
              /\ ~HasMetadata(Without(heap, o, at), o, at)
              /\ ~HasMetadata(heap, Undefined, at) /\ ~Own(heap, Undefined, at)

InfoTest ==
    [AService |-> Class(Undefined, <<"asset">>, <<>>,
         <<Field("info", Uses("InjectProperty", <<>>), "String"),
           Method("asset", <<Uses("InjectMethod", <<>>)>>, <<>>, Void),
           OnClass(<<Uses("Injectable", <<>>), Emits(TS_PARAMS, <<"String">>)>>)>>)]

InfoExpected ==
    /\ GetDecoratorType("AService") = "throws" /\ ~HasDecorator(ClassOf("AService"), Undefined, "AService", Undefined)
    /\ ~Validates("InjectProperty", "method") /\ ~Validates("InjectMethod", "constructor")
    /\ ~Validates("Injectable", "parameter") /\ Validates("InjectMethod", "method")

Everything ==
    ClassTests \cup StaticTests \cup Extra \cup
    {PropertyTest, ParameterTest, MethodTest, DecoratorTest, ConstructorTest, CustomTest, InfoTest}

\* Whatever order the classes are declared in, the lookups give what the unit tests
\* expect, keys and metadata in their order.
LookupsAsTested ==
    ((\A c \in DOMAIN program : executed[c] # "no")
       /\ \A o \in Objects : \A e \in ToSet(heap.store[o]) : e.at[2] \notin CustomKeys)
    => /\ program \in ClassTests => ClassExpected
       /\ program = PropertyTest => PropertyExpected
       /\ program = ParameterTest => ParameterExpected
       /\ program \in StaticTests => StaticExpected
       /\ program = MethodTest => MethodExpected
       /\ program = DecoratorTest => DecoratorExpected
       /\ program = ConstructorTest => ConstructorExpected /\ MethodOfClassExpected
       /\ program = InfoTest => InfoExpected

\* What decorators leave is what the lookups find and the unit tests expect, and the
\* methods they decorate remain.
MetadataIsSound ==
    /\ MetadataIsFound /\ MethodsSurvive /\ LookupsAsTested
    /\ program = CustomTest => CustomExpected
=============================================================================
