-------------------------- MODULE InterceptorTests --------------------------
(***************************************************************************)
(* The unit tests of method interceptors: each fixes how invoke of the     *)
(* interceptors is written, as a script of what it does, and               *)
(* InterceptedMethod runs them.  The tests of the synchronous injector     *)
(* are the same, and three more that look at the arguments.                *)
(***************************************************************************)
EXTENDS InterceptedMethod

VARIABLES test,     \* the test, None for interceptors that do as they like
          pos,      \* how far the script of each interceptor has come
          args,     \* the arguments for the method
          content,  \* what the executor's result stands for, <<>> before there is one
          journal   \* what the interceptors have logged

testVars == <<interceptVars, test, pos, args, content, journal>>

\* A decorator made by createMethodInterceptor(name, Class, {value}), applied.
Intercepted(name, written, value, script) ==
    [dec |-> <<name, written>>, arg |-> [value |-> value, script |-> script]]

\* invoke of LoggerInterceptor and of TransformInterceptor, awaiting the result
\* or not; .then shows the promise as async does.
Log(name, written) ==
    Intercepted(name, written, name,
             IF written = "plain" THEN <<"invoke", "log">> ELSE <<"invoke", "await", "log">>)
LogOnly(name, written) == Intercepted(name, written, name, <<"log">>)
Transforms(name, written, value) ==
    Intercepted(name, written, value,
             IF written = "plain" THEN <<"invoke", "transform">> ELSE <<"invoke", "await", "transform">>)
TransformsOne ==
    Intercepted("Transform", "async", "SECOND", <<"invokeWithArgs", "await", "transform">>)

Mark == [dec |-> AsyncMark, arg |-> None]

\* applied: the decorators, the one nearest to the method first, which are executed
\* in that order; given: the arguments; answer and logged: what is expected.
Test(applied, returns, arguments, answer, logged) ==
    [applied |-> applied, returns |-> returns, args |-> arguments, answer |-> answer, logged |-> logged]

Entry(name, result) == [value |-> name, result |-> result]
Both(result) == <<Entry("DataLog", result), Entry("FLog", result)>>
Uuid == <<"uuid">>
Transformed == <<"SECOND", "FIRST", "uuid">>

LogTest == Test(<<Log("DataLog", "plain"), Log("FLog", "plain")>>, "value", Uuid, Uuid, Both(Uuid))

TransformTest ==
    Test(<<Transforms("Transform", "plain", "tUID"), Log("DataLog", "plain"), Log("FLog", "plain")>>,
         "value", Uuid, <<"tUID", "uuid">>, Both(<<"tUID", "uuid">>))

AutoInvokeTest ==
    Test(<<LogOnly("DataLog", "plain"), LogOnly("FLog", "plain")>>, "value", Uuid, Uuid, Both(<<>>))

AsyncTransform(written) ==
    Test(<<Transforms("Transform2", written, "FIRST"), Transforms("Transform", written, "SECOND"),
           Log("DataLog", written), Log("FLog", written)>>,
         "promise", Uuid, Transformed, Both(Transformed))

AsyncTransformTest == AsyncTransform("async")
TransformWithPromiseTest == AsyncTransform("then")

AsyncInvoke(written) ==
    Test(<<Log("DataLog", written), Log("FLog", written)>>, "promise", Uuid, Uuid, Both(Uuid))

AsyncInvokeTest == AsyncInvoke("async")
InvokePromiseTest == AsyncInvoke("then")

AsyncDecoratorTest ==
    Test(<<Mark, Log("DataLog", "then"), Log("FLog", "then")>>, "promise", Uuid, Uuid, Both(Uuid))

AsyncAutoInvokeTest ==
    Test(<<LogOnly("DataLog", "async"), LogOnly("FLog", "async")>>, "promise", Uuid, Uuid, Both(<<>>))

ArgsTest ==
    Test(<<Transforms("Transform", "async", "SECOND")>>,
         "promise", <<"test-value">>, <<"SECOND", "test-value">>, <<>>)

ArgsOverrideTest ==
    Test(<<TransformsOne>>, "promise", <<"test-value">>, <<"SECOND", "one">>, <<>>)

SyncMethodTests == {LogTest, TransformTest, AutoInvokeTest}
AsyncMethodTests == {AsyncTransformTest, TransformWithPromiseTest, AsyncInvokeTest,
                     AsyncDecoratorTest, InvokePromiseTest, AsyncAutoInvokeTest}
Tests == SyncMethodTests \cup AsyncMethodTests \cup {ArgsTest, ArgsOverrideTest}

StatementOf(t) == [methods |-> t.applied, types |-> <<>>, params |-> <<>>]
-----------------------------------------------------------------------------
TestInit ==
    /\ InterceptInit
    /\ test \in Tests \cup {None}
    /\ pos = <<>> /\ args = <<>> /\ content = <<>> /\ journal = <<>>

Prepare ==
    /\ \/ Declare("AService", StatementOf(test)) /\ UNCHANGED <<intercepts, call>>
       \/ CreateIntercepted("AService", "AService")
    /\ UNCHANGED <<pos, args, content, journal>>

CallMethod ==
    /\ Call(<<"AService", "AService">>, test.returns)
    /\ pos' = [i \in DOMAIN call'.state |-> 1]
    /\ args' = test.args /\ content' = <<>> /\ journal' = <<>>

\* The method gives its argument when it is run, now or by its promise.
Content(a) == IF \E i \in DOMAIN call'.log \ DOMAIN call.log : call'.log[i] \in {"value", "promise"}
              THEN a ELSE content

Value(i) == intercepts[call.of].steps[i].arg.value
Script(i) == intercepts[call.of].steps[i].arg.script
Op(i) == IF pos[i] > Len(Script(i)) THEN "return" ELSE Script(i)[pos[i]]

InterceptorLogs(i) ==
    /\ Op(i) = "log" /\ call.turn = i
    /\ journal' = Append(journal, Entry(Value(i), content))
    /\ UNCHANGED <<call, args, content>>

Invokes(i) ==
    /\ Op(i) \in {"invoke", "invokeWithArgs"} /\ InterceptorInvokes(i)
    /\ args' = IF Op(i) = "invokeWithArgs" THEN <<"one">> ELSE args
    /\ content' = Content(args')
    /\ UNCHANGED journal

\* A promise that has settled is not waited for.
Awaits(i) ==
    /\ Op(i) = "await" /\ call.turn = i
    /\ IF call.result = "promise" /\ call.promise = "pending" THEN InterceptorAwaits(i) ELSE UNCHANGED call
    /\ UNCHANGED <<args, content, journal>>

Rewrites(i) ==
    /\ Op(i) = "transform" /\ Transform(i)
    /\ content' = <<Value(i)>> \o content
    /\ UNCHANGED <<args, journal>>

Goes(i) ==
    /\ \/ InterceptorLogs(i) \/ Invokes(i) \/ Awaits(i) \/ Rewrites(i)
       \/ Op(i) = "return" /\ InterceptorReturns(i) /\ UNCHANGED <<args, content, journal>>
    /\ pos' = [pos EXCEPT ![i] = @ + 1]

Executor ==
    /\ \/ NextStep \/ LastInvoke \/ ResultSettles \/ PromiseSettles
       \/ \E i \in DOMAIN pos : InterceptorResumes(i)
    /\ content' = Content(args)
    /\ UNCHANGED <<pos, args, journal>>

\* The methods of the tests neither throw nor reject, and give something.
Succeeds ==
    /\ call'.promise \in {"none", "pending", "value"}
    /\ \A i \in DOMAIN call'.log : call'.log[i] \in {"value", "promise", "data"}

TestNext ==
    /\ test # None
    /\ \/ Prepare \/ CallMethod
       \/ /\ call.at # "idle"
          /\ Executor \/ \E i \in DOMAIN pos : Goes(i)
          /\ Succeeds
          /\ UNCHANGED <<metadataVars, intercepts>>
    /\ UNCHANGED test

WithoutTest ==
    /\ test = None /\ InterceptNext
    /\ UNCHANGED <<test, pos, args, content, journal>>

TestSpec == TestInit /\ [][TestNext \/ WithoutTest]_testVars
-----------------------------------------------------------------------------
\* Called again and again, and whenever its promises settle, the method runs once
\* in a call, its interceptors see and log, one after the other, what the unit tests
\* expect, and the caller gets what they left.
CallsAsTested ==
    (test # None /\ call.at = "ended") =>
        /\ Cardinality({i \in DOMAIN call.log : call.log[i] \in {"value", "promise"}}) = 1
        /\ content = test.answer /\ journal = test.logged
        /\ call.answer # "failed"
=============================================================================
