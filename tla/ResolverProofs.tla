--------------------------- MODULE ResolverProofs ---------------------------
(***************************************************************************)
(* Theorems about Resolver, for every set of providers and any number of   *)
(* calls: however they interleave with each other and with destroy, a      *)
(* token is bound once, results are bindings, instances are wired to       *)
(* bindings, and calls that race do not all lose.                          *)
(***************************************************************************)
EXTENDS Resolver, SequenceTheorems, WellFoundedInduction, TLAPS

-----------------------------------------------------------------------------
(* The invariant.  Its parts have the bindings bd, the instances md and the *)
(* epoch ep as parameters, to speak of the state before and after a step.   *)

Values == Nat \cup {Unbound}
Instances == [prov : Providers, born : Nat, got : [Providers -> Values]]

\* What a frame has been given in this epoch is what is bound, and if it has
\* bound its own instance, then that is an instance of its provider.
Sound(f, bd, md, ep) ==
    /\ f.born <= ep
    /\ f.born = ep => \A d \in Providers \ MutableKeys : f.got[d] \in {Unbound, bd[d]}
    /\ f.at = "deps" => f.got = Nothing
    /\ f.at \in {"wrap", "hook"} => f.inst \in 1..Len(md) /\ md[f.inst].prov = f.prov

\* The instance of the frame is still the one that is bound.
Kept(f, bd) ==
    f.at \in {"wrap", "hook"} => f.prov \in MutableKeys \/ bd[f.prov] = f.inst

\* What is above these frames has been there only in this epoch: the call
\* began in it, or one of the frames has called its constructor in it.
Fresh(s, b, ep) == b = ep \/ \E j \in DOMAIN s : s[j].born = ep

GoodStack(s, b, bd, md, ep) ==
    \A i \in DOMAIN s :
        /\ Sound(s[i], bd, md, ep)
        /\ b = ep \/ (\E j \in 1..i - 1 : s[j].born = ep) => Kept(s[i], bd)

\* A bound token has an instance of its own provider.
Bindings(bd, md) ==
    \A p \in Providers : bd[p] # Unbound => bd[p] \in 1..Len(md) /\ md[bd[p]].prov = p

Wired(bd, md, ep) ==
    \A p \in Providers :
        bd[p] # Unbound /\ md[bd[p]].born = ep =>
            \A d \in Providers \ MutableKeys : md[bd[p]].got[d] \in {Unbound, bd[d]}

\* What a call that is done has returned.
GoodResult(st, r, b, bd, md, ep) ==
    st = "done" =>
        /\ r \in 1..Len(md)
        /\ b = ep => md[r].prov \in MutableKeys \/ bd[md[r].prov] = r

GoodCall(c, sk, st, r, b, bd, md, ep) ==
    /\ b <= ep
    /\ GoodStack(sk, b, bd, md, ep)
    /\ GoodResult(st, r, b, bd, md, ep)

Inv ==
    /\ TypeOK
    /\ Bindings(bound, made) /\ Wired(bound, made, epoch)
    /\ \A c \in Calls :
          GoodCall(c, stack[c], status[c], result[c], began[c], bound, made, epoch)

\* What a step other than destroy does to the injector: bindings that are not
\* mutable stay, and instances keep what they are.
Extends(bd, md, bd2, md2) ==
    /\ bd2 \in [Providers -> Values] /\ md2 \in Seq(Instances)
    /\ Len(md) <= Len(md2)
    /\ \A n \in 1..Len(md) :
          md2[n].prov = md[n].prov /\ md2[n].born = md[n].born /\ md2[n].got = md[n].got
    /\ \A p \in Providers \ MutableKeys : bd[p] # Unbound => bd2[p] = bd[p]

-----------------------------------------------------------------------------
(* Stacks                                                                  *)

\* What is below the innermost frame, and that frame.
LEMMA FrontLast ==
  ASSUME NEW S, NEW s \in Seq(S), s # <<>>
  PROVE  /\ Len(s) \in Nat \ {0} /\ DOMAIN s = 1..Len(s)
         /\ Last(s) \in S /\ Last(s) = s[Len(s)]
         /\ Front(s) \in Seq(S) /\ Len(Front(s)) = Len(s) - 1
         /\ DOMAIN Front(s) = 1..Len(s) - 1
         /\ \A i \in 1..Len(s) - 1 : Front(s)[i] = s[i]
<1>1. Len(s) \in Nat \ {0} /\ DOMAIN s = 1..Len(s)
  BY EmptySeq, LenProperties
<1>2. Last(s) \in S /\ Last(s) = s[Len(s)]
  BY <1>1, ElementOfSeq DEF Last
<1>3. PICK n \in Nat : n = Len(s) - 1
  <2>1. Len(s) - 1 \in Nat
    BY <1>1
  <2>2. QED
    BY <2>1
<1>4. \A i \in 1..n : s[i] \in S
  BY <1>1, <1>3, ElementOfSeq
<1>5. /\ SubSeq(s, 1, n) \in Seq(S)
      /\ Len(SubSeq(s, 1, n)) = IF 1 <= n THEN n - 1 + 1 ELSE 0
      /\ \A i \in 1..n - 1 + 1 : SubSeq(s, 1, n)[i] = s[1 + i - 1]
  BY <1>4, SubSeqProperties
<1>6. Len(SubSeq(s, 1, n)) = n /\ \A i \in 1..n : SubSeq(s, 1, n)[i] = s[i]
  BY <1>5
<1>7. DOMAIN SubSeq(s, 1, n) = 1..n
  BY <1>5, <1>6, LenProperties
<1>8. QED
  BY <1>1, <1>2, <1>3, <1>5, <1>6, <1>7 DEF Front

\* A good stack is good without its innermost frame, which is sound, and kept
\* if what is below it is fresh.
LEMMA GoodFront ==
  ASSUME NEW s \in Seq(Frame), s # <<>>, NEW b, NEW bd, NEW md, NEW ep,
         GoodStack(s, b, bd, md, ep)
  PROVE  /\ GoodStack(Front(s), b, bd, md, ep)
         /\ Sound(Last(s), bd, md, ep)
         /\ Fresh(Front(s), b, ep) => Kept(Last(s), bd)
<1>0. /\ Len(s) \in Nat \ {0} /\ DOMAIN s = 1..Len(s) /\ Last(s) = s[Len(s)]
      /\ DOMAIN Front(s) = 1..Len(s) - 1
      /\ \A i \in 1..Len(s) - 1 : Front(s)[i] = s[i]
  BY FrontLast
<1>1. ASSUME NEW i \in DOMAIN Front(s)
      PROVE  /\ Sound(Front(s)[i], bd, md, ep)
             /\ b = ep \/ (\E j \in 1..i - 1 : Front(s)[j].born = ep) => Kept(Front(s)[i], bd)
  <2>1. i \in DOMAIN s /\ Front(s)[i] = s[i] /\ \A j \in 1..i - 1 : Front(s)[j] = s[j]
    BY <1>0, <1>1
  <2>2. QED
    BY <2>1 DEF GoodStack
<1>2. /\ Sound(s[Len(s)], bd, md, ep)
      /\ b = ep \/ (\E j \in 1..Len(s) - 1 : s[j].born = ep) => Kept(s[Len(s)], bd)
  BY <1>0 DEF GoodStack
<1>3. QED
  BY <1>0, <1>1, <1>2 DEF GoodStack, Fresh

\* Pushing a sound frame, kept if it has to be.
LEMMA GoodAppend ==
  ASSUME NEW s \in Seq(Frame), NEW b, NEW bd, NEW md, NEW ep, NEW f \in Frame,
         GoodStack(s, b, bd, md, ep), Sound(f, bd, md, ep), Fresh(s, b, ep) => Kept(f, bd)
  PROVE  /\ Append(s, f) \in Seq(Frame) /\ Append(s, f) # <<>>
         /\ Front(Append(s, f)) = s /\ Last(Append(s, f)) = f
         /\ GoodStack(Append(s, f), b, bd, md, ep)
<1>0. /\ Append(s, f) \in Seq(Frame) /\ Append(s, f) # <<>> /\ Len(Append(s, f)) = Len(s) + 1
      /\ \A i \in 1..Len(s) : Append(s, f)[i] = s[i]
      /\ Append(s, f)[Len(s) + 1] = f
      /\ Len(s) \in Nat /\ DOMAIN s = 1..Len(s) /\ DOMAIN Append(s, f) = 1..Len(s) + 1
  BY AppendProperties, LenProperties
<1>1. Front(Append(s, f)) = s /\ Last(Append(s, f)) = f
  <2> DEFINE t == Append(s, f)
  <2>1. t \in Seq(Frame) /\ t # <<>> /\ Len(t) = Len(s) + 1 /\ \A i \in 1..Len(s) : t[i] = s[i]
    BY <1>0
  <2>2. /\ Front(t) \in Seq(Frame) /\ Len(Front(t)) = Len(t) - 1
        /\ \A i \in 1..Len(t) - 1 : Front(t)[i] = t[i]
    <3> HIDE DEF t
    <3> QED
      BY <2>1, FrontLast
  <2>3. Front(t) = s
    <3>1. Len(t) - 1 = Len(s)
      BY <1>0, <2>1
    <3>2. Len(Front(t)) = Len(s) /\ \A i \in 1..Len(s) : Front(t)[i] = s[i]
      BY <2>1, <2>2, <3>1
    <3> HIDE DEF t
    <3>3. QED
      BY <2>2, <3>2, SeqEqual
  <2>4. Last(t) = f
    BY <1>0 DEF Last
  <2>5. QED
    BY <2>3, <2>4
<1>2. ASSUME NEW i \in DOMAIN Append(s, f)
      PROVE  /\ Sound(Append(s, f)[i], bd, md, ep)
             /\ b = ep \/ (\E j \in 1..i - 1 : Append(s, f)[j].born = ep) =>
                    Kept(Append(s, f)[i], bd)
  <2>1. CASE i \in 1..Len(s)
    <3>1. i \in DOMAIN s /\ Append(s, f)[i] = s[i] /\ \A j \in 1..i - 1 : Append(s, f)[j] = s[j]
      BY <1>0, <2>1
    <3>2. QED
      BY <3>1 DEF GoodStack
  <2>2. CASE i = Len(s) + 1
    <3>1. Append(s, f)[i] = f /\ \A j \in 1..i - 1 : j \in DOMAIN s /\ Append(s, f)[j] = s[j]
      BY <1>0, <2>2
    <3>2. QED
      BY <3>1 DEF Fresh
  <2>3. QED
    BY <1>0, <2>1, <2>2
<1>3. QED
  BY <1>0, <1>1, <1>2 DEF GoodStack

\* The empty stack is good.
LEMMA GoodEmpty ==
  ASSUME NEW b, NEW bd, NEW md, NEW ep
  PROVE  <<>> \in Seq(Frame) /\ GoodStack(<<>>, b, bd, md, ep)
  BY EmptySeq DEF GoodStack

-----------------------------------------------------------------------------
(* What other calls see of a step that extends the bindings                *)

\* Instances of the old list are in the new one.
LEMMA ExtendsSound ==
  ASSUME NEW bd \in [Providers -> Values], NEW md \in Seq(Instances), NEW bd2, NEW md2,
         NEW ep \in Nat, Extends(bd, md, bd2, md2), NEW f \in Frame, Sound(f, bd, md, ep)
  PROVE  Sound(f, bd2, md2, ep)
<1>0. Len(md) \in Nat /\ Len(md2) \in Nat
  BY LenProperties DEF Extends
<1>1. f.got \in [Providers -> Values]
  BY DEF Frame, Values
<1>2. f.born = ep => \A d \in Providers \ MutableKeys : f.got[d] \in {Unbound, bd2[d]}
  BY <1>1 DEF Sound, Extends
<1>3. f.at \in {"wrap", "hook"} => f.inst \in 1..Len(md2) /\ md2[f.inst].prov = f.prov
  BY <1>0 DEF Sound, Extends
<1>4. QED
  BY <1>2, <1>3 DEF Sound

\* A kept instance is a number, and so its binding stays.
LEMMA ExtendsKept ==
  ASSUME NEW bd, NEW md, NEW bd2, NEW md2,
         Extends(bd, md, bd2, md2), NEW f \in Frame, Kept(f, bd)
  PROVE  Kept(f, bd2)
<1>1. f.inst \in Nat /\ f.prov \in Providers
  BY DEF Frame
<1>2. f.inst # Unbound
  BY <1>1, ResolverAssumption
<1>3. QED
  BY <1>1, <1>2 DEF Kept, Extends

\* So other calls are as good as they were.
LEMMA ExtendsCall ==
  ASSUME NEW bd \in [Providers -> Values], NEW md \in Seq(Instances), NEW bd2, NEW md2,
         NEW ep \in Nat, Extends(bd, md, bd2, md2), Bindings(bd, md),
         NEW c, NEW s \in Seq(Frame), NEW st, NEW r, NEW b,
         GoodCall(c, s, st, r, b, bd, md, ep)
  PROVE  GoodCall(c, s, st, r, b, bd2, md2, ep)
<1>0. Len(md) \in Nat /\ Len(md2) \in Nat /\ DOMAIN s = 1..Len(s)
  BY LenProperties DEF Extends
<1>1. GoodStack(s, b, bd2, md2, ep)
  <2>1. \A i \in DOMAIN s : s[i] \in Frame
    BY <1>0, ElementOfSeq
  <2>2. QED
    BY <2>1, ExtendsSound, ExtendsKept DEF GoodCall, GoodStack
<1>2. GoodResult(st, r, b, bd2, md2, ep)
  <2>1. SUFFICES ASSUME st = "done"
                 PROVE  /\ r \in 1..Len(md2)
                        /\ b = ep => md2[r].prov \in MutableKeys \/ bd2[md2[r].prov] = r
    BY DEF GoodResult
  <2>2. r \in 1..Len(md) /\ (b = ep => md[r].prov \in MutableKeys \/ bd[md[r].prov] = r)
    BY <2>1 DEF GoodCall, GoodResult
  <2>3. md[r] \in Instances
    BY <2>2, ElementOfSeq
  <2>4. md[r].prov \in Providers /\ r # Unbound
    BY <1>0, <2>2, <2>3, ResolverAssumption DEF Instances
  <2>5. QED
    BY <1>0, <2>2, <2>4 DEF Extends
<1>3. QED
  BY <1>1, <1>2 DEF GoodCall

-----------------------------------------------------------------------------
(* One call moves                                                          *)

\* A step of call c that extends the bindings and leaves c good.
LEMMA CallMoves ==
  ASSUME Inv, NEW c \in Calls, NEW sk \in Seq(Frame), NEW st \in {"running"} \cup Ends,
         NEW r \in Values, st = "running" <=> sk # <<>>,
         stack' = [stack EXCEPT ![c] = sk], status' = [status EXCEPT ![c] = st],
         result' = [result EXCEPT ![c] = r], UNCHANGED <<epoch, began>>,
         Extends(bound, made, bound', made'), Bindings(bound', made'),
         Wired(bound', made', epoch),
         GoodStack(sk, began[c], bound', made', epoch),
         GoodResult(st, r, began[c], bound', made', epoch)
  PROVE  Inv'
<1>0. /\ bound \in [Providers -> Values] /\ made \in Seq(Instances) /\ epoch \in Nat
      /\ stack \in [Calls -> Seq(Frame)] /\ result \in [Calls -> Values]
  BY DEF Inv, TypeOK, Values, Instances
<1>1. TypeOK'
  BY <1>0 DEF Inv, TypeOK, Extends, Values, Instances
<1>2. ASSUME NEW d \in Calls
      PROVE  GoodCall(d, stack'[d], status'[d], result'[d], began'[d], bound', made', epoch')
  <2>1. CASE d = c
    <3>1. /\ stack'[d] = sk /\ status'[d] = st /\ result'[d] = r /\ began'[d] = began[c]
          /\ epoch' = epoch /\ began[c] <= epoch
      BY <1>0, <2>1 DEF Inv, TypeOK, GoodCall
    <3>2. QED
      BY <3>1 DEF GoodCall
  <2>2. CASE d # c
    <3>1. /\ stack'[d] = stack[d] /\ status'[d] = status[d] /\ result'[d] = result[d]
          /\ began'[d] = began[d] /\ epoch' = epoch
      BY <1>0, <2>2 DEF Inv, TypeOK
    <3>2. /\ GoodCall(d, stack[d], status[d], result[d], began[d], bound, made, epoch)
          /\ Bindings(bound, made) /\ stack[d] \in Seq(Frame)
      BY <1>0 DEF Inv
    <3>3. GoodCall(d, stack[d], status[d], result[d], began[d], bound', made', epoch)
      BY <1>0, <3>2, ExtendsCall
    <3>4. QED
      BY <3>1, <3>3
  <2>3. QED
    BY <2>1, <2>2
<1>3. QED
  BY <1>1, <1>2 DEF Inv

\* A state that keeps its bindings extends them.
LEMMA SameExtends ==
  ASSUME Inv, UNCHANGED <<bound, made, epoch>>
  PROVE  /\ Extends(bound, made, bound', made') /\ Bindings(bound', made')
         /\ Wired(bound', made', epoch)
<1>1. Len(made) \in Nat
  BY LenProperties DEF Inv, TypeOK
<1>2. QED
  BY <1>1 DEF Inv, TypeOK, Extends, Values, Instances

\* A call that runs: its innermost frame and what is below.
LEMMA Running ==
  ASSUME Inv, NEW c \in Calls, status[c] = "running"
  PROVE  /\ stack[c] \in Seq(Frame) /\ stack[c] # <<>> /\ Len(stack[c]) \in Nat \ {0}
         /\ Front(stack[c]) \in Seq(Frame) /\ Last(stack[c]) \in Frame
         /\ Len(Front(stack[c])) = Len(stack[c]) - 1
         /\ GoodStack(Front(stack[c]), began[c], bound, made, epoch)
         /\ Sound(Last(stack[c]), bound, made, epoch)
         /\ Fresh(Front(stack[c]), began[c], epoch) => Kept(Last(stack[c]), bound)
<1>1. /\ stack[c] \in Seq(Frame) /\ stack[c] # <<>>
      /\ GoodStack(stack[c], began[c], bound, made, epoch)
  BY DEF Inv, TypeOK, GoodCall
<1>2. QED
  BY <1>1, GoodFront, FrontLast

\* A frame that may take the place of the innermost one.
GoodTop(c, g) ==
    /\ g \in Frame /\ Sound(g, bound, made, epoch)
    /\ Fresh(Front(stack[c]), began[c], epoch) => Kept(g, bound)

\* A call that fails leaves the injector as it is.
LEMMA FailInv ==
  ASSUME Inv, NEW c \in Calls, NEW why \in {"lost", "missing", "threw"}, Fail(c, why)
  PROVE  Inv'
<1>1. /\ result' = [result EXCEPT ![c] = result[c]] /\ result[c] \in Values
      /\ why \in {"running"} \cup Ends /\ why # "running" /\ why # "done"
      /\ UNCHANGED <<bound, made, epoch, began>>
  BY DEF Fail, Inv, TypeOK, Values, Ends
<1>2. /\ GoodStack(<<>>, began[c], bound', made', epoch) /\ <<>> \in Seq(Frame)
      /\ GoodResult(why, result[c], began[c], bound', made', epoch)
  BY <1>1, GoodEmpty DEF GoodResult
<1>3. QED
  BY <1>1, <1>2, CallMoves, SameExtends DEF Fail

\* A call goes on in its innermost frame,
LEMMA ContinueInv ==
  ASSUME Inv, NEW c \in Calls, status[c] = "running", NEW g, GoodTop(c, g), Continue(c, g)
  PROVE  Inv'
<1> DEFINE sk == Append(Front(stack[c]), g)
<1>1. /\ result' = [result EXCEPT ![c] = result[c]] /\ result[c] \in Values
      /\ status' = [status EXCEPT ![c] = "running"]
      /\ stack' = [stack EXCEPT ![c] = sk]
      /\ UNCHANGED <<bound, made, epoch, began>>
  BY DEF Continue, Replace, Inv, TypeOK, Values
<1>2. sk \in Seq(Frame) /\ sk # <<>> /\ GoodStack(sk, began[c], bound', made', epoch)
  BY <1>1, Running, GoodAppend DEF GoodTop
<1>3. GoodResult("running", result[c], began[c], bound', made', epoch)
  BY DEF GoodResult
<1> HIDE DEF sk
<1>4. QED
  BY <1>1, <1>2, <1>3, CallMoves, SameExtends

\* A new frame has been given nothing.
LEMMA NewFrameSound ==
  ASSUME NEW p \in Providers, NEW list \in Seq(Providers), NEW bd, NEW md, NEW ep \in Nat
  PROVE  /\ NewFrame(p, list) \in Frame
         /\ Sound(NewFrame(p, list), bd, md, ep) /\ Kept(NewFrame(p, list), bd)
  BY DEF NewFrame, Frame, Stages, Nothing, Sound, Kept

\* or awaits another provider above it.
LEMMA EnterInv ==
  ASSUME Inv, NEW c \in Calls, status[c] = "running", NEW g, GoodTop(c, g),
         NEW p \in Providers, NEW list \in Seq(Providers), Enter(c, g, p, list)
  PROVE  Inv'
<1> DEFINE below == Append(Front(stack[c]), g)
           sk == Append(below, NewFrame(p, list))
<1>1. /\ result' = [result EXCEPT ![c] = result[c]] /\ result[c] \in Values
      /\ status' = [status EXCEPT ![c] = "running"]
      /\ stack' = [stack EXCEPT ![c] = sk]
      /\ UNCHANGED <<bound, made, epoch, began>> /\ epoch \in Nat
  BY DEF Enter, Inv, TypeOK, Values
<1>2. below \in Seq(Frame) /\ GoodStack(below, began[c], bound, made, epoch)
  BY Running, GoodAppend DEF GoodTop
<1>3. sk \in Seq(Frame) /\ sk # <<>> /\ GoodStack(sk, began[c], bound', made', epoch)
  <2> DEFINE new == NewFrame(p, list)
  <2>1. new \in Frame /\ Sound(new, bound, made, epoch) /\ Kept(new, bound)
    BY <1>1, NewFrameSound
  <2> HIDE DEF below, new
  <2>2. /\ Append(below, new) \in Seq(Frame) /\ Append(below, new) # <<>>
        /\ GoodStack(Append(below, new), began[c], bound, made, epoch)
    BY <1>2, <2>1, GoodAppend
  <2>3. QED
    BY <1>1, <2>2 DEF new
<1>4. GoodResult("running", result[c], began[c], bound', made', epoch)
  BY DEF GoodResult
<1> HIDE DEF sk
<1>5. QED
  BY <1>1, <1>3, <1>4, CallMoves, SameExtends

\* The innermost frame ends with a value that is there to stay: its call is
\* done, or the frame below receives it.
LEMMA GiveInv ==
  ASSUME Inv, NEW c \in Calls, status[c] = "running",
         UNCHANGED <<epoch, began>>, Extends(bound, made, bound', made'),
         Bindings(bound', made'), Wired(bound', made', epoch),
         NEW v \in 1..Len(made'), Give(c, v),
         made'[v].prov = Last(stack[c]).prov,
         Fresh(Front(stack[c]), began[c], epoch) =>
             Last(stack[c]).prov \in MutableKeys \/ bound'[Last(stack[c]).prov] = v
  PROVE  Inv'
<1> DEFINE front == Front(stack[c])
           p == Last(stack[c]).prov
<1>0. /\ v \in Nat /\ v \in Values /\ made' \in Seq(Instances) /\ epoch \in Nat
      /\ bound \in [Providers -> Values] /\ made \in Seq(Instances)
      /\ result \in [Calls -> Values] /\ status \in [Calls -> {"idle", "running"} \cup Ends]
  BY LenProperties DEF Extends, Values, Inv, TypeOK, Instances
<1>1. /\ front \in Seq(Frame) /\ p \in Providers /\ Len(front) = Len(stack[c]) - 1
      /\ Len(stack[c]) \in Nat \ {0} /\ GoodStack(front, began[c], bound, made, epoch)
  BY Running DEF Frame
<1>2. CASE Len(stack[c]) = 1
  <2>1. /\ stack' = [stack EXCEPT ![c] = <<>>] /\ status' = [status EXCEPT ![c] = "done"]
        /\ result' = [result EXCEPT ![c] = v]
    BY <1>2 DEF Give
  <2>2. began[c] = epoch => p \in MutableKeys \/ bound'[p] = v
    BY DEF Fresh
  <2>3. GoodResult("done", v, began[c], bound', made', epoch)
    BY <2>2 DEF GoodResult
  <2>4. "done" \in {"running"} \cup Ends /\ "done" # "running"
    BY DEF Ends
  <2>5. QED
    BY <1>0, <2>1, <2>3, <2>4, GoodEmpty, CallMoves
<1>3. CASE Len(stack[c]) # 1
  <2> DEFINE f == Last(front)
             g == Receive(f, p, v)
             sk == Append(Front(front), g)
  <2>1. /\ stack' = [stack EXCEPT ![c] = sk] /\ UNCHANGED <<status, result>>
    BY <1>3 DEF Give
  <2>2. front # <<>>
    <3>1. Len(front) # 0
      BY <1>1, <1>3
    <3> HIDE DEF front
    <3>2. QED
      BY <3>1, EmptySeq
  <2>3. /\ f \in Frame /\ Front(front) \in Seq(Frame) /\ Len(front) \in DOMAIN front
        /\ f = front[Len(front)]
        /\ GoodStack(Front(front), began[c], bound, made, epoch)
        /\ Sound(f, bound, made, epoch)
        /\ Fresh(Front(front), began[c], epoch) => Kept(f, bound)
    <3> HIDE DEF front
    <3>1. QED
      BY <1>1, <2>2, FrontLast, GoodFront
  <2>4. f.born = epoch => p \in MutableKeys \/ bound'[p] = v
    BY <2>3 DEF Fresh
  <2>5. /\ Sound(f, bound', made', epoch)
        /\ Fresh(Front(front), began[c], epoch) => Kept(f, bound')
    BY <1>0, <2>3, ExtendsSound, ExtendsKept
  <2>6. GoodStack(Front(front), began[c], bound', made', epoch)
    <3>1. \A i \in DOMAIN Front(front) : Front(front)[i] \in Frame
      BY <2>3, LenProperties, ElementOfSeq
    <3>2. QED
      BY <1>0, <2>3, <3>1, ExtendsSound, ExtendsKept DEF GoodStack
  <2>7. /\ g \in Frame /\ Sound(g, bound', made', epoch)
        /\ Fresh(Front(front), began[c], epoch) => Kept(g, bound')
    <3>1. CASE f.at = "props"
      <4>1. g = [f EXCEPT !.got[p] = v]
        BY <3>1 DEF Receive
      <4>2. /\ g \in Frame /\ g.at = "props" /\ g.born = f.born
            /\ \A d \in Providers : g.got[d] = IF d = p THEN v ELSE f.got[d]
        <5> HIDE DEF front, f, p, g
        <5>1. f \in Frame /\ p \in Providers /\ v \in Values
          BY <1>0, <1>1, <2>3
        <5>2. f.got \in [Providers -> Values]
          BY <5>1 DEF Frame, Values
        <5>3. g = [prov |-> f.prov, at |-> f.at, todo |-> f.todo,
                   got |-> [f.got EXCEPT ![p] = v], born |-> f.born, inst |-> f.inst]
          BY <4>1, <5>1 DEF Frame
        <5>4. [f.got EXCEPT ![p] = v] \in [Providers -> Values]
          BY <5>1, <5>2
        <5>5. QED
          BY <3>1, <5>1, <5>2, <5>3, <5>4 DEF Frame, Values
      <4>3. Sound(g, bound', made', epoch)
        BY <2>4, <2>5, <4>2 DEF Sound
      <4>4. QED
        BY <4>2, <4>3 DEF Kept
    <3>2. CASE f.at # "props"
      BY <2>3, <2>5, <3>2 DEF Receive
    <3>3. QED
      BY <3>1, <3>2
  <2>8. sk \in Seq(Frame) /\ sk # <<>> /\ GoodStack(sk, began[c], bound', made', epoch)
    <3> DEFINE low == Front(front)
    <3> HIDE DEF front, f, g, low
    <3>1. QED
      BY <2>3, <2>6, <2>7, GoodAppend DEF low
  <2>9. /\ result' = [result EXCEPT ![c] = result[c]] /\ result[c] \in Values
        /\ status' = [status EXCEPT ![c] = "running"]
        /\ GoodResult("running", result[c], began[c], bound', made', epoch)
    BY <1>0, <2>1 DEF GoodResult
  <2> HIDE DEF sk
  <2>10. QED
    BY <2>1, <2>8, <2>9, CallMoves
<1>4. QED
  BY <1>2, <1>3

\* A call returns a value that is there to stay, and changes nothing else.
LEMMA ReturnInv ==
  ASSUME Inv, NEW c \in Calls, status[c] = "running",
         NEW v \in 1..Len(made), Return(c, v),
         made[v].prov = Last(stack[c]).prov,
         Fresh(Front(stack[c]), began[c], epoch) =>
             Last(stack[c]).prov \in MutableKeys \/ bound[Last(stack[c]).prov] = v
  PROVE  Inv'
<1>1. UNCHANGED <<bound, made, epoch, began>> /\ Give(c, v) /\ v \in 1..Len(made')
  BY DEF Return
<1>2. QED
  BY <1>1, SameExtends, GiveInv

-----------------------------------------------------------------------------
(* Binding                                                                 *)

\* A new instance that has been given what is bound, under a token that is
\* free or mutable, extends the bindings.
LEMMA BindExtends ==
  ASSUME Inv, NEW g \in Frame, Sound(g, bound, made, epoch),
         bound[g.prov] = Unbound \/ g.prov \in MutableKeys,
         made' = Append(made, [prov |-> g.prov, born |-> g.born, got |-> g.got]),
         bound' = [bound EXCEPT ![g.prov] = Len(made) + 1]
  PROVE  /\ Extends(bound, made, bound', made') /\ Bindings(bound', made')
         /\ Wired(bound', made', epoch)
         /\ Len(made) + 1 \in 1..Len(made') /\ Len(made) + 1 \in Nat
         /\ made'[Len(made) + 1].prov = g.prov /\ bound'[g.prov] = Len(made) + 1
<1> DEFINE new == [prov |-> g.prov, born |-> g.born, got |-> g.got]
           n == Len(made) + 1
<1>0. /\ bound \in [Providers -> Values] /\ made \in Seq(Instances) /\ epoch \in Nat
      /\ Len(made) \in Nat /\ Bindings(bound, made) /\ Wired(bound, made, epoch)
  BY LenProperties DEF Inv, TypeOK, Values, Instances
<1>1. /\ g.prov \in Providers /\ g.born \in Nat /\ g.got \in [Providers -> Values]
      /\ new \in Instances
      /\ new.prov = g.prov /\ new.born = g.born /\ new.got = g.got
  BY DEF Frame, Values, Instances
<1>2. /\ made' \in Seq(Instances) /\ Len(made') = n /\ made'[n] = new
      /\ \A i \in 1..Len(made) : made'[i] = made[i]
  <2> HIDE DEF new
  <2>1. made' = Append(made, new)
    BY DEF new
  <2>2. QED
    BY <1>0, <1>1, <2>1, AppendProperties
<1>3. n \in Nat /\ n \in 1..n /\ n # Unbound
  BY <1>0, ResolverAssumption
<1>4. /\ bound' \in [Providers -> Values] /\ bound'[g.prov] = n
      /\ \A p \in Providers : p # g.prov => bound'[p] = bound[p]
  BY <1>0, <1>1, <1>3 DEF Values
<1>5. Extends(bound, made, bound', made')
  <2> HIDE DEF new
  <2>1. QED
    BY <1>0, <1>1, <1>2, <1>3, <1>4 DEF Extends
<1>6. Bindings(bound', made')
  <2> HIDE DEF new
  <2>1. QED
    BY <1>0, <1>1, <1>2, <1>3, <1>4 DEF Bindings
<1>7. Wired(bound', made', epoch)
  <2> HIDE DEF new
  <2> SUFFICES ASSUME NEW p \in Providers, bound'[p] # Unbound, made'[bound'[p]].born = epoch,
                      NEW d \in Providers \ MutableKeys
               PROVE  made'[bound'[p]].got[d] \in {Unbound, bound'[d]}
    BY DEF Wired
  <2>1. bound[d] # Unbound => bound'[d] = bound[d]
    BY <1>5 DEF Extends
  <2>2. CASE p = g.prov
    BY <1>1, <1>2, <1>4, <2>1, <2>2 DEF Sound
  <2>3. CASE p # g.prov
    <3>1. bound'[p] = bound[p] /\ bound[p] \in 1..Len(made) /\ made'[bound[p]] = made[bound[p]]
      BY <1>0, <1>2, <1>4, <2>3 DEF Bindings
    <3>2. made[bound[p]].got[d] \in {Unbound, bound[d]}
      BY <1>0, <3>1 DEF Wired
    <3>3. QED
      BY <2>1, <3>1, <3>2
  <2>4. QED
    BY <2>2, <2>3
<1>8. QED
  BY <1>0, <1>1, <1>2, <1>3, <1>4, <1>5, <1>6, <1>7

\* set in the innermost frame: it loses, or goes on with its instance.
LEMMA BindInv ==
  ASSUME Inv, NEW c \in Calls, status[c] = "running", NEW g, GoodTop(c, g),
         g.prov = Last(stack[c]).prov, BindAs(c, g)
  PROVE  Inv'
<1> DEFINE n == Len(made) + 1
<1>0. g \in Frame /\ Sound(g, bound, made, epoch) /\ g.prov \in Providers
  BY DEF GoodTop, Frame
<1>1. CASE Has(g.prov) /\ g.prov \notin MutableKeys
  BY <1>1, FailInv DEF BindAs
<1>2. CASE bound[g.prov] = Unbound \/ g.prov \in MutableKeys
  <2>1. /\ made' = Append(made, [prov |-> g.prov, born |-> g.born, got |-> g.got])
        /\ bound' = [bound EXCEPT ![g.prov] = n]
        /\ UNCHANGED <<epoch, began>>
    BY <1>2 DEF BindAs, Has
  <2>2. /\ Extends(bound, made, bound', made') /\ Bindings(bound', made')
        /\ Wired(bound', made', epoch)
        /\ n \in 1..Len(made') /\ n \in Nat
        /\ made'[n].prov = g.prov /\ bound'[g.prov] = n
    BY <1>0, <1>2, <2>1, BindExtends
  <2>3. CASE Kind[g.prov] # "class"
    <3>1. Give(c, n)
      BY <1>2, <2>3 DEF BindAs, Has
    <3> HIDE DEF n
    <3>2. QED
      BY <2>1, <2>2, <3>1, GiveInv
  <2>4. CASE Kind[g.prov] = "class"
    <3> DEFINE h == [g EXCEPT !.at = "wrap", !.todo = Wraps[g.prov], !.inst = n]
               front == Front(stack[c])
               sk == Append(front, h)
    <3>1. stack' = [stack EXCEPT ![c] = sk] /\ UNCHANGED <<status, result>>
      BY <1>2, <2>4 DEF BindAs, Has, Replace
    <3>2. Wraps[g.prov] \in Seq(Providers)
      BY <1>0, ResolverAssumption DEF Lists
    <3>3. h = [prov |-> g.prov, at |-> "wrap", todo |-> Wraps[g.prov], got |-> g.got,
               born |-> g.born, inst |-> n]
      <4> DEFINE w == Wraps[g.prov]
      <4>1. h = [g EXCEPT !.at = "wrap", !.todo = w, !.inst = n]
        OBVIOUS
      <4>2. g \in [prov : Providers, at : Stages, todo : Seq(Providers),
                   got : [Providers -> Nat \cup {Unbound}], born : Nat, inst : Nat]
        BY <1>0 DEF Frame
      <4> HIDE DEF h, n, w
      <4>3. h = [prov |-> g.prov, at |-> "wrap", todo |-> w, got |-> g.got,
                 born |-> g.born, inst |-> n]
        BY ONLY <4>1, <4>2
      <4>4. QED
        BY <4>3 DEF w
    <3>4. /\ h \in Frame /\ h.prov = g.prov /\ h.born = g.born /\ h.got = g.got
          /\ h.inst = n /\ h.at = "wrap"
      <4> HIDE DEF h, n
      <4>1. QED
        BY <1>0, <2>2, <3>2, <3>3 DEF Frame, Stages
    <3>5. Sound(g, bound', made', epoch)
      BY <1>0, <2>2, ExtendsSound DEF Inv, TypeOK, Values, Instances
    <3>6. Sound(h, bound', made', epoch) /\ Kept(h, bound')
      <4> HIDE DEF h, n
      <4>1. QED
        BY <2>2, <3>4, <3>5 DEF Sound, Kept
    <3>7. front \in Seq(Frame) /\ GoodStack(front, began[c], bound', made', epoch)
      <4>1. front \in Seq(Frame) /\ GoodStack(front, began[c], bound, made, epoch)
        BY Running
      <4>2. \A i \in DOMAIN front : front[i] \in Frame
        <5> HIDE DEF front
        <5>1. QED
          BY <4>1, LenProperties, ElementOfSeq
      <4>3. /\ bound \in [Providers -> Values] /\ made \in Seq(Instances) /\ epoch \in Nat
        BY DEF Inv, TypeOK, Values, Instances
      <4> HIDE DEF front
      <4>4. QED
        BY <2>2, <4>1, <4>2, <4>3, ExtendsSound, ExtendsKept DEF GoodStack
    <3>8. sk \in Seq(Frame) /\ sk # <<>> /\ GoodStack(sk, began[c], bound', made', epoch)
      <4> HIDE DEF h, front
      <4>1. QED
        BY <3>4, <3>6, <3>7, GoodAppend
    <3>9. /\ result' = [result EXCEPT ![c] = result[c]] /\ result[c] \in Values
          /\ status' = [status EXCEPT ![c] = "running"]
          /\ GoodResult("running", result[c], began[c], bound', made', epoch)
      BY <3>1 DEF GoodResult, Inv, TypeOK, Values
    <3> HIDE DEF sk
    <3>10. QED
      BY <2>1, <2>2, <3>1, <3>8, <3>9, CallMoves
  <2>5. QED
    BY <2>3, <2>4
<1>3. QED
  BY <1>1, <1>2 DEF Has

-----------------------------------------------------------------------------
(* Construction                                                            *)

\* The properties that are there are read, the next one is awaited, or the
\* instance is bound.
LEMMA RunPropsInv ==
  ASSUME Inv, NEW c \in Calls, status[c] = "running",
         NEW f \in Frame, f.at = "props", Sound(f, bound, made, epoch),
         f.prov = Last(stack[c]).prov, RunProps(c, f)
  PROVE  Inv'
<1>1. PICK n \in 0..Len(f.todo) :
        LET injected == {f.todo[i] : i \in 1..n}
            g == [f EXCEPT !.got = [p \in Providers |->
                                        IF p \in injected THEN bound[p] ELSE @[p]],
                           !.todo = SubSeq(@, n + 2, Len(@))]
        IN  IF \E p \in injected : ~Has(p) THEN Fail(c, "missing")
            ELSE IF n = Len(f.todo) THEN BindAs(c, g)
            ELSE Enter(c, g, f.todo[n + 1], <<>>)
  BY DEF RunProps
<1> DEFINE injected == {f.todo[i] : i \in 1..n}
           got == [p \in Providers |-> IF p \in injected THEN bound[p] ELSE f.got[p]]
           todo == SubSeq(f.todo, n + 2, Len(f.todo))
           g == [f EXCEPT !.got = [p \in Providers |->
                                       IF p \in injected THEN bound[p] ELSE @[p]],
                          !.todo = SubSeq(@, n + 2, Len(@))]
<1>2. /\ f.todo \in Seq(Providers) /\ Len(f.todo) \in Nat /\ n \in Nat
      /\ f.prov \in Providers /\ f.born \in Nat /\ f.inst \in Nat
      /\ f.got \in [Providers -> Values] /\ bound \in [Providers -> Values]
  BY LenProperties DEF Frame, Values, Inv, TypeOK
<1>3. todo \in Seq(Providers)
  <2>1. \A i \in n + 2..Len(f.todo) : f.todo[i] \in Providers
    BY <1>2, ElementOfSeq
  <2>2. n + 2 \in Int /\ Len(f.todo) \in Int
    BY <1>2
  <2>3. QED
    BY <2>1, <2>2, SubSeqProperties
<1>4. got \in [Providers -> Values]
  BY <1>2
<1>5. g = [prov |-> f.prov, at |-> f.at, todo |-> todo, got |-> got,
           born |-> f.born, inst |-> f.inst]
  <2>1. f \in [prov : Providers, at : Stages, todo : Seq(Providers),
               got : [Providers -> Nat \cup {Unbound}], born : Nat, inst : Nat]
    BY DEF Frame
  <2>2. g = [f EXCEPT !.got = got, !.todo = todo]
    OBVIOUS
  <2> HIDE DEF got, todo, g
  <2>3. QED
    BY ONLY <2>1, <2>2
<1>6. /\ g \in Frame /\ g.at = "props" /\ g.prov = f.prov /\ g.born = f.born
      /\ g.got = got
  <2> HIDE DEF got, todo, g
  <2>1. QED
    BY <1>2, <1>3, <1>4, <1>5 DEF Frame, Values
<1>7. GoodTop(c, g)
  <2>1. \A d \in Providers : g.got[d] \in {f.got[d], bound[d]}
    BY <1>6
  <2> HIDE DEF g, got
  <2>2. QED
    BY <1>6, <2>1 DEF GoodTop, Sound, Kept
<1>8. CASE Fail(c, "missing")
  BY <1>8, FailInv
<1>9. CASE BindAs(c, g)
  <2> HIDE DEF g, got
  <2>1. QED
    BY <1>6, <1>7, <1>9, BindInv
<1>10. CASE n # Len(f.todo) /\ Enter(c, g, f.todo[n + 1], <<>>)
  <2>1. f.todo[n + 1] \in Providers /\ <<>> \in Seq(Providers)
    BY <1>2, <1>10, ElementOfSeq, EmptySeq
  <2> HIDE DEF g, got
  <2>2. QED
    BY <1>7, <1>10, <2>1, EnterInv
<1>11. QED
  BY <1>1, <1>8, <1>9, <1>10

\* The constructor or the factory is called with what is bound.
LEMMA BuildInv ==
  ASSUME Inv, NEW c \in Calls, status[c] = "running", Build(c, Last(stack[c]))
  PROVE  Inv'
<1> DEFINE f == Last(stack[c])
           args == IF Kind[f.prov] = "class" THEN Needs[f.prov] ELSE Inner[f.prov]
           got == [p \in Providers |-> IF p \in ToSet(args) THEN bound[p] ELSE Unbound]
           g == [f EXCEPT !.got = got, !.born = epoch]
<1>1. /\ f \in Frame /\ f.prov \in Providers /\ f.todo \in Seq(Providers) /\ f.inst \in Nat
      /\ f.at \in Stages /\ epoch \in Nat /\ bound \in [Providers -> Values]
      /\ Props[f.prov] \in Seq(Providers)
  BY Running, ResolverAssumption DEF Frame, Inv, TypeOK, Values, Lists
<1>2. got \in [Providers -> Values] /\ \A d \in Providers : got[d] \in {Unbound, bound[d]}
  BY <1>1 DEF Values
<1>3. \/ Fail(c, "missing")
      \/ RunProps(c, [g EXCEPT !.at = "props", !.todo = Props[f.prov]])
      \/ Continue(c, [g EXCEPT !.at = "pending"])
  BY DEF Build
<1>4. ASSUME NEW a \in {"props", "pending"}, NEW l \in Seq(Providers),
             NEW h, h = [prov |-> f.prov, at |-> a, todo |-> l, got |-> got,
                         born |-> epoch, inst |-> f.inst]
      PROVE  /\ GoodTop(c, h) /\ h \in Frame /\ h.at = a /\ h.prov = f.prov
             /\ Sound(h, bound, made, epoch)
  <2> HIDE DEF f, got
  <2>1. h \in Frame /\ h.at = a /\ h.prov = f.prov /\ h.got = got /\ h.born = epoch
    BY <1>1, <1>2, <1>4 DEF Frame, Stages, Values
  <2>2. Sound(h, bound, made, epoch) /\ Kept(h, bound)
    BY <1>1, <1>2, <1>4, <2>1 DEF Sound, Kept
  <2>3. QED
    BY <2>1, <2>2 DEF GoodTop
<1>5. f \in [prov : Providers, at : Stages, todo : Seq(Providers),
             got : [Providers -> Nat \cup {Unbound}], born : Nat, inst : Nat]
  BY <1>1 DEF Frame
<1>6. g = [prov |-> f.prov, at |-> f.at, todo |-> f.todo, got |-> got,
           born |-> epoch, inst |-> f.inst]
  <2>1. g = [f EXCEPT !.got = got, !.born = epoch]
    OBVIOUS
  <2> HIDE DEF f, got, g
  <2>2. QED
    BY ONLY <1>5, <2>1
<1>7. CASE RunProps(c, [g EXCEPT !.at = "props", !.todo = Props[f.prov]])
  <2> DEFINE l == Props[f.prov]
             h == [g EXCEPT !.at = "props", !.todo = l]
  <2>1. h = [prov |-> f.prov, at |-> "props", todo |-> l, got |-> got,
             born |-> epoch, inst |-> f.inst]
    <3>1. h = [g EXCEPT !.at = "props", !.todo = l]
      OBVIOUS
    <3> HIDE DEF f, got, l, g, h
    <3>2. QED
      BY ONLY <1>6, <3>1
  <2>2. l \in Seq(Providers)
    BY <1>1
  <2>3. RunProps(c, h)
    BY <1>7
  <2> HIDE DEF h, got, l
  <2>4. h \in Frame /\ h.at = "props" /\ h.prov = f.prov /\ Sound(h, bound, made, epoch)
    BY <1>4, <2>1, <2>2
  <2>5. QED
    BY <2>3, <2>4, RunPropsInv
<1>8. CASE Continue(c, [g EXCEPT !.at = "pending"])
  <2> DEFINE l == f.todo
             h == [g EXCEPT !.at = "pending"]
  <2>1. h = [prov |-> f.prov, at |-> "pending", todo |-> l, got |-> got,
             born |-> epoch, inst |-> f.inst]
    <3> HIDE DEF f, got, g
    <3>1. QED
      BY ONLY <1>6
  <2>2. l \in Seq(Providers) /\ Continue(c, h)
    BY <1>1, <1>8
  <2> HIDE DEF h, got, l
  <2>3. GoodTop(c, h)
    BY <1>4, <2>1, <2>2
  <2>4. QED
    BY <2>2, <2>3, ContinueInv
<1>9. QED
  BY <1>3, <1>7, <1>8, FailInv

-----------------------------------------------------------------------------
(* The actions                                                             *)

\* The innermost frame in another stage, with what it has been given.
LEMMA TopMoves ==
  ASSUME Inv, NEW c \in Calls, status[c] = "running", NEW a \in Stages, a # "deps",
         NEW l \in Seq(Providers), NEW h,
         a \in {"wrap", "hook"} => Last(stack[c]).at \in {"wrap", "hook"},
         h = [prov |-> Last(stack[c]).prov, at |-> a, todo |-> l, got |-> Last(stack[c]).got,
              born |-> Last(stack[c]).born, inst |-> Last(stack[c]).inst]
  PROVE  GoodTop(c, h)
<1> DEFINE f == Last(stack[c])
<1>1. /\ f \in Frame /\ Sound(f, bound, made, epoch)
      /\ Fresh(Front(stack[c]), began[c], epoch) => Kept(f, bound)
  BY Running
<1> HIDE DEF f
<1>2. h = [prov |-> f.prov, at |-> a, todo |-> l, got |-> f.got,
           born |-> f.born, inst |-> f.inst]
  BY DEF f
<1>3. /\ h \in Frame /\ h.prov = f.prov /\ h.at = a /\ h.got = f.got /\ h.born = f.born
      /\ h.inst = f.inst
  BY <1>1, <1>2 DEF Frame
<1>4. Sound(h, bound, made, epoch) /\ (Kept(f, bound) => Kept(h, bound))
  BY <1>1, <1>3 DEF Sound, Kept, f
<1>5. QED
  BY <1>1, <1>3, <1>4 DEF GoodTop

\* A call begins.
LEMMA StartInv ==
  ASSUME Inv, NEW c \in Calls, NEW p \in Providers, NEW list \in Given[p], Start(c, p, list)
  PROVE  Inv'
<1> DEFINE new == NewFrame(p, list)
           sk == <<new>>
<1>0. /\ list \in Seq(Providers) /\ epoch \in Nat
      /\ bound \in [Providers -> Values] /\ made \in Seq(Instances)
      /\ stack' = [stack EXCEPT ![c] = sk] /\ status' = [status EXCEPT ![c] = "running"]
      /\ began' = [began EXCEPT ![c] = epoch] /\ UNCHANGED <<bound, made, epoch, result>>
      /\ stack \in [Calls -> Seq(Frame)] /\ began \in [Calls -> Nat]
      /\ status \in [Calls -> {"idle", "running"} \cup Ends]
  BY ResolverAssumption DEF Start, Inv, TypeOK, Values, Instances
<1>1. new \in Frame /\ Sound(new, bound, made, epoch) /\ Kept(new, bound)
  BY <1>0, NewFrameSound
<1>2. sk \in Seq(Frame) /\ sk # <<>> /\ GoodStack(sk, epoch, bound, made, epoch)
  <2> HIDE DEF new
  <2>1. sk = Append(<<>>, new)
    OBVIOUS
  <2>2. <<>> \in Seq(Frame) /\ GoodStack(<<>>, epoch, bound, made, epoch)
    BY GoodEmpty
  <2> HIDE DEF sk
  <2>3. QED
    BY <1>1, <2>1, <2>2, GoodAppend
<1> HIDE DEF sk
<1>3. TypeOK'
  BY <1>0, <1>2 DEF Inv, TypeOK
<1>4. ASSUME NEW d \in Calls
      PROVE  GoodCall(d, stack'[d], status'[d], result'[d], began'[d], bound', made', epoch')
  <2>1. CASE d = c
    <3>1. /\ stack'[d] = sk /\ status'[d] = "running" /\ began'[d] = epoch
          /\ bound' = bound /\ made' = made /\ epoch' = epoch
      BY <1>0, <2>1
    <3>2. QED
      BY <1>0, <1>2, <3>1 DEF GoodCall, GoodResult
  <2>2. CASE d # c
    <3>1. /\ stack'[d] = stack[d] /\ status'[d] = status[d] /\ result'[d] = result[d]
          /\ began'[d] = began[d] /\ bound' = bound /\ made' = made /\ epoch' = epoch
      BY <1>0, <2>2
    <3>2. QED
      BY <3>1 DEF Inv
  <2>3. QED
    BY <2>1, <2>2
<1>5. bound' = bound /\ made' = made /\ epoch' = epoch
  BY <1>0
<1>6. QED
  BY <1>3, <1>4, <1>5 DEF Inv

\* The next provider of a loop.
LEMMA ResolveNextInv ==
  ASSUME Inv, NEW c \in Calls, ResolveNext(c)
  PROVE  Inv'
<1> DEFINE f == Last(stack[c])
           p == Head(f.todo)
           l == Tail(f.todo)
           h == [f EXCEPT !.todo = Tail(@)]
<1>1. /\ status[c] = "running" /\ f.at \in {"deps", "inner", "wrap"} /\ f.todo # <<>>
      /\ Enter(c, h, p, Needs[p])
  BY DEF ResolveNext
<1>2. /\ f \in Frame /\ Sound(f, bound, made, epoch)
      /\ Fresh(Front(stack[c]), began[c], epoch) => Kept(f, bound)
  BY <1>1, Running
<1>3. f \in [prov : Providers, at : Stages, todo : Seq(Providers),
             got : [Providers -> Nat \cup {Unbound}], born : Nat, inst : Nat]
  BY <1>2 DEF Frame
<1>4. p \in Providers /\ l \in Seq(Providers)
  <2> HIDE DEF f
  <2>1. f.todo \in Seq(Providers)
    BY <1>3
  <2>2. QED
    BY <1>1, <2>1, HeadTailProperties
<1>5. Needs[p] \in Seq(Providers)
  BY <1>4, ResolverAssumption DEF Lists
<1>6. h = [prov |-> f.prov, at |-> f.at, todo |-> l, got |-> f.got,
           born |-> f.born, inst |-> f.inst]
  <2>1. h = [f EXCEPT !.todo = l]
    OBVIOUS
  <2> HIDE DEF h, f, l
  <2>2. QED
    BY ONLY <1>3, <2>1
<1>7. GoodTop(c, h)
  <2> HIDE DEF h, f, l
  <2>1. /\ h \in Frame /\ h.prov = f.prov /\ h.at = f.at /\ h.got = f.got /\ h.born = f.born
        /\ h.inst = f.inst
    BY <1>3, <1>4, <1>6 DEF Frame
  <2>2. Sound(h, bound, made, epoch) /\ (Kept(f, bound) => Kept(h, bound))
    BY <1>2, <2>1 DEF Sound, Kept
  <2>3. QED
    BY <1>2, <2>1, <2>2 DEF GoodTop
<1> HIDE DEF h, p
<1>8. QED
  BY <1>1, <1>4, <1>5, <1>7, EnterInv

\* The test of has: what is bound is returned, a value is awaited, a factory
\* resolves its providers, a class is constructed.
LEMMA CheckInv ==
  ASSUME Inv, NEW c \in Calls, Check(c)
  PROVE  Inv'
<1> DEFINE f == Last(stack[c])
           low == Front(stack[c])
<1>0. /\ status[c] = "running" /\ f.at = "deps"
      /\ \/ Has(f.prov) /\ Return(c, bound[f.prov])
         \/ Continue(c, [f EXCEPT !.at = "pending", !.born = epoch])
         \/ Continue(c, [f EXCEPT !.at = "inner", !.todo = Inner[f.prov]])
         \/ Build(c, f)
  BY DEF Check, Stands
<1>1. f \in Frame /\ Sound(f, bound, made, epoch)
  BY <1>0, Running
<1>2. /\ f \in [prov : Providers, at : Stages, todo : Seq(Providers),
                got : [Providers -> Nat \cup {Unbound}], born : Nat, inst : Nat]
      /\ epoch \in Nat
  BY <1>1 DEF Frame, Inv, TypeOK
<1>3. CASE Has(f.prov) /\ Return(c, bound[f.prov])
  <2> DEFINE v == bound[f.prov]
  <2>1. v \in 1..Len(made) /\ made[v].prov = f.prov
    BY <1>2, <1>3 DEF Inv, Bindings, Has
  <2>2. Return(c, v)
    BY <1>3
  <2>3. v = bound[f.prov]
    OBVIOUS
  <2> HIDE DEF v
  <2>4. QED
    BY <1>0, <2>1, <2>2, <2>3, ReturnInv
<1>4. CASE Continue(c, [f EXCEPT !.at = "pending", !.born = epoch])
  <2> DEFINE h == [f EXCEPT !.at = "pending", !.born = epoch]
  <2>1. h = [prov |-> f.prov, at |-> "pending", todo |-> f.todo, got |-> f.got,
             born |-> epoch, inst |-> f.inst]
    <3>1. h = [f EXCEPT !.at = "pending", !.born = epoch]
      OBVIOUS
    <3> HIDE DEF h, f
    <3>2. QED
      BY ONLY <1>2, <3>1
  <2>2. f.got = Nothing
    BY <1>0, <1>1 DEF Sound
  <2>3. Continue(c, h)
    BY <1>4
  <2>4. GoodTop(c, h)
    <3> HIDE DEF h, f
    <3>1. /\ h \in Frame /\ h.at = "pending" /\ h.got = Nothing /\ h.born = epoch
      BY <1>2, <2>1, <2>2 DEF Frame, Stages
    <3>2. QED
      BY <1>2, <3>1 DEF GoodTop, Sound, Kept, Nothing
  <2> HIDE DEF h
  <2>5. QED
    BY <1>0, <2>3, <2>4, ContinueInv
<1>5. CASE Continue(c, [f EXCEPT !.at = "inner", !.todo = Inner[f.prov]])
  <2> DEFINE l == Inner[f.prov]
             h == [f EXCEPT !.at = "inner", !.todo = l]
  <2>1. h = [prov |-> f.prov, at |-> "inner", todo |-> l, got |-> f.got,
             born |-> f.born, inst |-> f.inst]
    <3>1. h = [f EXCEPT !.at = "inner", !.todo = l]
      OBVIOUS
    <3> HIDE DEF h, f, l
    <3>2. QED
      BY ONLY <1>2, <3>1
  <2>2. l \in Seq(Providers) /\ "inner" \in Stages
    BY <1>2, ResolverAssumption DEF Lists, Stages
  <2>3. Continue(c, h)
    BY <1>5
  <2> HIDE DEF h, l
  <2>4. GoodTop(c, h)
    BY <1>0, <2>1, <2>2, TopMoves
  <2>5. QED
    BY <1>0, <2>3, <2>4, ContinueInv
<1>6. QED
  BY <1>0, <1>3, <1>4, <1>5, BuildInv

\* The constructor or the factory is called, the promise is fulfilled, a
\* property has its value, or afterConstruct is done.
LEMMA AwaitedInv ==
  ASSUME Inv, NEW c \in Calls, AfterInner(c) \/ Settle(c) \/ AfterProp(c) \/ AfterHook(c)
  PROVE  Inv'
<1> DEFINE f == Last(stack[c])
<1>1. status[c] = "running"
  BY DEF AfterInner, Settle, AfterProp, AfterHook, Stands
<1>2. /\ f \in Frame /\ Sound(f, bound, made, epoch)
      /\ Fresh(Front(stack[c]), began[c], epoch) => Kept(f, bound)
  BY <1>1, Running
<1>3. CASE AfterInner(c)
  BY <1>1, <1>3, BuildInv DEF AfterInner
<1>4. CASE Settle(c)
  <2>1. GoodTop(c, f) /\ BindAs(c, f)
    BY <1>2, <1>4 DEF GoodTop, Settle
  <2>2. f.prov = Last(stack[c]).prov
    OBVIOUS
  <2> HIDE DEF f
  <2>3. QED
    BY <1>1, <2>1, <2>2, BindInv
<1>5. CASE AfterProp(c)
  <2>1. f.at = "props" /\ RunProps(c, f) /\ f.prov = Last(stack[c]).prov
    BY <1>5 DEF AfterProp
  <2> HIDE DEF f
  <2>2. QED
    BY <1>1, <1>2, <2>1, RunPropsInv
<1>6. CASE AfterHook(c)
  <2> DEFINE v == f.inst
  <2>1. f.at = "hook" /\ Return(c, v)
    BY <1>6 DEF AfterHook, Stands
  <2>2. /\ v \in 1..Len(made) /\ made[v].prov = Last(stack[c]).prov
        /\ Fresh(Front(stack[c]), began[c], epoch) =>
               Last(stack[c]).prov \in MutableKeys \/ bound[Last(stack[c]).prov] = v
    BY <1>2, <2>1 DEF Sound, Kept
  <2> HIDE DEF v
  <2>3. QED
    BY <1>1, <2>1, <2>2, ReturnInv
<1>7. QED
  BY <1>3, <1>4, <1>5, <1>6

\* applyInterceptors asks for the binding and changes none.
LEMMA InterceptInv ==
  ASSUME Inv, NEW c \in Calls, Intercept(c)
  PROVE  Inv'
<1> DEFINE f == Last(stack[c])
           h == [f EXCEPT !.at = "hook"]
           l == f.todo
<1>1. status[c] = "running" /\ f.at = "wrap" /\ (Fail(c, "missing") \/ Continue(c, h))
  BY DEF Intercept, Stands
<1>2. CASE Fail(c, "missing")
  BY <1>2, FailInv
<1>3. CASE Continue(c, h)
  <2>1. f \in [prov : Providers, at : Stages, todo : Seq(Providers),
               got : [Providers -> Nat \cup {Unbound}], born : Nat, inst : Nat]
    BY <1>1, Running DEF Frame
  <2>2. h = [prov |-> f.prov, at |-> "hook", todo |-> l, got |-> f.got,
             born |-> f.born, inst |-> f.inst]
    <3>1. h = [f EXCEPT !.at = "hook"] /\ l = f.todo
      OBVIOUS
    <3> HIDE DEF h, f, l
    <3>2. QED
      BY ONLY <2>1, <3>1
  <2>3. "hook" \in Stages /\ "hook" # "deps" /\ l \in Seq(Providers) /\ Continue(c, h)
    BY <1>3, <2>1 DEF Stages
  <2>4. f.at \in {"wrap", "hook"}
    BY <1>1
  <2> HIDE DEF h, l
  <2>5. GoodTop(c, h)
    BY <1>1, <2>2, <2>3, <2>4, TopMoves
  <2>6. QED
    BY <1>1, <2>3, <2>5, ContinueInv
<1>4. QED
  BY <1>1, <1>2, <1>3

\* After a destroy nothing is bound, and no frame or call is of its epoch.
LEMMA DestroyInv ==
  ASSUME Inv, Destroy
  PROVE  Inv'
<1>0. /\ epoch \in Nat /\ epoch' = epoch + 1 /\ bound' = Nothing
      /\ UNCHANGED <<made, stack, status, result, began>>
      /\ \A p \in Providers : bound'[p] = Unbound
  BY DEF Destroy, Nothing, Inv, TypeOK
<1>1. TypeOK'
  BY <1>0 DEF Inv, TypeOK, Nothing
<1>2. Bindings(bound', made') /\ Wired(bound', made', epoch')
  BY <1>0 DEF Bindings, Wired
<1>3. ASSUME NEW c \in Calls
      PROVE  GoodCall(c, stack'[c], status'[c], result'[c], began'[c], bound', made', epoch')
  <2>1. /\ began[c] \in Nat /\ began[c] <= epoch
        /\ GoodStack(stack[c], began[c], bound, made, epoch)
        /\ GoodResult(status[c], result[c], began[c], bound, made, epoch)
        /\ stack[c] \in Seq(Frame)
    BY DEF Inv, TypeOK, GoodCall
  <2>2. began[c] <= epoch' /\ began[c] # epoch'
    BY <1>0, <2>1
  <2>3. \A i \in DOMAIN stack[c] : /\ Sound(stack[c][i], bound, made, epoch)
                                  /\ stack[c][i] \in Frame
    BY <2>1, LenProperties, ElementOfSeq DEF GoodStack
  <2>4. \A i \in DOMAIN stack[c] : stack[c][i].born <= epoch' /\ stack[c][i].born # epoch'
    BY <1>0, <2>3 DEF Sound, Frame
  <2>5. \A i \in DOMAIN stack[c] : Sound(stack[c][i], bound', made, epoch')
    BY <2>3, <2>4 DEF Sound
  <2>6. \A i \in DOMAIN stack[c] : \A j \in 1..i - 1 : j \in DOMAIN stack[c]
    BY <2>1, LenProperties
  <2>7. GoodStack(stack[c], began[c], bound', made, epoch')
    BY <2>2, <2>4, <2>5, <2>6 DEF GoodStack
  <2>8. GoodResult(status[c], result[c], began[c], bound', made, epoch')
    BY <2>1, <2>2 DEF GoodResult
  <2>9. QED
    BY <1>0, <2>2, <2>7, <2>8 DEF GoodCall
<1>4. QED
  BY <1>1, <1>2, <1>3 DEF Inv

-----------------------------------------------------------------------------
(* The theorems                                                            *)

\* Nothing is bound and no call has begun.
LEMMA InitInv == Init => Inv
<1> SUFFICES ASSUME Init
             PROVE  Inv
  OBVIOUS
<1>1. TypeOK
  BY EmptySeq DEF Init, TypeOK, Nothing
<1>2. Bindings(bound, made) /\ Wired(bound, made, epoch)
  BY DEF Init, Nothing, Bindings, Wired
<1>3. ASSUME NEW c \in Calls
      PROVE  GoodCall(c, stack[c], status[c], result[c], began[c], bound, made, epoch)
  BY GoodEmpty DEF Init, GoodCall, GoodResult
<1>4. QED
  BY <1>1, <1>2, <1>3 DEF Inv

\* Every step keeps the invariant.
LEMMA NextInv == Inv /\ [Next]_vars => Inv'
<1> SUFFICES ASSUME Inv, [Next]_vars
             PROVE  Inv'
  OBVIOUS
<1>1. ASSUME NEW c \in Calls, Step(c)
      PROVE  Inv'
  <2>1. CASE Reject(c)
    BY <2>1, FailInv DEF Reject
  <2>2. QED
    BY <1>1, <2>1, ResolveNextInv, CheckInv, AwaitedInv, InterceptInv DEF Step
<1>2. ASSUME NEW c \in Calls, NEW p \in Providers, NEW list \in Given[p], Start(c, p, list)
      PROVE  Inv'
  BY <1>2, StartInv
<1>3. CASE Destroy
  BY <1>3, DestroyInv
<1>4. CASE UNCHANGED vars
  BY <1>4 DEF vars, Inv, TypeOK
<1>5. QED
  BY <1>1, <1>2, <1>3, <1>4 DEF Next

\* The invariant of createAndResolve and destroy: whatever a frame has been
\* given since its constructor ran in this epoch is still bound.
THEOREM ResolverInvariance == Spec => []Inv
<1>1. QED
  BY InitInv, NextInv, PTL DEF Spec

\* A call has frames exactly while it runs, and every value is of its type.
THEOREM ResolverTypeOK == Spec => []TypeOK
<1>1. Inv => TypeOK
  BY DEF Inv
<1>2. QED
  BY <1>1, ResolverInvariance, PTL

\* What createAndResolve returned is what get answers until a destroy,
\* however the calls have interleaved.
THEOREM ResolverResultIsBinding == Spec => []ResultIsBinding
<1>1. Inv => ResultIsBinding
  BY DEF Inv, GoodCall, GoodResult, ResultIsBinding
<1>2. QED
  BY <1>1, ResolverInvariance, PTL

\* An instance made since the last destroy holds the bindings of its
\* injector, although it read them before an await and was bound after it.
THEOREM ResolverWiredToBindings == Spec => []WiredToBindings
<1>1. Inv => WiredToBindings
  BY DEF Inv, Wired, WiredToBindings, Has
<1>2. QED
  BY <1>1, ResolverInvariance, PTL

-----------------------------------------------------------------------------
(* The registry: what a step does to the bindings                          *)

\* set binds a free or mutable token to an instance, or it throws.
LEMMA BindAsBinds ==
  ASSUME TypeOK, NEW c, NEW f, f.prov \in Providers, BindAs(c, f)
  PROVE  bound' = bound \/ \E p \in Providers : Registry!Bind(p)
<1>1. CASE Has(f.prov) /\ f.prov \notin MutableKeys
  BY <1>1 DEF BindAs, Fail
<1>2. CASE ~(Has(f.prov) /\ f.prov \notin MutableKeys)
  <2>1. bound' = [bound EXCEPT ![f.prov] = Len(made) + 1]
    BY <1>2 DEF BindAs
  <2>2. Len(made) + 1 # Unbound /\ bound \in [Providers -> Nat \cup {Unbound}]
    BY LenProperties, ResolverAssumption DEF TypeOK
  <2>3. bound'[f.prov] = Len(made) + 1
    BY <2>1, <2>2
  <2>4. Registry!Bind(f.prov)
    BY <1>2, <2>1, <2>2, <2>3 DEF Registry!Bind, Has
  <2>5. QED
    BY <2>4
<1>3. QED
  BY <1>1, <1>2

\* The properties are read, or another is awaited, before the instance is bound.
LEMMA RunPropsBinds ==
  ASSUME TypeOK, NEW c, NEW f \in Frame, RunProps(c, f)
  PROVE  bound' = bound \/ \E p \in Providers : Registry!Bind(p)
<1>1. PICK n \in 0..Len(f.todo) :
        LET injected == {f.todo[i] : i \in 1..n}
            g == [f EXCEPT !.got = [p \in Providers |->
                                        IF p \in injected THEN bound[p] ELSE @[p]],
                           !.todo = SubSeq(@, n + 2, Len(@))]
        IN  IF \E p \in injected : ~Has(p) THEN Fail(c, "missing")
            ELSE IF n = Len(f.todo) THEN BindAs(c, g)
            ELSE Enter(c, g, f.todo[n + 1], <<>>)
  BY DEF RunProps
<1> DEFINE injected == {f.todo[i] : i \in 1..n}
           got == [p \in Providers |-> IF p \in injected THEN bound[p] ELSE f.got[p]]
           todo == SubSeq(f.todo, n + 2, Len(f.todo))
           g == [f EXCEPT !.got = [p \in Providers |->
                                       IF p \in injected THEN bound[p] ELSE @[p]],
                          !.todo = SubSeq(@, n + 2, Len(@))]
<1>2. g.prov = f.prov /\ f.prov \in Providers
  <2>1. f \in [prov : Providers, at : Stages, todo : Seq(Providers),
               got : [Providers -> Nat \cup {Unbound}], born : Nat, inst : Nat]
    BY DEF Frame
  <2>2. g = [f EXCEPT !.got = got, !.todo = todo]
    OBVIOUS
  <2> HIDE DEF got, todo, g
  <2>3. QED
    BY ONLY <2>1, <2>2
<1>3. CASE Fail(c, "missing") \/ Enter(c, g, f.todo[n + 1], <<>>)
  BY <1>3 DEF Fail, Enter
<1>4. CASE BindAs(c, g)
  <2> HIDE DEF g
  <2>1. QED
    BY <1>2, <1>4, BindAsBinds
<1>5. QED
  BY <1>1, <1>3, <1>4

\* So does a constructor; a factory is awaited first.
LEMMA BuildBinds ==
  ASSUME TypeOK, NEW c, NEW f \in Frame, Build(c, f)
  PROVE  bound' = bound \/ \E p \in Providers : Registry!Bind(p)
<1> DEFINE args == IF Kind[f.prov] = "class" THEN Needs[f.prov] ELSE Inner[f.prov]
           got == [p \in Providers |-> IF p \in ToSet(args) THEN bound[p] ELSE Unbound]
           g == [f EXCEPT !.got = got, !.born = epoch]
           l == Props[f.prov]
           h == [g EXCEPT !.at = "props", !.todo = l]
<1>1. Fail(c, "missing") \/ RunProps(c, h) \/ Continue(c, [g EXCEPT !.at = "pending"])
  BY DEF Build
<1>2. /\ f \in [prov : Providers, at : Stages, todo : Seq(Providers),
                got : [Providers -> Nat \cup {Unbound}], born : Nat, inst : Nat]
      /\ got \in [Providers -> Nat \cup {Unbound}] /\ l \in Seq(Providers) /\ epoch \in Nat
  BY ResolverAssumption DEF Frame, TypeOK, Lists
<1>3. h \in Frame
  <2>1. g = [f EXCEPT !.got = got, !.born = epoch] /\ h = [g EXCEPT !.at = "props", !.todo = l]
    OBVIOUS
  <2> HIDE DEF got, l, g, h
  <2>2. h = [prov |-> f.prov, at |-> "props", todo |-> l, got |-> got,
             born |-> epoch, inst |-> f.inst]
    BY ONLY <1>2, <2>1
  <2>3. QED
    BY <1>2, <2>2 DEF Frame, Stages
<1>4. CASE Fail(c, "missing") \/ Continue(c, [g EXCEPT !.at = "pending"])
  BY <1>4 DEF Fail, Continue
<1>5. CASE RunProps(c, h)
  <2> HIDE DEF h
  <2>1. QED
    BY <1>3, <1>5, RunPropsBinds
<1>6. QED
  BY <1>1, <1>4, <1>5

\* The innermost frame of a call that runs is a frame.
LEMMA StepBinds ==
  ASSUME TypeOK, NEW c \in Calls, Step(c)
  PROVE  bound' = bound \/ \E p \in Providers : Registry!Bind(p)
<1>1. status[c] = "running" => Last(stack[c]) \in Frame /\ Last(stack[c]).prov \in Providers
  <2> SUFFICES ASSUME status[c] = "running"
               PROVE  Last(stack[c]) \in Frame
    BY DEF Frame
  <2>1. stack[c] \in Seq(Frame) /\ stack[c] # <<>>
    BY DEF TypeOK
  <2>2. QED
    BY <2>1, FrontLast
<1>2. CASE ResolveNext(c) \/ Intercept(c) \/ AfterHook(c) \/ Reject(c)
  BY <1>2 DEF ResolveNext, Enter, Intercept, Continue, AfterHook, Return, Reject, Fail
<1>3. CASE Check(c)
  <2>1. status[c] = "running" /\ (UNCHANGED bound \/ Build(c, Last(stack[c])))
    BY <1>3 DEF Check, Stands, Return, Continue
  <2>2. QED
    BY <1>1, <2>1, BuildBinds
<1>4. CASE AfterInner(c)
  BY <1>1, <1>4, BuildBinds DEF AfterInner, Stands
<1>5. CASE Settle(c)
  BY <1>1, <1>5, BindAsBinds DEF Settle, Stands
<1>6. CASE AfterProp(c)
  BY <1>1, <1>6, RunPropsBinds DEF AfterProp
<1>7. QED
  BY <1>2, <1>3, <1>4, <1>5, <1>6 DEF Step

\* However calls interleave, a token is bound once until the injector is
\* destroyed: createAndResolve and destroy implement the registry.
THEOREM ResolverBindingsAreImmutable == Spec => BindingsAreImmutable
<1>1. Init => Registry!Init
  BY DEF Init, Nothing, Registry!Init
<1>2. TypeOK /\ [Next]_vars => [Registry!Next]_bound
  <2> SUFFICES ASSUME TypeOK, [Next]_vars
               PROVE  [Registry!Next]_bound
    OBVIOUS
  <2>1. ASSUME NEW c \in Calls, Step(c)
        PROVE  [Registry!Next]_bound
    BY <2>1, StepBinds DEF Registry!Next
  <2>2. ASSUME NEW c \in Calls, NEW p \in Providers, NEW list \in Given[p], Start(c, p, list)
        PROVE  bound' = bound
    BY <2>2 DEF Start
  <2>3. CASE Destroy
    BY <2>3 DEF Destroy, Nothing, Registry!Next, Registry!Clear
  <2>4. CASE UNCHANGED vars
    BY <2>4 DEF vars
  <2>5. QED
    BY <2>1, <2>2, <2>3, <2>4 DEF Next
<1>3. QED
  BY <1>1, <1>2, ResolverTypeOK, PTL DEF Spec, BindingsAreImmutable, Registry!Spec

-----------------------------------------------------------------------------
(* Some call survives.  While no instance needs interceptors, whatever a    *)
(* bound token was made from is bound, and there is always a call that is   *)
(* not lost and has in the making only tokens that are still free.          *)

Making == {"inner", "pending", "props"}

There(bd) == {p \in Providers : bd[p] # Unbound}

\* What has to be there before p is bound.
Requires(p) ==
    IF Kind[p] = "value" THEN {}
    ELSE IF Kind[p] = "factory" THEN ToSet(Inner[p])
    ELSE ToSet(Needs[p]) \cup ToSet(Inner[p]) \cup ToSet(Props[p])

Closed(bd) == \A p \in There(bd) : Requires(p) \subseteq There(bd)

\* The i-th frame of a call awaits w and has its todo before it.
Ordered(f, i, w, bd) ==
    /\ f.at = "deps" /\ i > 1 => ToSet(f.todo) \cup w \subseteq ToSet(Needs[f.prov])
    /\ f.at = "inner" =>
          /\ Kind[f.prov] # "value" /\ ToSet(f.todo) \cup w \subseteq ToSet(Inner[f.prov])
          /\ ToSet(Inner[f.prov]) \subseteq ToSet(f.todo) \cup w \cup There(bd)
    /\ f.at = "pending" =>
          Kind[f.prov] # "class" /\ w = {} /\ Requires(f.prov) \subseteq There(bd)
    /\ f.at = "props" =>
          /\ Kind[f.prov] = "class" /\ ToSet(f.todo) \cup w \subseteq ToSet(Props[f.prov])
          /\ ToSet(Needs[f.prov]) \cup ToSet(Inner[f.prov]) \subseteq There(bd)
          /\ ToSet(Props[f.prov]) \subseteq ToSet(f.todo) \cup w \cup There(bd)
    /\ f.at \in {"wrap", "hook"} => w = {} /\ f.todo = <<>> /\ f.prov \in There(bd)

\* The frames s of a call, of which the innermost awaits w.
Awaited(s, i, w) == IF i < Len(s) THEN {s[i + 1].prov} ELSE w
Steady(s, w, bd) == \A i \in DOMAIN s : Ordered(s[i], i, Awaited(s, i, w), bd)

\* A token that the frame has in the making is free.
Free(f, bd) == f.at \in Making /\ f.prov \notin MutableKeys => f.prov \notin There(bd)
Open(s, bd) == \A i \in DOMAIN s : Free(s[i], bd)

NoInterceptors == \A n \in DOMAIN made : Wraps[made[n].prov] = <<>>

SurvivorInv ==
    epoch = 0 /\ NoInterceptors =>
        /\ Closed(bound) /\ \A c \in Calls : Steady(stack[c], {}, bound)
        /\ \E c \in Calls : status[c] # "lost" /\ Open(stack[c], bound)

-----------------------------------------------------------------------------
(* Stacks of which each frame makes what the one below it awaits           *)

\* What is below the innermost frame awaits that frame.
LEMMA SteadyFront ==
  ASSUME NEW s \in Seq(Frame), s # <<>>, NEW w, NEW bd, Steady(s, w, bd)
  PROVE  /\ Steady(Front(s), {Last(s).prov}, bd)
         /\ Ordered(Last(s), Len(s), w, bd)
<1>0. /\ Len(s) \in Nat \ {0} /\ DOMAIN s = 1..Len(s) /\ Last(s) = s[Len(s)]
      /\ DOMAIN Front(s) = 1..Len(s) - 1 /\ Len(Front(s)) = Len(s) - 1
      /\ \A i \in 1..Len(s) - 1 : Front(s)[i] = s[i]
  BY FrontLast
<1>1. ASSUME NEW i \in DOMAIN Front(s)
      PROVE  Ordered(Front(s)[i], i, Awaited(Front(s), i, {Last(s).prov}), bd)
  <2>1. /\ i \in DOMAIN s /\ Front(s)[i] = s[i]
        /\ Awaited(Front(s), i, {Last(s).prov}) = Awaited(s, i, w)
    <3>1. CASE i < Len(s) - 1
      BY <1>0, <3>1 DEF Awaited
    <3>2. CASE i = Len(s) - 1
      BY <1>0, <3>2 DEF Awaited
    <3>3. QED
      BY <1>0, <3>1, <3>2
  <2>2. QED
    BY <2>1 DEF Steady
<1>2. Len(s) \in DOMAIN s /\ Awaited(s, Len(s), w) = w
  BY <1>0 DEF Awaited
<1>3. QED
  BY <1>0, <1>1, <1>2 DEF Steady

\* A frame that makes what the stack awaits may be pushed.
LEMMA SteadyAppend ==
  ASSUME NEW s \in Seq(Frame), NEW w, NEW bd, NEW f \in Frame,
         Steady(s, {f.prov}, bd), Ordered(f, Len(s) + 1, w, bd)
  PROVE  Append(s, f) \in Seq(Frame) /\ Steady(Append(s, f), w, bd)
<1>0. /\ Append(s, f) \in Seq(Frame) /\ Len(Append(s, f)) = Len(s) + 1
      /\ \A i \in 1..Len(s) : Append(s, f)[i] = s[i]
      /\ Append(s, f)[Len(s) + 1] = f
      /\ Len(s) \in Nat /\ DOMAIN s = 1..Len(s) /\ DOMAIN Append(s, f) = 1..Len(s) + 1
  BY AppendProperties, LenProperties
<1> DEFINE t == Append(s, f)
<1>1. ASSUME NEW i \in DOMAIN t
      PROVE  Ordered(t[i], i, Awaited(t, i, w), bd)
  <2>1. CASE i \in 1..Len(s)
    <3>1. i \in DOMAIN s /\ t[i] = s[i]
      BY <1>0, <2>1
    <3>2. CASE i < Len(s)
      <4>1. Awaited(t, i, w) = {t[i + 1].prov} /\ t[i + 1] = s[i + 1]
        BY <1>0, <2>1, <3>2 DEF Awaited
      <4>2. Awaited(s, i, {f.prov}) = {s[i + 1].prov}
        BY <3>2 DEF Awaited
      <4>3. QED
        BY <3>1, <4>1, <4>2 DEF Steady
    <3>3. CASE i = Len(s)
      <4>1. Awaited(t, i, w) = {f.prov} /\ Awaited(s, i, {f.prov}) = {f.prov}
        BY <1>0, <2>1, <3>3 DEF Awaited
      <4>2. QED
        BY <3>1, <4>1 DEF Steady
    <3>4. QED
      BY <1>0, <2>1, <3>2, <3>3
  <2>2. CASE i = Len(s) + 1
    BY <1>0, <2>2 DEF Awaited
  <2>3. QED
    BY <1>0, <2>1, <2>2
<1>2. QED
  BY <1>0, <1>1 DEF Steady

\* More bindings leave a stack steady, and so does the value it awaits.
LEMMA SteadyMore ==
  ASSUME NEW s, NEW w, NEW w2, NEW bd, NEW bd2, Steady(s, w, bd),
         There(bd) \subseteq There(bd2), w2 \subseteq w, w \ w2 \subseteq There(bd2)
  PROVE  Steady(s, w2, bd2)
<1> SUFFICES ASSUME NEW i \in DOMAIN s
             PROVE  Ordered(s[i], i, Awaited(s, i, w2), bd2)
  BY DEF Steady
<1> DEFINE v == Awaited(s, i, w)
           v2 == Awaited(s, i, w2)
<1>1. v2 \subseteq v /\ v \ v2 \subseteq There(bd2)
  BY DEF Awaited
<1>2. Ordered(s[i], i, v, bd)
  BY DEF Steady
<1> HIDE DEF v, v2
<1>3. QED
  BY <1>1, <1>2 DEF Ordered, v, v2

\* If the token of a frame is there, then so is what is above it, up to the
\* innermost frame.
LEMMA Chain ==
  ASSUME NEW s \in Seq(Frame), NEW bd, Steady(s, {}, bd), Closed(bd),
         NEW i \in DOMAIN s, s[i].prov \in There(bd), i > 1 \/ s[i].at # "deps"
  PROVE  s[Len(s)].prov \in There(bd)
<1>0. /\ Len(s) \in Nat /\ DOMAIN s = 1..Len(s) /\ i \in Nat
      /\ \A j \in DOMAIN s : s[j] \in Frame
  BY LenProperties, ElementOfSeq
<1> DEFINE B == {j \in i..Len(s) : s[j].prov \notin There(bd)}
<1>1. SUFFICES ASSUME B # {}
               PROVE  FALSE
  BY <1>0
<1>2. PICK j \in B : \A m \in B : j <= m
  <2>1. B \in SUBSET Nat
    BY <1>0
  <2>2. PICK j \in B : \A m \in B : <<m, j>> \notin OpToRel(<, Nat)
    <3> HIDE DEF B
    <3>1. QED
      BY <1>1, <2>1, NatLessThanWellFounded, WFMin
  <2>3. \A m \in B : ~ m < j
    BY <2>1, <2>2 DEF OpToRel
  <2>4. QED
    BY <2>1, <2>3
<1> DEFINE k == j - 1
           f == s[k]
           q == s[j].prov
<1>3. /\ k \in i..Len(s) /\ k \in DOMAIN s /\ k + 1 = j /\ k < Len(s) /\ f.prov \in There(bd)
      /\ k > 1 \/ f.at # "deps"
  BY <1>0, <1>2
<1>4. Ordered(f, k, {q}, bd) /\ q \notin There(bd)
  BY <1>2, <1>3 DEF Steady, Awaited
<1>5. Requires(f.prov) \subseteq There(bd) /\ f.prov \in Providers /\ f.at \in Stages
  <2>1. f \in Frame
    BY <1>0, <1>3
  <2>2. QED
    BY <1>3, <2>1 DEF Closed, Frame
<1>6. Kind[f.prov] \in {"class", "value", "factory"}
  BY <1>5, ResolverAssumption
<1>7. ToSet(Needs[f.prov]) # {} => Kind[f.prov] = "class"
  <2>1. Kind[f.prov] # "class" => Needs[f.prov] = <<>>
    BY <1>5, ResolverAssumption
  <2>2. QED
    BY <2>1 DEF ToSet
<1>8. q \notin Requires(f.prov)
  BY <1>4, <1>5
<1> HIDE DEF f, q, k
<1>9. QED
  BY <1>3, <1>4, <1>5, <1>6, <1>7, <1>8 DEF Ordered, Requires, Stages

\* An open stack is open without its innermost frame,
LEMMA OpenFront ==
  ASSUME NEW s \in Seq(Frame), s # <<>>, NEW bd, Open(s, bd)
  PROVE  Open(Front(s), bd) /\ Free(Last(s), bd)
<1>1. /\ Len(s) \in DOMAIN s /\ Last(s) = s[Len(s)]
      /\ \A i \in DOMAIN Front(s) : i \in DOMAIN s /\ Front(s)[i] = s[i]
  BY FrontLast
<1>2. QED
  BY <1>1 DEF Open

\* and with another one that has a free token in the making.
LEMMA OpenAppend ==
  ASSUME NEW s \in Seq(Frame), NEW f \in Frame, NEW bd, Open(s, bd), Free(f, bd)
  PROVE  Open(Append(s, f), bd)
<1> DEFINE t == Append(s, f)
<1>1. \A i \in DOMAIN t : t[i] = f \/ (i \in DOMAIN s /\ t[i] = s[i])
  BY AppendProperties, LenProperties
<1> HIDE DEF t
<1>2. Open(t, bd)
  BY <1>1 DEF Open
<1>3. QED
  BY <1>2 DEF t

-----------------------------------------------------------------------------
(* What a step of one call does                                            *)

\* Tokens are bound after what they are made from.  A call that binds a free
\* token is open then, and an open call stays so.
Moves(c) ==
    /\ There(bound) \subseteq There(bound') /\ Closed(bound')
    /\ Steady(stack'[c], {}, bound')
    /\ There(bound') # There(bound) \/ (status[c] # "lost" /\ Open(stack[c], bound)) =>
           status'[c] # "lost" /\ Open(stack'[c], bound')
    /\ \A d \in Calls \ {c} : stack'[d] = stack[d] /\ status'[d] = status[d]

\* Before a step of a call that runs.
Ready(c) ==
    /\ Inv /\ Closed(bound) /\ c \in Calls /\ status[c] = "running"
    /\ Steady(stack[c], {}, bound)

\* A frame that may take the place of the innermost one and await w.
Fits(c, g, w) ==
    /\ g \in Frame /\ g.prov = Last(stack[c]).prov
    /\ Ordered(g, Len(stack[c]), w, bound)
    /\ Open(stack[c], bound) => Free(g, bound)

\* The stack with such a frame.
LEMMA FitsStack ==
  ASSUME NEW c, Ready(c), NEW g, NEW w, Fits(c, g, w)
  PROVE  /\ Append(Front(stack[c]), g) \in Seq(Frame)
         /\ Len(Append(Front(stack[c]), g)) = Len(stack[c])
         /\ Steady(Append(Front(stack[c]), g), w, bound)
         /\ Open(stack[c], bound) => Open(Append(Front(stack[c]), g), bound)
<1> DEFINE s == stack[c]
           low == Front(s)
<1>1. /\ s \in Seq(Frame) /\ s # <<>> /\ Steady(s, {}, bound)
      /\ low \in Seq(Frame) /\ Len(low) = Len(s) - 1 /\ Len(s) \in Nat \ {0}
  BY Running DEF Ready
<1> HIDE DEF s
<1>2. Steady(low, {g.prov}, bound)
  BY <1>1, SteadyFront DEF Fits, s
<1>3. Open(s, bound) => Open(low, bound)
  BY <1>1, OpenFront
<1> HIDE DEF low
<1>4. g \in Frame /\ Ordered(g, Len(low) + 1, w, bound) /\ Len(low) + 1 = Len(s)
  BY <1>1 DEF Fits, s
<1>5. /\ Append(low, g) \in Seq(Frame) /\ Steady(Append(low, g), w, bound)
      /\ Len(Append(low, g)) = Len(s)
  BY <1>1, <1>2, <1>4, SteadyAppend, AppendProperties
<1>6. Open(s, bound) => Open(Append(low, g), bound)
  BY <1>1, <1>3, <1>4, OpenAppend DEF Fits, s
<1>7. QED
  BY <1>5, <1>6 DEF s, low

\* A step that leaves the injector as it is.
LEMMA MovesAlone ==
  ASSUME NEW c, Ready(c), UNCHANGED <<bound, made>>, NEW s, NEW st,
         stack' = [stack EXCEPT ![c] = s], status' = [status EXCEPT ![c] = st],
         Steady(s, {}, bound), Open(stack[c], bound) => st # "lost" /\ Open(s, bound)
  PROVE  Moves(c)
<1>1. stack'[c] = s /\ status'[c] = st /\ status[c] # "lost"
  BY DEF Ready, Inv, TypeOK
<1>2. \A d \in Calls \ {c} : stack'[d] = stack[d] /\ status'[d] = status[d]
  BY DEF Ready, Inv, TypeOK
<1>3. QED
  BY <1>1, <1>2 DEF Moves, Ready

\* A rejection: a call loses only if it is not open.
LEMMA FailMoves ==
  ASSUME NEW c, Ready(c), NEW why, Fail(c, why), Open(stack[c], bound) => why # "lost"
  PROVE  Moves(c)
<1>1. Steady(<<>>, {}, bound) /\ Open(<<>>, bound)
  BY DEF Steady, Open
<1>2. UNCHANGED <<bound, made>>
  BY DEF Fail
<1>3. QED
  BY <1>1, <1>2, MovesAlone DEF Fail

\* The call goes on in another frame,
LEMMA ContinueMoves ==
  ASSUME NEW c, Ready(c), NEW g, Fits(c, g, {}), Continue(c, g)
  PROVE  Moves(c)
<1> DEFINE s == Append(Front(stack[c]), g)
<1>1. /\ UNCHANGED <<bound, made>> /\ stack' = [stack EXCEPT ![c] = s]
      /\ status' = [status EXCEPT ![c] = "running"]
  BY DEF Continue, Replace, Ready, Inv, TypeOK
<1>2. Steady(s, {}, bound) /\ (Open(stack[c], bound) => Open(s, bound))
  BY FitsStack
<1> HIDE DEF s
<1>3. QED
  BY <1>1, <1>2, MovesAlone

\* or awaits a provider whose constructor parameters come first.
LEMMA EnterMoves ==
  ASSUME NEW c, Ready(c), NEW g, NEW p \in Providers, Fits(c, g, {p}),
         NEW list \in Seq(Providers), ToSet(list) \subseteq ToSet(Needs[p]), Enter(c, g, p, list)
  PROVE  Moves(c)
<1> DEFINE low == Append(Front(stack[c]), g)
           new == NewFrame(p, list)
           s == Append(low, new)
<1>1. /\ UNCHANGED <<bound, made>> /\ stack' = [stack EXCEPT ![c] = s]
      /\ status' = [status EXCEPT ![c] = "running"]
  BY DEF Enter, Ready, Inv, TypeOK
<1>2. /\ low \in Seq(Frame) /\ Steady(low, {p}, bound)
      /\ Open(stack[c], bound) => Open(low, bound)
  BY FitsStack
<1>3. new \in Frame /\ new.prov = p /\ new.at = "deps" /\ new.todo = list
  BY DEF NewFrame, Frame, Stages, Nothing
<1> HIDE DEF low, new
<1>4. Ordered(new, Len(low) + 1, {}, bound) /\ Free(new, bound)
  BY <1>3 DEF Ordered, Free, Making
<1>5. Steady(s, {}, bound) /\ (Open(stack[c], bound) => Open(s, bound))
  BY <1>2, <1>3, <1>4, SteadyAppend, OpenAppend
<1> HIDE DEF s
<1>6. QED
  BY <1>1, <1>5, MovesAlone

\* A property that is received changes what the frame was given, only.
LEMMA ReceiveFits ==
  ASSUME NEW f \in Frame, NEW p \in Providers, NEW v \in Nat
  PROVE  LET g == Receive(f, p, v)
         IN  g \in Frame /\ g.prov = f.prov /\ g.at = f.at /\ g.todo = f.todo
<1> DEFINE g == Receive(f, p, v)
           got == [f.got EXCEPT ![p] = v]
<1>1. /\ f \in [prov : Providers, at : Stages, todo : Seq(Providers),
                got : [Providers -> Nat \cup {Unbound}], born : Nat, inst : Nat]
      /\ got \in [Providers -> Nat \cup {Unbound}]
  BY DEF Frame
<1>2. CASE f.at = "props"
  <2>1. g = [f EXCEPT !.got = got]
    BY <1>2 DEF Receive
  <2> HIDE DEF g, got
  <2>2. g = [prov |-> f.prov, at |-> f.at, todo |-> f.todo, got |-> got,
             born |-> f.born, inst |-> f.inst]
    BY ONLY <1>1, <2>1
  <2>3. g \in Frame /\ g.prov = f.prov /\ g.at = f.at /\ g.todo = f.todo
    BY <1>1, <2>2 DEF Frame
  <2>4. QED
    BY <2>3 DEF g
<1>3. QED
  BY <1>2 DEF Receive

\* The innermost frame ends when its token is there: the one below resumes.
LEMMA GiveMoves ==
  ASSUME NEW c, Ready(c), NEW v \in Nat, Give(c, v),
         There(bound) \subseteq There(bound'), Closed(bound'),
         Last(stack[c]).prov \in There(bound'),
         There(bound') # There(bound) \/ Open(stack[c], bound) => Open(Front(stack[c]), bound')
  PROVE  Moves(c)
<1> DEFINE s == stack[c]
           low == Front(s)
           p == Last(s).prov
           wake == There(bound') # There(bound) \/ Open(s, bound)
<1>1. /\ s \in Seq(Frame) /\ s # <<>> /\ Len(s) \in Nat \ {0} /\ Steady(s, {}, bound)
      /\ low \in Seq(Frame) /\ Len(low) = Len(s) - 1 /\ p \in Providers
      /\ stack \in [Calls -> Seq(Frame)] /\ DOMAIN status = Calls /\ status[c] = "running"
      /\ c \in Calls
  BY Running DEF Ready, Inv, TypeOK, Frame
<1>2. \A d \in Calls \ {c} : stack'[d] = stack[d] /\ status'[d] = status[d]
  BY <1>1 DEF Give
<1>3. CASE Len(s) = 1
  <2>1. stack'[c] = <<>> /\ status'[c] = "done"
    BY <1>1, <1>3 DEF Give
  <2>2. Steady(<<>>, {}, bound') /\ Open(<<>>, bound')
    BY DEF Steady, Open
  <2>3. QED
    BY <1>2, <2>1, <2>2 DEF Moves
<1>4. CASE Len(s) # 1
  <2> DEFINE f == Last(low)
             g == Receive(f, p, v)
             t == Append(Front(low), g)
  <2>1. stack'[c] = t /\ status'[c] = "running"
    BY <1>1, <1>4 DEF Give
  <2>2. low # <<>>
    <3>1. Len(low) # 0
      BY <1>1, <1>4
    <3> HIDE DEF low
    <3>2. QED
      BY <3>1, EmptySeq
  <2>3. Steady(low, {}, bound')
    <3>1. Steady(low, {p}, bound)
      <4> HIDE DEF s
      <4>1. QED
        BY <1>1, SteadyFront
    <3>2. {p} \ {} \subseteq There(bound') /\ {} \subseteq {p}
      OBVIOUS
    <3> HIDE DEF low, p
    <3>3. QED
      BY <3>1, <3>2, SteadyMore
  <2>4. /\ f \in Frame /\ Front(low) \in Seq(Frame) /\ Len(Front(low)) + 1 = Len(low)
        /\ Steady(Front(low), {f.prov}, bound') /\ Ordered(f, Len(low), {}, bound')
        /\ wake => Open(Front(low), bound') /\ Free(f, bound')
    <3>1. wake => Open(low, bound')
      OBVIOUS
    <3> HIDE DEF low, wake
    <3>2. /\ f \in Frame /\ Front(low) \in Seq(Frame) /\ Len(Front(low)) = Len(low) - 1
          /\ Len(low) \in Nat
      BY <1>1, <2>2, FrontLast
    <3>3. QED
      BY <1>1, <2>2, <2>3, <3>1, <3>2, SteadyFront, OpenFront
  <2>5. g \in Frame /\ g.prov = f.prov /\ g.at = f.at /\ g.todo = f.todo
    <3> HIDE DEF low, p
    <3>1. QED
      BY <1>1, <2>4, ReceiveFits
  <2> HIDE DEF g
  <2>6. Ordered(g, Len(Front(low)) + 1, {}, bound') /\ (wake => Free(g, bound'))
    <3> HIDE DEF low, wake
    <3>1. QED
      BY <2>4, <2>5 DEF Ordered, Free
  <2>7. Steady(t, {}, bound') /\ (wake => Open(t, bound'))
    <3> HIDE DEF low, wake
    <3>1. QED
      BY <2>4, <2>5, <2>6, SteadyAppend, OpenAppend
  <2> HIDE DEF t
  <2>8. QED
    BY <1>2, <2>1, <2>7 DEF Moves
<1>5. QED
  BY <1>3, <1>4

\* When the token that the innermost frame makes is free, so are those that
\* the frames below have in the making, even after it is bound: one of them
\* that were the same would have awaited what is there already.
LEMMA BindOpens ==
  ASSUME NEW s \in Seq(Frame), s # <<>>, NEW bd, NEW bd2, NEW p \in Providers,
         Steady(s, {}, bd), Closed(bd), p = Last(s).prov, p \notin There(bd),
         Requires(p) \subseteq There(bd), There(bd2) = There(bd) \cup {p}
  PROVE  Open(Front(s), bd2)
<1>0. /\ Len(s) \in Nat \ {0} /\ DOMAIN s = 1..Len(s) /\ p = s[Len(s)].prov
      /\ DOMAIN Front(s) = 1..Len(s) - 1 /\ \A i \in 1..Len(s) - 1 : Front(s)[i] = s[i]
      /\ \A i \in DOMAIN s : s[i] \in Frame
  BY FrontLast, ElementOfSeq
<1>1. SUFFICES ASSUME NEW i \in 1..Len(s) - 1, s[i].at \in Making, s[i].prov \in There(bd2)
               PROVE  FALSE
  BY <1>0 DEF Open, Free
<1> DEFINE f == s[i]
           q == s[i + 1].prov
<1>2. i \in DOMAIN s /\ i + 1 \in DOMAIN s /\ i + 1 > 1 /\ f.at # "deps"
  BY <1>0, <1>1 DEF Making
<1>3. CASE f.prov \in There(bd)
  BY <1>0, <1>2, <1>3, Chain
<1>4. CASE f.prov = p
  <2>1. Ordered(f, i, {q}, bd)
    <3>1. i < Len(s)
      BY <1>0, <1>1
    <3>2. Awaited(s, i, {}) = {q}
      BY <3>1 DEF Awaited
    <3>3. QED
      BY <1>2, <3>2 DEF Steady
  <2>2. Kind[p] \in {"class", "value", "factory"}
    BY ResolverAssumption
  <2>3. q \in Requires(p)
    <3> HIDE DEF f, q
    <3>1. f.at \in Making
      BY <1>1 DEF f
    <3>2. QED
      BY <1>4, <2>1, <2>2, <3>1 DEF Ordered, Requires, Making
  <2>4. QED
    BY <1>0, <1>2, <2>3, Chain
<1>5. QED
  BY <1>1, <1>3, <1>4

\* set in the innermost frame, when everything its token is made from is there.
LEMMA BindMoves ==
  ASSUME NEW c, Ready(c), NoInterceptors', NEW g, Fits(c, g, {}), g.at \in Making,
         Requires(g.prov) \subseteq There(bound), BindAs(c, g)
  PROVE  Moves(c)
<1> DEFINE s == stack[c]
           low == Front(s)
           p == g.prov
           n == Len(made) + 1
           new == [prov |-> g.prov, born |-> g.born, got |-> g.got]
<1>a. g \in Frame /\ p = Last(s).prov /\ Inv /\ status[c] = "running" /\ c \in Calls
  BY DEF Ready, Fits
<1>b. p \in Providers
  BY <1>a DEF Frame
<1>0. /\ s \in Seq(Frame) /\ s # <<>> /\ Steady(s, {}, bound) /\ Len(s) \in Nat \ {0}
      /\ low \in Seq(Frame) /\ Len(low) + 1 = Len(s) /\ p \in Providers /\ p = Last(s).prov
      /\ g \in Frame /\ Closed(bound)
  BY <1>a, <1>b, Running DEF Ready
<1>1. CASE Has(p) /\ p \notin MutableKeys
  <2>1. Fail(c, "lost")
    BY <1>1 DEF BindAs
  <2>2. ~ Open(s, bound)
    BY <1>0, <1>1 DEF Fits, Free, There, Has
  <2>3. QED
    BY <2>1, <2>2, FailMoves
<1>2. CASE ~(Has(p) /\ p \notin MutableKeys)
  <2>0. /\ made' = Append(made, new) /\ bound' = [bound EXCEPT ![p] = n]
        /\ IF Kind[p] = "class"
           THEN /\ Replace(c, [g EXCEPT !.at = "wrap", !.todo = Wraps[g.prov], !.inst = n])
                /\ UNCHANGED status
           ELSE Give(c, n)
    BY <1>2 DEF BindAs
  <2>1. /\ made \in Seq(Instances) /\ new \in Instances /\ new.prov = p
        /\ bound \in [Providers -> Values] /\ Len(made) \in Nat
    BY <1>0, LenProperties DEF Ready, Inv, TypeOK, Values, Instances, Frame
  <2>2. /\ n \in DOMAIN made' /\ made'[n].prov = p /\ n \in Nat
    <3> HIDE DEF new
    <3>1. QED
      BY <2>0, <2>1, AppendProperties, LenProperties
  <2>3. Wraps[p] = <<>>
    BY <2>2 DEF NoInterceptors
  <2>4. There(bound') = There(bound) \cup {p}
    <3>1. n # Unbound
      BY <2>2, ResolverAssumption
    <3> HIDE DEF n
    <3>2. QED
      BY <1>0, <2>0, <2>1, <3>1 DEF There
  <2>5. There(bound) \subseteq There(bound') /\ p \in There(bound') /\ Closed(bound')
    BY <1>0, <2>4 DEF Closed
  <2>6. There(bound') # There(bound) \/ Open(s, bound) => Open(low, bound')
    <3>1. CASE p \in There(bound)
      <4>1. There(bound') = There(bound)
        BY <2>4, <3>1
      <4> HIDE DEF s
      <4>2. Open(s, bound) => Open(low, bound)
        BY <1>0, OpenFront
      <4> HIDE DEF low
      <4>3. QED
        BY <4>1, <4>2 DEF Open, Free
    <3>2. CASE p \notin There(bound)
      <4> HIDE DEF s, p
      <4>1. QED
        BY <1>0, <2>4, <3>2, BindOpens DEF p
    <3>3. QED
      BY <3>1, <3>2
  <2>7. CASE Kind[p] # "class"
    <3>1. Give(c, n)
      BY <2>0, <2>7
    <3> HIDE DEF n
    <3>2. QED
      BY <1>0, <2>2, <2>5, <2>6, <3>1, GiveMoves
  <2>8. CASE Kind[p] = "class"
    <3> DEFINE w == Wraps[p]
               h == [g EXCEPT !.at = "wrap", !.todo = w, !.inst = n]
               t == Append(low, h)
    <3>1. stack' = [stack EXCEPT ![c] = t] /\ status' = status
      BY <2>0, <2>3, <2>8 DEF Replace
    <3>2. h \in Frame /\ h.prov = p /\ h.at = "wrap" /\ h.todo = <<>>
      <4>1. g \in [prov : Providers, at : Stages, todo : Seq(Providers),
                   got : [Providers -> Nat \cup {Unbound}], born : Nat, inst : Nat]
        BY <1>0 DEF Frame
      <4>2. h = [g EXCEPT !.at = "wrap", !.todo = w, !.inst = n] /\ w = <<>>
        BY <2>3
      <4> HIDE DEF h, n, w
      <4>3. h = [prov |-> p, at |-> "wrap", todo |-> w, got |-> g.got,
                 born |-> g.born, inst |-> n]
        BY ONLY <4>1, <4>2
      <4>4. /\ p \in Providers /\ "wrap" \in Stages /\ w \in Seq(Providers)
            /\ g.got \in [Providers -> Nat \cup {Unbound}] /\ g.born \in Nat /\ n \in Nat
        BY <1>b, <2>2, <4>1, <4>2, EmptySeq DEF Stages
      <4>5. QED
        BY ONLY <4>2, <4>3, <4>4 DEF Frame
    <3> HIDE DEF h
    <3>3. Ordered(h, Len(low) + 1, {}, bound') /\ Free(h, bound')
      BY <2>5, <3>2 DEF Ordered, Free, Making
    <3>4. Steady(low, {p}, bound')
      <4>1. Steady(low, {p}, bound)
        <5> HIDE DEF s
        <5>1. QED
          BY <1>0, SteadyFront
      <4> HIDE DEF low, p
      <4>2. QED
        BY <2>5, <4>1, SteadyMore
    <3>5. /\ Steady(t, {}, bound')
          /\ There(bound') # There(bound) \/ Open(s, bound) => Open(t, bound')
      <4> HIDE DEF s, low, p
      <4>1. QED
        BY <1>0, <2>6, <3>2, <3>3, <3>4, SteadyAppend, OpenAppend
    <3>6. /\ stack'[c] = t /\ status'[c] = "running"
          /\ \A d \in Calls \ {c} : stack'[d] = stack[d] /\ status'[d] = status[d]
      BY <3>1 DEF Ready, Inv, TypeOK
    <3> HIDE DEF t
    <3>7. QED
      BY <2>2, <2>5, <3>5, <3>6 DEF Moves
  <2>9. QED
    BY <2>7, <2>8
<1>3. QED
  BY <1>1, <1>2

\* The rest of a list after its first n providers and the next one.
FirstOf(s, n) == {s[i] : i \in 1..n}
Split(s, n, rest) ==
    /\ rest \in Seq(Providers)
    /\ n = Len(s) => ToSet(rest) = {} /\ ToSet(s) = FirstOf(s, n)
    /\ n < Len(s) => /\ s[n + 1] \in Providers
                     /\ ToSet(s) = FirstOf(s, n) \cup {s[n + 1]} \cup ToSet(rest)

LEMMA SplitTodo ==
  ASSUME NEW s \in Seq(Providers), NEW n \in 0..Len(s)
  PROVE  Split(s, n, SubSeq(s, n + 2, Len(s)))
<1> SUFFICES ASSUME NEW rest, rest = SubSeq(s, n + 2, Len(s))
             PROVE  Split(s, n, rest)
  OBVIOUS
<1>0. Len(s) \in Nat /\ DOMAIN s = 1..Len(s) /\ n \in Nat
  BY LenProperties
<1>a. Len(s) \in Nat /\ n \in Nat
  BY LenProperties
<1>1. \A i \in n + 2..Len(s) : s[i] \in Providers
  BY <1>0, ElementOfSeq
<1>2. /\ rest \in Seq(Providers)
      /\ Len(rest) = IF n + 2 <= Len(s) THEN Len(s) - (n + 2) + 1 ELSE 0
      /\ \A i \in 1..Len(s) - (n + 2) + 1 : rest[i] = s[n + 2 + i - 1]
  BY <1>0, <1>1, SubSeqProperties
<1>3. DOMAIN rest = 1..Len(rest)
  BY <1>2, LenProperties
<1>4. CASE n = Len(s)
  <2>1. Len(rest) = 0
    BY <1>0, <1>2, <1>4
  <2>2. ToSet(rest) = {}
    BY <1>3, <2>1 DEF ToSet
  <2>3. ToSet(s) = FirstOf(s, n)
    BY <1>0, <1>4 DEF ToSet, FirstOf
  <2>4. ~ n < Len(s)
    BY <1>0, <1>4
  <2>5. QED
    BY <1>2, <2>2, <2>3, <2>4 DEF Split
<1>5. CASE n < Len(s)
  <2>1. n + 1 \in DOMAIN s /\ s[n + 1] \in Providers
    BY <1>0, <1>5, ElementOfSeq
  <2>2. ASSUME NEW i \in DOMAIN rest
        PROVE  rest[i] \in ToSet(s)
    <3>1. n + 2 + i - 1 \in DOMAIN s /\ rest[i] = s[n + 2 + i - 1]
      BY <1>0, <1>2, <1>3
    <3>2. QED
      BY <3>1 DEF ToSet
  <2>3. ASSUME NEW j \in DOMAIN s, j > n + 1
        PROVE  s[j] \in ToSet(rest)
    <3>1. /\ j - (n + 1) \in DOMAIN rest
          /\ rest[j - (n + 1)] = s[n + 2 + (j - (n + 1)) - 1]
          /\ n + 2 + (j - (n + 1)) - 1 = j
      BY <1>0, <1>2, <1>3, <2>3
    <3>2. QED
      BY <3>1 DEF ToSet
  <2>4. ToSet(s) \subseteq FirstOf(s, n) \cup {s[n + 1]} \cup ToSet(rest)
    <3>1. ASSUME NEW j \in DOMAIN s
          PROVE  s[j] \in FirstOf(s, n) \cup {s[n + 1]} \cup ToSet(rest)
      <4>1. j \in 1..n \/ j = n + 1 \/ j > n + 1
        BY <1>0
      <4>2. QED
        BY <2>3, <4>1 DEF FirstOf
    <3>2. QED
      BY <3>1 DEF ToSet
  <2>5. FirstOf(s, n) \cup {s[n + 1]} \subseteq ToSet(s)
    <3>1. \A i \in 1..n : i \in DOMAIN s
      BY <1>0
    <3>2. QED
      BY <2>1, <3>1 DEF ToSet, FirstOf
  <2>6. ToSet(rest) \subseteq ToSet(s)
    BY <2>2 DEF ToSet
  <2>7. ToSet(s) = FirstOf(s, n) \cup {s[n + 1]} \cup ToSet(rest)
    BY <2>4, <2>5, <2>6
  <2>8. n # Len(s)
    BY <1>a, <1>5
  <2>9. QED
    BY <1>2, <2>1, <2>7, <2>8 DEF Split
<1>6. n = Len(s) \/ n < Len(s)
  BY <1>a
<1>7. QED
  BY <1>4, <1>5, <1>6

\* The properties of a class come after its constructor and before its binding.
LEMMA RunPropsMoves ==
  ASSUME NEW c, Ready(c), NoInterceptors', NEW f, f.at = "props", Fits(c, f, {}),
         RunProps(c, f)
  PROVE  Moves(c)
<1>1. PICK n \in 0..Len(f.todo) :
        LET injected == {f.todo[i] : i \in 1..n}
            g == [f EXCEPT !.got = [p \in Providers |->
                                        IF p \in injected THEN bound[p] ELSE @[p]],
                           !.todo = SubSeq(@, n + 2, Len(@))]
        IN  IF \E p \in injected : ~Has(p) THEN Fail(c, "missing")
            ELSE IF n = Len(f.todo) THEN BindAs(c, g)
            ELSE Enter(c, g, f.todo[n + 1], <<>>)
  BY DEF RunProps
<1> DEFINE injected == {f.todo[i] : i \in 1..n}
           got == [p \in Providers |-> IF p \in injected THEN bound[p] ELSE f.got[p]]
           todo == SubSeq(f.todo, n + 2, Len(f.todo))
           g == [f EXCEPT !.got = [p \in Providers |->
                                       IF p \in injected THEN bound[p] ELSE @[p]],
                          !.todo = SubSeq(@, n + 2, Len(@))]
           next == f.todo[n + 1]
           p == f.prov
<1>2. /\ f \in [prov : Providers, at : Stages, todo : Seq(Providers),
                got : [Providers -> Nat \cup {Unbound}], born : Nat, inst : Nat]
      /\ bound \in [Providers -> Nat \cup {Unbound}] /\ p \in Providers
      /\ p = Last(stack[c]).prov /\ Ordered(f, Len(stack[c]), {}, bound)
      /\ Open(stack[c], bound) => Free(f, bound)
  BY DEF Fits, Frame, Ready, Inv, TypeOK
<1>3. f.todo \in Seq(Providers) /\ Len(f.todo) \in Nat
  BY <1>2, LenProperties
<1>4. /\ todo \in Seq(Providers)
      /\ n = Len(f.todo) => ToSet(todo) = {} /\ ToSet(f.todo) = injected
      /\ n < Len(f.todo) => /\ next \in Providers
                            /\ ToSet(f.todo) = injected \cup {next} \cup ToSet(todo)
  <2>1. Split(f.todo, n, todo)
    BY <1>3, SplitTodo
  <2>2. injected = FirstOf(f.todo, n)
    BY DEF FirstOf
  <2> HIDE DEF injected, todo
  <2>3. QED
    BY <2>1, <2>2 DEF Split
<1>5. g.at = "props" /\ g.prov = p /\ g.todo = todo /\ g \in Frame
  <2>1. /\ got \in [Providers -> Nat \cup {Unbound}] /\ g = [f EXCEPT !.got = got, !.todo = todo]
    BY <1>2
  <2> HIDE DEF got, todo, g
  <2>2. g = [prov |-> f.prov, at |-> f.at, todo |-> todo, got |-> got,
             born |-> f.born, inst |-> f.inst]
    BY ONLY <1>2, <2>1
  <2>3. QED
    BY <1>2, <1>4, <2>1, <2>2 DEF Frame
<1> HIDE DEF g, todo
<1>6. Open(stack[c], bound) => Free(g, bound)
  BY <1>2, <1>5 DEF Free
<1>7. /\ Kind[p] = "class" /\ ToSet(f.todo) \subseteq ToSet(Props[p])
      /\ ToSet(Needs[p]) \cup ToSet(Inner[p]) \subseteq There(bound)
      /\ ToSet(Props[p]) \subseteq ToSet(f.todo) \cup There(bound)
  BY <1>2 DEF Ordered
<1>8. CASE \E d \in injected : ~Has(d)
  BY <1>1, <1>8, FailMoves
<1>9. CASE ~(\E d \in injected : ~Has(d)) /\ n = Len(f.todo)
  <2>1. BindAs(c, g)
    BY <1>1, <1>9 DEF g
  <2>2. injected \subseteq There(bound)
    <3>1. \A i \in 1..n : f.todo[i] \in Providers
      BY <1>3, ElementOfSeq
    <3>2. QED
      BY <1>9, <3>1 DEF There, Has
  <2>3. Requires(g.prov) \subseteq There(bound)
    BY <1>4, <1>5, <1>7, <1>9, <2>2 DEF Requires
  <2>4. Ordered(g, Len(stack[c]), {}, bound)
    BY <1>4, <1>5, <1>7, <1>9, <2>2 DEF Ordered
  <2>5. Fits(c, g, {}) /\ g.at \in Making
    BY <1>2, <1>5, <1>6, <2>4 DEF Fits, Making
  <2>6. QED
    BY <2>1, <2>3, <2>5, BindMoves
<1>10. CASE ~(\E d \in injected : ~Has(d)) /\ n # Len(f.todo)
  <2>1. Enter(c, g, next, <<>>) /\ n < Len(f.todo)
    BY <1>1, <1>3, <1>10 DEF g
  <2>2. injected \subseteq There(bound)
    <3>1. \A i \in 1..n : f.todo[i] \in Providers
      BY <1>3, ElementOfSeq
    <3>2. QED
      BY <1>10, <3>1 DEF There, Has
  <2> HIDE DEF next, injected
  <2>3. Ordered(g, Len(stack[c]), {next}, bound)
    BY <1>4, <1>5, <1>7, <2>1, <2>2 DEF Ordered
  <2>4. Fits(c, g, {next})
    BY <1>2, <1>5, <1>6, <2>3 DEF Fits
  <2>5. <<>> \in Seq(Providers) /\ ToSet(<<>>) \subseteq ToSet(Needs[next])
    BY EmptySeq DEF ToSet
  <2>6. QED
    BY <1>4, <2>1, <2>4, <2>5, EnterMoves
<1>11. QED
  BY <1>8, <1>9, <1>10

\* The constructor or the factory is called when the inner providers are there.
LEMMA BuildMoves ==
  ASSUME NEW c, Ready(c), NoInterceptors', NEW f, f = Last(stack[c]), Kind[f.prov] # "value",
         ToSet(Inner[f.prov]) \subseteq There(bound),
         Open(stack[c], bound) /\ f.prov \notin MutableKeys => f.prov \notin There(bound),
         f.at \in {"deps", "inner"}, f.todo = <<>>, Build(c, f)
  PROVE  Moves(c)
<1> DEFINE p == f.prov
           args == IF Kind[p] = "class" THEN Needs[p] ELSE Inner[p]
           got == [d \in Providers |-> IF d \in ToSet(args) THEN bound[d] ELSE Unbound]
           g == [f EXCEPT !.got = got, !.born = epoch]
<1>1. /\ f \in [prov : Providers, at : Stages, todo : Seq(Providers),
                got : [Providers -> Nat \cup {Unbound}], born : Nat, inst : Nat]
      /\ p \in Providers /\ epoch \in Nat /\ got \in [Providers -> Nat \cup {Unbound}]
      /\ Kind[p] \in {"class", "factory"}
  <2>1. f \in Frame /\ Inv
    BY Running DEF Ready
  <2>2. p \in Providers /\ epoch \in Nat /\ bound \in [Providers -> Nat \cup {Unbound}]
    BY <2>1 DEF Frame, Inv, TypeOK
  <2>3. QED
    BY <2>1, <2>2, ResolverAssumption DEF Frame
<1>2. ASSUME NEW a \in {"props", "pending"}, NEW l \in Seq(Providers),
             NEW h, h = [prov |-> p, at |-> a, todo |-> l, got |-> got,
                         born |-> epoch, inst |-> f.inst]
      PROVE  /\ h \in Frame /\ h.at = a /\ h.prov = p /\ h.todo = l
             /\ Open(stack[c], bound) => Free(h, bound)
  <2> HIDE DEF got
  <2>1. h \in Frame /\ h.at = a /\ h.prov = p /\ h.todo = l
    BY <1>1, <1>2 DEF Frame, Stages
  <2>2. QED
    BY <2>1 DEF Free
<1>3. CASE \E d \in ToSet(args) : ~Has(d)
  BY <1>3, FailMoves DEF Build
<1>4. g = [prov |-> p, at |-> f.at, todo |-> f.todo, got |-> got,
           born |-> epoch, inst |-> f.inst]
  <2>1. g = [f EXCEPT !.got = got, !.born = epoch]
    OBVIOUS
  <2> HIDE DEF got, g
  <2>2. QED
    BY ONLY <1>1, <2>1
<1>5. CASE ~(\E d \in ToSet(args) : ~Has(d)) /\ Kind[p] = "class"
  <2> DEFINE l == Props[p]
             h == [g EXCEPT !.at = "props", !.todo = l]
  <2>1. RunProps(c, h)
    BY <1>5 DEF Build
  <2>2. h = [prov |-> p, at |-> "props", todo |-> l, got |-> got,
             born |-> epoch, inst |-> f.inst]
    <3>1. h = [g EXCEPT !.at = "props", !.todo = l]
      OBVIOUS
    <3> HIDE DEF got, l, g, h
    <3>2. QED
      BY ONLY <1>4, <3>1
  <2>3. l \in Seq(Providers) /\ Needs[p] \in Seq(Providers)
    BY <1>1, ResolverAssumption DEF Lists
  <2>4. ToSet(Needs[p]) \subseteq There(bound)
    <3>1. \A d \in ToSet(Needs[p]) : d \in Providers
      BY <2>3, LenProperties, ElementOfSeq DEF ToSet
    <3>2. QED
      BY <1>5, <3>1 DEF There, Has
  <2> HIDE DEF h, got
  <2>5. /\ h \in Frame /\ h.at = "props" /\ h.prov = p /\ h.todo = l
        /\ Open(stack[c], bound) => Free(h, bound)
    BY <1>2, <2>2, <2>3
  <2>6. Ordered(h, Len(stack[c]), {}, bound)
    BY <1>5, <2>4, <2>5 DEF Ordered
  <2>7. QED
    BY <2>1, <2>5, <2>6, RunPropsMoves DEF Fits
<1>6. CASE ~(\E d \in ToSet(args) : ~Has(d)) /\ Kind[p] # "class"
  <2> DEFINE l == f.todo
             h == [g EXCEPT !.at = "pending"]
  <2>1. Continue(c, h)
    BY <1>6 DEF Build
  <2>2. h = [prov |-> p, at |-> "pending", todo |-> l, got |-> got,
             born |-> epoch, inst |-> f.inst]
    <3> HIDE DEF got, g
    <3>1. QED
      BY ONLY <1>4
  <2>3. l \in Seq(Providers)
    BY <1>1
  <2> HIDE DEF h, got, l
  <2>4. /\ h \in Frame /\ h.at = "pending" /\ h.prov = p
        /\ Open(stack[c], bound) => Free(h, bound)
    BY <1>2, <2>2, <2>3
  <2>5. Ordered(h, Len(stack[c]), {}, bound)
    BY <1>1, <1>6, <2>4 DEF Ordered, Requires
  <2>6. QED
    BY <2>1, <2>4, <2>5, ContinueMoves DEF Fits
<1>7. QED
  BY <1>3, <1>5, <1>6

\* The next provider of a loop is awaited.
LEMMA ResolveNextMoves ==
  ASSUME NEW c, Ready(c), ResolveNext(c)
  PROVE  Moves(c)
<1> DEFINE f == Last(stack[c])
           p == Head(f.todo)
           l == Tail(f.todo)
           h == [f EXCEPT !.todo = Tail(@)]
<1>1. /\ f \in Frame /\ Ordered(f, Len(stack[c]), {}, bound)
      /\ Open(stack[c], bound) => Free(f, bound)
  <2> DEFINE s == stack[c]
  <2>1. s \in Seq(Frame) /\ s # <<>> /\ Steady(s, {}, bound) /\ Last(s) \in Frame
    BY Running DEF Ready
  <2> HIDE DEF s
  <2>2. Ordered(Last(s), Len(s), {}, bound) /\ (Open(s, bound) => Free(Last(s), bound))
    BY <2>1, SteadyFront, OpenFront
  <2>3. QED
    BY <2>1, <2>2 DEF s
<1>2. /\ f.at \in {"deps", "inner", "wrap"} /\ f.todo # <<>> /\ Enter(c, h, p, Needs[p])
  BY DEF ResolveNext
<1>3. f \in [prov : Providers, at : Stages, todo : Seq(Providers),
             got : [Providers -> Nat \cup {Unbound}], born : Nat, inst : Nat]
  BY <1>1 DEF Frame
<1>4. p \in Providers /\ l \in Seq(Providers) /\ ToSet(f.todo) = ToSet(l) \cup {p}
  <2> DEFINE t == f.todo
  <2>1. t \in Seq(Providers) /\ t # <<>>
    BY <1>2, <1>3
  <2> HIDE DEF t
  <2>2. /\ Head(t) \in Providers /\ Tail(t) \in Seq(Providers)
        /\ Len(t) \in Nat \ {0} /\ Len(Tail(t)) = Len(t) - 1 /\ Head(t) = t[1]
        /\ \A i \in 1..Len(Tail(t)) : Tail(t)[i] = t[i + 1]
    BY <2>1, HeadTailProperties, EmptySeq, LenProperties
  <2>3. DOMAIN t = 1..Len(t) /\ DOMAIN Tail(t) = 1..Len(t) - 1
    BY <2>1, <2>2, LenProperties
  <2>4. ToSet(t) \subseteq ToSet(Tail(t)) \cup {Head(t)}
    <3>1. ASSUME NEW i \in DOMAIN t
          PROVE  t[i] \in ToSet(Tail(t)) \cup {Head(t)}
      <4>1. CASE i = 1
        BY <2>2, <4>1
      <4>2. CASE i # 1
        <5>1. i - 1 \in DOMAIN Tail(t) /\ Tail(t)[i - 1] = t[i]
          BY <2>2, <2>3, <4>2
        <5>2. QED
          BY <5>1 DEF ToSet
      <4>3. QED
        BY <4>1, <4>2
    <3>2. QED
      BY <3>1 DEF ToSet
  <2>5. ToSet(Tail(t)) \cup {Head(t)} \subseteq ToSet(t)
    <3>1. \A i \in DOMAIN Tail(t) : i + 1 \in DOMAIN t /\ Tail(t)[i] = t[i + 1]
      BY <2>2, <2>3
    <3>2. 1 \in DOMAIN t
      BY <2>2, <2>3
    <3>3. QED
      BY <2>2, <3>1, <3>2 DEF ToSet
  <2>6. QED
    BY <2>2, <2>4, <2>5 DEF t
<1>5. h = [prov |-> f.prov, at |-> f.at, todo |-> l, got |-> f.got,
           born |-> f.born, inst |-> f.inst]
  <2>1. h = [f EXCEPT !.todo = l]
    OBVIOUS
  <2> HIDE DEF h, f, l
  <2>2. QED
    BY ONLY <1>3, <2>1
<1>6. f.prov = Last(stack[c]).prov
  OBVIOUS
<1> HIDE DEF h, f, l, p
<1>7. h \in Frame /\ h.prov = f.prov /\ h.at = f.at /\ h.todo = l
  BY <1>3, <1>4, <1>5 DEF Frame
<1>8. Ordered(h, Len(stack[c]), {p}, bound)
  BY <1>1, <1>2, <1>4, <1>7 DEF Ordered
<1>9. Fits(c, h, {p})
  BY <1>1, <1>6, <1>7, <1>8 DEF Fits, Free
<1>10. Needs[p] \in Seq(Providers)
  BY <1>4, ResolverAssumption DEF Lists
<1>11. QED
  BY <1>2, <1>4, <1>9, <1>10, EnterMoves

\* Where the innermost frame of a call stands.
LEMMA ReadyTop ==
  ASSUME NEW c, Ready(c)
  PROVE  /\ Last(stack[c]) \in Frame /\ Last(stack[c]).prov \in Providers
         /\ Ordered(Last(stack[c]), Len(stack[c]), {}, bound)
         /\ Open(stack[c], bound) => Free(Last(stack[c]), bound)
         /\ Open(stack[c], bound) => Open(Front(stack[c]), bound)
<1> DEFINE s == stack[c]
<1>1. s \in Seq(Frame) /\ s # <<>> /\ Steady(s, {}, bound) /\ Last(s) \in Frame
  BY Running DEF Ready
<1> HIDE DEF s
<1>2. /\ Ordered(Last(s), Len(s), {}, bound) /\ Last(s).prov \in Providers
      /\ Open(s, bound) => Free(Last(s), bound) /\ Open(Front(s), bound)
  BY <1>1, SteadyFront, OpenFront DEF Frame
<1>3. QED
  BY <1>1, <1>2 DEF s

\* A call returns a token that is there.
LEMMA ReturnMoves ==
  ASSUME NEW c, Ready(c), NEW v \in Nat, Return(c, v), Last(stack[c]).prov \in There(bound)
  PROVE  Moves(c)
<1>1. /\ Give(c, v) /\ bound' = bound /\ made' = made /\ Closed(bound)
  BY DEF Return, Ready
<1>2. /\ There(bound) \subseteq There(bound') /\ Closed(bound')
      /\ Last(stack[c]).prov \in There(bound')
      /\ There(bound') # There(bound) \/ Open(stack[c], bound) => Open(Front(stack[c]), bound')
  BY <1>1, ReadyTop
<1>3. QED
  BY <1>1, <1>2, GiveMoves

\* The test of has.
LEMMA CheckMoves ==
  ASSUME NEW c, Ready(c), NoInterceptors', Check(c)
  PROVE  Moves(c)
<1> DEFINE f == Last(stack[c])
           p == f.prov
<1>1. /\ f \in Frame /\ p \in Providers /\ f.at = "deps" /\ f.todo = <<>>
      /\ Kind[p] \in {"class", "value", "factory"} /\ Inner[p] \in Seq(Providers)
      /\ epoch \in Nat
  BY ReadyTop, ResolverAssumption DEF Check, Stands, Lists, Ready, Inv, TypeOK
<1>2. f \in [prov : Providers, at : Stages, todo : Seq(Providers),
             got : [Providers -> Nat \cup {Unbound}], born : Nat, inst : Nat]
  BY <1>1 DEF Frame
<1>3. CASE Has(p)
  <2>1. Return(c, bound[p]) /\ bound[p] \in Nat /\ p \in There(bound)
    BY <1>1, <1>3 DEF Check, Ready, Inv, TypeOK, Has, There
  <2>2. QED
    BY <2>1, ReturnMoves
<1>4. CASE ~Has(p) /\ Kind[p] = "value"
  <2> DEFINE h == [f EXCEPT !.at = "pending", !.born = epoch]
  <2>1. h = [prov |-> p, at |-> "pending", todo |-> f.todo, got |-> f.got,
             born |-> epoch, inst |-> f.inst]
    <3>1. h = [f EXCEPT !.at = "pending", !.born = epoch]
      OBVIOUS
    <3> HIDE DEF h, f
    <3>2. QED
      BY ONLY <1>2, <3>1
  <2>2. Continue(c, h)
    BY <1>4 DEF Check
  <2> HIDE DEF h, f
  <2>3. h \in Frame /\ h.prov = p /\ h.at = "pending"
    BY <1>1, <1>2, <2>1 DEF Frame, Stages
  <2>4. Ordered(h, Len(stack[c]), {}, bound) /\ Free(h, bound)
    BY <1>1, <1>4, <2>3 DEF Ordered, Requires, Free, There, Has
  <2>5. Fits(c, h, {})
    BY <2>3, <2>4 DEF Fits, f
  <2>6. QED
    BY <2>2, <2>5, ContinueMoves
<1>5. CASE ~Has(p) /\ Kind[p] # "value" /\ Inner[p] # <<>>
  <2> DEFINE l == Inner[p]
             h == [f EXCEPT !.at = "inner", !.todo = l]
  <2>1. h = [prov |-> p, at |-> "inner", todo |-> l, got |-> f.got,
             born |-> f.born, inst |-> f.inst]
    <3>1. h = [f EXCEPT !.at = "inner", !.todo = l]
      OBVIOUS
    <3> HIDE DEF h, f, l
    <3>2. QED
      BY ONLY <1>2, <3>1
  <2>2. Continue(c, h)
    BY <1>5 DEF Check
  <2> HIDE DEF h, f
  <2>3. h \in Frame /\ h.prov = p /\ h.at = "inner" /\ h.todo = Inner[p]
    BY <1>1, <1>2, <2>1 DEF Frame, Stages
  <2>4. Ordered(h, Len(stack[c]), {}, bound) /\ Free(h, bound)
    BY <1>1, <1>5, <2>3 DEF Ordered, Free, There, Has
  <2>5. Fits(c, h, {})
    BY <2>3, <2>4 DEF Fits, f
  <2>6. QED
    BY <2>2, <2>5, ContinueMoves
<1>6. CASE ~Has(p) /\ Kind[p] # "value" /\ Inner[p] = <<>>
  <2>1. Build(c, f)
    BY <1>6 DEF Check
  <2>2. ToSet(Inner[p]) \subseteq There(bound) /\ p \notin There(bound)
    BY <1>6 DEF ToSet, There, Has
  <2> HIDE DEF f
  <2>3. f = Last(stack[c])
    BY DEF f
  <2>4. QED
    BY <1>1, <1>6, <2>1, <2>2, <2>3, BuildMoves
<1>7. QED
  BY <1>3, <1>4, <1>5, <1>6

\* The steps after what the innermost frame has awaited.
LEMMA AwaitedMoves ==
  ASSUME NEW c, Ready(c), NoInterceptors',
         AfterInner(c) \/ Settle(c) \/ AfterProp(c) \/ AfterHook(c)
  PROVE  Moves(c)
<1> DEFINE f == Last(stack[c])
           p == f.prov
<1>1. /\ f \in Frame /\ p \in Providers /\ Ordered(f, Len(stack[c]), {}, bound)
      /\ Open(stack[c], bound) => Free(f, bound)
  BY ReadyTop
<1>2. Fits(c, f, {})
  BY <1>1 DEF Fits
<1>3. CASE AfterInner(c)
  <2>1. f.at = "inner" /\ f.todo = <<>> /\ Build(c, f)
    BY <1>3 DEF AfterInner, Stands
  <2>2. Kind[p] # "value" /\ ToSet(Inner[p]) \subseteq There(bound)
    BY <1>1, <2>1 DEF Ordered, ToSet
  <2>3. Open(stack[c], bound) /\ p \notin MutableKeys => p \notin There(bound)
    BY <1>1, <2>1 DEF Free, Making
  <2>4. f = Last(stack[c])
    OBVIOUS
  <2> HIDE DEF f
  <2>5. QED
    BY <2>1, <2>2, <2>3, <2>4, BuildMoves
<1>4. CASE Settle(c)
  <2>1. f.at = "pending" /\ BindAs(c, f)
    BY <1>4 DEF Settle, Stands
  <2> HIDE DEF f
  <2>2. f.at \in Making /\ Requires(f.prov) \subseteq There(bound)
    BY <1>1, <2>1 DEF Ordered, Making
  <2>3. QED
    BY <1>2, <2>1, <2>2, BindMoves
<1>5. CASE AfterProp(c)
  <2>1. f.at = "props" /\ RunProps(c, f)
    BY <1>5 DEF AfterProp
  <2> HIDE DEF f
  <2>2. QED
    BY <1>2, <2>1, RunPropsMoves
<1>6. CASE AfterHook(c)
  <2>1. f.at = "hook" /\ Return(c, f.inst) /\ f.inst \in Nat /\ p \in There(bound)
    BY <1>1, <1>6 DEF AfterHook, Stands, Ordered, Frame
  <2>2. QED
    BY <2>1, ReturnMoves
<1>7. QED
  BY <1>3, <1>4, <1>5, <1>6

\* applyInterceptors and a rejection change no binding.
LEMMA InterceptMoves ==
  ASSUME NEW c, Ready(c), Intercept(c) \/ Reject(c)
  PROVE  Moves(c)
<1> DEFINE f == Last(stack[c])
           p == f.prov
           h == [f EXCEPT !.at = "hook"]
<1>1. /\ f \in Frame /\ p \in Providers /\ Ordered(f, Len(stack[c]), {}, bound)
  BY ReadyTop
<1>2. CASE \E why \in {"missing", "threw"} : Fail(c, why)
  BY <1>2, FailMoves
<1>3. CASE f.at = "wrap" /\ Continue(c, h)
  <2>1. f \in [prov : Providers, at : Stages, todo : Seq(Providers),
               got : [Providers -> Nat \cup {Unbound}], born : Nat, inst : Nat]
    BY <1>1 DEF Frame
  <2>2. h = [prov |-> p, at |-> "hook", todo |-> f.todo, got |-> f.got,
             born |-> f.born, inst |-> f.inst]
    <3>1. h = [f EXCEPT !.at = "hook"]
      OBVIOUS
    <3> HIDE DEF h, f
    <3>2. QED
      BY ONLY <2>1, <3>1
  <2> HIDE DEF h
  <2>3. h \in Frame /\ h.prov = p /\ h.at = "hook" /\ h.todo = f.todo
    BY <2>1, <2>2 DEF Frame, Stages
  <2>4. Ordered(h, Len(stack[c]), {}, bound) /\ Free(h, bound)
    BY <1>1, <1>3, <2>3 DEF Ordered, Free, Making
  <2>5. Fits(c, h, {})
    BY <2>3, <2>4 DEF Fits
  <2>6. QED
    BY <1>3, <2>5, ContinueMoves
<1>4. QED
  BY <1>2, <1>3 DEF Intercept, Reject, Stands

\* A call begins with nothing in the making.
LEMMA StartMoves ==
  ASSUME Inv, Closed(bound), NEW c \in Calls, NEW p \in Providers, NEW list \in Given[p],
         Start(c, p, list)
  PROVE  Moves(c)
<1> DEFINE new == NewFrame(p, list)
           s == <<new>>
<1>1. /\ stack'[c] = s /\ status'[c] = "running" /\ UNCHANGED <<bound, made>>
      /\ \A d \in Calls \ {c} : stack'[d] = stack[d] /\ status'[d] = status[d]
  BY DEF Start, Inv, TypeOK
<1>2. new.at = "deps"
  BY DEF NewFrame
<1> HIDE DEF new
<1>3. Len(s) = 1 /\ DOMAIN s = {1} /\ s[1] = new
  OBVIOUS
<1> HIDE DEF s
<1>4. Steady(s, {}, bound) /\ Open(s, bound)
  BY <1>2, <1>3 DEF Steady, Awaited, Ordered, Open, Free, Making
<1>5. QED
  BY <1>1, <1>4 DEF Moves

\* A step of one call keeps the invariant: if it bound a free token, then it
\* survives, and otherwise whoever did so before.
LEMMA MovesSurvivor ==
  ASSUME SurvivorInv, NEW c \in Calls, epoch' = epoch,
         epoch = 0 /\ NoInterceptors /\ NoInterceptors' => Moves(c),
         NoInterceptors' => NoInterceptors
  PROVE  SurvivorInv'
<1> SUFFICES ASSUME epoch = 0, NoInterceptors'
             PROVE  /\ Closed(bound') /\ \A d \in Calls : Steady(stack'[d], {}, bound')
                    /\ \E d \in Calls : status'[d] # "lost" /\ Open(stack'[d], bound')
  BY DEF SurvivorInv
<1>1. /\ Moves(c) /\ Closed(bound) /\ \A d \in Calls : Steady(stack[d], {}, bound)
  BY DEF SurvivorInv
<1>2. PICK w \in Calls : status[w] # "lost" /\ Open(stack[w], bound)
  BY DEF SurvivorInv
<1>3. ASSUME NEW d \in Calls
      PROVE  Steady(stack'[d], {}, bound')
  <2>1. CASE d = c
    BY <1>1, <2>1 DEF Moves
  <2>2. CASE d # c
    <3>1. stack'[d] = stack[d] /\ Steady(stack[d], {}, bound) /\ There(bound) \subseteq There(bound')
      BY <1>1, <2>2 DEF Moves
    <3>2. QED
      BY <3>1, SteadyMore
  <2>3. QED
    BY <2>1, <2>2
<1>4. CASE There(bound') # There(bound) \/ w = c
  BY <1>1, <1>2, <1>3, <1>4 DEF Moves
<1>5. CASE There(bound') = There(bound) /\ w # c
  <2>1. stack'[w] = stack[w] /\ status'[w] = status[w] /\ Open(stack[w], bound')
    BY <1>1, <1>2, <1>5 DEF Moves, Open, Free
  <2>2. QED
    BY <1>1, <1>2, <1>3, <2>1 DEF Moves
<1>6. QED
  BY <1>4, <1>5

\* Instances are added and stay what they are, so if none of them needs
\* interceptors now, none did before.
Lasting == \A n \in DOMAIN made : n \in DOMAIN made' /\ made'[n].prov = made[n].prov

LEMMA AppendLasts ==
  ASSUME NEW S, NEW s \in Seq(S), NEW r
  PROVE  \A n \in DOMAIN s : n \in DOMAIN Append(s, r) /\ Append(s, r)[n] = s[n]
<1>1. s \in Seq(S \cup {r})
  <2>1. Len(s) \in Nat /\ DOMAIN s = 1..Len(s) /\ \A i \in 1..Len(s) : s[i] \in S
    BY LenProperties, ElementOfSeq
  <2>2. QED
    BY <2>1, SeqDef
<1>2. QED
  BY <1>1, AppendProperties, LenProperties

LEMMA StepLasts ==
  ASSUME Inv, NEW c \in Calls,
         \/ Step(c)
         \/ \E p \in Providers : \E list \in Given[p] : Start(c, p, list)
  PROVE  epoch' = epoch /\ Lasting
<1> DEFINE grows == epoch' = epoch /\ (made' = made \/ \E r : made' = Append(made, r))
<1>1. \A g : BindAs(c, g) => grows
  BY DEF BindAs, Fail
<1>2. \A f : RunProps(c, f) => grows
  BY <1>1 DEF RunProps, Fail, Enter
<1>3. \A f : Build(c, f) => grows
  BY <1>2 DEF Build, Fail, Continue
<1>4. grows
  BY <1>1, <1>2, <1>3 DEF Step, ResolveNext, Check, AfterInner, Settle, AfterProp,
     Intercept, AfterHook, Reject, Start, Enter, Return, Continue, Fail
<1>5. made \in Seq(Instances)
  BY DEF Inv, TypeOK, Instances, Values
<1>6. \A r : \A n \in DOMAIN made : n \in DOMAIN Append(made, r) /\ Append(made, r)[n] = made[n]
  BY <1>5, AppendLasts
<1>7. CASE \E r : made' = Append(made, r)
  <2>1. PICK r : made' = Append(made, r)
    BY <1>7
  <2>2. \A n \in DOMAIN made : n \in DOMAIN made' /\ made'[n] = made[n]
    BY <1>6, <2>1
  <2>3. QED
    BY <1>4, <2>2 DEF Lasting
<1>8. QED
  BY <1>4, <1>7 DEF Lasting

\* So a step of a call keeps the invariant.
LEMMA StepSurvivor ==
  ASSUME Inv, SurvivorInv, NEW c \in Calls,
         \/ Step(c)
         \/ \E p \in Providers : \E list \in Given[p] : Start(c, p, list)
  PROVE  SurvivorInv'
<1>1. epoch' = epoch /\ Lasting
  BY StepLasts
<1>2. NoInterceptors' => NoInterceptors
  BY <1>1 DEF NoInterceptors, Lasting
<1>3. ASSUME epoch = 0, NoInterceptors, NoInterceptors'
      PROVE  Moves(c)
  <2>1. Closed(bound) /\ Steady(stack[c], {}, bound)
    BY <1>3 DEF SurvivorInv
  <2>2. CASE Step(c)
    <3>1. Ready(c)
      BY <2>1, <2>2 DEF Ready, Step, ResolveNext, Check, AfterInner, Settle, AfterProp,
         Intercept, AfterHook, Reject, Stands
    <3>2. QED
      BY <1>3, <2>2, <3>1, ResolveNextMoves, CheckMoves, AwaitedMoves, InterceptMoves DEF Step
  <2>3. CASE \E p \in Providers : \E list \in Given[p] : Start(c, p, list)
    BY <2>1, <2>3, StartMoves
  <2>4. QED
    BY <2>2, <2>3
<1>4. QED
  BY <1>1, <1>2, <1>3, MovesSurvivor

\* The first destroy ends what the invariant is about.
LEMMA NextSurvivor == Inv /\ SurvivorInv /\ [Next]_vars => SurvivorInv'
<1> SUFFICES ASSUME Inv, SurvivorInv, [Next]_vars
             PROVE  SurvivorInv'
  OBVIOUS
<1>1. CASE \E c \in Calls : Step(c)
  BY <1>1, StepSurvivor
<1>2. CASE \E c \in Calls, p \in Providers : \E list \in Given[p] : Start(c, p, list)
  BY <1>2, StepSurvivor
<1>3. CASE Destroy
  <2>1. epoch' # 0
    BY <1>3 DEF Destroy, Inv, TypeOK
  <2>2. QED
    BY <2>1 DEF SurvivorInv
<1>4. CASE UNCHANGED vars
  <2>1. /\ bound' = bound /\ made' = made /\ epoch' = epoch /\ stack' = stack
        /\ status' = status
    BY <1>4 DEF vars
  <2>2. QED
    BY <2>1 DEF SurvivorInv, NoInterceptors
<1>5. QED
  BY <1>1, <1>2, <1>3, <1>4 DEF Next

\* Calls that race for the same tokens cannot all make each other fail: the
\* last one that bound a free token loses nothing, as all that it has still in
\* the making is free.
THEOREM ResolverSomeCallSurvives == Spec => []SomeCallSurvives
<1>1. Init => SurvivorInv
  <2> SUFFICES ASSUME Init
               PROVE  /\ Closed(bound) /\ \A c \in Calls : Steady(stack[c], {}, bound)
                      /\ \E c \in Calls : status[c] # "lost" /\ Open(stack[c], bound)
    BY DEF SurvivorInv
  <2>1. There(bound) = {} /\ \A c \in Calls : stack[c] = <<>> /\ status[c] = "idle"
    BY DEF Init, Nothing, There
  <2>2. QED
    BY <2>1, ResolverAssumption DEF Closed, Steady, Open
<1>2. SurvivorInv => SomeCallSurvives
  BY DEF SurvivorInv, SomeCallSurvives, NoInterceptors
<1>3. QED
  BY <1>1, <1>2, NextSurvivor, ResolverInvariance, PTL DEF Spec
=============================================================================
