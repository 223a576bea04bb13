------------------------- MODULE ModuleGraphProofs --------------------------
(***************************************************************************)
(* Theorems about ModuleGraph, for every set of acyclic module graphs and  *)
(* any number of calls: modules are created deepest first and registered   *)
(* complete, whatever races with their creation; if nothing does, each is  *)
(* created once, shares the instances that it imports, and is what the     *)
(* recursion of SyncModuleInjector makes of it.                            *)
(***************************************************************************)
EXTENDS SyncModuleInjector, SequenceTheorems, FiniteSetTheorems, WellFoundedInduction, TLAPS

-----------------------------------------------------------------------------
(* The invariant.  Its parts have the graph g and the metadata md, that is *)
(* the modules created so far, as parameters.                              *)

\* A depth that the imports of every module are below.
IsDepth(g, d) ==
    /\ d \in [Modules -> 1 .. Cardinality(Modules)]
    /\ \A m \in Modules : \A x \in ToSet(g.imports[m]) : d[x] < d[m]

Depth(g) == CHOOSE d : IsDepth(g, d)

\* What a frame does not have to do any more has been created.
GoodFrame(g, f, md) ==
    /\ DOMAIN f = {"mod", "at", "todo", "items"}
    /\ f.mod \in Modules /\ f.todo \in Seq(Modules)
    /\ ToSet(g.imports[f.mod]) \subseteq md \cup ToSet(f.todo)
    /\ ToSet(f.todo) \subseteq ToSet(g.imports[f.mod])
    /\ f.at = "import" => f.todo # <<>>
    /\ f.at = "ready" => f.todo = <<>>

\* Every frame awaits the import that the next one initialises; the last one,
\* if it awaits an import, awaits one that is there.
GoodStack(g, s, md) ==
    /\ \E S : s \in Seq(S)
    /\ \A k \in 1 .. Len(s) : GoodFrame(g, s[k], md)
    /\ \A k \in 1 .. Len(s) - 1 : s[k].at = "import" /\ s[k + 1].mod = Head(s[k].todo)
    /\ s # <<>> /\ s[Len(s)].at = "import" => Head(s[Len(s)].todo) \in md
    /\ \A i, j \in 1 .. Len(s) : i < j => Depth(g)[s[j].mod] < Depth(g)[s[i].mod]

Created ==
    /\ graph \in Graphs /\ metadata \subseteq Modules
    /\ DOMAIN registered = Modules /\ DOMAIN stack = Calls /\ DOMAIN status = Calls
    /\ \A m \in Modules : registered[m] # None => m \in metadata
    /\ \A c \in Calls : GoodStack(graph, stack[c], metadata)
    /\ \A c \in Calls : status[c] = "running" <=> stack[c] # <<>>

\* With one caller at a time and nothing removed, every injector is the one
\* registered, and no module that is being initialised is registered.
Once ==
    /\ removes \in Nat
    /\ ~overlapped => \A c, d \in Calls : status[c] = "running" /\ status[d] = "running" => c = d
    /\ Undisturbed =>
           /\ \E S : injectors \in Seq(S)
           /\ \A i \in 1 .. Len(injectors) :
                  injectors[i].mod \in Modules /\ registered[injectors[i].mod] = i
           /\ \A c \in Calls : \A k \in 1 .. Len(stack[c]) : registered[stack[c][k].mod] = None

-----------------------------------------------------------------------------
(* Sequences and stacks                                                    *)

LEMMA AppendAny ==
  ASSUME NEW S, NEW s \in Seq(S), NEW f
  PROVE  /\ Append(s, f) \in Seq(S \cup {f}) /\ Append(s, f) # <<>>
         /\ Len(s) \in Nat /\ Len(Append(s, f)) = Len(s) + 1
         /\ Append(s, f)[Len(s) + 1] = f
         /\ \A i \in 1 .. Len(s) : Append(s, f)[i] = s[i]
<1>1. s \in Seq(S \cup {f}) /\ f \in S \cup {f}
  BY SeqMonotonic
<1>2. QED
  BY <1>1, AppendProperties, LenProperties

LEMMA FrontLast ==
  ASSUME NEW S, NEW s \in Seq(S), s # <<>>
  PROVE  /\ Len(s) \in Nat \ {0} /\ Last(s) = s[Len(s)]
         /\ Front(s) \in Seq(S) /\ Len(Front(s)) = Len(s) - 1
         /\ \A i \in 1 .. Len(s) - 1 : Front(s)[i] = s[i]
<1>1. Len(s) \in Nat \ {0}
  BY EmptySeq
<1>2. PICK n \in Nat : n = Len(s) - 1
  <2>1. Len(s) - 1 \in Nat
    BY <1>1
  <2>2. QED
    BY <2>1
<1>3. \A i \in 1 .. n : s[i] \in S
  BY <1>1, <1>2, ElementOfSeq
<1>4. /\ SubSeq(s, 1, n) \in Seq(S)
      /\ Len(SubSeq(s, 1, n)) = IF 1 <= n THEN n - 1 + 1 ELSE 0
      /\ \A i \in 1 .. n - 1 + 1 : SubSeq(s, 1, n)[i] = s[1 + i - 1]
  BY <1>3, SubSeqProperties
<1>5. Len(SubSeq(s, 1, n)) = n /\ \A i \in 1 .. n : SubSeq(s, 1, n)[i] = s[i]
  BY <1>4
<1>6. QED
  BY <1>1, <1>2, <1>4, <1>5 DEF Front, Last

\* t is s with f for the innermost frame.
Replaced(s, f, t) ==
    /\ \E S : t \in Seq(S)
    /\ t # <<>> /\ Len(t) = Len(s) /\ Len(s) \in Nat \ {0} /\ t[Len(s)] = f
    /\ \A i \in 1 .. Len(s) - 1 : t[i] = s[i]

LEMMA ReplaceLast ==
  ASSUME NEW S, NEW s \in Seq(S), s # <<>>, NEW f
  PROVE  Replaced(s, f, Append(Front(s), f))
<1>1. /\ Len(s) \in Nat \ {0} /\ Front(s) \in Seq(S) /\ Len(Front(s)) = Len(s) - 1
      /\ \A i \in 1 .. Len(s) - 1 : Front(s)[i] = s[i]
  BY FrontLast
<1>2. PICK t : t = Append(Front(s), f)
  OBVIOUS
<1>3. /\ t \in Seq(S \cup {f}) /\ t # <<>> /\ Len(t) = Len(Front(s)) + 1
      /\ t[Len(Front(s)) + 1] = f
      /\ \A i \in 1 .. Len(Front(s)) : t[i] = Front(s)[i]
  BY <1>1, <1>2, AppendAny
<1>4. Len(t) = Len(s) /\ t[Len(s)] = f /\ \A i \in 1 .. Len(s) - 1 : t[i] = s[i]
  BY <1>1, <1>3
<1>5. Replaced(s, f, t)
  BY <1>1, <1>3, <1>4 DEF Replaced
<1>6. QED
  BY <1>2, <1>5, Zenon

\* Graphs that are checked have a depth.
LEMMA DepthDecreases ==
  ASSUME NEW g \in Graphs
  PROVE  IsDepth(g, Depth(g))
<1>1. \E d : IsDepth(g, d)
  BY ModuleAssumption DEF IsDepth
<1>2. QED
  BY <1>1 DEF Depth

\* Modules that are created meanwhile do no harm.
LEMMA MoreCreated ==
  ASSUME NEW g, NEW s, NEW md, NEW md2, GoodStack(g, s, md), md \subseteq md2
  PROVE  GoodStack(g, s, md2)
BY DEF GoodStack, GoodFrame

LEMMA EmptyStack ==
  ASSUME NEW g, NEW md
  PROVE  GoodStack(g, <<>>, md)
<1>1. <<>> \in Seq({}) /\ Len(<<>>) = 0
  BY EmptySeq
<1>2. QED
  BY <1>1 DEF GoodStack

LEMMA NewFrameGood ==
  ASSUME NEW m \in Modules, NEW md, graph \in Graphs
  PROVE  /\ GoodFrame(graph, NewFrame(m), md)
         /\ NewFrame(m).mod = m /\ NewFrame(m).at = "next"
<1>1. graph.imports[m] \in Seq(Modules)
  BY ModuleAssumption DEF Graph
<1>2. QED
  BY <1>1 DEF GoodFrame, NewFrame

LEMMA SingleStack ==
  ASSUME NEW g, NEW S, NEW s \in Seq(S), NEW md,
         Len(s) = 1, GoodFrame(g, s[1], md), s[1].at # "import"
  PROVE  GoodStack(g, s, md)
<1>1. /\ \A k \in 1 .. Len(s) : GoodFrame(g, s[k], md)
      /\ \A k \in 1 .. Len(s) - 1 : s[k].at = "import" /\ s[k + 1].mod = Head(s[k].todo)
      /\ \A i, j \in 1 .. Len(s) : i < j => Depth(g)[s[j].mod] < Depth(g)[s[i].mod]
  OBVIOUS
<1>2. QED
  BY <1>1 DEF GoodStack

LEMMA NewStack ==
  ASSUME NEW m \in Modules, NEW md, graph \in Graphs
  PROVE  /\ GoodStack(graph, <<NewFrame(m)>>, md)
         /\ Len(<<NewFrame(m)>>) = 1 /\ <<NewFrame(m)>>[1].mod = m
         /\ <<NewFrame(m)>> # <<>>
<1> DEFINE f == NewFrame(m)
<1>1. GoodFrame(graph, f, md) /\ f.mod = m /\ f.at = "next"
  BY NewFrameGood
<1> HIDE DEF f
<1>2. <<f>> \in Seq({f}) /\ Len(<<f>>) = 1 /\ <<f>>[1] = f /\ <<f>> # <<>>
  OBVIOUS
<1>3. GoodStack(graph, <<f>>, md)
  BY <1>1, <1>2, SingleStack
<1>4. QED
  BY <1>1, <1>2, <1>3 DEF f

\* The frames of s are for the same modules in t.
SameModules(s, t) == \A k \in 1 .. Len(s) : t[k].mod = s[k].mod

\* The innermost frame goes on, without awaiting an import.
LEMMA ContinueGood ==
  ASSUME NEW g, NEW s, NEW md, NEW f, NEW t, GoodStack(g, s, md), s # <<>>,
         t = Append(Front(s), f), GoodFrame(g, f, md), f.mod = Last(s).mod, f.at # "import"
  PROVE  /\ GoodStack(g, t, md) /\ t # <<>> /\ Len(t) = Len(s)
         /\ SameModules(s, t)
<1>1. PICK S : s \in Seq(S)
  BY DEF GoodStack
<1>2. /\ \E T : t \in Seq(T)
      /\ t # <<>> /\ Len(t) = Len(s) /\ Len(s) \in Nat \ {0} /\ t[Len(s)] = f
      /\ \A i \in 1 .. Len(s) - 1 : t[i] = s[i]
  <2>1. Replaced(s, f, Append(Front(s), f))
    BY <1>1, ReplaceLast, Zenon
  <2>2. Replaced(s, f, t)
    BY <2>1, Zenon
  <2>3. QED
    BY <2>2 DEF Replaced
<1>3. Last(s) = s[Len(s)]
  BY DEF Last
<1>4. \A k \in 1 .. Len(s) : t[k].mod = s[k].mod
  <2>1. t[Len(s)].mod = s[Len(s)].mod
    BY <1>2, <1>3
  <2>2. \A k \in 1 .. Len(s) - 1 : t[k].mod = s[k].mod
    BY <1>2
  <2>3. \A k \in 1 .. Len(s) : k = Len(s) \/ k \in 1 .. Len(s) - 1
    BY <1>2
  <2>4. QED
    BY <2>1, <2>2, <2>3
<1>5. \A k \in 1 .. Len(t) : GoodFrame(g, t[k], md)
  <2>1. \A k \in 1 .. Len(s) - 1 : GoodFrame(g, t[k], md)
    BY <1>2 DEF GoodStack
  <2>2. \A k \in 1 .. Len(s) : k = Len(s) \/ k \in 1 .. Len(s) - 1
    BY <1>2
  <2>3. QED
    BY <1>2, <2>1, <2>2
<1>6. \A k \in 1 .. Len(t) - 1 : t[k].at = "import" /\ t[k + 1].mod = Head(t[k].todo)
  <2> SUFFICES ASSUME NEW k \in 1 .. Len(s) - 1
               PROVE  t[k].at = "import" /\ t[k + 1].mod = Head(t[k].todo)
    BY <1>2
  <2>1. t[k] = s[k] /\ k + 1 \in 1 .. Len(s)
    BY <1>2
  <2>2. t[k + 1].mod = s[k + 1].mod
    BY <1>4, <2>1
  <2>3. QED
    BY <2>1, <2>2 DEF GoodStack
<1>7. t[Len(t)].at # "import"
  BY <1>2
<1>8. \A i, j \in 1 .. Len(t) : i < j => Depth(g)[t[j].mod] < Depth(g)[t[i].mod]
  <2> SUFFICES ASSUME NEW i \in 1 .. Len(s), NEW j \in 1 .. Len(s), i < j
               PROVE  Depth(g)[t[j].mod] < Depth(g)[t[i].mod]
    BY <1>2
  <2>1. Depth(g)[s[j].mod] < Depth(g)[s[i].mod]
    BY DEF GoodStack
  <2>2. QED
    BY <1>4, <2>1
<1>9. QED
  BY <1>2, <1>4, <1>5, <1>6, <1>7, <1>8 DEF GoodStack, SameModules

\* The innermost frame awaits its next import, which gets a frame.
LEMMA PushGood ==
  ASSUME NEW g \in Graphs, NEW s, NEW md, NEW f, NEW h, NEW u, NEW t,
         GoodStack(g, s, md), s # <<>>, Replaced(s, f, u), t = Append(u, h),
         GoodFrame(g, f, md), f.mod = Last(s).mod, f.at = "import",
         GoodFrame(g, h, md), h.mod = Head(f.todo), h.at # "import"
  PROVE  /\ GoodStack(g, t, md) /\ t # <<>> /\ Len(t) = Len(s) + 1
         /\ SameModules(s, t)
         /\ t[Len(s) + 1] = h
<1>1. /\ \E T : u \in Seq(T)
      /\ Len(u) = Len(s)
      /\ Len(s) \in Nat \ {0} /\ u[Len(s)] = f
      /\ \A i \in 1 .. Len(s) - 1 : u[i] = s[i]
  BY DEF Replaced
<1>2. Len(s) \in Nat \ {0}
  BY <1>1
<1>3. /\ \E T : t \in Seq(T)
      /\ t # <<>> /\ Len(t) = Len(s) + 1 /\ t[Len(s) + 1] = h
      /\ \A i \in 1 .. Len(s) : t[i] = u[i]
  <2>1. PICK U : u \in Seq(U)
    BY <1>1
  <2>2. /\ t \in Seq(U \cup {h}) /\ t # <<>> /\ Len(t) = Len(u) + 1 /\ t[Len(u) + 1] = h
        /\ \A i \in 1 .. Len(u) : t[i] = u[i]
    BY <2>1, AppendAny
  <2>3. QED
    BY <1>1, <2>2
<1>4. t[Len(s)] = f /\ \A i \in 1 .. Len(s) - 1 : t[i] = s[i]
  BY <1>1, <1>3
<1>5. \A k \in 1 .. Len(s) : k = Len(s) \/ k \in 1 .. Len(s) - 1
  BY <1>2
<1>6. \A k \in 1 .. Len(s) + 1 : k = Len(s) + 1 \/ k \in 1 .. Len(s)
  BY <1>2
<1>7. \A k \in 1 .. Len(s) : t[k].mod = s[k].mod
  BY <1>4, <1>5 DEF Last
<1>8. \A k \in 1 .. Len(t) : GoodFrame(g, t[k], md)
  <2>1. \A k \in 1 .. Len(s) - 1 : GoodFrame(g, t[k], md)
    BY <1>2, <1>4 DEF GoodStack
  <2>2. QED
    BY <1>3, <1>4, <1>5, <1>6, <2>1
<1>9. \A k \in 1 .. Len(t) - 1 : t[k].at = "import" /\ t[k + 1].mod = Head(t[k].todo)
  <2>1. t[Len(s)].at = "import" /\ t[Len(s) + 1].mod = Head(t[Len(s)].todo)
    BY <1>3, <1>4
  <2>2. ASSUME NEW k \in 1 .. Len(s) - 1
        PROVE  t[k].at = "import" /\ t[k + 1].mod = Head(t[k].todo)
    <3>0. t[k] = s[k]
      BY <1>4
    <3>1. t[k] = s[k] /\ k + 1 \in 1 .. Len(s)
      BY <1>2, <3>0
    <3>2. t[k + 1].mod = s[k + 1].mod
      BY <1>7, <3>1
    <3>3. QED
      BY <3>1, <3>2 DEF GoodStack
  <2>3. Len(t) - 1 = Len(s)
    BY <1>2, <1>3
  <2>4. QED
    BY <1>5, <2>1, <2>2, <2>3
<1>10. t[Len(t)].at # "import"
  BY <1>3
<1>11. /\ Depth(g)[h.mod] < Depth(g)[Last(s).mod]
       /\ \A k \in 1 .. Len(s) : Depth(g)[s[k].mod] \in Int
  <2>1. IsDepth(g, Depth(g))
    BY DepthDecreases
  <2>2. h.mod \in ToSet(g.imports[f.mod]) /\ f.mod \in Modules
    <3>1. f.todo \in Seq(Modules) /\ f.todo # <<>> /\ ToSet(f.todo) \subseteq ToSet(g.imports[f.mod])
      BY DEF GoodFrame
    <3>2. Head(f.todo) \in ToSet(f.todo)
      BY <3>1 DEF ToSet
    <3>3. QED
      BY <3>1, <3>2 DEF GoodFrame
  <2>3. \A k \in 1 .. Len(s) : s[k].mod \in Modules
    BY DEF GoodStack, GoodFrame
  <2>4. QED
    BY <2>1, <2>2, <2>3 DEF IsDepth
<1>12. \A i, j \in 1 .. Len(t) : i < j => Depth(g)[t[j].mod] < Depth(g)[t[i].mod]
  <2> SUFFICES ASSUME NEW i \in 1 .. Len(s) + 1, NEW j \in 1 .. Len(s) + 1, i < j
               PROVE  Depth(g)[t[j].mod] < Depth(g)[t[i].mod]
    BY <1>3
  <2>0. i \in 1 .. Len(s)
    BY <1>2
  <2>1. i \in 1 .. Len(s) /\ t[i].mod = s[i].mod
    BY <2>0, <1>7
  <2>2. CASE j \in 1 .. Len(s)
    BY <2>1, <2>2, <1>7 DEF GoodStack
  <2>3. CASE j = Len(s) + 1
    <3>1. CASE i = Len(s)
      BY <2>1, <2>3, <3>1, <1>3, <1>11 DEF Last
    <3>2. CASE i < Len(s)
      <4>1. Len(s) \in 1 .. Len(s)
        BY <1>2
      <4>2. Depth(g)[Last(s).mod] < Depth(g)[s[i].mod]
        BY <2>1, <3>2, <4>1 DEF GoodStack, Last
      <4>3. Depth(g)[Last(s).mod] \in Int /\ Depth(g)[s[i].mod] \in Int
        BY <1>11, <2>1, <4>1 DEF Last
      <4>4. Depth(g)[h.mod] \in Int
        <5>1. h.mod \in Modules
          BY DEF GoodFrame
        <5>2. QED
          BY <5>1, DepthDecreases DEF IsDepth
      <4>5. Depth(g)[h.mod] < Depth(g)[s[i].mod]
        BY <1>11, <4>2, <4>3, <4>4
      <4>6. QED
        BY <2>1, <2>3, <4>5, <1>3
    <3>3. i = Len(s) \/ i < Len(s)
      BY <2>0, <1>2
    <3>4. QED
      BY <3>1, <3>2, <3>3
  <2>4. QED
    BY <1>6, <2>2, <2>3
<1>13. GoodStack(g, t, md)
  BY <1>3, <1>8, <1>9, <1>10, <1>12 DEF GoodStack
<1>14. QED
  BY <1>3, <1>7, <1>13 DEF SameModules

\* The innermost frame returns when its module has been created.
LEMMA PopGood ==
  ASSUME NEW g \in Graphs, NEW s, NEW md, NEW md2, GoodStack(g, s, md), s # <<>>,
         md \subseteq md2, Last(s).mod \in md2
  PROVE  /\ GoodStack(g, Front(s), md2) /\ Len(Front(s)) = Len(s) - 1
         /\ Len(s) \in Nat \ {0} /\ (Front(s) # <<>> <=> Len(s) > 1)
         /\ \A k \in 1 .. Len(s) - 1 :
                Front(s)[k] = s[k] /\ s[k].mod # Last(s).mod
<1> DEFINE t == Front(s)
<1>1. PICK S : s \in Seq(S)
  BY DEF GoodStack
<1>2. /\ Len(s) \in Nat \ {0} /\ Last(s) = s[Len(s)]
      /\ t \in Seq(S) /\ Len(t) = Len(s) - 1
      /\ \A i \in 1 .. Len(s) - 1 : t[i] = s[i]
  BY <1>1, FrontLast
<1>3. t # <<>> <=> Len(s) > 1
  BY <1>2, EmptySeq
<1>4. GoodStack(g, s, md2)
  BY MoreCreated
<1> HIDE DEF t
<1>5. \A k \in 1 .. Len(s) - 1 : k \in 1 .. Len(s)
  BY <1>2
<1>6. \A k \in 1 .. Len(t) : GoodFrame(g, t[k], md2)
  BY <1>2, <1>4, <1>5 DEF GoodStack
<1>7. \A k \in 1 .. Len(t) - 1 : t[k].at = "import" /\ t[k + 1].mod = Head(t[k].todo)
  <2> SUFFICES ASSUME NEW k \in 1 .. Len(s) - 2
               PROVE  t[k].at = "import" /\ t[k + 1].mod = Head(t[k].todo)
    BY <1>2
  <2>1. k \in 1 .. Len(s) - 1 /\ k + 1 \in 1 .. Len(s) - 1
    BY <1>2
  <2>2. t[k] = s[k] /\ t[k + 1] = s[k + 1]
    BY <1>2, <2>1
  <2>3. QED
    BY <1>4, <2>1, <2>2 DEF GoodStack
<1>8. t # <<>> => Head(t[Len(t)].todo) \in md2
  <2> SUFFICES ASSUME t # <<>>
               PROVE  Head(t[Len(t)].todo) \in md2
    OBVIOUS
  <2>1. Len(t) \in 1 .. Len(s) - 1 /\ Len(t) + 1 = Len(s)
    BY <1>2, <1>3
  <2>2. t[Len(t)] = s[Len(t)] /\ s[Len(t) + 1].mod = Head(s[Len(t)].todo)
    BY <1>2, <2>1 DEF GoodStack
  <2>3. QED
    BY <1>2, <2>1, <2>2
<1>9. \A i, j \in 1 .. Len(t) : i < j => Depth(g)[t[j].mod] < Depth(g)[t[i].mod]
  BY <1>2, <1>4, <1>5 DEF GoodStack
<1>10. GoodStack(g, t, md2)
  BY <1>2, <1>6, <1>7, <1>8, <1>9 DEF GoodStack
<1>11. ASSUME NEW k \in 1 .. Len(s) - 1
       PROVE  s[k].mod # Last(s).mod
  <2>1. k \in 1 .. Len(s) /\ Len(s) \in 1 .. Len(s) /\ k < Len(s)
    BY <1>2
  <2>2. Depth(g)[s[Len(s)].mod] < Depth(g)[s[k].mod]
    BY <2>1 DEF GoodStack
  <2>3. Depth(g)[s[k].mod] \in Int
    <3>1. s[k].mod \in Modules
      BY <2>1 DEF GoodStack, GoodFrame
    <3>2. QED
      BY <3>1, DepthDecreases DEF IsDepth
  <2>4. QED
    BY <1>2, <2>2, <2>3
<1>12. QED
  BY <1>2, <1>3, <1>10, <1>11 DEF t

-----------------------------------------------------------------------------
(* The steps.  A step that changes the stack of one call only, by any of   *)
(* the moves above, keeps the invariant.                                   *)

LEMMA CreatedChange ==
  ASSUME Created, NEW c \in Calls, NEW t, stack' = [stack EXCEPT ![c] = t],
         GoodStack(graph, t, metadata'), graph' = graph,
         metadata \subseteq metadata', metadata' \subseteq Modules,
         DOMAIN registered' = Modules,
         \A m \in Modules : registered'[m] # None => m \in metadata',
         DOMAIN status' = Calls, \A d \in Calls \ {c} : status'[d] = status[d],
         status'[c] = "running" <=> t # <<>>
  PROVE  Created'
<1>1. /\ DOMAIN stack' = Calls /\ stack'[c] = t
      /\ \A d \in Calls \ {c} : stack'[d] = stack[d]
  BY DEF Created
<1>2. \A d \in Calls : GoodStack(graph, stack'[d], metadata')
  <2> SUFFICES ASSUME NEW d \in Calls
               PROVE  GoodStack(graph, stack'[d], metadata')
    OBVIOUS
  <2>1. CASE d = c
    BY <1>1, <2>1
  <2>2. CASE d # c
    <3>1. GoodStack(graph, stack[d], metadata) /\ stack'[d] = stack[d]
      BY <1>1, <2>2 DEF Created
    <3>2. QED
      BY <3>1, MoreCreated
  <2>3. QED
    BY <2>1, <2>2
<1>3. \A d \in Calls : status'[d] = "running" <=> stack'[d] # <<>>
  BY <1>1 DEF Created
<1>4. QED
  BY <1>1, <1>2, <1>3 DEF Created

LEMMA LastFrame ==
  ASSUME Created, NEW c \in Calls, stack[c] # <<>>
  PROVE  /\ GoodStack(graph, stack[c], metadata) /\ status[c] = "running"
         /\ GoodFrame(graph, Last(stack[c]), metadata)
         /\ Last(stack[c]).at = "import" => Head(Last(stack[c]).todo) \in metadata
         /\ Len(stack[c]) \in Nat \ {0} /\ Last(stack[c]) = stack[c][Len(stack[c])]
<1>1. GoodStack(graph, stack[c], metadata) /\ status[c] = "running"
  BY DEF Created
<1>2. PICK S : stack[c] \in Seq(S)
  BY <1>1 DEF GoodStack
<1>3. Len(stack[c]) \in Nat \ {0} /\ Last(stack[c]) = stack[c][Len(stack[c])]
  BY <1>2, FrontLast
<1>4. QED
  BY <1>1, <1>3 DEF GoodStack

LEMMA ContinueStep ==
  ASSUME Created, NEW c \in Calls, stack[c] # <<>>, NEW f, Continue(c, f),
         GoodFrame(graph, f, metadata), f.mod = Last(stack[c]).mod, f.at # "import"
  PROVE  Created' /\ (Once => Once')
<1>0. PICK t : t = Append(Front(stack[c]), f)
  OBVIOUS
<1>1. /\ GoodStack(graph, t, metadata) /\ t # <<>> /\ Len(t) = Len(stack[c])
      /\ SameModules(stack[c], t)
  <2>1. GoodStack(graph, stack[c], metadata)
    BY LastFrame
  <2>2. QED
    BY <1>0, <2>1, ContinueGood
<1>2. /\ stack' = [stack EXCEPT ![c] = t]
      /\ UNCHANGED <<graph, injectors, registered, metadata, status, removes, overlapped>>
  BY <1>0 DEF Continue
<1>3. Created'
  <2>1. status'[c] = "running" <=> t # <<>>
    BY <1>1, <1>2, LastFrame
  <2>2. QED
    BY <1>1, <1>2, <2>1, CreatedChange DEF Created
<1>4. ASSUME Once
      PROVE  Once'
  <2>1. ASSUME Undisturbed
        PROVE  \A d \in Calls : \A k \in 1 .. Len(stack'[d]) : registered[stack'[d][k].mod] = None
    <3>1. \A d \in Calls : d # c => stack'[d] = stack[d]
      BY <1>2 DEF Created
    <3>2. stack'[c] = t
      BY <1>2 DEF Created
    <3>3. QED
      BY <1>1, <1>4, <2>1, <3>1, <3>2 DEF Once, SameModules
  <2>2. QED
    BY <1>2, <1>4, <2>1 DEF Once, Undisturbed
<1>5. QED
  BY <1>3, <1>4

LEMMA FailStep ==
  ASSUME Created, NEW c \in Calls, Fail(c)
  PROVE  Created' /\ (Once => Once')
<1>1. /\ stack' = [stack EXCEPT ![c] = <<>>] /\ status' = [status EXCEPT ![c] = "failed"]
      /\ UNCHANGED <<graph, injectors, registered, metadata, removes, overlapped>>
  BY DEF Fail
<1>2. /\ stack'[c] = <<>> /\ status'[c] = "failed" /\ DOMAIN status' = Calls
      /\ \A d \in Calls \ {c} : stack'[d] = stack[d] /\ status'[d] = status[d]
  BY <1>1 DEF Created
<1>3. Created'
  <2>1. GoodStack(graph, <<>>, metadata')
    BY EmptyStack
  <2>2. QED
    BY <1>1, <1>2, <2>1, CreatedChange DEF Created
<1>4. ASSUME Once
      PROVE  Once'
  <2>1. \A d \in Calls : status'[d] = "running" => status[d] = "running"
    BY <1>2
  <2>2. ASSUME Undisturbed
        PROVE  \A d \in Calls : \A k \in 1 .. Len(stack'[d]) : registered[stack'[d][k].mod] = None
    BY <1>2, <1>4, <2>2, EmptySeq DEF Once
  <2>3. QED
    BY <1>1, <1>4, <2>1, <2>2 DEF Once, Undisturbed
<1>5. QED
  BY <1>3, <1>4

LEMMA TailSet ==
  ASSUME NEW S, NEW s \in Seq(S), s # <<>>
  PROVE  /\ Tail(s) \in Seq(S) /\ ToSet(Tail(s)) \subseteq ToSet(s)
         /\ ToSet(s) \subseteq ToSet(Tail(s)) \cup {Head(s)}
<1>1. /\ Head(s) = s[1] /\ Tail(s) \in Seq(S) /\ Len(Tail(s)) = Len(s) - 1
      /\ \A i \in 1 .. Len(Tail(s)) : Tail(s)[i] = s[i + 1]
      /\ Len(s) \in Nat \ {0}
  BY HeadTailProperties, EmptySeq
<1>2. DOMAIN s = 1 .. Len(s) /\ DOMAIN Tail(s) = 1 .. Len(Tail(s))
  BY <1>1, LenProperties
<1>3. ASSUME NEW i \in DOMAIN Tail(s)
      PROVE  Tail(s)[i] \in ToSet(s)
  <2>1. i + 1 \in DOMAIN s /\ Tail(s)[i] = s[i + 1]
    BY <1>1, <1>2
  <2>2. QED
    BY <2>1 DEF ToSet
<1>4. ASSUME NEW i \in DOMAIN s
      PROVE  s[i] \in ToSet(Tail(s)) \cup {Head(s)}
  <2>1. CASE i = 1
    BY <1>1, <2>1
  <2>2. CASE i # 1
    <3>1. i - 1 \in DOMAIN Tail(s) /\ Tail(s)[i - 1] = s[i]
      BY <1>1, <1>2, <2>2
    <3>2. QED
      BY <3>1 DEF ToSet
  <2>3. QED
    BY <2>1, <2>2
<1>5. QED
  BY <1>1, <1>3, <1>4 DEF ToSet

LEMMA TakeExportsStep ==
  ASSUME Created, NEW c \in Calls, stack[c] # <<>>, NEW f, f = Last(stack[c]),
         f.todo # <<>>, Head(f.todo) \in metadata, TakeExports(c, f)
  PROVE  Created' /\ (Once => Once')
<1>1. CASE Fail(c)
  BY <1>1, FailStep
<1>2. ASSUME NEW items, Continue(c, [f EXCEPT !.at = "next", !.todo = Tail(@), !.items = items])
      PROVE  Created' /\ (Once => Once')
  <2> DEFINE h == [f EXCEPT !.at = "next", !.todo = Tail(@), !.items = items]
  <2>1. GoodFrame(graph, f, metadata)
    BY LastFrame
  <2>2. /\ DOMAIN h = {"mod", "at", "todo", "items"} /\ h.mod = f.mod /\ h.at = "next"
        /\ h.todo = Tail(f.todo)
    BY <2>1 DEF GoodFrame
  <2>3. /\ Tail(f.todo) \in Seq(Modules) /\ ToSet(Tail(f.todo)) \subseteq ToSet(f.todo)
        /\ ToSet(f.todo) \subseteq ToSet(Tail(f.todo)) \cup {Head(f.todo)}
    BY <2>1, TailSet DEF GoodFrame
  <2>4. GoodFrame(graph, h, metadata)
    <3> HIDE DEF h
    <3>1. QED
      BY <2>1, <2>2, <2>3 DEF GoodFrame
  <2> HIDE DEF h
  <2>5. Continue(c, h)
    BY <1>2 DEF h
  <2>6. QED
    BY <2>2, <2>4, <2>5, ContinueStep
<1>3. QED
  BY <1>1, <1>2 DEF TakeExports

LEMMA ImportNextStep ==
  ASSUME Created, NEW c \in Calls, ImportNext(c)
  PROVE  Created' /\ (Once => Once')
<1> DEFINE f == Last(stack[c])
<1>1. stack[c] # <<>> /\ f.at = "next"
  BY DEF ImportNext, Synchronous
<1>2. GoodFrame(graph, f, metadata) /\ GoodStack(graph, stack[c], metadata) /\ status[c] = "running"
  BY <1>1, LastFrame
<1>3. CASE f.todo = <<>>
  <2>1. PICK h : h = [f EXCEPT !.at = "ready"]
    OBVIOUS
  <2>2. Continue(c, h)
    BY <1>3, <2>1 DEF ImportNext
  <2>3. h.mod = f.mod /\ h.at = "ready" /\ h.todo = <<>> /\ DOMAIN h = DOMAIN f
    BY <1>2, <1>3, <2>1 DEF GoodFrame
  <2>4. GoodFrame(graph, h, metadata)
    BY <1>2, <1>3, <2>3 DEF GoodFrame
  <2>5. QED
    BY <1>1, <2>2, <2>3, <2>4, ContinueStep
<1>4. ASSUME f.todo # <<>>, registered[Head(f.todo)] # None
      PROVE  Created' /\ (Once => Once')
  <2>1. Head(f.todo) \in Modules
    BY <1>2, <1>4 DEF GoodFrame
  <2>2. Head(f.todo) \in metadata
    BY <1>4, <2>1 DEF Created
  <2>3. TakeExports(c, f)
    BY <1>4 DEF ImportNext
  <2>4. QED
    BY <1>1, <1>4, <2>2, <2>3, TakeExportsStep
<1>5. ASSUME f.todo # <<>>, registered[Head(f.todo)] = None
      PROVE  Created' /\ (Once => Once')
  <2>1. PICK h, n, t : h = [f EXCEPT !.at = "import"] /\ n = NewFrame(Head(f.todo))
                       /\ t = Append(Append(Front(stack[c]), h), n)
    OBVIOUS
  <2>2. /\ stack' = [stack EXCEPT ![c] = t]
        /\ UNCHANGED <<graph, injectors, registered, metadata, status, removes, overlapped>>
    BY <1>5, <2>1 DEF ImportNext
  <2>3. /\ h.mod = f.mod /\ h.at = "import" /\ h.todo = f.todo /\ DOMAIN h = DOMAIN f
    BY <1>2, <2>1 DEF GoodFrame
  <2>4. GoodFrame(graph, h, metadata)
    BY <1>2, <1>5, <2>3 DEF GoodFrame
  <2>5. GoodFrame(graph, n, metadata) /\ n.mod = Head(f.todo) /\ n.at = "next"
    <3>1. Head(f.todo) \in Modules /\ graph \in Graphs
      BY <1>2, <1>5 DEF GoodFrame, Created
    <3>2. QED
      BY <2>1, <3>1, NewFrameGood
  <2>6. /\ GoodStack(graph, t, metadata) /\ t # <<>> /\ Len(t) = Len(stack[c]) + 1
        /\ SameModules(stack[c], t) /\ t[Len(stack[c]) + 1] = n
    <3>1. PICK s, u : s = stack[c] /\ u = Append(Front(s), h)
      OBVIOUS
    <3>2. Replaced(s, h, u)
      <4>1. PICK S : s \in Seq(S)
        BY <1>2, <3>1 DEF GoodStack
      <4>2. Replaced(s, h, Append(Front(s), h))
        BY <1>1, <3>1, <4>1, ReplaceLast
      <4>3. QED
        BY <3>1, <4>2
    <3>3. graph \in Graphs /\ GoodStack(graph, s, metadata) /\ s # <<>> /\ t = Append(u, n)
      BY <1>1, <1>2, <2>1, <3>1 DEF Created
    <3>4. /\ GoodFrame(graph, h, metadata) /\ h.mod = Last(s).mod /\ h.at = "import"
          /\ GoodFrame(graph, n, metadata) /\ n.mod = Head(h.todo) /\ n.at # "import"
      BY <2>3, <2>4, <2>5, <3>1
    <3>5. GoodStack(graph, t, metadata)
      BY ONLY <3>2, <3>3, <3>4, PushGood
    <3>6. t # <<>>
      BY ONLY <3>2, <3>3, <3>4, PushGood
    <3>7. Len(t) = Len(s) + 1
      BY ONLY <3>2, <3>3, <3>4, PushGood
    <3>8. SameModules(s, t) /\ t[Len(s) + 1] = n
      BY ONLY <3>2, <3>3, <3>4, PushGood
    <3>9. QED
      BY <3>1, <3>5, <3>6, <3>7, <3>8
  <2>7. Created'
    <3>1. status'[c] = "running" <=> t # <<>>
      BY <1>2, <2>2, <2>6
    <3>2. QED
      BY <2>2, <2>6, <3>1, CreatedChange DEF Created
  <2>8. ASSUME Once
        PROVE  Once'
    <3>1. ASSUME Undisturbed, NEW d \in Calls, NEW k \in 1 .. Len(stack'[d])
          PROVE  registered[stack'[d][k].mod] = None
      <4>1. CASE d # c
        <5>1. stack'[d] = stack[d]
          BY <2>2, <4>1 DEF Created
        <5>2. QED
          BY <2>8, <3>1, <5>1 DEF Once
      <4>2. CASE d = c
        <5>1. stack'[d] = t
          BY <2>2, <4>2 DEF Created
        <5>2. Len(stack[c]) \in Nat
          BY <1>1, LastFrame
        <5>3. k = Len(stack[c]) + 1 \/ k \in 1 .. Len(stack[c])
          BY <2>6, <3>1, <5>1, <5>2
        <5>4. QED
          BY <1>5, <2>5, <2>6, <2>8, <3>1, <5>1, <5>3 DEF Once, SameModules
      <4>3. QED
        BY <4>1, <4>2
    <3>2. QED
      BY <2>2, <2>8, <3>1 DEF Once, Undisturbed
  <2>9. QED
    BY <2>7, <2>8
<1>6. QED
  BY <1>3, <1>4, <1>5

LEMMA StartStep ==
  ASSUME Created, NEW c \in Calls, NEW m \in Modules, Start(c, m)
  PROVE  Created' /\ (Once => Once')
<1>1. status[c] = "idle" /\ UNCHANGED <<graph, injectors, registered, metadata, removes>>
  BY DEF Start
<1>2. stack[c] = <<>>
  BY <1>1 DEF Created
<1>3. CASE status' = [status EXCEPT ![c] = "already"] /\ UNCHANGED <<stack, overlapped>>
  <2>1. /\ DOMAIN status' = Calls /\ status'[c] = "already"
        /\ \A d \in Calls \ {c} : status'[d] = status[d]
    BY <1>3 DEF Created
  <2>2. Created'
    BY <1>1, <1>2, <1>3, <2>1 DEF Created
  <2>3. Once => Once'
    BY <1>1, <1>3, <2>1 DEF Once, Undisturbed
  <2>4. QED
    BY <2>2, <2>3
<1>4. ASSUME registered[m] = None, status' = [status EXCEPT ![c] = "running"],
             stack' = [stack EXCEPT ![c] = <<NewFrame(m)>>],
             overlapped' = (overlapped \/ \E d \in Calls : status[d] = "running")
      PROVE  Created' /\ (Once => Once')
  <2>1. PICK t : t = <<NewFrame(m)>>
    OBVIOUS
  <2>2. GoodStack(graph, t, metadata) /\ Len(t) = 1 /\ t[1].mod = m /\ t # <<>>
    BY <2>1, NewStack DEF Created
  <2>3. stack' = [stack EXCEPT ![c] = t]
    BY <1>4, <2>1
  <2>4. /\ DOMAIN status' = Calls /\ status'[c] = "running" /\ stack'[c] = t
        /\ \A d \in Calls \ {c} : status'[d] = status[d] /\ stack'[d] = stack[d]
    BY <1>4, <2>3 DEF Created
  <2>5. Created'
    BY <1>1, <2>2, <2>3, <2>4, CreatedChange DEF Created
  <2>6. ASSUME Once
        PROVE  Once'
    <3>1. ~overlapped' => \A d, e \in Calls : status'[d] = "running" /\ status'[e] = "running" => d = e
      BY <1>4, <2>4
    <3>2. ASSUME Undisturbed', NEW d \in Calls, NEW k \in 1 .. Len(stack'[d])
          PROVE  Undisturbed /\ registered[stack'[d][k].mod] = None
      <4>1. Undisturbed
        BY <1>1, <1>4, <3>2 DEF Undisturbed
      <4>2. CASE d = c
        BY <1>4, <2>2, <2>4, <3>2, <4>1, <4>2
      <4>3. CASE d # c
        BY <2>4, <2>6, <3>2, <4>1, <4>3 DEF Once
      <4>4. QED
        BY <4>1, <4>2, <4>3
    <3>3. Undisturbed' => Undisturbed
      BY <1>1, <1>4 DEF Undisturbed
    <3>4. QED
      BY <1>1, <2>6, <3>1, <3>2, <3>3 DEF Once
  <2>7. QED
    BY <2>5, <2>6
<1>5. QED
  BY <1>3, <1>4 DEF Start

LEMMA RemoveStep ==
  ASSUME Created, NEW m \in Modules, RemoveModule(m)
  PROVE  Created' /\ (Once => Once')
<1>1. /\ registered' = [registered EXCEPT ![m] = None] /\ removes' = removes + 1
      /\ UNCHANGED <<graph, metadata, stack, status, overlapped>>
  BY DEF RemoveModule
<1>2. /\ DOMAIN registered' = Modules
      /\ \A x \in Modules : registered'[x] # None => registered[x] # None
  BY <1>1 DEF Created
<1>3. Created'
  BY <1>1, <1>2 DEF Created
<1>4. ASSUME Once
      PROVE  Once'
  <2>1. removes' \in Nat /\ removes' # 0
    BY <1>1, <1>4 DEF Once
  <2>2. QED
    BY <1>1, <1>4, <2>1 DEF Once, Undisturbed
<1>5. QED
  BY <1>3, <1>4

\* A module is registered when all its imports have been created.
LEMMA RegisterImports ==
  ASSUME Created, NEW c \in Calls, stack[c] # <<>>, Last(stack[c]).at = "ready"
  PROVE  /\ Last(stack[c]).mod \in Modules
         /\ ToSet(graph.imports[Last(stack[c]).mod]) \subseteq metadata
<1>1. GoodFrame(graph, Last(stack[c]), metadata)
  BY LastFrame
<1>2. ToSet(<<>>) = {}
  BY DEF ToSet
<1>3. QED
  BY <1>1, <1>2 DEF GoodFrame

LEMMA RegisterStep ==
  ASSUME Created, NEW c \in Calls, Register(c)
  PROVE  Created' /\ (Once => Once')
<1>1. CASE Fail(c)
  BY <1>1, FailStep
<1>2. ASSUME NEW m, NEW n, NEW i, NEW t,
             m = Last(stack[c]).mod, n = Len(injectors) + 1, i.mod = m, t = Front(stack[c]),
             stack[c] # <<>>, injectors' = Append(injectors, i),
             registered' = [registered EXCEPT ![m] = n], metadata' = metadata \cup {m},
             stack' = [stack EXCEPT ![c] = t],
             status' = IF Len(stack[c]) > 1 THEN status ELSE [status EXCEPT ![c] = "done"],
             UNCHANGED <<graph, removes, overlapped>>
      PROVE  Created' /\ (Once => Once')
  <2>1. /\ GoodStack(graph, stack[c], metadata) /\ status[c] = "running" /\ m \in Modules
        /\ Len(stack[c]) \in Nat \ {0} /\ m = stack[c][Len(stack[c])].mod
    BY <1>2, LastFrame DEF GoodFrame
  <2>2. /\ GoodStack(graph, t, metadata') /\ Len(t) = Len(stack[c]) - 1
        /\ (t # <<>> <=> Len(stack[c]) > 1)
        /\ \A k \in 1 .. Len(stack[c]) - 1 : t[k] = stack[c][k] /\ stack[c][k].mod # m
    <3>1. graph \in Graphs /\ metadata \subseteq metadata' /\ m \in metadata'
      BY <1>2 DEF Created
    <3>2. QED
      BY <1>2, <2>1, <3>1, PopGood
  <2>3. /\ DOMAIN status' = Calls /\ DOMAIN registered' = Modules /\ registered'[m] = n
        /\ stack'[c] = t /\ (status'[c] = "running" <=> t # <<>>)
        /\ \A d \in Calls \ {c} : status'[d] = status[d] /\ stack'[d] = stack[d]
        /\ \A x \in Modules \ {m} : registered'[x] = registered[x]
    BY <1>2, <2>1, <2>2 DEF Created
  <2>4. Created'
    <3>1. /\ metadata \subseteq metadata' /\ metadata' \subseteq Modules
          /\ \A x \in Modules : registered'[x] # None => x \in metadata'
      BY <1>2, <2>1, <2>3 DEF Created
    <3>2. QED
      BY <1>2, <2>2, <2>3, <3>1, CreatedChange
  <2>5. ASSUME Once, Undisturbed
        PROVE  /\ \E S : injectors' \in Seq(S)
               /\ \A j \in 1 .. Len(injectors') :
                      injectors'[j].mod \in Modules /\ registered'[injectors'[j].mod] = j
               /\ \A d \in Calls : \A k \in 1 .. Len(stack'[d]) :
                      registered'[stack'[d][k].mod] = None
    <3>1. PICK S : injectors \in Seq(S)
      BY <2>5 DEF Once
    <3>2. PICK ins : ins = injectors'
      OBVIOUS
    <3>3. /\ ins \in Seq(S \cup {i}) /\ Len(injectors) \in Nat /\ Len(ins) = n
          /\ ins[n] = i /\ \A j \in 1 .. Len(injectors) : ins[j] = injectors[j]
      BY <1>2, <3>1, <3>2, AppendAny
    <3>4. registered[m] = None
      <4>1. Len(stack[c]) \in 1 .. Len(stack[c])
        BY <2>1
      <4>2. QED
        BY <2>1, <2>5, <4>1 DEF Once
    <3>5. ASSUME NEW j \in 1 .. Len(ins)
          PROVE  ins[j].mod \in Modules /\ registered'[ins[j].mod] = j
      <4>1. CASE j = n
        BY <1>2, <2>1, <2>3, <3>3, <4>1
      <4>2. CASE j \in 1 .. Len(injectors)
        <5>1. ins[j].mod \in Modules /\ registered[ins[j].mod] = j
          BY <2>5, <3>3, <4>2 DEF Once
        <5>2. j # None
          BY <4>2, ModuleAssumption
        <5>3. ins[j].mod # m
          BY <3>4, <5>1, <5>2
        <5>4. QED
          BY <2>3, <5>1, <5>3
      <4>3. QED
        BY <1>2, <3>3, <4>1, <4>2
    <3>6. ASSUME NEW d \in Calls, NEW k \in 1 .. Len(stack'[d])
          PROVE  registered'[stack'[d][k].mod] = None
      <4>1. CASE d = c
        <5>1. k \in 1 .. Len(stack[c]) - 1 /\ k \in 1 .. Len(stack[c])
          BY <2>1, <2>2, <2>3, <3>6, <4>1
        <5>2. stack'[d][k] = stack[c][k] /\ stack[c][k].mod # m
          BY <2>2, <2>3, <4>1, <5>1
        <5>3. stack[c][k].mod \in Modules
          BY <2>1, <5>1 DEF GoodStack, GoodFrame
        <5>4. registered[stack[c][k].mod] = None
          BY <2>5, <5>1 DEF Once
        <5>5. QED
          BY <2>3, <5>2, <5>3, <5>4
      <4>2. CASE d # c
        <5>1. stack'[d] = stack[d] /\ status[d] # "running"
          BY <2>1, <2>3, <2>5, <4>2 DEF Once, Undisturbed
        <5>2. stack[d] = <<>>
          BY <5>1 DEF Created
        <5>3. QED
          BY <3>6, <5>1, <5>2, EmptySeq
      <4>3. QED
        BY <4>1, <4>2
    <3>7. QED
      BY <3>2, <3>3, <3>5, <3>6
  <2>6. ASSUME Once
        PROVE  Once'
    <3>1. \A d \in Calls : status'[d] = "running" => status[d] = "running"
      BY <2>1, <2>3
    <3>2. QED
      BY <1>2, <2>5, <2>6, <3>1 DEF Once, Undisturbed
  <2>7. QED
    BY <2>4, <2>6
<1>3. QED
  BY <1>1, <1>2 DEF Register

LEMMA InvariantStep ==
  ASSUME Created, [Next]_vars
  PROVE  Created' /\ (Once => Once')
<1>1. ASSUME NEW c \in Calls, ImportNext(c)
      PROVE  Created' /\ (Once => Once')
  BY <1>1, ImportNextStep
<1>2. ASSUME NEW c \in Calls, Imported(c)
      PROVE  Created' /\ (Once => Once')
  <2>1. /\ stack[c] # <<>> /\ Last(stack[c]).at = "import"
        /\ TakeExports(c, Last(stack[c]))
    BY <1>2 DEF Imported
  <2>2. Last(stack[c]).todo # <<>> /\ Head(Last(stack[c]).todo) \in metadata
    BY <2>1, LastFrame DEF GoodFrame
  <2>3. QED
    BY <2>1, <2>2, TakeExportsStep
<1>3. ASSUME NEW c \in Calls, Register(c)
      PROVE  Created' /\ (Once => Once')
  BY <1>3, RegisterStep
<1>4. ASSUME NEW c \in Calls, Throw(c)
      PROVE  Created' /\ (Once => Once')
  BY <1>4, FailStep DEF Throw
<1>5. ASSUME NEW c \in Calls, NEW m \in Modules, Start(c, m)
      PROVE  Created' /\ (Once => Once')
  BY <1>5, StartStep
<1>6. ASSUME NEW m \in Modules, RemoveModule(m)
      PROVE  Created' /\ (Once => Once')
  BY <1>6, RemoveStep
<1>7. CASE UNCHANGED vars
  BY <1>7 DEF vars, Created, Once, Undisturbed
<1>8. QED
  BY <1>1, <1>2, <1>3, <1>4, <1>5, <1>6, <1>7 DEF Next

LEMMA InvariantInit ==
  ASSUME Init
  PROVE  Created /\ Once
<1>1. Created
  BY EmptyStack DEF Init, Created
<1>2. Once
  <2>1. <<>> \in Seq({}) /\ Len(<<>>) = 0
    BY EmptySeq
  <2>2. QED
    BY <2>1 DEF Init, Once, Undisturbed
<1>3. QED
  BY <1>1, <1>2

LEMMA Invariant == Spec => [](Created /\ Once)
<1>1. (Created /\ Once) /\ [Next]_vars => (Created /\ Once)'
  BY InvariantStep
<1>2. QED
  BY <1>1, InvariantInit, PTL DEF Spec

-----------------------------------------------------------------------------
(* The theorems                                                            *)

\* ModuleGraph implements DeepestFirst, for every set of acyclic graphs and
\* whatever calls, failures and removals interleave: createAndResolve adds a
\* module to the metadata only when each of its imports is there.
THEOREM ModulesDeepestFirst == Spec => IsDeepestFirst
<1>1. Init => Traversal!Init
  BY DEF Init, Traversal!Init
<1>2. ASSUME Created, [Next]_vars
      PROVE  [Traversal!Next]_<<graph, metadata>>
  <2>1. ASSUME NEW c \in Calls, Register(c), metadata' # metadata
        PROVE  Traversal!Next
    <3> DEFINE m == Last(stack[c]).mod
    <3>1. /\ stack[c] # <<>> /\ Last(stack[c]).at = "ready"
          /\ metadata' = metadata \cup {m} /\ graph' = graph
      BY <2>1 DEF Register, Fail
    <3>2. m \in Modules /\ ToSet(graph.imports[m]) \subseteq metadata
      BY <1>2, <3>1, RegisterImports
    <3>3. Traversal!Imported(m) \subseteq metadata
      BY <3>2 DEF Traversal!Imported, ToSet
    <3>4. Traversal!Create(m)
      BY <3>1, <3>3 DEF Traversal!Create
    <3>5. QED
      BY <3>2, <3>4 DEF Traversal!Next
  <2>2. ASSUME NEW c \in Calls, Register(c) \/ ImportNext(c) \/ Imported(c) \/ Throw(c)
        PROVE  graph' = graph /\ (Register(c) \/ metadata' = metadata)
    BY <2>2 DEF Register, ImportNext, Imported, Throw, TakeExports, Continue, Fail
  <2>3. ASSUME NEW c \in Calls, NEW m \in Modules, Start(c, m)
        PROVE  UNCHANGED <<graph, metadata>>
    BY <2>3 DEF Start
  <2>4. ASSUME NEW m \in Modules, RemoveModule(m)
        PROVE  UNCHANGED <<graph, metadata>>
    BY <2>4 DEF RemoveModule
  <2>5. CASE UNCHANGED vars
    BY <2>5 DEF vars
  <2>6. QED
    BY <1>2, <2>1, <2>2, <2>3, <2>4, <2>5 DEF Next
<1>3. QED
  BY <1>1, <1>2, Invariant, PTL DEF Spec, IsDeepestFirst, Traversal!Spec

\* As long as callers of createAndResolve do not overlap and no module is
\* removed, no module gets a second injector, retries after a failure included.
THEOREM ModulesCreatedOnce == Spec => []CreatedOnce
<1>1. ASSUME Once
      PROVE  CreatedOnce
  <2> SUFFICES ASSUME Undisturbed, NEW i \in DOMAIN injectors, NEW j \in DOMAIN injectors,
                      injectors[i].mod = injectors[j].mod
               PROVE  i = j
    BY DEF CreatedOnce
  <2>1. i \in 1 .. Len(injectors) /\ j \in 1 .. Len(injectors)
    BY <1>1, LenProperties DEF Once
  <2>2. QED
    BY <1>1, <2>1 DEF Once
<1>2. QED
  BY <1>1, Invariant, PTL

-----------------------------------------------------------------------------
(* Folds.  FoldLeft recurses along sets of indices; for each fold of the   *)
(* model there is a run, a sequence of what its first elements give.       *)

LEMMA Induction ==
  ASSUME NEW P \in SUBSET Nat, 0 \in P, \A n \in P : n + 1 \in P
  PROVE  P = Nat
<1> DEFINE B == Nat \ P
<1>1. SUFFICES ASSUME B # {}
               PROVE  FALSE
  OBVIOUS
<1>2. PICK j \in B : \A m \in B : <<m, j>> \notin OpToRel(<, Nat)
  <2>1. B \in SUBSET Nat
    OBVIOUS
  <2> HIDE DEF B
  <2>2. QED
    BY <1>1, <2>1, NatLessThanWellFounded, WFMin
<1>3. \A m \in B : ~ m < j
  BY <1>2 DEF OpToRel
<1>4. j - 1 \in P /\ (j - 1) + 1 = j
  BY <1>3
<1>5. QED
  BY <1>4

\* The index FoldLeft takes first is the last one.
Latest(s) == CHOOSE x \in s : \A y \in s : x >= y

LEMMA LatestOfSegment ==
  ASSUME NEW n \in Nat
  PROVE  Latest(1 .. n + 1) = n + 1 /\ (1 .. n + 1) \ {n + 1} = 1 .. n
<1>1. n + 1 \in 1 .. n + 1 /\ \A y \in 1 .. n + 1 : n + 1 >= y
  OBVIOUS
<1>2. \A x \in 1 .. n + 1 : (\A y \in 1 .. n + 1 : x >= y) => x = n + 1
  BY <1>1
<1>3. Latest(1 .. n + 1) = n + 1
  BY <1>1, <1>2 DEF Latest
<1>4. QED
  BY <1>3

\* The largest element of a set of indices.
LEMMA LatestIn ==
  ASSUME NEW n \in Nat, NEW s \in SUBSET (1 .. n), s # {}
  PROVE  Latest(s) \in s /\ \A y \in s : Latest(s) >= y
<1> DEFINE B == {k \in Nat : \A y \in s : k >= y}
<1>1. B # {} /\ B \in SUBSET Nat
  <2>1. n \in B
    OBVIOUS
  <2>2. QED
    BY <2>1
<1>2. PICK j \in B : \A m \in B : <<m, j>> \notin OpToRel(<, Nat)
  <2> HIDE DEF B
  <2>2. QED
    BY <1>1, NatLessThanWellFounded, WFMin
<1>3. \A m \in B : ~ m < j
  BY <1>2 DEF OpToRel
<1>4. j \in s
  <2>1. SUFFICES ASSUME j \notin s
                 PROVE  FALSE
    OBVIOUS
  <2>2. j # 0
    <3>1. PICK y \in s : TRUE
      OBVIOUS
    <3>2. j >= y /\ y \in Nat \ {0} /\ j \in Nat
      OBVIOUS
    <3>3. QED
      BY <3>2
  <2>3. j - 1 \in B
    BY <2>1, <2>2
  <2>4. QED
    BY <1>3, <2>3
<1>5. j \in s /\ \A y \in s : j >= y
  BY <1>2, <1>4
<1>6. QED
  BY <1>5 DEF Latest

\* iter is the function FoldLeft recurses along, on n elements of seq.
Iterates(S, base, n, seq, step, iter) ==
    /\ iter \in [SUBSET (1 .. n) -> S]
    /\ \A s \in SUBSET (1 .. n) :
           iter[s] = IF s = {} THEN base ELSE step[<<iter[s \ {Latest(s)}], seq[Latest(s)]>>]

\* The function FoldLeft recurses along, for a step that is a function, is there.
LEMMA FoldExists ==
  ASSUME NEW S, NEW T, NEW base \in S, NEW n \in Nat, NEW seq, \A i \in 1 .. n : seq[i] \in T,
         NEW step \in [S \X T -> S]
  PROVE  \E iter : Iterates(S, base, n, seq, step, iter)
<1> DEFINE Good(k, iter) == \A s \in SUBSET (1 .. k) :
             iter[s] = IF s = {} THEN base ELSE step[<<iter[s \ {Latest(s)}], seq[Latest(s)]>>]
           Has(k) == \E iter \in [SUBSET (1 .. k) -> S] : Good(k, iter)
           P == {k \in Nat : k > n \/ Has(k)}
<1>1. 0 \in P
  <2>1. PICK iter : iter = [s \in SUBSET (1 .. 0) |-> base]
    OBVIOUS
  <2>2. \A s \in SUBSET (1 .. 0) : s = {}
    OBVIOUS
  <2>3. iter \in [SUBSET (1 .. 0) -> S] /\ Good(0, iter)
    BY <2>1, <2>2
  <2>4. QED
    BY <2>3
<1>2. ASSUME NEW k \in P
      PROVE  k + 1 \in P
  <2>1. SUFFICES ASSUME k + 1 <= n
                 PROVE  Has(k + 1)
    <3> HIDE DEF Has
    <3>1. QED
      BY <2>1
  <2>2. PICK iter \in [SUBSET (1 .. k) -> S] : Good(k, iter)
    <3>1. Has(k)
      <4> HIDE DEF Has
      <4>1. QED
        BY <2>1
    <3>2. QED
      BY <3>1
  <2>3. PICK next : next = [s \in SUBSET (1 .. k + 1) |->
                      IF k + 1 \in s THEN step[<<iter[s \ {k + 1}], seq[k + 1]>>] ELSE iter[s]]
    OBVIOUS
  <2>4. ASSUME NEW s \in SUBSET (1 .. k + 1), k + 1 \notin s
        PROVE  s \in SUBSET (1 .. k) /\ next[s] = iter[s]
    BY <2>3, <2>4
  <2>5. ASSUME NEW s \in SUBSET (1 .. k + 1), k + 1 \in s
        PROVE  /\ s \ {k + 1} \in SUBSET (1 .. k) /\ Latest(s) = k + 1 /\ seq[k + 1] \in T
               /\ next[s] = step[<<iter[s \ {k + 1}], seq[k + 1]>>]
    <3>1. \A x \in s : (\A y \in s : x >= y) => x = k + 1
      BY <2>5
    <3>2. \A y \in s : k + 1 >= y
      OBVIOUS
    <3>3. Latest(s) = k + 1
      BY <2>5, <3>1, <3>2 DEF Latest
    <3>4. k + 1 \in 1 .. n
      BY <2>1
    <3>5. QED
      BY <2>3, <2>5, <3>3, <3>4
  <2>6. next \in [SUBSET (1 .. k + 1) -> S]
    <3>1. ASSUME NEW s \in SUBSET (1 .. k + 1)
          PROVE  next[s] \in S
      <4>1. CASE k + 1 \in s
        BY <2>5, <4>1
      <4>2. CASE k + 1 \notin s
        BY <2>4, <4>2
      <4>3. QED
        BY <4>1, <4>2
    <3>2. QED
      BY <2>3, <3>1
  <2>7. ASSUME NEW s \in SUBSET (1 .. k + 1)
        PROVE  next[s] = IF s = {} THEN base ELSE step[<<next[s \ {Latest(s)}], seq[Latest(s)]>>]
    <3>1. CASE k + 1 \in s
      <4>1. next[s \ {k + 1}] = iter[s \ {k + 1}]
        BY <2>4
      <4>2. QED
        BY <2>5, <3>1, <4>1
    <3>2. CASE k + 1 \notin s /\ s # {}
      <4>1. s \in SUBSET (1 .. k) /\ next[s] = iter[s]
        BY <2>4, <3>2
      <4>2. next[s \ {Latest(s)}] = iter[s \ {Latest(s)}]
        BY <2>4, <3>2
      <4>3. QED
        BY <2>2, <3>2, <4>1, <4>2
    <3>3. CASE s = {}
      BY <2>2, <2>4, <3>3
    <3>4. QED
      BY <3>1, <3>2, <3>3
  <2>8. Good(k + 1, next)
    BY <2>7
  <2>9. QED
    BY <2>6, <2>8
<1>3. P = Nat
  <2> HIDE DEF P
  <2>1. P \in SUBSET Nat
    BY DEF P
  <2>2. QED
    BY <1>1, <1>2, <2>1, Induction
<1>4. Has(n)
  <2> HIDE DEF Has
  <2>1. QED
    BY <1>3
<1>5. QED
  BY <1>4 DEF Iterates

LEMMA CreateClassTyped ==
  ASSUME NEW n \in Nat, NEW b \in Binds \cup {None}, NEW t \in Tokens
  PROVE  CreateClass(n, b, t) \in Binds \cup {None}
<1>1. [by |-> n, token |-> t] \in Instance
  BY DEF Instance
<1>2. QED
  BY <1>1 DEF CreateClass, Binds

LEMMA SetValueTyped ==
  ASSUME NEW b \in Binds \cup {None}, NEW i \in Item
  PROVE  SetValue(b, i) \in Binds \cup {None}
BY DEF SetValue, Binds, Item

\* The runs of the folds of the model: run[k] is what the first k elements give.
LEMMA ConcatRun ==
  ASSUME NEW order \in [Tokens -> Seq(Tokens)], NEW seq \in Seq(Tokens)
  PROVE  \E run : /\ run[0] = <<>>
                  /\ \A k \in Nat : k < Len(seq) => run[k + 1] = run[k] \o order[seq[k + 1]]
                  /\ Concat(order, seq) = run[Len(seq)]
<1> DEFINE Body(iter) == [s \in SUBSET DOMAIN seq |-> IF s = {} THEN <<>>
                ELSE iter[s \ {Latest(s)}] \o order[seq[Latest(s)]]]
           it == CHOOSE iter : iter = Body(iter)
<1>1. Concat(order, seq) = it[DOMAIN seq]
  BY Zenon DEF Concat, FoldLeft, MapThenFoldSet, Max, Latest
<1>2. Len(seq) \in Nat /\ DOMAIN seq = 1 .. Len(seq) /\ \A i \in 1 .. Len(seq) : seq[i] \in Tokens
  BY LenProperties, ElementOfSeq
<1>3. \E iter : iter = Body(iter)
  <2> DEFINE step == [x \in Seq(Tokens) \X Tokens |-> x[1] \o order[x[2]]]
  <2>1. step \in [Seq(Tokens) \X Tokens -> Seq(Tokens)] /\ <<>> \in Seq(Tokens)
    <3>1. \A x \in Seq(Tokens) \X Tokens : x[1] \o order[x[2]] \in Seq(Tokens)
      BY ConcatProperties
    <3>2. QED
      BY <3>1
  <2>2. PICK iter : Iterates(Seq(Tokens), <<>>, Len(seq), seq, step, iter)
    <3> HIDE DEF step
    <3>1. <<>> \in Seq(Tokens)
      BY <2>1
    <3>2. QED
      BY <1>2, <2>1, <3>1, FoldExists
  <2>3. ASSUME NEW s \in SUBSET (1 .. Len(seq)), s # {}
        PROVE  iter[s] = iter[s \ {Latest(s)}] \o order[seq[Latest(s)]]
    <3>1. Latest(s) \in 1 .. Len(seq)
      BY <1>2, <2>3, LatestIn
    <3>2. iter[s \ {Latest(s)}] \in Seq(Tokens) /\ seq[Latest(s)] \in Tokens
      BY <1>2, <2>2, <3>1 DEF Iterates
    <3>3. iter[s] = step[<<iter[s \ {Latest(s)}], seq[Latest(s)]>>]
      BY <2>2, <2>3 DEF Iterates
    <3>4. QED
      BY <3>2, <3>3
  <2>4. iter[{}] = <<>>
    BY <2>2 DEF Iterates
  <2>5. iter = Body(iter)
    BY <1>2, <2>2, <2>3, <2>4 DEF Iterates
  <2>6. QED
    BY <2>5
<1>4. it = Body(it)
  BY <1>3
<1> HIDE DEF it
<1>5. PICK run : run = [k \in 0 .. Len(seq) |-> it[1 .. k]]
  OBVIOUS
<1>6. run[0] = <<>>
  <2>1. 1 .. 0 = {} /\ it[{}] = <<>>
    BY <1>4
  <2>2. QED
    BY <1>2, <1>5, <2>1
<1>7. ASSUME NEW k \in Nat, k < Len(seq)
      PROVE  run[k + 1] = run[k] \o order[seq[k + 1]]
  <2>1. Latest(1 .. k + 1) = k + 1 /\ (1 .. k + 1) \ {k + 1} = 1 .. k
    BY LatestOfSegment
  <2>2. 1 .. k + 1 \in SUBSET DOMAIN seq /\ 1 .. k + 1 # {}
    <3>1. k + 1 \in 1 .. k + 1 /\ k + 1 <= Len(seq)
      BY <1>2, <1>7
    <3>2. \A i \in 1 .. k + 1 : i \in 1 .. Len(seq)
      BY <1>2, <3>1
    <3>3. \A i \in 1 .. k + 1 : i \in DOMAIN seq
      BY <1>2, <3>2
    <3>4. QED
      BY <3>1, <3>3
  <2>3. it[1 .. k + 1] = it[1 .. k] \o order[seq[k + 1]]
    BY <1>4, <2>1, <2>2
  <2>4. run[k] = it[1 .. k] /\ run[k + 1] = it[1 .. k + 1]
    BY <1>2, <1>5, <1>7
  <2>5. QED
    BY <2>3, <2>4
<1>8. Concat(order, seq) = run[Len(seq)]
  BY <1>1, <1>2, <1>5
<1>9. QED
  BY <1>6, <1>7, <1>8

\* The run of CreateClasses.
LEMMA ClassesRun ==
  ASSUME NEW n \in Nat, NEW base \in Binds \cup {None}, NEW seq \in Seq(Tokens)
  PROVE  \E run : /\ run[0] = base
                  /\ \A k \in Nat : k < Len(seq) => run[k + 1] = CreateClass(n, run[k], seq[k + 1])
                  /\ CreateClasses(n, base, seq) = run[Len(seq)]
<1> DEFINE Body(iter) == [s \in SUBSET DOMAIN seq |-> IF s = {} THEN base
                ELSE CreateClass(n, iter[s \ {Latest(s)}], seq[Latest(s)])]
           it == CHOOSE iter : iter = Body(iter)
<1>1. CreateClasses(n, base, seq) = it[DOMAIN seq]
  BY Zenon DEF CreateClasses, FoldLeft, MapThenFoldSet, Max, Latest
<1>2. Len(seq) \in Nat /\ DOMAIN seq = 1 .. Len(seq) /\ \A i \in 1 .. Len(seq) : seq[i] \in Tokens
  BY LenProperties, ElementOfSeq
<1>3. \E iter : iter = Body(iter)
  <2> DEFINE step == [x \in (Binds \cup {None}) \X Tokens |-> CreateClass(n, x[1], x[2])]
  <2>1. step \in [(Binds \cup {None}) \X Tokens -> (Binds \cup {None})] /\ base \in Binds \cup {None}
    <3>1. \A x \in (Binds \cup {None}) \X Tokens : CreateClass(n, x[1], x[2]) \in Binds \cup {None}
      BY CreateClassTyped
    <3>2. QED
      BY <3>1
  <2>2. PICK iter : Iterates((Binds \cup {None}), base, Len(seq), seq, step, iter)
    <3> HIDE DEF step
    <3>1. base \in (Binds \cup {None})
      BY <2>1
    <3>2. QED
      BY <1>2, <2>1, <3>1, FoldExists
  <2>3. ASSUME NEW s \in SUBSET (1 .. Len(seq)), s # {}
        PROVE  iter[s] = CreateClass(n, iter[s \ {Latest(s)}], seq[Latest(s)])
    <3>1. Latest(s) \in 1 .. Len(seq)
      BY <1>2, <2>3, LatestIn
    <3>2. iter[s \ {Latest(s)}] \in (Binds \cup {None}) /\ seq[Latest(s)] \in Tokens
      BY <1>2, <2>2, <3>1 DEF Iterates
    <3>3. iter[s] = step[<<iter[s \ {Latest(s)}], seq[Latest(s)]>>]
      BY <2>2, <2>3 DEF Iterates
    <3>4. QED
      BY <3>2, <3>3
  <2>4. iter[{}] = base
    BY <2>2 DEF Iterates
  <2>5. iter = Body(iter)
    BY <1>2, <2>2, <2>3, <2>4 DEF Iterates
  <2>6. QED
    BY <2>5
<1>4. it = Body(it)
  BY <1>3
<1> HIDE DEF it
<1>5. PICK run : run = [k \in 0 .. Len(seq) |-> it[1 .. k]]
  OBVIOUS
<1>6. run[0] = base
  <2>1. 1 .. 0 = {} /\ it[{}] = base
    BY <1>4
  <2>2. QED
    BY <1>2, <1>5, <2>1
<1>7. ASSUME NEW k \in Nat, k < Len(seq)
      PROVE  run[k + 1] = CreateClass(n, run[k], seq[k + 1])
  <2>1. Latest(1 .. k + 1) = k + 1 /\ (1 .. k + 1) \ {k + 1} = 1 .. k
    BY LatestOfSegment
  <2>2. 1 .. k + 1 \in SUBSET DOMAIN seq /\ 1 .. k + 1 # {}
    <3>1. k + 1 \in 1 .. k + 1 /\ k + 1 <= Len(seq)
      BY <1>2, <1>7
    <3>2. \A i \in 1 .. k + 1 : i \in 1 .. Len(seq)
      BY <1>2, <3>1
    <3>3. \A i \in 1 .. k + 1 : i \in DOMAIN seq
      BY <1>2, <3>2
    <3>4. QED
      BY <3>1, <3>3
  <2>3. it[1 .. k + 1] = CreateClass(n, it[1 .. k], seq[k + 1])
    BY <1>4, <2>1, <2>2
  <2>4. run[k] = it[1 .. k] /\ run[k + 1] = it[1 .. k + 1]
    BY <1>2, <1>5, <1>7
  <2>5. QED
    BY <2>3, <2>4
<1>8. CreateClasses(n, base, seq) = run[Len(seq)]
  BY <1>1, <1>2, <1>5
<1>9. QED
  BY <1>6, <1>7, <1>8

\* The run of SetValues.
LEMMA ValuesRun ==
  ASSUME NEW base \in Binds \cup {None}, NEW seq \in Seq(Item)
  PROVE  \E run : /\ run[0] = base
                  /\ \A k \in Nat : k < Len(seq) => run[k + 1] = SetValue(run[k], seq[k + 1])
                  /\ SetValues(base, seq) = run[Len(seq)]
<1> DEFINE Body(iter) == [s \in SUBSET DOMAIN seq |-> IF s = {} THEN base
                ELSE SetValue(iter[s \ {Latest(s)}], seq[Latest(s)])]
           it == CHOOSE iter : iter = Body(iter)
<1>1. SetValues(base, seq) = it[DOMAIN seq]
  BY Zenon DEF SetValues, FoldLeft, MapThenFoldSet, Max, Latest
<1>2. Len(seq) \in Nat /\ DOMAIN seq = 1 .. Len(seq) /\ \A i \in 1 .. Len(seq) : seq[i] \in Item
  BY LenProperties, ElementOfSeq
<1>3. \E iter : iter = Body(iter)
  <2> DEFINE step == [x \in (Binds \cup {None}) \X Item |-> SetValue(x[1], x[2])]
  <2>1. step \in [(Binds \cup {None}) \X Item -> (Binds \cup {None})] /\ base \in Binds \cup {None}
    <3>1. \A x \in (Binds \cup {None}) \X Item : SetValue(x[1], x[2]) \in Binds \cup {None}
      BY SetValueTyped
    <3>2. QED
      BY <3>1
  <2>2. PICK iter : Iterates((Binds \cup {None}), base, Len(seq), seq, step, iter)
    <3> HIDE DEF step
    <3>1. base \in (Binds \cup {None})
      BY <2>1
    <3>2. QED
      BY <1>2, <2>1, <3>1, FoldExists
  <2>3. ASSUME NEW s \in SUBSET (1 .. Len(seq)), s # {}
        PROVE  iter[s] = SetValue(iter[s \ {Latest(s)}], seq[Latest(s)])
    <3>1. Latest(s) \in 1 .. Len(seq)
      BY <1>2, <2>3, LatestIn
    <3>2. iter[s \ {Latest(s)}] \in (Binds \cup {None}) /\ seq[Latest(s)] \in Item
      BY <1>2, <2>2, <3>1 DEF Iterates
    <3>3. iter[s] = step[<<iter[s \ {Latest(s)}], seq[Latest(s)]>>]
      BY <2>2, <2>3 DEF Iterates
    <3>4. QED
      BY <3>2, <3>3
  <2>4. iter[{}] = base
    BY <2>2 DEF Iterates
  <2>5. iter = Body(iter)
    BY <1>2, <2>2, <2>3, <2>4 DEF Iterates
  <2>6. QED
    BY <2>5
<1>4. it = Body(it)
  BY <1>3
<1> HIDE DEF it
<1>5. PICK run : run = [k \in 0 .. Len(seq) |-> it[1 .. k]]
  OBVIOUS
<1>6. run[0] = base
  <2>1. 1 .. 0 = {} /\ it[{}] = base
    BY <1>4
  <2>2. QED
    BY <1>2, <1>5, <2>1
<1>7. ASSUME NEW k \in Nat, k < Len(seq)
      PROVE  run[k + 1] = SetValue(run[k], seq[k + 1])
  <2>1. Latest(1 .. k + 1) = k + 1 /\ (1 .. k + 1) \ {k + 1} = 1 .. k
    BY LatestOfSegment
  <2>2. 1 .. k + 1 \in SUBSET DOMAIN seq /\ 1 .. k + 1 # {}
    <3>1. k + 1 \in 1 .. k + 1 /\ k + 1 <= Len(seq)
      BY <1>2, <1>7
    <3>2. \A i \in 1 .. k + 1 : i \in 1 .. Len(seq)
      BY <1>2, <3>1
    <3>3. \A i \in 1 .. k + 1 : i \in DOMAIN seq
      BY <1>2, <3>2
    <3>4. QED
      BY <3>1, <3>3
  <2>3. it[1 .. k + 1] = SetValue(it[1 .. k], seq[k + 1])
    BY <1>4, <2>1, <2>2
  <2>4. run[k] = it[1 .. k] /\ run[k + 1] = it[1 .. k + 1]
    BY <1>2, <1>5, <1>7
  <2>5. QED
    BY <2>3, <2>4
<1>8. SetValues(base, seq) = run[Len(seq)]
  BY <1>1, <1>2, <1>5
<1>9. QED
  BY <1>6, <1>7, <1>8

\* The run of ShiftLeft.
LEMMA ShiftRun ==
  ASSUME NEW m, NEW items \in Seq(Item), NEW seq \in Seq(Item)
  PROVE  \E run : /\ run[0] = items
                  /\ \A k \in Nat : k < Len(seq) => run[k + 1] = (IF seq[k + 1].token \in Provided(m, items) THEN run[k] ELSE Append(run[k], seq[k + 1]))
                  /\ ShiftLeft(m, items, seq) = run[Len(seq)]
<1> DEFINE Body(iter) == [s \in SUBSET DOMAIN seq |-> IF s = {} THEN items
                ELSE (IF seq[Latest(s)].token \in Provided(m, items) THEN iter[s \ {Latest(s)}] ELSE Append(iter[s \ {Latest(s)}], seq[Latest(s)]))]
           it == CHOOSE iter : iter = Body(iter)
<1>1. ShiftLeft(m, items, seq) = it[DOMAIN seq]
  BY Zenon DEF ShiftLeft, FoldLeft, MapThenFoldSet, Max, Latest
<1>2. Len(seq) \in Nat /\ DOMAIN seq = 1 .. Len(seq) /\ \A i \in 1 .. Len(seq) : seq[i] \in Item
  BY LenProperties, ElementOfSeq
<1>3. \E iter : iter = Body(iter)
  <2> DEFINE step == [x \in Seq(Item) \X Item |-> (IF x[2].token \in Provided(m, items) THEN x[1] ELSE Append(x[1], x[2]))]
  <2>1. step \in [Seq(Item) \X Item -> Seq(Item)] /\ items \in Seq(Item)
    <3>1. \A x \in Seq(Item) \X Item : Append(x[1], x[2]) \in Seq(Item)
      BY AppendProperties
    <3>2. QED
      BY <3>1
  <2>2. PICK iter : Iterates(Seq(Item), items, Len(seq), seq, step, iter)
    <3> HIDE DEF step
    <3>1. items \in Seq(Item)
      BY <2>1
    <3>2. QED
      BY <1>2, <2>1, <3>1, FoldExists
  <2>3. ASSUME NEW s \in SUBSET (1 .. Len(seq)), s # {}
        PROVE  iter[s] = (IF seq[Latest(s)].token \in Provided(m, items) THEN iter[s \ {Latest(s)}] ELSE Append(iter[s \ {Latest(s)}], seq[Latest(s)]))
    <3>1. Latest(s) \in 1 .. Len(seq)
      BY <1>2, <2>3, LatestIn
    <3>2. iter[s \ {Latest(s)}] \in Seq(Item) /\ seq[Latest(s)] \in Item
      BY <1>2, <2>2, <3>1 DEF Iterates
    <3>3. iter[s] = step[<<iter[s \ {Latest(s)}], seq[Latest(s)]>>]
      BY <2>2, <2>3 DEF Iterates
    <3>4. QED
      BY <3>2, <3>3
  <2>4. iter[{}] = items
    BY <2>2 DEF Iterates
  <2>5. iter = Body(iter)
    BY <1>2, <2>2, <2>3, <2>4 DEF Iterates
  <2>6. QED
    BY <2>5
<1>4. it = Body(it)
  BY <1>3
<1> HIDE DEF it
<1>5. PICK run : run = [k \in 0 .. Len(seq) |-> it[1 .. k]]
  OBVIOUS
<1>6. run[0] = items
  <2>1. 1 .. 0 = {} /\ it[{}] = items
    BY <1>4
  <2>2. QED
    BY <1>2, <1>5, <2>1
<1>7. ASSUME NEW k \in Nat, k < Len(seq)
      PROVE  run[k + 1] = (IF seq[k + 1].token \in Provided(m, items) THEN run[k] ELSE Append(run[k], seq[k + 1]))
  <2>1. Latest(1 .. k + 1) = k + 1 /\ (1 .. k + 1) \ {k + 1} = 1 .. k
    BY LatestOfSegment
  <2>2. 1 .. k + 1 \in SUBSET DOMAIN seq /\ 1 .. k + 1 # {}
    <3>1. k + 1 \in 1 .. k + 1 /\ k + 1 <= Len(seq)
      BY <1>2, <1>7
    <3>2. \A i \in 1 .. k + 1 : i \in 1 .. Len(seq)
      BY <1>2, <3>1
    <3>3. \A i \in 1 .. k + 1 : i \in DOMAIN seq
      BY <1>2, <3>2
    <3>4. QED
      BY <3>1, <3>3
  <2>3. it[1 .. k + 1] = (IF seq[k + 1].token \in Provided(m, items) THEN it[1 .. k] ELSE Append(it[1 .. k], seq[k + 1]))
    BY <1>4, <2>1, <2>2
  <2>4. run[k] = it[1 .. k] /\ run[k + 1] = it[1 .. k + 1]
    BY <1>2, <1>5, <1>7
  <2>5. QED
    BY <2>3, <2>4
<1>8. ShiftLeft(m, items, seq) = run[Len(seq)]
  BY <1>1, <1>2, <1>5
<1>9. QED
  BY <1>6, <1>7, <1>8

-----------------------------------------------------------------------------
(* What the folds compute                                                  *)

LEMMA ToSetIndices ==
  ASSUME NEW S, NEW s \in Seq(S)
  PROVE  ToSet(s) = {s[i] : i \in 1 .. Len(s)} /\ ToSet(s) \subseteq S
BY LenProperties, ElementOfSeq DEF ToSet

LEMMA ToSetConcat ==
  ASSUME NEW S, NEW s \in Seq(S), NEW t \in Seq(S)
  PROVE  s \o t \in Seq(S) /\ ToSet(s \o t) = ToSet(s) \cup ToSet(t)
<1>1. /\ s \o t \in Seq(S) /\ Len(s) \in Nat /\ Len(t) \in Nat
      /\ Len(s \o t) = Len(s) + Len(t)
      /\ \A i \in 1 .. Len(s) + Len(t) : (s \o t)[i] = IF i <= Len(s) THEN s[i] ELSE t[i - Len(s)]
  BY ConcatProperties, LenProperties
<1>2. PICK r : r = s \o t
  OBVIOUS
<1>3. /\ ToSet(s) = {s[i] : i \in 1 .. Len(s)} /\ ToSet(t) = {t[i] : i \in 1 .. Len(t)}
      /\ ToSet(r) = {r[i] : i \in 1 .. Len(r)}
  <2>1. r \in Seq(S)
    BY <1>1, <1>2
  <2>2. QED
    BY <2>1, ToSetIndices
<1>4. ASSUME NEW i \in 1 .. Len(r)
      PROVE  r[i] \in ToSet(s) \cup ToSet(t)
  <2>1. CASE i <= Len(s)
    <3>1. r[i] = s[i] /\ i \in 1 .. Len(s)
      BY <1>1, <1>2, <2>1
    <3>2. QED
      BY <1>3, <3>1
  <2>2. CASE ~ i <= Len(s)
    <3>1. r[i] = t[i - Len(s)] /\ i - Len(s) \in 1 .. Len(t)
      BY <1>1, <1>2, <2>2
    <3>2. QED
      BY <1>3, <3>1
  <2>3. QED
    BY <2>1, <2>2
<1>5. ASSUME NEW i \in 1 .. Len(s)
      PROVE  s[i] \in ToSet(r)
  <2>1. r[i] = s[i] /\ i \in 1 .. Len(r)
    BY <1>1, <1>2
  <2>2. QED
    BY <1>3, <2>1
<1>6. ASSUME NEW i \in 1 .. Len(t)
      PROVE  t[i] \in ToSet(r)
  <2>1. r[i + Len(s)] = t[(i + Len(s)) - Len(s)] /\ i + Len(s) \in 1 .. Len(r)
    BY <1>1, <1>2
  <2>2. (i + Len(s)) - Len(s) = i
    BY <1>1
  <2>3. QED
    BY <1>3, <2>1, <2>2
<1>7. ToSet(r) = ToSet(s) \cup ToSet(t)
  BY <1>3, <1>4, <1>5, <1>6
<1>8. QED
  BY <1>1, <1>2, <1>7

LEMMA ToSetAppend ==
  ASSUME NEW S, NEW s \in Seq(S), NEW e \in S
  PROVE  Append(s, e) \in Seq(S) /\ ToSet(Append(s, e)) = ToSet(s) \cup {e}
<1>1. /\ Append(s, e) \in Seq(S) /\ Len(s) \in Nat /\ Len(Append(s, e)) = Len(s) + 1
      /\ \A i \in 1 .. Len(s) : Append(s, e)[i] = s[i]
      /\ Append(s, e)[Len(s) + 1] = e
  BY AppendProperties, LenProperties
<1>2. PICK r : r = Append(s, e)
  OBVIOUS
<1>3. ToSet(s) = {s[i] : i \in 1 .. Len(s)} /\ ToSet(r) = {r[i] : i \in 1 .. Len(r)}
  <2>1. r \in Seq(S)
    BY <1>1, <1>2
  <2>2. QED
    BY <2>1, ToSetIndices
<1>4. 1 .. Len(r) = (1 .. Len(s)) \cup {Len(s) + 1}
  BY <1>1, <1>2
<1>5. \A i \in 1 .. Len(s) : r[i] = s[i]
  BY <1>1, <1>2
<1>6. r[Len(s) + 1] = e
  BY <1>1, <1>2
<1>7. ToSet(r) = ToSet(s) \cup {e}
  BY <1>3, <1>4, <1>5, <1>6
<1>8. QED
  BY <1>1, <1>2, <1>7

LEMMA SegmentInduction ==
  ASSUME NEW n \in Nat, NEW G \in SUBSET Nat, 0 \in G, \A k \in G : k < n => k + 1 \in G
  PROVE  n \in G
<1> DEFINE P == {k \in Nat : k <= n => k \in G}
<1>1. 0 \in P /\ \A k \in P : k + 1 \in P
  OBVIOUS
<1>2. P = Nat
  <2> HIDE DEF P
  <2>1. P \in SUBSET Nat
    BY DEF P
  <2>2. QED
    BY <1>1, <2>1, Induction
<1>3. QED
  BY <1>2

LEMMA ConcatFacts ==
  ASSUME NEW order \in [Tokens -> Seq(Tokens)], NEW seq \in Seq(Tokens)
  PROVE  /\ Concat(order, seq) \in Seq(Tokens)
         /\ ToSet(Concat(order, seq)) = UNION {ToSet(order[t]) : t \in ToSet(seq)}
<1>1. PICK run : /\ run[0] = <<>>
                 /\ \A k \in Nat : k < Len(seq) => run[k + 1] = run[k] \o order[seq[k + 1]]
                 /\ Concat(order, seq) = run[Len(seq)]
  BY ConcatRun
<1>2. Len(seq) \in Nat /\ \A i \in 1 .. Len(seq) : seq[i] \in Tokens
  BY LenProperties, ElementOfSeq
<1> DEFINE Good(k) == /\ run[k] \in Seq(Tokens)
                      /\ \A t \in Tokens : t \in ToSet(run[k])
                             <=> \E i \in 1 .. k : t \in ToSet(order[seq[i]])
           G == {k \in Nat : Good(k)}
<1>3. Good(0)
  <2>1. <<>> \in Seq(Tokens) /\ ToSet(<<>>) = {}
    BY DEF ToSet
  <2>2. QED
    BY <1>1, <2>1
<1>4. ASSUME NEW k \in Nat, Good(k), k < Len(seq)
      PROVE  Good(k + 1)
  <2>1. k + 1 \in 1 .. Len(seq)
    BY <1>2, <1>4
  <2>2. run[k + 1] = run[k] \o order[seq[k + 1]] /\ order[seq[k + 1]] \in Seq(Tokens)
    BY <1>1, <1>2, <1>4, <2>1
  <2>3. /\ run[k + 1] \in Seq(Tokens)
        /\ ToSet(run[k + 1]) = ToSet(run[k]) \cup ToSet(order[seq[k + 1]])
    BY <1>4, <2>2, ToSetConcat
  <2>4. 1 .. k + 1 = (1 .. k) \cup {k + 1}
    OBVIOUS
  <2>5. QED
    BY <1>4, <2>3, <2>4
<1>5. Good(Len(seq))
  <2> HIDE DEF Good
  <2>1. 0 \in G /\ \A k \in G : k < Len(seq) => k + 1 \in G
    BY <1>3, <1>4
  <2>2. G \in SUBSET Nat
    OBVIOUS
  <2> HIDE DEF G
  <2>3. Len(seq) \in G
    BY <1>2, <2>1, <2>2, SegmentInduction
  <2>4. QED
    BY <2>3 DEF G
<1>6. Concat(order, seq) \in Seq(Tokens)
  BY <1>1, <1>5
<1>7. ToSet(Concat(order, seq)) \subseteq Tokens
  BY <1>6, ToSetIndices
<1>8. ToSet(seq) = {seq[i] : i \in 1 .. Len(seq)}
  BY ToSetIndices
<1>9. \A t \in ToSet(seq) : ToSet(order[t]) \subseteq Tokens
  BY <1>2, <1>8, ToSetIndices
<1>10. \A t \in Tokens : t \in ToSet(Concat(order, seq))
                             <=> \E i \in 1 .. Len(seq) : t \in ToSet(order[seq[i]])
  BY <1>1, <1>5
<1>11. \A t : t \in ToSet(Concat(order, seq)) <=> \E u \in ToSet(seq) : t \in ToSet(order[u])
  <2> SUFFICES ASSUME NEW t
               PROVE  t \in ToSet(Concat(order, seq)) <=> \E u \in ToSet(seq) : t \in ToSet(order[u])
    OBVIOUS
  <2>1. CASE t \in Tokens
    BY <1>8, <1>10, <2>1
  <2>2. CASE t \notin Tokens
    BY <1>7, <1>9, <2>2
  <2>3. QED
    BY <2>1, <2>2
<1>12. ToSet(Concat(order, seq)) = UNION {ToSet(order[t]) : t \in ToSet(seq)}
  BY <1>11
<1>13. QED
  BY <1>6, <1>12

\* A function that recurses along 0 .. n, by a step that is a function, is there.
Recurses(S, base, n, step, run) ==
    run \in [0 .. n -> S] /\ run[0] = base /\ \A k \in 1 .. n : run[k] = step[run[k - 1]]

LEMMA RecursionExists ==
  ASSUME NEW S, NEW base \in S, NEW n \in Nat, NEW step \in [S -> S]
  PROVE  \E run : Recurses(S, base, n, step, run)
<1> DEFINE Has(k) == \E run : Recurses(S, base, k, step, run)
           P == {k \in Nat : Has(k)}
<1>1. 0 \in P
  <2>1. PICK run : run = [k \in 0 .. 0 |-> base]
    OBVIOUS
  <2>2. Recurses(S, base, 0, step, run)
    BY <2>1 DEF Recurses
  <2>3. QED
    BY <2>2
<1>2. ASSUME NEW k \in P
      PROVE  k + 1 \in P
  <2>1. PICK run : Recurses(S, base, k, step, run)
    OBVIOUS
  <2>2. PICK next : next = [j \in 0 .. k + 1 |-> IF j = k + 1 THEN step[run[k]] ELSE run[j]]
    OBVIOUS
  <2>3. next[k + 1] = step[run[k]] /\ \A j \in 0 .. k : next[j] = run[j]
    BY <2>2
  <2>4. run[k] \in S /\ \A j \in 0 .. k : run[j] \in S
    BY <2>1 DEF Recurses
  <2>5. next \in [0 .. k + 1 -> S]
    BY <2>2, <2>4
  <2>6. \A j \in 1 .. k + 1 : next[j] = step[next[j - 1]]
    <3> SUFFICES ASSUME NEW j \in 1 .. k + 1
                 PROVE  next[j] = step[next[j - 1]]
      OBVIOUS
    <3>1. CASE j = k + 1
      BY <2>3, <3>1
    <3>2. CASE j # k + 1
      <4>1. j \in 1 .. k /\ j \in 0 .. k /\ j - 1 \in 0 .. k
        BY <3>2
      <4>2. QED
        BY <2>1, <2>3, <4>1 DEF Recurses
    <3>3. QED
      BY <3>1, <3>2
  <2>7. Recurses(S, base, k + 1, step, next)
    BY <2>1, <2>3, <2>5, <2>6 DEF Recurses
  <2>8. QED
    BY <2>7
<1>3. P = Nat
  <2> HIDE DEF P
  <2>1. P \in SUBSET Nat
    BY DEF P
  <2>2. QED
    BY <1>1, <1>2, <2>1, Induction
<1>4. QED
  BY <1>3

LEMMA OrderFacts ==
  ASSUME graph \in Graphs
  PROVE  Order \in [Tokens -> Seq(Tokens)] /\ \A t \in Tokens : t \in ToSet(Order[t])
<1> DEFINE N == Cardinality(Tokens)
           S == [Tokens -> Seq(Tokens)]
           one == [t \in Tokens |-> <<t>>]
           next(o) == [t \in Tokens |-> Concat(o, graph.needs[t]) \o <<t>>]
           Body(ord) == [n \in 0 .. N |-> [t \in Tokens |->
                IF n = 0 THEN <<t>> ELSE Concat(ord[n - 1], graph.needs[t]) \o <<t>>]]
           order == CHOOSE ord : ord = Body(ord)
<1>1. N \in Nat
  BY ModuleAssumption, FS_CardinalityType
<1>2. \A t \in Tokens : graph.needs[t] \in Seq(Tokens)
  BY ModuleAssumption DEF Graph
<1>3. ASSUME NEW t \in Tokens
      PROVE  <<t>> \in Seq(Tokens) /\ ToSet(<<t>>) = {t}
  <2>1. <<t>> \in Seq(Tokens) /\ Len(<<t>>) = 1 /\ <<t>>[1] = t
    OBVIOUS
  <2>2. QED
    <3>1. PICK s : s = <<t>>
      OBVIOUS
    <3>2. s \in Seq(Tokens) /\ Len(s) = 1 /\ s[1] = t
      BY <2>1, <3>1
    <3>3. ToSet(s) = {s[i] : i \in 1 .. Len(s)}
      BY <3>2, ToSetIndices
    <3>4. ToSet(s) = {t}
      BY <3>2, <3>3
    <3>5. QED
      BY <3>1, <3>2, <3>4
<1>4. ASSUME NEW o \in S
      PROVE  next(o) \in S /\ \A t \in Tokens : t \in ToSet(next(o)[t])
  <2>1. ASSUME NEW t \in Tokens
        PROVE  /\ Concat(o, graph.needs[t]) \o <<t>> \in Seq(Tokens)
               /\ t \in ToSet(Concat(o, graph.needs[t]) \o <<t>>)
    <3>1. Concat(o, graph.needs[t]) \in Seq(Tokens)
      BY <1>2, ConcatFacts
    <3>2. PICK a, b : a = Concat(o, graph.needs[t]) /\ b = <<t>>
      OBVIOUS
    <3>3. a \in Seq(Tokens) /\ b \in Seq(Tokens) /\ t \in ToSet(b)
      BY <1>3, <3>1, <3>2
    <3>4. a \o b \in Seq(Tokens) /\ t \in ToSet(a \o b)
      BY <3>3, ToSetConcat
    <3>5. QED
      BY <3>2, <3>4
  <2>2. QED
    BY <2>1
<1>5. one \in S /\ \A t \in Tokens : t \in ToSet(one[t])
  BY <1>3
<1>6. Order = order[N]
  BY Zenon DEF Order
<1>7. \E ord : ord = Body(ord)
  <2> DEFINE step == [o \in S |-> next(o)]
  <2>1. step \in [S -> S]
    <3> HIDE DEF next, S
    <3>1. QED
      BY <1>4
  <2>2. PICK run : Recurses(S, one, N, step, run)
    <3> HIDE DEF step, one, S, N
    <3>1. QED
      BY <1>1, <1>5, <2>1, RecursionExists
  <2>3. /\ DOMAIN run = 0 .. N /\ run[0] = one
        /\ \A n \in 0 .. N : run[n] \in S
        /\ \A n \in 1 .. N : run[n] = step[run[n - 1]]
    <3> HIDE DEF step, one, S, N
    <3>1. QED
      BY <2>2 DEF Recurses
  <2>4. ASSUME NEW n \in 0 .. N
        PROVE  run[n] = [t \in Tokens |->
                IF n = 0 THEN <<t>> ELSE Concat(run[n - 1], graph.needs[t]) \o <<t>>]
    <3>1. CASE n = 0
      BY <2>3, <3>1
    <3>2. CASE n # 0
      <4>1. n \in 1 .. N /\ n - 1 \in 0 .. N
        BY <1>1, <3>2
      <4>2. run[n] = next(run[n - 1])
        <5> HIDE DEF next, S, N
        <5>1. QED
          BY <2>3, <4>1
      <4>3. QED
        BY <3>2, <4>2
    <3>3. QED
      BY <3>1, <3>2
  <2>5. run = Body(run)
    <3>1. run = [n \in 0 .. N |-> run[n]]
      <4>1. run \in [0 .. N -> S]
        <5> HIDE DEF step, one, S, N
        <5>1. QED
          BY <2>2 DEF Recurses
      <4> HIDE DEF S, N
      <4>2. QED
        BY <4>1
    <3>2. QED
      BY <2>4, <3>1
  <2>6. QED
    BY <2>5
<1>8. order = Body(order)
  BY <1>7
<1> HIDE DEF order
<1>9. order[0] = one /\ \A n \in 1 .. N : order[n] = next(order[n - 1])
  <2>1. \A n \in 0 .. N : order[n] = [t \in Tokens |->
                IF n = 0 THEN <<t>> ELSE Concat(order[n - 1], graph.needs[t]) \o <<t>>]
    BY <1>8
  <2>2. 0 \in 0 .. N
    BY <1>1
  <2>3. order[0] = one
    BY <2>1, <2>2
  <2>4. ASSUME NEW n \in 1 .. N
        PROVE  order[n] = next(order[n - 1])
    <3>1. n \in 0 .. N /\ n # 0
      BY <1>1
    <3>2. QED
      BY <2>1, <3>1
  <2>5. QED
    BY <2>3, <2>4
<1> DEFINE P == {n \in Nat : n <= N => order[n] \in S}
<1>10. P = Nat
  <2>1. 0 \in P
    BY <1>5, <1>9
  <2>2. ASSUME NEW n \in P
        PROVE  n + 1 \in P
    <3> HIDE DEF S, N, next
    <3>1. SUFFICES ASSUME n + 1 <= N
                   PROVE  order[n + 1] \in S
      OBVIOUS
    <3>2. n + 1 \in 1 .. N /\ (n + 1) - 1 = n /\ n <= N
      BY <1>1, <3>1
    <3>3. order[n + 1] = next(order[n])
      BY <1>9, <3>2
    <3>4. QED
      BY <1>4, <3>2, <3>3
  <2>3. P \in SUBSET Nat
    OBVIOUS
  <2> HIDE DEF P
  <2>4. QED
    BY <2>1, <2>2, <2>3, Induction
<1>11. order[N] \in S
  BY <1>1, <1>10
<1>12. CASE N = 0
  BY <1>5, <1>6, <1>9, <1>12
<1>13. CASE N # 0
  <2>1. N \in 1 .. N /\ N - 1 \in Nat /\ N - 1 <= N
    BY <1>1, <1>13
  <2>2. order[N - 1] \in S /\ order[N] = next(order[N - 1])
    BY <1>9, <1>10, <2>1
  <2> HIDE DEF N, S, next
  <2>3. QED
    BY <1>4, <1>6, <2>2 DEF S
<1>14. QED
  BY <1>12, <1>13

LEMMA NoneIsNothing ==
  None \notin Instance /\ None \notin Binds /\ Nothing \in Binds
BY ModuleAssumption DEF Nothing, Binds

\* Every class visited is an instance of injector n, and nothing else is bound.
LEMMA ClassesFacts ==
  ASSUME NEW n \in Nat, NEW seq \in Seq(Tokens), CreateClasses(n, Nothing, seq) # None
  PROVE  /\ CreateClasses(n, Nothing, seq) \in Binds
         /\ \A t \in ToSet(seq) : CreateClasses(n, Nothing, seq)[t] = [by |-> n, token |-> t]
         /\ \A t \in Tokens \ ToSet(seq) : CreateClasses(n, Nothing, seq)[t] = None
<1>1. PICK run : /\ run[0] = Nothing
                 /\ \A k \in Nat : k < Len(seq) => run[k + 1] = CreateClass(n, run[k], seq[k + 1])
                 /\ CreateClasses(n, Nothing, seq) = run[Len(seq)]
  BY NoneIsNothing, ClassesRun
<1>2. Len(seq) \in Nat /\ \A i \in 1 .. Len(seq) : seq[i] \in Tokens
  BY LenProperties, ElementOfSeq
<1> DEFINE Own(t) == [by |-> n, token |-> t]
           Good(k) == run[k] # None =>
                        /\ run[k] \in Binds
                        /\ \A i \in 1 .. k : run[k][seq[i]] = Own(seq[i])
                        /\ \A t \in Tokens : run[k][t] # None => \E i \in 1 .. k : seq[i] = t
           G == {k \in Nat : Good(k)}
<1>3. \A t \in Tokens : Own(t) \in Instance /\ Own(t) # None
  BY NoneIsNothing DEF Instance
<1>4. Good(0)
  BY <1>1, NoneIsNothing DEF Nothing
<1> HIDE DEF Own
<1>5. ASSUME NEW k \in Nat, Good(k), k < Len(seq)
      PROVE  Good(k + 1)
  <2>1. seq[k + 1] \in Tokens /\ run[k + 1] = CreateClass(n, run[k], seq[k + 1])
    BY <1>1, <1>2, <1>5
  <2>2. PICK t \in Tokens : t = seq[k + 1]
    BY <2>1
  <2>3. SUFFICES ASSUME run[k + 1] # None
                 PROVE  /\ run[k + 1] \in Binds
                        /\ \A i \in 1 .. k + 1 : run[k + 1][seq[i]] = Own(seq[i])
                        /\ \A u \in Tokens : run[k + 1][u] # None => \E i \in 1 .. k + 1 : seq[i] = u
    OBVIOUS
  <2>4. run[k] # None /\ run[k] \in Binds
    BY <1>5, <2>1, <2>3 DEF CreateClass
  <2>5. \A i \in 1 .. k + 1 : i = k + 1 \/ i \in 1 .. k
    BY <1>5
  <2>6. \A i \in 1 .. k : i \in 1 .. k + 1 /\ seq[i] \in Tokens /\ run[k][seq[i]] = Own(seq[i])
    BY <1>2, <1>5, <2>4
  <2>7. k + 1 \in 1 .. k + 1
    BY <1>5
  <2>8. CASE run[k][t] # None
    <3>1. run[k + 1] = run[k]
      BY <2>1, <2>2, <2>8 DEF CreateClass
    <3>2. PICK i \in 1 .. k : seq[i] = t
      BY <1>5, <2>4, <2>8
    <3>3. run[k][t] = Own(t)
      BY <2>6, <3>2
    <3>4. \A u \in Tokens : run[k][u] # None => \E j \in 1 .. k : seq[j] = u
      BY <1>5, <2>4
    <3>5. QED
      BY <2>2, <2>4, <2>5, <2>6, <3>1, <3>3, <3>4
  <2>9. CASE run[k][t] = None
    <3>1. run[k + 1] = [run[k] EXCEPT ![t] = Own(t)]
      BY <2>1, <2>2, <2>3, <2>4, <2>9 DEF CreateClass, Own
    <3>2. DOMAIN run[k] = Tokens
      BY <2>4 DEF Binds
    <3>3. run[k + 1][t] = Own(t) /\ \A u \in Tokens : u # t => run[k + 1][u] = run[k][u]
      BY <3>1, <3>2
    <3>4. run[k + 1] \in Binds
      BY <1>3, <2>4, <3>1 DEF Binds
    <3>5. ASSUME NEW i \in 1 .. k + 1
          PROVE  run[k + 1][seq[i]] = Own(seq[i])
      <4>1. CASE seq[i] = t
        BY <3>3, <4>1
      <4>2. CASE seq[i] # t
        BY <2>2, <2>5, <2>6, <3>3, <4>2
      <4>3. QED
        BY <4>1, <4>2
    <3>6. ASSUME NEW u \in Tokens, run[k + 1][u] # None
          PROVE  \E i \in 1 .. k + 1 : seq[i] = u
      <4>1. CASE u = t
        BY <2>2, <2>7, <4>1
      <4>2. CASE u # t
        <5>1. run[k][u] # None
          BY <3>3, <3>6, <4>2
        <5>2. \E i \in 1 .. k : seq[i] = u
          BY <1>5, <2>4, <5>1
        <5>3. QED
          BY <2>6, <5>2
      <4>3. QED
        BY <4>1, <4>2
    <3>7. QED
      BY <3>4, <3>5, <3>6
  <2>10. QED
    BY <2>8, <2>9
<1>6. Good(Len(seq))
  <2> HIDE DEF Good
  <2>1. 0 \in G /\ \A k \in G : k < Len(seq) => k + 1 \in G
    BY <1>4, <1>5
  <2>2. G \in SUBSET Nat
    OBVIOUS
  <2> HIDE DEF G
  <2>3. Len(seq) \in G
    BY <1>2, <2>1, <2>2, SegmentInduction
  <2>4. QED
    BY <2>3 DEF G
<1>7. ToSet(seq) = {seq[i] : i \in 1 .. Len(seq)}
  BY ToSetIndices
<1>8. QED
  BY <1>1, <1>6, <1>7 DEF Own

\* A value never replaces what is bound; a token without a binding gets the
\* value of an item with that token.
LEMMA ValuesFacts ==
  ASSUME NEW base \in Binds \cup {None}, NEW seq \in Seq(Item), SetValues(base, seq) # None
  PROVE  /\ base \in Binds /\ SetValues(base, seq) \in Binds
         /\ \A t \in Tokens : base[t] # None => SetValues(base, seq)[t] = base[t]
         /\ \A i \in ToSet(seq) : SetValues(base, seq)[i.token] # None
         /\ \A t \in Tokens : base[t] = None /\ SetValues(base, seq)[t] # None =>
                \E i \in ToSet(seq) : i.token = t /\ SetValues(base, seq)[t] = i.value
<1>1. PICK run : /\ run[0] = base
                 /\ \A k \in Nat : k < Len(seq) => run[k + 1] = SetValue(run[k], seq[k + 1])
                 /\ SetValues(base, seq) = run[Len(seq)]
  BY ValuesRun
<1>2. Len(seq) \in Nat /\ \A i \in 1 .. Len(seq) : seq[i] \in Item
  BY LenProperties, ElementOfSeq
<1> DEFINE Good(k) == run[k] # None =>
                        /\ base \in Binds /\ run[k] \in Binds
                        /\ \A t \in Tokens : base[t] # None => run[k][t] = base[t]
                        /\ \A i \in 1 .. k : run[k][seq[i].token] # None
                        /\ \A t \in Tokens : base[t] = None /\ run[k][t] # None =>
                               \E i \in 1 .. k : seq[i].token = t /\ run[k][t] = seq[i].value
           G == {k \in Nat : Good(k)}
<1>3. Good(0)
  BY <1>1
<1>4. ASSUME NEW k \in Nat, Good(k), k < Len(seq)
      PROVE  Good(k + 1)
  <2>1. seq[k + 1] \in Item /\ run[k + 1] = SetValue(run[k], seq[k + 1])
    BY <1>1, <1>2, <1>4
  <2>2. PICK t \in Tokens, v \in Instance : t = seq[k + 1].token /\ v = seq[k + 1].value
    BY <2>1 DEF Item
  <2>3. SUFFICES ASSUME run[k + 1] # None
                 PROVE  Good(k + 1)
    OBVIOUS
  <2>4. run[k] # None
    BY <2>1, <2>3 DEF SetValue
  <2>5. /\ base \in Binds /\ run[k] \in Binds
        /\ \A u \in Tokens : base[u] # None => run[k][u] = base[u]
        /\ \A i \in 1 .. k : run[k][seq[i].token] # None
        /\ \A u \in Tokens : base[u] = None /\ run[k][u] # None =>
               \E i \in 1 .. k : seq[i].token = u /\ run[k][u] = seq[i].value
    BY <1>4, <2>4
  <2>6. \A i \in 1 .. k + 1 : i = k + 1 \/ i \in 1 .. k
    BY <1>4
  <2>7. k + 1 \in 1 .. k + 1 /\ \A i \in 1 .. k : i \in 1 .. k + 1
    BY <1>4
  <2>8. CASE run[k][t] # None
    <3>1. run[k + 1] = run[k]
      BY <2>1, <2>2, <2>8 DEF SetValue
    <3>2. \A i \in 1 .. k + 1 : run[k][seq[i].token] # None
      BY <2>2, <2>5, <2>6, <2>8
    <3>3. ASSUME NEW u \in Tokens, base[u] = None, run[k][u] # None
          PROVE  \E i \in 1 .. k + 1 : seq[i].token = u /\ run[k][u] = seq[i].value
      <4>1. \E i \in 1 .. k : seq[i].token = u /\ run[k][u] = seq[i].value
        BY <2>5, <3>3
      <4>2. QED
        BY <2>7, <4>1
    <3>4. QED
      BY <2>5, <3>1, <3>2, <3>3
  <2>9. CASE run[k][t] = None
    <3>1. run[k + 1] = [run[k] EXCEPT ![t] = v]
      BY <2>1, <2>2, <2>4, <2>9 DEF SetValue
    <3>2. DOMAIN run[k] = Tokens /\ v # None
      BY <2>5, NoneIsNothing DEF Binds
    <3>3. run[k + 1][t] = v /\ \A u \in Tokens : u # t => run[k + 1][u] = run[k][u]
      BY <3>1, <3>2
    <3>4. run[k + 1] \in Binds
      BY <2>5, <3>1 DEF Binds
    <3>5. base[t] = None
      BY <2>5, <2>9
    <3>6. ASSUME NEW i \in 1 .. k + 1
          PROVE  run[k + 1][seq[i].token] # None
      <4>0. seq[i].token \in Tokens
        BY <1>2, <1>4 DEF Item
      <4>1. CASE seq[i].token = t
        BY <3>2, <3>3, <4>1
      <4>2. CASE seq[i].token # t
        BY <2>2, <2>5, <2>6, <3>3, <4>0, <4>2
      <4>3. QED
        BY <4>1, <4>2
    <3>7. ASSUME NEW u \in Tokens, base[u] = None, run[k + 1][u] # None
          PROVE  \E i \in 1 .. k + 1 : seq[i].token = u /\ run[k + 1][u] = seq[i].value
      <4>1. CASE u = t
        BY <2>2, <2>7, <3>3, <4>1
      <4>2. CASE u # t
        <5>1. run[k + 1][u] = run[k][u]
          BY <3>3, <4>2
        <5>2. \E i \in 1 .. k : seq[i].token = u /\ run[k][u] = seq[i].value
          BY <2>5, <3>7, <5>1
        <5>3. QED
          BY <2>7, <5>1, <5>2
      <4>3. QED
        BY <4>1, <4>2
    <3>8. \A u \in Tokens : base[u] # None => run[k + 1][u] = base[u]
      BY <2>5, <3>3, <3>5
    <3>9. QED
      BY <2>5, <3>4, <3>6, <3>7, <3>8
  <2>10. QED
    BY <2>8, <2>9
<1>5. Good(Len(seq))
  <2> HIDE DEF Good
  <2>1. 0 \in G /\ \A k \in G : k < Len(seq) => k + 1 \in G
    BY <1>3, <1>4
  <2>2. G \in SUBSET Nat
    OBVIOUS
  <2> HIDE DEF G
  <2>3. Len(seq) \in G
    BY <1>2, <2>1, <2>2, SegmentInduction
  <2>4. QED
    BY <2>3 DEF G
<1>6. ToSet(seq) = {seq[i] : i \in 1 .. Len(seq)}
  BY ToSetIndices
<1>7. QED
  BY <1>1, <1>5, <1>6

\* shiftLeft adds the items whose token is not provided.
LEMMA ShiftFacts ==
  ASSUME NEW m, NEW items \in Seq(Item), NEW seq \in Seq(Item)
  PROVE  /\ ShiftLeft(m, items, seq) \in Seq(Item)
         /\ \A i \in Item : i \in ToSet(ShiftLeft(m, items, seq)) <=>
                i \in ToSet(items) \/ (i \in ToSet(seq) /\ i.token \notin Provided(m, items))
<1> DEFINE Old(i) == i.token \in Provided(m, items)
<1>1. PICK run : /\ run[0] = items
                 /\ \A k \in Nat : k < Len(seq) =>
                        run[k + 1] = IF Old(seq[k + 1]) THEN run[k] ELSE Append(run[k], seq[k + 1])
                 /\ ShiftLeft(m, items, seq) = run[Len(seq)]
  BY ShiftRun
<1> HIDE DEF Old
<1>2. Len(seq) \in Nat /\ \A i \in 1 .. Len(seq) : seq[i] \in Item
  BY LenProperties, ElementOfSeq
<1> DEFINE Good(k) == /\ run[k] \in Seq(Item)
                      /\ \A i \in Item : i \in ToSet(run[k]) <=>
                             i \in ToSet(items) \/ \E j \in 1 .. k : i = seq[j] /\ ~Old(i)
           G == {k \in Nat : Good(k)}
<1>3. Good(0)
  BY <1>1
<1>4. ASSUME NEW k \in Nat, Good(k), k < Len(seq)
      PROVE  Good(k + 1)
  <2>1. /\ seq[k + 1] \in Item
        /\ run[k + 1] = IF Old(seq[k + 1]) THEN run[k] ELSE Append(run[k], seq[k + 1])
    BY <1>1, <1>2, <1>4
  <2>2. 1 .. k + 1 = (1 .. k) \cup {k + 1}
    BY <1>4
  <2>3. CASE Old(seq[k + 1])
    BY <1>4, <2>1, <2>2, <2>3
  <2>4. CASE ~Old(seq[k + 1])
    <3>1. /\ run[k + 1] \in Seq(Item)
          /\ ToSet(run[k + 1]) = ToSet(run[k]) \cup {seq[k + 1]}
      BY <1>4, <2>1, <2>4, ToSetAppend
    <3>2. QED
      BY <1>4, <2>2, <2>4, <3>1
  <2>5. QED
    BY <2>3, <2>4
<1>5. Good(Len(seq))
  <2> HIDE DEF Good
  <2>1. 0 \in G /\ \A k \in G : k < Len(seq) => k + 1 \in G
    BY <1>3, <1>4
  <2>2. G \in SUBSET Nat
    OBVIOUS
  <2> HIDE DEF G
  <2>3. Len(seq) \in G
    BY <1>2, <2>1, <2>2, SegmentInduction
  <2>4. QED
    BY <2>3 DEF G
<1>6. ToSet(seq) = {seq[i] : i \in 1 .. Len(seq)}
  BY ToSetIndices
<1>7. QED
  BY <1>1, <1>5, <1>6 DEF Old

\* What createAndResolve binds on injector n for module m.
IsCreated(n, m, items, binds) ==
    /\ binds \in Binds
    /\ \A t \in OwnClasses(m) : binds[t] = [by |-> n, token |-> t]
    /\ \A i \in ToSet(items) : binds[i.token] # None
    /\ \A t \in Tokens \ OwnClasses(m) : binds[t] # None =>
           \E i \in ToSet(items) : i.token = t /\ binds[t] = i.value

LEMMA OwnFacts ==
  ASSUME graph \in Graphs, NEW m \in Modules
  PROVE  /\ graph.providers[m] \in Seq(Tokens)
         /\ Concat(Order, graph.providers[m]) \in Seq(Tokens)
         /\ OwnClasses(m) = ToSet(Concat(Order, graph.providers[m]))
         /\ OwnClasses(m) \subseteq Tokens /\ ToSet(graph.providers[m]) \subseteq OwnClasses(m)
<1>1. graph.providers[m] \in Seq(Tokens)
  BY ModuleAssumption DEF Graph
<1>2. Order \in [Tokens -> Seq(Tokens)] /\ \A t \in Tokens : t \in ToSet(Order[t])
  BY OrderFacts
<1>3. /\ Concat(Order, graph.providers[m]) \in Seq(Tokens)
      /\ ToSet(Concat(Order, graph.providers[m])) = OwnClasses(m)
  BY <1>1, <1>2, ConcatFacts DEF OwnClasses
<1>4. ToSet(graph.providers[m]) \subseteq Tokens /\ OwnClasses(m) \subseteq Tokens
  BY <1>1, <1>3, ToSetIndices
<1>5. ToSet(graph.providers[m]) \subseteq OwnClasses(m)
  BY <1>2, <1>4 DEF OwnClasses
<1>6. QED
  BY <1>1, <1>3, <1>4, <1>5

LEMMA CreateFacts ==
  ASSUME graph \in Graphs, NEW n \in Nat, NEW m \in Modules, NEW items \in Seq(Item),
         CreateProviders(n, m, items) # None
  PROVE  IsCreated(n, m, items, CreateProviders(n, m, items))
<1> DEFINE own == CreateClasses(n, Nothing, Concat(Order, graph.providers[m]))
           all == SetValues(own, items)
<1>1. CreateProviders(n, m, items) = all /\ all # None
  BY DEF CreateProviders, CreateModule
<1>2. own \in Binds \cup {None}
  <2>1. Concat(Order, graph.providers[m]) \in Seq(Tokens)
    BY OwnFacts
  <2>2. PICK classes \in Seq(Tokens) : classes = Concat(Order, graph.providers[m])
    BY <2>1
  <2>3. CreateClasses(n, Nothing, classes) \in Binds \cup {None}
    BY ClassesFacts
  <2>4. QED
    BY <2>2, <2>3
<1>3. /\ own \in Binds /\ all \in Binds
      /\ \A t \in Tokens : own[t] # None => all[t] = own[t]
      /\ \A i \in ToSet(items) : all[i.token] # None
      /\ \A t \in Tokens : own[t] = None /\ all[t] # None =>
             \E i \in ToSet(items) : i.token = t /\ all[t] = i.value
  <2> HIDE DEF own
  <2>1. QED
    BY <1>1, <1>2, ValuesFacts
<1>4. /\ \A t \in OwnClasses(m) : own[t] = [by |-> n, token |-> t] /\ own[t] # None
      /\ \A t \in Tokens \ OwnClasses(m) : own[t] = None
  <2>1. PICK classes \in Seq(Tokens) : classes = Concat(Order, graph.providers[m])
    BY OwnFacts
  <2>2. OwnClasses(m) = ToSet(classes) /\ own = CreateClasses(n, Nothing, classes)
    BY <2>1, OwnFacts
  <2>3. own # None
    BY <1>3, NoneIsNothing
  <2> HIDE DEF own
  <2>4. /\ \A t \in ToSet(classes) : own[t] = [by |-> n, token |-> t]
        /\ \A t \in Tokens \ ToSet(classes) : own[t] = None
    BY <2>2, <2>3, ClassesFacts
  <2>5. \A t \in Tokens : [by |-> n, token |-> t] # None
    BY NoneIsNothing DEF Instance
  <2>6. ToSet(classes) \subseteq Tokens
    BY ToSetIndices
  <2>7. QED
    BY <2>2, <2>4, <2>5, <2>6
<1> HIDE DEF own, all
<1>5. OwnClasses(m) \subseteq Tokens
  BY OwnFacts
<1>6. IsCreated(n, m, items, all)
  BY <1>3, <1>4, <1>5 DEF IsCreated
<1>7. QED
  BY <1>1, <1>6

-----------------------------------------------------------------------------
(* Modules are complete                                                    *)

Bound ==
    /\ injectors \in Seq([mod : Modules, binds : Binds])
    /\ \A m \in Modules : registered[m] # None => registered[m] \in 1 .. Len(injectors)

\* How many imports of its module frame f is done with.
Position(f) == Len(graph.imports[f.mod]) - Len(f.todo)

\* What these imports export is provided by the module or collected.
Collecting(f) ==
    /\ f.items \in Seq(Item)
    /\ Position(f) \in Nat
    /\ \A k \in 1 .. Len(f.todo) : f.todo[k] = graph.imports[f.mod][Position(f) + k]
    /\ \A q \in 1 .. Position(f) :
           ToSet(graph.exports[graph.imports[f.mod][q]]) \subseteq Provided(f.mod, f.items)

\* v is what the injector of module x has for token t.
Shares(x, t, v) == x \in Modules /\ registered[x] # None /\ v = Binding(x, t)

\* Every item is the instance of the first import that exports its token.
Sharing(f) == \A i \in ToSet(f.items) : Shares(Exporter(f.mod, i.token), i.token, i.value)

Complete ==
    /\ Bound /\ RegisteredIsComplete
    /\ \A c \in Calls : \A f \in ToSet(stack[c]) : Collecting(f)

SharesAll ==
    Undisturbed =>
        /\ \A c \in Calls : \A f \in ToSet(stack[c]) : Sharing(f)
        /\ \A m \in Modules : registered[m] # None =>
               \A t \in ImportedTokens(m) \ OwnClasses(m) : Shares(Exporter(m, t), t, Binding(m, t))

LEMMA GraphFacts ==
  ASSUME graph \in Graphs, NEW m \in Modules
  PROVE  /\ graph.imports[m] \in Seq(Modules) /\ graph.exports[m] \in Seq(Tokens)
         /\ Len(graph.imports[m]) \in Nat
         /\ \A q \in 1 .. Len(graph.imports[m]) : graph.imports[m][q] \in Modules
<1>1. graph.imports[m] \in Seq(Modules) /\ graph.exports[m] \in Seq(Tokens)
  BY ModuleAssumption DEF Graph
<1>2. QED
  BY <1>1, LenProperties, ElementOfSeq

LEMMA ExporterIs ==
  ASSUME graph \in Graphs, NEW m \in Modules, NEW t, NEW p \in 1 .. Len(graph.imports[m]),
         t \in ToSet(graph.exports[graph.imports[m][p]]),
         \A q \in 1 .. p - 1 : t \notin ToSet(graph.exports[graph.imports[m][q]])
  PROVE  Exporter(m, t) = graph.imports[m][p]
<1> DEFINE s == graph.imports[m]
           I == {i \in 1 .. Len(s) : t \in ToSet(graph.exports[s[i]])}
<1>1. Len(s) \in Nat
  BY GraphFacts
<1>2. SelectInSeq(s, LAMBDA x : t \in ToSet(graph.exports[x])) = IF I # {} THEN Min(I) ELSE 0
  BY Zenon DEF SelectInSeq
<1>3. p \in I /\ \A i \in I : p <= i
  BY <1>1
<1>4. Min(I) = p
  <2> HIDE DEF I
  <2>1. I \subseteq Nat
    BY <1>1 DEF I
  <2>2. \A x \in I : (\A y \in I : x <= y) => x = p
    BY <1>3, <2>1
  <2>3. QED
    BY <1>3, <2>2 DEF Min
<1>5. SelectInSeq(s, LAMBDA x : t \in ToSet(graph.exports[x])) = p
  <2> HIDE DEF I
  <2>1. QED
    BY <1>2, <1>3, <1>4, Zenon
<1>6. QED
  BY <1>5, Zenon DEF Exporter

\* What a module that may be taken from exports.
LEMMA ExportedFacts ==
  ASSUME graph \in Graphs, Bound, NEW x \in Modules, NEW binds,
         binds = injectors[registered[x]].binds,
         graph.exports[x] # <<>> => registered[x] # None
  PROVE  /\ Exported(x, binds) \in Seq(Item)
         /\ ToSet(Exported(x, binds)) =
                {[token |-> t, value |-> Get(binds, t)] : t \in ToSet(graph.exports[x])}
         /\ \A t \in ToSet(graph.exports[x]) : t \in Tokens /\ registered[x] # None
<1> DEFINE e == graph.exports[x]
<1>1. /\ e \in Seq(Tokens) /\ Len(e) \in Nat /\ DOMAIN e = 1 .. Len(e)
      /\ \A i \in 1 .. Len(e) : e[i] \in Tokens
      /\ ToSet(e) = {e[i] : i \in 1 .. Len(e)} /\ ToSet(e) \subseteq Tokens
  BY GraphFacts, LenProperties, ElementOfSeq, ToSetIndices
<1>2. e = <<>> => ToSet(e) = {} /\ Len(e) = 0
  BY DEF ToSet
<1>3. ASSUME NEW t \in Tokens, registered[x] # None
      PROVE  [token |-> t, value |-> Get(binds, t)] \in Item
  <2>1. registered[x] \in 1 .. Len(injectors)
    BY <1>3 DEF Bound
  <2>2. injectors[registered[x]] \in [mod : Modules, binds : Binds]
    BY <2>1, ElementOfSeq DEF Bound
  <2>3. binds[t] \in Instance \cup {None}
    BY <2>2 DEF Binds
  <2>4. [by |-> 0, token |-> t] \in Instance
    BY DEF Instance
  <2>5. Get(binds, t) \in Instance
    BY <2>3, <2>4 DEF Get
  <2>6. QED
    BY <2>5 DEF Item
<1> HIDE DEF e
<1>4. PICK r : r = [i \in 1 .. Len(e) |-> [token |-> e[i], value |-> Get(binds, e[i])]]
  OBVIOUS
<1>5. \A i \in 1 .. Len(e) : registered[x] # None
  BY <1>1, <1>2 DEF e
<1>6. r \in [1 .. Len(e) -> Item]
  BY <1>1, <1>3, <1>4, <1>5
<1>7. r \in Seq(Item)
  BY <1>1, <1>6
<1>8. Exported(x, binds) = r
  BY <1>1, <1>4 DEF Exported, e
<1>9. ToSet(r) = {[token |-> t, value |-> Get(binds, t)] : t \in ToSet(e)}
  <2>1. ToSet(r) = {r[i] : i \in 1 .. Len(e)}
    BY <1>4 DEF ToSet
  <2>2. QED
    BY <1>1, <1>4, <2>1
<1>10. \A t \in ToSet(e) : t \in Tokens /\ registered[x] # None
  BY <1>1, <1>5
<1>11. QED
  BY <1>7, <1>8, <1>9, <1>10 DEF e

\* The frame that goes on when the exports of its next import are taken.
Taking(f) ==
    [f EXCEPT !.at = "next", !.todo = Tail(@),
              !.items = ShiftLeft(f.mod, @, Exported(Head(f.todo), injectors[registered[Head(f.todo)]].binds))]

LEMMA TakingFacts ==
  ASSUME graph \in Graphs, Bound, NEW md, NEW f, GoodFrame(graph, f, md), Collecting(f),
         f.todo # <<>>,
         graph.exports[Head(f.todo)] # <<>> => registered[Head(f.todo)] # None
  PROVE  Collecting(Taking(f)) /\ (Sharing(f) => Sharing(Taking(f)))
<1> DEFINE h == Taking(f)
           x == Head(f.todo)
           binds == injectors[registered[x]].binds
           m == f.mod
           items == f.items
           imported == Exported(x, binds)
           p == Position(f) + 1
<1>1. /\ m \in Modules /\ f.todo \in Seq(Modules) /\ DOMAIN f = {"mod", "at", "todo", "items"}
      /\ items \in Seq(Item) /\ Position(f) \in Nat
  BY DEF GoodFrame, Collecting
<1>2. /\ h.mod = m /\ h.todo = Tail(f.todo) /\ h.items = ShiftLeft(m, items, imported)
  BY <1>1 DEF Taking
<1>3. /\ x = f.todo[1] /\ Len(f.todo) \in Nat \ {0} /\ Len(Tail(f.todo)) = Len(f.todo) - 1
      /\ \A k \in 1 .. Len(Tail(f.todo)) : Tail(f.todo)[k] = f.todo[k + 1]
      /\ x \in Modules
  BY <1>1, HeadTailProperties, EmptySeq
<1>4. /\ Len(graph.imports[m]) \in Nat /\ Position(f) = Len(graph.imports[m]) - Len(f.todo)
      /\ Position(h) = Len(graph.imports[m]) - Len(Tail(f.todo))
  <2>1. Len(graph.imports[m]) \in Nat
    BY <1>1, GraphFacts
  <2>2. QED
    BY <1>2, <2>1 DEF Position
<1>5. /\ Position(h) = p /\ p \in 1 .. Len(graph.imports[m]) /\ graph.imports[m][p] = x
  <2>1. f.todo[1] = graph.imports[m][Position(f) + 1]
    BY <1>3 DEF Collecting
  <2> HIDE DEF h
  <2>2. QED
    BY <1>1, <1>3, <1>4, <2>1
<1>6. /\ imported \in Seq(Item)
      /\ ToSet(imported) = {[token |-> t, value |-> Get(binds, t)] : t \in ToSet(graph.exports[x])}
      /\ \A t \in ToSet(graph.exports[x]) : t \in Tokens /\ registered[x] # None
  BY <1>3, ExportedFacts
<1> HIDE DEF imported, binds, x, h
<1>7. /\ h.items \in Seq(Item)
      /\ \A i \in Item : i \in ToSet(h.items) <=>
             i \in ToSet(items) \/ (i \in ToSet(imported) /\ i.token \notin Provided(m, items))
  BY <1>1, <1>2, <1>6, ShiftFacts
<1>8. ToSet(h.items) \subseteq Item /\ ToSet(items) \subseteq Item /\ ToSet(imported) \subseteq Item
  BY <1>1, <1>6, <1>7, ToSetIndices
<1>9. Provided(m, items) \subseteq Provided(m, h.items)
  BY <1>7, <1>8 DEF Provided
<1>10. ToSet(graph.exports[x]) \subseteq Provided(m, h.items)
  <2> SUFFICES ASSUME NEW t \in ToSet(graph.exports[x]), t \notin Provided(m, items)
               PROVE  t \in Provided(m, h.items)
    BY <1>9
  <2>1. PICK i \in ToSet(imported) : i.token = t
    <3>1. PICK i : i = [token |-> t, value |-> Get(binds, t)]
      OBVIOUS
    <3>2. i \in ToSet(imported)
      BY <1>6, <3>1
    <3>3. i.token = t
      BY <3>1
    <3>4. QED
      BY <3>2, <3>3
  <2>2. i \in ToSet(h.items)
    BY <1>7, <1>8, <2>1
  <2>3. QED
    BY <2>1, <2>2 DEF Provided
<1>11. Collecting(h)
  <2>1. \A k \in 1 .. Len(h.todo) : h.todo[k] = graph.imports[h.mod][Position(h) + k]
    <3> SUFFICES ASSUME NEW k \in 1 .. Len(Tail(f.todo))
                 PROVE  Tail(f.todo)[k] = graph.imports[m][p + k]
      BY <1>2, <1>5
    <3>1. k + 1 \in 1 .. Len(f.todo) /\ Position(f) + (k + 1) = p + k
      BY <1>1, <1>3
    <3>2. f.todo[k + 1] = graph.imports[m][Position(f) + (k + 1)]
      BY <3>1 DEF Collecting
    <3>3. QED
      BY <1>3, <3>1, <3>2
  <2>2. ASSUME NEW q \in 1 .. p
        PROVE  ToSet(graph.exports[graph.imports[m][q]]) \subseteq Provided(m, h.items)
    <3>1. CASE q = p
      BY <1>5, <1>10, <3>1
    <3>2. CASE q # p
      <4>1. q \in 1 .. Position(f)
        BY <1>1, <3>2
      <4>2. QED
        BY <1>9, <4>1 DEF Collecting
    <3>3. QED
      BY <3>1, <3>2
  <2>3. Position(h) \in Nat
    BY <1>5
  <2>4. QED
    BY <1>2, <1>5, <1>7, <2>1, <2>2, <2>3 DEF Collecting
<1>12. ASSUME Sharing(f)
       PROVE  Sharing(h)
  <2> SUFFICES ASSUME NEW i \in ToSet(h.items)
               PROVE  Shares(Exporter(m, i.token), i.token, i.value)
    BY <1>2 DEF Sharing
  <2>1. CASE i \in ToSet(items)
    BY <1>12, <2>1 DEF Sharing
  <2>2. CASE i \notin ToSet(items)
    <3>1. i \in ToSet(imported) /\ i.token \notin Provided(m, items)
      BY <1>7, <1>8, <2>2
    <3>2. PICK t \in ToSet(graph.exports[x]) : i = [token |-> t, value |-> Get(binds, t)]
      BY <1>6, <3>1
    <3>3. i.token = t /\ i.value = Get(binds, t)
      BY <3>2
    <3>4. \A q \in 1 .. p - 1 : t \notin ToSet(graph.exports[graph.imports[m][q]])
      <4>1. \A q \in 1 .. p - 1 : q \in 1 .. Position(f)
        BY <1>1
      <4>2. QED
        BY <3>1, <3>3, <4>1 DEF Collecting
    <3>5. Exporter(m, t) = x
      <4>1. t \in ToSet(graph.exports[graph.imports[m][p]])
        BY <1>5
      <4>2. Exporter(m, t) = graph.imports[m][p]
        BY <1>1, <1>5, <3>4, <4>1, ExporterIs
      <4>3. QED
        BY <1>5, <4>2
    <3>6. QED
      BY <1>3, <1>6, <3>3, <3>5 DEF Shares, Binding, binds, x
  <2>3. QED
    BY <2>1, <2>2
<1>13. QED
  BY <1>11, <1>12 DEF h

\* A frame that only awaits something else collects what it did.
LEMMA SameFrame ==
  ASSUME NEW f, NEW h, h.mod = f.mod, h.todo = f.todo, h.items = f.items
  PROVE  (Collecting(f) => Collecting(h)) /\ (Sharing(f) => Sharing(h))
BY DEF Collecting, Sharing, Position

LEMMA NewFrameCollects ==
  ASSUME graph \in Graphs, NEW m \in Modules
  PROVE  Collecting(NewFrame(m)) /\ Sharing(NewFrame(m))
<1> DEFINE f == NewFrame(m)
<1>1. f.mod = m /\ f.todo = graph.imports[m] /\ f.items = <<>>
  BY DEF NewFrame
<1>2. Len(graph.imports[m]) \in Nat
  BY GraphFacts
<1> HIDE DEF f
<1>3. Position(f) = 0
  BY <1>1, <1>2 DEF Position
<1>4. <<>> \in Seq(Item) /\ ToSet(<<>>) = {}
  BY DEF ToSet
<1>5. \A k \in 1 .. Len(f.todo) : f.todo[k] = graph.imports[f.mod][Position(f) + k]
  BY <1>1, <1>2, <1>3
<1>6. Collecting(f)
  BY <1>1, <1>3, <1>4, <1>5 DEF Collecting
<1>7. Sharing(f)
  BY <1>1, <1>4 DEF Sharing
<1>8. QED
  BY <1>6, <1>7 DEF f

-----------------------------------------------------------------------------
(* The frames of a stack after a move                                      *)

LEMMA LastIsFrame ==
  ASSUME NEW S, NEW s \in Seq(S), s # <<>>
  PROVE  Last(s) \in ToSet(s)
<1>1. Len(s) \in Nat \ {0} /\ Last(s) = s[Len(s)]
  BY FrontLast
<1>2. Len(s) \in 1 .. Len(s)
  BY <1>1
<1>3. QED
  BY <1>1, <1>2, ToSetIndices

LEMMA FrontFrames ==
  ASSUME NEW S, NEW s \in Seq(S), s # <<>>
  PROVE  Front(s) \in Seq(S) /\ ToSet(Front(s)) \subseteq ToSet(s)
<1>1. /\ Len(s) \in Nat \ {0} /\ Front(s) \in Seq(S) /\ Len(Front(s)) = Len(s) - 1
      /\ \A i \in 1 .. Len(s) - 1 : Front(s)[i] = s[i]
  BY FrontLast
<1>2. PICK r \in Seq(S) : r = Front(s)
  BY <1>1
<1>3. ToSet(r) = {r[i] : i \in 1 .. Len(r)} /\ ToSet(s) = {s[i] : i \in 1 .. Len(s)}
  BY <1>2, ToSetIndices
<1>4. \A i \in 1 .. Len(r) : r[i] = s[i] /\ i \in 1 .. Len(s)
  BY <1>1, <1>2
<1>5. ToSet(r) \subseteq ToSet(s)
  BY <1>3, <1>4
<1>6. QED
  BY <1>1, <1>2, <1>5

LEMMA AppendFrame ==
  ASSUME NEW S, NEW s \in Seq(S), NEW f
  PROVE  Append(s, f) \in Seq(S \cup {f}) /\ ToSet(Append(s, f)) = ToSet(s) \cup {f}
<1>1. s \in Seq(S \cup {f}) /\ f \in S \cup {f}
  BY SeqMonotonic
<1>2. PICK T : T = S \cup {f}
  OBVIOUS
<1>3. s \in Seq(T) /\ f \in T
  BY <1>1, <1>2
<1>4. Append(s, f) \in Seq(T) /\ ToSet(Append(s, f)) = ToSet(s) \cup {f}
  BY <1>3, ToSetAppend
<1>5. QED
  BY <1>2, <1>4

\* After a step of call c, the frames are the old ones and those of more.
Frames(c, more) == ToSet(stack'[c]) \subseteq ToSet(stack[c]) \cup more

LEMMA ContinueFrames ==
  ASSUME Created, NEW c \in Calls, stack[c] # <<>>, NEW f, Continue(c, f)
  PROVE  /\ \A d \in Calls : Frames(d, {f})
         /\ UNCHANGED <<graph, injectors, registered, removes, overlapped>>
<1>1. PICK S : stack[c] \in Seq(S)
  BY DEF Created, GoodStack
<1>2. ToSet(Append(Front(stack[c]), f)) \subseteq ToSet(stack[c]) \cup {f}
  <2>1. Front(stack[c]) \in Seq(S) /\ ToSet(Front(stack[c])) \subseteq ToSet(stack[c])
    BY <1>1, FrontFrames
  <2>2. PICK r \in Seq(S) : r = Front(stack[c])
    BY <2>1
  <2>3. ToSet(Append(r, f)) = ToSet(r) \cup {f}
    BY <2>2, AppendFrame
  <2>4. QED
    BY <2>1, <2>2, <2>3
<1>3. ASSUME NEW d \in Calls
      PROVE  Frames(d, {f})
  <2>1. CASE d = c
    <3>1. stack'[c] = Append(Front(stack[c]), f)
      BY DEF Continue, Created
    <3>2. QED
      BY <1>2, <2>1, <3>1 DEF Frames
  <2>2. CASE d # c
    BY <2>2 DEF Continue, Created, Frames
  <2>3. QED
    BY <2>1, <2>2
<1>4. QED
  BY <1>3 DEF Continue

LEMMA FailFrames ==
  ASSUME Created, NEW c \in Calls, Fail(c)
  PROVE  /\ \A d \in Calls : Frames(d, {})
         /\ UNCHANGED <<graph, injectors, registered, removes, overlapped>>
<1>1. ToSet(<<>>) = {}
  BY DEF ToSet
<1>2. QED
  BY <1>1 DEF Fail, Frames, Created

-----------------------------------------------------------------------------
(* The steps                                                               *)

LEMMA SameGraph ==
  ASSUME graph' = graph
  PROVE  \A m : /\ OwnClasses(m)' = OwnClasses(m) /\ ImportedTokens(m)' = ImportedTokens(m)
                /\ \A t : Exporter(m, t)' = Exporter(m, t)
<1>1. Order' = Order
  BY SMT DEF Order
<1>2. ASSUME NEW m
      PROVE  OwnClasses(m)' = OwnClasses(m) /\ ImportedTokens(m)' = ImportedTokens(m)
  BY <1>1 DEF OwnClasses, ImportedTokens
<1>3. ASSUME NEW m, NEW t
      PROVE  Exporter(m, t)' = Exporter(m, t)
  BY SMT DEF Exporter, SelectInSeq, Min
<1>4. QED
  BY <1>2, <1>3

\* What does not touch the injectors only has to add frames that collect.
LEMMA FramesStep ==
  ASSUME Complete, SharesAll, UNCHANGED <<graph, injectors, registered, removes>>,
         Undisturbed' => Undisturbed, NEW more, \A d \in Calls : Frames(d, more),
         \A f \in more : Collecting(f) /\ (Undisturbed => Sharing(f))
  PROVE  Complete' /\ SharesAll'
<1>1. \A m : /\ OwnClasses(m)' = OwnClasses(m) /\ ImportedTokens(m)' = ImportedTokens(m)
             /\ \A t : Exporter(m, t)' = Exporter(m, t)
  BY SameGraph
<1>2. Bound' /\ RegisteredIsComplete'
  <2>1. Bound'
    BY DEF Complete, Bound
  <2>2. RegisteredIsComplete'
    BY <1>1 DEF Complete, RegisteredIsComplete
  <2>3. QED
    BY <2>1, <2>2
<1>3. \A f : Collecting(f) => Collecting(f)'
  BY DEF Collecting, Position, Provided
<1>4. ASSUME NEW x, NEW t, NEW v, Shares(x, t, v)
      PROVE  Shares(x, t, v)'
  BY <1>4 DEF Shares, Binding
<1>5. ASSUME NEW f, Sharing(f)
      PROVE  Sharing(f)'
  BY <1>1, <1>4, <1>5 DEF Sharing
<1>6. \A d \in Calls : \A f \in ToSet(stack'[d]) : Collecting(f)'
  BY <1>3 DEF Complete, Frames
<1>7. ASSUME Undisturbed'
      PROVE  /\ \A d \in Calls : \A f \in ToSet(stack'[d]) : Sharing(f)'
             /\ \A m \in Modules : registered'[m] # None =>
                  \A t \in ImportedTokens(m)' \ OwnClasses(m)' :
                      Shares(Exporter(m, t), t, Binding(m, t))'
  <2>1. \A d \in Calls : \A f \in ToSet(stack'[d]) : Sharing(f)'
    BY <1>5, <1>7 DEF SharesAll, Frames
  <2>2. ASSUME NEW m \in Modules, registered'[m] # None,
               NEW t \in ImportedTokens(m)' \ OwnClasses(m)'
        PROVE  Shares(Exporter(m, t), t, Binding(m, t))'
    <3>1. Shares(Exporter(m, t), t, Binding(m, t))
      BY <1>1, <1>7, <2>2 DEF SharesAll
    <3>2. Binding(m, t)' = Binding(m, t)
      BY DEF Binding
    <3>3. QED
      BY <1>1, <3>1, <3>2 DEF Shares, Binding
  <2>3. QED
    BY <2>1, <2>2
<1>8. Complete'
  BY <1>2, <1>6 DEF Complete
<1>9. SharesAll'
  BY <1>7 DEF SharesAll
<1>10. QED
  BY <1>8, <1>9

LEMMA FailComplete ==
  ASSUME Created, Complete, SharesAll, NEW c \in Calls, Fail(c)
  PROVE  Complete' /\ SharesAll'
<1>1. /\ \A d \in Calls : Frames(d, {})
      /\ UNCHANGED <<graph, injectors, registered, removes, overlapped>>
  BY FailFrames
<1>2. Undisturbed' => Undisturbed
  BY <1>1 DEF Undisturbed
<1>3. QED
  BY <1>1, <1>2, FramesStep

LEMMA ContinueComplete ==
  ASSUME Created, Complete, SharesAll, NEW c \in Calls, stack[c] # <<>>, NEW f, Continue(c, f),
         Collecting(f), Undisturbed => Sharing(f)
  PROVE  Complete' /\ SharesAll'
<1>1. /\ \A d \in Calls : Frames(d, {f})
      /\ UNCHANGED <<graph, injectors, registered, removes, overlapped>>
  BY ContinueFrames
<1>2. Undisturbed' => Undisturbed
  BY <1>1 DEF Undisturbed
<1>3. \A h \in {f} : Collecting(h) /\ (Undisturbed => Sharing(h))
  OBVIOUS
<1>4. QED
  BY <1>1, <1>2, <1>3, FramesStep

\* The innermost frame of a call.
LEMMA LastCollects ==
  ASSUME Created, Complete, SharesAll, NEW c \in Calls, stack[c] # <<>>
  PROVE  /\ graph \in Graphs /\ GoodFrame(graph, Last(stack[c]), metadata)
         /\ Last(stack[c]) \in ToSet(stack[c])
         /\ Collecting(Last(stack[c])) /\ (Undisturbed => Sharing(Last(stack[c])))
<1>1. PICK S : stack[c] \in Seq(S)
  BY DEF Created, GoodStack
<1>2. Last(stack[c]) \in ToSet(stack[c])
  BY <1>1, LastIsFrame
<1>3. QED
  BY <1>2, LastFrame DEF Created, Complete, SharesAll

LEMMA TakeExportsComplete ==
  ASSUME Created, Complete, SharesAll, NEW c \in Calls, stack[c] # <<>>,
         Last(stack[c]).todo # <<>>, TakeExports(c, Last(stack[c]))
  PROVE  Complete' /\ SharesAll'
<1> DEFINE f == Last(stack[c])
           x == Head(f.todo)
<1>1. CASE Fail(c)
  BY <1>1, FailComplete
<1>2. CASE ~Fail(c)
  <2>1. /\ Continue(c, Taking(f))
        /\ graph.exports[x] # <<>> => registered[x] # None
    BY <1>2 DEF TakeExports, Taking
  <2> HIDE DEF f
  <2>2. /\ graph \in Graphs /\ GoodFrame(graph, f, metadata) /\ Bound
        /\ Collecting(f) /\ (Undisturbed => Sharing(f)) /\ f.todo # <<>>
    BY LastCollects DEF f, Complete
  <2>3. Collecting(Taking(f)) /\ (Sharing(f) => Sharing(Taking(f)))
    BY <2>1, <2>2, TakingFacts
  <2>4. QED
    BY <2>1, <2>2, <2>3, ContinueComplete
<1>3. QED
  BY <1>1, <1>2

LEMMA ImportNextComplete ==
  ASSUME Created, Complete, SharesAll, NEW c \in Calls, ImportNext(c)
  PROVE  Complete' /\ SharesAll'
<1> DEFINE f == Last(stack[c])
<1>1. stack[c] # <<>>
  BY DEF ImportNext, Synchronous
<1>2. /\ graph \in Graphs /\ GoodFrame(graph, f, metadata)
      /\ Collecting(f) /\ (Undisturbed => Sharing(f))
  BY <1>1, LastCollects
<1>3. CASE f.todo = <<>>
  <2>1. PICK h : h = [f EXCEPT !.at = "ready"]
    OBVIOUS
  <2>2. Continue(c, h)
    BY <1>3, <2>1 DEF ImportNext
  <2>3. h.mod = f.mod /\ h.todo = f.todo /\ h.items = f.items
    BY <1>2, <2>1 DEF GoodFrame
  <2> HIDE DEF f
  <2>4. Collecting(h) /\ (Undisturbed => Sharing(h))
    BY <1>2, <2>3, SameFrame
  <2>5. QED
    BY <1>1, <2>2, <2>4, ContinueComplete
<1>4. CASE f.todo # <<>> /\ registered[Head(f.todo)] # None
  <2>1. TakeExports(c, f)
    BY <1>4 DEF ImportNext
  <2>2. QED
    BY <1>1, <1>4, <2>1, TakeExportsComplete
<1>5. CASE f.todo # <<>> /\ registered[Head(f.todo)] = None
  <2>1. PICK h, n, t : h = [f EXCEPT !.at = "import"] /\ n = NewFrame(Head(f.todo))
                       /\ t = Append(Append(Front(stack[c]), h), n)
    OBVIOUS
  <2>2. /\ stack' = [stack EXCEPT ![c] = t]
        /\ UNCHANGED <<graph, injectors, registered, metadata, status, removes, overlapped>>
    BY <1>5, <2>1 DEF ImportNext
  <2>3. h.mod = f.mod /\ h.todo = f.todo /\ h.items = f.items
    BY <1>2, <2>1 DEF GoodFrame
  <2>4. Head(f.todo) \in Modules
    BY <1>2, <1>5, HeadTailProperties DEF GoodFrame
  <2>5. Collecting(n) /\ Sharing(n)
    BY <1>2, <2>1, <2>4, NewFrameCollects
  <2>6. ToSet(t) \subseteq ToSet(stack[c]) \cup {h, n}
    <3>1. PICK S : stack[c] \in Seq(S)
      BY DEF Created, GoodStack
    <3>2. PICK r \in Seq(S) : r = Front(stack[c]) /\ ToSet(r) \subseteq ToSet(stack[c])
      BY <1>1, <3>1, FrontFrames
    <3>3. Append(r, h) \in Seq(S \cup {h}) /\ ToSet(Append(r, h)) = ToSet(r) \cup {h}
      BY <3>2, AppendFrame
    <3>4. PICK U, q : U = S \cup {h} /\ q \in Seq(U) /\ q = Append(r, h)
      BY <3>3
    <3>5. ToSet(Append(q, n)) = ToSet(q) \cup {n}
      <4>1. q \in Seq(U)
        BY <3>4
      <4>2. QED
        BY ONLY <4>1, AppendFrame
    <3>6. t = Append(q, n)
      BY <2>1, <3>2, <3>4
    <3>7. QED
      BY <3>2, <3>3, <3>4, <3>5, <3>6
  <2> HIDE DEF f
  <2>7. Collecting(h) /\ (Undisturbed => Sharing(h))
    BY <1>2, <2>3, SameFrame
  <2>8. \A d \in Calls : Frames(d, {h, n})
    <3>1. stack'[c] = t /\ \A d \in Calls : d # c => stack'[d] = stack[d]
      BY <2>2 DEF Created
    <3>2. QED
      BY <2>6, <3>1 DEF Frames
  <2>9. Undisturbed' => Undisturbed
    BY <2>2 DEF Undisturbed
  <2>10. \A e \in {h, n} : Collecting(e) /\ (Undisturbed => Sharing(e))
    BY <2>5, <2>7
  <2>11. QED
    BY <2>2, <2>8, <2>9, <2>10, FramesStep
<1>6. QED
  BY <1>3, <1>4, <1>5

LEMMA StartComplete ==
  ASSUME Created, Complete, SharesAll, NEW c \in Calls, NEW m \in Modules, Start(c, m)
  PROVE  Complete' /\ SharesAll'
<1>1. UNCHANGED <<graph, injectors, registered, removes>> /\ (overlapped => overlapped')
  BY DEF Start
<1>2. stack' = stack \/ stack' = [stack EXCEPT ![c] = <<NewFrame(m)>>]
  BY DEF Start
<1>3. Collecting(NewFrame(m)) /\ Sharing(NewFrame(m))
  BY NewFrameCollects DEF Created
<1>4. ToSet(<<NewFrame(m)>>) = {NewFrame(m)}
  <2>1. PICK f : f = NewFrame(m)
    OBVIOUS
  <2>2. <<f>> \in Seq({f}) /\ Len(<<f>>) = 1 /\ <<f>>[1] = f
    OBVIOUS
  <2>3. PICK s \in Seq({f}) : s = <<f>>
    BY <2>2
  <2>4. ToSet(s) = {s[i] : i \in 1 .. Len(s)}
    BY ToSetIndices
  <2>5. ToSet(s) = {f}
    BY <2>2, <2>3, <2>4
  <2>6. QED
    BY <2>1, <2>3, <2>5
<1>5. \A d \in Calls : Frames(d, {NewFrame(m)})
  BY <1>2, <1>4 DEF Frames, Created
<1>6. Undisturbed' => Undisturbed
  BY <1>1 DEF Undisturbed
<1>7. QED
  BY <1>1, <1>3, <1>5, <1>6, FramesStep

\* What a frame that is done with its imports has collected is all they export.
LEMMA AllCollected ==
  ASSUME graph \in Graphs, NEW f, f.mod \in Modules, Collecting(f), f.todo = <<>>,
         NEW t \in ImportedTokens(f.mod)
  PROVE  t \in Provided(f.mod, f.items)
<1>1. PICK x \in ToSet(graph.imports[f.mod]) : t \in ToSet(graph.exports[x])
  BY DEF ImportedTokens
<1>2. /\ Len(graph.imports[f.mod]) \in Nat /\ graph.imports[f.mod] \in Seq(Modules)
  BY GraphFacts
<1>3. PICK q \in 1 .. Len(graph.imports[f.mod]) : x = graph.imports[f.mod][q]
  BY <1>1, <1>2, ToSetIndices
<1>4. Position(f) = Len(graph.imports[f.mod])
  <2>1. Len(f.todo) = 0
    OBVIOUS
  <2>2. QED
    BY <1>2, <2>1 DEF Position
<1>5. q \in 1 .. Position(f)
  BY <1>4
<1>6. QED
  BY <1>1, <1>3, <1>5 DEF Collecting

LEMMA RegisterComplete ==
  ASSUME Created, Once, Complete, SharesAll, NEW c \in Calls, Register(c)
  PROVE  Complete' /\ SharesAll'
<1> DEFINE f == Last(stack[c])
           m == f.mod
           n == Len(injectors) + 1
           binds == CreateProviders(n, m, f.items)
<1>1. stack[c] # <<>> /\ f.at = "ready"
  BY DEF Register
<1>2. /\ graph \in Graphs /\ GoodFrame(graph, f, metadata) /\ f \in ToSet(stack[c])
      /\ Collecting(f) /\ (Undisturbed => Sharing(f))
  BY <1>1, LastCollects
<1>3. m \in Modules /\ f.todo = <<>> /\ f.items \in Seq(Item)
  BY <1>1, <1>2 DEF GoodFrame, Collecting
<1>4. CASE binds = None
  BY <1>4, FailComplete DEF Register
<1>5. CASE binds # None
  <2>1. /\ injectors' = Append(injectors, [mod |-> m, binds |-> binds])
        /\ registered' = [registered EXCEPT ![m] = n]
        /\ stack' = [stack EXCEPT ![c] = Front(stack[c])]
        /\ UNCHANGED <<graph, removes, overlapped>>
    BY <1>5 DEF Register
  <2>2. injectors \in Seq([mod : Modules, binds : Binds]) /\ Len(injectors) \in Nat /\ n \in Nat
    <3>1. injectors \in Seq([mod : Modules, binds : Binds])
      BY DEF Complete, Bound
    <3>2. Len(injectors) \in Nat
      BY <3>1, LenProperties
    <3>3. QED
      BY <3>1, <3>2
  <2>3. IsCreated(n, m, f.items, binds)
    <3> HIDE DEF f, n
    <3>1. QED
      BY <1>2, <1>3, <1>5, <2>2, CreateFacts
  <2>4. PICK new : new = [mod |-> m, binds |-> binds]
    OBVIOUS
  <2>5. new.mod = m /\ new.binds = binds /\ new \in [mod : Modules, binds : Binds]
    BY <1>3, <2>3, <2>4 DEF IsCreated
  <2> HIDE DEF f, binds, n
  <2>6. /\ injectors' \in Seq([mod : Modules, binds : Binds]) /\ Len(injectors') = Len(injectors) + 1
        /\ injectors'[Len(injectors) + 1] = new
        /\ \A i \in 1 .. Len(injectors) : injectors'[i] = injectors[i]
    BY <2>1, <2>2, <2>4, <2>5, AppendProperties
  <2>7. /\ registered'[m] = n /\ n \in 1 .. Len(injectors') /\ injectors'[n] = new
        /\ \A x \in Modules \ {m} : registered'[x] = registered[x]
    BY <1>3, <2>1, <2>2, <2>6 DEF Created, n
  <2>8. \A x \in Modules \ {m} : registered[x] # None =>
            registered[x] \in 1 .. Len(injectors) /\ injectors'[registered'[x]] = injectors[registered[x]]
    BY <2>6, <2>7 DEF Complete, Bound
  <2>9. \A t \in ImportedTokens(m) : t \in Tokens /\ binds[t] # None
    <3> SUFFICES ASSUME NEW t \in ImportedTokens(m)
                 PROVE  t \in Tokens /\ binds[t] # None
      OBVIOUS
    <3>1. t \in Provided(m, f.items)
      BY <1>2, <1>3, AllCollected
    <3>2. CASE t \in ToSet(graph.providers[m])
      <4>1. t \in OwnClasses(m) /\ t \in Tokens
        BY <1>2, <1>3, <3>2, OwnFacts
      <4>2. binds[t] = [by |-> n, token |-> t]
        BY <2>3, <4>1 DEF IsCreated
      <4>3. [by |-> n, token |-> t] \in Instance
        BY <2>2, <4>1 DEF Instance
      <4>4. QED
        BY <4>1, <4>2, <4>3, NoneIsNothing
    <3>3. ASSUME NEW i \in ToSet(f.items), i.token = t
          PROVE  t \in Tokens /\ binds[t] # None
      <4>1. i \in Item
        BY <1>3, ToSetIndices
      <4>2. QED
        BY <2>3, <3>3, <4>1 DEF IsCreated, Item
    <3>4. QED
      BY <3>1, <3>2, <3>3 DEF Provided
  <2>10. \A x : /\ OwnClasses(x)' = OwnClasses(x) /\ ImportedTokens(x)' = ImportedTokens(x)
                /\ \A t : Exporter(x, t)' = Exporter(x, t)
    BY <2>1, SameGraph
  <2>11. Bound'
    <3>1. ASSUME NEW x \in Modules, registered'[x] # None
          PROVE  registered'[x] \in 1 .. Len(injectors')
      <4>1. CASE x = m
        BY <2>7, <4>1
      <4>2. CASE x # m
        <5>1. registered'[x] \in 1 .. Len(injectors)
          BY <2>7, <2>8, <3>1, <4>2
        <5>2. QED
          BY <2>2, <2>6, <5>1
      <4>3. QED
        BY <4>1, <4>2
    <3>2. QED
      BY <2>6, <3>1 DEF Bound
  <2>12. RegisteredIsComplete'
    <3> SUFFICES ASSUME NEW x \in Modules, registered'[x] # None
                 PROVE  /\ injectors'[registered'[x]].mod = x
                        /\ \A t \in OwnClasses(x) : injectors'[registered'[x]].binds[t] =
                               [by |-> registered'[x], token |-> t]
                        /\ \A t \in ImportedTokens(x) : injectors'[registered'[x]].binds[t] # None
      BY <2>10 DEF RegisteredIsComplete
    <3>1. CASE x = m
      BY <2>3, <2>5, <2>7, <2>9, <3>1 DEF IsCreated
    <3>2. CASE x # m
      BY <2>7, <2>8, <3>2 DEF Complete, RegisteredIsComplete
    <3>3. QED
      BY <3>1, <3>2
  <2>13. \A d \in Calls : ToSet(stack'[d]) \subseteq ToSet(stack[d])
    <3>1. PICK S : stack[c] \in Seq(S)
      BY DEF Created, GoodStack
    <3>2. ToSet(Front(stack[c])) \subseteq ToSet(stack[c])
      BY <1>1, <3>1, FrontFrames
    <3>3. stack'[c] = Front(stack[c]) /\ \A d \in Calls : d # c => stack'[d] = stack[d]
      BY <2>1 DEF Created
    <3>4. QED
      BY <3>2, <3>3
  <2>14. \A h : Collecting(h) => Collecting(h)'
    BY <2>1 DEF Collecting, Position, Provided
  <2>15. Complete'
    BY <2>11, <2>12, <2>13, <2>14 DEF Complete
  <2>16. ASSUME Undisturbed'
         PROVE  /\ \A d \in Calls : \A h \in ToSet(stack'[d]) : Sharing(h)'
                /\ \A x \in Modules : registered'[x] # None =>
                     \A t \in ImportedTokens(x)' \ OwnClasses(x)' :
                         Shares(Exporter(x, t), t, Binding(x, t))'
    <3>1. Undisturbed
      BY <2>1, <2>16 DEF Undisturbed
    <3>2. registered[m] = None
      <4>1. Len(stack[c]) \in 1 .. Len(stack[c]) /\ f = stack[c][Len(stack[c])]
        <5>1. Len(stack[c]) \in Nat \ {0} /\ f = stack[c][Len(stack[c])]
          BY <1>1, LastFrame DEF f
        <5>2. QED
          BY <5>1
      <4>2. QED
        BY <3>1, <4>1 DEF Once
    <3>3. ASSUME NEW x, NEW t, NEW v, Shares(x, t, v)
          PROVE  Shares(x, t, v)'
      <4>1. x \in Modules \ {m}
        BY <3>2, <3>3 DEF Shares
      <4>2. registered'[x] = registered[x] /\ injectors'[registered'[x]] = injectors[registered[x]]
        BY <2>7, <2>8, <3>3, <4>1 DEF Shares
      <4>3. QED
        BY <3>3, <4>2 DEF Shares, Binding
    <3>4. ASSUME NEW h, Sharing(h)
          PROVE  Sharing(h)'
      BY <2>10, <3>3, <3>4 DEF Sharing
    <3>5. \A d \in Calls : \A h \in ToSet(stack'[d]) : Sharing(h)'
      BY <2>13, <3>1, <3>4 DEF SharesAll
    <3>6. ASSUME NEW x \in Modules, registered'[x] # None,
                 NEW t \in ImportedTokens(x)' \ OwnClasses(x)'
          PROVE  Shares(Exporter(x, t), t, Binding(x, t))'
      <4>1. t \in ImportedTokens(x) /\ t \notin OwnClasses(x) /\ Exporter(x, t)' = Exporter(x, t)
        BY <2>10, <3>6
      <4>2. CASE x = m
        <5>1. t \in Tokens /\ binds[t] # None
          BY <2>9, <4>1, <4>2
        <5>2. PICK i \in ToSet(f.items) : i.token = t /\ binds[t] = i.value
          BY <2>3, <4>1, <4>2, <5>1 DEF IsCreated
        <5>3. Shares(Exporter(m, t), t, binds[t])
          BY <1>2, <3>1, <5>2 DEF Sharing
        <5>4. PICK e, v : e = Exporter(x, t) /\ v = binds[t]
          OBVIOUS
        <5>5. Shares(e, t, v)'
          BY <3>3, <4>2, <5>3, <5>4
        <5>6. Binding(x, t)' = v
          <6>1. injectors'[registered'[x]].binds = binds
            BY <2>5, <2>7, <4>2
          <6>2. Binding(x, t)' = IF injectors'[registered'[x]].binds[t] # None
                                 THEN injectors'[registered'[x]].binds[t]
                                 ELSE [by |-> 0, token |-> t]
            BY DEF Binding, Get
          <6>3. QED
            BY <5>1, <5>4, <6>1, <6>2
        <5>7. QED
          BY <4>1, <5>4, <5>5, <5>6 DEF Shares
      <4>3. CASE x # m
        <5>1. /\ registered[x] # None /\ registered'[x] = registered[x]
              /\ injectors'[registered'[x]] = injectors[registered[x]]
          BY <2>7, <2>8, <3>6, <4>3
        <5>2. Binding(x, t)' = Binding(x, t)
          BY <5>1 DEF Binding
        <5>3. PICK e, v : e = Exporter(x, t) /\ v = Binding(x, t)
          OBVIOUS
        <5>4. Shares(e, t, v)'
          BY <3>1, <3>3, <4>1, <5>1, <5>3 DEF SharesAll
        <5>5. QED
          BY <4>1, <5>2, <5>3, <5>4 DEF Shares
      <4>4. QED
        BY <4>2, <4>3
    <3>7. QED
      BY <3>5, <3>6
  <2>17. SharesAll'
    BY <2>16 DEF SharesAll
  <2>18. QED
    BY <2>15, <2>17
<1>6. QED
  BY <1>4, <1>5

LEMMA RemoveComplete ==
  ASSUME Created, Once, Complete, NEW m \in Modules, RemoveModule(m)
  PROVE  Complete' /\ SharesAll'
<1>1. /\ registered[m] # None /\ removes' = removes + 1
      /\ injectors' = [injectors EXCEPT ![registered[m]].binds = Nothing]
      /\ registered' = [registered EXCEPT ![m] = None]
      /\ UNCHANGED <<graph, metadata, stack, status, overlapped>>
  BY DEF RemoveModule
<1>2. /\ injectors \in Seq([mod : Modules, binds : Binds]) /\ Len(injectors) \in Nat
      /\ DOMAIN injectors = 1 .. Len(injectors)
      /\ \A i \in 1 .. Len(injectors) : injectors[i] \in [mod : Modules, binds : Binds]
      /\ \A x \in Modules : registered[x] # None => registered[x] \in 1 .. Len(injectors)
  BY LenProperties, ElementOfSeq DEF Complete, Bound
<1>3. PICK n \in 1 .. Len(injectors) : n = registered[m]
  BY <1>1, <1>2
<1>4. PICK new : new = [injectors[n] EXCEPT !.binds = Nothing]
  OBVIOUS
<1>5. injectors' = [injectors EXCEPT ![n] = new] /\ new \in [mod : Modules, binds : Binds]
  <2>1. injectors[n] \in [mod : Modules, binds : Binds]
    BY <1>2
  <2>2. new \in [mod : Modules, binds : Binds]
    BY <1>4, <2>1, NoneIsNothing
  <2>3. injectors' = [injectors EXCEPT ![n] = new]
    BY <1>1, <1>3, <1>4
  <2>4. QED
    BY <2>2, <2>3
<1>6. /\ injectors' \in Seq([mod : Modules, binds : Binds]) /\ Len(injectors') = Len(injectors)
      /\ \A i \in 1 .. Len(injectors) : i # n => injectors'[i] = injectors[i]
  BY <1>2, <1>5, ExceptSeq
<1>7. \A x \in Modules : registered'[x] # None =>
          x # m /\ registered'[x] = registered[x] /\ registered[x] # None
  BY <1>1 DEF Created
<1>8. \A x \in Modules : registered'[x] # None =>
          /\ registered'[x] \in 1 .. Len(injectors)
          /\ injectors'[registered'[x]] = injectors[registered[x]]
  <2> SUFFICES ASSUME NEW x \in Modules, registered'[x] # None
               PROVE  /\ registered'[x] \in 1 .. Len(injectors)
                      /\ injectors'[registered'[x]] = injectors[registered[x]]
    OBVIOUS
  <2>1. x # m /\ registered'[x] = registered[x] /\ registered[x] \in 1 .. Len(injectors)
    BY <1>2, <1>7
  <2>2. injectors[registered[x]].mod = x /\ injectors[n].mod = m
    BY <1>1, <1>3, <1>7 DEF Complete, RegisteredIsComplete
  <2>3. registered[x] # n
    BY <2>1, <2>2
  <2>4. QED
    BY <1>6, <2>1, <2>3
<1>9. \A x : OwnClasses(x)' = OwnClasses(x) /\ ImportedTokens(x)' = ImportedTokens(x)
  BY <1>1, SameGraph
<1>10. Bound'
  BY <1>6, <1>8 DEF Bound
<1>11. RegisteredIsComplete'
  BY <1>7, <1>8, <1>9 DEF Complete, RegisteredIsComplete
<1>12. \A h : Collecting(h) => Collecting(h)'
  BY <1>1 DEF Collecting, Position, Provided
<1>13. Complete'
  BY <1>1, <1>10, <1>11, <1>12 DEF Complete
<1>14. ~Undisturbed'
  BY <1>1 DEF Once, Undisturbed
<1>15. QED
  BY <1>13, <1>14 DEF SharesAll

LEMMA CompleteStep ==
  ASSUME Created, Once, Complete, SharesAll, [Next]_vars
  PROVE  Complete' /\ SharesAll'
<1>1. ASSUME NEW c \in Calls, ImportNext(c)
      PROVE  Complete' /\ SharesAll'
  BY <1>1, ImportNextComplete
<1>2. ASSUME NEW c \in Calls, Imported(c)
      PROVE  Complete' /\ SharesAll'
  <2>1. /\ stack[c] # <<>> /\ Last(stack[c]).at = "import"
        /\ TakeExports(c, Last(stack[c]))
    BY <1>2 DEF Imported
  <2>2. Last(stack[c]).todo # <<>>
    BY <2>1, LastFrame DEF GoodFrame
  <2>3. QED
    BY <2>1, <2>2, TakeExportsComplete
<1>3. ASSUME NEW c \in Calls, Register(c)
      PROVE  Complete' /\ SharesAll'
  BY <1>3, RegisterComplete
<1>4. ASSUME NEW c \in Calls, Throw(c)
      PROVE  Complete' /\ SharesAll'
  BY <1>4, FailComplete DEF Throw
<1>5. ASSUME NEW c \in Calls, NEW m \in Modules, Start(c, m)
      PROVE  Complete' /\ SharesAll'
  BY <1>5, StartComplete
<1>6. ASSUME NEW m \in Modules, RemoveModule(m)
      PROVE  Complete' /\ SharesAll'
  BY <1>6, RemoveComplete
<1>7. CASE UNCHANGED vars
  <2>1. UNCHANGED <<graph, injectors, registered, removes, stack, overlapped>>
    BY <1>7 DEF vars
  <2>2. \A d \in Calls : Frames(d, {})
    BY <2>1 DEF Frames
  <2>3. Undisturbed' => Undisturbed
    BY <2>1 DEF Undisturbed
  <2>4. QED
    BY <2>1, <2>2, <2>3, FramesStep
<1>8. QED
  BY <1>1, <1>2, <1>3, <1>4, <1>5, <1>6, <1>7 DEF Next

LEMMA CompleteInit ==
  ASSUME Init
  PROVE  Complete /\ SharesAll
<1>1. ToSet(<<>>) = {}
  BY DEF ToSet
<1>2. <<>> \in Seq([mod : Modules, binds : Binds])
  OBVIOUS
<1>3. injectors = <<>> /\ \A m \in Modules : registered[m] = None
  BY DEF Init
<1>4. \A c \in Calls : ToSet(stack[c]) = {}
  BY <1>1 DEF Init
<1>5. Bound
  BY <1>2, <1>3 DEF Bound
<1>6. RegisteredIsComplete
  BY <1>3 DEF RegisteredIsComplete
<1>7. QED
  BY <1>3, <1>4, <1>5, <1>6 DEF Complete, SharesAll

LEMMA CompleteInvariant == Spec => [](Created /\ Once /\ Complete /\ SharesAll)
<1>1. ASSUME Created /\ Once /\ Complete /\ SharesAll, [Next]_vars
      PROVE  (Created /\ Once /\ Complete /\ SharesAll)'
  <2>1. Created' /\ Once'
    BY <1>1, InvariantStep
  <2>2. Complete' /\ SharesAll'
    BY <1>1, CompleteStep
  <2>3. QED
    BY <2>1, <2>2
<1>2. Init => Created /\ Once /\ Complete /\ SharesAll
  BY InvariantInit, CompleteInit
<1>3. QED
  BY <1>1, <1>2, PTL DEF Spec

\* For every set of acyclic graphs, and whatever calls, failures and removals
\* interleave: a registered module has an instance of its own of every class
\* that its own providers are or need, and everything it imports is bound.
THEOREM ModulesComplete == Spec => []RegisteredIsComplete
<1>1. Complete => RegisteredIsComplete
  BY DEF Complete
<1>2. QED
  BY <1>1, CompleteInvariant, PTL

\* As long as callers do not overlap and no module is removed, what a module
\* imports and does not create itself is the instance of the first import
\* that exports it, at any distance along the imports.
THEOREM ModulesShareReferences == Spec => []SharedReference
<1>1. ASSUME SharesAll
      PROVE  SharedReference
  BY <1>1 DEF SharesAll, SharedReference, Shares
<1>2. QED
  BY <1>1, CompleteInvariant, PTL

-----------------------------------------------------------------------------
(* SyncModuleInjector                                                      *)

\* What the first imports of m leave, and what was imported from them.
IsRun(create, st, m, run) ==
    /\ run[0] = [st |-> st, items |-> <<>>]
    /\ \A k \in Nat : k < Len(graph.imports[m]) =>
           run[k + 1] = SyncImport(create, run[k], m, graph.imports[m][k + 1])
    /\ SyncImports(create, st, m) = run[Len(graph.imports[m])]

LEMMA ImportsRun ==
  ASSUME graph \in Graphs, NEW create, NEW st, NEW m \in Modules
  PROVE  \E run : IsRun(create, st, m, run)
<1> DEFINE seq == graph.imports[m]
           base == [st |-> st, items |-> <<>>]
           Step(r, x) == SyncImport(create, r, m, x)
           Body(iter) == [s \in SUBSET DOMAIN seq |-> IF s = {} THEN base
                ELSE SyncImport(create, iter[s \ {Latest(s)}], m, seq[Latest(s)])]
           it == CHOOSE iter : iter = Body(iter)
           n == Len(seq)
<1>1. SyncImports(create, st, m) = it[DOMAIN seq]
  BY Zenon DEF SyncImports, FoldLeft, MapThenFoldSet, Max, Latest
<1>2. n \in Nat /\ DOMAIN seq = 1 .. n
  BY GraphFacts, LenProperties
<1> HIDE DEF seq, n, base
<1>3. \E iter : iter = Body(iter)
  <2> DEFINE Good(k, iter) == \A s \in SUBSET (1 .. k) :
                 iter[s] = IF s = {} THEN base ELSE Step(iter[s \ {Latest(s)}], seq[Latest(s)])
             Has(k) == \E iter : iter = [s \in SUBSET (1 .. k) |-> iter[s]] /\ Good(k, iter)
             G == {k \in Nat : Has(k)}
  <2> HIDE DEF Step
  <2>1. 0 \in G
    <3>1. PICK iter : iter = [s \in SUBSET (1 .. 0) |-> base]
      OBVIOUS
    <3>2. \A s \in SUBSET (1 .. 0) : s = {}
      OBVIOUS
    <3>3. Good(0, iter) /\ iter = [s \in SUBSET (1 .. 0) |-> iter[s]]
      BY <3>1, <3>2
    <3>4. QED
      BY <3>3
  <2>2. ASSUME NEW k \in G
        PROVE  k + 1 \in G
    <3>1. PICK iter : Good(k, iter)
      OBVIOUS
    <3>2. PICK next : next = [s \in SUBSET (1 .. k + 1) |->
                        IF k + 1 \in s THEN Step(iter[s \ {k + 1}], seq[k + 1]) ELSE iter[s]]
      OBVIOUS
    <3>3. ASSUME NEW s \in SUBSET (1 .. k + 1), k + 1 \notin s
          PROVE  s \in SUBSET (1 .. k) /\ next[s] = iter[s]
      BY <3>2, <3>3
    <3>4. ASSUME NEW s \in SUBSET (1 .. k + 1), k + 1 \in s
          PROVE  /\ s \ {k + 1} \in SUBSET (1 .. k) /\ Latest(s) = k + 1
                 /\ next[s] = Step(iter[s \ {k + 1}], seq[k + 1])
      <4>1. \A x \in s : (\A y \in s : x >= y) => x = k + 1
        BY <3>4
      <4>2. \A y \in s : k + 1 >= y
        OBVIOUS
      <4>3. Latest(s) = k + 1
        BY <3>4, <4>1, <4>2 DEF Latest
      <4>4. QED
        BY <3>2, <3>4, <4>3
    <3>5. ASSUME NEW s \in SUBSET (1 .. k + 1)
          PROVE  next[s] = IF s = {} THEN base ELSE Step(next[s \ {Latest(s)}], seq[Latest(s)])
      <4>1. CASE k + 1 \in s
        <5>1. next[s \ {k + 1}] = iter[s \ {k + 1}]
          BY <3>3
        <5>2. QED
          BY <3>4, <4>1, <5>1
      <4>2. CASE k + 1 \notin s /\ s # {}
        <5>1. s \in SUBSET (1 .. k) /\ next[s] = iter[s]
          BY <3>3, <4>2
        <5>2. next[s \ {Latest(s)}] = iter[s \ {Latest(s)}]
          BY <3>3, <4>2
        <5>3. QED
          BY <3>1, <4>2, <5>1, <5>2
      <4>3. CASE s = {}
        BY <3>1, <3>3, <4>3
      <4>4. QED
        BY <4>1, <4>2, <4>3
    <3>6. Good(k + 1, next)
      BY <3>5
    <3>7. next = [s \in SUBSET (1 .. k + 1) |-> next[s]]
      BY <3>2
    <3>8. Has(k + 1)
      <4> HIDE DEF Good
      <4>1. QED
        BY <3>6, <3>7
    <3> HIDE DEF Has
    <3>9. QED
      BY <3>8
  <2>3. G = Nat
    <3> HIDE DEF G
    <3>1. G \in SUBSET Nat
      BY DEF G
    <3>2. QED
      BY <2>1, <2>2, <3>1, Induction
  <2>4. PICK iter : iter = [s \in SUBSET (1 .. n) |-> iter[s]] /\ Good(n, iter)
    <3>1. Has(n)
      <4> HIDE DEF Has
      <4>1. QED
        BY <1>2, <2>3
    <3>2. QED
      BY <3>1
  <2>5. iter = Body(iter)
    BY <1>2, <2>4 DEF Step
  <2>6. QED
    BY <2>5
<1>4. it = Body(it)
  BY <1>3
<1> HIDE DEF it
<1>5. PICK run : run = [k \in 0 .. n |-> it[1 .. k]]
  OBVIOUS
<1>6. run[0] = base
  <2>1. 1 .. 0 = {} /\ it[{}] = base
    BY <1>4
  <2>2. QED
    BY <1>2, <1>5, <2>1
<1>7. ASSUME NEW k \in Nat, k < n
      PROVE  run[k + 1] = SyncImport(create, run[k], m, seq[k + 1])
  <2>1. Latest(1 .. k + 1) = k + 1 /\ (1 .. k + 1) \ {k + 1} = 1 .. k
    BY LatestOfSegment
  <2>2. 1 .. k + 1 \in SUBSET DOMAIN seq /\ 1 .. k + 1 # {}
    BY <1>2, <1>7
  <2>3. it[1 .. k + 1] = SyncImport(create, it[1 .. k], m, seq[k + 1])
    BY <1>4, <2>1, <2>2
  <2>4. run[k] = it[1 .. k] /\ run[k + 1] = it[1 .. k + 1]
    BY <1>2, <1>5, <1>7
  <2>5. QED
    BY <2>3, <2>4
<1>8. SyncImports(create, st, m) = run[n]
  BY <1>1, <1>2, <1>5
<1>9. IsRun(create, st, m, run)
  BY <1>6, <1>7, <1>8 DEF IsRun, seq, n, base
<1>10. QED
  BY <1>9

\* SyncCreated, one level after the other.
Level(n, create) ==
    [st \in SyncState |-> [m \in Modules |->
        IF n = 0 THEN [st EXCEPT !.threw = TRUE] ELSE SyncCreate(create, st, m)]]

IsSync(created) ==
    /\ created = [n \in 0 .. Cardinality(Modules) |-> created[n]]
    /\ \A n \in 0 .. Cardinality(Modules) : created[n] = Level(n, created[n - 1])

LEMMA FirstLevel == \A c, d : Level(0, c) = Level(0, d)
BY DEF Level

LEMMA SyncCreatedIs == IsSync(SyncCreated)
<1> DEFINE Body(c) == [n \in 0 .. Cardinality(Modules) |-> [st \in SyncState |-> [m \in Modules |->
               IF n = 0 THEN [st EXCEPT !.threw = TRUE] ELSE SyncCreate(c[n - 1], st, m)]]]
           Has(k) == \E c : /\ c = [n \in 0 .. k |-> c[n]]
                            /\ \A n \in 0 .. k : c[n] = Level(n, c[n - 1])
           G == {k \in Nat : Has(k)}
<1>1. Cardinality(Modules) \in Nat
  BY ModuleAssumption, FS_CardinalityType
<1> DEFINE N == Cardinality(Modules)
<1>2. 0 \in G
  <2>1. PICK c : c = [n \in 0 .. 0 |-> Level(0, 0)]
    OBVIOUS
  <2>2. c = [n \in 0 .. 0 |-> c[n]] /\ \A n \in 0 .. 0 : c[n] = Level(n, c[n - 1])
    BY <2>1, FirstLevel
  <2>3. QED
    BY <2>2
<1>3. ASSUME NEW k \in G
      PROVE  k + 1 \in G
  <2> HIDE DEF Body
  <2>1. PICK c : \A n \in 0 .. k : c[n] = Level(n, c[n - 1])
    OBVIOUS
  <2>2. PICK d : d = [n \in 0 .. k + 1 |-> IF n = k + 1 THEN Level(n, c[k]) ELSE c[n]]
    OBVIOUS
  <2>4. ASSUME NEW n \in 0 .. k + 1
        PROVE  d[n] = Level(n, d[n - 1])
    <3>1. CASE n = k + 1
      <4>1. d[n - 1] = c[k] /\ d[n] = Level(n, c[k])
        BY <2>2, <3>1
      <4>2. QED
        BY <4>1
    <3>2. CASE n # k + 1 /\ n # 0
      <4>1. n \in 0 .. k /\ d[n - 1] = c[n - 1] /\ d[n] = c[n]
        BY <2>2, <3>2
      <4>2. QED
        BY <2>1, <4>1
    <3>3. CASE n = 0
      <4>1. n \in 0 .. k /\ d[n] = c[n]
        BY <2>2, <3>3
      <4>2. c[n] = Level(0, c[n - 1])
        BY <2>1, <3>3, <4>1
      <4>3. QED
        BY <3>3, <4>1, <4>2, FirstLevel
    <3>4. QED
      BY <3>1, <3>2, <3>3
  <2>5. d = [n \in 0 .. k + 1 |-> d[n]]
    BY <2>2
  <2>6. Has(k + 1)
    BY <2>4, <2>5
  <2> HIDE DEF Has
  <2>7. QED
    BY <2>6
<1>4. G = Nat
  <2> HIDE DEF G
  <2>1. G \in SUBSET Nat
    BY DEF G
  <2>2. QED
    BY <1>2, <1>3, <2>1, Induction
<1>5. PICK c : c = [n \in 0 .. N |-> c[n]] /\ \A n \in 0 .. N : c[n] = Level(n, c[n - 1])
  <2>1. Has(N)
    <3> HIDE DEF Has
    <3>1. QED
      BY <1>1, <1>4
  <2>2. QED
    BY <2>1
<1>6. c = Body(c)
  BY <1>5 DEF Level
<1>7. SyncCreated = CHOOSE f : f = Body(f)
  BY Zenon DEF SyncCreated
<1>8. SyncCreated = Body(SyncCreated)
  <2> HIDE DEF Body
  <2>1. QED
    BY <1>6, <1>7
<1> HIDE DEF N
<1>9. PICK f : f = SyncCreated
  OBVIOUS
<1>10. f = Body(f)
  BY <1>8, <1>9
<1>11. IsSync(f)
  BY <1>10 DEF IsSync, Level
<1>12. QED
  BY <1>9, <1>11

LEMMA SameProviders ==
  ASSUME graph' = graph
  PROVE  /\ \A m, items, seq : ShiftLeft(m, items, seq)' = ShiftLeft(m, items, seq)
         /\ \A n, m, items : CreateProviders(n, m, items)' = CreateProviders(n, m, items)
<1>1. \A m, items, seq : ShiftLeft(m, items, seq)' = ShiftLeft(m, items, seq)
  BY SMT DEF Provided, ShiftLeft, FoldLeft, MapThenFoldSet
<1>2. Order' = Order
  BY SMT DEF Order
<1>3. \A n, binds, classes : CreateClasses(n, binds, classes)' = CreateClasses(n, binds, classes)
  BY SMT DEF CreateClass, CreateClasses, FoldLeft, MapThenFoldSet
<1>4. \A m, binds : CreateModule(m, binds)' = CreateModule(m, binds)
  BY DEF CreateModule
<1>5. QED
  BY <1>1, <1>2, <1>3, <1>4 DEF CreateProviders

\* What the imports leave depends on the graph alone.
LEMMA SameRun ==
  ASSUME graph' = graph
  PROVE  /\ \A create, st, m : SyncImports(create, st, m)' = SyncImports(create, st, m)
         /\ \A create, st, m, run : IsRun(create, st, m, run)' <=> IsRun(create, st, m, run)
         /\ \A create, st, m : SyncCreate(create, st, m)' = SyncCreate(create, st, m)
<1>1. ASSUME NEW create, NEW r, NEW m, NEW x
      PROVE  SyncImport(create, r, m, x)' = SyncImport(create, r, m, x)
  <2>1. graph'.exports[x] = graph.exports[x]
    OBVIOUS
  <2>2. \A binds : Exported(x, binds)' = Exported(x, binds)
    BY DEF Exported
  <2>3. QED
    BY <2>1, <2>2, SameProviders, Zenon DEF SyncImport
<1>2. ASSUME NEW create, NEW st, NEW m
      PROVE  SyncImports(create, st, m)' = SyncImports(create, st, m)
  BY SMT DEF SyncImports, SyncImport, ShiftLeft, Provided, Exported, FoldLeft, MapThenFoldSet
<1>3. ASSUME NEW create, NEW st, NEW m, NEW run
      PROVE  IsRun(create, st, m, run)' <=> IsRun(create, st, m, run)
  BY <1>1, <1>2 DEF IsRun
<1>4. ASSUME NEW create, NEW st, NEW m
      PROVE  SyncCreate(create, st, m)' = SyncCreate(create, st, m)
  BY <1>2, SameProviders, Zenon DEF SyncCreate
<1>5. QED
  BY <1>2, <1>3, <1>4

LEMMA OneSync ==
  ASSUME NEW c, NEW d, IsSync(c), IsSync(d)
  PROVE  c = d
<1> DEFINE N == Cardinality(Modules)
           G == {n \in Nat : n <= N => c[n] = d[n]}
<1>1. N \in Nat
  BY ModuleAssumption, FS_CardinalityType
<1>2. /\ c = [n \in 0 .. N |-> c[n]] /\ d = [n \in 0 .. N |-> d[n]]
      /\ \A n \in 0 .. N : c[n] = Level(n, c[n - 1]) /\ d[n] = Level(n, d[n - 1])
  BY DEF IsSync
<1> HIDE DEF N
<1>3. 0 \in G
  <2>1. 0 \in 0 .. N
    BY <1>1
  <2>2. c[0] = d[0]
    BY <1>2, <2>1, FirstLevel
  <2>3. QED
    BY <2>2
<1>4. ASSUME NEW n \in G
      PROVE  n + 1 \in G
  <2>1. CASE n + 1 <= N
    <3>1. n + 1 \in 0 .. N /\ n + 1 # 0 /\ (n + 1) - 1 = n /\ c[n] = d[n]
      BY <1>1, <2>1
    <3>2. PICK k : k = n + 1
      OBVIOUS
    <3>3. k \in 0 .. N /\ k # 0 /\ c[k - 1] = d[k - 1]
      BY <3>1, <3>2
    <3>4. c[k] = d[k]
      BY <1>2, <3>3
    <3>5. QED
      BY <3>2, <3>4
  <2>2. QED
    BY <2>1
<1>5. G = Nat
  <2> HIDE DEF G
  <2>1. G \in SUBSET Nat
    BY DEF G
  <2>2. QED
    BY <1>3, <1>4, <2>1, Induction
<1>6. \A n \in 0 .. N : c[n] = d[n]
  BY <1>1, <1>5
<1>7. QED
  BY <1>2, <1>6

LEMMA SameSync ==
  ASSUME graph' = graph
  PROVE  SyncCreated' = SyncCreated
<1>1. IsSync(SyncCreated)'
  BY SyncCreatedIs, PTL
<1>2. PICK d : d = SyncCreated'
  OBVIOUS
<1>3. \A n, create : Level(n, create)' = Level(n, create)
  BY SameRun DEF Level
<1>4. IsSync(d)
  BY <1>1, <1>2, <1>3 DEF IsSync
<1>5. QED
  BY <1>2, <1>4, SyncCreatedIs, OneSync

-----------------------------------------------------------------------------
(* A call that runs alone, and the synchronous recursion                   *)

Size == Cardinality(Modules)

\* What the synchronous loop over the first imports of f.mod makes of st is cur, and
\* the items of f; createAndResolve may recurse n deep in it.
Imports(n, st, f, cur) ==
    \A run : IsRun(SyncCreated[n], st, f.mod, run) =>
        run[Position(f)] = [st |-> cur, items |-> f.items]

\* Frame i of a call is f: it began at st and has come to cur.
Began(f, i, st, cur) ==
    /\ st \in SyncState /\ st.threw = FALSE /\ st.registered[f.mod] = None
    /\ Depth(graph)[f.mod] <= Size - i + 1
    /\ Imports(Size - i, st, f, cur)

\* The innermost frame f is at now: if it awaits an import, that is what the
\* import makes of cur.
Waits(n, f, cur, now) ==
    IF f.at = "import"
    THEN /\ cur \in SyncState /\ cur.threw = FALSE /\ cur.registered[Head(f.todo)] = None
         /\ SyncCreated[n][cur][Head(f.todo)] = now
    ELSE cur = now

\* Stack s is where the synchronous recursion is when the module injector is at now:
\* each frame began where the one around it has come to.
Follows(s, now) ==
    \E starts :
        /\ starts[1] = Empty
        /\ \A i \in 1 .. Len(s) : Began(s[i], i, starts[i], starts[i + 1])
        /\ Waits(Size - Len(s), s[Len(s)], starts[Len(s) + 1], now)

LEMMA SizeNat == Size \in Nat
BY ModuleAssumption, FS_CardinalityType DEF Size

LEMMA SyncCreatedFacts ==
  ASSUME NEW n \in 1 .. Size, NEW st \in SyncState, NEW m \in Modules
  PROVE  SyncCreated[n][st][m] = SyncCreate(SyncCreated[n - 1], st, m)
<1>1. n \in 0 .. Cardinality(Modules) /\ n # 0
  BY SizeNat DEF Size
<1>2. SyncCreated[n] = Level(n, SyncCreated[n - 1])
  BY <1>1, SyncCreatedIs DEF IsSync
<1>3. QED
  BY <1>1, <1>2 DEF Level

\* A module that is not there yet begins with nothing imported.
LEMMA FrameBegins ==
  ASSUME graph \in Graphs, NEW m \in Modules, NEW i, NEW st \in SyncState,
         st.threw = FALSE, st.registered[m] = None, Depth(graph)[m] <= Size - i + 1
  PROVE  Began(NewFrame(m), i, st, st)
<1>1. PICK f : f = NewFrame(m)
  OBVIOUS
<1>2. f.mod = m /\ f.todo = graph.imports[m] /\ f.items = <<>>
  BY <1>1 DEF NewFrame
<1>3. Position(f) = 0
  BY <1>2, GraphFacts DEF Position
<1>4. Imports(Size - i, st, f, st)
  BY <1>2, <1>3 DEF Imports, IsRun
<1>5. QED
  BY <1>1, <1>2, <1>4 DEF Began

\* The next import of a frame.
LEMMA NextImport ==
  ASSUME graph \in Graphs, NEW md, NEW f, GoodFrame(graph, f, md), Collecting(f), f.todo # <<>>
  PROVE  /\ Head(f.todo) \in Modules /\ Head(f.todo) \in ToSet(graph.imports[f.mod])
         /\ Position(f) \in Nat /\ Position(f) < Len(graph.imports[f.mod])
         /\ graph.imports[f.mod][Position(f) + 1] = Head(f.todo)
         /\ \A h : h.mod = f.mod /\ h.todo = Tail(f.todo) => Position(h) = Position(f) + 1
<1>1. /\ f.mod \in Modules /\ f.todo \in Seq(Modules) /\ Position(f) \in Nat
      /\ ToSet(f.todo) \subseteq ToSet(graph.imports[f.mod])
  BY DEF GoodFrame, Collecting
<1>2. /\ Head(f.todo) = f.todo[1] /\ Len(f.todo) \in Nat \ {0} /\ Len(Tail(f.todo)) = Len(f.todo) - 1
      /\ Head(f.todo) \in Modules
  BY <1>1, HeadTailProperties, EmptySeq
<1>3. Len(graph.imports[f.mod]) \in Nat
  BY <1>1, GraphFacts
<1>4. f.todo[1] = graph.imports[f.mod][Position(f) + 1]
  BY <1>2 DEF Collecting
<1>5. Head(f.todo) \in ToSet(f.todo)
  BY <1>1, <1>2, ToSetIndices
<1> DEFINE a == Len(graph.imports[f.mod])
           b == Len(f.todo)
           e == Len(Tail(f.todo))
<1>6. Position(f) = a - b /\ a \in Nat /\ b \in Nat \ {0} /\ e = b - 1
  BY <1>2, <1>3 DEF Position
<1>7. ASSUME NEW h, h.mod = f.mod, h.todo = Tail(f.todo)
      PROVE  Position(h) = a - e
  BY <1>7 DEF Position
<1> HIDE DEF a, b, e
<1>8. a - b < a /\ a - e = (a - b) + 1
  BY <1>6
<1>9. Position(f) < Len(graph.imports[f.mod])
  BY <1>6, <1>8 DEF a
<1>10. QED
  BY <1>1, <1>2, <1>4, <1>5, <1>6, <1>7, <1>8, <1>9

\* Taking the exports of an import is one round of the synchronous loop.
LEMMA TakingBegan ==
  ASSUME graph \in Graphs, NEW md, NEW f, GoodFrame(graph, f, md), Collecting(f), f.todo # <<>>,
         NEW i, NEW st, NEW cur, NEW now, Began(f, i, st, cur), Waits(Size - i, f, cur, now),
         NEW x, x = Head(f.todo), now.threw = FALSE, f.at # "import" => now.registered[x] # None,
         NEW binds, binds = now.injectors[now.registered[x]].binds,
         \A t \in ToSet(graph.exports[x]) : Visible(binds, t),
         NEW h, h.mod = f.mod, h.todo = Tail(f.todo),
         h.items = ShiftLeft(f.mod, f.items, Exported(x, binds))
  PROVE  Began(h, i, st, now)
<1>1. /\ Position(f) \in Nat /\ Position(f) < Len(graph.imports[f.mod])
      /\ graph.imports[f.mod][Position(f) + 1] = x
      /\ Position(h) = Position(f) + 1
  BY NextImport
<1>2. cur.threw = FALSE /\ now = IF cur.registered[x] # None THEN cur ELSE SyncCreated[Size - i][cur][x]
  <2>1. CASE f.at = "import"
    BY <2>1 DEF Waits
  <2>2. CASE f.at # "import"
    BY <2>2 DEF Waits
  <2>3. QED
    BY <2>1, <2>2
<1>3. ASSUME NEW run, IsRun(SyncCreated[Size - i], st, h.mod, run)
      PROVE  run[Position(h)] = [st |-> now, items |-> h.items]
  <2>1. PICK create : create = SyncCreated[Size - i]
    OBVIOUS
  <2>2. PICK r : r = run[Position(f)]
    OBVIOUS
  <2>3. r = [st |-> cur, items |-> f.items]
    BY <1>3, <2>2 DEF Began, Imports
  <2>4. run[Position(f) + 1] = SyncImport(create, r, f.mod, x)
    BY <1>1, <1>3, <2>1, <2>2 DEF IsRun
  <2>5. r.st = cur /\ r.items = f.items
    BY <2>3
  <2>6. now = IF r.st.registered[x] # None THEN r.st ELSE create[r.st][x]
    BY <1>2, <2>1, <2>5
  <2>7. SyncImport(create, r, f.mod, x) = [st |-> now, items |-> ShiftLeft(f.mod, r.items, Exported(x, binds))]
    BY <1>2, <2>5, <2>6 DEF SyncImport
  <2>8. QED
    BY <1>1, <2>4, <2>5, <2>7
<1>4. Imports(Size - i, st, h, now)
  BY <1>3 DEF Imports
<1>5. QED
  BY <1>4 DEF Began

\* What createAndResolve leaves when it registers m.
Registered(now, m, binds) ==
    [injectors |-> Append(now.injectors, [mod |-> m, binds |-> binds]),
     registered |-> [now.registered EXCEPT ![m] = Len(now.injectors) + 1],
     metadata |-> now.metadata \cup {m}, threw |-> FALSE]

LEMMA CreationEnds ==
  ASSUME graph \in Graphs, NEW f, f.mod \in Modules, f.todo = <<>>, f.at # "import",
         NEW i \in Nat \ {0}, NEW st, NEW cur, NEW now, Began(f, i, st, cur), Waits(Size - i, f, cur, now),
         now.threw = FALSE, CreateProviders(Len(now.injectors) + 1, f.mod, f.items) # None
  PROVE  SyncCreated[Size - i + 1][st][f.mod] =
           Registered(now, f.mod, CreateProviders(Len(now.injectors) + 1, f.mod, f.items))
<1>0. PICK binds : binds = CreateProviders(Len(now.injectors) + 1, f.mod, f.items)
  OBVIOUS
<1>1. Size - i + 1 \in 1 .. Size
  <2>1. Depth(graph)[f.mod] \in 1 .. Cardinality(Modules)
    BY DepthDecreases DEF IsDepth
  <2>2. Depth(graph)[f.mod] <= Size - i + 1
    BY DEF Began
  <2>3. QED
    BY <2>1, <2>2, SizeNat
<1>2. PICK create : create = SyncCreated[Size - i]
  OBVIOUS
<1>3. SyncCreated[Size - i + 1][st][f.mod] = SyncCreate(create, st, f.mod)
  <2>1. (Size - i + 1) - 1 = Size - i
    BY SizeNat
  <2>2. SyncCreated[Size - i + 1][st][f.mod] = SyncCreate(SyncCreated[(Size - i + 1) - 1], st, f.mod)
    BY <1>1, SyncCreatedFacts DEF Began
  <2>3. QED
    BY <1>2, <2>1, <2>2
<1>4. PICK run : IsRun(create, st, f.mod, run)
  BY ImportsRun
<1>5. Position(f) = Len(graph.imports[f.mod])
  <2>1. Len(f.todo) = 0
    OBVIOUS
  <2>2. Len(graph.imports[f.mod]) \in Nat
    BY GraphFacts
  <2>3. QED
    BY <2>1, <2>2 DEF Position
<1>6. PICK imported : imported = SyncImports(create, st, f.mod)
  OBVIOUS
<1>7. imported = [st |-> now, items |-> f.items]
  <2>1. imported = run[Position(f)]
    BY <1>4, <1>5, <1>6 DEF IsRun
  <2>2. run[Position(f)] = [st |-> cur, items |-> f.items]
    BY <1>2, <1>4 DEF Began, Imports
  <2>3. cur = now
    BY DEF Waits
  <2>4. QED
    BY <2>1, <2>2, <2>3
<1>8. imported.st = now /\ imported.items = f.items /\ st.registered[f.mod] = None
  BY <1>7 DEF Began
<1>9. SyncCreate(create, st, f.mod) = Registered(now, f.mod, binds)
  BY <1>0, <1>6, <1>8 DEF SyncCreate, Registered
<1>10. QED
  BY <1>0, <1>3, <1>9

LEMMA EmptyState ==
  Empty \in SyncState /\ Empty.threw = FALSE /\ \A m \in Modules : Empty.registered[m] = None
<1>1. <<>> \in Seq([mod : Modules, binds : Binds])
  OBVIOUS
<1>2. QED
  BY <1>1 DEF Empty, SyncState

LEMMA FollowsOne ==
  ASSUME graph \in Graphs, NEW m \in Modules
  PROVE  Follows(<<NewFrame(m)>>, Empty)
<1>1. PICK f : f = NewFrame(m)
  OBVIOUS
<1>2. PICK s : s = <<f>>
  OBVIOUS
<1>3. Len(s) = 1 /\ s[1] = f /\ f.at = "next"
  BY <1>1, <1>2 DEF NewFrame
<1>4. Depth(graph)[m] <= Size - 1 + 1
  BY DepthDecreases, SizeNat DEF IsDepth, Size
<1>5. Began(f, 1, Empty, Empty)
  BY <1>1, <1>4, EmptyState, FrameBegins
<1>6. PICK starts : starts = <<Empty, Empty>>
  OBVIOUS
<1>7. starts[1] = Empty /\ starts[2] = Empty
  BY <1>6
<1>8. \A i \in 1 .. Len(s) : Began(s[i], i, starts[i], starts[i + 1])
  BY <1>3, <1>5, <1>7
<1>9. Waits(Size - Len(s), s[Len(s)], starts[Len(s) + 1], Empty)
  BY <1>3, <1>7 DEF Waits
<1>10. Follows(s, Empty)
  BY <1>7, <1>8, <1>9 DEF Follows
<1>11. QED
  BY <1>1, <1>2, <1>10

\* The innermost frame goes on.
LEMMA FollowsReplaced ==
  ASSUME NEW s, NEW now, Follows(s, now), NEW h, NEW t, Replaced(s, h, t), h.at # "import",
         \A st, cur : Began(s[Len(s)], Len(s), st, cur) /\ Waits(Size - Len(s), s[Len(s)], cur, now)
                          => Began(h, Len(s), st, now)
  PROVE  Follows(t, now)
<1>1. PICK starts : /\ starts[1] = Empty
                    /\ \A i \in 1 .. Len(s) : Began(s[i], i, starts[i], starts[i + 1])
                    /\ Waits(Size - Len(s), s[Len(s)], starts[Len(s) + 1], now)
  BY DEF Follows
<1>2. PICK n \in Nat \ {0} : n = Len(s)
  BY DEF Replaced
<1>3. Len(t) = n /\ t[n] = h /\ \A i \in 1 .. n - 1 : t[i] = s[i]
  BY <1>2 DEF Replaced
<1>4. PICK next : next = [i \in 1 .. n + 1 |-> IF i = n + 1 THEN now ELSE starts[i]]
  OBVIOUS
<1>5. next[n + 1] = now /\ \A i \in 1 .. n : next[i] = starts[i]
  BY <1>4
<1>6. ASSUME NEW i \in 1 .. n
      PROVE  Began(t[i], i, next[i], next[i + 1])
  <2>1. CASE i = n
    <3>1. Began(s[n], n, starts[n], starts[n + 1]) /\ Waits(Size - n, s[n], starts[n + 1], now)
      BY <1>1, <1>2
    <3>2. Began(h, n, starts[n], now)
      BY <1>2, <3>1
    <3>3. QED
      BY <1>3, <1>5, <2>1, <3>2
  <2>2. CASE i # n
    <3>1. i \in 1 .. n - 1 /\ i + 1 \in 1 .. n
      BY <2>2
    <3>2. Began(s[i], i, starts[i], starts[i + 1])
      BY <1>1, <1>2
    <3>3. QED
      BY <1>3, <1>5, <3>1, <3>2
  <2>3. QED
    BY <2>1, <2>2
<1>7. Waits(Size - n, t[n], next[n + 1], now)
  BY <1>3, <1>5 DEF Waits
<1>8. next[1] = Empty
  BY <1>1, <1>5
<1>9. QED
  BY <1>3, <1>6, <1>7, <1>8 DEF Follows

\* The innermost frame f has a module initialised, and awaits it as h.
LEMMA FollowsPushed ==
  ASSUME graph \in Graphs, NEW s, NEW now \in SyncState, Follows(s, now), now.threw = FALSE,
         NEW f, f = s[Len(s)], f.mod \in Modules, f.at # "import",
         NEW h, h.mod = f.mod, h.todo = f.todo, h.items = f.items, h.at = "import",
         NEW u, Replaced(s, h, u), NEW x \in Modules, x \in ToSet(graph.imports[f.mod]),
         now.registered[x] = None, NEW t, t = Append(u, NewFrame(x))
  PROVE  Follows(t, now)
<1>1. PICK starts : /\ starts[1] = Empty
                    /\ \A i \in 1 .. Len(s) : Began(s[i], i, starts[i], starts[i + 1])
                    /\ Waits(Size - Len(s), s[Len(s)], starts[Len(s) + 1], now)
  BY DEF Follows
<1>2. PICK n \in Nat \ {0} : n = Len(s)
  BY DEF Replaced
<1>3. PICK g : g = NewFrame(x)
  OBVIOUS
<1>4. /\ Len(t) = n + 1 /\ t[n + 1] = g /\ t[n] = h
      /\ \A i \in 1 .. n - 1 : t[i] = s[i]
  <2>1. PICK T : u \in Seq(T)
    BY DEF Replaced
  <2>2. Len(u) = n /\ u[n] = h /\ \A i \in 1 .. n - 1 : u[i] = s[i]
    BY <1>2 DEF Replaced
  <2>3. t = Append(u, g)
    BY <1>3
  <2>4. Len(t) = Len(u) + 1 /\ t[Len(u) + 1] = g /\ \A i \in 1 .. Len(u) : t[i] = u[i]
    BY <2>1, <2>3, AppendAny
  <2>5. QED
    BY <2>2, <2>4
<1>5. starts[n + 1] = now
  BY <1>1, <1>2 DEF Waits
<1>6. PICK next : next = [i \in 1 .. n + 2 |-> IF i = n + 2 THEN now ELSE starts[i]]
  OBVIOUS
<1>7. next[n + 2] = now /\ \A i \in 1 .. n + 1 : next[i] = starts[i]
  BY <1>6
<1>8. Began(f, n, starts[n], now)
  BY <1>1, <1>2, <1>5
<1>9. Began(h, n, starts[n], now)
  <2>1. Position(h) = Position(f)
    BY DEF Position
  <2>2. QED
    BY <1>8, <2>1 DEF Began, Imports
<1>10. Began(g, n + 1, now, now)
  <2>1. Depth(graph)[x] < Depth(graph)[f.mod]
    BY DepthDecreases DEF IsDepth
  <2>2. Depth(graph)[x] \in Int /\ Depth(graph)[f.mod] \in Int
    BY DepthDecreases DEF IsDepth
  <2>3. Depth(graph)[f.mod] <= Size - n + 1
    BY <1>8 DEF Began
  <2>4. Depth(graph)[x] <= Size - (n + 1) + 1
    BY <2>1, <2>2, <2>3, SizeNat
  <2>5. QED
    BY <1>3, <2>4, FrameBegins
<1>11. ASSUME NEW i \in 1 .. n + 1
       PROVE  Began(t[i], i, next[i], next[i + 1])
  <2>1. CASE i = n + 1
    BY <1>4, <1>5, <1>7, <1>10, <2>1
  <2>2. CASE i = n
    BY <1>4, <1>5, <1>7, <1>9, <2>2
  <2>3. CASE i \in 1 .. n - 1
    <3>1. i \in 1 .. n /\ i \in 1 .. n + 1 /\ i + 1 \in 1 .. n + 1
      BY <2>3
    <3>2. Began(s[i], i, starts[i], starts[i + 1])
      BY <1>1, <1>2, <3>1
    <3>3. QED
      BY <1>4, <1>7, <2>3, <3>1, <3>2
  <2>4. i = n + 1 \/ i = n \/ i \in 1 .. n - 1
    OBVIOUS
  <2>5. QED
    BY <2>1, <2>2, <2>3, <2>4
<1>12. Waits(Size - (n + 1), t[n + 1], next[(n + 1) + 1], now)
  BY <1>3, <1>4, <1>7 DEF Waits, NewFrame
<1>13. next[1] = Empty
  BY <1>1, <1>7
<1>14. QED
  BY <1>4, <1>11, <1>12, <1>13 DEF Follows

\* The innermost frame is done, and the module injector at new; the frame around it
\* awaits that.
LEMMA FollowsPopped ==
  ASSUME NEW S, NEW s \in Seq(S), Len(s) > 1, NEW now, NEW new, Follows(s, now),
         s[Len(s) - 1].at = "import", Head(s[Len(s) - 1].todo) = s[Len(s)].mod,
         \A st, cur : Began(s[Len(s)], Len(s), st, cur) /\ Waits(Size - Len(s), s[Len(s)], cur, now)
                          => SyncCreated[Size - Len(s) + 1][st][s[Len(s)].mod] = new
  PROVE  Follows(Front(s), new)
<1>1. PICK starts : /\ starts[1] = Empty
                    /\ \A i \in 1 .. Len(s) : Began(s[i], i, starts[i], starts[i + 1])
                    /\ Waits(Size - Len(s), s[Len(s)], starts[Len(s) + 1], now)
  BY DEF Follows
<1>2. PICK n \in Nat \ {0} : n = Len(s) - 1
  <2>1. Len(s) \in Nat
    BY LenProperties
  <2>2. QED
    BY <2>1
<1>3. Len(s) = n + 1 /\ (n + 1) - 1 = n
  BY <1>2
<1>4. PICK t : t = Front(s)
  OBVIOUS
<1>5. Len(t) = n /\ \A i \in 1 .. n : t[i] = s[i]
  BY <1>2, <1>4, FrontLast, EmptySeq
<1>6. Began(s[n + 1], n + 1, starts[n + 1], starts[n + 2]) /\ Waits(Size - (n + 1), s[n + 1], starts[n + 2], now)
  BY <1>1, <1>3
<1>7. /\ SyncCreated[Size - (n + 1) + 1][starts[n + 1]][s[n + 1].mod] = new
      /\ s[n].at = "import" /\ Head(s[n].todo) = s[n + 1].mod
  BY <1>3, <1>6
<1>8. Size - (n + 1) + 1 = Size - n
  BY SizeNat
<1>9. Waits(Size - n, t[n], starts[n + 1], new)
  BY <1>5, <1>6, <1>7, <1>8 DEF Waits, Began
<1>10. \A i \in 1 .. n : Began(t[i], i, starts[i], starts[i + 1])
  BY <1>1, <1>3, <1>5
<1>11. Follows(t, new)
  BY <1>1, <1>5, <1>9, <1>10 DEF Follows
<1>12. QED
  BY <1>4, <1>11

LEMMA SameFollows ==
  ASSUME graph' = graph
  PROVE  \A s, now : Follows(s, now)' <=> Follows(s, now)
<1>1. SyncCreated' = SyncCreated
  BY SameSync
<1>2. \A f : Position(f)' = Position(f)
  BY DEF Position
<1>3. ASSUME NEW n, NEW st, NEW f, NEW cur
      PROVE  Imports(n, st, f, cur)' <=> Imports(n, st, f, cur)
  BY <1>1, <1>2, SameRun DEF Imports
<1>4. ASSUME NEW f, NEW i, NEW st, NEW cur
      PROVE  Began(f, i, st, cur)' <=> Began(f, i, st, cur)
  BY <1>3 DEF Began
<1>5. ASSUME NEW n, NEW f, NEW cur, NEW now
      PROVE  Waits(n, f, cur, now)' <=> Waits(n, f, cur, now)
  BY <1>1 DEF Waits
<1>6. QED
  BY <1>4, <1>5 DEF Follows

\* What the module injector keeps now.
Now == [injectors |-> injectors, registered |-> registered, metadata |-> metadata, threw |-> FALSE]

Alone(c) == \A d \in Calls \ {c} : status[d] = "idle"

\* Call c, the only one there is, follows the synchronous recursion, and ends where it does.
Agreed(c) ==
    /\ status[c] = "idle" => Now = Empty
    /\ status[c] = "running" => Follows(stack[c], Now)
    /\ status[c] = "done" => SyncCreateAndResolve(Empty, Last(injectors).mod) = Now

Agrees ==
    /\ registered \in [Modules -> Nat \cup {None}]
    /\ Undisturbed => \A c \in Calls : Alone(c) => Agreed(c)

LEMMA NowState ==
  ASSUME Created, Bound, Agrees
  PROVE  Now \in SyncState /\ Now.threw = FALSE
BY DEF Created, Bound, Agrees, Now, SyncState

\* After a step of call c, nobody else may be alone.
LEMMA MoveAgrees ==
  ASSUME Agrees, NEW c \in Calls, Undisturbed' => Undisturbed, status'[c] # "idle",
         \A d \in Calls \ {c} : status'[d] = status[d],
         registered' \in [Modules -> Nat \cup {None}], Undisturbed /\ Alone(c) => Agreed(c)'
  PROVE  Agrees'
<1>1. ASSUME Undisturbed', NEW d \in Calls, Alone(d)'
      PROVE  Agreed(d)'
  <2>1. d = c
    BY <1>1 DEF Alone
  <2>2. Alone(c)
    BY <1>1, <2>1 DEF Alone
  <2>3. QED
    BY <1>1, <2>1, <2>2
<1>2. QED
  BY <1>1 DEF Agrees

LEMMA FailAgrees ==
  ASSUME Created, Agrees, NEW c \in Calls, Fail(c)
  PROVE  Agrees'
<1>1. status'[c] = "failed" /\ \A d \in Calls \ {c} : status'[d] = status[d]
  BY DEF Fail, Created
<1>2. (Undisturbed' => Undisturbed) /\ registered' \in [Modules -> Nat \cup {None}]
  BY DEF Fail, Undisturbed, Agrees
<1>3. Agreed(c)'
  BY <1>1 DEF Agreed
<1>4. QED
  BY <1>1, <1>2, <1>3, MoveAgrees

LEMMA StartAgrees ==
  ASSUME Created, Agrees, NEW c \in Calls, NEW m \in Modules, Start(c, m)
  PROVE  Agrees'
<1>1. /\ status'[c] # "idle" /\ \A d \in Calls \ {c} : status'[d] = status[d]
      /\ status[c] = "idle" /\ UNCHANGED <<graph, injectors, registered, metadata, removes>>
      /\ overlapped => overlapped'
  BY DEF Start, Created
<1>2. (Undisturbed' => Undisturbed) /\ registered' \in [Modules -> Nat \cup {None}]
  BY <1>1 DEF Undisturbed, Agrees
<1>3. ASSUME Undisturbed, Alone(c)
      PROVE  Agreed(c)'
  <2>1. Now = Empty
    BY <1>1, <1>3 DEF Agrees, Agreed
  <2>2. PICK now, s : now = Empty /\ s = <<NewFrame(m)>>
    OBVIOUS
  <2>3. Now' = now
    BY <1>1, <2>1, <2>2 DEF Now
  <2>4. CASE status'[c] = "running"
    <3>1. stack'[c] = s
      BY <1>1, <2>2, <2>4 DEF Start, Created
    <3>2. Follows(s, now)
      BY <2>2, FollowsOne DEF Created
    <3>3. Follows(s, now)'
      BY <1>1, <3>2, SameFollows
    <3>4. Follows(stack[c], Now)'
      BY <2>3, <3>1, <3>3
    <3>5. QED
      BY <2>4, <3>4 DEF Agreed
  <2>5. CASE status'[c] = "already"
    BY <2>5 DEF Agreed
  <2>6. QED
    BY <1>1, <2>4, <2>5 DEF Start, Created
<1>4. QED
  BY <1>1, <1>2, <1>3, MoveAgrees

\* What a move of call c must keep when it leaves the injectors alone.
LEMMA StackAgrees ==
  ASSUME Created, Agrees, NEW c \in Calls, stack[c] # <<>>, NEW t, stack' = [stack EXCEPT ![c] = t],
         UNCHANGED <<graph, injectors, registered, metadata, status, removes, overlapped>>,
         Undisturbed /\ Follows(stack[c], Now) => Follows(t, Now)
  PROVE  Agrees'
<1>1. status'[c] = "running" /\ status[c] = "running" /\ \A d \in Calls \ {c} : status'[d] = status[d]
  BY DEF Created
<1>2. (Undisturbed' => Undisturbed) /\ registered' \in [Modules -> Nat \cup {None}]
  BY DEF Undisturbed, Agrees
<1>3. ASSUME Undisturbed, Alone(c)
      PROVE  Agreed(c)'
  <2>1. PICK now : now = Now
    OBVIOUS
  <2>2. Follows(t, now)
    BY <1>1, <1>3, <2>1 DEF Agrees, Agreed
  <2>3. Follows(t, now)'
    BY <2>2, SameFollows
  <2>4. Now' = now /\ stack'[c] = t
    BY <2>1 DEF Now, Created
  <2>5. Follows(stack[c], Now)'
    BY <2>3, <2>4
  <2>6. QED
    BY <1>1, <2>5 DEF Agreed
<1>4. QED
  BY <1>1, <1>2, <1>3, MoveAgrees

LEMMA TakeExportsAgrees ==
  ASSUME Created, Complete, SharesAll, Agrees, NEW c \in Calls, stack[c] # <<>>, NEW f, f = Last(stack[c]),
         f.todo # <<>>, f.at # "import" => registered[Head(f.todo)] # None, TakeExports(c, f)
  PROVE  Agrees'
<1>1. CASE Fail(c)
  BY <1>1, FailAgrees
<1>2. CASE ~Fail(c)
  <2> DEFINE x == Head(f.todo)
             binds == injectors[registered[x]].binds
  <2>1. /\ GoodFrame(graph, f, metadata) /\ Collecting(f) /\ graph \in Graphs
        /\ GoodStack(graph, stack[c], metadata) /\ f = stack[c][Len(stack[c])]
    BY LastFrame, LastCollects
  <2>2. PICK h : h = [f EXCEPT !.at = "next", !.todo = Tail(@), !.items = ShiftLeft(f.mod, @, Exported(x, binds))]
    OBVIOUS
  <2>3. Continue(c, h)
    BY <1>2, <2>2 DEF TakeExports
  <2>4. \A t \in ToSet(graph.exports[x]) : Visible(binds, t)
    <3>1. ToSet(<<>>) = {}
      BY DEF ToSet
    <3>2. QED
      BY <1>2, <3>1 DEF TakeExports
  <2>5. /\ h.mod = f.mod /\ h.todo = Tail(f.todo) /\ h.at = "next"
        /\ h.items = ShiftLeft(f.mod, f.items, Exported(x, binds))
    BY <2>1, <2>2 DEF GoodFrame
  <2>6. PICK now, s : now = Now /\ s = stack[c]
    OBVIOUS
  <2>7. now.threw = FALSE /\ now.injectors = injectors /\ now.registered = registered
    BY <2>6 DEF Now
  <2>8. PICK y, b : y = x /\ b = binds
    OBVIOUS
  <2>9. PICK n : n = Len(s)
    OBVIOUS
  <2>10. f = s[n]
    BY <2>1, <2>6, <2>9
  <2> HIDE DEF x, binds
  <2>11. ASSUME NEW st, NEW cur, Began(s[n], n, st, cur), Waits(Size - n, s[n], cur, now)
         PROVE  Began(h, n, st, now)
    <3>1. f.at # "import" => now.registered[y] # None
      BY <2>7, <2>8 DEF x
    <3>2. y = Head(f.todo) /\ b = now.injectors[now.registered[y]].binds
      BY <2>7, <2>8 DEF x, binds
    <3>3. \A t \in ToSet(graph.exports[y]) : Visible(b, t)
      BY <2>4, <2>8
    <3>4. h.items = ShiftLeft(f.mod, f.items, Exported(y, b))
      BY <2>5, <2>8
    <3>5. Began(f, n, st, cur) /\ Waits(Size - n, f, cur, now)
      BY <2>10, <2>11
    <3>6. QED
      BY <2>1, <2>5, <2>7, <3>1, <3>2, <3>3, <3>4, <3>5, TakingBegan
  <2>12. PICK t : t = Append(Front(s), h)
    OBVIOUS
  <2>13. Replaced(s, h, t)
    <3>1. PICK S : s \in Seq(S)
      BY <2>1, <2>6 DEF GoodStack
    <3>2. s # <<>>
      BY <2>6
    <3>3. QED
      BY <2>12, <3>1, <3>2, ReplaceLast
  <2>14. Follows(s, now) => Follows(t, now)
    BY <2>5, <2>9, <2>11, <2>13, FollowsReplaced
  <2>15. /\ stack' = [stack EXCEPT ![c] = t]
         /\ UNCHANGED <<graph, injectors, registered, metadata, status, removes, overlapped>>
    BY <2>3, <2>6, <2>12 DEF Continue
  <2>16. QED
    BY <2>6, <2>14, <2>15, StackAgrees
<1>3. QED
  BY <1>1, <1>2

LEMMA ImportNextAgrees ==
  ASSUME Created, Complete, SharesAll, Agrees, NEW c \in Calls, ImportNext(c)
  PROVE  Agrees'
<1>1. stack[c] # <<>> /\ Last(stack[c]).at = "next"
  BY DEF ImportNext, Synchronous
<1>2. PICK now, s, f, n : now = Now /\ s = stack[c] /\ f = Last(stack[c]) /\ n = Len(s)
  OBVIOUS
<1>3. /\ GoodFrame(graph, f, metadata) /\ Collecting(f) /\ graph \in Graphs
      /\ GoodStack(graph, s, metadata) /\ f = s[n]
  BY <1>1, <1>2, LastFrame, LastCollects
<1>4. PICK S : s \in Seq(S)
  BY <1>3 DEF GoodStack
<1>5. now \in SyncState /\ now.threw = FALSE /\ now.registered = registered
  BY <1>2, NowState DEF Complete, Now
<1>6. CASE f.todo = <<>>
  <2>1. PICK h, t : h = [f EXCEPT !.at = "ready"] /\ t = Append(Front(s), h)
    OBVIOUS
  <2>2. h.mod = f.mod /\ h.todo = f.todo /\ h.items = f.items /\ h.at = "ready"
    BY <1>3, <2>1 DEF GoodFrame
  <2>3. Replaced(s, h, t)
    BY <1>1, <1>2, <1>4, <2>1, ReplaceLast
  <2>4. ASSUME NEW st, NEW cur, Began(s[n], n, st, cur), Waits(Size - n, s[n], cur, now)
        PROVE  Began(h, n, st, now)
    <3>1. cur = now
      BY <1>1, <1>2, <1>3, <2>4 DEF Waits
    <3>2. Position(h) = Position(f)
      BY <2>2 DEF Position
    <3>3. QED
      BY <1>3, <2>2, <2>4, <3>1, <3>2 DEF Began, Imports
  <2>5. Follows(s, now) => Follows(t, now)
    BY <1>2, <2>2, <2>3, <2>4, FollowsReplaced
  <2>6. /\ stack' = [stack EXCEPT ![c] = t]
        /\ UNCHANGED <<graph, injectors, registered, metadata, status, removes, overlapped>>
    BY <1>2, <1>6, <2>1 DEF ImportNext, Continue
  <2>7. QED
    BY <1>1, <1>2, <2>5, <2>6, StackAgrees
<1>7. CASE f.todo # <<>> /\ registered[Head(f.todo)] # None
  <2>1. TakeExports(c, f)
    BY <1>2, <1>7 DEF ImportNext
  <2>2. QED
    BY <1>1, <1>2, <1>7, <2>1, TakeExportsAgrees
<1>8. CASE f.todo # <<>> /\ registered[Head(f.todo)] = None
  <2>1. PICK x : x = Head(f.todo)
    OBVIOUS
  <2>2. PICK h, u : h = [f EXCEPT !.at = "import"] /\ u = Append(Front(s), h)
    OBVIOUS
  <2>3. PICK t : t = Append(u, NewFrame(x))
    OBVIOUS
  <2>4. /\ stack' = [stack EXCEPT ![c] = t]
        /\ UNCHANGED <<graph, injectors, registered, metadata, status, removes, overlapped>>
    BY <1>2, <1>8, <2>1, <2>2, <2>3 DEF ImportNext
  <2>5. h.mod = f.mod /\ h.todo = f.todo /\ h.items = f.items /\ h.at = "import"
    BY <1>3, <2>2 DEF GoodFrame
  <2>6. Replaced(s, h, u)
    BY <1>1, <1>2, <1>4, <2>2, ReplaceLast
  <2>7. x \in Modules /\ x \in ToSet(graph.imports[f.mod]) /\ f.mod \in Modules
    BY <1>3, <1>8, <2>1, NextImport DEF GoodFrame
  <2>8. now.registered[x] = None /\ f.at # "import"
    BY <1>1, <1>2, <1>5, <1>8, <2>1
  <2>9. f = s[Len(s)]
    BY <1>2, <1>3
  <2>10. Follows(s, now) => Follows(t, now)
    BY <1>3, <1>5, <2>3, <2>5, <2>6, <2>7, <2>8, <2>9, FollowsPushed
  <2>11. QED
    BY <1>1, <1>2, <2>4, <2>10, StackAgrees
<1>9. QED
  BY <1>6, <1>7, <1>8

LEMMA RegisterAgrees ==
  ASSUME Created, Complete, SharesAll, Agrees, NEW c \in Calls, Register(c)
  PROVE  Agrees'
<1> DEFINE f == Last(stack[c])
           binds == CreateProviders(Len(injectors) + 1, f.mod, f.items)
<1>1. CASE binds = None
  BY <1>1, FailAgrees DEF Register
<1>2. CASE binds # None
  <2>1. stack[c] # <<>> /\ f.at = "ready"
    BY DEF Register
  <2>2. PICK s, m, n, b : s = stack[c] /\ m = f.mod /\ n = Len(injectors) + 1 /\ b = binds
    OBVIOUS
  <2>3. /\ injectors' = Append(injectors, [mod |-> m, binds |-> b])
        /\ registered' = [registered EXCEPT ![m] = n]
        /\ metadata' = metadata \cup {m}
        /\ stack' = [stack EXCEPT ![c] = Front(s)]
        /\ status' = IF Len(s) > 1 THEN status ELSE [status EXCEPT ![c] = "done"]
        /\ UNCHANGED <<graph, removes, overlapped>>
    BY <1>2, <2>2 DEF Register
  <2>4. PICK now, new : now = Now /\ new = Registered(now, m, b)
    OBVIOUS
  <2>5. now.threw = FALSE /\ now.injectors = injectors /\ now.registered = registered /\ now.metadata = metadata
    BY <2>4 DEF Now
  <2>6. Now' = new
    BY <2>2, <2>3, <2>4, <2>5 DEF Now, Registered
  <2>7. /\ graph \in Graphs /\ GoodFrame(graph, f, metadata) /\ GoodStack(graph, s, metadata)
        /\ status[c] = "running" /\ f = s[Len(s)] /\ Len(s) \in Nat \ {0}
    BY <2>1, <2>2, LastFrame, LastCollects
  <2>8. m \in Modules /\ f.todo = <<>> /\ f.at # "import"
    BY <2>1, <2>2, <2>7 DEF GoodFrame
  <2>9. PICK g : g = f
    OBVIOUS
  <2>10. g.mod = m /\ g.todo = <<>> /\ g.at # "import" /\ g = s[Len(s)]
         /\ b = CreateProviders(Len(now.injectors) + 1, g.mod, g.items) /\ b # None
    BY <1>2, <2>2, <2>5, <2>7, <2>8, <2>9
  <2> HIDE DEF f, binds
  <2>11. ASSUME NEW st, NEW cur, Began(s[Len(s)], Len(s), st, cur), Waits(Size - Len(s), s[Len(s)], cur, now)
         PROVE  SyncCreated[Size - Len(s) + 1][st][m] = new
    <3>1. PICK k : k = Len(s)
      OBVIOUS
    <3>2. k \in Nat \ {0} /\ Began(g, k, st, cur) /\ Waits(Size - k, g, cur, now)
      BY <2>7, <2>10, <2>11, <3>1
    <3>3. graph \in Graphs /\ g.mod \in Modules /\ now.threw = FALSE
      BY <2>5, <2>7, <2>8, <2>10
    <3>4. SyncCreated[Size - k + 1][st][g.mod] = Registered(now, g.mod, b)
      <4>1. g.todo = <<>> /\ g.at # "import" /\ CreateProviders(Len(now.injectors) + 1, g.mod, g.items) # None
        BY <2>10
      <4>2. SyncCreated[Size - k + 1][st][g.mod] =
              Registered(now, g.mod, CreateProviders(Len(now.injectors) + 1, g.mod, g.items))
        BY <3>2, <3>3, <4>1, CreationEnds
      <4>3. QED
        BY <2>10, <4>2
    <3>5. QED
      BY <2>4, <2>10, <3>1, <3>4
  <2>12. registered' \in [Modules -> Nat \cup {None}] /\ (Undisturbed' => Undisturbed)
    <3>1. n \in Nat
      <4>1. Len(injectors) \in Nat
        BY LenProperties DEF Complete, Bound
      <4>2. QED
        BY <2>2, <4>1
    <3>2. QED
      BY <2>3, <2>8, <3>1 DEF Agrees, Undisturbed
  <2>13. ASSUME Undisturbed, Alone(c)
         PROVE  Follows(s, now)
    BY <2>2, <2>4, <2>7, <2>13 DEF Agrees, Agreed
  <2>14. CASE Len(s) > 1
    <3>1. status' = status
      BY <2>3, <2>14
    <3>2. PICK t : t = Front(s)
      OBVIOUS
    <3>3. PICK S : s \in Seq(S)
      BY <2>7 DEF GoodStack
    <3>4. s[Len(s) - 1].at = "import" /\ s[Len(s)].mod = Head(s[Len(s) - 1].todo)
      <4>1. Len(s) - 1 \in 1 .. Len(s) - 1 /\ (Len(s) - 1) + 1 = Len(s)
        BY <2>7, <2>14
      <4>2. QED
        BY <2>7, <4>1 DEF GoodStack
    <3>5. s[Len(s)].mod = m
      BY <2>10
    <3>6. Follows(s, now) => Follows(t, new)
      BY <2>11, <2>14, <3>2, <3>3, <3>4, <3>5, FollowsPopped
    <3>7. ASSUME Undisturbed, Alone(c)
          PROVE  Agreed(c)'
      <4>1. Follows(t, new)'
        BY <2>3, <2>13, <3>6, <3>7, SameFollows
      <4>2. stack'[c] = t
        BY <2>3, <3>2 DEF Created
      <4>3. Follows(stack[c], Now)'
        BY <2>6, <4>1, <4>2
      <4>4. QED
        BY <2>7, <3>1, <4>3 DEF Agreed
    <3>8. QED
      BY <2>7, <2>12, <3>1, <3>7, MoveAgrees
  <2>15. CASE Len(s) = 1
    <3>1. status'[c] = "done" /\ \A d \in Calls \ {c} : status'[d] = status[d]
      BY <2>3, <2>15 DEF Created
    <3>2. Last(injectors').mod = m
      <4>1. PICK i : i = [mod |-> m, binds |-> b]
        OBVIOUS
      <4>2. PICK ins : ins = injectors'
        OBVIOUS
      <4>3. /\ injectors \in Seq([mod : Modules, binds : Binds]) /\ ins = Append(injectors, i)
        BY <2>3, <4>1, <4>2 DEF Complete, Bound
      <4>4. Len(ins) = Len(injectors) + 1 /\ ins[Len(injectors) + 1] = i
        BY <4>3, AppendAny
      <4>5. Last(ins) = i
        BY <4>4 DEF Last
      <4>6. QED
        BY <4>1, <4>2, <4>5
    <3>3. ASSUME Undisturbed, Alone(c)
          PROVE  SyncCreated[Size][Empty][m] = new
      <4>1. PICK starts : /\ starts[1] = Empty
                          /\ \A i \in 1 .. Len(s) : Began(s[i], i, starts[i], starts[i + 1])
                          /\ Waits(Size - Len(s), s[Len(s)], starts[Len(s) + 1], now)
        BY <2>13, <3>3 DEF Follows
      <4>2. Began(s[1], 1, Empty, starts[2]) /\ Waits(Size - 1, s[1], starts[2], now)
        BY <2>15, <4>1
      <4>3. SyncCreated[Size - 1 + 1][Empty][m] = new
        BY <2>11, <2>15, <4>2
      <4>4. Size - 1 + 1 = Size
        BY SizeNat
      <4>5. QED
        BY <4>3, <4>4
    <3>4. ASSUME Undisturbed, Alone(c)
          PROVE  Agreed(c)'
      <4>1. SyncCreated[Size][Empty][m] = new
        BY <3>3, <3>4
      <4>2. SyncCreated' = SyncCreated
        BY <2>3, SameSync
      <4>3. Empty' = Empty
        BY DEF Empty
      <4>4. (SyncCreateAndResolve(Empty, Last(injectors).mod) = Now)'
        BY <2>6, <3>2, <4>1, <4>2, <4>3 DEF SyncCreateAndResolve, Size
      <4>5. QED
        BY <3>1, <4>4 DEF Agreed
    <3>5. QED
      BY <2>12, <3>1, <3>4, MoveAgrees
  <2>16. Len(s) > 1 \/ Len(s) = 1
    <3>1. PICK k : k = Len(s)
      OBVIOUS
    <3>2. k \in Nat \ {0}
      BY <2>7, <3>1
    <3>3. k > 1 \/ k = 1
      BY <3>2
    <3>4. QED
      BY <3>1, <3>3
  <2>17. QED
    BY <2>14, <2>15, <2>16
<1>3. QED
  BY <1>1, <1>2

LEMMA AgreesStep ==
  ASSUME Created, Once, Complete, SharesAll, Agrees, [Next]_vars
  PROVE  Agrees'
<1>1. ASSUME NEW c \in Calls, ImportNext(c)
      PROVE  Agrees'
  BY <1>1, ImportNextAgrees
<1>2. ASSUME NEW c \in Calls, Imported(c)
      PROVE  Agrees'
  <2>1. /\ stack[c] # <<>> /\ Last(stack[c]).at = "import"
        /\ TakeExports(c, Last(stack[c]))
    BY <1>2 DEF Imported
  <2>2. Last(stack[c]).todo # <<>>
    BY <2>1, LastFrame DEF GoodFrame
  <2>3. QED
    BY <2>1, <2>2, TakeExportsAgrees
<1>3. ASSUME NEW c \in Calls, Register(c)
      PROVE  Agrees'
  BY <1>3, RegisterAgrees
<1>4. ASSUME NEW c \in Calls, Throw(c)
      PROVE  Agrees'
  BY <1>4, FailAgrees DEF Throw
<1>5. ASSUME NEW c \in Calls, NEW m \in Modules, Start(c, m)
      PROVE  Agrees'
  BY <1>5, StartAgrees
<1>6. ASSUME NEW m \in Modules, RemoveModule(m)
      PROVE  Agrees'
  <2>1. removes' = removes + 1 /\ registered' = [registered EXCEPT ![m] = None]
    BY <1>6 DEF RemoveModule
  <2>2. ~Undisturbed'
    BY <2>1 DEF Once, Undisturbed
  <2>3. registered' \in [Modules -> Nat \cup {None}]
    BY <2>1 DEF Agrees
  <2>4. QED
    BY <2>2, <2>3 DEF Agrees
<1>7. CASE UNCHANGED vars
  <2>1. UNCHANGED <<graph, injectors, registered, metadata, removes, stack, status, overlapped>>
    BY <1>7 DEF vars
  <2>2. SyncCreated' = SyncCreated
    BY <2>1, SameSync
  <2>3. Now' = Now /\ Empty' = Empty /\ Undisturbed' = Undisturbed
    BY <2>1 DEF Now, Empty, Undisturbed
  <2>4. ASSUME NEW c \in Calls, Agreed(c)
        PROVE  Agreed(c)'
    <3>1. PICK s, now : s = stack[c] /\ now = Now
      OBVIOUS
    <3>2. Follows(s, now)' <=> Follows(s, now)
      BY <2>1, SameFollows
    <3>3. stack'[c] = s /\ Now' = now
      BY <2>1, <2>3, <3>1
    <3>4. status[c] = "running" => Follows(stack[c], Now)'
      BY <2>4, <3>1, <3>2, <3>3 DEF Agreed
    <3>5. QED
      BY <2>1, <2>2, <2>3, <2>4, <3>4 DEF Agreed, SyncCreateAndResolve
  <2>5. \A c \in Calls : Alone(c)' => Alone(c)
    BY <2>1 DEF Alone
  <2>6. QED
    BY <2>1, <2>3, <2>4, <2>5 DEF Agrees
<1>8. QED
  BY <1>1, <1>2, <1>3, <1>4, <1>5, <1>6, <1>7 DEF Next

LEMMA AgreesInit ==
  ASSUME Init
  PROVE  Agrees
BY DEF Init, Agrees, Agreed, Now, Empty

\* For every set of acyclic graphs: a call that nobody disturbs leaves what the
\* recursion of SyncModuleInjector computes, wherever its awaits cut it: the same
\* injectors in the same order, bound to the same instances.
THEOREM ModulesAgreeWithSync == Spec => []AgreesWithSync
<1>1. ASSUME Created /\ Once /\ Complete /\ SharesAll /\ Agrees, [Next]_vars
      PROVE  Agrees'
  BY <1>1, AgreesStep
<1>2. ASSUME Agrees
      PROVE  AgreesWithSync
  BY <1>2 DEF Agrees, Agreed, Alone, AgreesWithSync, Now
<1>3. QED
  BY <1>1, <1>2, AgreesInit, CompleteInvariant, PTL DEF Spec
=============================================================================
