---------------------------- MODULE StartupProofs ----------------------------
(***************************************************************************)
(* Theorems about Startup, for any number of servers, whatever routes are  *)
(* declared and however many requests look for theirs: starts that do not  *)
(* overlap share their modules, and the first route that matches answers.  *)
(***************************************************************************)
EXTENDS Startup, SequenceTheorems, FiniteSetTheorems, WellFoundedInduction, TLAPS

-----------------------------------------------------------------------------
(* Servers and modules                                                     *)

\* Without overlap there is one start under way at most, and only before the
\* class remembers its modules.
Alone ==
    ~overlapped =>
        \A s \in Servers : at[s] = "creating" =>
            remembered = None /\ \A t \in Servers : at[t] = "creating" => t = s

Inv == ModulesAreShared /\ Alone

\* An application that has not been started satisfies the invariant.
LEMMA InitInv == Init => Inv
  BY StartupAssumption DEF Init, Inv, ModulesAreShared, TypeOK, Alone

\* A server that gets its modules: what it changes besides the table.
LEMMA Served ==
  ASSUME NEW s \in Servers, NEW m \in Servers, NEW table, Serve(s, m, table)
  PROVE  /\ at' = [at EXCEPT ![s] = "piped"]
         /\ modules' = [modules EXCEPT ![s] = m]
         /\ remembered' = IF remembered = None THEN m ELSE remembered
  BY DEF Serve, Remember

\* Whoever is served gets what the class remembers, unless starts overlap.
LEMMA ServedInv ==
  ASSUME Inv, NEW s \in Servers, NEW m \in Servers, NEW table, Serve(s, m, table),
         socket' = socket, overlapped' \in BOOLEAN, overlapped => overlapped',
         ~overlapped' => /\ remembered \in {None, m}
                         /\ \A t \in Servers : at[t] = "creating" => t = s
  PROVE  Inv'
<1>1. TypeOK'
  BY Served, StartupAssumption DEF Inv, ModulesAreShared, TypeOK
<1>2. \A t \in Servers : socket'[t] \in {None, remembered'}
  BY Served DEF Inv, ModulesAreShared
<1>3. ASSUME ~overlapped', NEW t \in Servers
      PROVE  modules'[t] \in {None, remembered'}
  BY <1>3, Served, StartupAssumption DEF Inv, ModulesAreShared, TypeOK
<1>4. Alone'
  BY Served DEF Inv, ModulesAreShared, TypeOK, Alone
<1>5. QED
  BY <1>1, <1>2, <1>3, <1>4 DEF Inv, ModulesAreShared

\* A start that fails leaves nothing behind.
LEMMA FailsInv ==
  ASSUME Inv, NEW s \in Servers, Fails(s), modules[s] = None,
         socket' = socket, overlapped' \in BOOLEAN, overlapped => overlapped'
  PROVE  Inv'
  BY DEF Fails, Inv, ModulesAreShared, TypeOK, Alone

\* Every step keeps the invariant.
LEMMA InvStep == Inv /\ [Next]_vars => Inv'
<1> SUFFICES ASSUME Inv, [Next]_vars PROVE Inv'
  OBVIOUS
<1>0. TypeOK
  BY DEF Inv, ModulesAreShared
<1>1. ASSUME NEW s \in Servers, NEW sync \in BOOLEAN, PipeServer(s, sync) PROVE Inv'
  <2>1. /\ socket' = socket /\ overlapped' \in BOOLEAN /\ (overlapped => overlapped')
        /\ ~overlapped' => \A t \in Servers : at[t] # "creating"
        /\ modules[s] = None /\ at[s] # "piped"
    BY <1>0, <1>1 DEF PipeServer, TypeOK
  <2>2. CASE remembered # None /\ Serve(s, remembered, routes[remembered])
    BY <1>0, <2>1, <2>2, ServedInv DEF TypeOK
  <2>3. CASE remembered = None /\ ServeNew(s)
    BY <2>1, <2>3, ServedInv DEF ServeNew
  <2>4. CASE Fails(s)
    BY <2>1, <2>4, FailsInv
  <2>5. CASE /\ remembered = None /\ at' = [at EXCEPT ![s] = "creating"]
             /\ UNCHANGED <<modules, routes, remembered>>
    BY <1>0, <2>1, <2>5 DEF Inv, ModulesAreShared, TypeOK, Alone
  <2>6. QED
    BY <1>1, <2>2, <2>3, <2>4, <2>5 DEF PipeServer
<1>2. ASSUME NEW s \in Servers, ModulesCreated(s) PROVE Inv'
  <2>1. /\ socket' = socket /\ overlapped' = overlapped /\ overlapped \in BOOLEAN
        /\ modules[s] = None /\ at[s] = "creating"
    BY <1>0, <1>2 DEF ModulesCreated, TypeOK
  <2>2. CASE ServeNew(s)
    BY <2>1, <2>2, ServedInv DEF ServeNew, Inv, Alone
  <2>3. CASE Fails(s)
    BY <2>1, <2>3, FailsInv
  <2>4. QED
    BY <1>2, <2>2, <2>3 DEF ModulesCreated
<1>3. ASSUME NEW s \in Servers, PipeWebSocket(s) PROVE Inv'
  BY <1>0, <1>3 DEF PipeWebSocket, Inv, ModulesAreShared, TypeOK, Alone
<1>4. CASE UNCHANGED <<at, modules, socket, remembered, overlapped>>
  BY <1>4 DEF Inv, ModulesAreShared, TypeOK, Alone
<1>5. QED
  BY <1>1, <1>2, <1>3, <1>4
     DEF Next, vars, startVars, CreateRule, Request, ParseRequest, NoRouteFound

\* However many servers an application has and however often their starts
\* fail, starts that are awaited one after the other share one set of modules,
\* and web sockets always get the one that the class remembers.
THEOREM StartupSharesModules == Spec => []ModulesAreShared
<1>1. Inv => ModulesAreShared
  BY DEF Inv
<1>2. QED
  BY InitInv, InvStep, <1>1, PTL DEF Spec

-----------------------------------------------------------------------------
(* Natural numbers                                                         *)

\* What holds of 0 and of the successors of whatever it holds of.
LEMMA Induction ==
  ASSUME NEW P \in SUBSET Nat, 0 \in P, \A n \in P : n + 1 \in P
  PROVE  P = Nat
<1> DEFINE B == Nat \ P
<1>1. SUFFICES ASSUME B # {}
               PROVE  FALSE
  OBVIOUS
<1>2. PICK j \in B : \A m \in B : <<m, j>> \notin OpToRel(<, Nat)
  <2>1. B \in SUBSET Nat
    OBVIOUS
  <2> HIDE DEF B
  <2>2. QED
    BY <1>1, <2>1, NatLessThanWellFounded, WFMin
<1>3. \A m \in B : ~ m < j
  BY <1>2 DEF OpToRel
<1>4. j - 1 \in P /\ (j - 1) + 1 = j
  BY <1>3
<1>5. QED
  BY <1>4

\* Up to n, it is enough that it holds of successors up to n.
LEMMA SegmentInduction ==
  ASSUME NEW n \in Nat, NEW G \in SUBSET Nat, 0 \in G, \A k \in G : k < n => k + 1 \in G
  PROVE  n \in G
<1> DEFINE P == {k \in Nat : k <= n => k \in G}
<1>1. 0 \in P /\ \A k \in P : k + 1 \in P
  OBVIOUS
<1>2. P = Nat
  <2> HIDE DEF P
  <2>1. P \in SUBSET Nat
    BY DEF P
  <2>2. QED
    BY <1>1, <2>1, Induction
<1>3. QED
  BY <1>2

\* A set of natural numbers has a smallest element.
LEMMA MinIn ==
  ASSUME NEW s \in SUBSET Nat, s # {}
  PROVE  Min(s) \in s /\ \A y \in s : Min(s) <= y
<1>1. PICK j \in s : \A m \in s : <<m, j>> \notin OpToRel(<, Nat)
  BY NatLessThanWellFounded, WFMin
<1>2. \A m \in s : ~ m < j
  BY <1>1 DEF OpToRel
<1>3. \A m \in s : j <= m
  BY <1>2
<1>4. QED
  BY <1>3 DEF Min

\* A bounded one has a largest element.
LEMMA MaxIn ==
  ASSUME NEW n \in Nat, NEW s \in SUBSET (0 .. n), s # {}
  PROVE  Max(s) \in s /\ \A y \in s : Max(s) >= y
<1> DEFINE B == {k \in Nat : \A y \in s : k >= y}
<1>1. B # {} /\ B \in SUBSET Nat
  <2>1. n \in B
    OBVIOUS
  <2>2. QED
    BY <2>1
<1>2. PICK j \in B : \A m \in B : <<m, j>> \notin OpToRel(<, Nat)
  <2> HIDE DEF B
  <2>2. QED
    BY <1>1, NatLessThanWellFounded, WFMin
<1>3. \A m \in B : ~ m < j
  BY <1>2 DEF OpToRel
<1>4. j \in s
  <2>1. SUFFICES ASSUME j \notin s
                 PROVE  FALSE
    OBVIOUS
  <2>2. j # 0
    <3>1. PICK y \in s : j >= y
      BY <1>2
    <3>2. y \in Nat /\ y # j
      BY <2>1
    <3>3. QED
      BY <3>1, <3>2
  <2>3. j - 1 \in B
    BY <2>1, <2>2
  <2>4. QED
    BY <1>3, <2>3
<1>5. j \in s /\ \A y \in s : j >= y
  BY <1>2, <1>4
<1>6. QED
  BY <1>5 DEF Max

-----------------------------------------------------------------------------
(* Patterns                                                                *)

\* c takes more than d, or as much, of the first k cuts.
Takes(c, d, k) ==
    \/ \A j \in 0 .. k - 1 : c[j] = d[j]
    \/ \E i \in 0 .. k - 1 : (\A j \in 0 .. i - 1 : c[j] = d[j]) /\ c[i] > d[i]

\* A path that matches has one way of cutting it that is greedy.
LEMMA GreedyIsCut ==
  ASSUME NEW pattern, IsSequence(pattern.parts), NEW path, IsSequence(path),
         Cuts(pattern, path) # {}
  PROVE  Greedy(pattern, path) \in Cuts(pattern, path)
<1> DEFINE C == Cuts(pattern, path)
           n == Len(pattern.parts)
           l == Len(path)
           G == {k \in Nat : \E c \in C : \A d \in C : Takes(c, d, k)}
<1>1. n \in Nat /\ l \in Nat
  BY LenProperties DEF IsSequence
<1>2. C \subseteq [0 .. n -> 0 .. l]
  BY DEF Cuts
<1> HIDE DEF C, n, l
<1>3. 0 \in G
  <2>1. PICK c \in C : TRUE
    BY DEF C
  <2>2. \A d \in C : Takes(c, d, 0)
    BY DEF Takes
  <2>3. QED
    BY <2>2
<1>4. ASSUME NEW k \in G, k < n + 1
      PROVE  k + 1 \in G
  <2>1. PICK c \in C : \A d \in C : Takes(c, d, k)
    OBVIOUS
  <2> DEFINE A == {d \in C : \A j \in 0 .. k - 1 : c[j] = d[j]}
             V == {d[k] : d \in A}
  <2>2. \A d \in C : d[k] \in 0 .. l
    <3>1. k \in 0 .. n
      BY <1>1, <1>4
    <3>2. QED
      BY <1>2, <3>1
  <2>3. V \in SUBSET (0 .. l) /\ V # {}
    <3>1. c \in A
      OBVIOUS
    <3>2. QED
      BY <2>2, <3>1
  <2>4. PICK m \in A : \A d \in A : m[k] >= d[k]
    <3>1. PICK v \in V : \A y \in V : v >= y
      <4> HIDE DEF V
      <4>1. QED
        BY <1>1, <2>3, MaxIn
    <3>2. QED
      BY <3>1
  <2>5. ASSUME NEW d \in C
        PROVE  Takes(m, d, k + 1)
    <3>1. m \in C /\ \A j \in 0 .. k - 1 : c[j] = m[j]
      BY <2>4
    <3>2. m[k] \in Int /\ d[k] \in Int
      BY <2>2, <3>1
    <3>3. CASE d \in A
      <4>1. \A j \in 0 .. k - 1 : m[j] = d[j]
        BY <3>1, <3>3
      <4>2. m[k] >= d[k]
        BY <2>4, <3>3
      <4>3. CASE m[k] = d[k]
        <5>1. \A j \in 0 .. (k + 1) - 1 : m[j] = d[j]
          BY <4>1, <4>3
        <5>2. QED
          BY <5>1 DEF Takes
      <4>4. CASE m[k] > d[k]
        <5>1. k \in 0 .. (k + 1) - 1
          OBVIOUS
        <5>2. QED
          BY <4>1, <4>4, <5>1 DEF Takes
      <4>5. QED
        BY <3>2, <4>2, <4>3, <4>4
    <3>4. CASE d \notin A
      <4>1. PICK i \in 0 .. k - 1 : (\A j \in 0 .. i - 1 : c[j] = d[j]) /\ c[i] > d[i]
        BY <2>1, <3>4 DEF Takes
      <4>2. (\A j \in 0 .. i - 1 : m[j] = d[j]) /\ m[i] > d[i]
        BY <3>1, <4>1
      <4>3. i \in 0 .. (k + 1) - 1
        OBVIOUS
      <4>4. QED
        BY <4>2, <4>3 DEF Takes
    <3>5. QED
      BY <3>3, <3>4
  <2>6. QED
    BY <2>4, <2>5
<1>5. n + 1 \in G
  <2>1. G \in SUBSET Nat /\ n + 1 \in Nat
    BY <1>1
  <2> HIDE DEF G
  <2>2. QED
    BY <1>3, <1>4, <2>1, SegmentInduction
<1>6. PICK c \in C : \A d \in C : Takes(c, d, n + 1)
  BY <1>5
<1>7. ASSUME NEW d \in C \ {c}
      PROVE  \E i \in DOMAIN c : (\A j \in 0 .. i - 1 : c[j] = d[j]) /\ c[i] > d[i]
  <2>1. c \in [0 .. n -> 0 .. l] /\ d \in [0 .. n -> 0 .. l] /\ c # d
    BY <1>2
  <2>2. \E i \in 0 .. n : c[i] # d[i]
    <3>1. c = [i \in 0 .. n |-> c[i]] /\ d = [i \in 0 .. n |-> d[i]]
      BY <2>1
    <3>2. QED
      BY <2>1, <3>1
  <2>3. \E i \in 0 .. n : (\A j \in 0 .. i - 1 : c[j] = d[j]) /\ c[i] > d[i]
    <3>1. Takes(c, d, n + 1)
      BY <1>6
    <3>2. (n + 1) - 1 = n
      BY <1>1
    <3>3. QED
      BY <2>2, <3>1, <3>2 DEF Takes
  <2>4. QED
    BY <2>1, <2>3
<1>8. QED
  BY <1>7 DEF Greedy, C

\* The groups of a pattern are as many as a number can tell.
LEMMA GroupsAreFinite ==
  ASSUME NEW pattern, AreParts(pattern.parts)
  PROVE  /\ IsFiniteSet(Groups(pattern))
         /\ \A group \in Groups(pattern) : group[1] \in Nat /\ group[2] \in Nat
<1> DEFINE Of(i) == {i} \X (1 .. pattern.parts[i].groups)
           D == DOMAIN pattern.parts
           S == {Of(i) : i \in D}
<1>1. D = 1 .. Len(pattern.parts) /\ Len(pattern.parts) \in Nat
  BY LenProperties DEF AreParts, IsSequence
<1>2. \A i \in D : pattern.parts[i].groups \in Nat
  BY DEF AreParts, ToSet
<1>3. ASSUME NEW i \in D
      PROVE  IsFiniteSet(Of(i))
  <2>1. PICK m \in Nat : m = pattern.parts[i].groups
    BY <1>2
  <2>2. IsFiniteSet(1 .. m)
    BY FS_Interval
  <2>3. IsFiniteSet({i})
    BY FS_Singleton, Zenon
  <2>4. QED
    BY <2>1, <2>2, <2>3, FS_Product
<1>4. IsFiniteSet(D)
  BY <1>1, FS_Interval
<1>5. IsFiniteSet(S)
  <2>1. PICK f : f = [i \in D |-> Of(i)]
    OBVIOUS
  <2> HIDE DEF Of, D
  <2>2. f \in Surjection(D, S)
    BY <2>1 DEF Surjection
  <2>3. QED
    BY <1>4, <2>2, FS_Surjection
<1>6. \A x \in S : IsFiniteSet(x)
  BY <1>3
<1>7. IsFiniteSet(UNION S)
  <2> HIDE DEF S
  <2>1. QED
    BY <1>5, <1>6, FS_UNION
<1>8. Groups(pattern) = UNION S
  BY Zenon DEF Groups
<1>9. \A group \in Groups(pattern) : group[1] \in Nat /\ group[2] \in Nat
  BY <1>1, <1>2 DEF Groups
<1>10. QED
  BY <1>7, <1>8, <1>9

\* Groups that are opened one after the other have numbers of their own.
LEMMA NumberIsOwn ==
  ASSUME NEW pattern, AreParts(pattern.parts),
         NEW a \in Groups(pattern), NEW b \in Groups(pattern),
         Number(pattern, a) = Number(pattern, b)
  PROVE  a[1] = b[1] /\ a[2] = b[2]
<1>1. \A c, d \in Groups(pattern) :
          c[1] < d[1] \/ (c[1] = d[1] /\ c[2] < d[2]) => Number(pattern, c) # Number(pattern, d)
  <2> SUFFICES ASSUME NEW c \in Groups(pattern), NEW d \in Groups(pattern),
                      c[1] < d[1] \/ (c[1] = d[1] /\ c[2] < d[2])
               PROVE  Number(pattern, c) # Number(pattern, d)
    OBVIOUS
  <2>1. /\ c[1] \in Nat /\ c[2] \in Nat /\ d[1] \in Nat /\ d[2] \in Nat
        /\ \A other \in Groups(pattern) : other[1] \in Nat /\ other[2] \in Nat
    BY GroupsAreFinite
  <2>2. d \in Opened(pattern, d) /\ d \notin Opened(pattern, c)
    BY <2>1 DEF Opened
  <2>3. Opened(pattern, c) \subseteq Opened(pattern, d)
    BY <2>1 DEF Opened
  <2>4. IsFiniteSet(Opened(pattern, d))
    BY GroupsAreFinite, FS_Subset DEF Opened
  <2>5. QED
    BY <2>2, <2>3, <2>4, FS_Subset DEF Number
<1>2. a[1] \in Nat /\ a[2] \in Nat /\ b[1] \in Nat /\ b[2] \in Nat
  BY GroupsAreFinite
<1>3. ~(a[1] < b[1] \/ (a[1] = b[1] /\ a[2] < b[2]))
  BY <1>1, Zenon
<1>4. ~(b[1] < a[1] \/ (b[1] = a[1] /\ b[2] < a[2]))
  BY <1>1, Zenon
<1>5. QED
  BY <1>2, <1>3, <1>4

\* If nothing before variable p shifts it, its index is the number of its group.
LEMMA NumberIsIndex ==
  ASSUME NEW pattern, AreParts(pattern.parts), NEW p \in Variables(pattern),
         pattern.parts[p].groups > 0,
         \A i \in 1 .. p - 1 :
             pattern.parts[i].groups = IF IsVariable(pattern.parts[i]) THEN 1 ELSE 0
  PROVE  <<p, 1>> \in Groups(pattern) /\ Number(pattern, <<p, 1>>) = Index(pattern, p)
<1> DEFINE S == {j \in Variables(pattern) : j <= p}
           T == Opened(pattern, <<p, 1>>)
           f == [j \in S |-> <<j, 1>>]
<1>1. DOMAIN pattern.parts = 1 .. Len(pattern.parts) /\ Len(pattern.parts) \in Nat
  BY LenProperties DEF AreParts, IsSequence
<1>2. \A i \in DOMAIN pattern.parts : pattern.parts[i].groups \in Nat
  BY DEF AreParts, ToSet
<1>3. p \in 1 .. Len(pattern.parts) /\ Variables(pattern) \subseteq 1 .. Len(pattern.parts)
  BY <1>1 DEF Variables
<1>4. \A i, g : <<i, g>> \in Groups(pattern)
                  <=> i \in 1 .. Len(pattern.parts) /\ g \in 1 .. pattern.parts[i].groups
  BY <1>1 DEF Groups
<1>5. \A group \in Groups(pattern) : group = <<group[1], group[2]>>
  BY DEF Groups
<1>6. <<p, 1>> \in Groups(pattern)
  BY <1>1, <1>2, <1>3, <1>4
<1>7. ASSUME NEW j \in S
      PROVE  <<j, 1>> \in T
  <2>1. j \in 1 .. Len(pattern.parts) /\ j <= p /\ IsVariable(pattern.parts[j])
    BY <1>3 DEF Variables
  <2>2. <<j, 1>> \in Groups(pattern)
    BY <1>3, <1>4, <1>6, <2>1
  <2>3. QED
    BY <1>3, <2>1, <2>2 DEF Opened
<1>8. ASSUME NEW t \in T
      PROVE  t[1] \in S /\ t = <<t[1], 1>>
  <2>1. /\ t \in Groups(pattern) /\ t = <<t[1], t[2]>>
        /\ t[1] < p \/ (t[1] = p /\ t[2] <= 1)
    BY <1>5 DEF Opened
  <2>2. t[1] \in 1 .. Len(pattern.parts) /\ t[2] \in 1 .. pattern.parts[t[1]].groups
    BY <1>4, <2>1
  <2>3. CASE t[1] < p
    <3>1. t[1] \in 1 .. p - 1
      BY <1>3, <2>2, <2>3
    <3>2. IsVariable(pattern.parts[t[1]]) /\ pattern.parts[t[1]].groups = 1
      BY <2>2, <3>1
    <3>3. t[1] \in S /\ t[2] = 1
      BY <1>1, <1>3, <2>2, <3>1, <3>2 DEF Variables
    <3>4. QED
      BY <2>1, <3>3
  <2>4. CASE t[1] = p /\ t[2] <= 1
    <3>1. pattern.parts[p].groups \in Nat
      BY <1>1, <1>2, <1>3
    <3>2. t[2] = 1 /\ t[1] \in S
      BY <1>3, <2>2, <2>4, <3>1
    <3>3. QED
      BY <2>1, <3>2
  <2>5. QED
    BY <2>1, <2>3, <2>4
<1>9. f \in Bijection(S, T)
  <2> HIDE DEF S, T
  <2>1. f \in [S -> T] /\ \A i, j \in S : f[i] = f[j] => i = j
    BY <1>7
  <2>2. \A t \in T : \E j \in S : f[j] = t
    BY <1>8
  <2> HIDE DEF f
  <2>3. f \in Injection(S, T)
    BY <2>1 DEF Injection, IsInjective
  <2>4. f \in Surjection(S, T)
    BY <2>1, <2>2 DEF Surjection
  <2>5. QED
    BY <2>3, <2>4 DEF Bijection
<1>10. IsFiniteSet(S)
  <2>1. PICK l \in Nat : l = Len(pattern.parts)
    BY <1>1
  <2>2. IsFiniteSet(1 .. l)
    BY FS_Interval
  <2>3. S \subseteq 1 .. l
    BY <1>3, <2>1
  <2>4. QED
    BY <2>2, <2>3, FS_Subset
<1>11. Cardinality(S) = Cardinality(T)
  <2> HIDE DEF S, T, f
  <2>1. QED
    BY <1>9, <1>10, FS_Bijection DEF ExistsBijection
<1>12. QED
  BY <1>6, <1>11 DEF Number, Index

\* A name stands for a variable of its pattern.
LEMMA PartIsVariable ==
  ASSUME NEW pattern, IsSequence(pattern.parts), NEW name \in Names(pattern)
  PROVE  PartOf(pattern, name) \in Variables(pattern)
<1> DEFINE S == {i \in Variables(pattern) : pattern.parts[i].name = name}
<1>1. DOMAIN pattern.parts = 1 .. Len(pattern.parts) /\ Len(pattern.parts) \in Nat
  BY LenProperties DEF IsSequence
<1>2. S \in SUBSET (0 .. Len(pattern.parts)) /\ S # {}
  BY <1>1 DEF Names, Variables
<1>3. Max(S) \in S
  <2> HIDE DEF S
  <2>1. QED
    BY <1>1, <1>2, MaxIn
<1>4. QED
  BY <1>3 DEF PartOf

\* A parameter that is aligned has a text of its own part.
LEMMA ParamsAreOwn ==
  ASSUME NEW pattern, AreParts(pattern.parts), NEW path, IsSequence(path),
         Cuts(pattern, path) # {}, NEW name \in Names(pattern), IsAligned(pattern, name)
  PROVE  Params(pattern, path)[name] \in OwnTexts(pattern, path, name)
<1>1. PICK p : p = PartOf(pattern, name)
  OBVIOUS
<1>2. p \in Variables(pattern)
  BY <1>1, PartIsVariable DEF AreParts
<1>3. /\ pattern.parts[p].groups > 0 /\ pattern.parts[p].whole
      /\ \A i \in 1 .. p - 1 :
             pattern.parts[i].groups = IF IsVariable(pattern.parts[i]) THEN 1 ELSE 0
  BY <1>1 DEF IsAligned
<1>4. PICK k : k = Index(pattern, p)
  OBVIOUS
<1>5. <<p, 1>> \in Groups(pattern) /\ Number(pattern, <<p, 1>>) = k
  BY <1>2, <1>3, <1>4, NumberIsIndex
<1>6. PICK group : group = CHOOSE g \in Groups(pattern) : Number(pattern, g) = k
  OBVIOUS
<1>7. group \in Groups(pattern) /\ Number(pattern, group) = k
  BY <1>5, <1>6
<1>8. group[1] = p /\ group[2] = 1
  <2>1. PICK own1 \in Groups(pattern) : own1 = <<p, 1>>
    BY <1>5
  <2>2. Number(pattern, group) = Number(pattern, own1)
    BY <1>5, <1>7, <2>1
  <2>3. group[1] = own1[1] /\ group[2] = own1[2]
    BY <1>7, <2>2, NumberIsOwn
  <2>4. QED
    BY <2>1, <2>3
<1>9. Capture(pattern, path, k) = Text(path, Greedy(pattern, path), p)
  BY <1>3, <1>5, <1>6, <1>8 DEF Capture, GroupCapture
<1>10. Params(pattern, path)[name] = Text(path, Greedy(pattern, path), p)
  BY <1>1, <1>4, <1>9 DEF Params
<1>11. Greedy(pattern, path) \in Cuts(pattern, path)
  BY GreedyIsCut DEF AreParts
<1>12. QED
  BY <1>1, <1>10, <1>11 DEF OwnTexts

-----------------------------------------------------------------------------
(* Routes                                                                  *)

\* The largest index of a segment is its end.
LEMMA MaxOfSegment ==
  ASSUME NEW n \in Nat
  PROVE  Max(1 .. n + 1) = n + 1 /\ (1 .. n + 1) \ {n + 1} = 1 .. n
<1>1. n + 1 \in 1 .. n + 1 /\ \A y \in 1 .. n + 1 : n + 1 >= y
  OBVIOUS
<1>2. \A x \in 1 .. n + 1 : (\A y \in 1 .. n + 1 : x >= y) => x = n + 1
  BY <1>1
<1>3. Max(1 .. n + 1) = n + 1
  BY <1>1, <1>2 DEF Max
<1>4. QED
  BY <1>3

\* iter is the function FoldLeft recurses along, on n elements of seq.
Iterates(S, base, n, seq, step, iter) ==
    /\ iter \in [SUBSET (1 .. n) -> S]
    /\ \A s \in SUBSET (1 .. n) :
           iter[s] = IF s = {} THEN base ELSE step[<<iter[s \ {Max(s)}], seq[Max(s)]>>]

\* The function FoldLeft recurses along, for a step that is a function, is there.
LEMMA FoldExists ==
  ASSUME NEW S, NEW T, NEW base \in S, NEW n \in Nat, NEW seq, \A i \in 1 .. n : seq[i] \in T,
         NEW step \in [S \X T -> S]
  PROVE  \E iter : Iterates(S, base, n, seq, step, iter)
<1> DEFINE Good(k, iter) == \A s \in SUBSET (1 .. k) :
             iter[s] = IF s = {} THEN base ELSE step[<<iter[s \ {Max(s)}], seq[Max(s)]>>]
           Has(k) == \E iter \in [SUBSET (1 .. k) -> S] : Good(k, iter)
           P == {k \in Nat : k > n \/ Has(k)}
<1>1. 0 \in P
  <2>1. PICK iter : iter = [s \in SUBSET (1 .. 0) |-> base]
    OBVIOUS
  <2>2. \A s \in SUBSET (1 .. 0) : s = {}
    OBVIOUS
  <2>3. iter \in [SUBSET (1 .. 0) -> S] /\ Good(0, iter)
    BY <2>1, <2>2
  <2>4. QED
    BY <2>3
<1>2. ASSUME NEW k \in P
      PROVE  k + 1 \in P
  <2>1. SUFFICES ASSUME k + 1 <= n
                 PROVE  Has(k + 1)
    <3> HIDE DEF Has
    <3>1. QED
      BY <2>1
  <2>2. PICK iter \in [SUBSET (1 .. k) -> S] : Good(k, iter)
    <3>1. Has(k)
      <4> HIDE DEF Has
      <4>1. QED
        BY <2>1
    <3>2. QED
      BY <3>1
  <2>3. PICK next : next = [s \in SUBSET (1 .. k + 1) |->
                      IF k + 1 \in s THEN step[<<iter[s \ {k + 1}], seq[k + 1]>>] ELSE iter[s]]
    OBVIOUS
  <2>4. ASSUME NEW s \in SUBSET (1 .. k + 1), k + 1 \notin s
        PROVE  s \in SUBSET (1 .. k) /\ next[s] = iter[s]
    BY <2>3, <2>4
  <2>5. ASSUME NEW s \in SUBSET (1 .. k + 1), k + 1 \in s
        PROVE  /\ s \ {k + 1} \in SUBSET (1 .. k) /\ Max(s) = k + 1 /\ seq[k + 1] \in T
               /\ next[s] = step[<<iter[s \ {k + 1}], seq[k + 1]>>]
    <3>1. \A x \in s : (\A y \in s : x >= y) => x = k + 1
      BY <2>5
    <3>2. \A y \in s : k + 1 >= y
      OBVIOUS
    <3>3. Max(s) = k + 1
      BY <2>5, <3>1, <3>2 DEF Max
    <3>4. k + 1 \in 1 .. n
      BY <2>1
    <3>5. QED
      BY <2>3, <2>5, <3>3, <3>4
  <2>6. next \in [SUBSET (1 .. k + 1) -> S]
    <3>1. ASSUME NEW s \in SUBSET (1 .. k + 1)
          PROVE  next[s] \in S
      <4>1. CASE k + 1 \in s
        BY <2>5, <4>1
      <4>2. CASE k + 1 \notin s
        BY <2>4, <4>2
      <4>3. QED
        BY <4>1, <4>2
    <3>2. QED
      BY <2>3, <3>1
  <2>7. ASSUME NEW s \in SUBSET (1 .. k + 1)
        PROVE  next[s] = IF s = {} THEN base ELSE step[<<next[s \ {Max(s)}], seq[Max(s)]>>]
    <3>1. CASE k + 1 \in s
      <4>1. next[s \ {k + 1}] = iter[s \ {k + 1}]
        BY <2>4
      <4>2. QED
        BY <2>5, <3>1, <4>1
    <3>2. CASE k + 1 \notin s /\ s # {}
      <4>1. s \in SUBSET (1 .. k) /\ next[s] = iter[s]
        BY <2>4, <3>2
      <4>2. next[s \ {Max(s)}] = iter[s \ {Max(s)}]
        BY <2>4, <3>2
      <4>3. QED
        BY <2>2, <3>2, <4>1, <4>2
    <3>3. CASE s = {}
      BY <2>2, <2>4, <3>3
    <3>4. QED
      BY <3>1, <3>2, <3>3
  <2>8. Good(k + 1, next)
    BY <2>7
  <2>9. QED
    BY <2>6, <2>8
<1>3. P = Nat
  <2> HIDE DEF P
  <2>1. P \in SUBSET Nat
    BY DEF P
  <2>2. QED
    BY <1>1, <1>2, <2>1, Induction
<1>4. Has(n)
  <2> HIDE DEF Has
  <2>1. QED
    BY <1>3
<1>5. QED
  BY <1>4 DEF Iterates


\* The definitions of routes are some of what is declared, in a sequence.
LEMMA DefinitionsAre ==
  ASSUME IsSequence(declared)
  PROVE  RouteDefinitions \in Seq(ToSet(declared))
<1> DEFINE T == ToSet(declared)
           Add(defs, def) == IF def.controller = "rest" THEN Append(defs, def) ELSE defs
           Body(iter) == [s \in SUBSET DOMAIN declared |-> IF s = {} THEN <<>>
                             ELSE Add(iter[s \ {Max(s)}], declared[Max(s)])]
           it == CHOOSE iter : iter = Body(iter)
           n == Len(declared)
<1>1. RouteDefinitions = it[DOMAIN declared]
  BY Zenon DEF RouteDefinitions, FoldLeft, MapThenFoldSet
<1>2. n \in Nat /\ DOMAIN declared = 1 .. n /\ \A i \in 1 .. n : declared[i] \in T
  BY LenProperties, ElementOfSeq DEF IsSequence
<1>3. \A defs \in Seq(T), def \in T : Add(defs, def) \in Seq(T)
  BY AppendProperties
<1>4. <<>> \in Seq(T)
  OBVIOUS
<1> HIDE DEF T, Add, n
<1>5. \E iter : iter = Body(iter)
  <2> DEFINE step == [x \in Seq(T) \X T |-> Add(x[1], x[2])]
  <2>1. step \in [Seq(T) \X T -> Seq(T)]
    BY <1>3
  <2>2. PICK iter : Iterates(Seq(T), <<>>, n, declared, step, iter)
    <3> HIDE DEF step
    <3>1. QED
      BY <1>2, <1>4, <2>1, FoldExists
  <2>3. ASSUME NEW s \in SUBSET (1 .. n), s # {}
        PROVE  iter[s] = Add(iter[s \ {Max(s)}], declared[Max(s)])
    <3>1. Max(s) \in 1 .. n
      <4>1. s \in SUBSET (0 .. n)
        OBVIOUS
      <4>2. Max(s) \in s
        BY <1>2, <2>3, <4>1, MaxIn
      <4>3. QED
        BY <4>2
    <3>2. iter[s \ {Max(s)}] \in Seq(T) /\ declared[Max(s)] \in T
      BY <1>2, <2>2, <3>1 DEF Iterates
    <3>3. iter[s] = step[<<iter[s \ {Max(s)}], declared[Max(s)]>>]
      BY <2>2, <2>3 DEF Iterates
    <3>4. QED
      BY <3>2, <3>3
  <2>4. iter[{}] = <<>>
    BY <2>2 DEF Iterates
  <2>5. iter = Body(iter)
    BY <1>2, <2>2, <2>3, <2>4 DEF Iterates
  <2>6. QED
    BY <2>5
<1>6. it = Body(it)
  BY <1>5
<1> HIDE DEF it
<1> DEFINE G == {k \in Nat : k <= n => it[1 .. k] \in Seq(T)}
<1>7. 0 \in G
  <2>1. 1 .. 0 = {}
    OBVIOUS
  <2>2. it[{}] = <<>>
    BY <1>6
  <2>3. QED
    BY <1>4, <2>1, <2>2
<1>8. ASSUME NEW k \in G, k < n
      PROVE  k + 1 \in G
  <2>1. Max(1 .. k + 1) = k + 1 /\ (1 .. k + 1) \ {k + 1} = 1 .. k
    BY MaxOfSegment
  <2>2. k + 1 \in 1 .. n /\ 1 .. k + 1 \in SUBSET (1 .. n) /\ k + 1 \in 1 .. k + 1
    BY <1>2, <1>8
  <2>3. it[1 .. k + 1] = Add(it[1 .. k], declared[k + 1])
    BY <1>2, <1>6, <2>1, <2>2
  <2>4. it[1 .. k] \in Seq(T)
    BY <1>2, <1>8
  <2>5. it[1 .. k + 1] \in Seq(T)
    BY <1>2, <1>3, <2>2, <2>3, <2>4
  <2>6. QED
    BY <2>5
<1>9. it[1 .. n] \in Seq(T)
  <2>1. n \in G
    <3>1. G \in SUBSET Nat
      OBVIOUS
    <3> HIDE DEF G
    <3>2. QED
      BY <1>2, <1>7, <1>8, <3>1, SegmentInduction
  <2>2. QED
    BY <1>2, <2>1
<1>10. QED
  BY <1>1, <1>2, <1>9 DEF T

\* What is a sequence of anything is one of its elements.
LEMMA IsSequenceOf ==
  ASSUME NEW S, NEW s \in Seq(S)
  PROVE  IsSequence(s) /\ DOMAIN s = 1 .. Len(s) /\ Len(s) \in Nat /\ ToSet(s) \subseteq S
<1>1. DOMAIN s = 1 .. Len(s) /\ Len(s) \in Nat /\ s = [i \in 1 .. Len(s) |-> s[i]]
  BY LenProperties
<1>2. \A i \in 1 .. Len(s) : s[i] \in ToSet(s)
  BY <1>1 DEF ToSet
<1>3. s \in Seq(ToSet(s))
  <2>1. [i \in 1 .. Len(s) |-> s[i]] \in Seq(ToSet(s))
    BY <1>1, <1>2, IsASeq
  <2>2. QED
    BY <1>1, <2>1
<1>4. ToSet(s) \subseteq S
  BY <1>1, ElementOfSeq DEF ToSet
<1>5. QED
  BY <1>1, <1>3, <1>4 DEF IsSequence

\* Sequences make a sequence.
LEMMA IsSequenceConcat ==
  ASSUME NEW s, NEW t, IsSequence(s), IsSequence(t)
  PROVE  IsSequence(s \o t)
<1> DEFINE U == ToSet(s) \cup ToSet(t)
<1>1. s \in Seq(U) /\ t \in Seq(U)
  <2>1. s \in Seq(ToSet(s)) /\ t \in Seq(ToSet(t)) /\ ToSet(s) \subseteq U /\ ToSet(t) \subseteq U
    BY DEF IsSequence
  <2> HIDE DEF U
  <2>2. QED
    BY <2>1, SeqMonotonic
<1>2. s \o t \in Seq(U)
  BY <1>1, ConcatProperties
<1>3. QED
  BY <1>2, IsSequenceOf

\* What two patterns are made of makes one.
LEMMA ArePartsConcat ==
  ASSUME NEW s, NEW t, AreParts(s), AreParts(t)
  PROVE  AreParts(s \o t)
<1> DEFINE U == ToSet(s) \cup ToSet(t)
<1>1. IsSequence(s) /\ IsSequence(t)
  BY DEF AreParts
<1>2. \A part \in U : part.groups \in Nat
  BY DEF AreParts
<1>3. s \in Seq(U) /\ t \in Seq(U)
  <2>1. s \in Seq(ToSet(s)) /\ t \in Seq(ToSet(t)) /\ ToSet(s) \subseteq U /\ ToSet(t) \subseteq U
    BY <1>1 DEF IsSequence
  <2> HIDE DEF U
  <2>2. QED
    BY <2>1, SeqMonotonic
<1> HIDE DEF U
<1>4. s \o t \in Seq(U)
  BY <1>3, ConcatProperties
<1>5. ToSet(s \o t) \subseteq U
  BY <1>4, ElementOfSeq DEF ToSet
<1>6. QED
  BY <1>1, <1>2, <1>5, IsSequenceConcat DEF AreParts

\* A table that starts with a rule for each route begins as pipeServer fills it.
Filled(table, all) == Len(all) <= Len(table) /\ \A k \in DOMAIN all : table[k].route = all[k]

\* What the application declares.
Declared == declared \in Declarations /\ own \in OwnRoutes

\* What there is to know of the routes.
LEMMA RoutesAre ==
  ASSUME Declared
  PROVE  /\ IsSequence(AllRoutes) /\ DOMAIN AllRoutes = 1 .. Len(AllRoutes) /\ Len(AllRoutes) \in Nat
         /\ \A route \in ToSet(AllRoutes) : AreParts(route.pattern.parts)
         /\ DOMAIN RouteDefinitions = 1 .. Len(RouteDefinitions) /\ Len(RouteDefinitions) \in Nat
         /\ DOMAIN own = 1 .. Len(own) /\ Len(own) \in Nat
         /\ Len(AllRoutes) = Len(own) + Len(RouteDefinitions)
         /\ \A k \in 1 .. Len(own) : AllRoutes[k] = own[k]
         /\ \A k \in 1 .. Len(RouteDefinitions) :
                AllRoutes[Len(own) + k] = RouteOf(RouteDefinitions[k])
<1> DEFINE R == {RouteOf(def) : def \in ToSet(declared)}
           U == ToSet(own) \cup R
<1>1. /\ IsSequence(own) /\ \A route \in ToSet(own) : AreParts(route.pattern.parts)
      /\ IsSequence(declared)
      /\ \A def \in ToSet(declared) : AreParts(def.prefix) /\ AreParts(def.path)
  BY SequencesAssumption DEF Declared
<1>2. \A def \in ToSet(declared) : AreParts(RouteOf(def).pattern.parts)
  <2>1. \A def \in ToSet(declared) : AreParts(def.prefix \o def.path)
    BY <1>1, ArePartsConcat
  <2>2. QED
    BY <2>1 DEF RouteOf, RoutePath
<1>3. PICK defs : defs = RouteDefinitions /\ defs \in Seq(ToSet(declared))
  BY <1>1, DefinitionsAre
<1>4. /\ DOMAIN defs = 1 .. Len(defs) /\ Len(defs) \in Nat
      /\ \A k \in 1 .. Len(defs) : defs[k] \in ToSet(declared)
  BY <1>3, LenProperties, ElementOfSeq
<1>5. PICK rest : rest = [k \in 1 .. Len(defs) |-> RouteOf(defs[k])]
  OBVIOUS
<1>6. rest \in Seq(U) /\ Len(rest) = Len(defs)
  <2>1. \A k \in 1 .. Len(defs) : rest[k] \in U
    BY <1>4, <1>5
  <2>2. [k \in 1 .. Len(defs) |-> rest[k]] \in Seq(U)
    <3> HIDE DEF U
    <3>1. QED
      BY <1>4, <2>1, IsASeq
  <2>3. rest \in Seq(U) /\ DOMAIN rest = 1 .. Len(defs)
    BY <1>5, <2>2
  <2>4. QED
    BY <1>4, <2>3, LenProperties
<1>7. own \in Seq(U) /\ DOMAIN own = 1 .. Len(own) /\ Len(own) \in Nat
  <2>1. own \in Seq(ToSet(own)) /\ ToSet(own) \subseteq U
    BY <1>1 DEF IsSequence
  <2> HIDE DEF U
  <2>2. QED
    BY <2>1, SeqMonotonic, LenProperties
<1>8. AllRoutes = own \o rest
  BY <1>3, <1>4, <1>5 DEF AllRoutes
<1>9. \A route \in U : AreParts(route.pattern.parts)
  BY <1>1, <1>2
<1> HIDE DEF U
<1>10. /\ own \o rest \in Seq(U) /\ Len(own \o rest) = Len(own) + Len(rest)
       /\ \A k \in 1 .. Len(own) + Len(rest) :
              (own \o rest)[k] = IF k <= Len(own) THEN own[k] ELSE rest[k - Len(own)]
  BY <1>6, <1>7, ConcatProperties
<1>11. /\ IsSequence(AllRoutes) /\ DOMAIN AllRoutes = 1 .. Len(AllRoutes)
       /\ Len(AllRoutes) \in Nat /\ ToSet(AllRoutes) \subseteq U
  BY <1>8, <1>10, IsSequenceOf
<1>12. \A k \in 1 .. Len(own) : AllRoutes[k] = own[k]
  BY <1>6, <1>7, <1>8, <1>10, <1>4
<1>13. \A k \in 1 .. Len(RouteDefinitions) :
           AllRoutes[Len(own) + k] = RouteOf(RouteDefinitions[k])
  <2> SUFFICES ASSUME NEW k \in 1 .. Len(RouteDefinitions)
               PROVE  AllRoutes[Len(own) + k] = RouteOf(RouteDefinitions[k])
    OBVIOUS
  <2>1. PICK q : q = Len(own) + k
    OBVIOUS
  <2>2. q \in 1 .. Len(own) + Len(rest) /\ ~ q <= Len(own) /\ q - Len(own) = k
    BY <1>3, <1>4, <1>6, <1>7, <2>1
  <2>3. (own \o rest)[q] = rest[k]
    BY <1>10, <2>2
  <2>4. QED
    BY <1>3, <1>5, <1>8, <2>1, <2>3
<1>14. QED
  BY <1>3, <1>4, <1>6, <1>7, <1>8, <1>9, <1>10, <1>11, <1>12, <1>13

-----------------------------------------------------------------------------
(* The search for a route                                                  *)

\* A rule is broken if its pattern is none.
Rules ==
    {r \in [route : ToSet(AllRoutes), rule : {"pending", "created", "broken"}] :
        /\ r.rule = "created" => Compiles(r.route.pattern)
        /\ r.rule = "broken" => ~Compiles(r.route.pattern)}

\* The routers that are served from have every route.
Tables ==
    /\ Declared
    /\ routes \in [Servers -> Seq(Rules)]
    /\ remembered # None => Filled(routes[remembered], AllRoutes)
    /\ \A s \in Servers : modules[s] # None => Filled(routes[modules[s]], AllRoutes)

\* A search has passed no route that answers, and an answer is right.
Lookup ==
    /\ lookup.at \in {"none", "looking", "found", "broken", "missing"}
    /\ lookup.at = "looking" =>
          /\ lookup \in [at : {"looking"}, table : Servers, path : Paths, verb : Verbs,
                         next : Nat \ {0}]
          /\ Filled(routes[lookup.table], AllRoutes)
          /\ \A k \in Candidates : lookup.next <= k
    /\ FirstRouteAnswers

\* The invariant.
RouteInv == Inv /\ Tables /\ Lookup

\* The rules of the controllers' routes.
LEMMA DefinitionRules ==
  ASSUME Declared
  PROVE  LET rules == [k \in DOMAIN RouteDefinitions |-> Rule(RouteOf(RouteDefinitions[k]))]
         IN  /\ rules \in Seq(Rules) /\ Len(rules) = Len(RouteDefinitions)
             /\ \A k \in 1 .. Len(RouteDefinitions) :
                    rules[k].route = AllRoutes[Len(own) + k]
<1> DEFINE rules == [k \in DOMAIN RouteDefinitions |-> Rule(RouteOf(RouteDefinitions[k]))]
<1>1. \A k \in 1 .. Len(RouteDefinitions) :
          RouteOf(RouteDefinitions[k]) \in ToSet(AllRoutes)
          /\ RouteOf(RouteDefinitions[k]) = AllRoutes[Len(own) + k]
  <2> SUFFICES ASSUME NEW k \in 1 .. Len(RouteDefinitions)
               PROVE  RouteOf(RouteDefinitions[k]) \in ToSet(AllRoutes)
                      /\ RouteOf(RouteDefinitions[k]) = AllRoutes[Len(own) + k]
    OBVIOUS
  <2>1. Len(own) + k \in DOMAIN AllRoutes
    BY RoutesAre
  <2>2. AllRoutes[Len(own) + k] \in ToSet(AllRoutes)
    BY <2>1 DEF ToSet
  <2>3. QED
    BY <2>2, RoutesAre
<1>2. \A route \in ToSet(AllRoutes) : Rule(route) \in Rules /\ Rule(route).route = route
  BY DEF Rule, Rules
<1>3. DOMAIN RouteDefinitions = 1 .. Len(RouteDefinitions) /\ Len(RouteDefinitions) \in Nat
  BY RoutesAre
<1>4. rules \in Seq(Rules)
  <2>1. \A k \in 1 .. Len(RouteDefinitions) : Rule(RouteOf(RouteDefinitions[k])) \in Rules
    BY <1>1, <1>2
  <2>2. [k \in 1 .. Len(RouteDefinitions) |-> Rule(RouteOf(RouteDefinitions[k]))] \in Seq(Rules)
    BY <1>3, <2>1, IsASeq
  <2>3. QED
    BY <1>3, <2>2
<1>5. Len(rules) = Len(RouteDefinitions)
  <2>1. DOMAIN rules = 1 .. Len(rules) /\ Len(rules) \in Nat
    BY <1>4, LenProperties
  <2>2. QED
    BY <1>3, <2>1
<1>6. \A k \in 1 .. Len(RouteDefinitions) : rules[k].route = AllRoutes[Len(own) + k]
  BY <1>1, <1>2, <1>3
<1>7. QED
  BY <1>4, <1>5, <1>6

\* The rules of the routes that the application has added itself.
LEMMA OwnRules ==
  ASSUME Declared
  PROVE  LET rules == [k \in DOMAIN own |-> Rule(own[k])]
         IN  /\ rules \in Seq(Rules) /\ Len(rules) = Len(own)
             /\ \A k \in 1 .. Len(own) : rules[k].route = AllRoutes[k]
<1> DEFINE rules == [k \in DOMAIN own |-> Rule(own[k])]
<1>1. \A k \in 1 .. Len(own) : own[k] \in ToSet(AllRoutes) /\ own[k] = AllRoutes[k]
  <2> SUFFICES ASSUME NEW k \in 1 .. Len(own)
               PROVE  own[k] \in ToSet(AllRoutes) /\ own[k] = AllRoutes[k]
    OBVIOUS
  <2>1. k \in DOMAIN AllRoutes
    BY RoutesAre
  <2>2. AllRoutes[k] \in ToSet(AllRoutes)
    BY <2>1 DEF ToSet
  <2>3. QED
    BY <2>2, RoutesAre
<1>2. \A route \in ToSet(AllRoutes) : Rule(route) \in Rules /\ Rule(route).route = route
  BY DEF Rule, Rules
<1>3. DOMAIN own = 1 .. Len(own) /\ Len(own) \in Nat
  BY RoutesAre
<1>4. rules \in Seq(Rules)
  <2>1. [k \in 1 .. Len(own) |-> Rule(own[k])] \in Seq(Rules)
    BY <1>1, <1>2, <1>3, IsASeq
  <2>2. QED
    BY <1>3, <2>1
<1>5. Len(rules) = Len(own)
  <2>1. DOMAIN rules = 1 .. Len(rules) /\ Len(rules) \in Nat
    BY <1>4, LenProperties
  <2>2. QED
    BY <1>3, <2>1
<1>6. \A k \in 1 .. Len(own) : rules[k].route = AllRoutes[k]
  BY <1>1, <1>2, <1>3
<1>7. QED
  BY <1>4, <1>5, <1>6

\* What a server adds to a table leaves it filled, or fills it.
LEMMA ServedTable ==
  ASSUME Declared, NEW table \in Seq(Rules),
         Filled(table, AllRoutes)
         \/ table = [k \in DOMAIN own |-> Rule(own[k])]
  PROVE  LET next == table \o [k \in DOMAIN RouteDefinitions |-> Rule(RouteOf(RouteDefinitions[k]))]
         IN  next \in Seq(Rules) /\ Filled(next, AllRoutes)
<1>1. PICK rest : /\ rest = [k \in DOMAIN RouteDefinitions |-> Rule(RouteOf(RouteDefinitions[k]))]
                  /\ rest \in Seq(Rules) /\ Len(rest) = Len(RouteDefinitions)
                  /\ \A k \in 1 .. Len(RouteDefinitions) : rest[k].route = AllRoutes[Len(own) + k]
  BY DefinitionRules
<1>2. PICK next : next = table \o rest
  OBVIOUS
<1>3. /\ next \in Seq(Rules) /\ Len(next) = Len(table) + Len(rest)
      /\ \A k \in 1 .. Len(table) + Len(rest) :
             next[k] = IF k <= Len(table) THEN table[k] ELSE rest[k - Len(table)]
  BY <1>1, <1>2, ConcatProperties
<1>4. Len(table) \in Nat /\ Len(rest) \in Nat
  BY <1>1, LenProperties
<1>5. CASE Filled(table, AllRoutes)
  <2>1. \A k \in DOMAIN AllRoutes : k \in 1 .. Len(table)
    BY <1>4, <1>5, RoutesAre DEF Filled
  <2>2. \A k \in DOMAIN AllRoutes : next[k] = table[k]
    BY <1>3, <1>4, <2>1
  <2>3. Len(AllRoutes) <= Len(next)
    BY <1>3, <1>4, <1>5, RoutesAre DEF Filled
  <2>4. QED
    BY <1>1, <1>2, <1>3, <1>5, <2>2, <2>3 DEF Filled
<1>6. CASE table = [k \in DOMAIN own |-> Rule(own[k])]
  <2>1. Len(table) = Len(own) /\ \A k \in 1 .. Len(own) : table[k].route = AllRoutes[k]
    BY <1>6, OwnRules
  <2>2. Len(next) = Len(AllRoutes)
    BY <1>1, <1>3, <2>1, RoutesAre
  <2>3. ASSUME NEW k \in DOMAIN AllRoutes
        PROVE  next[k].route = AllRoutes[k]
    <3>1. k \in 1 .. Len(table) + Len(rest)
      BY <1>1, <2>1, RoutesAre
    <3>2. CASE k <= Len(table)
      <4>1. next[k] = table[k] /\ k \in 1 .. Len(own)
        BY <1>3, <1>4, <2>1, <3>1, <3>2
      <4>2. QED
        BY <2>1, <4>1
    <3>3. CASE ~ k <= Len(table)
      <4>1. PICK j : j = k - Len(table)
        OBVIOUS
      <4>2. next[k] = rest[j]
        BY <1>3, <3>1, <3>3, <4>1
      <4>3. j \in 1 .. Len(rest) /\ Len(table) + j = k
        BY <1>4, <3>1, <3>3, <4>1
      <4>4. QED
        BY <1>1, <2>1, <4>2, <4>3
    <3>4. QED
      BY <3>2, <3>3
  <2>4. Len(AllRoutes) <= Len(next)
    BY <2>2, RoutesAre
  <2>5. Filled(next, AllRoutes)
    BY <2>3, <2>4 DEF Filled
  <2>6. QED
    BY <1>1, <1>2, <1>3, <2>5
<1>7. QED
  BY <1>5, <1>6

\* RouteDefinitions of given methods.
DefinitionsOf(defs) ==
    FoldLeft(LAMBDA definitions, def :
                 IF def.controller = "rest" THEN Append(definitions, def) ELSE definitions,
             <<>>, defs)

\* What is declared does not change.
LEMMA SameRoutes ==
  ASSUME UNCHANGED <<declared, own>>
  PROVE  AllRoutes' = AllRoutes
<1>1. RouteDefinitions = DefinitionsOf(declared)
  BY Zenon DEF RouteDefinitions, DefinitionsOf, FoldLeft, MapThenFoldSet
<1>2. RouteDefinitions' = DefinitionsOf(declared')
  BY Zenon DEF RouteDefinitions, DefinitionsOf, FoldLeft, MapThenFoldSet
<1>3. RouteDefinitions' = RouteDefinitions
  BY <1>1, <1>2
<1>4. QED
  BY <1>3 DEF AllRoutes

\* Whoever is served leaves the tables as they should be.
LEMMA ServedTables ==
  ASSUME Inv, Tables, NEW s \in Servers, NEW m \in Servers, NEW table \in Seq(Rules),
         Serve(s, m, table), UNCHANGED <<declared, own>>,
         Filled(table, AllRoutes) \/ table = [k \in DOMAIN own |-> Rule(own[k])]
  PROVE  /\ AllRoutes' = AllRoutes /\ Tables'
         /\ \A t \in Servers : Filled(routes[t], AllRoutes) => Filled(routes'[t], AllRoutes)
<1>1. AllRoutes' = AllRoutes
  BY SameRoutes
<1>2. PICK next : /\ next = table \o [k \in DOMAIN RouteDefinitions |-> Rule(RouteOf(RouteDefinitions[k]))]
                  /\ next \in Seq(Rules) /\ Filled(next, AllRoutes)
  BY ServedTable DEF Tables
<1>3. routes' = [routes EXCEPT ![m] = next]
  BY <1>2 DEF Serve
<1>4. routes' \in [Servers -> Seq(Rules)]
  BY <1>2, <1>3 DEF Tables
<1>5. \A t \in Servers : Filled(routes[t], AllRoutes) => Filled(routes'[t], AllRoutes)
  BY <1>2, <1>3 DEF Tables
<1>6. Filled(routes'[m], AllRoutes)
  BY <1>2, <1>3 DEF Tables
<1>7. remembered' # None => Filled(routes'[remembered'], AllRoutes)
  BY <1>5, <1>6, Served DEF Inv, ModulesAreShared, TypeOK, Tables
<1>8. ASSUME NEW t \in Servers, modules'[t] # None
      PROVE  Filled(routes'[modules'[t]], AllRoutes)
  <2>1. modules' = [modules EXCEPT ![s] = m] /\ modules \in [Servers -> Servers \cup {None}]
    BY Served DEF Inv, ModulesAreShared, TypeOK
  <2>2. CASE t = s
    BY <1>6, <2>1, <2>2
  <2>3. CASE t # s
    <3>1. modules'[t] = modules[t] /\ modules[t] \in Servers
      BY <1>8, <2>1, <2>3
    <3>2. QED
      BY <1>5, <1>8, <3>1 DEF Tables
  <2>4. QED
    BY <2>2, <2>3
<1>9. Rules' = Rules
  BY <1>1 DEF Rules
<1>10. Declared'
  BY DEF Tables, Declared
<1>11. QED
  BY <1>1, <1>4, <1>5, <1>7, <1>8, <1>9, <1>10 DEF Tables

\* Rules are well-formed as long as a search is.
LEMMA TablesTyped ==
  ASSUME Tables, lookup.at \in {"none", "looking", "found", "broken", "missing"}
  PROVE  TableTypeOK
<1>1. ASSUME NEW m \in Servers, NEW k \in DOMAIN routes[m]
      PROVE  routes[m][k] \in Rules
  <2>1. routes[m] \in Seq(Rules)
    BY DEF Tables
  <2>2. k \in 1 .. Len(routes[m])
    BY <2>1, LenProperties
  <2>3. QED
    BY <2>1, <2>2, ElementOfSeq
<1>2. \A r \in Rules : r.route \in ToSet(AllRoutes) /\ r.rule \in {"pending", "created", "broken"}
  BY DEF Rules
<1>3. QED
  BY <1>1, <1>2 DEF TableTypeOK, Tables, Declared

\* The same after a step.
LEMMA TablesTypedNext ==
  ASSUME Tables', lookup'.at \in {"none", "looking", "found", "broken", "missing"}
  PROVE  TableTypeOK'
<1>1. (Tables /\ lookup.at \in {"none", "looking", "found", "broken", "missing"}) => TableTypeOK
  BY TablesTyped
<1>2. ((Tables /\ lookup.at \in {"none", "looking", "found", "broken", "missing"}) => TableTypeOK)'
  BY TablesTyped, PTL
<1>3. QED
  BY <1>2

\* Of two searches for the same, the same routes are candidates.
LEMMA SameCandidates ==
  ASSUME AllRoutes' = AllRoutes, lookup'.path = lookup.path, lookup'.verb = lookup.verb
  PROVE  Candidates' = Candidates
<1>1. \A route : IsValid(route)' <=> IsValid(route)
  BY DEF IsValid
<1>2. QED
  BY <1>1 DEF Candidates, IsValid

\* While tables grow, a search stays where it is.
LEMMA SameLookup ==
  ASSUME Tables', Lookup, AllRoutes' = AllRoutes, lookup' = lookup,
         \A t \in Servers : Filled(routes[t], AllRoutes) => Filled(routes'[t], AllRoutes)
  PROVE  Lookup'
<1>1. Candidates' = Candidates
  BY SameCandidates
<1>2. TableTypeOK'
  BY TablesTypedNext DEF Lookup
<1>3. FirstRouteAnswers'
  BY <1>1, <1>2 DEF Lookup, FirstRouteAnswers
<1>4. lookup.at = "looking" => lookup.table \in Servers
  BY DEF Lookup
<1>5. QED
  BY <1>1, <1>3, <1>4 DEF Lookup

\* A rule that has come to be is one for the same route.
LEMMA CreateRuleStep ==
  ASSUME RouteInv, NEW m \in Servers, NEW k \in DOMAIN routes[m], CreateRule(m, k)
  PROVE  Tables' /\ Lookup'
<1> DEFINE rule == IF Compiles(routes[m][k].route.pattern) THEN "created" ELSE "broken"
<1>1. AllRoutes' = AllRoutes
  BY SameRoutes DEF CreateRule
<1>2. PICK t \in Seq(Rules) : t = routes[m]
  BY DEF RouteInv, Tables
<1>3. k \in 1 .. Len(t) /\ t[k] \in Rules
  BY <1>2, LenProperties, ElementOfSeq
<1>4. PICK r : r = [t[k] EXCEPT !.rule = rule]
  OBVIOUS
<1>5. r \in Rules /\ r.route = t[k].route
  BY <1>2, <1>3, <1>4 DEF Rules
<1>6. PICK u : u = [t EXCEPT ![k] = r]
  OBVIOUS
<1>7. u \in Seq(Rules) /\ Len(u) = Len(t) /\ \A i \in 1 .. Len(t) : u[i] = IF i = k THEN r ELSE t[i]
  BY <1>2, <1>3, <1>5, <1>6, ExceptSeq, LenProperties
<1>8. routes' = [routes EXCEPT ![m] = u]
  BY <1>2, <1>3, <1>4, <1>6 DEF CreateRule, RouteInv, Tables
<1>9. Filled(t, AllRoutes) => Filled(u, AllRoutes)
  <2>1. SUFFICES ASSUME Filled(t, AllRoutes) PROVE Filled(u, AllRoutes)
    OBVIOUS
  <2>2. \A i \in DOMAIN AllRoutes : i \in 1 .. Len(t)
    BY <2>1, RoutesAre, LenProperties DEF Filled, RouteInv, Tables
  <2>3. \A i \in 1 .. Len(t) : u[i].route = t[i].route
    BY <1>5, <1>7
  <2>4. QED
    BY <1>7, <2>1, <2>2, <2>3 DEF Filled
<1>10. \A s \in Servers : Filled(routes[s], AllRoutes) => Filled(routes'[s], AllRoutes)
  BY <1>2, <1>8, <1>9 DEF RouteInv, Tables
<1>11. Tables'
  <2>1. Rules' = Rules
    BY <1>1 DEF Rules
  <2>2. routes' \in [Servers -> Seq(Rules)]
    BY <1>7, <1>8 DEF RouteInv, Tables
  <2>3. /\ modules' = modules /\ remembered' = remembered /\ Declared'
        /\ remembered \in Servers \cup {None} /\ \A s \in Servers : modules[s] \in Servers \cup {None}
    BY DEF CreateRule, RouteInv, Tables, Declared, Inv, ModulesAreShared, TypeOK
  <2>4. QED
    BY <1>1, <1>10, <2>1, <2>2, <2>3 DEF RouteInv, Tables
<1>12. QED
  BY <1>1, <1>10, <1>11, SameLookup DEF CreateRule, RouteInv

\* A search starts at the first rule of a table that is filled.
LEMMA RequestStep ==
  ASSUME RouteInv, Tables', NEW s \in Servers, NEW path \in Paths, NEW verb \in Verbs,
         Request(s, path, verb)
  PROVE  Lookup'
<1>1. AllRoutes' = AllRoutes /\ routes' = routes
  BY SameRoutes DEF Request, startVars
<1>2. PICK table \in Servers : table = modules[s] /\ Filled(routes[table], AllRoutes)
  BY DEF Request, RouteInv, Tables, Inv, ModulesAreShared, TypeOK
<1>3. lookup' = [at |-> "looking", table |-> table, path |-> path, verb |-> verb, next |-> 1]
  BY <1>2 DEF Request
<1>4. /\ lookup' \in [at : {"looking"}, table : Servers, path : Paths, verb : Verbs, next : Nat \ {0}]
      /\ lookup'.at = "looking" /\ lookup'.table = table /\ lookup'.next = 1
  BY ONLY <1>3
<1>5. \A k \in Candidates' : 1 <= k
  BY <1>1, RoutesAre DEF Candidates, RouteInv, Tables
<1>6. FirstRouteAnswers'
  BY <1>4, TablesTypedNext DEF FirstRouteAnswers
<1>7. QED
  BY <1>1, <1>2, <1>4, <1>5, <1>6 DEF Lookup

\* The rule that a search is at has a route that was declared, and if the
\* search has passed that before, it is none that answers.
LEMMA RuleAt ==
  ASSUME Tables, Lookup, lookup.at = "looking", NEW rule,
         lookup.next \in DOMAIN routes[lookup.table], rule = routes[lookup.table][lookup.next]
  PROVE  /\ rule \in Rules /\ AreParts(rule.route.pattern.parts)
         /\ lookup.next \in DOMAIN AllRoutes => AllRoutes[lookup.next] = rule.route
         /\ ~Compiles(rule.route.pattern) \/ IsValid(rule.route)
               => lookup.next \in Candidates /\ Min(Candidates) = lookup.next
<1>1. PICK t \in Seq(Rules) : t = routes[lookup.table]
  BY DEF Tables, Lookup
<1>2. PICK k \in Nat \ {0} : k = lookup.next
  BY DEF Lookup
<1>3. k \in 1 .. Len(t) /\ rule = t[k] /\ rule \in Rules
  BY <1>1, <1>2, LenProperties, ElementOfSeq
<1>4. k \in DOMAIN AllRoutes => AllRoutes[k] = rule.route
  BY <1>1, <1>2, <1>3 DEF Filled, Lookup
<1>5. rule.route \in ToSet(AllRoutes)
  BY <1>3 DEF Rules
<1>6. AreParts(rule.route.pattern.parts)
  BY <1>5, RoutesAre DEF Tables
<1>7. Candidates \subseteq DOMAIN AllRoutes /\ \A c \in Candidates : k <= c
  BY <1>2 DEF Candidates, Lookup
<1>8. ASSUME ~Compiles(rule.route.pattern) \/ IsValid(rule.route)
      PROVE  k \in Candidates /\ Min(Candidates) = k
  <2>1. PICK j \in DOMAIN AllRoutes : AllRoutes[j] = rule.route
    BY <1>5 DEF ToSet
  <2>2. j \in Candidates /\ k <= j
    BY <1>7, <1>8, <2>1 DEF Candidates
  <2>3. k \in DOMAIN AllRoutes
    BY <2>1, <2>2, RoutesAre DEF Tables
  <2>4. k \in Candidates
    BY <1>4, <1>8, <2>3 DEF Candidates
  <2>5. Candidates \in SUBSET Nat /\ Candidates # {}
    BY <1>7, <2>4, RoutesAre DEF Tables
  <2>6. Min(Candidates) \in Candidates /\ \A y \in Candidates : Min(Candidates) <= y
    BY <2>5, MinIn
  <2>7. QED
    BY <1>7, <2>4, <2>5, <2>6
<1>9. QED
  BY <1>2, <1>3, <1>4, <1>6, <1>8

\* A search ends at the first candidate, or passes what is none.
LEMMA ParseRequestStep ==
  ASSUME RouteInv, Tables', ParseRequest
  PROVE  Lookup'
<1>1. AllRoutes' = AllRoutes /\ routes' = routes
  BY SameRoutes DEF ParseRequest, startVars
<1>2. PICK rule : rule = routes[lookup.table][lookup.next]
  OBVIOUS
<1>3. lookup.at = "looking" /\ lookup.next \in DOMAIN routes[lookup.table] /\ rule.rule # "pending"
  BY <1>2 DEF ParseRequest, Awaited
<1>4. /\ rule \in Rules /\ AreParts(rule.route.pattern.parts)
      /\ lookup.next \in DOMAIN AllRoutes => AllRoutes[lookup.next] = rule.route
      /\ ~Compiles(rule.route.pattern) \/ IsValid(rule.route)
            => lookup.next \in Candidates /\ Min(Candidates) = lookup.next
  BY <1>2, <1>3, RuleAt DEF RouteInv
<1>5. PICK k \in Nat \ {0} : k = lookup.next
  BY <1>3 DEF RouteInv, Lookup
<1>6. /\ rule.rule \in {"created", "broken"}
      /\ rule.rule = "created" => Compiles(rule.route.pattern)
      /\ rule.rule = "broken" => ~Compiles(rule.route.pattern)
  BY <1>3, <1>4 DEF Rules
<1>7. Candidates \subseteq DOMAIN AllRoutes /\ \A c \in Candidates : k <= c
  BY <1>3, <1>5 DEF Candidates, RouteInv, Lookup
<1>8. ~Compiles(rule.route.pattern) \/ IsValid(rule.route)
         => Candidates # {} /\ AllRoutes[Min(Candidates)] = rule.route
  BY <1>4, <1>5, <1>7
<1>9. CASE rule.rule = "broken" /\ Ends("broken")
  <2>1. lookup' = [at |-> "broken", path |-> lookup.path, verb |-> lookup.verb]
    BY <1>9 DEF Ends
  <2>2. lookup'.at = "broken" /\ lookup'.path = lookup.path /\ lookup'.verb = lookup.verb
    BY ONLY <2>1
  <2>3. Candidates' = Candidates
    BY <1>1, <2>2, SameCandidates
  <2>4. TableTypeOK'
    BY <2>2, TablesTypedNext
  <2>5. FirstRouteAnswers'
    BY <1>1, <1>6, <1>8, <1>9, <2>2, <2>3, <2>4 DEF FirstRouteAnswers
  <2>6. QED
    BY <2>2, <2>5 DEF Lookup
<1>10. CASE /\ rule.rule = "created" /\ IsValid(rule.route)
            /\ lookup' = [at |-> "found", path |-> lookup.path, verb |-> lookup.verb,
                          route |-> rule.route,
                          params |-> Params(rule.route.pattern, lookup.path)]
  <2>1. /\ lookup'.at = "found" /\ lookup'.path = lookup.path /\ lookup'.verb = lookup.verb
        /\ lookup'.route = rule.route
        /\ lookup'.params = Params(rule.route.pattern, lookup.path)
    BY <1>10
  <2>2. Candidates' = Candidates
    BY <1>1, <2>1, SameCandidates
  <2>3. TableTypeOK'
    BY <2>1, TablesTypedNext
  <2>4. IsSequence(lookup.path)
    BY <1>3, SequencesAssumption DEF RouteInv, Lookup
  <2>5. Cuts(rule.route.pattern, lookup.path) # {}
    BY <1>10 DEF IsValid, Matches
  <2>6. \A name \in Names(rule.route.pattern) : IsAligned(rule.route.pattern, name) =>
            Params(rule.route.pattern, lookup.path)[name]
                \in OwnTexts(rule.route.pattern, lookup.path, name)
    BY <1>4, <2>4, <2>5, ParamsAreOwn
  <2>7. FirstRouteAnswers'
    BY <1>1, <1>6, <1>8, <1>10, <2>1, <2>2, <2>3, <2>6 DEF FirstRouteAnswers
  <2>8. QED
    BY <2>1, <2>7 DEF Lookup
<1>11. CASE /\ rule.rule # "broken"
            /\ rule.rule = "created" => ~IsValid(rule.route)
            /\ lookup' = [lookup EXCEPT !.next = @ + 1]
  <2>1. lookup \in [at : {"looking"}, table : Servers, path : Paths, verb : Verbs, next : Nat \ {0}]
    BY <1>3 DEF RouteInv, Lookup
  <2>2. lookup' = [lookup EXCEPT !.next = k + 1]
    BY <1>5, <1>11
  <2>3. /\ lookup' \in [at : {"looking"}, table : Servers, path : Paths, verb : Verbs, next : Nat \ {0}]
        /\ lookup'.at = "looking" /\ lookup'.path = lookup.path /\ lookup'.verb = lookup.verb
        /\ lookup'.table = lookup.table /\ lookup'.next = k + 1
    <3>1. k + 1 \in Nat \ {0}
      OBVIOUS
    <3>2. QED
      BY ONLY <2>1, <2>2, <3>1
  <2>4. Candidates' = Candidates
    BY <1>1, <2>3, SameCandidates
  <2>5. ASSUME NEW c \in Candidates
        PROVE  k + 1 <= c
    <3>1. c # k
      <4>1. Compiles(rule.route.pattern) /\ ~IsValid(rule.route)
        BY <1>6, <1>11
      <4>2. k \in DOMAIN AllRoutes => AllRoutes[k] = rule.route
        BY <1>4, <1>5
      <4>3. c \in DOMAIN AllRoutes /\ (~Compiles(AllRoutes[c].pattern) \/ IsValid(AllRoutes[c]))
        BY DEF Candidates
      <4>4. QED
        BY <4>1, <4>2, <4>3
    <3>2. k <= c /\ c \in Nat
      BY <1>7, RoutesAre DEF RouteInv, Tables
    <3>3. QED
      BY <3>1, <3>2
  <2>6. FirstRouteAnswers'
    BY <2>3, TablesTypedNext DEF FirstRouteAnswers
  <2>7. Filled(routes[lookup.table], AllRoutes)
    BY <1>3 DEF RouteInv, Lookup
  <2>8. QED
    BY <1>1, <2>3, <2>4, <2>5, <2>6, <2>7 DEF Lookup
<1>12. QED
  BY <1>2, <1>6, <1>9, <1>10, <1>11 DEF ParseRequest

\* A search that has passed the whole table has found that there is no candidate.
LEMMA NoRouteFoundStep ==
  ASSUME RouteInv, Tables', NoRouteFound
  PROVE  Lookup'
<1>1. AllRoutes' = AllRoutes
  BY SameRoutes DEF NoRouteFound, startVars
<1>2. lookup.at = "looking"
  BY DEF NoRouteFound
<1>3. PICK t \in Seq(Rules) : t = routes[lookup.table]
  BY <1>2 DEF RouteInv, Tables, Lookup
<1>4. PICK k \in Nat \ {0} : k = lookup.next
  BY <1>2 DEF RouteInv, Lookup
<1>5. ~ k <= Len(t) /\ Len(t) \in Nat /\ Len(AllRoutes) <= Len(t)
  <2>1. DOMAIN t = 1 .. Len(t) /\ Len(t) \in Nat
    BY LenProperties
  <2>2. k \notin DOMAIN t
    BY <1>3, <1>4 DEF NoRouteFound
  <2>3. Len(AllRoutes) <= Len(t)
    BY <1>2, <1>3 DEF Filled, RouteInv, Lookup
  <2>4. QED
    BY <2>1, <2>2, <2>3
<1>6. Candidates = {}
  <2>1. Candidates \subseteq DOMAIN AllRoutes /\ \A c \in Candidates : k <= c
    BY <1>2, <1>4 DEF Candidates, RouteInv, Lookup
  <2>2. DOMAIN AllRoutes = 1 .. Len(AllRoutes) /\ Len(AllRoutes) \in Nat
    BY RoutesAre DEF RouteInv, Tables
  <2>3. QED
    BY <1>5, <2>1, <2>2
<1>7. lookup' = [at |-> "missing", path |-> lookup.path, verb |-> lookup.verb]
  BY DEF NoRouteFound, Ends
<1>8. lookup'.at = "missing" /\ lookup'.path = lookup.path /\ lookup'.verb = lookup.verb
  BY ONLY <1>7
<1>9. Candidates' = {}
  BY <1>1, <1>6, <1>8, SameCandidates
<1>10. TableTypeOK'
  BY <1>8, TablesTypedNext
<1>11. FirstRouteAnswers'
  BY <1>8, <1>9, <1>10 DEF FirstRouteAnswers
<1>12. QED
  BY <1>8, <1>11 DEF Lookup

\* Without rules and searches, there is nothing to be wrong.
LEMMA RouteInvInit == Init => RouteInv
<1> SUFFICES ASSUME Init PROVE RouteInv
  OBVIOUS
<1>1. Inv
  BY InitInv
<1>2. Tables
  <2>1. <<>> \in Seq(Rules)
    OBVIOUS
  <2>2. QED
    BY <2>1 DEF Init, Tables, Declared
<1>3. lookup.at = "none"
  BY DEF Init, Idle
<1>4. FirstRouteAnswers
  BY <1>2, <1>3, TablesTyped DEF FirstRouteAnswers
<1>5. QED
  BY <1>1, <1>2, <1>3, <1>4 DEF RouteInv, Lookup

\* A server that gets its modules leaves the search where it is.
LEMMA ServeStep ==
  ASSUME RouteInv, NEW s \in Servers, UNCHANGED <<declared, own, lookup>>,
         \/ remembered # None /\ Serve(s, remembered, routes[remembered])
         \/ ServeNew(s)
  PROVE  Tables' /\ Lookup'
<1>1. CASE remembered # None /\ Serve(s, remembered, routes[remembered])
  <2>1. /\ remembered \in Servers /\ routes[remembered] \in Seq(Rules)
        /\ Filled(routes[remembered], AllRoutes)
    BY <1>1 DEF RouteInv, Tables, Inv, ModulesAreShared, TypeOK
  <2>2. /\ AllRoutes' = AllRoutes /\ Tables'
        /\ \A t \in Servers : Filled(routes[t], AllRoutes) => Filled(routes'[t], AllRoutes)
    BY <1>1, <2>1, ServedTables DEF RouteInv
  <2>3. QED
    BY <2>2, SameLookup DEF RouteInv
<1>2. CASE ServeNew(s)
  <2>1. PICK table : table = [k \in DOMAIN own |-> Rule(own[k])] /\ table \in Seq(Rules)
    BY OwnRules DEF RouteInv, Tables
  <2>2. Serve(s, s, table)
    BY <1>2, <2>1 DEF ServeNew
  <2>3. /\ AllRoutes' = AllRoutes /\ Tables'
        /\ \A t \in Servers : Filled(routes[t], AllRoutes) => Filled(routes'[t], AllRoutes)
    BY <2>1, <2>2, ServedTables DEF RouteInv
  <2>4. QED
    BY <2>3, SameLookup DEF RouteInv
<1>3. QED
  BY <1>1, <1>2

\* A step that changes no table and no modules leaves both as they are.
LEMMA SameTables ==
  ASSUME RouteInv, UNCHANGED <<declared, own, modules, remembered, routes>>
  PROVE  Tables'
<1>1. AllRoutes' = AllRoutes
  BY SameRoutes
<1>2. Rules' = Rules
  BY <1>1 DEF Rules
<1>3. QED
  BY <1>1, <1>2 DEF RouteInv, Tables, Declared

\* The same for the search.
LEMMA SameSearch ==
  ASSUME RouteInv, UNCHANGED <<declared, own, modules, remembered, routes, lookup>>
  PROVE  Tables' /\ Lookup'
BY SameTables, SameRoutes, SameLookup DEF RouteInv

\* Every step keeps the invariant.
LEMMA RouteInvStep == RouteInv /\ [Next]_vars => RouteInv'
<1> SUFFICES ASSUME RouteInv, [Next]_vars PROVE RouteInv'
  OBVIOUS
<1>0. Inv'
  BY InvStep DEF RouteInv
<1>1. ASSUME NEW s \in Servers, NEW sync \in BOOLEAN, PipeServer(s, sync)
      PROVE  Tables' /\ Lookup'
  <2>1. CASE (remembered # None /\ Serve(s, remembered, routes[remembered])) \/ ServeNew(s)
    BY <1>1, <2>1, ServeStep DEF PipeServer
  <2>2. CASE UNCHANGED <<modules, routes, remembered>>
    BY <1>1, <2>2, SameSearch DEF PipeServer
  <2>3. QED
    BY <1>1, <2>1, <2>2 DEF PipeServer, Fails
<1>2. ASSUME NEW s \in Servers, ModulesCreated(s)
      PROVE  Tables' /\ Lookup'
  <2>1. CASE ServeNew(s)
    BY <1>2, <2>1, ServeStep DEF ModulesCreated
  <2>2. CASE Fails(s)
    BY <1>2, <2>2, SameSearch DEF ModulesCreated, Fails
  <2>3. QED
    BY <1>2, <2>1, <2>2 DEF ModulesCreated
<1>3. ASSUME NEW s \in Servers, PipeWebSocket(s)
      PROVE  Tables' /\ Lookup'
  BY <1>3, SameSearch DEF PipeWebSocket
<1>4. ASSUME NEW m \in Servers, NEW k \in DOMAIN routes[m], CreateRule(m, k)
      PROVE  Tables' /\ Lookup'
  BY <1>4, CreateRuleStep
<1>5. ASSUME NEW s \in Servers, NEW path \in Paths, NEW verb \in Verbs, Request(s, path, verb)
      PROVE  Tables' /\ Lookup'
  BY <1>5, SameTables, RequestStep DEF Request, startVars
<1>6. CASE ParseRequest
  BY <1>0, <1>6, SameTables, ParseRequestStep DEF ParseRequest, startVars, RouteInv
<1>7. CASE NoRouteFound
  BY <1>0, <1>7, SameTables, NoRouteFoundStep DEF NoRouteFound, startVars, RouteInv
<1>8. CASE UNCHANGED vars
  BY <1>0, <1>8, SameSearch DEF vars, startVars, RouteInv
<1>9. QED
  BY <1>0, <1>1, <1>2, <1>3, <1>4, <1>5, <1>6, <1>7, <1>8 DEF RouteInv, Next

\* Whatever routes are declared, in whatever order their rules come to be and
\* however often servers add them again while requests look for theirs, the
\* first of them that is of a request's verb and matches its path answers it,
\* with the parameters that its own variables stand for.
THEOREM StartupFirstRouteAnswers == Spec => []FirstRouteAnswers
<1>1. RouteInv => FirstRouteAnswers
  BY DEF RouteInv, Lookup
<1>2. QED
  BY RouteInvInit, RouteInvStep, <1>1, PTL DEF Spec
=============================================================================
