--------------------------- MODULE InjectorProofs ---------------------------
(***************************************************************************)
(* Theorems about two parts of di that share no state: InjectorTree, for   *)
(* every set of injectors, keys and values, and at the end the calls of    *)
(* InterceptedMethod, for any interceptors.                                *)
(***************************************************************************)
EXTENDS InjectorTree, InterceptedMethod, FiniteSetTheorems, SequenceTheorems,
        WellFoundedInduction, TLAPS

-----------------------------------------------------------------------------
(* Lemmas on the operators                                                 *)

\* splice(-1, 1) removes the last element of an array, if there is one.
LEMMA SpliceLast ==
    ASSUME NEW S, NEW s \in Seq(S)
    PROVE  /\ Splice(s, -1) \in Seq(S)
           /\ Len(Splice(s, -1)) = IF s = <<>> THEN 0 ELSE Len(s) - 1
           /\ \A i \in 1 .. Len(Splice(s, -1)) : Splice(s, -1)[i] = s[i]
           /\ ToSet(Splice(s, -1)) \subseteq ToSet(s)
<1>1. CASE s = <<>>
  BY <1>1 DEF Splice
<1>2. CASE s # <<>>
  <2>1. Splice(s, -1) = SubSeq(s, 1, Len(s) - 1)
    BY <1>2 DEF Splice, Front
  <2>2. Len(s) \in Nat \ {0}
    BY <1>2, EmptySeq
  <2>3. /\ SubSeq(s, 1, Len(s) - 1) \in Seq(S)
        /\ Len(SubSeq(s, 1, Len(s) - 1)) = Len(s) - 1
        /\ \A i \in 1 .. Len(s) - 1 : SubSeq(s, 1, Len(s) - 1)[i] = s[i]
    <3>1. PICK n \in Nat : n = Len(s) - 1
      BY <2>2
    <3>2. \A i \in 1 .. n : s[i] \in S
      BY <2>2, <3>1
    <3>3. /\ SubSeq(s, 1, n) \in Seq(S)
          /\ Len(SubSeq(s, 1, n)) = IF 1 <= n THEN n - 1 + 1 ELSE 0
          /\ \A i \in 1 .. n - 1 + 1 : SubSeq(s, 1, n)[i] = s[1 + i - 1]
      BY <3>2, SubSeqProperties
    <3>4. QED
      BY <3>1, <3>3
  <2>4. QED
    BY <1>2, <2>1, <2>2, <2>3 DEF ToSet
<1>3. QED
  BY <1>1, <1>2

\* indexOf answers -1 for an element that is not there.
LEMMA IndexOfAbsent ==
    ASSUME NEW S, NEW s \in Seq(S), NEW e, e \notin ToSet(s)
    PROVE  IndexOf(s, e) = -1
<1>1. {i \in 1 .. Len(s) : s[i] = e} = {}
  BY DEF ToSet
<1>2. SelectInSeq(s, LAMBDA x : x = e) = 0
  BY <1>1 DEF SelectInSeq
<1>3. QED
  BY <1>2 DEF IndexOf

\* push adds the element to what the array lists.
LEMMA ToSetAppend ==
    ASSUME NEW S, NEW s \in Seq(S), NEW e \in S
    PROVE  ToSet(Append(s, e)) = ToSet(s) \cup {e}
<1>1. /\ DOMAIN Append(s, e) = 1 .. Len(s) + 1
      /\ DOMAIN s = 1 .. Len(s)
      /\ Len(s) \in Nat
  OBVIOUS
<1>2. /\ \A i \in 1 .. Len(s) : Append(s, e)[i] = s[i]
      /\ Append(s, e)[Len(s) + 1] = e
  OBVIOUS
<1>3. QED
  BY <1>1, <1>2 DEF ToSet

\* ToSet by index.
LEMMA ToSetMember ==
    ASSUME NEW S, NEW s \in Seq(S), NEW e
    PROVE  e \in ToSet(s) <=> \E i \in 1 .. Len(s) : s[i] = e
BY DEF ToSet

\* A lookup visits the injector it starts at.
LEMMA ChainStart ==
    ASSUME NEW i \in Injectors
    PROVE  i \in Chain(i)
BY DEF Chain
-----------------------------------------------------------------------------
(* The inductive invariant                                                 *)

\* Nobody is its own child, and an injector that was not created is blank.
\* detach looks itself up in its own children: that it is never there is why
\* the index is always -1, and why the splice keeps children an array.
Blank ==
    /\ \A i \in Injectors : i \notin ToSet(children[i])
    /\ \A i \in Injectors \ created : parent[i] = NoParent

ChildrenOf(p) == {c \in Injectors : parent[c] = p}

Inv == TypeOK /\ Blank /\ NoChildLeak

\* The children of an injector are finitely many.
LEMMA ChildrenOfFinite ==
    ASSUME NEW p
    PROVE  /\ IsFiniteSet(ChildrenOf(p))
           /\ Cardinality(ChildrenOf(p)) \in Nat
BY TreeAssumption, FS_Subset, FS_CardinalityType DEF ChildrenOf

\* The initial state satisfies the invariant.
LEMMA InitInv == Init => Inv
<1> SUFFICES ASSUME Init PROVE Inv
  OBVIOUS
<1>1. TypeOK
  BY DEF Init, TypeOK, Bindings
<1>2. Blank
  BY DEF Init, Blank, ToSet
<1>3. NoChildLeak
  <2> SUFFICES ASSUME NEW p \in Injectors
               PROVE  Len(children[p]) <= Cardinality(ChildrenOf(p)) + relisted[p]
    BY DEF NoChildLeak, ChildrenOf
  <2>1. Len(children[p]) = 0 /\ relisted[p] = 0
    BY DEF Init
  <2>2. QED
    BY <2>1, ChildrenOfFinite
<1>4. QED
  BY <1>1, <1>2, <1>3 DEF Inv

\* A new parent for an orphan adds it to the children of that parent only.
LEMMA Adopt ==
    ASSUME TypeOK, NEW p \in Injectors, NEW c \in Injectors,
           parent[c] = NoParent, parent' = [parent EXCEPT ![c] = p],
           NEW q \in Injectors
    PROVE  /\ Cardinality(ChildrenOf(q)') \in Nat
           /\ Cardinality(ChildrenOf(q)') = IF q = p THEN Cardinality(ChildrenOf(q)) + 1
                                            ELSE Cardinality(ChildrenOf(q))
<1>1. c \notin ChildrenOf(q)
  BY TreeAssumption DEF ChildrenOf
<1>2. ChildrenOf(q)' = IF q = p THEN ChildrenOf(q) \cup {c} ELSE ChildrenOf(q)
  BY TreeAssumption DEF ChildrenOf, TypeOK
<1>3. QED
  BY <1>1, <1>2, ChildrenOfFinite, FS_AddElement, FS_CardinalityType

\* Leaving takes an injector from the children of its parent only.
LEMMA Leave ==
    ASSUME TypeOK, NEW c \in Injectors, parent' = [parent EXCEPT ![c] = NoParent],
           NEW q \in Injectors
    PROVE  /\ Cardinality(ChildrenOf(q)') \in Nat
           /\ Cardinality(ChildrenOf(q)') = IF q = parent[c] THEN Cardinality(ChildrenOf(q)) - 1
                                            ELSE Cardinality(ChildrenOf(q))
<1>1. c \in ChildrenOf(q) <=> q = parent[c]
  BY DEF ChildrenOf
<1>2. ChildrenOf(q)' = ChildrenOf(q) \ {c}
  BY TreeAssumption DEF ChildrenOf, TypeOK
<1>3. QED
  BY <1>1, <1>2, ChildrenOfFinite, FS_RemoveElement, FS_CardinalityType

\* What detach does to the arrays: the parent loses its last child.
LEMMA DetachArrays ==
    ASSUME Inv, NEW i \in Injectors
    PROVE  /\ ChildrenAfterDetach(i) =
                  IF parent[i] = NoParent THEN children
                  ELSE [children EXCEPT ![parent[i]] = Splice(@, -1)]
           /\ ChildrenAfterDetach(i) \in [Injectors -> Seq(Injectors)]
           /\ \A j \in Injectors : ChildrenAfterDetach(i)[j] =
                  IF j = parent[i] THEN Splice(children[j], -1) ELSE children[j]
<1>1. IndexOf(children[i], i) = -1
  BY IndexOfAbsent DEF Inv, TypeOK, Blank
<1>2. ChildrenAfterDetach(i) = IF parent[i] = NoParent THEN children
                               ELSE [children EXCEPT ![parent[i]] = Splice(@, -1)]
  BY <1>1 DEF ChildrenAfterDetach
<1>3. QED
  BY <1>2, SpliceLast, TreeAssumption DEF Inv, TypeOK

\* A function from some keys to values is a set of bindings, the empty one too.
LEMMA BindingsMember ==
    /\ \A ks \in SUBSET Keys : \A b \in [ks -> Values] : b \in Bindings
    /\ <<>> \in Bindings
<1>1. \A ks \in SUBSET Keys : \A b \in [ks -> Values] : b \in Bindings
  BY Zenon DEF Bindings
<1>2. <<>> \in [{} -> Values]
  OBVIOUS
<1>3. QED
  BY <1>1, <1>2

\* Every step keeps the type.
LEMMA NextType ==
    ASSUME Inv, Next
    PROVE  TypeOK'
<1> USE DEF Inv, TypeOK
<1>1. ASSUME NEW i \in Injectors, NewRoot(i)
      PROVE  TypeOK'
  BY <1>1 DEF NewRoot
<1>2. ASSUME NEW p \in Injectors, NEW c \in Injectors, CreateChild(p, c)
      PROVE  TypeOK'
  BY <1>2 DEF CreateChild
<1>3. ASSUME NEW p \in Injectors, NEW c \in Injectors, SetParent(c, p)
      PROVE  TypeOK'
  BY <1>3 DEF SetParent
<1>4. ASSUME NEW p \in Injectors, NEW c \in Injectors, AddChild(p, c)
      PROVE  TypeOK'
  BY <1>4 DEF AddChild
<1>5. ASSUME NEW i \in Injectors
      PROVE  ChildrenAfterDetach(i) \in [Injectors -> Seq(Injectors)]
  BY DetachArrays
<1>6. ASSUME NEW i \in Injectors, Detach(i)
      PROVE  TypeOK'
  BY <1>5, <1>6 DEF Detach
<1>7. ASSUME NEW i \in Injectors, Destroy(i)
      PROVE  TypeOK'
  <2>1. children' \in [Injectors -> Seq(Injectors)]
    BY <1>5, <1>7, EmptySeq DEF Destroy
  <2>2. <<>> \in Bindings
    BY BindingsMember
  <2>3. QED
    BY <1>7, <2>1, <2>2 DEF Destroy
<1>8. ASSUME NEW i \in Injectors, NEW k \in Keys, NEW v \in Values, SetProvider(i, k, v)
      PROVE  TypeOK'
  <2> DEFINE b == [x \in DOMAIN providers[i] \cup {k} |-> IF x = k THEN v ELSE providers[i][x]]
  <2>1. PICK ks \in SUBSET Keys : providers[i] \in [ks -> Values]
    BY DEF Bindings
  <2>2. b \in [ks \cup {k} -> Values]
    BY <2>1
  <2>3. b \in Bindings
    <3>1. ks \cup {k} \in SUBSET Keys
      OBVIOUS
    <3>2. QED
      BY <2>2, <3>1, BindingsMember
  <2>4. QED
    BY <1>8, <2>3 DEF SetProvider
<1>9. QED
  BY <1>1, <1>2, <1>3, <1>4, <1>6, <1>7, <1>8 DEF Next

\* Every step keeps injectors out of their own children.
LEMMA NextBlank ==
    ASSUME Inv, Next
    PROVE  Blank'
<1> USE DEF Blank
<1>0. TypeOK /\ Blank
  BY DEF Inv
<1>1. ASSUME NEW p \in Injectors, NEW c \in Injectors, p # c,
             children' = [children EXCEPT ![p] = Append(@, c)]
      PROVE  \A j \in Injectors : j \notin ToSet(children'[j])
  <2>1. ToSet(children'[p]) = ToSet(children[p]) \cup {c}
    BY <1>0, <1>1, ToSetAppend DEF TypeOK
  <2>2. QED
    BY <1>0, <1>1, <2>1 DEF TypeOK
<1>2. ASSUME NEW i \in Injectors,
             \/ children' = ChildrenAfterDetach(i)
             \/ children' = [ChildrenAfterDetach(i) EXCEPT ![i] = <<>>]
      PROVE  \A j \in Injectors : j \notin ToSet(children'[j])
  <2>1. \A j \in Injectors : ToSet(children'[j]) \subseteq ToSet(children[j])
    <3> SUFFICES ASSUME NEW j \in Injectors
                 PROVE  ToSet(children'[j]) \subseteq ToSet(children[j])
      OBVIOUS
    <3>1. \/ children'[j] = children[j]
          \/ children'[j] = Splice(children[j], -1)
          \/ children'[j] = <<>>
      BY <1>2, DetachArrays
    <3>2. ToSet(<<>>) = {}
      BY DEF ToSet
    <3>3. QED
      BY <1>0, <3>1, <3>2, SpliceLast DEF TypeOK
  <2>2. QED
    BY <1>0, <2>1
<1>3. ASSUME NEW i \in Injectors, NewRoot(i) \/ Detach(i) \/ Destroy(i)
      PROVE  Blank'
  BY <1>0, <1>2, <1>3 DEF TypeOK, NewRoot, Detach, Destroy
<1>4. ASSUME NEW p \in Injectors, NEW c \in Injectors, CreateChild(p, c)
      PROVE  Blank'
  BY <1>0, <1>1, <1>4 DEF TypeOK, CreateChild
<1>5. ASSUME NEW p \in Injectors, NEW c \in Injectors, SetParent(c, p)
      PROVE  Blank'
  BY <1>0, <1>5 DEF TypeOK, SetParent
<1>6. ASSUME NEW p \in Injectors, NEW c \in Injectors, AddChild(p, c)
      PROVE  Blank'
  <2>1. p # c
    BY <1>6, ChainStart DEF AddChild
  <2>2. QED
    BY <1>0, <1>1, <1>6, <2>1 DEF TypeOK, AddChild
<1>7. ASSUME NEW i \in Injectors, NEW k \in Keys, NEW v \in Values, SetProvider(i, k, v)
      PROVE  Blank'
  BY <1>0, <1>7 DEF SetProvider
<1>8. QED
  BY <1>3, <1>4, <1>5, <1>6, <1>7 DEF Next

\* Every step keeps the parent's array as short as the number of injectors
\* that point at it and of those listed again: the splice takes a wrong child
\* away, but one child.
LEMMA NextNoChildLeak ==
    ASSUME Inv, Next
    PROVE  NoChildLeak'
<1> SUFFICES ASSUME NEW q \in Injectors
             PROVE  Len(children'[q]) <= Cardinality(ChildrenOf(q)') + relisted'[q]
  BY DEF NoChildLeak, ChildrenOf
<1>1. TypeOK /\ Len(children[q]) <= Cardinality(ChildrenOf(q)) + relisted[q]
  BY DEF Inv, NoChildLeak, ChildrenOf
<1>2. Len(children[q]) \in Nat /\ Cardinality(ChildrenOf(q)) \in Nat /\ relisted[q] \in Nat
  BY <1>1, ChildrenOfFinite DEF TypeOK
<1>3. ASSUME UNCHANGED <<parent, children, relisted>>
      PROVE  Len(children'[q]) <= Cardinality(ChildrenOf(q)') + relisted'[q]
  BY <1>1, <1>3 DEF ChildrenOf
<1>4. ASSUME NEW p \in Injectors, NEW c \in Injectors, parent[c] = NoParent,
             parent' = [parent EXCEPT ![c] = p], UNCHANGED relisted,
             children' \in {children, [children EXCEPT ![p] = Append(@, c)]}
      PROVE  Len(children'[q]) <= Cardinality(ChildrenOf(q)') + relisted'[q]
  <2>1. Len(children'[q]) <= IF q = p THEN Len(children[q]) + 1 ELSE Len(children[q])
    BY <1>1, <1>2, <1>4 DEF TypeOK
  <2>2. Cardinality(ChildrenOf(q)') = IF q = p THEN Cardinality(ChildrenOf(q)) + 1
                                      ELSE Cardinality(ChildrenOf(q))
    BY <1>1, <1>4, Adopt
  <2>3. Len(children'[q]) \in Nat
    BY <1>1, <1>2, <1>4 DEF TypeOK
  <2>4. QED
    BY <1>1, <1>2, <1>4, <2>1, <2>2, <2>3
<1>5. ASSUME NEW i \in Injectors, parent' = [parent EXCEPT ![i] = NoParent],
             \/ children' = ChildrenAfterDetach(i) /\ UNCHANGED relisted
             \/ /\ children' = [ChildrenAfterDetach(i) EXCEPT ![i] = <<>>]
                /\ relisted' = [relisted EXCEPT ![i] = 0]
      PROVE  Len(children'[q]) <= Cardinality(ChildrenOf(q)') + relisted'[q]
  <2>1. /\ Cardinality(ChildrenOf(q)') \in Nat
        /\ Cardinality(ChildrenOf(q)') = IF q = parent[i] THEN Cardinality(ChildrenOf(q)) - 1
                                         ELSE Cardinality(ChildrenOf(q))
    BY <1>1, <1>5, Leave
  <2>2. \/ children'[q] = <<>> /\ relisted'[q] \in Nat
        \/ children'[q] = ChildrenAfterDetach(i)[q] /\ relisted'[q] = relisted[q]
    BY <1>1, <1>2, <1>5, DetachArrays DEF TypeOK
  <2>3. CASE children'[q] = <<>> /\ relisted'[q] \in Nat
    BY <2>1, <2>3
  <2>4. ASSUME children'[q] = ChildrenAfterDetach(i)[q], relisted'[q] = relisted[q]
        PROVE  Len(children'[q]) <= Cardinality(ChildrenOf(q)') + relisted'[q]
    <3>1. CASE q = parent[i]
      <4>1. children'[q] = Splice(children[q], -1)
        BY <2>4, <3>1, DetachArrays
      <4>2. Len(children'[q]) = IF children[q] = <<>> THEN 0 ELSE Len(children[q]) - 1
        BY <1>1, <4>1, SpliceLast DEF TypeOK
      <4>3. QED
        BY <1>1, <1>2, <2>1, <2>4, <3>1, <4>2
    <3>2. CASE q # parent[i]
      <4>1. children'[q] = children[q]
        BY <2>4, <3>2, DetachArrays
      <4>2. QED
        BY <1>1, <2>1, <2>4, <3>2, <4>1
    <3>3. QED
      BY <3>1, <3>2
  <2>5. QED
    BY <2>2, <2>3, <2>4
<1>6. ASSUME NEW i \in Injectors, NewRoot(i)
      PROVE  Len(children'[q]) <= Cardinality(ChildrenOf(q)') + relisted'[q]
  BY <1>3, <1>6 DEF NewRoot
<1>7. ASSUME NEW i \in Injectors, Detach(i) \/ Destroy(i)
      PROVE  Len(children'[q]) <= Cardinality(ChildrenOf(q)') + relisted'[q]
  BY <1>5, <1>7 DEF Detach, Destroy
<1>8. ASSUME NEW p \in Injectors, NEW c \in Injectors, CreateChild(p, c)
      PROVE  Len(children'[q]) <= Cardinality(ChildrenOf(q)') + relisted'[q]
  <2>1. parent[c] = NoParent
    BY <1>8 DEF CreateChild, Inv, Blank
  <2>2. QED
    BY <1>4, <1>8, <2>1 DEF CreateChild
<1>9. ASSUME NEW p \in Injectors, NEW c \in Injectors, SetParent(c, p)
      PROVE  Len(children'[q]) <= Cardinality(ChildrenOf(q)') + relisted'[q]
  <2>1. CASE parent[c] = NoParent
    BY <1>4, <1>9, <2>1 DEF SetParent
  <2>2. CASE parent[c] = p
    BY <1>1, <1>3, <1>9, <2>2 DEF SetParent, TypeOK
  <2>3. QED
    BY <1>9, <2>1, <2>2 DEF SetParent
<1>10. ASSUME NEW p \in Injectors, NEW c \in Injectors, AddChild(p, c)
       PROVE  Len(children'[q]) <= Cardinality(ChildrenOf(q)') + relisted'[q]
  <2>1. CASE parent[c] = NoParent
    <3>1. UNCHANGED relisted
      BY <1>10, <2>1, TreeAssumption DEF AddChild
    <3>2. QED
      BY <1>4, <1>10, <2>1, <3>1 DEF AddChild
  <2>2. CASE parent[c] = p
    <3>1. /\ parent' = parent
          /\ children' = [children EXCEPT ![p] = Append(@, c)]
          /\ relisted' = [relisted EXCEPT ![p] = @ + 1]
      BY <1>1, <1>10, <2>2 DEF AddChild, TypeOK
    <3>2. ChildrenOf(q)' = ChildrenOf(q)
      BY <3>1 DEF ChildrenOf
    <3>3. /\ Len(children'[q]) = IF q = p THEN Len(children[q]) + 1 ELSE Len(children[q])
          /\ relisted'[q] = IF q = p THEN relisted[q] + 1 ELSE relisted[q]
      BY <1>1, <1>2, <3>1 DEF TypeOK
    <3>4. QED
      BY <1>1, <1>2, <3>2, <3>3
  <2>3. QED
    BY <1>10, <2>1, <2>2 DEF AddChild
<1>11. ASSUME NEW i \in Injectors, NEW k \in Keys, NEW v \in Values, SetProvider(i, k, v)
       PROVE  Len(children'[q]) <= Cardinality(ChildrenOf(q)') + relisted'[q]
  BY <1>3, <1>11 DEF SetProvider
<1>12. QED
  BY <1>6, <1>7, <1>8, <1>9, <1>10, <1>11 DEF Next

\* The invariant is inductive.
LEMMA InvHolds == Spec => []Inv
<1>1. Inv /\ [Next]_vars => Inv'
  <2> SUFFICES ASSUME Inv, [Next]_vars PROVE Inv'
    OBVIOUS
  <2>1. CASE Next
    BY <2>1, NextType, NextBlank, NextNoChildLeak DEF Inv
  <2>2. CASE UNCHANGED vars
    BY <2>2 DEF Inv, TypeOK, Blank, NoChildLeak, vars
  <2>3. QED
    BY <2>1, <2>2
<1>2. QED
  BY <1>1, InitInv, PTL DEF Spec

\* Type correctness: in particular _children stays an array without holes
\* although detach may splice at -1.
THEOREM TreeTypeOK == Spec => []TypeOK
BY InvHolds, PTL DEF Inv

\* A parent never lists more injectors than point at it, plus one entry for
\* every time addChild gave a child that never left its lost place back,
\* whichever children leave and in whatever order.
THEOREM TreeNoChildLeak == Spec => []NoChildLeak
BY InvHolds, PTL DEF Inv

-----------------------------------------------------------------------------
(* What a step leaves alone                                                *)

\* Bindings are immutable: a binding that is not mutable is only ever dropped
\* together with all others of its injector, which leaves the tree.
THEOREM TreeBindingsImmutable == Spec => BindingsImmutable
<1>1. ASSUME Inv, [Next]_vars,
             NEW i \in Injectors, NEW k \in Keys \ MutableKeys, Has(i, k)
      PROVE  IF Has(i, k)' THEN providers'[i][k] = providers[i][k]
             ELSE providers'[i] = <<>> /\ parent'[i] = NoParent
  <2> USE DEF Has
  <2>0. TypeOK
    BY <1>1 DEF Inv
  <2>1. ASSUME UNCHANGED providers
        PROVE  IF Has(i, k)' THEN providers'[i][k] = providers[i][k]
               ELSE providers'[i] = <<>> /\ parent'[i] = NoParent
    BY <1>1, <2>1
  <2>2. ASSUME NEW j \in Injectors, Destroy(j)
        PROVE  IF Has(i, k)' THEN providers'[i][k] = providers[i][k]
               ELSE providers'[i] = <<>> /\ parent'[i] = NoParent
    BY <1>1, <2>0, <2>2 DEF Destroy, TypeOK
  <2>3. ASSUME NEW j \in Injectors, NEW l \in Keys, NEW v \in Values, SetProvider(j, l, v)
        PROVE  IF Has(i, k)' THEN providers'[i][k] = providers[i][k]
               ELSE providers'[i] = <<>> /\ parent'[i] = NoParent
    BY <1>1, <2>0, <2>3 DEF SetProvider, TypeOK
  <2>4. QED
    BY <1>1, <2>1, <2>2, <2>3
    DEF Next, vars, NewRoot, CreateChild, SetParent, AddChild, Detach
<1>2. Inv /\ [Next]_vars => [\A i \in Injectors, k \in Keys \ MutableKeys :
          Has(i, k) => IF Has(i, k)' THEN providers'[i][k] = providers[i][k]
                       ELSE providers'[i] = <<>> /\ parent'[i] = NoParent]_vars
  BY <1>1
<1>3. QED
  BY <1>2, InvHolds, PTL DEF Spec, BindingsImmutable

\* The chain of an injector is closed under going to the parent.
LEMMA ChainClosed ==
    ASSUME TypeOK, NEW x \in Injectors
    PROVE  Chain(x) \subseteq Injectors /\ Closed(Chain(x))
<1>1. ASSUME NEW j \in Chain(x), parent[j] # NoParent
      PROVE  parent[j] \in Chain(x)
  BY <1>1 DEF Chain, Closed, TypeOK
<1>2. QED
  BY <1>1 DEF Chain, Closed

\* Whoever stands above an injector of the chain stands in the chain.
LEMMA ChainTransitive ==
    ASSUME TypeOK, NEW x \in Injectors, NEW y \in Chain(x)
    PROVE  Chain(y) \subseteq Chain(x)
BY ChainClosed DEF Chain

\* Above x stand x and those above its parent.
LEMMA ChainStep ==
    ASSUME TypeOK, NEW x \in Injectors
    PROVE  Chain(x) \subseteq {x} \cup (IF parent[x] = NoParent THEN {} ELSE Chain(parent[x]))
<1>1. CASE parent[x] = NoParent
  <2>1. Closed({x})
    BY <1>1 DEF Closed
  <2>2. QED
    BY <1>1, <2>1 DEF Chain
<1>2. CASE parent[x] # NoParent
  <2>1. parent[x] \in Injectors
    BY <1>2 DEF TypeOK
  <2>2. Closed({x} \cup Chain(parent[x])) /\ Chain(parent[x]) \subseteq Injectors
    BY <2>1, ChainClosed, ChainStart DEF Closed
  <2>3. QED
    BY <1>2, <2>2 DEF Chain
<1>3. QED
  BY <1>1, <1>2

\* A token bound somewhere in the chain has a nearest binding: were there
\* none, going up from i would never come to an injector that binds it.
LEMMA NearestExists ==
    ASSUME TypeOK, NEW i \in Injectors, NEW k \in Keys, CanGet(i, k)
    PROVE  Nearest(i, k) \in Chain(i) /\ Has(Nearest(i, k), k)
<1> DEFINE Holders == {h \in Chain(i) : Has(h, k)}
           Below == {x \in Chain(i) : Holders \subseteq Chain(x)}
<1>1. SUFFICES \E j \in Chain(i) : Has(j, k) /\ \A h \in Chain(i) : Has(h, k) => h \in Chain(j)
  BY DEF Nearest
<1>2. SUFFICES ASSUME Below \cap Holders = {}
               PROVE  FALSE
  OBVIOUS
<1>3. i \in Below
  BY ChainStart
<1>4. Closed(Below)
  <2> SUFFICES ASSUME NEW x \in Below, parent[x] # NoParent
               PROVE  parent[x] \in Below
    BY DEF Closed
  <2>1. x \in Injectors /\ parent[x] \in Chain(i)
    BY ChainClosed DEF Closed
  <2>2. Holders \subseteq Chain(parent[x])
    BY <1>2, <2>1, ChainStep
  <2>3. QED
    BY <2>1, <2>2
<1>5. Chain(i) \subseteq Below
  BY <1>3, <1>4, ChainClosed DEF Chain
<1>6. QED
  BY <1>2, <1>5 DEF CanGet

\* Cutting an injector off changes no chain it is not part of.
LEMMA ChainUnaffected ==
    ASSUME TypeOK, NEW i \in Injectors, parent' = [parent EXCEPT ![i] = NoParent],
           NEW x \in Injectors, i \notin Chain(x)
    PROVE  Chain(x)' = Chain(x)
<1>1. ASSUME NEW S \in SUBSET Injectors, Closed(S)
      PROVE  Closed(S)'
  BY <1>1 DEF Closed, TypeOK
<1>2. ASSUME NEW S \in SUBSET Injectors, Closed(S)'
      PROVE  Closed(S \cap Chain(x))
  BY <1>2, ChainClosed DEF Closed, TypeOK
<1>3. ASSUME NEW j \in Chain(x)'
      PROVE  j \in Chain(x)
  BY <1>1, <1>3 DEF Chain
<1>4. ASSUME NEW j \in Chain(x)
      PROVE  j \in Chain(x)'
  <2> SUFFICES ASSUME NEW S \in SUBSET Injectors, x \in S, Closed(S)'
               PROVE  j \in S
    BY <1>4 DEF Chain
  <2>1. x \in S \cap Chain(x)
    BY ChainStart
  <2>2. QED
    BY <1>2, <1>4, <2>1 DEF Chain
<1>5. QED
  BY <1>3, <1>4

\* An injector that leaves changes lookups only for itself and those below.
THEOREM TreeDepartureIsLocal == Spec => DepartureIsLocal
<1>1. ASSUME Inv, NEW i \in Injectors, Detach(i) \/ Destroy(i),
             NEW j \in created, NEW k \in Keys, i \notin Chain(j)
      PROVE  /\ CanGet(j, k) <=> CanGet(j, k)'
             /\ CanGet(j, k) => Get(j, k)' = Get(j, k)
  <2>1. TypeOK /\ j \in Injectors /\ parent' = [parent EXCEPT ![i] = NoParent]
    BY <1>1 DEF Inv, TypeOK, Detach, Destroy
  <2>2. Chain(j)' = Chain(j) /\ Chain(j) \subseteq Injectors
    BY <1>1, <2>1, ChainUnaffected, ChainClosed
  <2>3. \A h \in Chain(j) : Chain(h)' = Chain(h)
    BY <1>1, <2>1, <2>2, ChainUnaffected, ChainTransitive
  <2>4. \A h \in Chain(j) : providers'[h] = providers[h]
    BY <1>1, <2>1, <2>2 DEF TypeOK, Detach, Destroy
  <2>5. \A h \in Chain(j) : Has(h, k)' <=> Has(h, k)
    BY <2>4 DEF Has
  <2>6. Nearest(j, k)' = Nearest(j, k)
    BY <2>2, <2>3, <2>5 DEF Nearest
  <2>7. CanGet(j, k) <=> CanGet(j, k)'
    BY <2>2, <2>5 DEF CanGet
  <2>8. ASSUME CanGet(j, k)
        PROVE  Get(j, k)' = Get(j, k)
    BY <2>1, <2>4, <2>6, <2>8, NearestExists DEF Get
  <2>9. QED
    BY <2>7, <2>8
<1>2. Inv => [\A i \in Injectors : (Detach(i) \/ Destroy(i)) =>
          \A j \in created, k \in Keys : i \notin Chain(j) =>
              /\ CanGet(j, k) <=> CanGet(j, k)'
              /\ CanGet(j, k) => Get(j, k)' = Get(j, k)]_vars
  BY <1>1
<1>3. QED
  BY <1>2, InvHolds, PTL DEF DepartureIsLocal

-----------------------------------------------------------------------------
(* Under the discipline of LifoSpec the tree implements module Forest      *)

\* Each injector is listed where it points, once.
Listed ==
    /\ \A p, c \in Injectors : c \in ToSet(children[p]) <=> parent[c] = p
    /\ \A p \in Injectors : \A a, b \in 1 .. Len(children[p]) :
           children[p][a] = children[p][b] => a = b

Kids == [p \in Injectors |-> ToSet(children[p])]

\* The discipline only leaves steps out.
LEMMA LifoIsNext == Inv /\ [LifoNext]_vars => [Next]_vars
BY DEF LifoNext, Next

\* Dropping the last element of an array without duplicates drops it from
\* the set of elements.
LEMMA SpliceLastSet ==
    ASSUME NEW S, NEW s \in Seq(S), s # <<>>,
           \A a, b \in 1 .. Len(s) : s[a] = s[b] => a = b
    PROVE  ToSet(Splice(s, -1)) = ToSet(s) \ {Last(s)}
<1>1. Len(s) \in Nat \ {0}
  BY EmptySeq
<1>2. /\ Len(Splice(s, -1)) = Len(s) - 1
      /\ Splice(s, -1) \in Seq(S)
      /\ \A i \in 1 .. Len(s) - 1 : Splice(s, -1)[i] = s[i]
  BY SpliceLast
<1>3. DOMAIN Splice(s, -1) = 1 .. Len(s) - 1 /\ DOMAIN s = 1 .. Len(s)
  BY <1>2
<1>4. QED
  BY <1>1, <1>2, <1>3 DEF ToSet, Last

\* An orphan that joins p is pushed on p's array and nowhere else.
LEMMA JoinStep ==
    ASSUME Inv, Listed, NEW p \in Injectors, NEW c \in Injectors,
           parent[c] = NoParent, parent' = [parent EXCEPT ![c] = p],
           children' = [children EXCEPT ![p] = Append(@, c)]
    PROVE  Listed' /\ Kids' = [Kids EXCEPT ![p] = @ \cup {c}]
<1>0. TypeOK
  BY DEF Inv
<1>1. /\ ToSet(children'[p]) = ToSet(children[p]) \cup {c}
      /\ \A q \in Injectors : q # p => children'[q] = children[q]
  BY <1>0, ToSetAppend DEF TypeOK
<1>2. Kids' = [Kids EXCEPT ![p] = @ \cup {c}]
  <2>1. Kids'[p] = Kids[p] \cup {c}
    BY <1>1 DEF Kids
  <2>2. ASSUME NEW q \in Injectors, q # p
        PROVE  Kids'[q] = Kids[q]
    BY <1>1, <2>2 DEF Kids
  <2>3. Kids = [q \in Injectors |-> Kids[q]]
    BY DEF Kids
  <2>4. Kids' = [q \in Injectors |-> Kids'[q]]
    BY DEF Kids
  <2>5. QED
    BY <2>1, <2>2, <2>3, <2>4
<1>3. \A q, d \in Injectors : d \in ToSet(children'[q]) <=> parent'[d] = q
  <2> SUFFICES ASSUME NEW q \in Injectors, NEW d \in Injectors
               PROVE  d \in ToSet(children'[q]) <=> parent'[d] = q
    OBVIOUS
  <2>1. d \in ToSet(children[q]) <=> parent[d] = q
    BY DEF Listed
  <2>2. parent'[d] = IF d = c THEN p ELSE parent[d]
    BY <1>0 DEF TypeOK
  <2>3. parent[c] # q
    BY TreeAssumption
  <2>4. d \in ToSet(children'[q]) <=> d \in ToSet(children[q]) \/ (q = p /\ d = c)
    <3>1. CASE q = p
      BY <1>1, <3>1
    <3>2. CASE q # p
      BY <1>1, <3>2
    <3>3. QED
      BY <3>1, <3>2
  <2>5. QED
    BY <2>1, <2>2, <2>3, <2>4
<1>4. ASSUME NEW q \in Injectors, NEW a \in 1 .. Len(children'[q]),
             NEW b \in 1 .. Len(children'[q]), children'[q][a] = children'[q][b]
      PROVE  a = b
  <2>1. CASE q # p
    BY <1>0, <1>4, <2>1 DEF Listed, TypeOK
  <2>2. CASE q = p
    <3>1. \A i \in 1 .. Len(children[p]) : children[p][i] # c
      <4>1. c \notin ToSet(children[p])
        BY TreeAssumption DEF Listed
      <4>2. children[p] \in Seq(Injectors)
        BY <1>0 DEF TypeOK
      <4>3. QED
        BY <4>1, <4>2, ToSetMember
    <3>2. /\ Len(children'[p]) = Len(children[p]) + 1
          /\ Len(children[p]) \in Nat
          /\ children'[p][Len(children[p]) + 1] = c
          /\ \A i \in 1 .. Len(children[p]) : children'[p][i] = children[p][i]
      BY <1>0 DEF TypeOK
    <3>3. QED
      BY <1>4, <2>2, <3>1, <3>2 DEF Listed
  <2>3. QED
    BY <2>1, <2>2
<1>5. QED
  BY <1>2, <1>3, <1>4 DEF Listed

\* The newest child that leaves is the one that is spliced away.
LEMMA LeaveStep ==
    ASSUME Inv, Listed, NEW i \in Injectors, parent[i] # NoParent,
           Last(children[parent[i]]) = i,
           parent' = [parent EXCEPT ![i] = NoParent],
           children' = ChildrenAfterDetach(i)
    PROVE  Listed' /\ Kids' = [Kids EXCEPT ![parent[i]] = @ \ {i}]
<1> DEFINE p == parent[i]
<1>0. TypeOK /\ p \in Injectors
  BY DEF Inv, TypeOK
<1>1. children[p] # <<>>
  BY <1>0 DEF Listed, ToSet
<1>2. ToSet(children'[p]) = ToSet(children[p]) \ {i}
  <2>1. children'[p] = Splice(children[p], -1)
    BY <1>0, DetachArrays
  <2>2. QED
    <3>1. children[p] \in Seq(Injectors)
      BY <1>0 DEF TypeOK
    <3>2. \A a, b \in 1 .. Len(children[p]) : children[p][a] = children[p][b] => a = b
      BY <1>0 DEF Listed
    <3>3. ToSet(Splice(children[p], -1)) = ToSet(children[p]) \ {Last(children[p])}
      BY <1>1, <3>1, <3>2, SpliceLastSet
    <3>4. QED
      BY <2>1, <3>3
<1>3. \A q \in Injectors : q # p => children'[q] = children[q]
  BY DetachArrays
<1>4. Kids' = [Kids EXCEPT ![p] = @ \ {i}]
  BY <1>0, <1>2, <1>3 DEF Kids
<1>5. \A q, d \in Injectors : d \in ToSet(children'[q]) <=> parent'[d] = q
  BY <1>0, <1>2, <1>3, TreeAssumption DEF Listed, TypeOK
<1>6. ASSUME NEW q \in Injectors, NEW a \in 1 .. Len(children'[q]),
             NEW b \in 1 .. Len(children'[q]), children'[q][a] = children'[q][b]
      PROVE  a = b
  <2>1. CASE q # p
    BY <1>3, <1>6, <2>1 DEF Listed
  <2>2. CASE q = p
    <3>1. children'[p] = Splice(children[p], -1)
      BY <1>0, DetachArrays
    <3>2. /\ Len(children'[p]) = Len(children[p]) - 1
          /\ Len(children[p]) \in Nat
          /\ \A n \in 1 .. Len(children'[p]) : children'[p][n] = children[p][n]
      BY <1>0, <1>1, <3>1, SpliceLast DEF TypeOK
    <3>3. QED
      BY <1>0, <1>6, <2>2, <3>2 DEF Listed
  <2>3. QED
    BY <2>1, <2>2
<1>7. QED
  BY <1>4, <1>5, <1>6 DEF Listed

\* A childless injector lists nobody.
LEMMA Childless ==
    ASSUME Inv, Listed, NEW i \in Injectors, \A c \in Injectors : parent[c] # i
    PROVE  children[i] = <<>>
<1>1. children[i] \in Seq(Injectors)
  BY DEF Inv, TypeOK
<1>2. SUFFICES ASSUME children[i] # <<>>
               PROVE  FALSE
  OBVIOUS
<1>3. Len(children[i]) \in Nat \ {0}
  BY <1>1, <1>2, EmptySeq
<1>4. children[i][1] \in Injectors /\ children[i][1] \in ToSet(children[i])
  BY <1>1, <1>3, ToSetMember
<1>5. QED
  BY <1>4 DEF Listed

\* Every step of LifoSpec is a step of Forest or stutters.
LEMMA LifoStep ==
    ASSUME Inv, Listed, [LifoNext]_vars
    PROVE  Listed' /\ [Forest!Next]_<<parent, Kids>>
<1>0. TypeOK
  BY DEF Inv
<1>1. ASSUME UNCHANGED <<parent, children>>
      PROVE  Listed' /\ UNCHANGED <<parent, Kids>>
  BY <1>1 DEF Listed, Kids
<1>2. ASSUME NEW i \in Injectors, NewRoot(i)
      PROVE  Listed' /\ [Forest!Next]_<<parent, Kids>>
  BY <1>1, <1>2 DEF NewRoot
<1>3. ASSUME NEW i \in Injectors, Newest(i), Detach(i) \/ Destroy(i)
      PROVE  Listed' /\ [Forest!Next]_<<parent, Kids>>
  <2>1. children[i] = <<>>
    BY <1>3, Childless DEF Newest
  <2>2. ChildrenAfterDetach(i)[i] = <<>>
    <3>1. \/ ChildrenAfterDetach(i)[i] = children[i]
          \/ ChildrenAfterDetach(i)[i] = Splice(children[i], -1)
      BY DetachArrays
    <3>2. QED
      BY <2>1, <3>1 DEF Splice
  <2>3. children' = ChildrenAfterDetach(i) /\ parent' = [parent EXCEPT ![i] = NoParent]
    BY <1>3, <2>2, DetachArrays DEF Detach, Destroy
  <2>4. CASE parent[i] = NoParent
    BY <1>0, <1>1, <2>3, <2>4, DetachArrays DEF TypeOK
  <2>5. CASE parent[i] # NoParent
    <3>1. Listed' /\ Kids' = [Kids EXCEPT ![parent[i]] = @ \ {i}]
      BY <1>3, <2>3, <2>5, LeaveStep DEF Newest
    <3>2. Forest!Leave(i)
      BY <2>3, <2>5, <3>1 DEF Forest!Leave, Kids
    <3>3. QED
      BY <3>1, <3>2 DEF Forest!Next
  <2>6. QED
    BY <2>4, <2>5
<1>4. ASSUME NEW p \in Injectors, NEW c \in Injectors, CreateChild(p, c) \/ AddChild(p, c)
      PROVE  Listed' /\ [Forest!Next]_<<parent, Kids>>
  <2>1. parent[c] = NoParent
    BY <1>4 DEF CreateChild, AddChild, HasChild, Listed, Inv, Blank
  <2>2. Listed' /\ Kids' = [Kids EXCEPT ![p] = @ \cup {c}]
    BY <1>4, <2>1, JoinStep DEF CreateChild, AddChild
  <2>3. Forest!Join(p, c)
    BY <1>4, <2>1, <2>2 DEF Forest!Join, Kids, CreateChild, AddChild
  <2>4. QED
    BY <2>2, <2>3 DEF Forest!Next
<1>5. ASSUME NEW i \in Injectors, NEW k \in Keys, NEW v \in Values, SetProvider(i, k, v)
      PROVE  Listed' /\ [Forest!Next]_<<parent, Kids>>
  BY <1>1, <1>5 DEF SetProvider
<1>6. CASE UNCHANGED vars
  BY <1>1, <1>6 DEF vars
<1>7. QED
  BY <1>2, <1>3, <1>4, <1>5, <1>6 DEF LifoNext

\* As long as children leave newest first, the tree is an ownership forest:
\* who leaves is forgotten by his owner, and nobody else is.
THEOREM LifoImplementsForest == LifoSpec => IsForest
<1>1. Init => Inv /\ Listed /\ Forest!Init
  <2> SUFFICES ASSUME Init PROVE Listed /\ Forest!Init
    BY InitInv
  <2>1. \A p \in Injectors : children[p] = <<>> /\ ToSet(children[p]) = {}
    BY DEF Init, ToSet
  <2>2. QED
    BY <2>1, TreeAssumption DEF Init, Listed, Forest!Init
<1>2. Inv /\ Listed /\ [LifoNext]_vars => Inv' /\ Listed' /\ [Forest!Next]_<<parent, Kids>>
  <2> SUFFICES ASSUME Inv, Listed, [LifoNext]_vars PROVE Inv'
    BY LifoStep
  <2>1. CASE Next
    BY <2>1, NextType, NextBlank, NextNoChildLeak DEF Inv
  <2>2. CASE UNCHANGED vars
    BY <2>2 DEF Inv, TypeOK, Blank, NoChildLeak, vars
  <2>3. QED
    BY <2>1, <2>2, LifoIsNext
<1>3. QED
  BY <1>1, <1>2, PTL DEF LifoSpec, IsForest, Forest!Spec, Kids

-----------------------------------------------------------------------------
(* Method interceptors                                                     *)

\* What the method or an interceptor gives.
Gives == {"value", "undefined", "throws", "promise", "data"}

\* The fields of a call.
Fields == {"at", "of", "returns", "async", "turn", "next", "state", "result", "promise", "log",
           "answer", "after"}

\* What the last of what was given stands for.
Stands(log, n) == IF n = 0 \/ log[n] = "throws" THEN "undefined" ELSE log[n]

\* There is no result while nothing but undefined or an error was given.
KeptLog(log, result) ==
    /\ log \in Seq(Gives)
    /\ result = Stands(log, Len(log))
    /\ \A i, j \in 1 .. Len(log) :
          i < j /\ log[j] # "data" => log[i] \in {"undefined", "throws"}
    /\ result = "undefined" => \A i \in 1 .. Len(log) : log[i] \in {"undefined", "throws"}

\* An answer is what the result was.
KeptAnswer(log, answer, after) ==
    answer \notin {"none", "failed"} => after \in 0 .. Len(log) /\ answer = Stands(log, after)

\* Of the fields of a call, these matter.
Kept(e) ==
    /\ DOMAIN e = Fields
    /\ KeptLog(e.log, e.result)
    /\ KeptAnswer(e.log, e.answer, e.after)

\* The invariant.
CallInv == call = NoCall \/ Kept(call)

\* What is given is given after what was given before.
LEMMA GiveKept ==
  ASSUME NEW log, NEW result, KeptLog(log, result), NEW answer, NEW after,
         KeptAnswer(log, answer, after),
         NEW o \in Gives, o # "data" => result = "undefined"
  PROVE  /\ KeptLog(Append(log, o), IF o = "throws" THEN "undefined" ELSE o)
         /\ KeptAnswer(Append(log, o), answer, after)
<1>1. PICK n \in Nat : n = Len(log)
  BY LenProperties DEF KeptLog
<1>2. PICK next : next = Append(log, o)
  OBVIOUS
<1>3. /\ next \in Seq(Gives) /\ Len(next) = n + 1 /\ next[n + 1] = o
      /\ \A i \in 1 .. n : next[i] = log[i]
  BY <1>1, <1>2, AppendProperties DEF KeptLog
<1>4. ASSUME NEW i \in 1 .. n + 1, NEW j \in 1 .. n + 1, i < j, next[j] # "data"
      PROVE  next[i] \in {"undefined", "throws"}
  <2>1. i \in 1 .. n /\ next[i] = log[i]
    BY <1>3, <1>4
  <2>2. CASE j = n + 1
    BY <1>1, <1>3, <1>4, <2>1, <2>2 DEF KeptLog
  <2>3. CASE j # n + 1
    <3>1. j \in 1 .. n /\ next[j] = log[j]
      BY <1>3, <2>3
    <3>2. QED
      BY <1>1, <1>4, <2>1, <3>1 DEF KeptLog
  <2>4. QED
    BY <2>2, <2>3
<1>5. (IF o = "throws" THEN "undefined" ELSE o) = Stands(next, n + 1)
  BY <1>3 DEF Stands
<1>6. ASSUME o \in {"undefined", "throws"}, NEW i \in 1 .. n + 1
      PROVE  next[i] \in {"undefined", "throws"}
  <2>1. CASE i = n + 1
    BY <1>3, <1>6, <2>1
  <2>2. CASE i # n + 1
    <3>1. i \in 1 .. n /\ next[i] = log[i]
      BY <1>3, <2>2
    <3>2. QED
      BY <1>1, <1>6, <3>1 DEF KeptLog
  <2>3. QED
    BY <2>1, <2>2
<1>7. KeptLog(next, IF o = "throws" THEN "undefined" ELSE o)
  BY <1>3, <1>4, <1>5, <1>6 DEF KeptLog
<1>8. KeptAnswer(next, answer, after)
  <2>1. \A k \in 0 .. n : Stands(next, k) = Stands(log, k)
    BY <1>3 DEF Stands
  <2>2. QED
    BY <1>1, <1>3, <2>1 DEF KeptAnswer
<1>9. QED
  BY <1>2, <1>7, <1>8

\* The executor runs the method unless there is a result.
LEMMA InvokeKept ==
  ASSUME NEW e, Kept(e), NEW o \in {"value", "undefined", "throws", "promise"}
  PROVE  Kept(Invoke(e, o))
<1>1. CASE e.result # "undefined"
  BY <1>1 DEF Invoke
<1>2. CASE e.result = "undefined"
  <2>1. PICK f : f = [e EXCEPT !.result = IF o \in {"value", "promise"} THEN o ELSE @,
                               !.promise = IF o = "promise" THEN "pending" ELSE @,
                               !.log = Append(@, o)]
    OBVIOUS
  <2>2. DOMAIN e = Fields
    BY DEF Kept
  <2>3. /\ DOMAIN f = Fields /\ f.log = Append(e.log, o)
        /\ f.result = (IF o \in {"value", "promise"} THEN o ELSE e.result)
        /\ f.answer = e.answer /\ f.after = e.after
    BY ONLY <2>1, <2>2 DEF Fields
  <2>4. f.result = IF o = "throws" THEN "undefined" ELSE o
    BY <1>2, <2>3
  <2>5. KeptLog(f.log, f.result) /\ KeptAnswer(f.log, e.answer, e.after)
    BY <1>2, <2>3, <2>4, GiveKept DEF Kept, Gives
  <2>6. Kept(f)
    BY <2>3, <2>5 DEF Kept
  <2>7. QED
    BY <1>2, <2>1, <2>6 DEF Invoke
<1>3. QED
  BY <1>1, <1>2

\* The caller gets the result, or an error.
LEMMA AnsweredKept ==
  ASSUME NEW e, Kept(e), NEW a \in {"failed", e.result}
  PROVE  Kept(Answered(e, a))
<1>1. PICK f : f = Answered(e, a)
  OBVIOUS
<1>2. DOMAIN e = Fields
  BY DEF Kept
<1>3. /\ DOMAIN f = Fields /\ f.log = e.log /\ f.result = e.result
      /\ f.answer = a /\ f.after = Len(e.log)
  <2>1. f = [e EXCEPT !.at = "ended", !.turn = Loop, !.answer = a, !.after = Len(e.log)]
    BY <1>1 DEF Answered
  <2>2. QED
    BY ONLY <1>2, <2>1 DEF Fields
<1>4. Len(e.log) \in 0 .. Len(e.log)
  <2>1. Len(e.log) \in Nat
    BY LenProperties DEF Kept, KeptLog
  <2>2. QED
    BY <2>1
<1>5. KeptAnswer(e.log, a, Len(e.log))
  BY <1>4 DEF Kept, KeptLog, KeptAnswer
<1>6. QED
  BY <1>1, <1>3, <1>5 DEF Kept

\* What else a step changes does not matter.
LEMMA SameKept ==
  ASSUME NEW e, Kept(e), NEW f, DOMAIN f = DOMAIN e,
         f.log = e.log, f.result = e.result, f.answer = e.answer, f.after = e.after
  PROVE  Kept(f)
BY DEF Kept

\* Every step of a call keeps what was given.
LEMMA CallStep ==
  ASSUME CallInv, CallNext
  PROVE  Kept(call')
<1>1. Kept(call) /\ DOMAIN call = Fields
  BY DEF CallInv, CallNext, NoCall, Kept
<1>2. CASE NextStep
  <2>1. call' = [call EXCEPT !.state[call.next] = "running", !.turn = call.next, !.next = @ + 1]
    BY <1>2 DEF NextStep
  <2>2. /\ DOMAIN call' = DOMAIN call /\ call'.log = call.log /\ call'.result = call.result
        /\ call'.answer = call.answer /\ call'.after = call.after
    BY ONLY <1>1, <2>1 DEF Fields
  <2>3. QED
    BY <1>1, <2>2, SameKept
<1>3. CASE LastInvoke
  <2>1. PICK o \in {"value", "undefined", "throws", "promise"} :
           LET e == Invoke(call, o) IN
           call' = IF e.log # call.log /\ o = "throws" THEN Answered(e, "failed")
                   ELSE IF ~call.async THEN Answered(e, e.result)
                   ELSE [e EXCEPT !.at = "last", !.turn = Loop]
    BY <1>3 DEF LastInvoke, Outcomes
  <2>2. PICK e : e = Invoke(call, o) /\ Kept(e) /\ DOMAIN e = Fields
    BY <1>1, InvokeKept DEF Kept
  <2>3. CASE call' = Answered(e, "failed") \/ call' = Answered(e, e.result)
    BY <2>2, <2>3, AnsweredKept
  <2>4. CASE call' = [e EXCEPT !.at = "last", !.turn = Loop]
    <3>1. /\ DOMAIN call' = DOMAIN e /\ call'.log = e.log /\ call'.result = e.result
          /\ call'.answer = e.answer /\ call'.after = e.after
      BY ONLY <2>2, <2>4 DEF Fields
    <3>2. QED
      BY <2>2, <3>1, SameKept
  <2>5. QED
    BY <2>1, <2>2, <2>3, <2>4
<1>4. CASE ResultSettles
  BY <1>1, <1>4, AnsweredKept DEF ResultSettles
<1>5. CASE PromiseSettles
  <2>1. PICK o : call' = [call EXCEPT !.promise = o]
    BY <1>5 DEF PromiseSettles
  <2>2. /\ DOMAIN call' = DOMAIN call /\ call'.log = call.log /\ call'.result = call.result
        /\ call'.answer = call.answer /\ call'.after = call.after
    BY ONLY <1>1, <2>1 DEF Fields
  <2>3. QED
    BY <1>1, <2>2, SameKept
<1>6. ASSUME NEW i \in DOMAIN call.state, InterceptorInvokes(i)
      PROVE  Kept(call')
  BY <1>1, <1>6, InvokeKept DEF InterceptorInvokes, Outcomes
<1>7. ASSUME NEW i \in DOMAIN call.state, Transform(i)
      PROVE  Kept(call')
  <2>1. call' = [call EXCEPT !.result = "data", !.log = Append(@, "data")]
    BY <1>7 DEF Transform
  <2>2. /\ DOMAIN call' = DOMAIN call /\ call'.log = Append(call.log, "data")
        /\ call'.result = "data" /\ call'.answer = call.answer /\ call'.after = call.after
    BY ONLY <1>1, <2>1 DEF Fields
  <2>3. KeptLog(call'.log, "data") /\ KeptAnswer(call'.log, call.answer, call.after)
    BY <1>1, <2>2, GiveKept DEF Kept, Gives
  <2>4. QED
    BY <1>1, <2>2, <2>3 DEF Kept
<1>8. ASSUME NEW i \in DOMAIN call.state,
             InterceptorAwaits(i) \/ InterceptorReturns(i) \/ InterceptorResumes(i)
      PROVE  Kept(call')
  <2>1. PICK s, t : call' = [call EXCEPT !.state[i] = s, !.turn = t]
    BY <1>8 DEF InterceptorAwaits, InterceptorReturns, InterceptorResumes
  <2>2. /\ DOMAIN call' = DOMAIN call /\ call'.log = call.log /\ call'.result = call.result
        /\ call'.answer = call.answer /\ call'.after = call.after
    BY ONLY <1>1, <2>1 DEF Fields
  <2>3. QED
    BY <1>1, <2>2, SameKept
<1>9. ASSUME NEW i \in DOMAIN call.state, InterceptorFails(i)
      PROVE  Kept(call')
  <2>1. PICK e : e = [call EXCEPT !.state[i] = "failed"]
    OBVIOUS
  <2>2. Kept(e) /\ DOMAIN e = Fields
    <3>1. /\ DOMAIN e = DOMAIN call /\ e.log = call.log /\ e.result = call.result
          /\ e.answer = call.answer /\ e.after = call.after
      BY ONLY <1>1, <2>1 DEF Fields
    <3>2. QED
      BY <1>1, <3>1, SameKept
  <2>3. call' = Answered(e, "failed") \/ \E t : call' = [e EXCEPT !.turn = t]
    BY <1>9, <2>1 DEF InterceptorFails
  <2>4. CASE call' = Answered(e, "failed")
    BY <2>2, <2>4, AnsweredKept
  <2>5. ASSUME NEW t, call' = [e EXCEPT !.turn = t]
        PROVE  Kept(call')
    <3>1. /\ DOMAIN call' = DOMAIN e /\ call'.log = e.log /\ call'.result = e.result
          /\ call'.answer = e.answer /\ call'.after = e.after
      BY ONLY <2>2, <2>5 DEF Fields
    <3>2. QED
      BY <2>2, <3>1, SameKept
  <2>6. QED
    BY <2>3, <2>4, <2>5
<1>10. QED
  BY <1>2, <1>3, <1>4, <1>5, <1>6, <1>7, <1>8, <1>9 DEF CallNext

\* Nothing has been given when a call begins.
LEMMA CalledKept ==
  ASSUME NEW p, NEW r, Call(p, r)
  PROVE  Kept(call')
<1>1. PICK a, s : call' = [at |-> "steps", of |-> p, returns |-> r, async |-> a, turn |-> 0, next |-> 1,
                state |-> s,
                result |-> "undefined", promise |-> "none", log |-> <<>>, answer |-> "none", after |-> 0]
  BY DEF Call
<1>2. /\ DOMAIN call' = Fields /\ call'.result = "undefined" /\ call'.log = <<>>
      /\ call'.answer = "none" /\ call'.after = 0
  BY ONLY <1>1 DEF Fields
<1>3. KeptLog(<<>>, "undefined")
  <2>1. <<>> \in Seq(Gives) /\ Len(<<>>) = 0
    OBVIOUS
  <2>2. QED
    BY <2>1 DEF KeptLog, Stands
<1>4. QED
  BY <1>2, <1>3 DEF Kept, KeptAnswer

\* Every step keeps the invariant.
LEMMA CallInvStep == CallInv /\ [InterceptNext]_interceptVars => CallInv'
<1> SUFFICES ASSUME CallInv, [InterceptNext]_interceptVars PROVE CallInv'
  OBVIOUS
<1>1. CASE UNCHANGED call
  BY <1>1 DEF CallInv
<1>2. ASSUME NEW p \in Providers, NEW r \in {"value", "promise"}, Call(p, r)
      PROVE  CallInv'
  BY <1>2, CalledKept DEF CallInv
<1>3. CASE CallNext
  BY <1>3, CallStep DEF CallInv
<1>4. QED
  BY <1>1, <1>2, <1>3 DEF InterceptNext, interceptVars, CreateIntercepted

\* However its interceptors invoke the method, wait for it, throw and put data in
\* the place of its result: it is not run again once it gave a value or a
\* promise, and the caller gets what was given last.
THEOREM InterceptorsKeepResult == InterceptSpec => []ResultIsKept
<1>1. InterceptInit => CallInv
  BY DEF InterceptInit, CallInv
<1>2. CallInv => ResultIsKept
  <2> SUFFICES ASSUME CallInv, call.at # "idle" PROVE ResultIsKept
    BY DEF ResultIsKept
  <2>1. Kept(call)
    BY DEF CallInv, NoCall
  <2>2. DOMAIN call.log = 1 .. Len(call.log)
    BY <2>1, LenProperties DEF Kept, KeptLog
  <2>3. QED
    BY <2>1, <2>2 DEF ResultIsKept, Kept, KeptLog, KeptAnswer, Stands
<1>3. QED
  BY <1>1, <1>2, CallInvStep, PTL DEF InterceptSpec

-----------------------------------------------------------------------------
(* Natural numbers and folds                                               *)

\* What holds of 0 and of the successors of whatever it holds of.
LEMMA Induction ==
  ASSUME NEW P \in SUBSET Nat, 0 \in P, \A n \in P : n + 1 \in P
  PROVE  P = Nat
<1> DEFINE B == Nat \ P
<1>1. SUFFICES ASSUME B # {}
               PROVE  FALSE
  OBVIOUS
<1>2. PICK j \in B : \A m \in B : <<m, j>> \notin OpToRel(<, Nat)
  <2>1. B \in SUBSET Nat
    OBVIOUS
  <2> HIDE DEF B
  <2>2. QED
    BY <1>1, <2>1, NatLessThanWellFounded, WFMin
<1>3. \A m \in B : ~ m < j
  BY <1>2 DEF OpToRel
<1>4. j - 1 \in P /\ (j - 1) + 1 = j
  BY <1>3
<1>5. QED
  BY <1>4

\* Up to n, it is enough that it holds of successors up to n.
LEMMA SegmentInduction ==
  ASSUME NEW n \in Nat, NEW G \in SUBSET Nat, 0 \in G, \A k \in G : k < n => k + 1 \in G
  PROVE  n \in G
<1> DEFINE P == {k \in Nat : k <= n => k \in G}
<1>1. 0 \in P /\ \A k \in P : k + 1 \in P
  OBVIOUS
<1>2. P = Nat
  <2> HIDE DEF P
  <2>1. P \in SUBSET Nat
    BY DEF P
  <2>2. QED
    BY <1>1, <2>1, Induction
<1>3. QED
  BY <1>2

\* A set of natural numbers has a smallest element.
LEMMA MinIn ==
  ASSUME NEW s \in SUBSET Nat, s # {}
  PROVE  Min(s) \in s /\ \A y \in s : Min(s) <= y
<1>1. PICK j \in s : \A m \in s : <<m, j>> \notin OpToRel(<, Nat)
  BY NatLessThanWellFounded, WFMin
<1>2. \A m \in s : ~ m < j
  BY <1>1 DEF OpToRel
<1>3. \A m \in s : j <= m
  BY <1>2
<1>4. QED
  BY <1>3 DEF Min

\* A bounded one has a largest element.
LEMMA MaxIn ==
  ASSUME NEW n \in Nat, NEW s \in SUBSET (0 .. n), s # {}
  PROVE  Max(s) \in s /\ \A y \in s : Max(s) >= y
<1> DEFINE B == {k \in Nat : \A y \in s : k >= y}
<1>1. B # {} /\ B \in SUBSET Nat
  <2>1. n \in B
    OBVIOUS
  <2>2. QED
    BY <2>1
<1>2. PICK j \in B : \A m \in B : <<m, j>> \notin OpToRel(<, Nat)
  <2> HIDE DEF B
  <2>2. QED
    BY <1>1, NatLessThanWellFounded, WFMin
<1>3. \A m \in B : ~ m < j
  BY <1>2 DEF OpToRel
<1>4. j \in s
  <2>1. SUFFICES ASSUME j \notin s
                 PROVE  FALSE
    OBVIOUS
  <2>2. j # 0
    <3>1. PICK y \in s : j >= y
      BY <1>2
    <3>2. y \in Nat /\ y # j
      BY <2>1
    <3>3. QED
      BY <3>1, <3>2
  <2>3. j - 1 \in B
    BY <2>1, <2>2
  <2>4. QED
    BY <1>3, <2>3
<1>5. j \in s /\ \A y \in s : j >= y
  BY <1>2, <1>4
<1>6. QED
  BY <1>5 DEF Max

\* The largest index of a segment is its end.
LEMMA MaxOfSegment ==
  ASSUME NEW n \in Nat
  PROVE  Max(1 .. n + 1) = n + 1 /\ (1 .. n + 1) \ {n + 1} = 1 .. n
<1>1. n + 1 \in 1 .. n + 1 /\ \A y \in 1 .. n + 1 : n + 1 >= y
  OBVIOUS
<1>2. \A x \in 1 .. n + 1 : (\A y \in 1 .. n + 1 : x >= y) => x = n + 1
  BY <1>1
<1>3. Max(1 .. n + 1) = n + 1
  BY <1>1, <1>2 DEF Max
<1>4. QED
  BY <1>3

\* iter is the function FoldLeft recurses along, on n elements of seq.
Iterates(S, base, n, seq, step, iter) ==
    /\ iter \in [SUBSET (1 .. n) -> S]
    /\ \A s \in SUBSET (1 .. n) :
           iter[s] = IF s = {} THEN base ELSE step[<<iter[s \ {Max(s)}], seq[Max(s)]>>]

\* The function FoldLeft recurses along, for a step that is a function, is there.
LEMMA FoldExists ==
  ASSUME NEW S, NEW T, NEW base \in S, NEW n \in Nat, NEW seq, \A i \in 1 .. n : seq[i] \in T,
         NEW step \in [S \X T -> S]
  PROVE  \E iter : Iterates(S, base, n, seq, step, iter)
<1> DEFINE Good(k, iter) == \A s \in SUBSET (1 .. k) :
             iter[s] = IF s = {} THEN base ELSE step[<<iter[s \ {Max(s)}], seq[Max(s)]>>]
           Reaches(k) == \E iter \in [SUBSET (1 .. k) -> S] : Good(k, iter)
           P == {k \in Nat : k > n \/ Reaches(k)}
<1>1. 0 \in P
  <2>1. PICK iter : iter = [s \in SUBSET (1 .. 0) |-> base]
    OBVIOUS
  <2>2. \A s \in SUBSET (1 .. 0) : s = {}
    OBVIOUS
  <2>3. iter \in [SUBSET (1 .. 0) -> S] /\ Good(0, iter)
    BY <2>1, <2>2
  <2>4. QED
    BY <2>3
<1>2. ASSUME NEW k \in P
      PROVE  k + 1 \in P
  <2>1. SUFFICES ASSUME k + 1 <= n
                 PROVE  Reaches(k + 1)
    <3> HIDE DEF Reaches
    <3>1. QED
      BY <2>1
  <2>2. PICK iter \in [SUBSET (1 .. k) -> S] : Good(k, iter)
    <3>1. Reaches(k)
      <4> HIDE DEF Reaches
      <4>1. QED
        BY <2>1
    <3>2. QED
      BY <3>1
  <2>3. PICK next : next = [s \in SUBSET (1 .. k + 1) |->
                      IF k + 1 \in s THEN step[<<iter[s \ {k + 1}], seq[k + 1]>>] ELSE iter[s]]
    OBVIOUS
  <2>4. ASSUME NEW s \in SUBSET (1 .. k + 1), k + 1 \notin s
        PROVE  s \in SUBSET (1 .. k) /\ next[s] = iter[s]
    BY <2>3, <2>4
  <2>5. ASSUME NEW s \in SUBSET (1 .. k + 1), k + 1 \in s
        PROVE  /\ s \ {k + 1} \in SUBSET (1 .. k) /\ Max(s) = k + 1 /\ seq[k + 1] \in T
               /\ next[s] = step[<<iter[s \ {k + 1}], seq[k + 1]>>]
    <3>1. \A x \in s : (\A y \in s : x >= y) => x = k + 1
      BY <2>5
    <3>2. \A y \in s : k + 1 >= y
      OBVIOUS
    <3>3. Max(s) = k + 1
      BY <2>5, <3>1, <3>2 DEF Max
    <3>4. k + 1 \in 1 .. n
      BY <2>1
    <3>5. QED
      BY <2>3, <2>5, <3>3, <3>4
  <2>6. next \in [SUBSET (1 .. k + 1) -> S]
    <3>1. ASSUME NEW s \in SUBSET (1 .. k + 1)
          PROVE  next[s] \in S
      <4>1. CASE k + 1 \in s
        BY <2>5, <4>1
      <4>2. CASE k + 1 \notin s
        BY <2>4, <4>2
      <4>3. QED
        BY <4>1, <4>2
    <3>2. QED
      BY <2>3, <3>1
  <2>7. ASSUME NEW s \in SUBSET (1 .. k + 1)
        PROVE  next[s] = IF s = {} THEN base ELSE step[<<next[s \ {Max(s)}], seq[Max(s)]>>]
    <3>1. CASE k + 1 \in s
      <4>1. next[s \ {k + 1}] = iter[s \ {k + 1}]
        BY <2>4
      <4>2. QED
        BY <2>5, <3>1, <4>1
    <3>2. CASE k + 1 \notin s /\ s # {}
      <4>1. s \in SUBSET (1 .. k) /\ next[s] = iter[s]
        BY <2>4, <3>2
      <4>2. next[s \ {Max(s)}] = iter[s \ {Max(s)}]
        BY <2>4, <3>2
      <4>3. QED
        BY <2>2, <3>2, <4>1, <4>2
    <3>3. CASE s = {}
      BY <2>2, <2>4, <3>3
    <3>4. QED
      BY <3>1, <3>2, <3>3
  <2>8. Good(k + 1, next)
    BY <2>7
  <2>9. QED
    BY <2>6, <2>8
<1>3. P = Nat
  <2> HIDE DEF P
  <2>1. P \in SUBSET Nat
    BY DEF P
  <2>2. QED
    BY <1>1, <1>2, <2>1, Induction
<1>4. Reaches(n)
  <2> HIDE DEF Reaches
  <2>1. QED
    BY <1>3
<1>5. QED
  BY <1>4 DEF Iterates

-----------------------------------------------------------------------------
(* Sequences                                                               *)

\* The elements of a sequence are those at its indices, and make it one.
LEMMA ElementsOf ==
  ASSUME NEW S, NEW s \in Seq(S)
  PROVE  /\ Len(s) \in Nat /\ DOMAIN s = 1 .. Len(s) /\ ToSet(s) \subseteq S
         /\ \A i \in 1 .. Len(s) : s[i] \in S /\ s[i] \in ToSet(s)
<1>1. Len(s) \in Nat /\ DOMAIN s = 1 .. Len(s) /\ \A i \in 1 .. Len(s) : s[i] \in S
  BY LenProperties, ElementOfSeq
<1>2. QED
  BY <1>1 DEF ToSet

\* What a concatenation consists of.
LEMMA ConcatElements ==
  ASSUME NEW S, NEW s \in Seq(S), NEW t \in Seq(S)
  PROVE  s \o t \in Seq(S) /\ ToSet(s \o t) = ToSet(s) \cup ToSet(t)
<1>1. /\ s \o t \in Seq(S) /\ Len(s \o t) = Len(s) + Len(t) /\ Len(s) \in Nat /\ Len(t) \in Nat
      /\ DOMAIN s = 1 .. Len(s) /\ DOMAIN t = 1 .. Len(t) /\ DOMAIN (s \o t) = 1 .. Len(s) + Len(t)
      /\ \A i \in 1 .. Len(s) + Len(t) : (s \o t)[i] = IF i <= Len(s) THEN s[i] ELSE t[i - Len(s)]
  BY ConcatProperties, LenProperties
<1>2. ASSUME NEW i \in 1 .. Len(s) + Len(t)
      PROVE  (s \o t)[i] \in ToSet(s) \cup ToSet(t)
  <2>1. CASE i <= Len(s)
    <3>1. i \in 1 .. Len(s) /\ (s \o t)[i] = s[i]
      BY <1>1, <2>1
    <3>2. QED
      BY <1>1, <3>1 DEF ToSet
  <2>2. CASE ~ i <= Len(s)
    <3>1. i - Len(s) \in 1 .. Len(t) /\ (s \o t)[i] = t[i - Len(s)]
      BY <1>1, <2>2
    <3>2. QED
      BY <1>1, <3>1 DEF ToSet
  <2>3. QED
    BY <2>1, <2>2
<1>3. ASSUME NEW i \in 1 .. Len(s)
      PROVE  s[i] \in ToSet(s \o t)
  <2>1. i \in 1 .. Len(s) + Len(t) /\ (s \o t)[i] = s[i]
    BY <1>1
  <2>2. QED
    BY <1>1, <2>1 DEF ToSet
<1>4. ASSUME NEW i \in 1 .. Len(t)
      PROVE  t[i] \in ToSet(s \o t)
  <2>1. i + Len(s) \in 1 .. Len(s) + Len(t) /\ ~ i + Len(s) <= Len(s) /\ (i + Len(s)) - Len(s) = i
    BY <1>1
  <2>2. (s \o t)[i + Len(s)] = t[i]
    BY <1>1, <2>1
  <2>3. QED
    BY <1>1, <2>1, <2>2 DEF ToSet
<1>5. ToSet(s \o t) \subseteq ToSet(s) \cup ToSet(t)
  BY <1>1, <1>2 DEF ToSet
<1>6. ToSet(s) \subseteq ToSet(s \o t) /\ ToSet(t) \subseteq ToSet(s \o t)
  BY <1>1, <1>3, <1>4 DEF ToSet
<1>7. QED
  BY <1>1, <1>5, <1>6

\* And what a sequence that was added to.
LEMMA AppendElements ==
  ASSUME NEW S, NEW s \in Seq(S), NEW x \in S
  PROVE  Append(s, x) \in Seq(S) /\ ToSet(Append(s, x)) = ToSet(s) \cup {x}
<1>1. /\ Append(s, x) \in Seq(S) /\ Len(s) \in Nat /\ Len(Append(s, x)) = Len(s) + 1
      /\ DOMAIN s = 1 .. Len(s) /\ DOMAIN Append(s, x) = 1 .. Len(s) + 1
      /\ Append(s, x)[Len(s) + 1] = x /\ \A i \in 1 .. Len(s) : Append(s, x)[i] = s[i]
  BY AppendProperties, LenProperties
<1>2. ASSUME NEW i \in 1 .. Len(s) + 1
      PROVE  Append(s, x)[i] \in ToSet(s) \cup {x}
  <2>1. CASE i \in 1 .. Len(s)
    BY <1>1, <2>1 DEF ToSet
  <2>2. CASE i = Len(s) + 1
    BY <1>1, <2>2
  <2>3. QED
    BY <1>1, <2>1, <2>2
<1>3. \A i \in 1 .. Len(s) : i \in 1 .. Len(s) + 1 /\ s[i] \in ToSet(Append(s, x))
  BY <1>1 DEF ToSet
<1>4. Len(s) + 1 \in 1 .. Len(s) + 1 /\ x \in ToSet(Append(s, x))
  <2>1. Len(s) + 1 \in 1 .. Len(s) + 1
    BY <1>1
  <2>2. QED
    BY <1>1, <2>1 DEF ToSet
<1>5. ToSet(Append(s, x)) \subseteq ToSet(s) \cup {x}
  BY <1>1, <1>2 DEF ToSet
<1>6. ToSet(s) \subseteq ToSet(Append(s, x))
  BY <1>1, <1>3 DEF ToSet
<1>7. QED
  BY <1>1, <1>4, <1>5, <1>6

\* What is a sequence of anything is one of its elements.
LEMMA IsSequenceOf ==
  ASSUME NEW S, NEW s \in Seq(S)
  PROVE  IsSequence(s)
<1>1. DOMAIN s = 1 .. Len(s) /\ Len(s) \in Nat /\ s = [i \in 1 .. Len(s) |-> s[i]]
  BY LenProperties
<1>2. \A i \in 1 .. Len(s) : s[i] \in ToSet(s)
  BY <1>1 DEF ToSet
<1>3. [i \in 1 .. Len(s) |-> s[i]] \in Seq(ToSet(s))
  BY <1>1, <1>2, IsASeq
<1>4. QED
  BY <1>1, <1>3 DEF IsSequence

-----------------------------------------------------------------------------
(* FlattenSeq                                                              *)

\* run[k] consists of the first k sequences.
Flattens(S, seqs, run) ==
    /\ run \in [0 .. Len(seqs) -> Seq(S)]
    /\ run[0] = <<>>
    /\ \A k \in 1 .. Len(seqs) : run[k] = run[k - 1] \o seqs[k]

\* There is such a run.
LEMMA FlattensExist ==
  ASSUME NEW S, NEW seqs \in Seq(Seq(S))
  PROVE  \E run : Flattens(S, seqs, run)
<1> DEFINE Reaches(k) == \E run \in [0 .. k -> Seq(S)] :
                         run[0] = <<>> /\ \A j \in 1 .. k : run[j] = run[j - 1] \o seqs[j]
           P == {k \in Nat : k > Len(seqs) \/ Reaches(k)}
<1>1. Len(seqs) \in Nat /\ \A k \in 1 .. Len(seqs) : seqs[k] \in Seq(S)
  BY LenProperties, ElementOfSeq
<1>2. 0 \in P
  <2>1. PICK run : run = [k \in 0 .. 0 |-> <<>>]
    OBVIOUS
  <2>2. run \in [0 .. 0 -> Seq(S)] /\ run[0] = <<>> /\ 1 .. 0 = {}
    BY <2>1
  <2>3. Reaches(0)
    BY <2>2
  <2> HIDE DEF Reaches
  <2>4. QED
    BY <2>3
<1>3. ASSUME NEW k \in P
      PROVE  k + 1 \in P
  <2>1. SUFFICES ASSUME k + 1 <= Len(seqs)
                 PROVE  Reaches(k + 1)
    <3> HIDE DEF Reaches
    <3>1. QED
      BY <2>1
  <2>2. Reaches(k)
    <3> HIDE DEF Reaches
    <3>1. QED
      BY <1>1, <2>1
  <2>3. PICK run \in [0 .. k -> Seq(S)] : run[0] = <<>> /\ \A j \in 1 .. k : run[j] = run[j - 1] \o seqs[j]
    BY <2>2
  <2>4. k \in Nat /\ run[k] \o seqs[k + 1] \in Seq(S)
    <3>1. k + 1 \in 1 .. Len(seqs) /\ k \in 0 .. k
      BY <1>1, <2>1
    <3>2. QED
      BY <1>1, <2>3, <3>1, ConcatProperties
  <2>5. PICK next : next = [j \in 0 .. k + 1 |-> IF j = k + 1 THEN run[k] \o seqs[k + 1] ELSE run[j]]
    OBVIOUS
  <2>6. next \in [0 .. k + 1 -> Seq(S)]
    BY <2>3, <2>4, <2>5
  <2>7. next[0] = <<>>
    BY <2>3, <2>4, <2>5
  <2>8. ASSUME NEW j \in 1 .. k + 1
        PROVE  next[j] = next[j - 1] \o seqs[j]
    <3>1. CASE j = k + 1
      <4>1. j - 1 = k /\ k \in 0 .. k + 1 /\ k # k + 1 /\ j \in 0 .. k + 1
        BY <2>4, <3>1
      <4>2. next[j] = run[k] \o seqs[k + 1] /\ next[j - 1] = run[k]
        BY <2>5, <3>1, <4>1
      <4>3. QED
        BY <3>1, <4>2
    <3>2. CASE j # k + 1
      <4>1. j \in 1 .. k /\ j \in 0 .. k + 1 /\ j - 1 \in 0 .. k + 1 /\ j - 1 # k + 1
        BY <2>4, <3>2
      <4>2. QED
        BY <2>3, <2>5, <3>2, <4>1
    <3>3. QED
      BY <3>1, <3>2
  <2>9. QED
    BY <2>6, <2>7, <2>8
<1>4. P = Nat
  <2> HIDE DEF P
  <2>1. P \in SUBSET Nat
    BY DEF P
  <2>2. QED
    BY <1>2, <1>3, <2>1, Induction
<1>5. Reaches(Len(seqs))
  <2> HIDE DEF Reaches
  <2>1. QED
    BY <1>1, <1>4
<1>6. QED
  BY <1>5 DEF Flattens

\* All such runs end with what FlattenSeq gives.
LEMMA FlattenRun ==
  ASSUME NEW S, NEW seqs \in Seq(Seq(S)), NEW run, Flattens(S, seqs, run)
  PROVE  FlattenSeq(seqs) = run[Len(seqs)] /\ FlattenSeq(seqs) \in Seq(S)
<1> DEFINE n == Len(seqs)
           Body(f) == [i \in 1 .. n |-> IF i = 1 THEN seqs[i] ELSE f[i - 1] \o seqs[i]]
           flatten == CHOOSE f : f = Body(f)
<1>1. n \in Nat /\ \A k \in 1 .. n : seqs[k] \in Seq(S)
  BY LenProperties, ElementOfSeq
<1>2. CASE n = 0
  <2>1. seqs = <<>> /\ FlattenSeq(seqs) = seqs
    BY <1>2, EmptySeq DEF FlattenSeq
  <2>2. run[n] = <<>> /\ run[n] \in Seq(S)
    BY <1>2 DEF Flattens
  <2>3. QED
    BY ONLY <2>1, <2>2
<1>3. CASE n # 0
  <2>1. FlattenSeq(seqs) = flatten[n]
    BY <1>3 DEF FlattenSeq
  <2>2. PICK f : f = [i \in 1 .. n |-> run[i]]
    OBVIOUS
  <2>3. ASSUME NEW i \in 1 .. n
        PROVE  f[i] = IF i = 1 THEN seqs[i] ELSE f[i - 1] \o seqs[i]
    <3>1. f[i] = run[i - 1] \o seqs[i]
      BY <2>2 DEF Flattens
    <3>2. CASE i = 1
      <4>1. i - 1 = 0 /\ run[0] = <<>> /\ seqs[i] \in Seq(S)
        BY <1>1, <3>2 DEF Flattens
      <4>2. QED
        BY <3>1, <3>2, <4>1, ConcatEmptySeq
    <3>3. CASE i # 1
      <4>1. i - 1 \in 1 .. n
        BY <1>1, <3>3
      <4>2. QED
        BY <2>2, <3>1, <3>3, <4>1
    <3>4. QED
      BY <3>2, <3>3
  <2>4. f = Body(f)
    BY <2>2, <2>3
  <2>5. flatten = Body(flatten)
    BY <2>4
  <2> HIDE DEF flatten
  <2> DEFINE G == {k \in Nat : k \in 1 .. n => flatten[k] = run[k]}
  <2>6. 0 \in G
    OBVIOUS
  <2>7. ASSUME NEW k \in G, k < n
        PROVE  k + 1 \in G
    <3>1. k \in Nat /\ k + 1 \in 1 .. n /\ (k + 1) - 1 = k
      BY <1>1, <2>7
    <3>2. f[k + 1] = run[k + 1] /\ flatten[k + 1] = IF k + 1 = 1 THEN seqs[k + 1] ELSE flatten[k] \o seqs[k + 1]
      BY <2>2, <2>5, <3>1
    <3>3. CASE k = 0
      <4>1. k + 1 = 1
        BY <3>3
      <4>2. f[k + 1] = seqs[k + 1]
        BY <2>3, <3>1, <4>1
      <4>3. flatten[k + 1] = run[k + 1]
        BY <3>2, <4>1, <4>2
      <4>4. QED
        BY <4>3
    <3>4. CASE k # 0
      <4>1. k \in 1 .. n
        BY <2>7, <3>4
      <4>2. flatten[k] = run[k] /\ f[k] = run[k]
        BY <2>2, <4>1
      <4>3. f[k + 1] = f[k] \o seqs[k + 1]
        <5>1. f[k + 1] = IF k + 1 = 1 THEN seqs[k + 1] ELSE f[(k + 1) - 1] \o seqs[k + 1]
          BY Zenon, <2>3, <3>1
        <5>2. (k + 1) - 1 = k /\ k + 1 # 1
          BY <3>1, <3>4
        <5>3. QED
          BY ONLY Zenon, <5>1, <5>2
      <4>4. k + 1 # 1
        BY <3>4
      <4>5. flatten[k + 1] = run[k + 1]
        BY <3>2, <4>2, <4>3, <4>4
      <4>6. QED
        BY <4>5
    <3>5. QED
      BY <3>3, <3>4
  <2>8. n \in G
    <3>1. G \in SUBSET Nat
      OBVIOUS
    <3> HIDE DEF G
    <3>2. QED
      BY <1>1, <2>6, <2>7, <3>1, SegmentInduction
  <2>9. n \in 1 .. n /\ run[n] \in Seq(S)
    BY <1>1, <1>3 DEF Flattens
  <2>10. QED
    BY <2>1, <2>8, <2>9
<1>4. QED
  BY <1>2, <1>3

\* It holds what the sequences hold.
LEMMA FlattenElements ==
  ASSUME NEW S, NEW seqs \in Seq(Seq(S))
  PROVE  /\ FlattenSeq(seqs) \in Seq(S)
         /\ ToSet(FlattenSeq(seqs)) = UNION {ToSet(seqs[i]) : i \in 1 .. Len(seqs)}
<1>1. PICK run : Flattens(S, seqs, run)
  BY FlattensExist
<1>2. Len(seqs) \in Nat /\ \A k \in 1 .. Len(seqs) : seqs[k] \in Seq(S)
  BY LenProperties, ElementOfSeq
<1> DEFINE G == {k \in Nat : k <= Len(seqs) => ToSet(run[k]) = UNION {ToSet(seqs[i]) : i \in 1 .. k}}
<1>3. 0 \in G
  <2>1. run[0] = <<>> /\ 1 .. 0 = {} /\ ToSet(<<>>) = {}
    BY <1>1 DEF Flattens, ToSet
  <2>2. ToSet(run[0]) = UNION {ToSet(seqs[i]) : i \in 1 .. 0}
    BY <2>1
  <2>3. QED
    BY <2>2
<1>4. ASSUME NEW k \in G, k < Len(seqs)
      PROVE  k + 1 \in G
  <2>1. k + 1 \in 1 .. Len(seqs) /\ k \in 0 .. Len(seqs) /\ (k + 1) - 1 = k /\ 1 .. k + 1 = (1 .. k) \cup {k + 1}
    BY <1>2, <1>4
  <2>2. run[k + 1] = run[k] \o seqs[k + 1] /\ run[k] \in Seq(S)
    BY <1>1, <2>1 DEF Flattens
  <2>3. ToSet(run[k + 1]) = ToSet(run[k]) \cup ToSet(seqs[k + 1])
    BY <1>2, <2>1, <2>2, ConcatElements
  <2>4. ToSet(run[k]) = UNION {ToSet(seqs[i]) : i \in 1 .. k}
    BY <1>4
  <2>5. ToSet(run[k + 1]) = UNION {ToSet(seqs[i]) : i \in 1 .. k + 1}
    BY <2>1, <2>3, <2>4
  <2>6. QED
    BY <2>5
<1>5. Len(seqs) \in G
  <2>1. G \in SUBSET Nat
    OBVIOUS
  <2> HIDE DEF G
  <2>2. QED
    BY <1>2, <1>3, <1>4, <2>1, SegmentInduction
<1>6. ToSet(run[Len(seqs)]) = UNION {ToSet(seqs[i]) : i \in 1 .. Len(seqs)}
  BY <1>2, <1>5
<1>7. FlattenSeq(seqs) = run[Len(seqs)] /\ FlattenSeq(seqs) \in Seq(S)
  BY <1>1, FlattenRun
<1>8. QED
  BY ONLY <1>6, <1>7

\* The first sequence comes first.
LEMMA FlattenFirst ==
  ASSUME NEW S, NEW s \in Seq(S), NEW seqs \in Seq(Seq(S))
  PROVE  FlattenSeq(<<s>> \o seqs) = s \o FlattenSeq(seqs)
<1> DEFINE n == Len(seqs)
           all == <<s>> \o seqs
<1>1. PICK run : Flattens(S, seqs, run)
  BY FlattensExist
<1>2. /\ n \in Nat /\ all \in Seq(Seq(S)) /\ Len(all) = n + 1 /\ all[1] = s
      /\ \A k \in 1 .. n : all[k + 1] = seqs[k]
  <2>1. <<s>> \in Seq(Seq(S)) /\ Len(<<s>>) = 1 /\ <<s>>[1] = s /\ n \in Nat
    OBVIOUS
  <2>2. /\ all \in Seq(Seq(S)) /\ Len(all) = Len(<<s>>) + n
        /\ \A i \in 1 .. Len(<<s>>) + n : all[i] = IF i <= Len(<<s>>) THEN <<s>>[i] ELSE seqs[i - Len(<<s>>)]
    BY <2>1, ConcatProperties
  <2>3. Len(all) = n + 1
    BY <2>1, <2>2
  <2>4. \A i \in 1 .. n + 1 : all[i] = IF i <= 1 THEN <<s>>[i] ELSE seqs[i - 1]
    BY <2>1, <2>2
  <2>5. all[1] = s
    BY <2>1, <2>4
  <2>6. ASSUME NEW k \in 1 .. n
        PROVE  all[k + 1] = seqs[k]
    <3>1. k + 1 \in 1 .. n + 1 /\ ~ k + 1 <= 1 /\ (k + 1) - 1 = k
      BY <2>1
    <3>2. QED
      BY <2>4, <3>1
  <2>7. QED
    BY <2>1, <2>2, <2>3, <2>5, <2>6
<1> HIDE DEF all
<1>3. PICK next : next = [k \in 0 .. n + 1 |-> IF k = 0 THEN <<>> ELSE s \o run[k - 1]]
  OBVIOUS
<1>4. run \in [0 .. n -> Seq(S)] /\ run[0] = <<>> /\ \A k \in 1 .. n : run[k] = run[k - 1] \o seqs[k]
  BY <1>1 DEF Flattens
<1>5. \A k \in 1 .. n : seqs[k] \in Seq(S)
  BY ElementOfSeq, LenProperties
<1>6. next \in [0 .. n + 1 -> Seq(S)]
  <2>1. ASSUME NEW k \in 0 .. n + 1
        PROVE  next[k] \in Seq(S)
    <3>1. CASE k = 0
      BY <1>3, <3>1
    <3>2. CASE k # 0
      <4>1. k - 1 \in 0 .. n
        BY <1>2, <3>2
      <4>2. QED
        BY <1>3, <1>4, <3>2, <4>1, ConcatProperties
    <3>3. QED
      BY <3>1, <3>2
  <2>2. QED
    BY <1>3, <2>1
<1>7. ASSUME NEW k \in 1 .. n + 1
      PROVE  next[k] = next[k - 1] \o all[k]
  <2>1. k \in 0 .. n + 1 /\ k - 1 \in 0 .. n + 1 /\ next[k] = s \o run[k - 1]
    BY <1>2, <1>3
  <2>2. CASE k = 1
    <3>1. next[k - 1] = <<>> /\ run[k - 1] = <<>> /\ all[k] = s
      BY <1>2, <1>3, <1>4, <2>1, <2>2
    <3>2. QED
      BY <2>1, <3>1, ConcatEmptySeq
  <2>3. CASE k # 1
    <3>1. k - 1 \in 1 .. n /\ (k - 1) + 1 = k /\ k - 1 # 0 /\ (k - 1) - 1 \in 0 .. n
      BY <1>2, <2>3
    <3>2. /\ run[k - 1] = run[(k - 1) - 1] \o seqs[k - 1] /\ all[k] = seqs[k - 1]
          /\ next[k - 1] = s \o run[(k - 1) - 1]
      BY <1>2, <1>3, <1>4, <2>1, <3>1
    <3>3. seqs[k - 1] \in Seq(S) /\ run[(k - 1) - 1] \in Seq(S)
      BY <1>4, <1>5, <3>1
    <3>4. \A a, b \in Seq(S) : s \o (a \o b) = (s \o a) \o b
      BY ConcatAssociative
    <3>5. s \o (run[(k - 1) - 1] \o seqs[k - 1]) = (s \o run[(k - 1) - 1]) \o seqs[k - 1]
      BY <3>3, <3>4
    <3>6. QED
      BY ONLY <2>1, <3>2, <3>5
  <2>4. QED
    BY <2>2, <2>3
<1>8. Flattens(S, all, next)
  <2>1. next[0] = <<>>
    BY <1>2, <1>3
  <2>2. QED
    BY <1>2, <1>6, <1>7, <2>1 DEF Flattens
<1>9. FlattenSeq(all) = next[n + 1] /\ FlattenSeq(seqs) = run[n]
  BY <1>1, <1>2, <1>8, FlattenRun
<1>10. next[n + 1] = s \o run[n]
  BY <1>2, <1>3
<1>11. QED
  BY <1>9, <1>10 DEF all

-----------------------------------------------------------------------------
(* Classes and their bases                                                 *)

\* How far a class is from the end of its chain of bases.
IsDepth(depth) ==
    /\ depth \in [Classes -> Nat]
    /\ \A c \in Classes : Extends[c] # None => Extends[c] \in Classes /\ depth[Extends[c]] < depth[c]

\* There is such a depth.
LEMMA DepthExists == \E depth : IsDepth(depth)
<1>1. PICK depth \in [Classes -> 0 .. Cardinality(Classes)] :
          \A c \in Classes : Extends[c] # None => depth[Extends[c]] < depth[c]
  BY ClassAssumption
<1>2. Cardinality(Classes) \in Nat
  BY ClassAssumption, FS_CardinalityType
<1>3. depth \in [Classes -> Nat]
  BY <1>1, <1>2
<1>4. \A c \in Classes : Extends[c] # None => Extends[c] \in Classes
  BY ClassAssumption
<1>5. QED
  BY <1>1, <1>3, <1>4 DEF IsDepth

\* What holds of a class if it holds of its base holds of all.
LEMMA ClassInduction ==
  ASSUME NEW G \in SUBSET Classes,
         \A c \in Classes : (Extends[c] # None => Extends[c] \in G) => c \in G
  PROVE  G = Classes
<1>1. PICK depth : IsDepth(depth)
  BY DepthExists
<1> DEFINE P == {k \in Nat : \A c \in Classes : depth[c] < k => c \in G}
<1>2. 0 \in P
  BY <1>1 DEF IsDepth
<1>3. ASSUME NEW k \in P
      PROVE  k + 1 \in P
  <2>1. ASSUME NEW c \in Classes, depth[c] < k + 1
        PROVE  c \in G
    <3>1. Extends[c] # None => Extends[c] \in Classes /\ depth[Extends[c]] < k
      BY <1>1, <2>1 DEF IsDepth
    <3>2. Extends[c] # None => Extends[c] \in G
      BY <3>1
    <3>3. QED
      BY <3>2
  <2>2. QED
    BY <2>1
<1>4. P = Nat
  <2> HIDE DEF P
  <2>1. P \in SUBSET Nat
    BY DEF P
  <2>2. QED
    BY <1>2, <1>3, <2>1, Induction
<1>5. ASSUME NEW c \in Classes
      PROVE  c \in G
  <2>1. depth[c] \in Nat /\ depth[c] + 1 \in P /\ depth[c] < depth[c] + 1
    BY <1>1, <1>4 DEF IsDepth
  <2>2. QED
    BY <2>1
<1>6. QED
  BY <1>5

\* The chain of the base, none without one.
Above(c) == IF Extends[c] = None THEN <<>> ELSE Prototypes[Extends[c]]

\* The recursive function is there: it is built up by depth.
LEMMA PrototypesAre ==
  /\ Prototypes \in [Classes -> Seq(Classes)]
  /\ \A c \in Classes : Prototypes[c] = <<c>> \o Above(c)
<1> DEFINE Link(p, c) == <<c>> \o (IF Extends[c] = None THEN <<>> ELSE p[Extends[c]])
           Body(p) == [c \in Classes |-> Link(p, c)]
           D == Cardinality(Classes)
<1>1. PICK depth : IsDepth(depth) /\ \A c \in Classes : depth[c] <= D
  <2>1. PICK depth \in [Classes -> 0 .. D] :
            \A c \in Classes : Extends[c] # None => depth[Extends[c]] < depth[c]
    BY ClassAssumption
  <2>2. D \in Nat
    BY ClassAssumption, FS_CardinalityType
  <2> HIDE DEF D
  <2>3. depth \in [Classes -> Nat] /\ \A c \in Classes : depth[c] <= D
    BY <2>1, <2>2
  <2>4. \A c \in Classes : Extends[c] # None => Extends[c] \in Classes
    BY ClassAssumption
  <2>5. IsDepth(depth)
    BY <2>1, <2>3, <2>4 DEF IsDepth
  <2>6. QED
    BY <2>3, <2>5
<1> DEFINE Reaches(k) == \E p \in [Classes -> Seq(Classes)] :
                         \A c \in Classes : depth[c] < k => p[c] = Link(p, c)
           P == {k \in Nat : Reaches(k)}
<1>2. 0 \in P
  <2>1. PICK p : p = [c \in Classes |-> <<>>]
    OBVIOUS
  <2>2. p \in [Classes -> Seq(Classes)]
    BY <2>1
  <2>3. \A c \in Classes : ~ depth[c] < 0
    BY <1>1 DEF IsDepth
  <2>4. Reaches(0)
    BY <2>2, <2>3
  <2>5. QED
    BY <2>4
<1>3. ASSUME NEW k \in P
      PROVE  k + 1 \in P
  <2>1. PICK p \in [Classes -> Seq(Classes)] : \A c \in Classes : depth[c] < k => p[c] = Link(p, c)
    OBVIOUS
  <2>2. \A c \in Classes : Link(p, c) \in Seq(Classes)
    <3>1. \A c \in Classes : (IF Extends[c] = None THEN <<>> ELSE p[Extends[c]]) \in Seq(Classes)
      BY <1>1, <2>1 DEF IsDepth
    <3>2. \A c \in Classes : <<c>> \in Seq(Classes)
      OBVIOUS
    <3>3. QED
      BY <3>1, <3>2, ConcatProperties
  <2> HIDE DEF Link
  <2>3. PICK q : q = [c \in Classes |-> IF depth[c] = k THEN Link(p, c) ELSE p[c]]
    OBVIOUS
  <2>4. q \in [Classes -> Seq(Classes)]
    BY <2>1, <2>2, <2>3
  <2>5. ASSUME NEW c \in Classes, depth[c] < k + 1
        PROVE  q[c] = Link(q, c)
    <3>1. k \in Nat /\ depth[c] \in Nat /\ depth[c] <= k
      BY <1>1, <2>5 DEF IsDepth
    <3>2. q[c] = Link(p, c)
      <4>1. CASE depth[c] = k
        BY <2>3, <4>1
      <4>2. CASE depth[c] # k
        BY <2>1, <2>3, <3>1, <4>2
      <4>3. QED
        BY <4>1, <4>2
    <3>3. Extends[c] # None => q[Extends[c]] = p[Extends[c]]
      <4>1. Extends[c] # None => Extends[c] \in Classes /\ depth[Extends[c]] \in Nat /\ depth[Extends[c]] < depth[c]
        BY <1>1 DEF IsDepth
      <4>2. Extends[c] # None => depth[Extends[c]] # k
        BY <3>1, <4>1
      <4>3. QED
        BY <2>3, <4>1, <4>2
    <3>4. Link(q, c) = Link(p, c)
      BY <3>3 DEF Link
    <3>5. QED
      BY <3>2, <3>4
  <2>6. Reaches(k + 1)
    BY <2>4, <2>5
  <2> HIDE DEF Reaches
  <2>7. QED
    BY <2>6
<1>4. P = Nat
  <2> HIDE DEF P
  <2>1. P \in SUBSET Nat
    BY DEF P
  <2>2. QED
    BY <1>2, <1>3, <2>1, Induction
<1>5. Reaches(D + 1)
  <2>1. D + 1 \in Nat
    BY ClassAssumption, FS_CardinalityType
  <2> HIDE DEF Reaches
  <2>2. QED
    BY <1>4, <2>1
<1>6. \E p : p = Body(p)
  <2>1. PICK p \in [Classes -> Seq(Classes)] : \A c \in Classes : depth[c] < D + 1 => p[c] = Link(p, c)
    BY <1>5
  <2>2. \A c \in Classes : depth[c] < D + 1
    BY <1>1, ClassAssumption, FS_CardinalityType DEF IsDepth
  <2> HIDE DEF Link
  <2>3. p = Body(p)
    BY <2>1, <2>2
  <2>4. QED
    BY <2>3
<1>7. Prototypes = Body(Prototypes)
  BY Zenon, <1>6 DEF Prototypes
<1>8. \A c \in Classes : Prototypes[c] = <<c>> \o Above(c)
  BY <1>7 DEF Above
<1> DEFINE G == {c \in Classes : Prototypes[c] \in Seq(Classes)}
<1>9. ASSUME NEW c \in Classes, Extends[c] # None => Extends[c] \in G
      PROVE  c \in G
  <2>1. Above(c) \in Seq(Classes) /\ <<c>> \in Seq(Classes)
    BY <1>9 DEF Above
  <2>2. Prototypes[c] \in Seq(Classes)
    BY <1>8, <2>1, ConcatProperties
  <2>3. QED
    BY <2>2
<1>10. G = Classes
  <2> HIDE DEF G
  <2>1. G \in SUBSET Classes
    BY DEF G
  <2>2. QED
    BY <1>9, <2>1, ClassInduction
<1>11. Prototypes = [c \in Classes |-> Prototypes[c]]
  BY <1>7
<1>12. Prototypes \in [Classes -> Seq(Classes)]
  BY <1>10, <1>11
<1>13. QED
  BY <1>8, <1>12

\* The classes of a chain, from the class on.
LEMMA ChainElements ==
  ASSUME NEW c \in Classes
  PROVE  /\ Prototypes[c] \in Seq(Classes) /\ Above(c) \in Seq(Classes)
         /\ Extends[c] # None => Extends[c] \in Classes
         /\ ToSet(Prototypes[c]) = {c} \cup ToSet(Above(c)) /\ ToSet(Prototypes[c]) \subseteq Classes
         /\ Extends[c] # None => ToSet(Prototypes[c]) = {c} \cup ToSet(Prototypes[Extends[c]])
         /\ Extends[c] = None => ToSet(Prototypes[c]) = {c}
<1>1. Extends[c] # None => Extends[c] \in Classes
  BY ClassAssumption
<1>2. Above(c) \in Seq(Classes) /\ Prototypes[c] \in Seq(Classes) /\ Prototypes[c] = <<c>> \o Above(c)
  BY <1>1, PrototypesAre DEF Above
<1>3. <<c>> \in Seq(Classes) /\ ToSet(<<c>>) = {c} /\ ToSet(<<>>) = {}
  BY DEF ToSet
<1>4. ToSet(Prototypes[c]) = {c} \cup ToSet(Above(c))
  <2>1. \A s, t \in Seq(Classes) : ToSet(s \o t) = ToSet(s) \cup ToSet(t)
    BY ConcatElements
  <2>2. ToSet(<<c>> \o Above(c)) = ToSet(<<c>>) \cup ToSet(Above(c))
    BY <1>2, <1>3, <2>1
  <2>3. QED
    BY ONLY <1>2, <1>3, <2>2
<1>5. ToSet(Prototypes[c]) \subseteq Classes
  BY <1>2, ElementsOf
<1>6. QED
  BY <1>1, <1>2, <1>3, <1>4, <1>5 DEF Above

\* A class of the chain has its own chain in it, and a class is not among its bases.
LEMMA ChainWithin ==
  ASSUME NEW c \in Classes, NEW e \in ToSet(Prototypes[c])
  PROVE  e \in Classes /\ ToSet(Prototypes[e]) \subseteq ToSet(Prototypes[c])
<1> DEFINE G == {f \in Classes : \A g \in ToSet(Prototypes[f]) :
                     g \in Classes /\ ToSet(Prototypes[g]) \subseteq ToSet(Prototypes[f])}
<1>1. ASSUME NEW f \in Classes, Extends[f] # None => Extends[f] \in G
      PROVE  f \in G
  <2>1. ASSUME NEW g \in ToSet(Prototypes[f])
        PROVE  g \in Classes /\ ToSet(Prototypes[g]) \subseteq ToSet(Prototypes[f])
    <3>1. CASE g = f
      BY <3>1
    <3>2. CASE g # f
      <4>1. Extends[f] # None /\ g \in ToSet(Prototypes[Extends[f]])
        <5>1. Extends[f] = None => ToSet(Prototypes[f]) = {f}
          BY ChainElements
        <5>2. Extends[f] # None => ToSet(Prototypes[f]) = {f} \cup ToSet(Prototypes[Extends[f]])
          BY ChainElements
        <5>3. QED
          BY ONLY <2>1, <3>2, <5>1, <5>2
      <4>2. g \in Classes /\ ToSet(Prototypes[g]) \subseteq ToSet(Prototypes[Extends[f]])
        BY <1>1, <4>1
      <4>3. ToSet(Prototypes[Extends[f]]) \subseteq ToSet(Prototypes[f])
        BY <4>1, ChainElements
      <4>4. QED
        BY <4>2, <4>3
    <3>3. QED
      BY <3>1, <3>2
  <2>2. QED
    BY <2>1
<1>2. G = Classes
  <2> HIDE DEF G
  <2>1. G \in SUBSET Classes
    BY DEF G
  <2>2. QED
    BY <1>1, <2>1, ClassInduction
<1>3. QED
  BY <1>2

\* A class is none of its bases.
LEMMA ChainIsAcyclic ==
  ASSUME NEW c \in Classes
  PROVE  c \notin ToSet(Above(c))
<1>1. PICK depth : IsDepth(depth)
  BY DepthExists
<1> DEFINE G == {f \in Classes : \A g \in ToSet(Prototypes[f]) : depth[g] <= depth[f]}
<1>2. ASSUME NEW f \in Classes, Extends[f] # None => Extends[f] \in G
      PROVE  f \in G
  <2>1. ASSUME NEW g \in ToSet(Prototypes[f])
        PROVE  depth[g] <= depth[f]
    <3>1. CASE g = f
      BY <1>1, <3>1 DEF IsDepth
    <3>2. CASE g # f
      <4>1. Extends[f] # None /\ g \in ToSet(Prototypes[Extends[f]]) /\ g \in Classes
        BY <2>1, <3>2, ChainElements
      <4>2. depth[g] <= depth[Extends[f]] /\ depth[Extends[f]] < depth[f] /\ depth[Extends[f]] \in Nat
        BY <1>1, <1>2, <4>1 DEF IsDepth
      <4>3. depth[g] \in Nat /\ depth[f] \in Nat
        BY <1>1, <4>1 DEF IsDepth
      <4>4. QED
        BY <4>2, <4>3
    <3>3. QED
      BY <3>1, <3>2
  <2>2. QED
    BY <2>1
<1>3. G = Classes
  <2> HIDE DEF G
  <2>1. G \in SUBSET Classes
    BY DEF G
  <2>2. QED
    BY <1>2, <2>1, ClassInduction
<1>4. SUFFICES ASSUME c \in ToSet(Above(c)) PROVE FALSE
  OBVIOUS
<1>5. Extends[c] # None /\ c \in ToSet(Prototypes[Extends[c]])
  BY <1>4 DEF Above, ToSet
<1>6. Extends[c] \in Classes /\ depth[Extends[c]] < depth[c] /\ depth[c] \in Nat /\ depth[Extends[c]] \in Nat
  BY <1>1, <1>5 DEF IsDepth
<1>7. depth[c] <= depth[Extends[c]]
  BY <1>3, <1>5, <1>6
<1>8. QED
  BY <1>6, <1>7

\* The nearest class in S is the class itself or else the nearest from its base on.
LEMMA NearestIs ==
  ASSUME NEW c \in Classes, NEW S
  PROVE  /\ c \in S => NearestIn(S, c) = c
         /\ c \notin S /\ Extends[c] = None => NearestIn(S, c) = None
         /\ c \notin S /\ Extends[c] # None => NearestIn(S, c) = NearestIn(S, Extends[c])
<1> DEFINE p == Prototypes[c]
           places == {i \in DOMAIN p : p[i] \in S}
<1>1. /\ Above(c) \in Seq(Classes) /\ p \in Seq(Classes) /\ Len(Above(c)) \in Nat
      /\ DOMAIN p = 1 .. Len(Above(c)) + 1 /\ p[1] = c
      /\ \A i \in 1 .. Len(Above(c)) : p[i + 1] = Above(c)[i]
  <2>1. /\ Above(c) \in Seq(Classes) /\ p \in Seq(Classes) /\ p = <<c>> \o Above(c)
        /\ Len(Above(c)) \in Nat /\ <<c>> \in Seq(Classes) /\ Len(<<c>>) = 1 /\ <<c>>[1] = c
    <3>1. Above(c) \in Seq(Classes) /\ p \in Seq(Classes)
      BY ChainElements
    <3>2. p = <<c>> \o Above(c)
      BY PrototypesAre
    <3> HIDE DEF p
    <3>3. Len(Above(c)) \in Nat
      BY <3>1, LenProperties
    <3>4. <<c>> \in Seq(Classes) /\ Len(<<c>>) = 1 /\ <<c>>[1] = c
      OBVIOUS
    <3>5. QED
      BY ONLY <3>1, <3>2, <3>3, <3>4
  <2>2. /\ Len(p) = Len(<<c>>) + Len(Above(c))
        /\ \A i \in 1 .. Len(<<c>>) + Len(Above(c)) :
              p[i] = IF i <= Len(<<c>>) THEN <<c>>[i] ELSE Above(c)[i - Len(<<c>>)]
    BY <2>1, ConcatProperties
  <2>3. DOMAIN p = 1 .. Len(p)
    BY <2>1, LenProperties
  <2> HIDE DEF p
  <2>4. Len(p) = Len(Above(c)) + 1
    BY <2>1, <2>2
  <2>5. \A i \in 1 .. Len(Above(c)) + 1 : p[i] = IF i <= 1 THEN <<c>>[i] ELSE Above(c)[i - 1]
    BY <2>1, <2>2
  <2>6. p[1] = c
    BY <2>1, <2>5
  <2>7. ASSUME NEW i \in 1 .. Len(Above(c))
        PROVE  p[i + 1] = Above(c)[i]
    <3>1. i + 1 \in 1 .. Len(Above(c)) + 1 /\ ~ i + 1 <= 1 /\ (i + 1) - 1 = i
      BY <2>1
    <3>2. QED
      BY <2>5, <3>1
  <2>8. QED
    BY <2>1, <2>3, <2>4, <2>6, <2>7
<1> HIDE DEF p
<1>2. NearestIn(S, c) = IF places = {} THEN None ELSE p[Min(places)]
  BY DEF NearestIn, p
<1>3. places \in SUBSET Nat
  BY <1>1
<1>4. CASE c \in S
  <2>1. 1 \in places
    BY <1>1, <1>4
  <2>2. Min(places) \in places /\ Min(places) <= 1
    <3> HIDE DEF places
    <3>1. QED
      BY <1>3, <2>1, MinIn
  <2>3. Min(places) = 1
    BY <1>1, <2>2
  <2>4. QED
    BY <1>1, <1>2, <1>4, <2>1, <2>3
<1>5. CASE c \notin S /\ Extends[c] = None
  <2>1. Len(Above(c)) = 0
    BY <1>5 DEF Above
  <2>2. places = {}
    BY <1>1, <1>5, <2>1
  <2>3. QED
    BY <1>2, <1>5, <2>2
<1>6. CASE c \notin S /\ Extends[c] # None
  <2> DEFINE a == Above(c)
             above == {i \in DOMAIN a : a[i] \in S}
  <2>1. a = Prototypes[Extends[c]] /\ DOMAIN a = 1 .. Len(a)
    BY <1>1, <1>6, LenProperties DEF Above
  <2>2. NearestIn(S, Extends[c]) = IF above = {} THEN None ELSE a[Min(above)]
    BY <2>1 DEF NearestIn
  <2> HIDE DEF a
  <2>3. above \in SUBSET Nat
    BY <2>1
  <2>4. \A i \in Nat : i + 1 \in places <=> i \in above
    <3> SUFFICES ASSUME NEW i \in Nat PROVE i + 1 \in places <=> i \in above
      OBVIOUS
    <3>1. CASE i = 0
      BY <1>1, <1>6, <2>1, <3>1
    <3>2. CASE i # 0
      <4>1. i + 1 \in 1 .. Len(a) + 1 <=> i \in 1 .. Len(a)
        BY <1>1, <3>2 DEF a
      <4>2. i \in 1 .. Len(a) => p[i + 1] = a[i]
        BY <1>1 DEF a
      <4>3. QED
        BY <1>1, <2>1, <4>1, <4>2 DEF a
    <3>3. QED
      BY <3>1, <3>2
  <2>5. \A j \in places : j # 0 /\ j - 1 \in Nat /\ (j - 1) + 1 = j
    BY <1>1
  <2>6. CASE above = {}
    <3>1. places = {}
      BY <2>4, <2>5, <2>6
    <3>2. QED
      BY <1>2, <1>6, <2>2, <2>6, <3>1
  <2>7. CASE above # {}
    <3>1. Min(above) \in above /\ \A i \in above : Min(above) <= i
      <4> HIDE DEF above
      <4>1. QED
        BY <2>3, <2>7, MinIn
    <3>2. Min(above) \in Nat /\ Min(above) + 1 \in places
      BY <2>3, <2>4, <3>1
    <3>3. \A j \in places : j \in Nat /\ Min(above) + 1 <= j
      <4> SUFFICES ASSUME NEW j \in places PROVE j \in Nat /\ Min(above) + 1 <= j
        OBVIOUS
      <4>1. j - 1 \in Nat /\ j - 1 \in above /\ j \in Nat
        BY <1>3, <2>4, <2>5
      <4> HIDE DEF above
      <4>2. Min(above) <= j - 1
        BY <3>1, <4>1
      <4>3. QED
        BY <3>2, <4>1, <4>2
    <3>4. Min(places) \in places /\ \A j \in places : Min(places) <= j
      <4> HIDE DEF places
      <4>1. QED
        BY <1>3, <3>2, MinIn
    <3>5. Min(places) = Min(above) + 1
      <4> HIDE DEF above, places
      <4>1. Min(places) \in Nat /\ Min(places) <= Min(above) + 1 /\ Min(above) + 1 <= Min(places)
        BY <3>2, <3>3, <3>4
      <4>2. QED
        BY <3>2, <4>1
    <3>6. p[Min(above) + 1] = a[Min(above)]
      BY <1>1, <2>1, <3>1 DEF a
    <3> HIDE DEF above, places
    <3>7. places # {}
      BY <3>2
    <3>8. QED
      BY <1>2, <1>6, <2>2, <2>7, <3>5, <3>6, <3>7
  <2>8. QED
    BY <2>6, <2>7
<1>7. QED
  BY <1>4, <1>5, <1>6

\* It is a class of the chain that is in S, if there is one.
LEMMA NearestFound ==
  ASSUME NEW c \in Classes, NEW S
  PROVE  \/ NearestIn(S, c) \in ToSet(Prototypes[c]) /\ NearestIn(S, c) \in S
         \/ NearestIn(S, c) = None /\ \A e \in ToSet(Prototypes[c]) : e \notin S
<1> DEFINE Right(f) == \/ NearestIn(S, f) \in ToSet(Prototypes[f]) /\ NearestIn(S, f) \in S
                       \/ NearestIn(S, f) = None /\ \A e \in ToSet(Prototypes[f]) : e \notin S
           G == {f \in Classes : Right(f)}
<1>1. ASSUME NEW f \in Classes, Extends[f] # None => Extends[f] \in G
      PROVE  Right(f)
  <2>1. CASE f \in S
    <3>1. NearestIn(S, f) = f
      BY <2>1, NearestIs
    <3>2. f \in ToSet(Prototypes[f])
      BY ChainElements
    <3>3. QED
      BY <2>1, <3>1, <3>2
  <2>2. CASE f \notin S /\ Extends[f] = None
    <3>1. NearestIn(S, f) = None
      BY <2>2, NearestIs
    <3>2. ToSet(Prototypes[f]) = {f}
      BY <2>2, ChainElements
    <3>3. QED
      BY <2>2, <3>1, <3>2
  <2>3. CASE f \notin S /\ Extends[f] # None
    <3>1. /\ NearestIn(S, f) = NearestIn(S, Extends[f])
          /\ ToSet(Prototypes[f]) = {f} \cup ToSet(Prototypes[Extends[f]])
      BY <2>3, NearestIs, ChainElements
    <3>2. Right(Extends[f])
      BY <1>1, <2>3
    <3>3. QED
      BY <2>3, <3>1, <3>2
  <2>4. QED
    BY <2>1, <2>2, <2>3
<1>2. G = Classes
  <2> HIDE DEF Right
  <2>1. G \in SUBSET Classes
    OBVIOUS
  <2>2. \A f \in Classes : (Extends[f] # None => Extends[f] \in G) => f \in G
    BY <1>1
  <2> HIDE DEF G
  <2>3. QED
    BY <2>1, <2>2, ClassInduction
<1>3. QED
  BY <1>2

\* The nearest class depends on who of the chain is in the set.
LEMMA NearestAgrees ==
  ASSUME NEW c \in Classes, NEW S, NEW T, \A e \in ToSet(Prototypes[c]) : e \in S <=> e \in T
  PROVE  NearestIn(S, c) = NearestIn(T, c)
<1>1. DOMAIN Prototypes[c] = 1 .. Len(Prototypes[c])
      /\ \A i \in DOMAIN Prototypes[c] : Prototypes[c][i] \in ToSet(Prototypes[c])
  BY ChainElements, ElementsOf
<1>2. {i \in DOMAIN Prototypes[c] : Prototypes[c][i] \in S} = {i \in DOMAIN Prototypes[c] : Prototypes[c][i] \in T}
  BY <1>1
<1>3. QED
  BY <1>2 DEF NearestIn

-----------------------------------------------------------------------------
(* The folds                                                               *)

\* iter is what FoldLeft recurses along, where its own values are in S.
Recurses(S, T, base, n, seq, step, iter) ==
    /\ iter[{}] = base
    /\ \A s \in SUBSET (1 .. n) :
          (s # {} /\ iter[s \ {Max(s)}] \in S /\ seq[Max(s)] \in T)
            => iter[s] = step[<<iter[s \ {Max(s)}], seq[Max(s)]>>]

\* And is in S everywhere.
RecursesIn(S, T, base, n, seq, step, iter) ==
    /\ iter \in [SUBSET (1 .. n) -> S] /\ iter[{}] = base
    /\ \A s \in SUBSET (1 .. n) : s # {} =>
          /\ iter[s \ {Max(s)}] \in S /\ seq[Max(s)] \in T
          /\ iter[s] = step[<<iter[s \ {Max(s)}], seq[Max(s)]>>]

\* run[k] is what k steps make of the base, and iter gives the last.
RunOf(S, T, base, n, seq, step, iter, run) ==
    /\ run \in [0 .. n -> S] /\ run[0] = base /\ run[n] = iter[1 .. n]
    /\ \A k \in 0 .. n - 1 : seq[k + 1] \in T /\ run[k + 1] = step[<<run[k], seq[k + 1]>>]

\* A function FoldLeft can recurse along is there,
LEMMA FoldIterates ==
  ASSUME NEW S, NEW T, NEW base \in S, NEW n \in Nat, NEW seq, \A i \in 1 .. n : seq[i] \in T,
         NEW step \in [S \X T -> S]
  PROVE  \E iter : RecursesIn(S, T, base, n, seq, step, iter)
<1>1. PICK iter : Iterates(S, base, n, seq, step, iter)
  BY FoldExists
<1>2. iter \in [SUBSET (1 .. n) -> S] /\ iter[{}] = base
  BY <1>1 DEF Iterates
<1>3. ASSUME NEW s \in SUBSET (1 .. n), s # {}
      PROVE  /\ iter[s \ {Max(s)}] \in S /\ seq[Max(s)] \in T
             /\ iter[s] = step[<<iter[s \ {Max(s)}], seq[Max(s)]>>]
  <2>1. s \in SUBSET (0 .. n)
    OBVIOUS
  <2>2. Max(s) \in s
    BY <1>3, <2>1, MaxIn
  <2>3. s \ {Max(s)} \in SUBSET (1 .. n)
    OBVIOUS
  <2>4. iter[s \ {Max(s)}] \in S /\ seq[Max(s)] \in T
    BY <1>2, <2>2, <2>3
  <2>5. iter[s] = step[<<iter[s \ {Max(s)}], seq[Max(s)]>>]
    BY <1>1, <1>3 DEF Iterates
  <2>6. QED
    BY <2>4, <2>5
<1>4. QED
  BY <1>2, <1>3 DEF RecursesIn

\* and gives on the first k elements what k steps make of the base.
LEMMA FoldRuns ==
  ASSUME NEW S, NEW T, NEW base \in S, NEW n \in Nat, NEW seq, \A i \in 1 .. n : seq[i] \in T,
         NEW step \in [S \X T -> S], NEW it, Recurses(S, T, base, n, seq, step, it)
  PROVE  \E run : RunOf(S, T, base, n, seq, step, it, run)
<1>1. ASSUME NEW k \in 0 .. n - 1, it[1 .. k] \in S
      PROVE  it[1 .. k + 1] = step[<<it[1 .. k], seq[k + 1]>>] /\ it[1 .. k + 1] \in S /\ seq[k + 1] \in T
  <2>1. Max(1 .. k + 1) = k + 1 /\ (1 .. k + 1) \ {k + 1} = 1 .. k
    <3>1. k \in Nat
      OBVIOUS
    <3>2. QED
      BY <3>1, MaxOfSegment
  <2>2. k + 1 \in 1 .. n /\ 1 .. k + 1 \in SUBSET (1 .. n) /\ 1 .. k + 1 # {}
    <3>1. k + 1 \in 1 .. n /\ k + 1 \in 1 .. k + 1 /\ 1 .. k + 1 \in SUBSET (1 .. n)
      OBVIOUS
    <3>2. QED
      BY <3>1
  <2>3. seq[k + 1] \in T
    BY <2>2
  <2>4. it[1 .. k + 1] = step[<<it[1 .. k], seq[k + 1]>>]
    BY <1>1, <2>1, <2>2, <2>3 DEF Recurses
  <2>5. QED
    BY <1>1, <2>3, <2>4
<1> DEFINE G == {k \in Nat : k <= n => it[1 .. k] \in S}
<1>2. it[1 .. 0] = base
  <2>1. 1 .. 0 = {}
    OBVIOUS
  <2>2. QED
    BY <2>1 DEF Recurses
<1>3. 0 \in G
  BY <1>2
<1>4. ASSUME NEW k \in G, k < n
      PROVE  k + 1 \in G
  <2>1. k \in 0 .. n - 1 /\ it[1 .. k] \in S
    BY <1>4
  <2>2. it[1 .. k + 1] \in S
    BY <1>1, <2>1
  <2>3. QED
    BY <1>4, <2>2
<1>5. ASSUME NEW m \in 0 .. n
      PROVE  it[1 .. m] \in S
  <2>1. m \in G
    <3>1. G \in SUBSET Nat /\ m \in Nat /\ \A k \in G : k < m => k + 1 \in G
      BY <1>4
    <3> HIDE DEF G
    <3>2. QED
      BY <1>3, <3>1, SegmentInduction
  <2>2. QED
    BY <2>1
<1>6. PICK run : run = [k \in 0 .. n |-> it[1 .. k]]
  OBVIOUS
<1>7. run \in [0 .. n -> S] /\ run[0] = base /\ run[n] = it[1 .. n]
  BY <1>2, <1>5, <1>6
<1>8. ASSUME NEW k \in 0 .. n - 1
      PROVE  seq[k + 1] \in T /\ run[k + 1] = step[<<run[k], seq[k + 1]>>]
  <2>1. k \in 0 .. n /\ k + 1 \in 0 .. n
    OBVIOUS
  <2>2. QED
    BY <1>1, <1>5, <1>6, <2>1
<1>9. QED
  BY <1>7, <1>8 DEF RunOf

\* Distinct goes through the sequence,
LEMMA DistinctRun ==
  ASSUME NEW S, NEW s \in Seq(S)
  PROVE  \E run \in [0 .. Len(s) -> Seq(S)] :
            /\ run[0] = <<>> /\ Distinct(s) = run[Len(s)]
            /\ \A k \in 0 .. Len(s) - 1 :
                  run[k + 1] = IF Contains(run[k], s[k + 1]) THEN run[k] ELSE Append(run[k], s[k + 1])
<1> DEFINE Add(r, x) == IF Contains(r, x) THEN r ELSE Append(r, x)
           seq == s
           Body(iter) == [t \in SUBSET DOMAIN seq |-> IF t = {} THEN <<>>
                             ELSE Add(iter[t \ {Max(t)}], seq[Max(t)])]
           it == CHOOSE iter : iter = Body(iter)
           n == Len(s)
           V == Seq(S)
           W == S
           base == <<>>
           step == [x \in V \X W |-> Add(x[1], x[2])]
<1>1. Distinct(s) = it[DOMAIN seq]
  BY Zenon DEF Distinct, FoldLeft, MapThenFoldSet
<1>2. n \in Nat /\ DOMAIN seq = 1 .. n /\ \A i \in 1 .. n : seq[i] \in W
  BY LenProperties, ElementOfSeq
<1>3. base \in V /\ \A r \in V, x \in W : Add(r, x) \in V
  BY AppendProperties
<1> HIDE DEF Add, n, V, W, base, seq
<1>4. step \in [V \X W -> V] /\ \A r \in V, x \in W : step[<<r, x>>] = Add(r, x)
  BY <1>3
<1> HIDE DEF step
<1>5. it = Body(it)
  <2>1. PICK iter : RecursesIn(V, W, base, n, seq, step, iter)
    <3> HIDE DEF Body, it
    <3>1. QED
      BY <1>2, <1>3, <1>4, FoldIterates
  <2>2. iter = Body(iter)
    BY <1>2, <1>4, <2>1 DEF RecursesIn, base
  <2>3. QED
    BY <2>2
<1> HIDE DEF it
<1>6. Recurses(V, W, base, n, seq, step, it)
  BY <1>2, <1>4, <1>5 DEF Recurses, base
<1>7. PICK run : RunOf(V, W, base, n, seq, step, it, run)
  <2> HIDE DEF Body
  <2>1. n \in Nat /\ base \in V /\ step \in [V \X W -> V] /\ \A i \in 1 .. n : seq[i] \in W
    BY <1>2, <1>3, <1>4
  <2>2. QED
    BY ONLY <2>1, <1>6, FoldRuns
<1>8. run \in [0 .. n -> V] /\ run[0] = base /\ Distinct(s) = run[n]
  BY <1>1, <1>2, <1>7 DEF RunOf
<1>9. ASSUME NEW k \in 0 .. n - 1
      PROVE  run[k + 1] = Add(run[k], seq[k + 1])
  <2>1. k \in 0 .. n
    BY <1>2
  <2>2. QED
    BY <1>4, <1>7, <2>1 DEF RunOf
<1>10. QED
  BY <1>8, <1>9 DEF n, Add, V, base, seq

\* createInterceptors through the metadata,
LEMMA InterceptorsRun ==
  ASSUME NEW S, NEW s \in Seq(S)
  PROVE  \E run \in [0 .. Len(s) -> Seq(S)] :
            /\ run[0] = <<>> /\ InterceptorsOf(s) = run[Len(s)]
            /\ \A k \in 0 .. Len(s) - 1 :
                  run[k + 1] = IF s[k + 1].dec \in Interceptors THEN Append(run[k], s[k + 1]) ELSE run[k]
<1> DEFINE Add(r, x) == IF x.dec \in Interceptors THEN Append(r, x) ELSE r
           seq == s
           Body(iter) == [t \in SUBSET DOMAIN seq |-> IF t = {} THEN <<>>
                             ELSE Add(iter[t \ {Max(t)}], seq[Max(t)])]
           it == CHOOSE iter : iter = Body(iter)
           n == Len(s)
           V == Seq(S)
           W == S
           base == <<>>
           step == [x \in V \X W |-> Add(x[1], x[2])]
<1>1. InterceptorsOf(s) = it[DOMAIN seq]
  BY Zenon DEF InterceptorsOf, FoldLeft, MapThenFoldSet
<1>2. n \in Nat /\ DOMAIN seq = 1 .. n /\ \A i \in 1 .. n : seq[i] \in W
  BY LenProperties, ElementOfSeq
<1>3. base \in V /\ \A r \in V, x \in W : Add(r, x) \in V
  BY AppendProperties
<1> HIDE DEF Add, n, V, W, base, seq
<1>4. step \in [V \X W -> V] /\ \A r \in V, x \in W : step[<<r, x>>] = Add(r, x)
  BY <1>3
<1> HIDE DEF step
<1>5. it = Body(it)
  <2>1. PICK iter : RecursesIn(V, W, base, n, seq, step, iter)
    <3> HIDE DEF Body, it
    <3>1. QED
      BY <1>2, <1>3, <1>4, FoldIterates
  <2>2. iter = Body(iter)
    BY <1>2, <1>4, <2>1 DEF RecursesIn, base
  <2>3. QED
    BY <2>2
<1> HIDE DEF it
<1>6. Recurses(V, W, base, n, seq, step, it)
  BY <1>2, <1>4, <1>5 DEF Recurses, base
<1>7. PICK run : RunOf(V, W, base, n, seq, step, it, run)
  <2> HIDE DEF Body
  <2>1. n \in Nat /\ base \in V /\ step \in [V \X W -> V] /\ \A i \in 1 .. n : seq[i] \in W
    BY <1>2, <1>3, <1>4
  <2>2. QED
    BY ONLY <2>1, <1>6, FoldRuns
<1>8. run \in [0 .. n -> V] /\ run[0] = base /\ InterceptorsOf(s) = run[n]
  BY <1>1, <1>2, <1>7 DEF RunOf
<1>9. ASSUME NEW k \in 0 .. n - 1
      PROVE  run[k + 1] = Add(run[k], seq[k + 1])
  <2>1. k \in 0 .. n
    BY <1>2
  <2>2. QED
    BY <1>4, <1>7, <2>1 DEF RunOf
<1>10. QED
  BY <1>8, <1>9 DEF n, Add, V, base, seq

\* The values of what Reflect holds for methods.
Owners == [Classes -> [Decorators -> Classes \cup {None}]]
Lists == [Classes -> [Decorators -> Seq(MethodEntries)]]

\* Whoever is found is a class that something was recorded by.
LEMMA FoundIs ==
  ASSUME NEW at \in Owners, NEW c \in Classes, NEW k \in Decorators
  PROVE  /\ Found(at, c, k) \in Classes \cup {None}
         /\ Found(at, c, k) = None => \A e \in ToSet(Prototypes[c]) : at[e][k] = None
         /\ Found(at, c, k) # None => \E e \in ToSet(Prototypes[c]) : at[e][k] = Found(at, c, k) /\ e \in Classes
<1> DEFINE S == {e \in Classes : at[e][k] # None}
<1>1. Found(at, c, k) = IF NearestIn(S, c) = None THEN None ELSE at[NearestIn(S, c)][k]
  BY DEF Found
<1>2. \/ NearestIn(S, c) \in ToSet(Prototypes[c]) /\ NearestIn(S, c) \in S
      \/ NearestIn(S, c) = None /\ \A e \in ToSet(Prototypes[c]) : e \notin S
  <2> HIDE DEF S
  <2>1. QED
    BY NearestFound
<1>3. ToSet(Prototypes[c]) \subseteq Classes
  BY ChainElements
<1>4. CASE NearestIn(S, c) \in ToSet(Prototypes[c]) /\ NearestIn(S, c) \in S
  <2>1. NearestIn(S, c) \in Classes /\ NearestIn(S, c) # None /\ at[NearestIn(S, c)][k] # None
    BY <1>4, ClassAssumption
  <2>2. at[NearestIn(S, c)][k] \in Classes \cup {None}
    BY <2>1 DEF Owners
  <2> HIDE DEF S
  <2>3. QED
    BY <1>1, <1>4, <2>1, <2>2
<1>5. CASE NearestIn(S, c) = None /\ \A e \in ToSet(Prototypes[c]) : e \notin S
  <2>1. \A e \in ToSet(Prototypes[c]) : at[e][k] = None
    BY <1>3, <1>5
  <2>2. QED
    BY <1>1, <1>5, <2>1
<1>6. QED
  BY <1>2, <1>4, <1>5

\* What a decorator adds to, and whose list that is then.
Current(st, c, m) ==
    IF Found(st.at, c, m.dec) = None THEN <<>> ELSE st.list[Found(st.at, c, m.dec)][m.dec]
Owner(st, c, m) == IF Len(Current(st, c, m)) > 1 THEN Found(st.at, c, m.dec) ELSE c

\* What it makes of the metadata.
LEMMA DecorateType ==
  ASSUME NEW st \in [at : Owners, list : Lists], NEW c \in Classes, NEW m \in MethodEntries, m.dec \in Decorators
  PROVE  /\ Decorate(st, c, m) \in [at : Owners, list : Lists]
         /\ Owner(st, c, m) \in Classes /\ Current(st, c, m) \in Seq(MethodEntries)
         /\ Decorate(st, c, m).at = [st.at EXCEPT ![c][m.dec] = Owner(st, c, m)]
         /\ Decorate(st, c, m).list = [st.list EXCEPT ![Owner(st, c, m)][m.dec] = Append(Current(st, c, m), m)]
<1> DEFINE from == Found(st.at, c, m.dec)
           current == Current(st, c, m)
           owner == Owner(st, c, m)
<1>1. /\ current = IF from = None THEN <<>> ELSE st.list[from][m.dec]
      /\ owner = IF Len(current) > 1 THEN from ELSE c
  BY DEF Current, Owner
<1>2. from \in Classes \cup {None}
  BY FoundIs
<1>3. current \in Seq(MethodEntries)
  <2> HIDE DEF from, current
  <2>1. from # None => st.list[from][m.dec] \in Seq(MethodEntries)
    BY <1>2 DEF Lists
  <2>2. <<>> \in Seq(MethodEntries)
    OBVIOUS
  <2>3. QED
    BY <1>1, <2>1, <2>2
<1>4. owner \in Classes
  <2> HIDE DEF from, current, owner
  <2>1. from = None => ~ Len(current) > 1
    BY <1>1
  <2>2. QED
    BY <1>1, <1>2, <2>1
<1>5. Decorate(st, c, m) = [at |-> [st.at EXCEPT ![c][m.dec] = owner],
                           list |-> [st.list EXCEPT ![owner][m.dec] = Append(current, m)]]
  BY DEF Decorate, Owner, Current
<1> HIDE DEF from, current, owner
<1>6. Append(current, m) \in Seq(MethodEntries)
  BY <1>3, AppendProperties
<1>7. [st.at EXCEPT ![c][m.dec] = owner] \in Owners
  BY <1>4 DEF Owners
<1>8. [st.list EXCEPT ![owner][m.dec] = Append(current, m)] \in Lists
  BY <1>4, <1>6 DEF Lists
<1>9. QED
  BY <1>3, <1>4, <1>5, <1>7, <1>8 DEF from, current, owner

\* A class statement through its method decorators,
LEMMA DecorateRun ==
  ASSUME NEW c \in Classes, NEW d \in Declarations[c], defined \in Owners, recorded \in Lists
  PROVE  \E run \in [0 .. Len(d.methods) -> [at : Owners, list : Lists]] :
            /\ run[0] = [at |-> defined, list |-> recorded] /\ AllDecorated(c, d) = run[Len(d.methods)]
            /\ \A k \in 0 .. Len(d.methods) - 1 :
                  run[k + 1] = Decorate(run[k], c, d.methods[k + 1])
<1> DEFINE Add(r, x) == Decorate(r, c, x)
           seq == d.methods
           Body(iter) == [t \in SUBSET DOMAIN seq |-> IF t = {} THEN [at |-> defined, list |-> recorded]
                             ELSE Add(iter[t \ {Max(t)}], seq[Max(t)])]
           it == CHOOSE iter : iter = Body(iter)
           n == Len(d.methods)
           V == [at : Owners, list : Lists]
           W == {m \in MethodEntries : m.dec \in Decorators}
           base == [at |-> defined, list |-> recorded]
           step == [x \in V \X W |-> Add(x[1], x[2])]
<1>1. AllDecorated(c, d) = it[DOMAIN seq]
  BY Zenon DEF AllDecorated, FoldLeft, MapThenFoldSet
<1>2. n \in Nat /\ DOMAIN seq = 1 .. n /\ \A i \in 1 .. n : seq[i] \in W
  <2>1. IsStatement(d)
    BY StatementAssumption
  <2>2. seq \in Seq(ToSet(seq)) /\ ToSet(seq) \subseteq MethodEntries /\ \A m \in ToSet(seq) : m.dec \in Decorators
    BY <2>1 DEF IsStatement, IsSequence, MethodEntries
  <2> HIDE DEF seq
  <2>3. Len(seq) \in Nat /\ DOMAIN seq = 1 .. Len(seq) /\ \A i \in 1 .. Len(seq) : seq[i] \in ToSet(seq)
    BY <2>2, ElementsOf
  <2>4. QED
    BY <2>2, <2>3 DEF seq
<1>3. base \in V /\ \A r \in V, x \in W : Add(r, x) \in V
  BY DecorateType
<1> HIDE DEF Add, n, V, W, base, seq
<1>4. step \in [V \X W -> V] /\ \A r \in V, x \in W : step[<<r, x>>] = Add(r, x)
  BY <1>3
<1> HIDE DEF step
<1>5. it = Body(it)
  <2>1. PICK iter : RecursesIn(V, W, base, n, seq, step, iter)
    <3> HIDE DEF Body, it
    <3>1. QED
      BY <1>2, <1>3, <1>4, FoldIterates
  <2>2. iter = Body(iter)
    BY <1>2, <1>4, <2>1 DEF RecursesIn, base
  <2>3. QED
    BY <2>2
<1> HIDE DEF it
<1>6. Recurses(V, W, base, n, seq, step, it)
  BY <1>2, <1>4, <1>5 DEF Recurses, base
<1>7. PICK run : RunOf(V, W, base, n, seq, step, it, run)
  <2> HIDE DEF Body
  <2>1. n \in Nat /\ base \in V /\ step \in [V \X W -> V] /\ \A i \in 1 .. n : seq[i] \in W
    BY <1>2, <1>3, <1>4
  <2>2. QED
    BY ONLY <2>1, <1>6, FoldRuns
<1>8. run \in [0 .. n -> V] /\ run[0] = base /\ AllDecorated(c, d) = run[n]
  BY <1>1, <1>2, <1>7 DEF RunOf
<1>9. ASSUME NEW k \in 0 .. n - 1
      PROVE  run[k + 1] = Add(run[k], seq[k + 1])
  <2>1. k \in 0 .. n
    BY <1>2
  <2>2. QED
    BY <1>4, <1>7, <2>1 DEF RunOf
<1>10. QED
  BY <1>8, <1>9 DEF n, Add, V, base, seq

-----------------------------------------------------------------------------
(* Statements and the parameters they ask for                              *)

ParamEntries == UNION {ToSet(d.params) : d \in UNION {Declarations[c] : c \in Classes}}
Injected == UNION {Injectables(d) : d \in {e \in UNION {Declarations[c] : c \in Classes} : e.types # None}}

\* What a statement consists of.
LEMMA StatementIs ==
  ASSUME NEW c \in Classes, NEW d \in Declarations[c]
  PROVE  /\ d # None /\ d.methods \in Seq(MethodEntries) /\ d.params \in Seq(ParamEntries)
         /\ \A m \in ToSet(d.methods) : m.dec \in Decorators
         /\ d.types = None => d.params = <<>>
         /\ d.types # None => d.types \in Seq(Injected)
         /\ \A i \in 1 .. Len(d.params) :
               /\ d.params[i].index \in 1 .. Len(d.types) /\ Len(d.types) \in Nat
               /\ d.params[i].token \in Injected
         /\ \A i, j \in 1 .. Len(d.params) : d.params[i].index = d.params[j].index => i = j
<1>1. d # None /\ IsStatement(d)
  BY StatementAssumption
<1>2. /\ d.methods \in Seq(ToSet(d.methods)) /\ d.params \in Seq(ToSet(d.params))
      /\ d.types # None => d.types \in Seq(ToSet(d.types))
      /\ d.types = None => d.params = <<>>
  BY <1>1 DEF IsStatement, IsSequence
<1>3. ToSet(d.methods) \subseteq MethodEntries /\ ToSet(d.params) \subseteq ParamEntries
  BY DEF MethodEntries, ParamEntries
<1>4. d.types # None => Injectables(d) \subseteq Injected
  BY DEF Injected
<1>5. d.types # None => ToSet(d.types) \subseteq Injected
  BY <1>4 DEF Injectables
<1>6. \A s, S, T : (s \in Seq(S) /\ S \subseteq T) => s \in Seq(T)
  OBVIOUS
<1>7. /\ d.methods \in Seq(MethodEntries) /\ d.params \in Seq(ParamEntries)
      /\ d.types # None => d.types \in Seq(Injected)
  BY <1>2, <1>3, <1>5, <1>6
<1>8. ASSUME NEW i \in 1 .. Len(d.params)
      PROVE  /\ d.params[i].index \in 1 .. Len(d.types) /\ Len(d.types) \in Nat
             /\ d.params[i].token \in Injected
  <2>1. i \in DOMAIN d.params /\ d.params[i] \in ToSet(d.params)
    BY <1>7, ElementsOf
  <2>2. d.types # None
    BY <1>2, <2>1
  <2>3. DOMAIN d.types = 1 .. Len(d.types) /\ Len(d.types) \in Nat
    BY <1>7, <2>2, ElementsOf
  <2>4. d.params[i].token \in Injected
    BY <1>4, <2>1, <2>2 DEF Injectables
  <2>5. d.params[i].index \in DOMAIN d.types
    BY <1>1, <2>1 DEF IsStatement
  <2>6. QED
    BY <2>3, <2>4, <2>5
<1>9. \A i, j \in 1 .. Len(d.params) : d.params[i].index = d.params[j].index => i = j
  <2>1. DOMAIN d.params = 1 .. Len(d.params)
    BY <1>7, ElementsOf
  <2>2. QED
    BY <1>1, <2>1 DEF IsStatement
<1>10. \A m \in ToSet(d.methods) : m.dec \in Decorators
  BY <1>1 DEF IsStatement
<1>11. QED
  BY <1>1, <1>2, <1>7, <1>8, <1>9, <1>10

\* The decorated parameters of a statement ask for tokens that are injected.
LEMMA ParamEntriesAre ==
  ASSUME NEW p \in ParamEntries
  PROVE  p.index \in Nat \ {0} /\ p.token \in Injected
<1>1. PICK c \in Classes : \E d \in Declarations[c] : p \in ToSet(d.params)
  BY DEF ParamEntries
<1> PICK d \in Declarations[c] : p \in ToSet(d.params)
  BY <1>1
<1>2. PICK i \in DOMAIN d.params : d.params[i] = p
  BY DEF ToSet
<1>3. d.params \in Seq(ParamEntries)
  BY StatementIs
<1>4. i \in 1 .. Len(d.params)
  BY <1>2, <1>3, ElementsOf
<1>5. /\ d.params[i].index \in 1 .. Len(d.types) /\ Len(d.types) \in Nat
      /\ d.params[i].token \in Injected
  BY <1>4, StatementIs
<1>6. QED
  BY <1>2, <1>5

\* splice of one element: replaced where there is one, else added at the end.
LEMMA SpliceType ==
  ASSUME NEW U, NEW s \in Seq(U), NEW i \in Nat \ {0}, NEW t \in U
  PROVE  SpliceToken(s, i, t) \in Seq(U)
<1>1. CASE i <= Len(s)
  BY <1>1 DEF SpliceToken, ReplaceAt
<1>2. CASE ~ i <= Len(s)
  BY <1>2 DEF SpliceToken
<1>3. QED
  BY <1>1, <1>2

\* getProviders through the decorated parameters.
LEMMA SpliceRun ==
  ASSUME NEW c \in Classes, NEW U, NEW R, Parameters(c) \in Seq(R),
         \A p \in R : p.index \in Nat \ {0} /\ p.token \in U,
         Constructor(c) # None => types[Constructor(c)] \in Seq(U)
  PROVE  \E run \in [0 .. Len(Parameters(c)) -> Seq(U)] :
            /\ run[0] = (IF Constructor(c) = None THEN <<>> ELSE types[Constructor(c)]) /\ ParamTypes(c) = run[Len(Parameters(c))]
            /\ \A k \in 0 .. Len(Parameters(c)) - 1 :
                  run[k + 1] = IF k + 1 \in Overridden(c) THEN run[k]
                               ELSE SpliceToken(run[k], Parameters(c)[k + 1].index, Parameters(c)[k + 1].token)
<1> DEFINE Add(r, x) == IF x \in Overridden(c) THEN r ELSE SpliceToken(r, Parameters(c)[x].index, Parameters(c)[x].token)
           seq == [i \in DOMAIN Parameters(c) |-> i]
           Body(iter) == [t \in SUBSET DOMAIN seq |-> IF t = {} THEN (IF Constructor(c) = None THEN <<>> ELSE types[Constructor(c)])
                             ELSE Add(iter[t \ {Max(t)}], seq[Max(t)])]
           it == CHOOSE iter : iter = Body(iter)
           n == Len(Parameters(c))
           V == Seq(U)
           W == 1 .. Len(Parameters(c))
           base == (IF Constructor(c) = None THEN <<>> ELSE types[Constructor(c)])
           step == [x \in V \X W |-> Add(x[1], x[2])]
<1>1. ParamTypes(c) = it[DOMAIN seq]
  BY Zenon DEF ParamTypes, Overridden, FoldLeftDomain, FoldLeft, MapThenFoldSet
<1>2. n \in Nat /\ DOMAIN seq = 1 .. n /\ \A i \in 1 .. n : seq[i] \in W
  BY LenProperties, ElementOfSeq
<1>3. base \in V /\ \A r \in V, x \in W : Add(r, x) \in V
  <2>0. base \in V
    OBVIOUS
  <2> DEFINE p == Parameters(c)
  <2>1. \A x \in W : p[x].index \in Nat \ {0} /\ p[x].token \in U
    BY ElementOfSeq
  <2>2. QED
    BY <2>0, <2>1, SpliceType
<1> HIDE DEF Add, n, V, W, base, seq
<1>4. step \in [V \X W -> V] /\ \A r \in V, x \in W : step[<<r, x>>] = Add(r, x)
  BY <1>3
<1> HIDE DEF step
<1>5. it = Body(it)
  <2>1. PICK iter : RecursesIn(V, W, base, n, seq, step, iter)
    <3> HIDE DEF Body, it
    <3>1. QED
      BY <1>2, <1>3, <1>4, FoldIterates
  <2>2. iter = Body(iter)
    BY <1>2, <1>4, <2>1 DEF RecursesIn, base
  <2>3. QED
    BY <2>2
<1> HIDE DEF it
<1>6. Recurses(V, W, base, n, seq, step, it)
  BY <1>2, <1>4, <1>5 DEF Recurses, base
<1>7. PICK run : RunOf(V, W, base, n, seq, step, it, run)
  <2> HIDE DEF Body
  <2>1. n \in Nat /\ base \in V /\ step \in [V \X W -> V] /\ \A i \in 1 .. n : seq[i] \in W
    BY <1>2, <1>3, <1>4
  <2>2. QED
    BY ONLY <2>1, <1>6, FoldRuns
<1>8. run \in [0 .. n -> V] /\ run[0] = base /\ ParamTypes(c) = run[n]
  BY <1>1, <1>2, <1>7 DEF RunOf
<1>9. ASSUME NEW k \in 0 .. n - 1
      PROVE  run[k + 1] = Add(run[k], seq[k + 1])
  <2>1. k \in 0 .. n
    BY <1>2
  <2>2. QED
    BY <1>4, <1>7, <2>1 DEF RunOf
<1>10. QED
  <2>1. ASSUME NEW k \in 0 .. n - 1
        PROVE  run[k + 1] = IF k + 1 \in Overridden(c) THEN run[k]
                            ELSE SpliceToken(run[k], Parameters(c)[k + 1].index, Parameters(c)[k + 1].token)
    <3>1. k + 1 \in DOMAIN seq
      BY <1>2
    <3>2. seq[k + 1] = k + 1
      BY <3>1 DEF seq
    <3>3. QED
      BY <1>9, <3>2 DEF Add
  <2> HIDE DEF Body, Add
  <2>2. run \in [0 .. Len(Parameters(c)) -> Seq(U)]
    BY <1>8 DEF n, V
  <2>3. run[0] = base /\ ParamTypes(c) = run[Len(Parameters(c))]
    BY <1>8 DEF n
  <2>4. QED
    BY ONLY <2>1, <2>2, <2>3 DEF n, base

\* The class and its bases are declared, each by one of its statements.
ChainDeclared(c) == \A e \in ToSet(Prototypes[c]) : declaration[e] \in Declarations[e]

\* The parameters, nearest class first.
LEMMA ParametersOf ==
  ASSUME NEW c \in Classes, ChainDeclared(c)
  PROVE  /\ Parameters(c) \in Seq(ParamEntries)
         /\ ToSet(Parameters(c)) = UNION {ToSet(declaration[e].params) : e \in ToSet(Prototypes[c])}
         /\ Extends[c] = None => Parameters(c) = declaration[c].params
         /\ Extends[c] # None => Parameters(c) = declaration[c].params \o Parameters(Extends[c])
<1> DEFINE Of(s) == [i \in DOMAIN s |-> declaration[s[i]].params]
           p == Prototypes[c]
           a == Above(c)
<1>1. p \in Seq(Classes) /\ a \in Seq(Classes) /\ p = <<c>> \o a
  BY ChainElements, PrototypesAre
<1>2. /\ Len(p) = Len(a) + 1 /\ Len(a) \in Nat /\ Len(p) \in Nat /\ DOMAIN p = 1 .. Len(p) /\ DOMAIN a = 1 .. Len(a)
      /\ p[1] = c /\ \A i \in 1 .. Len(a) : p[i + 1] = a[i]
  <2>1. <<c>> \in Seq(Classes) /\ Len(<<c>>) = 1 /\ <<c>>[1] = c
    OBVIOUS
  <2> HIDE DEF p, a
  <2>2. /\ Len(a) \in Nat /\ Len(p) \in Nat /\ DOMAIN p = 1 .. Len(p) /\ DOMAIN a = 1 .. Len(a)
    BY <1>1, LenProperties
  <2>3. /\ Len(p) = Len(<<c>>) + Len(a)
        /\ \A i \in 1 .. Len(<<c>>) + Len(a) : p[i] = IF i <= Len(<<c>>) THEN <<c>>[i] ELSE a[i - Len(<<c>>)]
    BY <1>1, <2>1, ConcatProperties
  <2>4. Len(p) = Len(a) + 1
    BY <2>1, <2>2, <2>3
  <2>5. \A i \in 1 .. Len(a) + 1 : p[i] = IF i <= 1 THEN <<c>>[i] ELSE a[i - 1]
    BY <2>1, <2>3
  <2>6. p[1] = c
    BY <2>1, <2>2, <2>5
  <2>7. ASSUME NEW i \in 1 .. Len(a)
        PROVE  p[i + 1] = a[i]
    <3>1. i + 1 \in 1 .. Len(a) + 1 /\ ~ i + 1 <= 1 /\ (i + 1) - 1 = i
      BY <2>2
    <3>2. QED
      BY <2>5, <3>1
  <2>8. QED
    BY <2>2, <2>4, <2>6, <2>7
<1>3. \A i \in 1 .. Len(p) : p[i] \in ToSet(Prototypes[c])
  BY <1>1, ElementsOf
<1> HIDE DEF p, a
<1>4. \A e \in ToSet(Prototypes[c]) : e \in Classes /\ declaration[e].params \in Seq(ParamEntries)
  <2>1. ToSet(Prototypes[c]) \subseteq Classes
    BY ChainElements
  <2>2. QED
    BY <2>1, StatementIs DEF ChainDeclared
<1>5. Of(p) \in Seq(Seq(ParamEntries)) /\ Len(Of(p)) = Len(p) /\ \A i \in 1 .. Len(p) : Of(p)[i] = declaration[p[i]].params
  <2>1. \A i \in 1 .. Len(p) : declaration[p[i]].params \in Seq(ParamEntries)
    BY <1>3, <1>4
  <2>2. QED
    BY <1>2, <2>1
<1>6. Of(a) \in Seq(Seq(ParamEntries)) /\ Len(Of(a)) = Len(a) /\ \A i \in 1 .. Len(a) : Of(a)[i] = declaration[a[i]].params
  <2>1. ASSUME NEW i \in 1 .. Len(a)
        PROVE  declaration[a[i]].params \in Seq(ParamEntries)
    <3>1. i + 1 \in 1 .. Len(p) /\ p[i + 1] = a[i]
      BY <1>2
    <3>2. QED
      BY <1>3, <1>4, <3>1
  <2>2. QED
    BY <1>2, <2>1
<1>7. Parameters(c) = FlattenSeq(Of(p))
  BY DEF Parameters, p
<1>8. Of(p) = <<declaration[c].params>> \o Of(a)
  <2> DEFINE one == <<declaration[c].params>>
             rest == Of(a)
             Q == Seq(ParamEntries)
  <2>1. one \in Seq(Q) /\ Len(one) = 1 /\ one[1] = declaration[c].params
    <3>1. declaration[c].params \in Seq(ParamEntries)
      <4>1. c \in ToSet(Prototypes[c])
        BY ChainElements
      <4>2. QED
        BY <1>4, <4>1
    <3>2. QED
      BY <3>1
  <2>2. rest \in Seq(Q) /\ Len(rest) = Len(a) /\ \A i \in 1 .. Len(a) : rest[i] = declaration[a[i]].params
    BY <1>6
  <2>3. Of(p) \in Seq(Q)
    BY <1>5
  <2> HIDE DEF one, rest, Of, Q
  <2>4. /\ one \o rest \in Seq(Q) /\ Len(one \o rest) = Len(one) + Len(rest)
        /\ \A i \in 1 .. Len(one) + Len(rest) :
              (one \o rest)[i] = IF i <= Len(one) THEN one[i] ELSE rest[i - Len(one)]
    BY <2>2, <2>1, ConcatProperties
  <2>5. Len(one \o rest) = Len(a) + 1
    BY <1>2, <2>2, <2>1, <2>4
  <2>6. \A i \in 1 .. Len(a) + 1 : (one \o rest)[i] = IF i <= 1 THEN one[i] ELSE rest[i - 1]
    BY <1>2, <2>2, <2>1, <2>4
  <2>7. ASSUME NEW i \in 1 .. Len(a) + 1
        PROVE  (one \o rest)[i] = Of(p)[i]
    <3>1. CASE i = 1
      <4>1. (one \o rest)[i] = declaration[c].params
        <5>1. i <= 1 /\ i \in 1 .. Len(a) + 1 /\ one[i] = declaration[c].params
          BY <1>2, <2>1, <3>1
        <5>2. QED
          BY <2>6, <5>1
      <4>2. Of(p)[i] = declaration[c].params
        BY <1>2, <1>5, <3>1
      <4>3. QED
        BY ONLY <4>1, <4>2
    <3>2. CASE i # 1
      <4>1. i - 1 \in 1 .. Len(a) /\ (i - 1) + 1 = i /\ ~ i <= 1 /\ i \in 1 .. Len(p)
        BY <1>2, <3>2
      <4>2. (one \o rest)[i] = declaration[a[i - 1]].params
        BY <2>2, <2>6, <4>1
      <4>3. p[i] = a[i - 1] /\ Of(p)[i] = declaration[p[i]].params
        BY <1>2, <1>5, <4>1
      <4>4. QED
        BY ONLY <4>2, <4>3
    <3>3. QED
      BY <3>1, <3>2
  <2>8. Len(Of(p)) = Len(one \o rest) /\ \A i \in 1 .. Len(Of(p)) : Of(p)[i] = (one \o rest)[i]
    BY <1>2, <1>5, <2>5, <2>7
  <2>9. Of(p) = one \o rest
    BY <2>4, <2>8, <2>3, SeqEqual
  <2>10. QED
    BY <2>9 DEF one, rest
<1>9. Parameters(c) \in Seq(ParamEntries)
  <2> HIDE DEF Of
  <2>1. QED
    BY <1>5, <1>7, FlattenElements
<1>10. ToSet(Parameters(c)) = UNION {ToSet(declaration[e].params) : e \in ToSet(Prototypes[c])}
  <2>1. ToSet(Parameters(c)) = UNION {ToSet(Of(p)[i]) : i \in 1 .. Len(Of(p))}
    <3> HIDE DEF Of
    <3>1. QED
      BY <1>5, <1>7, FlattenElements
  <2>2. {ToSet(Of(p)[i]) : i \in 1 .. Len(Of(p))} = {ToSet(declaration[p[i]].params) : i \in 1 .. Len(p)}
    <3> HIDE DEF Of
    <3>1. QED
      BY <1>5
  <2>3. ToSet(Prototypes[c]) = {p[i] : i \in 1 .. Len(p)}
    BY <1>2 DEF ToSet, p
  <2>4. {ToSet(declaration[p[i]].params) : i \in 1 .. Len(p)} = {ToSet(declaration[e].params) : e \in ToSet(Prototypes[c])}
    BY <2>3
  <2>5. QED
    BY ONLY <2>1, <2>2, <2>4
<1>11. Parameters(c) = declaration[c].params \o FlattenSeq(Of(a))
  <2>1. declaration[c].params \in Seq(ParamEntries)
    <3>1. c \in ToSet(Prototypes[c])
      BY ChainElements
    <3>2. QED
      BY <1>4, <3>1
  <2> HIDE DEF Of
  <2>2. FlattenSeq(<<declaration[c].params>> \o Of(a)) = declaration[c].params \o FlattenSeq(Of(a))
    BY <1>6, <2>1, FlattenFirst
  <2>3. QED
    BY ONLY <1>7, <1>8, <2>2
<1>12. CASE Extends[c] = None
  <2>1. Of(a) = <<>>
    BY <1>12 DEF a, Above
  <2>2. FlattenSeq(<<>>) = <<>>
    BY DEF FlattenSeq
  <2>3. declaration[c].params \o <<>> = declaration[c].params
    <3>1. c \in ToSet(Prototypes[c])
      BY ChainElements
    <3>2. declaration[c].params \in Seq(ParamEntries)
      BY <1>4, <3>1
    <3>3. QED
      BY <3>2, ConcatEmptySeq
  <2>4. Parameters(c) = declaration[c].params
    <3> HIDE DEF Of
    <3>1. QED
      BY ONLY <1>11, <2>1, <2>2, <2>3
  <2>5. QED
    BY <1>9, <1>10, <1>12, <2>4
<1>13. CASE Extends[c] # None
  <2>1. Parameters(Extends[c]) = FlattenSeq(Of(a))
    BY <1>13 DEF Parameters, a, Above
  <2>2. QED
    BY <1>9, <1>10, <1>11, <1>13, <2>1
<1>14. QED
  BY <1>12, <1>13

\* A class without a constructor asks for what its base asks for.
LEMMA ConstructorParameters ==
  ASSUME NEW c \in Classes, ChainDeclared(c),
         \A e \in Classes : types[e] # None <=> (declaration[e] # None /\ declaration[e].types # None)
  PROVE  IF Constructor(c) = None THEN Parameters(c) = <<>>
         ELSE /\ Constructor(c) \in ToSet(Prototypes[c]) /\ types[Constructor(c)] # None
              /\ Parameters(c) = Parameters(Constructor(c))
<1> DEFINE S == {e \in Classes : types[e] # None}
           G == {e \in Classes : ChainDeclared(e) =>
                    Parameters(e) = IF NearestIn(S, e) = None THEN <<>> ELSE Parameters(NearestIn(S, e))}
<1>1. ASSUME NEW e \in Classes, Extends[e] # None => Extends[e] \in G, ChainDeclared(e)
      PROVE  Parameters(e) = IF NearestIn(S, e) = None THEN <<>> ELSE Parameters(NearestIn(S, e))
  <2>1. CASE e \in S
    <3>1. NearestIn(S, e) = e /\ e # None
      <4> HIDE DEF S
      <4>1. QED
        BY <2>1, NearestIs, ClassAssumption
    <3>2. QED
      BY <3>1
  <2>2. CASE e \notin S
    <3>1. declaration[e] \in Declarations[e] /\ e \in ToSet(Prototypes[e])
      BY <1>1, ChainElements DEF ChainDeclared
    <3>2. declaration[e] # None
      BY <3>1, StatementIs
    <3>3. declaration[e].types = None
      BY <2>2, <3>2
    <3>4. declaration[e].params = <<>>
      BY <3>1, <3>3, StatementIs
    <3>5. CASE Extends[e] = None
      <4>1. Parameters(e) = declaration[e].params
        BY <1>1, <3>5, ParametersOf
      <4>2. NearestIn(S, e) = None
        <5> HIDE DEF S
        <5>1. QED
          BY <2>2, <3>5, NearestIs
      <4>3. QED
        BY <3>4, <4>1, <4>2
    <3>6. CASE Extends[e] # None
      <4>1. Extends[e] \in Classes /\ ToSet(Prototypes[e]) = {e} \cup ToSet(Prototypes[Extends[e]])
        BY <3>6, ChainElements
      <4>2. ChainDeclared(Extends[e])
        BY <1>1, <4>1 DEF ChainDeclared
      <4>3. Parameters(e) = <<>> \o Parameters(Extends[e]) /\ Parameters(Extends[e]) \in Seq(ParamEntries)
        <5>1. Parameters(e) = declaration[e].params \o Parameters(Extends[e])
          BY <1>1, <3>6, ParametersOf
        <5>2. Parameters(Extends[e]) \in Seq(ParamEntries)
          BY <4>1, <4>2, ParametersOf
        <5>3. QED
          BY <3>4, <5>1, <5>2
      <4>4. Parameters(e) = Parameters(Extends[e])
        BY <4>3, ConcatEmptySeq
      <4>5. NearestIn(S, e) = NearestIn(S, Extends[e])
        <5> HIDE DEF S
        <5>1. QED
          BY <2>2, <3>6, NearestIs
      <4>6. Parameters(Extends[e]) =
               IF NearestIn(S, Extends[e]) = None THEN <<>> ELSE Parameters(NearestIn(S, Extends[e]))
        <5> HIDE DEF S
        <5>1. QED
          BY <1>1, <3>6, <4>2
      <4>7. QED
        BY ONLY <4>4, <4>5, <4>6
    <3>7. QED
      BY <3>5, <3>6
  <2>3. QED
    BY <2>1, <2>2
<1>2. G = Classes
  <2> HIDE DEF S
  <2>1. G \in SUBSET Classes /\ \A e \in Classes : (Extends[e] # None => Extends[e] \in G) => e \in G
    BY <1>1
  <2> HIDE DEF G
  <2>2. QED
    BY <2>1, ClassInduction
<1>3. Constructor(c) = NearestIn(S, c)
  BY DEF Constructor
<1>4. \/ NearestIn(S, c) \in ToSet(Prototypes[c]) /\ NearestIn(S, c) \in S
      \/ NearestIn(S, c) = None
  <2> HIDE DEF S
  <2>1. QED
    BY NearestFound
<1>5. Parameters(c) = IF NearestIn(S, c) = None THEN <<>> ELSE Parameters(NearestIn(S, c))
  <2> HIDE DEF S
  <2>1. QED
    BY <1>2
<1>6. QED
  BY <1>3, <1>4, <1>5

\* Its parameters, the first Len(own) of which are its own, are overridden after those.
LEMMA OverriddenAre ==
  ASSUME NEW c \in Classes, ChainDeclared(c),
         \A e \in Classes : types[e] # None <=> (declaration[e] # None /\ declaration[e].types # None),
         Constructor(c) # None, ~ReplacesDecorated(c)
  PROVE  LET own == declaration[Constructor(c)].params
         IN /\ Constructor(c) \in Classes /\ own \in Seq(ParamEntries)
            /\ Parameters(c) \in Seq(ParamEntries) /\ Len(own) <= Len(Parameters(c))
            /\ \A i \in 1 .. Len(own) : Parameters(c)[i] = own[i] /\ i \notin Overridden(c)
            /\ \A i \in 1 .. Len(Parameters(c)) : Len(own) < i => i \in Overridden(c)
<1> DEFINE f == Constructor(c)
           own == declaration[f].params
           all == Parameters(c)
           rest == IF Extends[f] = None THEN <<>> ELSE Parameters(Extends[f])
<1>1. f \in ToSet(Prototypes[c]) /\ all = Parameters(f)
  BY ConstructorParameters
<1>2. f \in Classes /\ ChainDeclared(f) /\ f \in ToSet(Prototypes[f])
  <2> HIDE DEF f
  <2>1. f \in Classes /\ ToSet(Prototypes[f]) \subseteq ToSet(Prototypes[c])
    BY <1>1, ChainWithin
  <2>2. f \in ToSet(Prototypes[f])
    BY <2>1, ChainElements
  <2>3. QED
    BY <2>1, <2>2 DEF ChainDeclared
<1>3. declaration[f] \in Declarations[f] /\ own \in Seq(ParamEntries)
  <2> HIDE DEF f
  <2>1. declaration[f] \in Declarations[f]
    BY <1>2 DEF ChainDeclared
  <2>2. QED
    BY <1>2, <2>1, StatementIs
<1>4. /\ rest \in Seq(ParamEntries) /\ all = own \o rest /\ all \in Seq(ParamEntries)
      /\ \A p \in ToSet(rest) : \E e \in ToSet(Prototypes[f]) \ {f} : p \in ToSet(declaration[e].params)
  <2> HIDE DEF f, all
  <2>1. CASE Extends[f] = None
    <3>1. all = own
      BY <1>1, <1>2, <2>1, ParametersOf
    <3>2. rest = <<>> /\ ToSet(<<>>) = {}
      BY <2>1 DEF ToSet
    <3>3. own \o <<>> = own
      BY <1>3, ConcatEmptySeq
    <3>4. \A p \in ToSet(rest) : FALSE
      BY ONLY <3>2
    <3>5. rest \in Seq(ParamEntries) /\ all = own \o rest /\ all \in Seq(ParamEntries)
      <4> HIDE DEF rest, own
      <4>1. QED
        BY <1>3, <3>1, <3>2, <3>3
    <3> HIDE DEF rest
    <3>6. QED
      BY <3>4, <3>5
  <2>2. CASE Extends[f] # None
    <3>1. Extends[f] \in Classes /\ ToSet(Prototypes[f]) = {f} \cup ToSet(Prototypes[Extends[f]])
      BY <1>2, <2>2, ChainElements
    <3>2. f \notin ToSet(Prototypes[Extends[f]])
      BY <1>2, <2>2, ChainIsAcyclic DEF Above
    <3>3. ChainDeclared(Extends[f])
      BY <1>2, <3>1 DEF ChainDeclared
    <3>4. rest = Parameters(Extends[f])
      BY <2>2
    <3>5. Parameters(f) = own \o Parameters(Extends[f]) /\ Parameters(f) \in Seq(ParamEntries)
      BY <1>2, <2>2, ParametersOf
    <3>6. /\ Parameters(Extends[f]) \in Seq(ParamEntries)
          /\ ToSet(Parameters(Extends[f])) = UNION {ToSet(declaration[e].params) : e \in ToSet(Prototypes[Extends[f]])}
      BY <3>1, <3>3, ParametersOf
    <3>7. ASSUME NEW p \in ToSet(rest)
          PROVE  \E e \in ToSet(Prototypes[f]) \ {f} : p \in ToSet(declaration[e].params)
      <4>1. PICK e \in ToSet(Prototypes[Extends[f]]) : p \in ToSet(declaration[e].params)
        BY <3>4, <3>6
      <4>2. e \in ToSet(Prototypes[f]) \ {f}
        BY <3>1, <3>2
      <4>3. QED
        BY <4>1, <4>2
    <3>8. rest \in Seq(ParamEntries) /\ all = own \o rest /\ all \in Seq(ParamEntries)
      BY ONLY <1>1, <3>4, <3>5, <3>6
    <3> HIDE DEF rest
    <3>9. QED
      BY <3>7, <3>8
  <2>3. QED
    BY <2>1, <2>2
<1>5. \A e \in ToSet(Prototypes[f]) \ {f} : \A p \in ToSet(declaration[e].params) :
          \E q \in ToSet(own) : q.index = p.index
  BY DEF ReplacesDecorated
<1>6. \A i, j \in 1 .. Len(own) : own[i].index = own[j].index => i = j
  <2> HIDE DEF f
  <2>1. QED
    BY <1>2, <1>3, StatementIs
<1>7. Overridden(c) = {i \in DOMAIN all : \E j \in 1 .. i - 1 : all[j].index = all[i].index}
  BY DEF Overridden
<1> HIDE DEF f, own, all, rest
<1>8. /\ Len(own) \in Nat /\ Len(rest) \in Nat /\ Len(all) = Len(own) + Len(rest) /\ DOMAIN all = 1 .. Len(all)
      /\ \A i \in 1 .. Len(own) + Len(rest) : all[i] = IF i <= Len(own) THEN own[i] ELSE rest[i - Len(own)]
  <2>1. Len(own) \in Nat /\ Len(rest) \in Nat /\ DOMAIN all = 1 .. Len(all)
    BY <1>3, <1>4, LenProperties
  <2>2. /\ Len(own \o rest) = Len(own) + Len(rest)
        /\ \A i \in 1 .. Len(own) + Len(rest) :
              (own \o rest)[i] = IF i <= Len(own) THEN own[i] ELSE rest[i - Len(own)]
    BY <1>3, <1>4, ConcatProperties
  <2>3. QED
    BY <1>4, <2>1, <2>2
<1>9. ASSUME NEW i \in 1 .. Len(own)
      PROVE  all[i] = own[i] /\ i \notin Overridden(c)
  <2>1. \A j \in 1 .. i : all[j] = own[j]
    BY <1>8
  <2>2. i \in 1 .. i
    BY <1>8
  <2>3. ASSUME NEW j \in 1 .. i - 1
        PROVE  all[j].index # all[i].index
    <3>1. j \in 1 .. i /\ j \in 1 .. Len(own) /\ j # i
      BY <1>8
    <3>2. all[j] = own[j] /\ all[i] = own[i]
      BY <2>1, <2>2, <3>1
    <3>3. QED
      BY <1>6, <3>1, <3>2
  <2>4. QED
    BY <1>7, <2>1, <2>2, <2>3
<1>10. ASSUME NEW i \in 1 .. Len(all), Len(own) < i
       PROVE  i \in Overridden(c)
  <2>1. i - Len(own) \in 1 .. Len(rest) /\ i \in 1 .. Len(own) + Len(rest) /\ ~ i <= Len(own)
    BY <1>8, <1>10
  <2>2. all[i] = rest[i - Len(own)]
    BY <1>8, <2>1
  <2>3. all[i] \in ToSet(rest)
    <3>1. rest[i - Len(own)] \in ToSet(rest)
      BY <1>4, <2>1, ElementsOf
    <3>2. QED
      BY <2>2, <3>1
  <2>4. PICK e \in ToSet(Prototypes[f]) \ {f} : all[i] \in ToSet(declaration[e].params)
    BY <1>4, <2>3
  <2>5. PICK q \in ToSet(own) : q.index = all[i].index
    BY <1>5, <2>4
  <2>6. DOMAIN own = 1 .. Len(own)
    BY <1>3, LenProperties
  <2>7. PICK j \in 1 .. Len(own) : own[j] = q
    BY <2>6 DEF ToSet
  <2>8. j \in 1 .. Len(own) + Len(rest) /\ j <= Len(own) /\ j \in 1 .. i - 1
    BY <1>8, <1>10
  <2>9. all[j].index = all[i].index
    BY <1>8, <2>5, <2>7, <2>8
  <2>10. QED
    BY <1>7, <1>8, <2>8, <2>9
<1>11. Len(own) <= Len(all)
  BY <1>8
<1>12. QED
  BY <1>2, <1>3, <1>4, <1>9, <1>10, <1>11 DEF f, own, all

\* The array of types is as the compiler made it, but where parameters are decorated.
TypesOf(f) ==
    LET d == declaration[f]
    IN /\ DOMAIN types[f] = DOMAIN d.types
       /\ \A i \in DOMAIN d.types : (\A p \in ToSet(d.params) : p.index # i) => types[f][i] = d.types[i]

\* What a constructor gets, and that it is what it asks for.
LEMMA ParamTypesAre ==
  ASSUME NEW c \in Classes, ChainDeclared(c),
         \A e \in Classes : types[e] # None <=> (declaration[e] # None /\ declaration[e].types # None),
         \A e \in Classes : types[e] # None => types[e] \in Seq(Injected)
  PROVE  /\ ParamTypes(c) \in Seq(Injected)
         /\ Constructor(c) = None \/ ReplacesDecorated(c) \/ ~ TypesOf(Constructor(c)) \/ ParamTypes(c) = AskedFor(c)
<1> DEFINE f == Constructor(c)
           d == declaration[f]
           own == d.params
           all == Parameters(c)
           n == Len(all)
<1>1. /\ all \in Seq(ParamEntries) /\ n \in Nat /\ \A i \in 1 .. n : all[i] \in ParamEntries
      /\ f # None => f \in ToSet(Prototypes[c]) /\ types[f] # None
  <2>1. all \in Seq(ParamEntries)
    BY ParametersOf
  <2>2. f # None => f \in ToSet(Prototypes[c]) /\ types[f] # None
    BY ConstructorParameters
  <2> HIDE DEF all
  <2>3. n \in Nat /\ \A i \in 1 .. n : all[i] \in ParamEntries
    BY <2>1, LenProperties, ElementOfSeq
  <2>4. QED
    BY <2>1, <2>2, <2>3
<1>2. f # None => /\ f \in Classes /\ types[f] \in Seq(Injected)
                  /\ d \in Declarations[f] /\ d.types # None /\ d.types \in Seq(Injected)
  <2> HIDE DEF f
  <2>1. f # None => f \in Classes
    BY <1>1, ChainWithin
  <2>2. f # None => types[f] \in Seq(Injected) /\ d \in Declarations[f] /\ d.types # None
    BY <1>1, <2>1 DEF ChainDeclared
  <2>3. QED
    BY <2>1, <2>2, StatementIs
<1>3. PICK run \in [0 .. n -> Seq(Injected)] :
         /\ run[0] = (IF f = None THEN <<>> ELSE types[f]) /\ ParamTypes(c) = run[n]
         /\ \A k \in 0 .. n - 1 :
               run[k + 1] = IF k + 1 \in Overridden(c) THEN run[k]
                            ELSE SpliceToken(run[k], all[k + 1].index, all[k + 1].token)
  BY <1>1, <1>2, ParamEntriesAre, SpliceRun
<1>4. ParamTypes(c) \in Seq(Injected)
  <2> HIDE DEF f, all
  <2>1. n \in 0 .. n
    BY <1>1
  <2>2. QED
    BY <1>3, <2>1
<1>5. ASSUME f # None, ~ReplacesDecorated(c), TypesOf(f)
      PROVE  ParamTypes(c) = AskedFor(c)
  <2> DEFINE N == Len(d.types)
             L == Len(own)
  <2>1. /\ own \in Seq(ParamEntries) /\ L <= n
        /\ \A i \in 1 .. L : all[i] = own[i] /\ i \notin Overridden(c)
        /\ \A i \in 1 .. n : L < i => i \in Overridden(c)
    BY <1>5, OverriddenAre
  <2>2. AskedFor(c) = [i \in DOMAIN d.types |->
                         IF \E p \in ToSet(own) : p.index = i
                         THEN (CHOOSE p \in ToSet(own) : p.index = i).token
                         ELSE d.types[i]]
    BY DEF AskedFor
  <2>3. TypesOf(f) = (/\ DOMAIN types[f] = DOMAIN d.types
                      /\ \A i \in DOMAIN d.types : (\A p \in ToSet(own) : p.index # i) => types[f][i] = d.types[i])
    BY DEF TypesOf
  <2> HIDE DEF f
  <2>4. d \in Declarations[f] /\ f \in Classes
    BY <1>2, <1>5
  <2>5. /\ \A i \in 1 .. L : own[i].index \in 1 .. N /\ own[i].token \in Injected
        /\ \A i, j \in 1 .. L : own[i].index = own[j].index => i = j
    BY <2>4, StatementIs
  <2>6. /\ N \in Nat /\ DOMAIN d.types = 1 .. N /\ Len(types[f]) = N /\ L \in Nat
        /\ DOMAIN own = 1 .. L
    <3>1. d.types \in Seq(Injected) /\ types[f] \in Seq(Injected)
      BY <1>2, <1>5
    <3>2. N \in Nat /\ DOMAIN d.types = 1 .. N /\ L \in Nat /\ DOMAIN own = 1 .. L
      BY <2>1, <3>1, LenProperties
    <3>3. DOMAIN types[f] = 1 .. Len(types[f]) /\ Len(types[f]) \in Nat
      BY <3>1, LenProperties
    <3>4. DOMAIN types[f] = 1 .. N
      BY <1>5, <2>3, <3>2
    <3>5. Len(types[f]) = N
      <4>1. types[f] \in Seq(Injected) /\ DOMAIN types[f] = 1 .. N /\ N \in Nat
        BY <3>1, <3>2, <3>4
      <4>2. QED
        BY <4>1, LenProperties
    <3>6. QED
      BY <3>2, <3>5
  <2>7. /\ ToSet(own) = {own[i] : i \in 1 .. L}
        /\ \A i \in 1 .. N : (\A j \in 1 .. L : own[j].index # i) => types[f][i] = d.types[i]
    <3>1. ToSet(own) = {own[i] : i \in 1 .. L}
      BY <2>6 DEF ToSet
    <3>2. QED
      BY <1>5, <2>3, <2>6, <3>1
  <2> HIDE DEF all, own, d, N, L, n
  <2> DEFINE Done(s, k) == /\ Len(s) = N
                           /\ \A j \in 1 .. L : j <= k => s[own[j].index] = own[j].token
                           /\ \A i \in 1 .. N : (\A j \in 1 .. L : own[j].index # i) => s[i] = d.types[i]
             G == {k \in Nat : k <= n => Done(run[k], k)}
  <2>8. Done(run[0], 0)
    <3>1. run[0] = types[f]
      BY <1>3, <1>5
    <3>2. \A j \in 1 .. L : ~ j <= 0
      BY <2>6
    <3>3. QED
      BY <2>6, <2>7, <3>1, <3>2
  <2>9. ASSUME NEW k \in Nat, k < n, Done(run[k], k)
        PROVE  Done(run[k + 1], k + 1)
    <3>1. k \in 0 .. n - 1 /\ k + 1 \in 1 .. n /\ k \in 0 .. n /\ run[k] \in Seq(Injected)
      BY <1>1, <1>3, <2>9
    <3>2. CASE k + 1 \in 1 .. L
      <4>1. all[k + 1] = own[k + 1] /\ k + 1 \notin Overridden(c)
        BY <2>1, <3>2
      <4>2. run[k + 1] = SpliceToken(run[k], own[k + 1].index, own[k + 1].token)
        BY <1>3, <3>1, <4>1
      <4>3. own[k + 1].index \in 1 .. Len(run[k]) /\ own[k + 1].token \in Injected /\ Len(run[k]) = N
        BY <2>5, <2>9, <3>2
      <4>4. /\ Len(run[k + 1]) = N /\ run[k + 1][own[k + 1].index] = own[k + 1].token
            /\ \A j \in 1 .. N : j # own[k + 1].index => run[k + 1][j] = run[k][j]
        <5> DEFINE s == run[k]
                   x == own[k + 1].index
                   t == own[k + 1].token
        <5>1. s \in Seq(Injected) /\ x \in 1 .. Len(s) /\ t \in Injected /\ Len(s) = N /\ run[k + 1] = SpliceToken(s, x, t)
          BY <3>1, <4>2, <4>3
        <5> HIDE DEF s, x, t, Done
        <5>2. /\ Len(SpliceToken(s, x, t)) = Len(s) /\ SpliceToken(s, x, t)[x] = t
              /\ \A j \in 1 .. Len(s) : j # x => SpliceToken(s, x, t)[j] = s[j]
          <6>1. Len(s) \in Nat /\ DOMAIN s = 1 .. Len(s) /\ x <= Len(s)
            BY <5>1, LenProperties
          <6>2. SpliceToken(s, x, t) = [s EXCEPT ![x] = t]
            BY <6>1 DEF SpliceToken, ReplaceAt
          <6>3. QED
            BY ONLY <5>1, <6>1, <6>2
        <5>3. QED
          BY ONLY <5>1, <5>2 DEF s, x, t
      <4>5. ASSUME NEW j \in 1 .. L, j <= k + 1
            PROVE  run[k + 1][own[j].index] = own[j].token
        <5>1. CASE j = k + 1
          BY <4>4, <5>1
        <5>2. CASE j # k + 1
          <6>1. j <= k
            BY <4>5, <5>2
          <6>2. own[j].index # own[k + 1].index /\ own[j].index \in 1 .. N
            BY <2>5, <3>2, <5>2
          <6>3. run[k][own[j].index] = own[j].token
            BY <2>9, <6>1
          <6>4. QED
            BY <4>4, <6>2, <6>3
        <5>3. QED
          BY <5>1, <5>2
      <4>6. ASSUME NEW i \in 1 .. N, \A j \in 1 .. L : own[j].index # i
            PROVE  run[k + 1][i] = d.types[i]
        <5>1. i # own[k + 1].index /\ run[k][i] = d.types[i]
          BY <2>9, <3>2, <4>6
        <5>2. QED
          BY <4>4, <5>1
      <4>7. QED
        BY <4>4, <4>5, <4>6
    <3>3. CASE k + 1 \notin 1 .. L
      <4>1. L < k + 1
        BY <2>6, <3>3
      <4>2. run[k + 1] = run[k]
        BY <1>3, <2>1, <3>1, <4>1
      <4>3. \A j \in 1 .. L : j <= k
        BY <2>6, <4>1
      <4>4. QED
        BY <2>9, <4>2, <4>3
    <3>4. QED
      BY <3>2, <3>3
  <2>10. Done(run[n], n)
    <3> HIDE DEF Done
    <3>1. n \in G
      <4>1. G \in SUBSET Nat /\ 0 \in G /\ \A k \in G : k < n => k + 1 \in G
        <5>1. 0 \in G
          BY <2>8
        <5>2. ASSUME NEW k \in G, k < n
              PROVE  k + 1 \in G
          <6>1. k \in Nat /\ Done(run[k], k)
            BY <1>1, <5>2
          <6>2. Done(run[k + 1], k + 1)
            BY <2>9, <5>2, <6>1
          <6>3. QED
            BY <6>1, <6>2
        <5>3. QED
          BY <5>1, <5>2
      <4> HIDE DEF G
      <4>2. QED
        BY <1>1, <4>1, SegmentInduction
    <3>2. QED
      BY <1>1, <3>1
  <2>11. \A j \in 1 .. L : run[n][own[j].index] = own[j].token
    BY <1>1, <2>1, <2>6, <2>10
  <2>12. run[n] \in Seq(Injected) /\ Len(run[n]) = N
    BY <1>3, <1>4, <2>10
  <2>13. run[n] = [i \in 1 .. N |-> run[n][i]]
    BY <2>12, LenProperties
  <2>14. ASSUME NEW i \in 1 .. N
         PROVE  run[n][i] = IF \E p \in ToSet(own) : p.index = i
                            THEN (CHOOSE p \in ToSet(own) : p.index = i).token
                            ELSE d.types[i]
    <3>1. CASE \E p \in ToSet(own) : p.index = i
      <4>1. PICK q : q \in ToSet(own) /\ q.index = i /\ q = CHOOSE p \in ToSet(own) : p.index = i
        BY <3>1
      <4>2. PICK j \in 1 .. L : own[j] = q
        BY <2>7, <4>1
      <4>3. run[n][i] = q.token
        BY <2>11, <4>1, <4>2
      <4>4. QED
        BY <3>1, <4>1, <4>3
    <3>2. CASE ~ \E p \in ToSet(own) : p.index = i
      <4>1. \A j \in 1 .. L : own[j].index # i
        BY <2>7, <3>2
      <4>2. run[n][i] = d.types[i]
        BY <2>10, <4>1
      <4>3. QED
        BY <3>2, <4>2
    <3>3. QED
      BY <3>1, <3>2
  <2>15. AskedFor(c) = [i \in 1 .. N |-> run[n][i]]
    BY <2>2, <2>6, <2>14
  <2>16. QED
    BY <1>3, <2>13, <2>15
<1>6. QED
  BY <1>4, <1>5

-----------------------------------------------------------------------------
(* What method decorators record                                           *)

\* Lists are allocated for a class or one of its bases.
OwnersAbove(at) == \A e \in Classes, k \in Decorators : at[e][k] # None => at[e][k] \in ToSet(Prototypes[e])

\* Reflect finds these entries for the class.
Covers(at, list, c, E) ==
    \A m \in E : Found(at, c, m.dec) # None /\ m \in ToSet(list[Found(at, c, m.dec)][m.dec])

\* They are decorators of the method.
LEMMA MethodEntriesAre ==
  ASSUME NEW m \in MethodEntries
  PROVE  m.dec \in Decorators
<1>1. PICK c \in Classes : \E d \in Declarations[c] : m \in ToSet(d.methods)
  BY DEF MethodEntries
<1>2. QED
  BY <1>1, StatementIs

\* What was found for the class is found still, and the entry with it; of the others'
\* lists only one of several entries is added to.
Keeps(st, c, m, new) ==
    /\ new \in [at : Owners, list : Lists] /\ OwnersAbove(new.at)
    /\ \A e \in Classes \ {c} : new.at[e] = st.at[e]
    /\ \A o \in Classes \ {c}, k \in Decorators :
          \/ new.list[o][k] = st.list[o][k]
          \/ /\ o \in ToSet(Prototypes[c]) /\ k = m.dec /\ Len(st.list[o][k]) > 1
             /\ ToSet(st.list[o][k]) \subseteq ToSet(new.list[o][k])
    /\ \A E \in SUBSET MethodEntries :
          Covers(st.at, st.list, c, E) => Covers(new.at, new.list, c, E \cup {m})

\* One decorator.
LEMMA DecorateStep ==
  ASSUME NEW st \in [at : Owners, list : Lists], NEW c \in Classes, NEW m \in MethodEntries, OwnersAbove(st.at)
  PROVE  Keeps(st, c, m, Decorate(st, c, m))
<1> DEFINE d == m.dec
           from == Found(st.at, c, d)
           current == Current(st, c, m)
           owner == Owner(st, c, m)
           new == Decorate(st, c, m)
<1>1. d \in Decorators /\ st.at \in Owners /\ st.list \in Lists
  BY MethodEntriesAre
<1>2. /\ new \in [at : Owners, list : Lists] /\ owner \in Classes /\ current \in Seq(MethodEntries)
      /\ new.at = [st.at EXCEPT ![c][d] = owner]
      /\ new.list = [st.list EXCEPT ![owner][d] = Append(current, m)]
  BY <1>1, DecorateType
<1>3. /\ from \in Classes \cup {None} /\ c # None /\ c \in ToSet(Prototypes[c])
      /\ from # None => from \in ToSet(Prototypes[c])
  <2>1. from \in Classes \cup {None} /\ (from # None => \E e \in ToSet(Prototypes[c]) : st.at[e][d] = from /\ e \in Classes)
    BY <1>1, FoundIs
  <2>2. c # None /\ c \in ToSet(Prototypes[c])
    BY ClassAssumption, ChainElements
  <2> HIDE DEF from
  <2>3. from # None => from \in ToSet(Prototypes[c])
    <3> SUFFICES ASSUME from # None PROVE from \in ToSet(Prototypes[c])
      OBVIOUS
    <3>1. PICK e \in ToSet(Prototypes[c]) : st.at[e][d] = from /\ e \in Classes
      BY <2>1
    <3>2. from \in ToSet(Prototypes[e])
      BY <1>1, <3>1 DEF OwnersAbove
    <3>3. QED
      BY <3>1, <3>2, ChainWithin
  <2>4. QED
    BY <2>1, <2>2, <2>3
<1>4. /\ from = None => current = <<>> /\ Len(current) = 0 /\ owner = c
      /\ owner # c => owner = from /\ from # None /\ Len(current) > 1
      /\ from # None => current = st.list[from][d]
  <2>1. /\ current = IF from = None THEN <<>> ELSE st.list[from][d]
        /\ owner = IF Len(current) > 1 THEN from ELSE c
    BY DEF Current, Owner
  <2> HIDE DEF from, current, owner
  <2>2. QED
    BY <2>1
<1>5. owner \in ToSet(Prototypes[c]) /\ owner # None
  <2> HIDE DEF owner, from, current
  <2>1. QED
    BY <1>3, <1>4
<1>6. Append(current, m) \in Seq(MethodEntries) /\ ToSet(Append(current, m)) = ToSet(current) \cup {m}
  <2> HIDE DEF current
  <2>1. QED
    BY <1>2, AppendElements
<1> HIDE DEF owner, from, current, new, d
<1>7. /\ \A e \in Classes \ {c} : new.at[e] = st.at[e]
      /\ \A k \in Decorators : new.at[c][k] = IF k = d THEN owner ELSE st.at[c][k]
  BY <1>1, <1>2 DEF Owners
<1>8. /\ new.list[owner][d] = Append(current, m)
      /\ \A o \in Classes, k \in Decorators : ~(o = owner /\ k = d) => new.list[o][k] = st.list[o][k]
  BY <1>1, <1>2 DEF Lists
<1>9. OwnersAbove(new.at)
  BY <1>5, <1>7 DEF OwnersAbove
<1>10. ASSUME NEW o \in Classes \ {c}, NEW k \in Decorators, new.list[o][k] # st.list[o][k]
       PROVE  /\ o \in ToSet(Prototypes[c]) /\ k = d /\ Len(st.list[o][k]) > 1
              /\ ToSet(st.list[o][k]) \subseteq ToSet(new.list[o][k])
  <2>1. o = owner /\ k = d
    BY <1>8, <1>10
  <2>2. o = from /\ Len(current) > 1 /\ current = st.list[o][k]
    BY <1>4, <2>1
  <2>3. new.list[o][k] = Append(current, m)
    BY <1>8, <2>1
  <2>4. ToSet(st.list[o][k]) \subseteq ToSet(new.list[o][k])
    BY <1>6, <2>2, <2>3
  <2>5. QED
    BY <1>5, <2>1, <2>2, <2>4
<1>11. Found(new.at, c, d) = owner
  <2> DEFINE S == {e \in Classes : new.at[e][d] # None}
  <2>1. c \in S
    BY <1>1, <1>5, <1>7
  <2>2. NearestIn(S, c) = c
    <3> HIDE DEF S
    <3>1. QED
      BY <2>1, NearestIs
  <2>3. Found(new.at, c, d) = IF NearestIn(S, c) = None THEN None ELSE new.at[NearestIn(S, c)][d]
    BY DEF Found
  <2>4. QED
    BY <1>1, <1>3, <1>7, <2>2, <2>3
<1>12. ASSUME NEW k \in Decorators, k # d
       PROVE  Found(new.at, c, k) = Found(st.at, c, k)
  <2>1. \A e \in Classes : new.at[e][k] = st.at[e][k]
    BY <1>7, <1>12
  <2>2. {e \in Classes : new.at[e][k] # None} = {e \in Classes : st.at[e][k] # None}
    BY <2>1
  <2> DEFINE h == NearestIn({e \in Classes : st.at[e][k] # None}, c)
  <2>3. h = None \/ h \in {e \in Classes : st.at[e][k] # None}
    BY NearestFound
  <2>4. Found(new.at, c, k) = IF h = None THEN None ELSE new.at[h][k]
    BY <2>2 DEF Found
  <2>5. Found(st.at, c, k) = IF h = None THEN None ELSE st.at[h][k]
    BY DEF Found
  <2> HIDE DEF h
  <2>6. QED
    BY <2>1, <2>3, <2>4, <2>5
<1>13. ASSUME NEW E \in SUBSET MethodEntries, Covers(st.at, st.list, c, E), NEW x \in E \cup {m}
       PROVE  Found(new.at, c, x.dec) # None /\ x \in ToSet(new.list[Found(new.at, c, x.dec)][x.dec])
  <2>1. CASE x.dec = d
    <3>1. Found(new.at, c, x.dec) = owner /\ new.list[owner][x.dec] = Append(current, m)
      BY <1>8, <1>11, <2>1
    <3>2. x # m => x \in ToSet(current)
      <4> SUFFICES ASSUME x # m PROVE x \in ToSet(current)
        OBVIOUS
      <4>1. from # None /\ x \in ToSet(st.list[from][d])
        BY <1>13, <2>1 DEF Covers, from
      <4>2. QED
        BY <1>4, <4>1
    <3>3. x \in ToSet(Append(current, m))
      BY <1>6, <3>2
    <3>4. QED
      BY <1>5, <3>1, <3>3
  <2>2. CASE x.dec # d
    <3>1. x # m /\ x \in MethodEntries
      BY <2>2 DEF d
    <3>2. x.dec \in Decorators
      BY <3>1, MethodEntriesAre
    <3>3. /\ Found(new.at, c, x.dec) = Found(st.at, c, x.dec)
          /\ Found(st.at, c, x.dec) # None /\ x \in ToSet(st.list[Found(st.at, c, x.dec)][x.dec])
      BY <1>12, <1>13, <2>2, <3>1, <3>2 DEF Covers
    <3>4. Found(st.at, c, x.dec) \in Classes
      BY <1>1, <3>2, <3>3, FoundIs
    <3>5. new.list[Found(st.at, c, x.dec)][x.dec] = st.list[Found(st.at, c, x.dec)][x.dec]
      BY <1>8, <2>2, <3>2, <3>4
    <3>6. QED
      BY <3>3, <3>5
  <2>3. QED
    BY <2>1, <2>2
<1>14. \A E \in SUBSET MethodEntries : Covers(st.at, st.list, c, E) => Covers(new.at, new.list, c, E \cup {m})
  BY <1>13 DEF Covers
<1>15. QED
  BY <1>2, <1>7, <1>9, <1>10, <1>14 DEF new, d, Keeps

\* All of a statement's decorators.
LEMMA DecoratedIs ==
  ASSUME NEW c \in Classes, NEW d \in Declarations[c], defined \in Owners, recorded \in Lists, OwnersAbove(defined),
         NEW E \in SUBSET MethodEntries, Covers(defined, recorded, c, E)
  PROVE  LET st == AllDecorated(c, d)
         IN /\ st \in [at : Owners, list : Lists] /\ OwnersAbove(st.at)
            /\ \A e \in Classes \ {c} : st.at[e] = defined[e]
            /\ \A o \in Classes \ {c}, k \in Decorators :
                  \/ st.list[o][k] = recorded[o][k]
                  \/ /\ o \in ToSet(Prototypes[c]) /\ Len(recorded[o][k]) > 1
                     /\ k \in {m.dec : m \in ToSet(d.methods)}
                     /\ ToSet(recorded[o][k]) \subseteq ToSet(st.list[o][k])
            /\ Covers(st.at, st.list, c, E \cup ToSet(d.methods))
<1> DEFINE n == Len(d.methods)
           V == [at : Owners, list : Lists]
           Decs == {m.dec : m \in ToSet(d.methods)}
           Taken(k) == {d.methods[i] : i \in 1 .. k}
           Left(st) == /\ OwnersAbove(st.at) /\ \A e \in Classes \ {c} : st.at[e] = defined[e]
                       /\ \A o \in Classes \ {c}, k \in Decorators :
                             \/ st.list[o][k] = recorded[o][k]
                             \/ /\ o \in ToSet(Prototypes[c]) /\ Len(recorded[o][k]) > 1 /\ k \in Decs
                                /\ ToSet(recorded[o][k]) \subseteq ToSet(st.list[o][k])
           Right(st, k) == Left(st) /\ Covers(st.at, st.list, c, E \cup Taken(k))
<1>1. PICK run \in [0 .. n -> V] :
         /\ run[0] = [at |-> defined, list |-> recorded] /\ AllDecorated(c, d) = run[n]
         /\ \A k \in 0 .. n - 1 : run[k + 1] = Decorate(run[k], c, d.methods[k + 1])
  BY DecorateRun
<1>2. /\ n \in Nat /\ ToSet(d.methods) = Taken(n)
      /\ \A i \in 1 .. n : d.methods[i] \in MethodEntries /\ d.methods[i].dec \in Decs
  <2>1. d.methods \in Seq(MethodEntries)
    BY StatementIs
  <2>2. n \in Nat /\ DOMAIN d.methods = 1 .. n /\ \A i \in 1 .. n : d.methods[i] \in MethodEntries
    BY <2>1, LenProperties, ElementOfSeq
  <2>3. ToSet(d.methods) = Taken(n)
    BY <2>2 DEF ToSet
  <2>4. \A i \in 1 .. n : d.methods[i].dec \in Decs
    BY <2>3
  <2>5. QED
    BY <2>2, <2>3, <2>4
<1> HIDE DEF n, Decs
<1>3. Right(run[0], 0)
  <2>1. Taken(0) = {} /\ E \cup {} = E
    OBVIOUS
  <2>2. run[0].at = defined /\ run[0].list = recorded
    BY <1>1
  <2>3. Left(run[0])
    BY <2>2
  <2>4. Covers(run[0].at, run[0].list, c, E \cup Taken(0))
    <3> HIDE DEF Taken
    <3>1. QED
      BY <2>1, <2>2
  <2>5. QED
    BY <2>3, <2>4
<1>4. ASSUME NEW k \in Nat, k < n, Right(run[k], k)
      PROVE  Right(run[k + 1], k + 1)
  <2> DEFINE st == run[k]
             m == d.methods[k + 1]
             new == run[k + 1]
  <2>1. k \in 0 .. n - 1 /\ k + 1 \in 1 .. n /\ k \in 0 .. n
    BY <1>2, <1>4
  <2>2. st \in V /\ m \in MethodEntries /\ m.dec \in Decs /\ new = Decorate(st, c, m)
    BY <1>1, <1>2, <2>1
  <2>3. Taken(k) \in SUBSET MethodEntries /\ Taken(k + 1) = Taken(k) \cup {m}
    <3>1. \A i \in 1 .. k : i \in 1 .. n
      BY <1>2, <1>4
    <3>2. 1 .. k + 1 = (1 .. k) \cup {k + 1}
      BY <2>1
    <3>3. Taken(k) \in SUBSET MethodEntries
      BY <1>2, <3>1
    <3>4. Taken(k + 1) = Taken(k) \cup {m}
      BY <3>2
    <3>5. QED
      BY <3>3, <3>4
  <2>4. Left(st) /\ Covers(st.at, st.list, c, E \cup Taken(k))
    BY <1>4
  <2> HIDE DEF st, m, new, Taken
  <2>5. /\ OwnersAbove(new.at) /\ \A e \in Classes \ {c} : new.at[e] = st.at[e]
        /\ \A o \in Classes \ {c}, j \in Decorators :
              \/ new.list[o][j] = st.list[o][j]
              \/ /\ o \in ToSet(Prototypes[c]) /\ j = m.dec /\ Len(st.list[o][j]) > 1
                 /\ ToSet(st.list[o][j]) \subseteq ToSet(new.list[o][j])
        /\ \A F \in SUBSET MethodEntries :
              Covers(st.at, st.list, c, F) => Covers(new.at, new.list, c, F \cup {m})
    <3>1. Keeps(st, c, m, new)
      <4> HIDE DEF Right
      <4>1. st \in [at : Owners, list : Lists] /\ OwnersAbove(st.at)
        BY <2>2, <2>4
      <4>2. Keeps(st, c, m, Decorate(st, c, m))
        BY ONLY <2>2, <4>1, c \in Classes, DecorateStep
      <4>3. QED
        BY ONLY <2>2, <4>2
    <3>2. QED
      BY ONLY <3>1 DEF Keeps
  <2>6. Covers(new.at, new.list, c, E \cup Taken(k + 1))
    <3>1. E \cup Taken(k) \in SUBSET MethodEntries /\ E \cup Taken(k + 1) = (E \cup Taken(k)) \cup {m}
      BY <2>3
    <3>2. Covers(new.at, new.list, c, (E \cup Taken(k)) \cup {m})
      BY <2>4, <2>5, <3>1
    <3>3. QED
      BY ONLY <3>1, <3>2
  <2>7. ASSUME NEW o \in Classes \ {c}, NEW j \in Decorators
        PROVE  \/ new.list[o][j] = recorded[o][j]
               \/ /\ o \in ToSet(Prototypes[c]) /\ Len(recorded[o][j]) > 1 /\ j \in Decs
                  /\ ToSet(recorded[o][j]) \subseteq ToSet(new.list[o][j])
    <3>1. \/ st.list[o][j] = recorded[o][j]
          \/ /\ o \in ToSet(Prototypes[c]) /\ Len(recorded[o][j]) > 1 /\ j \in Decs
             /\ ToSet(recorded[o][j]) \subseteq ToSet(st.list[o][j])
      BY <2>4
    <3>2. \/ new.list[o][j] = st.list[o][j]
          \/ /\ o \in ToSet(Prototypes[c]) /\ j \in Decs /\ Len(st.list[o][j]) > 1
             /\ ToSet(st.list[o][j]) \subseteq ToSet(new.list[o][j])
      BY <2>2, <2>5
    <3>3. QED
      BY ONLY <3>1, <3>2
  <2>8. Left(new)
    BY <2>4, <2>5, <2>7
  <2>9. QED
    BY <2>6, <2>8 DEF new
<1>5. Right(run[n], n)
  <2> HIDE DEF Right
  <2> DEFINE G == {k \in Nat : k <= n => Right(run[k], k)}
  <2>1. 0 \in G
    BY <1>3
  <2>2. ASSUME NEW k \in G, k < n
        PROVE  k + 1 \in G
    <3>1. k \in Nat /\ Right(run[k], k)
      BY <1>2, <2>2
    <3>2. Right(run[k + 1], k + 1)
      BY <1>4, <2>2, <3>1
    <3>3. QED
      BY <3>1, <3>2
  <2>3. G \in SUBSET Nat
    OBVIOUS
  <2>4. n \in G
    <3> HIDE DEF G
    <3>1. QED
      BY <1>2, <2>1, <2>2, <2>3, SegmentInduction
  <2>5. QED
    BY <1>2, <2>4
<1>6. n \in 0 .. n
  BY <1>2
<1>7. run[n] \in V
  BY <1>1, <1>6
<1>8. Left(run[n]) /\ Covers(run[n].at, run[n].list, c, E \cup ToSet(d.methods))
  <2>1. Left(run[n]) /\ Covers(run[n].at, run[n].list, c, E \cup Taken(n))
    BY <1>5
  <2> HIDE DEF Left, Taken
  <2>2. QED
    BY <1>2, <2>1
<1>9. AllDecorated(c, d) = run[n]
  BY <1>1
<1> HIDE DEF Taken
<1>10. QED
  BY <1>7, <1>8, <1>9 DEF Decs

-----------------------------------------------------------------------------
(* What getAllMetadataForTarget finds                                      *)

\* Distinct has the elements of the sequence.
LEMMA DistinctElements ==
  ASSUME NEW S, NEW s \in Seq(S)
  PROVE  Distinct(s) \in Seq(S) /\ ToSet(Distinct(s)) = ToSet(s)
<1>1. PICK run \in [0 .. Len(s) -> Seq(S)] :
            /\ run[0] = <<>> /\ Distinct(s) = run[Len(s)]
            /\ \A k \in 0 .. Len(s) - 1 :
                  run[k + 1] = IF Contains(run[k], s[k + 1]) THEN run[k] ELSE Append(run[k], s[k + 1])
  BY DistinctRun
<1>2. /\ Len(s) \in Nat /\ DOMAIN s = 1 .. Len(s) /\ ToSet(s) = {s[i] : i \in 1 .. Len(s)}
      /\ \A i \in 1 .. Len(s) : s[i] \in S
  <2>1. Len(s) \in Nat /\ DOMAIN s = 1 .. Len(s) /\ \A i \in 1 .. Len(s) : s[i] \in S
    BY ElementsOf
  <2>2. QED
    BY <2>1 DEF ToSet
<1> DEFINE G == {k \in Nat : k <= Len(s) => ToSet(run[k]) = {s[i] : i \in 1 .. k}}
<1>3. 0 \in G
  <2>1. ToSet(run[0]) = {} /\ 1 .. 0 = {}
    BY <1>1 DEF ToSet
  <2>2. QED
    BY <2>1
<1>4. ASSUME NEW k \in G, k < Len(s)
      PROVE  k + 1 \in G
  <2>1. k \in 0 .. Len(s) - 1 /\ k \in 0 .. Len(s) /\ k + 1 \in 1 .. Len(s) /\ 1 .. k + 1 = (1 .. k) \cup {k + 1}
    BY <1>2, <1>4
  <2>2. run[k] \in Seq(S) /\ s[k + 1] \in S
    BY <1>1, <1>2, <2>1
  <2>3. run[k + 1] = IF Contains(run[k], s[k + 1]) THEN run[k] ELSE Append(run[k], s[k + 1])
    BY <1>1, <2>1
  <2>4. ToSet(run[k]) = {s[i] : i \in 1 .. k}
    BY <1>4, <2>1
  <2>5. ToSet(run[k + 1]) = ToSet(run[k]) \cup {s[k + 1]}
    <3>1. CASE Contains(run[k], s[k + 1])
      <4>1. s[k + 1] \in ToSet(run[k])
        <5>1. PICK i \in 1 .. Len(run[k]) : run[k][i] = s[k + 1]
          BY <3>1 DEF Contains
        <5>2. DOMAIN run[k] = 1 .. Len(run[k])
          BY <2>2, LenProperties
        <5>3. QED
          BY <5>1, <5>2 DEF ToSet
      <4>2. QED
        BY <2>3, <3>1, <4>1
    <3>2. CASE ~ Contains(run[k], s[k + 1])
      BY <2>2, <2>3, <3>2, AppendElements
    <3>3. QED
      BY <3>1, <3>2
  <2>6. {s[i] : i \in 1 .. k + 1} = {s[i] : i \in 1 .. k} \cup {s[k + 1]}
    BY <2>1
  <2>7. ToSet(run[k + 1]) = {s[i] : i \in 1 .. k + 1}
    BY ONLY <2>4, <2>5, <2>6
  <2>8. QED
    BY <2>7
<1>5. Len(s) \in G
  <2>1. G \in SUBSET Nat
    OBVIOUS
  <2> HIDE DEF G
  <2>2. QED
    BY <1>2, <1>3, <1>4, <2>1, SegmentInduction
<1>6. Len(s) \in 0 .. Len(s)
  BY <1>2
<1>7. ToSet(run[Len(s)]) = ToSet(s)
  BY <1>2, <1>5
<1>8. QED
  BY <1>1, <1>6, <1>7

\* What statements of the class and its bases apply to the method.
EntriesOf(c) == UNION {ToSet(declaration[e].methods) : e \in ToSet(Prototypes[c])}

\* The keys are theirs.
LEMMA KeysAre ==
  ASSUME NEW c \in Classes, ChainDeclared(c)
  PROVE  /\ MetadataKeys(c) \in Seq(Decorators) /\ EntriesOf(c) \in SUBSET MethodEntries
         /\ ToSet(MetadataKeys(c)) = {m.dec : m \in EntriesOf(c)}
<1> DEFINE p == Prototypes[c]
           Keyed(i) == LET ms == declaration[p[i]].methods IN [j \in DOMAIN ms |-> ms[j].dec]
           all == [i \in DOMAIN p |-> Keyed(i)]
<1>1. MetadataKeys(c) = Distinct(FlattenSeq(all))
  BY DEF MetadataKeys
<1>2. /\ Len(p) \in Nat /\ DOMAIN p = 1 .. Len(p) /\ ToSet(p) \subseteq Classes
      /\ ToSet(p) = {p[i] : i \in 1 .. Len(p)} /\ \A i \in 1 .. Len(p) : p[i] \in ToSet(p)
  <2>1. p \in Seq(Classes) /\ ToSet(p) \subseteq Classes
    BY ChainElements
  <2> HIDE DEF p
  <2>2. Len(p) \in Nat /\ DOMAIN p = 1 .. Len(p) /\ \A i \in 1 .. Len(p) : p[i] \in ToSet(p)
    BY <2>1, ElementsOf
  <2>3. ToSet(p) = {p[i] : i \in 1 .. Len(p)}
    BY <2>2 DEF ToSet
  <2>4. QED
    BY <2>1, <2>2, <2>3
<1>3. ASSUME NEW e \in ToSet(p)
      PROVE  /\ declaration[e].methods \in Seq(MethodEntries)
             /\ \A m \in ToSet(declaration[e].methods) : m \in MethodEntries /\ m.dec \in Decorators
  <2>1. e \in Classes /\ declaration[e] \in Declarations[e]
    BY <1>2 DEF ChainDeclared
  <2>2. declaration[e].methods \in Seq(MethodEntries) /\ \A m \in ToSet(declaration[e].methods) : m.dec \in Decorators
    BY <2>1, StatementIs
  <2>3. ToSet(declaration[e].methods) \subseteq MethodEntries
    BY <2>2, ElementsOf
  <2>4. QED
    BY <2>2, <2>3
<1>4. ASSUME NEW i \in 1 .. Len(p)
      PROVE  /\ Keyed(i) \in Seq(Decorators)
             /\ ToSet(Keyed(i)) = {m.dec : m \in ToSet(declaration[p[i]].methods)}
  <2> DEFINE ms == declaration[p[i]].methods
  <2>1. ms \in Seq(MethodEntries) /\ \A m \in ToSet(ms) : m.dec \in Decorators
    BY <1>2, <1>3
  <2>2. Keyed(i) = [j \in DOMAIN ms |-> ms[j].dec]
    OBVIOUS
  <2> HIDE DEF ms, Keyed
  <2>3. DOMAIN ms = 1 .. Len(ms) /\ Len(ms) \in Nat /\ \A j \in 1 .. Len(ms) : ms[j] \in ToSet(ms)
    BY <2>1, ElementsOf
  <2>4. \A j \in 1 .. Len(ms) : ms[j].dec \in Decorators
    BY <2>1, <2>3
  <2>5. Keyed(i) \in Seq(Decorators)
    BY <2>2, <2>3, <2>4
  <2>6. ToSet(Keyed(i)) = {ms[j].dec : j \in DOMAIN ms}
    BY <2>2 DEF ToSet
  <2>7. {ms[j].dec : j \in DOMAIN ms} = {m.dec : m \in ToSet(ms)}
    BY DEF ToSet
  <2>8. QED
    BY <2>5, <2>6, <2>7 DEF ms
<1> HIDE DEF p, Keyed
<1>5. all \in Seq(Seq(Decorators)) /\ Len(all) = Len(p) /\ \A i \in 1 .. Len(p) : all[i] = Keyed(i)
  BY <1>2, <1>4
<1> HIDE DEF all
<1>6. /\ FlattenSeq(all) \in Seq(Decorators)
      /\ ToSet(FlattenSeq(all)) = UNION {ToSet(all[i]) : i \in 1 .. Len(all)}
  BY <1>5, FlattenElements
<1>7. MetadataKeys(c) \in Seq(Decorators) /\ ToSet(MetadataKeys(c)) = ToSet(FlattenSeq(all))
  BY <1>1, <1>6, DistinctElements
<1>8. EntriesOf(c) = UNION {ToSet(declaration[e].methods) : e \in ToSet(p)}
  BY DEF EntriesOf, p
<1>9. EntriesOf(c) \in SUBSET MethodEntries
  BY <1>3, <1>8
<1>10. UNION {ToSet(all[i]) : i \in 1 .. Len(all)} = {m.dec : m \in EntriesOf(c)}
  <2>1. ASSUME NEW x \in UNION {ToSet(all[i]) : i \in 1 .. Len(all)}
        PROVE  x \in {m.dec : m \in EntriesOf(c)}
    <3>1. PICK i \in 1 .. Len(p) : x \in ToSet(Keyed(i))
      BY <1>5
    <3>2. PICK m \in ToSet(declaration[p[i]].methods) : x = m.dec
      BY <1>4, <3>1
    <3>3. m \in EntriesOf(c)
      BY <1>2, <1>8, <3>2
    <3>4. QED
      BY <3>2, <3>3
  <2>2. ASSUME NEW m \in EntriesOf(c)
        PROVE  m.dec \in UNION {ToSet(all[i]) : i \in 1 .. Len(all)}
    <3>1. PICK e \in ToSet(p) : m \in ToSet(declaration[e].methods)
      BY <1>8
    <3>2. PICK i \in 1 .. Len(p) : p[i] = e
      BY <1>2
    <3>3. m.dec \in ToSet(Keyed(i))
      BY <1>4, <3>1, <3>2
    <3>4. QED
      BY <1>5, <3>2, <3>3
  <2>3. QED
    BY <2>1, <2>2
<1>11. QED
  BY <1>6, <1>7, <1>9, <1>10

\* The metadata has every entry that is recorded.
LEMMA MetadataIs ==
  ASSUME NEW c \in Classes, ChainDeclared(c), defined \in Owners, recorded \in Lists,
         Covers(defined, recorded, c, EntriesOf(c))
  PROVE  MethodMetadata(c) \in Seq(MethodEntries) /\ EntriesOf(c) \subseteq ToSet(MethodMetadata(c))
<1> DEFINE keys == MetadataKeys(c)
           Lookup(k) == recorded[Found(defined, c, k)][k]
           all == [i \in DOMAIN keys |-> Lookup(keys[i])]
<1>1. /\ keys \in Seq(Decorators) /\ EntriesOf(c) \in SUBSET MethodEntries
      /\ ToSet(keys) = {m.dec : m \in EntriesOf(c)}
  BY KeysAre
<1>2. MethodMetadata(c) = FlattenSeq(all)
  BY DEF MethodMetadata
<1> HIDE DEF keys
<1>3. Len(keys) \in Nat /\ DOMAIN keys = 1 .. Len(keys) /\ \A i \in 1 .. Len(keys) : keys[i] \in ToSet(keys)
  BY <1>1, ElementsOf
<1>4. ASSUME NEW k \in ToSet(keys)
      PROVE  Lookup(k) \in Seq(MethodEntries)
  <2>1. PICK m \in EntriesOf(c) : k = m.dec
    BY <1>1
  <2>2. Found(defined, c, k) # None
    BY <2>1 DEF Covers
  <2>3. k \in Decorators
    BY <1>1, <2>1, MethodEntriesAre
  <2>4. Found(defined, c, k) \in Classes
    BY <2>2, <2>3, FoundIs
  <2>5. QED
    BY <2>3, <2>4 DEF Lists
<1>5. \A m \in EntriesOf(c) : m \in ToSet(Lookup(m.dec))
  BY DEF Covers
<1> HIDE DEF Lookup
<1>6. all \in Seq(Seq(MethodEntries)) /\ Len(all) = Len(keys) /\ \A i \in 1 .. Len(keys) : all[i] = Lookup(keys[i])
  BY <1>3, <1>4
<1> HIDE DEF all
<1>7. /\ FlattenSeq(all) \in Seq(MethodEntries)
      /\ ToSet(FlattenSeq(all)) = UNION {ToSet(all[i]) : i \in 1 .. Len(all)}
  BY <1>6, FlattenElements
<1>8. ASSUME NEW m \in EntriesOf(c)
      PROVE  m \in UNION {ToSet(all[i]) : i \in 1 .. Len(all)}
  <2>1. m.dec \in ToSet(keys)
    BY <1>1
  <2>2. PICK i \in 1 .. Len(keys) : keys[i] = m.dec
    BY <1>3, <2>1 DEF ToSet
  <2>3. m \in ToSet(all[i])
    BY <1>5, <1>6, <2>2
  <2>4. QED
    BY <1>6, <2>3
<1>9. QED
  BY <1>2, <1>7, <1>8

\* createInterceptors keeps those that are interceptors.
LEMMA InterceptorsOfAre ==
  ASSUME NEW S, NEW s \in Seq(S)
  PROVE  InterceptorsOf(s) \in Seq(S) /\ ToSet(InterceptorsOf(s)) = {m \in ToSet(s) : m.dec \in Interceptors}
<1>1. PICK run \in [0 .. Len(s) -> Seq(S)] :
            /\ run[0] = <<>> /\ InterceptorsOf(s) = run[Len(s)]
            /\ \A k \in 0 .. Len(s) - 1 :
                  run[k + 1] = IF s[k + 1].dec \in Interceptors THEN Append(run[k], s[k + 1]) ELSE run[k]
  BY InterceptorsRun
<1>2. /\ Len(s) \in Nat /\ DOMAIN s = 1 .. Len(s) /\ ToSet(s) = {s[i] : i \in 1 .. Len(s)}
      /\ \A i \in 1 .. Len(s) : s[i] \in S
  <2>1. Len(s) \in Nat /\ DOMAIN s = 1 .. Len(s) /\ \A i \in 1 .. Len(s) : s[i] \in S
    BY ElementsOf
  <2>2. QED
    BY <2>1 DEF ToSet
<1> DEFINE Those(k) == {m \in {s[i] : i \in 1 .. k} : m.dec \in Interceptors}
           G == {k \in Nat : k <= Len(s) => ToSet(run[k]) = Those(k)}
<1>3. 0 \in G
  <2>1. ToSet(run[0]) = {} /\ 1 .. 0 = {}
    BY <1>1 DEF ToSet
  <2>2. Those(0) = {}
    BY <2>1
  <2>3. QED
    BY <2>1, <2>2
<1>4. ASSUME NEW k \in G, k < Len(s)
      PROVE  k + 1 \in G
  <2>1. k \in 0 .. Len(s) - 1 /\ k \in 0 .. Len(s) /\ k + 1 \in 1 .. Len(s) /\ 1 .. k + 1 = (1 .. k) \cup {k + 1}
    BY <1>2, <1>4
  <2>2. run[k] \in Seq(S) /\ s[k + 1] \in S
    BY <1>1, <1>2, <2>1
  <2>3. run[k + 1] = IF s[k + 1].dec \in Interceptors THEN Append(run[k], s[k + 1]) ELSE run[k]
    BY <1>1, <2>1
  <2>4. ToSet(run[k]) = Those(k)
    BY <1>4, <2>1
  <2>5. Those(k + 1) = Those(k) \cup (IF s[k + 1].dec \in Interceptors THEN {s[k + 1]} ELSE {})
    BY <2>1
  <2>6. CASE s[k + 1].dec \in Interceptors
    <3>1. ToSet(run[k + 1]) = ToSet(run[k]) \cup {s[k + 1]}
      BY <2>2, <2>3, <2>6, AppendElements
    <3> HIDE DEF Those
    <3>2. ToSet(run[k + 1]) = Those(k + 1)
      BY ONLY <2>4, <2>5, <2>6, <3>1
    <3>3. QED
      BY <2>1, <3>2
  <2>7. CASE s[k + 1].dec \notin Interceptors
    <3> HIDE DEF Those
    <3>1. ToSet(run[k + 1]) = Those(k + 1)
      BY <2>3, <2>4, <2>5, <2>7
    <3>2. QED
      BY <2>1, <3>1
  <2>8. QED
    BY <2>6, <2>7
<1>5. Len(s) \in G
  <2>1. G \in SUBSET Nat
    OBVIOUS
  <2> HIDE DEF G
  <2>2. QED
    BY <1>2, <1>3, <1>4, <2>1, SegmentInduction
<1>6. Len(s) \in 0 .. Len(s)
  BY <1>2
<1>7. ToSet(run[Len(s)]) = Those(Len(s))
  BY <1>2, <1>5
<1>8. QED
  BY <1>1, <1>2, <1>6, <1>7

-----------------------------------------------------------------------------
(* The inductive invariant of the metadata                                 *)

MetadataTypeOK ==
    /\ declaration \in [Classes -> (UNION {Declarations[c] : c \in Classes}) \cup {None}]
    /\ defined \in Owners /\ recorded \in Lists /\ OwnersAbove(defined)
    /\ types \in [Classes -> Seq(Injected) \cup {None}]
    /\ cachedMetadata \in [Tokens -> CachedMetadata \cup {None}]
    /\ cachedProviders \in [Tokens -> Seq(Injected) \cup {None}]
    /\ given \in [Providers -> Seq(Injected) \cup {None}]

\* Nothing is there of a class before its statement; then all is found that it and its
\* bases apply, and the array of types is the compiler's where no parameter is decorated.
ClassInv(c) ==
    IF declaration[c] = None THEN types[c] = None /\ \A k \in Decorators : defined[c][k] = None
    ELSE /\ ChainDeclared(c)
         /\ types[c] # None <=> declaration[c].types # None
         /\ Covers(defined, recorded, c, EntriesOf(c))
         /\ types[c] # None => ReplacesDecorated(c) \/ TypesOf(c)

\* What is cached under a token is that of its class, whoever asks for it.
CacheInv(t) ==
    IF cachedMetadata[t] = None THEN cachedProviders[t] = None /\ \A c \in Classes : given[<<t, c>>] = None
    ELSE LET k == cachedMetadata[t].class
         IN /\ declaration[k] # None /\ cachedProviders[t] # None
            /\ EntriesOf(k) \subseteq ToSet(cachedMetadata[t].methods)
            /\ Constructor(k) = None \/ ReplacesDecorated(k) \/ cachedProviders[t] = AskedFor(k)
            /\ \A c \in Classes : given[<<t, c>>] = None \/ given[<<t, c>>] = cachedProviders[t]

MetadataInv ==
    /\ MetadataTypeOK
    /\ \A c \in Classes : ClassInv(c)
    /\ \A t \in Tokens : CacheInv(t)

\* None is none of the values.
LEMMA NoneIsNone ==
  /\ None \notin CachedMetadata /\ None \notin Seq(Injected) /\ None \notin Classes
  /\ \A c \in Classes : None \notin Declarations[c]
BY StatementAssumption, ClassAssumption DEF Injected

\* It holds before the first statement.
LEMMA MetadataInvInit == MetadataInit => MetadataInv
<1> SUFFICES ASSUME MetadataInit PROVE MetadataInv
  OBVIOUS
<1> USE DEF MetadataInit
<1>1. MetadataTypeOK
  <2>1. defined \in Owners
    BY DEF Owners
  <2>2. recorded \in Lists
    BY DEF Lists
  <2>3. OwnersAbove(defined)
    BY DEF OwnersAbove
  <2>4. QED
    BY <2>1, <2>2, <2>3 DEF MetadataTypeOK
<1>2. \A c \in Classes : ClassInv(c)
  BY DEF ClassInv
<1>3. \A t \in Tokens : CacheInv(t)
  BY DEF CacheInv, Providers
<1>4. QED
  BY <1>1, <1>2, <1>3 DEF MetadataInv

\* The nearest constructor, and that it is its own.
LEMMA ConstructorIs ==
  ASSUME NEW c \in Classes, Constructor(c) # None
  PROVE  /\ Constructor(c) \in Classes /\ Constructor(c) \in ToSet(Prototypes[c])
         /\ types[Constructor(c)] # None /\ Constructor(Constructor(c)) = Constructor(c)
         /\ ToSet(Prototypes[Constructor(c)]) \subseteq ToSet(Prototypes[c])
         /\ ReplacesDecorated(Constructor(c)) <=> ReplacesDecorated(c)
<1> DEFINE S == {e \in Classes : types[e] # None}
           f == NearestIn(S, c)
<1>1. Constructor(c) = f /\ \A e \in Classes : Constructor(e) = NearestIn(S, e)
  BY DEF Constructor
<1>2. f \in ToSet(Prototypes[c]) /\ f \in S
  <2> HIDE DEF S
  <2>1. QED
    BY <1>1, NearestFound
<1>3. f \in Classes /\ types[f] # None
  BY <1>2
<1>4. NearestIn(S, f) = f
  <2> HIDE DEF S
  <2>1. QED
    BY <1>2, <1>3, NearestIs
<1>5. ToSet(Prototypes[f]) \subseteq ToSet(Prototypes[c])
  <2> HIDE DEF f
  <2>1. QED
    BY <1>2, ChainWithin
<1>6. Constructor(f) = f
  BY <1>1, <1>3, <1>4
<1> HIDE DEF f
<1>7. ReplacesDecorated(f) <=> ReplacesDecorated(c)
  BY <1>1, <1>6 DEF ReplacesDecorated
<1>8. QED
  BY <1>1, <1>2, <1>3, <1>5, <1>6, <1>7

\* What is said of a class depends on its chain only.
LEMMA ChainKept ==
  ASSUME NEW x \in Classes,
         \A e \in ToSet(Prototypes[x]) : declaration'[e] = declaration[e] /\ (types'[e] # None <=> types[e] # None)
  PROVE  /\ Constructor(x)' = Constructor(x) /\ EntriesOf(x)' = EntriesOf(x) /\ (ChainDeclared(x)' <=> ChainDeclared(x))
         /\ Constructor(x) # None => /\ AskedFor(x)' = AskedFor(x)
                                     /\ ReplacesDecorated(x)' <=> ReplacesDecorated(x)
<1> DEFINE S == {e \in Classes : types[e] # None}
           T == {e \in Classes : types'[e] # None}
<1>1. Constructor(x)' = Constructor(x)
  <2>1. ToSet(Prototypes[x]) \subseteq Classes
    BY ChainElements
  <2>2. \A e \in ToSet(Prototypes[x]) : e \in S <=> e \in T
    BY <2>1
  <2>3. NearestIn(S, x) = NearestIn(T, x)
    <3> HIDE DEF S, T
    <3>1. QED
      BY <2>2, NearestAgrees
  <2>4. QED
    BY <2>3 DEF Constructor
<1>2. EntriesOf(x)' = EntriesOf(x)
  BY DEF EntriesOf
<1>3. ChainDeclared(x)' <=> ChainDeclared(x)
  BY DEF ChainDeclared
<1>4. ASSUME Constructor(x) # None
      PROVE  AskedFor(x)' = AskedFor(x) /\ (ReplacesDecorated(x)' <=> ReplacesDecorated(x))
  <2> DEFINE f == Constructor(x)
  <2>1. f \in ToSet(Prototypes[x]) /\ ToSet(Prototypes[f]) \subseteq ToSet(Prototypes[x]) /\ f \in ToSet(Prototypes[f])
    <3>1. f \in Classes /\ f \in ToSet(Prototypes[x]) /\ ToSet(Prototypes[f]) \subseteq ToSet(Prototypes[x])
      BY <1>4, ConstructorIs
    <3> HIDE DEF f
    <3>2. QED
      BY <3>1, ChainElements
  <2>2. declaration'[f] = declaration[f]
    BY <2>1
  <2>3. AskedFor(x)' = AskedFor(x)
    BY <1>1, <2>2 DEF AskedFor
  <2>4. \A e \in ToSet(Prototypes[f]) : declaration'[e] = declaration[e]
    BY <2>1
  <2>5. ReplacesDecorated(x)' <=> ReplacesDecorated(x)
    BY <1>1, <2>2, <2>4 DEF ReplacesDecorated
  <2>6. QED
    BY <2>3, <2>5
<1>5. QED
  BY <1>1, <1>2, <1>3, <1>4

\* Who is found as well.
LEMMA FoundAgrees ==
  ASSUME NEW x \in Classes, NEW at, NEW bt, NEW k, \A e \in ToSet(Prototypes[x]) : at[e][k] = bt[e][k]
  PROVE  Found(at, x, k) = Found(bt, x, k)
<1> DEFINE S == {e \in Classes : at[e][k] # None}
           T == {e \in Classes : bt[e][k] # None}
<1>1. ToSet(Prototypes[x]) \subseteq Classes
  BY ChainElements
<1>2. \A e \in ToSet(Prototypes[x]) : e \in S <=> e \in T
  BY <1>1
<1>3. NearestIn(S, x) = NearestIn(T, x) /\ (NearestIn(S, x) \in ToSet(Prototypes[x]) \/ NearestIn(S, x) = None)
  <2> HIDE DEF S, T
  <2>1. QED
    BY <1>2, NearestAgrees, NearestFound
<1>4. /\ Found(at, x, k) = IF NearestIn(S, x) = None THEN None ELSE at[NearestIn(S, x)][k]
      /\ Found(bt, x, k) = IF NearestIn(T, x) = None THEN None ELSE bt[NearestIn(T, x)][k]
  BY DEF Found
<1> HIDE DEF S, T
<1>5. QED
  BY <1>3, <1>4

\* A class that has nothing of its own has what its base has.
LEMMA FoundAbove ==
  ASSUME NEW x \in Classes, NEW at, NEW k, at[x][k] = None, Extends[x] # None
  PROVE  Found(at, x, k) = Found(at, Extends[x], k)
<1> DEFINE S == {e \in Classes : at[e][k] # None}
<1>1. x \notin S
  OBVIOUS
<1>2. NearestIn(S, x) = NearestIn(S, Extends[x])
  <2> HIDE DEF S
  <2>1. QED
    BY <1>1, NearestIs
<1>3. QED
  BY <1>2 DEF Found

\* What a statement leaves alone, and what it adds.
LEMMA DeclareIs ==
  ASSUME MetadataInv, NEW c \in Classes, NEW d \in Declarations[c], Declare(c, d)
  PROVE  /\ declaration'[c] = d /\ \A e \in Classes \ {c} : declaration'[e] = declaration[e]
         /\ types'[c] = d.types /\ \A e \in Classes \ {c} : types'[e] = types[e]
         /\ defined' \in Owners /\ recorded' \in Lists /\ OwnersAbove(defined)' /\ ChainDeclared(c)'
         /\ \A e \in Classes \ {c} : defined'[e] = defined[e]
         /\ \A o \in Classes \ {c}, k \in Decorators :
               \/ recorded'[o][k] = recorded[o][k]
               \/ /\ o \in ToSet(Prototypes[c]) /\ Len(recorded[o][k]) > 1 /\ k \in {m.dec : m \in ToSet(d.methods)}
                  /\ ToSet(recorded[o][k]) \subseteq ToSet(recorded'[o][k])
         /\ Covers(defined, recorded, c, EntriesOf(c))'
         /\ \A x \in Classes : declaration[x] # None => x # c /\ c \notin ToSet(Prototypes[x])
<1> DEFINE st == AllDecorated(c, d)
           E == IF Extends[c] = None THEN {} ELSE EntriesOf(Extends[c])
<1>1. MetadataTypeOK /\ \A e \in Classes : ClassInv(e)
  BY DEF MetadataInv
<1>2. /\ declaration' = [declaration EXCEPT ![c] = d] /\ types' = [types EXCEPT ![c] = d.types]
      /\ defined' = st.at /\ recorded' = st.list /\ declaration[c] = None
      /\ Extends[c] # None => declaration[Extends[c]] # None
  BY DEF Declare
<1>3. /\ declaration'[c] = d /\ \A e \in Classes \ {c} : declaration'[e] = declaration[e]
      /\ types'[c] = d.types /\ \A e \in Classes \ {c} : types'[e] = types[e]
  BY <1>1, <1>2 DEF MetadataTypeOK
<1>4. \A x \in Classes : declaration[x] # None => x # c /\ c \notin ToSet(Prototypes[x])
  <2>1. \A x \in Classes : declaration[x] # None => ChainDeclared(x)
    BY <1>1 DEF ClassInv
  <2>2. QED
    BY <1>2, <2>1, NoneIsNone DEF ChainDeclared
<1>5. \A k \in Decorators : defined[c][k] = None
  BY <1>1, <1>2 DEF ClassInv
<1>6. ASSUME Extends[c] # None
      PROVE  /\ Extends[c] \in Classes /\ ChainDeclared(Extends[c])
             /\ Covers(defined, recorded, Extends[c], EntriesOf(Extends[c]))
             /\ \A e \in ToSet(Prototypes[Extends[c]]) : e \in Classes \ {c}
             /\ ToSet(Prototypes[c]) = {c} \cup ToSet(Prototypes[Extends[c]])
  <2>1. Extends[c] \in Classes /\ ToSet(Prototypes[c]) = {c} \cup ToSet(Prototypes[Extends[c]])
    BY <1>6, ChainElements
  <2>2. ClassInv(Extends[c]) /\ declaration[Extends[c]] # None
    BY <1>1, <1>2, <1>6, <2>1
  <2>3. c \notin ToSet(Prototypes[Extends[c]]) /\ ToSet(Prototypes[Extends[c]]) \subseteq Classes
    BY <1>4, <2>1, <2>2, ChainElements
  <2>4. QED
    BY <2>1, <2>2, <2>3 DEF ClassInv
<1>7. Extends[c] = None => ToSet(Prototypes[c]) = {c}
  BY ChainElements
<1>8. ChainDeclared(c)' /\ EntriesOf(c)' = E \cup ToSet(d.methods)
  <2>1. CASE Extends[c] = None
    <3>1. ToSet(Prototypes[c]) = {c}
      BY <1>7, <2>1
    <3>2. QED
      BY <1>3, <2>1, <3>1 DEF ChainDeclared, EntriesOf
  <2>2. CASE Extends[c] # None
    <3>1. \A e \in ToSet(Prototypes[Extends[c]]) : declaration'[e] = declaration[e] /\ declaration[e] \in Declarations[e]
      BY <1>3, <1>6, <2>2 DEF ChainDeclared
    <3>2. ChainDeclared(c)'
      BY <1>3, <1>6, <2>2, <3>1 DEF ChainDeclared
    <3>3. EntriesOf(c)' = UNION {ToSet(declaration'[e].methods) : e \in {c} \cup ToSet(Prototypes[Extends[c]])}
      BY <1>6, <2>2 DEF EntriesOf
    <3>4. EntriesOf(Extends[c]) = UNION {ToSet(declaration'[e].methods) : e \in ToSet(Prototypes[Extends[c]])}
      BY <3>1 DEF EntriesOf
    <3>5. EntriesOf(c)' = ToSet(declaration'[c].methods) \cup EntriesOf(Extends[c])
      BY <3>3, <3>4
    <3>6. QED
      BY <1>3, <2>2, <3>2, <3>5
  <2>3. QED
    BY <2>1, <2>2
<1>9. E \in SUBSET MethodEntries /\ Covers(defined, recorded, c, E)
  <2>1. CASE Extends[c] = None
    BY <2>1 DEF Covers
  <2>2. CASE Extends[c] # None
    <3>1. E = EntriesOf(Extends[c]) /\ EntriesOf(Extends[c]) \in SUBSET MethodEntries
      BY <1>6, <2>2, KeysAre
    <3>2. ASSUME NEW m \in EntriesOf(Extends[c])
          PROVE  Found(defined, c, m.dec) = Found(defined, Extends[c], m.dec)
      <4>1. m.dec \in Decorators
        BY <3>1, MethodEntriesAre
      <4>2. QED
        BY <1>5, <2>2, <4>1, FoundAbove
    <3> HIDE DEF E
    <3>3. Covers(defined, recorded, c, E)
      BY <1>6, <2>2, <3>1, <3>2 DEF Covers
    <3>4. QED
      BY <3>1, <3>3
  <2>3. QED
    BY <2>1, <2>2
<1>10. defined \in Owners /\ recorded \in Lists /\ OwnersAbove(defined)
  BY <1>1 DEF MetadataTypeOK
<1> HIDE DEF st, E
<1>11. /\ st \in [at : Owners, list : Lists] /\ OwnersAbove(st.at)
       /\ \A e \in Classes \ {c} : st.at[e] = defined[e]
       /\ \A o \in Classes \ {c}, k \in Decorators :
             \/ st.list[o][k] = recorded[o][k]
             \/ /\ o \in ToSet(Prototypes[c]) /\ Len(recorded[o][k]) > 1
                /\ k \in {m.dec : m \in ToSet(d.methods)}
                /\ ToSet(recorded[o][k]) \subseteq ToSet(st.list[o][k])
       /\ Covers(st.at, st.list, c, E \cup ToSet(d.methods))
  BY <1>9, <1>10, DecoratedIs DEF st
<1>12. defined' \in Owners /\ recorded' \in Lists
  BY <1>2, <1>11
<1>13. OwnersAbove(defined)' /\ Covers(defined, recorded, c, EntriesOf(c))'
  <2>1. OwnersAbove(st.at) /\ Covers(st.at, st.list, c, EntriesOf(c)')
    BY <1>8, <1>11
  <2>2. OwnersAbove(defined') /\ Covers(defined', recorded', c, EntriesOf(c)')
    BY ONLY <1>2, <2>1
  <2>3. QED
    BY <2>2
<1>14. QED
  BY <1>2, <1>3, <1>4, <1>8, <1>11, <1>12, <1>13

\* A class statement keeps the invariant: it adds to what was found, and takes nothing away.
LEMMA MetadataInvDeclare ==
  ASSUME MetadataInv, NEW c \in Classes, NEW d \in Declarations[c], Declare(c, d)
  PROVE  MetadataInv'
<1>1. MetadataTypeOK /\ (\A x \in Classes : ClassInv(x)) /\ \A t \in Tokens : CacheInv(t)
  BY DEF MetadataInv
<1>2. /\ declaration'[c] = d /\ \A e \in Classes \ {c} : declaration'[e] = declaration[e]
      /\ types'[c] = d.types /\ \A e \in Classes \ {c} : types'[e] = types[e]
      /\ defined' \in Owners /\ recorded' \in Lists /\ OwnersAbove(defined)' /\ ChainDeclared(c)'
      /\ \A e \in Classes \ {c} : defined'[e] = defined[e]
      /\ \A o \in Classes \ {c}, k \in Decorators :
            \/ recorded'[o][k] = recorded[o][k]
            \/ ToSet(recorded[o][k]) \subseteq ToSet(recorded'[o][k])
      /\ Covers(defined, recorded, c, EntriesOf(c))'
      /\ \A x \in Classes : declaration[x] # None => x # c /\ c \notin ToSet(Prototypes[x])
  BY DeclareIs
<1>3. /\ declaration' = [declaration EXCEPT ![c] = d] /\ types' = [types EXCEPT ![c] = d.types]
      /\ cachedMetadata' = cachedMetadata /\ cachedProviders' = cachedProviders /\ given' = given
  BY DEF Declare
<1>4. d # None /\ (d.types # None => d.types \in Seq(Injected))
  BY StatementIs
<1>5. MetadataTypeOK'
  <2>1. declaration' \in [Classes -> (UNION {Declarations[x] : x \in Classes}) \cup {None}]
    BY <1>1, <1>3 DEF MetadataTypeOK
  <2>2. types' \in [Classes -> Seq(Injected) \cup {None}]
    BY <1>1, <1>3, <1>4 DEF MetadataTypeOK
  <2>3. /\ cachedMetadata' \in [Tokens -> CachedMetadata \cup {None}]
        /\ cachedProviders' \in [Tokens -> Seq(Injected) \cup {None}]
        /\ given' \in [Providers -> Seq(Injected) \cup {None}]
    BY <1>1, <1>3 DEF MetadataTypeOK
  <2>4. QED
    BY <1>2, <2>1, <2>2, <2>3 DEF MetadataTypeOK
<1>6. ASSUME NEW x \in Classes, declaration[x] # None
      PROVE  /\ x # c /\ ToSet(Prototypes[x]) \subseteq Classes \ {c} /\ x \in ToSet(Prototypes[x]) /\ ChainDeclared(x)
             /\ Constructor(x)' = Constructor(x) /\ EntriesOf(x)' = EntriesOf(x) /\ ChainDeclared(x)'
             /\ Constructor(x) # None => /\ AskedFor(x)' = AskedFor(x)
                                         /\ ReplacesDecorated(x)' <=> ReplacesDecorated(x)
  <2>1. x # c /\ ToSet(Prototypes[x]) \subseteq Classes \ {c} /\ x \in ToSet(Prototypes[x])
    <3>1. x # c /\ c \notin ToSet(Prototypes[x])
      BY <1>2, <1>6
    <3>2. ToSet(Prototypes[x]) \subseteq Classes /\ x \in ToSet(Prototypes[x])
      BY ChainElements
    <3>3. QED
      BY <3>1, <3>2
  <2>2. \A e \in ToSet(Prototypes[x]) : declaration'[e] = declaration[e] /\ (types'[e] # None <=> types[e] # None)
    BY <1>2, <2>1
  <2>3. ChainDeclared(x)
    BY <1>1, <1>6 DEF ClassInv
  <2>4. /\ Constructor(x)' = Constructor(x) /\ EntriesOf(x)' = EntriesOf(x) /\ (ChainDeclared(x)' <=> ChainDeclared(x))
        /\ Constructor(x) # None => /\ AskedFor(x)' = AskedFor(x)
                                    /\ ReplacesDecorated(x)' <=> ReplacesDecorated(x)
    BY <2>2, ChainKept
  <2>5. QED
    BY <2>1, <2>3, <2>4
<1>7. ASSUME NEW x \in Classes
      PROVE  ClassInv(x)'
  <2>1. CASE x = c
    <3>1. declaration'[x] # None
      BY <1>2, <1>4, <2>1
    <3>2. TypesOf(x)'
      <4>1. types'[x] = declaration'[x].types
        BY <1>2, <2>1
      <4>2. QED
        BY <4>1 DEF TypesOf
    <3>3. types'[x] # None <=> declaration'[x].types # None
      BY <1>2, <2>1
    <3>4. ChainDeclared(x)' /\ Covers(defined, recorded, x, EntriesOf(x))'
      BY <1>2, <2>1
    <3>5. QED
      BY <3>1, <3>2, <3>3, <3>4 DEF ClassInv
  <2>2. CASE x # c /\ declaration[x] = None
    <3>1. types[x] = None /\ \A k \in Decorators : defined[x][k] = None
      BY <1>1, <2>2 DEF ClassInv
    <3>2. declaration'[x] = None /\ types'[x] = None /\ \A k \in Decorators : defined'[x][k] = None
      BY <1>2, <2>2, <3>1
    <3>3. QED
      BY <3>2 DEF ClassInv
  <2>3. CASE declaration[x] # None
    <3>1. /\ x # c /\ ToSet(Prototypes[x]) \subseteq Classes \ {c} /\ x \in ToSet(Prototypes[x]) /\ ChainDeclared(x)
          /\ Constructor(x)' = Constructor(x) /\ EntriesOf(x)' = EntriesOf(x) /\ ChainDeclared(x)'
          /\ Constructor(x) # None => (ReplacesDecorated(x)' <=> ReplacesDecorated(x))
      BY <1>6, <2>3
    <3>2. declaration'[x] = declaration[x] /\ types'[x] = types[x]
      BY <1>2, <3>1
    <3>3. /\ types[x] # None <=> declaration[x].types # None
          /\ Covers(defined, recorded, x, EntriesOf(x))
          /\ types[x] # None => ReplacesDecorated(x) \/ TypesOf(x)
      BY <1>1, <2>3 DEF ClassInv
    <3>4. types[x] # None => (ReplacesDecorated(x)' \/ TypesOf(x)')
      <4> SUFFICES ASSUME types[x] # None PROVE ReplacesDecorated(x)' \/ TypesOf(x)'
        OBVIOUS
      <4>1. Constructor(x) # None
        <5>1. x \in {e \in Classes : types[e] # None}
          OBVIOUS
        <5>2. NearestIn({e \in Classes : types[e] # None}, x) = x
          BY <5>1, NearestIs
        <5>3. QED
          BY <5>2, NoneIsNone DEF Constructor
      <4>2. TypesOf(x)' <=> TypesOf(x)
        BY <3>2 DEF TypesOf
      <4>3. QED
        BY <3>1, <3>3, <4>1, <4>2
    <3>5. ASSUME NEW m \in EntriesOf(x)
          PROVE  Found(defined', x, m.dec) # None /\ m \in ToSet(recorded'[Found(defined', x, m.dec)][m.dec])
      <4> DEFINE o == Found(defined, x, m.dec)
      <4>1. EntriesOf(x) \in SUBSET MethodEntries
        BY <3>1, KeysAre
      <4>2. m.dec \in Decorators
        BY <4>1, MethodEntriesAre
      <4>3. \A e \in ToSet(Prototypes[x]) : defined'[e][m.dec] = defined[e][m.dec]
        BY <1>2, <3>1
      <4>4. Found(defined', x, m.dec) = o
        BY <4>3, FoundAgrees
      <4>5. o # None /\ m \in ToSet(recorded[o][m.dec])
        BY <3>3 DEF Covers
      <4>6. defined \in Owners /\ OwnersAbove(defined)
        BY <1>1 DEF MetadataTypeOK
      <4>7. PICK e \in ToSet(Prototypes[x]) : defined[e][m.dec] = o /\ e \in Classes
        BY <4>2, <4>5, <4>6, FoundIs
      <4> HIDE DEF o
      <4>8. o \in ToSet(Prototypes[e])
        BY <4>2, <4>5, <4>6, <4>7 DEF OwnersAbove
      <4>9. o \in Classes \ {c}
        BY <3>1, <4>7, <4>8, ChainWithin
      <4>10. ToSet(recorded[o][m.dec]) \subseteq ToSet(recorded'[o][m.dec])
        BY <1>2, <4>2, <4>9
      <4>11. QED
        BY <4>4, <4>5, <4>10
    <3>6. Covers(defined, recorded, x, EntriesOf(x))'
      BY <3>1, <3>5 DEF Covers
    <3>7. declaration'[x] # None
      BY <2>3, <3>2
    <3>8. QED
      BY <3>1, <3>2, <3>3, <3>4, <3>6, <3>7 DEF ClassInv
  <2>4. QED
    BY <2>1, <2>2, <2>3
<1>8. ASSUME NEW t \in Tokens
      PROVE  CacheInv(t)'
  <2>1. CASE cachedMetadata[t] = None
    BY <1>1, <1>3, <2>1 DEF CacheInv
  <2>2. CASE cachedMetadata[t] # None
    <3>1. PICK k \in Classes : k = cachedMetadata[t].class
      BY <1>1, <2>2 DEF MetadataTypeOK, CachedMetadata
    <3>2. /\ declaration[k] # None /\ cachedProviders[t] # None
          /\ EntriesOf(k) \subseteq ToSet(cachedMetadata[t].methods)
          /\ Constructor(k) = None \/ ReplacesDecorated(k) \/ cachedProviders[t] = AskedFor(k)
          /\ \A x \in Classes : given[<<t, x>>] = None \/ given[<<t, x>>] = cachedProviders[t]
      BY <1>1, <2>2, <3>1 DEF CacheInv
    <3>3. k = cachedMetadata'[t].class
      BY <1>3, <3>1
    <3>4. /\ k # c /\ Constructor(k)' = Constructor(k) /\ EntriesOf(k)' = EntriesOf(k)
          /\ Constructor(k) # None => /\ AskedFor(k)' = AskedFor(k)
                                      /\ ReplacesDecorated(k)' <=> ReplacesDecorated(k)
      BY <1>6, <3>1, <3>2
    <3>5. declaration'[k] # None
      BY <1>2, <3>1, <3>2, <3>4
    <3>6. Constructor(k)' = None \/ ReplacesDecorated(k)' \/ cachedProviders'[t] = AskedFor(k)'
      BY <1>3, <3>2, <3>4
    <3>7. EntriesOf(k)' \subseteq ToSet(cachedMetadata'[t].methods) /\ cachedProviders'[t] # None /\ cachedMetadata'[t] # None
      BY <1>3, <2>2, <3>2, <3>4
    <3>8. \A x \in Classes : given'[<<t, x>>] = None \/ given'[<<t, x>>] = cachedProviders'[t]
      BY <1>3, <3>2
    <3>9. QED
      BY <3>3, <3>5, <3>6, <3>7, <3>8 DEF CacheInv
  <2>3. QED
    BY <2>1, <2>2
<1>9. QED
  BY <1>5, <1>7, <1>8 DEF MetadataInv

\* What a parameter type asks for agrees with the compiler's where nothing is decorated.
LEMMA AskedForIs ==
  ASSUME NEW c \in Classes, NEW s, s = AskedFor(c)
  PROVE  LET d == declaration[Constructor(c)]
         IN /\ DOMAIN s = DOMAIN d.types
            /\ \A i \in DOMAIN d.types : (\A p \in ToSet(d.params) : p.index # i) => s[i] = d.types[i]
BY DEF AskedFor

\* So does an instance: it rewrites the array of types only where that changes nothing that
\* is asked for, or where a base replaces decorated parameters.
LEMMA MetadataInvCreate ==
  ASSUME MetadataInv, NEW t \in Tokens, NEW c \in Classes, Create(t, c)
  PROVE  MetadataInv' /\ cachedMetadata'[t] # None /\ given'[<<t, c>>] # None
<1> DEFINE meta == Cached(t, c)
           k == meta.class
           f == Constructor(k)
           deps == IF cachedProviders[t] # None THEN cachedProviders[t] ELSE ParamTypes(k)
<1>1. MetadataTypeOK /\ (\A x \in Classes : ClassInv(x)) /\ \A u \in Tokens : CacheInv(u)
  BY DEF MetadataInv
<1>2. /\ declaration[c] # None /\ given[<<t, c>>] = None
      /\ cachedMetadata' = [cachedMetadata EXCEPT ![t] = meta]
      /\ cachedProviders' = [cachedProviders EXCEPT ![t] = deps]
      /\ types' = IF cachedProviders[t] # None \/ f = None THEN types ELSE [types EXCEPT ![f] = deps]
      /\ given' = [given EXCEPT ![<<t, c>>] = deps]
      /\ declaration' = declaration /\ defined' = defined /\ recorded' = recorded
  BY DEF Create
<1>3. \A x \in Classes : declaration[x] # None =>
          /\ ChainDeclared(x) /\ Covers(defined, recorded, x, EntriesOf(x))
          /\ types[x] # None <=> declaration[x].types # None
          /\ types[x] # None => ReplacesDecorated(x) \/ TypesOf(x)
  BY <1>1 DEF ClassInv
<1>4. defined \in Owners /\ recorded \in Lists
  BY <1>1 DEF MetadataTypeOK
<1>5. /\ meta \in CachedMetadata /\ meta # None /\ k \in Classes /\ declaration[k] # None
      /\ EntriesOf(k) \subseteq ToSet(meta.methods)
  <2>1. CASE cachedMetadata[t] # None
    <3>1. meta = cachedMetadata[t]
      BY <2>1 DEF Cached
    <3>2. meta \in CachedMetadata
      BY <1>1, <2>1, <3>1 DEF MetadataTypeOK
    <3>3. declaration[k] # None /\ EntriesOf(k) \subseteq ToSet(meta.methods)
      BY <1>1, <2>1, <3>1 DEF CacheInv
    <3> HIDE DEF meta
    <3>4. QED
      BY <2>1, <3>1, <3>2, <3>3 DEF CachedMetadata
  <2>2. CASE cachedMetadata[t] = None
    <3>1. meta = [class |-> c, methods |-> MethodMetadata(c)]
      BY <2>2 DEF Cached
    <3>2. MethodMetadata(c) \in Seq(MethodEntries) /\ EntriesOf(c) \subseteq ToSet(MethodMetadata(c))
      BY <1>2, <1>3, <1>4, MetadataIs
    <3>3. meta \in CachedMetadata /\ k = c /\ meta.methods = MethodMetadata(c)
      BY <3>1, <3>2 DEF CachedMetadata
    <3> HIDE DEF meta
    <3>4. QED
      BY <1>2, <3>2, <3>3, NoneIsNone
  <2>3. QED
    BY <2>1, <2>2
<1>6. /\ \A e \in Classes : types[e] # None <=> (declaration[e] # None /\ declaration[e].types # None)
      /\ \A e \in Classes : types[e] # None => types[e] \in Seq(Injected)
  <2>1. \A e \in Classes : declaration[e] = None => types[e] = None
    BY <1>1 DEF ClassInv
  <2>2. QED
    BY <1>1, <1>3, <2>1 DEF MetadataTypeOK
<1> HIDE DEF meta, k
<1>7. f # None => /\ f \in Classes /\ types[f] # None /\ declaration[f] # None
                  /\ ReplacesDecorated(f) <=> ReplacesDecorated(k)
                  /\ ReplacesDecorated(k) \/ TypesOf(f)
  <2> SUFFICES ASSUME f # None
               PROVE  /\ f \in Classes /\ types[f] # None /\ declaration[f] # None
                      /\ ReplacesDecorated(f) <=> ReplacesDecorated(k)
                      /\ ReplacesDecorated(k) \/ TypesOf(f)
    OBVIOUS
  <2>1. f \in Classes /\ types[f] # None /\ (ReplacesDecorated(f) <=> ReplacesDecorated(k))
    BY <1>5, ConstructorIs
  <2> HIDE DEF f
  <2>2. declaration[f] # None
    BY <1>6, <2>1
  <2>3. QED
    BY <1>3, <2>1, <2>2
<1>8. /\ deps \in Seq(Injected) /\ deps # None
      /\ f = None \/ ReplacesDecorated(k) \/ deps = AskedFor(k)
  <2>1. CASE cachedProviders[t] # None
    <3>1. cachedMetadata[t] # None
      BY <1>1, <2>1 DEF CacheInv
    <3>2. k = cachedMetadata[t].class
      BY <3>1 DEF k, meta, Cached
    <3>3. f = None \/ ReplacesDecorated(k) \/ deps = AskedFor(k)
      BY <1>1, <2>1, <3>1, <3>2 DEF CacheInv
    <3>4. deps \in Seq(Injected)
      BY <1>1, <2>1 DEF MetadataTypeOK
    <3>5. QED
      BY <3>3, <3>4, NoneIsNone
  <2>2. CASE cachedProviders[t] = None
    <3>1. deps = ParamTypes(k)
      BY <2>2
    <3>2. /\ ParamTypes(k) \in Seq(Injected)
          /\ f = None \/ ReplacesDecorated(k) \/ ~ TypesOf(f) \/ ParamTypes(k) = AskedFor(k)
      BY <1>3, <1>5, <1>6, ParamTypesAre
    <3> HIDE DEF f, deps
    <3>3. QED
      BY <1>7, <3>1, <3>2, NoneIsNone
  <2>3. QED
    BY <2>1, <2>2
<1>9. /\ f # None => /\ DOMAIN AskedFor(k) = DOMAIN declaration[f].types
                     /\ \A i \in DOMAIN declaration[f].types :
                           (\A p \in ToSet(declaration[f].params) : p.index # i)
                             => AskedFor(k)[i] = declaration[f].types[i]
  BY <1>5, AskedForIs
<1>10. given \in [Providers -> Seq(Injected) \cup {None}] /\ <<t, c>> \in Providers
  BY <1>1 DEF MetadataTypeOK, Providers
<1>11. /\ cachedMetadata'[t] = meta /\ cachedProviders'[t] = deps
       /\ \A u \in Tokens \ {t} : cachedMetadata'[u] = cachedMetadata[u] /\ cachedProviders'[u] = cachedProviders[u]
       /\ given'[<<t, c>>] = deps
       /\ \A p \in Providers : p # <<t, c>> => given'[p] = given[p]
  BY <1>1, <1>2, <1>10 DEF MetadataTypeOK
<1> HIDE DEF deps, f
<1>12. MetadataTypeOK'
  <2>1. types' \in [Classes -> Seq(Injected) \cup {None}]
    BY <1>1, <1>2, <1>7, <1>8 DEF MetadataTypeOK
  <2>2. /\ declaration' \in [Classes -> (UNION {Declarations[x] : x \in Classes}) \cup {None}]
        /\ defined' \in Owners /\ recorded' \in Lists /\ OwnersAbove(defined)'
    <3>1. OwnersAbove(defined')
      BY <1>1, <1>2 DEF MetadataTypeOK
    <3>2. QED
      BY <1>1, <1>2, <3>1 DEF MetadataTypeOK
  <2>3. cachedMetadata' \in [Tokens -> CachedMetadata \cup {None}]
    BY <1>1, <1>2, <1>5 DEF MetadataTypeOK
  <2>4. cachedProviders' \in [Tokens -> Seq(Injected) \cup {None}]
    BY <1>1, <1>2, <1>8 DEF MetadataTypeOK
  <2>5. given' \in [Providers -> Seq(Injected) \cup {None}]
    BY <1>1, <1>2, <1>8 DEF MetadataTypeOK
  <2>6. QED
    BY <2>1, <2>2, <2>3, <2>4, <2>5 DEF MetadataTypeOK
<1>13. \A e \in Classes : /\ declaration'[e] = declaration[e] /\ (types'[e] # None <=> types[e] # None)
                          /\ types'[e] = types[e] \/ (e = f /\ f # None /\ types'[e] = deps)
  BY <1>1, <1>2, <1>7, <1>8 DEF MetadataTypeOK
<1>14. ASSUME NEW x \in Classes
       PROVE  /\ Constructor(x)' = Constructor(x) /\ EntriesOf(x)' = EntriesOf(x) /\ (ChainDeclared(x)' <=> ChainDeclared(x))
              /\ Constructor(x) # None => /\ AskedFor(x)' = AskedFor(x)
                                          /\ ReplacesDecorated(x)' <=> ReplacesDecorated(x)
  <2>1. ToSet(Prototypes[x]) \subseteq Classes
    BY ChainElements
  <2>2. \A e \in ToSet(Prototypes[x]) : declaration'[e] = declaration[e] /\ (types'[e] # None <=> types[e] # None)
    BY <1>13, <2>1
  <2>3. QED
    BY <2>2, ChainKept
<1>15. ASSUME NEW x \in Classes
       PROVE  ClassInv(x)'
  <2>1. CASE declaration[x] = None
    <3>1. types[x] = None /\ \A j \in Decorators : defined[x][j] = None
      BY <1>1, <2>1 DEF ClassInv
    <3>2. declaration'[x] = None /\ types'[x] = None /\ \A j \in Decorators : defined'[x][j] = None
      BY <1>2, <1>13, <2>1, <3>1
    <3>3. QED
      BY <3>2 DEF ClassInv
  <2>2. CASE declaration[x] # None
    <3>1. /\ ChainDeclared(x) /\ Covers(defined, recorded, x, EntriesOf(x))
          /\ types[x] # None <=> declaration[x].types # None
          /\ types[x] # None => ReplacesDecorated(x) \/ TypesOf(x)
      BY <1>3, <2>2
    <3>2. Covers(defined, recorded, x, EntriesOf(x))'
      BY <1>2, <1>14, <3>1 DEF Covers
    <3>3. ASSUME types'[x] # None
          PROVE  ReplacesDecorated(x)' \/ TypesOf(x)'
      <4>1. types[x] # None
        BY <1>13, <3>3
      <4>2. Constructor(x) # None
        <5>1. x \in {e \in Classes : types[e] # None}
          BY <4>1
        <5>2. NearestIn({e \in Classes : types[e] # None}, x) = x
          BY <5>1, NearestIs
        <5>3. QED
          BY <5>2, NoneIsNone DEF Constructor
      <4>3. ReplacesDecorated(x)' <=> ReplacesDecorated(x)
        BY <1>14, <4>2
      <4>4. CASE types'[x] = types[x]
        <5>1. TypesOf(x)' <=> TypesOf(x)
          BY <1>2, <4>4 DEF TypesOf
        <5>2. QED
          BY <3>1, <4>1, <4>3, <5>1
      <4>5. CASE x = f /\ f # None /\ types'[x] = deps
        <5>1. CASE ReplacesDecorated(k)
          BY <1>7, <4>3, <4>5, <5>1
        <5>2. CASE ~ReplacesDecorated(k)
          <6>1. types'[x] = AskedFor(k)
            BY <1>8, <4>5, <5>2
          <6>2. TypesOf(x)'
            BY <1>2, <1>9, <4>5, <6>1 DEF TypesOf
          <6>3. QED
            BY <6>2
        <5>3. QED
          BY <5>1, <5>2
      <4>6. QED
        BY <1>13, <4>4, <4>5
    <3>4. types'[x] # None <=> declaration'[x].types # None
      BY <1>2, <1>13, <3>1
    <3>5. declaration'[x] # None /\ ChainDeclared(x)'
      BY <1>2, <1>14, <2>2, <3>1
    <3>6. QED
      BY <3>2, <3>3, <3>4, <3>5 DEF ClassInv
  <2>3. QED
    BY <2>1, <2>2
<1>16. PICK r \in Classes : r = k
  BY <1>5
<1>17. /\ declaration[r] # None /\ EntriesOf(r) \subseteq ToSet(meta.methods)
       /\ Constructor(r) = None \/ ReplacesDecorated(r) \/ deps = AskedFor(r)
  <2>1. f = Constructor(r)
    BY <1>16 DEF f
  <2>2. QED
    BY <1>5, <1>8, <1>16, <2>1
<1>18. ASSUME NEW u \in Tokens
       PROVE  CacheInv(u)'
  <2>1. CASE u = t
    <3>1. /\ cachedMetadata'[u] # None /\ cachedMetadata'[u].class = r /\ cachedProviders'[u] = deps
          /\ cachedMetadata'[u].methods = meta.methods
      BY <1>5, <1>11, <1>16, <2>1 DEF k
    <3>2. /\ Constructor(r)' = Constructor(r) /\ EntriesOf(r)' = EntriesOf(r)
          /\ Constructor(r) # None => /\ AskedFor(r)' = AskedFor(r)
                                      /\ ReplacesDecorated(r)' <=> ReplacesDecorated(r)
      BY <1>14
    <3>3. declaration'[r] # None /\ cachedProviders'[u] # None /\ EntriesOf(r)' \subseteq ToSet(cachedMetadata'[u].methods)
      BY <1>2, <1>8, <1>17, <3>1, <3>2
    <3>4. Constructor(r)' = None \/ ReplacesDecorated(r)' \/ cachedProviders'[u] = AskedFor(r)'
      BY <1>17, <3>1, <3>2
    <3>5. ASSUME NEW x \in Classes
          PROVE  given'[<<u, x>>] = None \/ given'[<<u, x>>] = cachedProviders'[u]
      <4>1. CASE x = c
        BY <1>11, <2>1, <3>1, <4>1
      <4>2. CASE x # c
        <5>1. <<u, x>> \in Providers /\ <<u, x>> # <<t, c>>
          BY <4>2 DEF Providers
        <5>2. given'[<<u, x>>] = given[<<u, x>>]
          BY <1>11, <5>1
        <5>3. CASE cachedMetadata[t] = None
          BY <1>1, <2>1, <5>2, <5>3 DEF CacheInv
        <5>4. CASE cachedMetadata[t] # None
          <6>1. cachedProviders[t] # None /\ (given[<<t, x>>] = None \/ given[<<t, x>>] = cachedProviders[t])
            BY <1>1, <5>4 DEF CacheInv
          <6>2. deps = cachedProviders[t]
            BY <6>1 DEF deps
          <6>3. QED
            BY <2>1, <3>1, <5>2, <6>1, <6>2
        <5>5. QED
          BY <5>3, <5>4
      <4>3. QED
        BY <4>1, <4>2
    <3>6. QED
      BY <3>1, <3>3, <3>4, <3>5 DEF CacheInv
  <2>2. CASE u # t
    <3>1. cachedMetadata'[u] = cachedMetadata[u] /\ cachedProviders'[u] = cachedProviders[u]
      BY <1>11, <2>2
    <3>2. \A x \in Classes : given'[<<u, x>>] = given[<<u, x>>]
      <4>1. \A x \in Classes : <<u, x>> \in Providers /\ <<u, x>> # <<t, c>>
        BY <2>2 DEF Providers
      <4>2. QED
        BY <1>11, <4>1
    <3>3. CASE cachedMetadata[u] = None
      BY <1>1, <3>1, <3>2, <3>3 DEF CacheInv
    <3>4. CASE cachedMetadata[u] # None
      <4>1. PICK j \in Classes : j = cachedMetadata[u].class
        BY <1>1, <3>4 DEF MetadataTypeOK, CachedMetadata
      <4>2. /\ declaration[j] # None /\ cachedProviders[u] # None
            /\ EntriesOf(j) \subseteq ToSet(cachedMetadata[u].methods)
            /\ Constructor(j) = None \/ ReplacesDecorated(j) \/ cachedProviders[u] = AskedFor(j)
            /\ \A x \in Classes : given[<<u, x>>] = None \/ given[<<u, x>>] = cachedProviders[u]
        BY <1>1, <3>4, <4>1 DEF CacheInv
      <4>3. j = cachedMetadata'[u].class
        BY <3>1, <4>1
      <4>4. declaration'[j] # None /\ cachedProviders'[u] # None /\ EntriesOf(j)' \subseteq ToSet(cachedMetadata'[u].methods)
        BY <1>2, <1>14, <3>1, <4>1, <4>2
      <4>5. Constructor(j)' = None \/ ReplacesDecorated(j)' \/ cachedProviders'[u] = AskedFor(j)'
        BY <1>14, <3>1, <4>1, <4>2
      <4>6. \A x \in Classes : given'[<<u, x>>] = None \/ given'[<<u, x>>] = cachedProviders'[u]
        BY <3>1, <3>2, <4>2
      <4>7. QED
        BY <3>1, <3>4, <4>3, <4>4, <4>5, <4>6 DEF CacheInv
    <3>5. QED
      BY <3>3, <3>4
  <2>3. QED
    BY <2>1, <2>2
<1>19. QED
  BY <1>5, <1>8, <1>11, <1>12, <1>15, <1>18 DEF MetadataInv

\* Nothing else touches what it speaks of.
LEMMA MetadataInvKept == MetadataInv /\ UNCHANGED metadataVars => MetadataInv'
<1> SUFFICES ASSUME MetadataInv, UNCHANGED metadataVars PROVE MetadataInv'
  OBVIOUS
<1>1. /\ declaration' = declaration /\ defined' = defined /\ recorded' = recorded /\ types' = types
      /\ cachedMetadata' = cachedMetadata /\ cachedProviders' = cachedProviders /\ given' = given
  BY DEF metadataVars
<1>2. MetadataTypeOK'
  BY <1>1 DEF MetadataInv, MetadataTypeOK, OwnersAbove
<1>3. ASSUME NEW x \in Classes
      PROVE  ClassInv(x)'
  <2>1. ClassInv(x)
    BY DEF MetadataInv
  <2>2. /\ (ReplacesDecorated(x)' <=> ReplacesDecorated(x)) /\ (TypesOf(x)' <=> TypesOf(x))
        /\ (ChainDeclared(x)' <=> ChainDeclared(x)) /\ EntriesOf(x)' = EntriesOf(x)
    BY <1>1 DEF ReplacesDecorated, Constructor, TypesOf, ChainDeclared, EntriesOf
  <2>3. Covers(defined, recorded, x, EntriesOf(x))' <=> Covers(defined, recorded, x, EntriesOf(x))
    BY <1>1, <2>2 DEF Covers
  <2>4. QED
    BY <1>1, <2>1, <2>2, <2>3 DEF ClassInv
<1>4. ASSUME NEW t \in Tokens
      PROVE  CacheInv(t)'
  <2>1. CacheInv(t)
    BY DEF MetadataInv
  <2>2. QED
    BY <1>1, <2>1 DEF CacheInv, EntriesOf, Constructor, ReplacesDecorated, AskedFor
<1>5. QED
  BY <1>2, <1>3, <1>4 DEF MetadataInv

\* Every step keeps it.
LEMMA MetadataInvNext == MetadataInv /\ [InterceptNext]_interceptVars => MetadataInv'
<1> SUFFICES ASSUME MetadataInv, [InterceptNext]_interceptVars PROVE MetadataInv'
  OBVIOUS
<1>1. ASSUME NEW c \in Classes, NEW d \in Declarations[c], Declare(c, d)
      PROVE  MetadataInv'
  BY <1>1, MetadataInvDeclare
<1>2. ASSUME NEW t \in Tokens, NEW c \in Classes, CreateIntercepted(t, c)
      PROVE  MetadataInv'
  <2>1. Create(t, c)
    BY <1>2 DEF CreateIntercepted
  <2>2. QED
    BY <2>1, MetadataInvCreate
<1>3. ASSUME NEW p \in Providers, NEW r \in {"value", "promise"}, Call(p, r)
      PROVE  MetadataInv'
  BY <1>3, MetadataInvKept DEF Call
<1>4. CASE CallNext
  BY <1>4, MetadataInvKept DEF CallNext
<1>5. CASE UNCHANGED interceptVars
  BY <1>5, MetadataInvKept DEF interceptVars
<1>6. QED
  BY <1>1, <1>2, <1>3, <1>4, <1>5 DEF InterceptNext

\* The metadata are consistent in every state.
LEMMA MetadataInvariant == InterceptSpec => []MetadataInv
<1>1. InterceptInit => MetadataInv
  BY MetadataInvInit DEF InterceptInit
<1>2. QED
  BY <1>1, MetadataInvNext, PTL DEF InterceptSpec

\* Whatever statements there are, whoever asked first and whatever was cached and
\* rewritten in between: a constructor gets what its parameters ask for.
THEOREM InjectionIsAsDeclared == InterceptSpec => []InjectedAsDeclared
<1>1. MetadataInv => InjectedAsDeclared
  <2> SUFFICES ASSUME MetadataInv, NEW t \in Tokens, NEW c \in Classes,
                      given[<<t, c>>] # None, Constructor(c) # None,
                      cachedMetadata[t].class = c, ~ReplacesDecorated(c)
               PROVE  given[<<t, c>>] = AskedFor(c)
    BY DEF InjectedAsDeclared, Providers
  <2>1. CacheInv(t)
    BY DEF MetadataInv
  <2>2. QED
    BY <2>1 DEF CacheInv
<1>2. QED
  BY <1>1, MetadataInvariant, PTL

\* A class statement shows in what is found for a class that exists only where it adds
\* to an array, and it adds to one only under a decorator that it applies itself.
LEMMA DeclareKeepsMetadata ==
  ASSUME MetadataInv, NEW c \in Classes, NEW d \in Declarations[c], Declare(c, d),
         NEW e \in Classes, declaration[e] # None, MethodMetadata(e)' # MethodMetadata(e)
  PROVE  \E k \in Decorators :
            LET owner == Found(defined, e, k)
            IN /\ owner # None /\ Len(recorded[owner][k]) > 1
               /\ owner \in ToSet(Prototypes[c])
               /\ k \in {m.dec : m \in ToSet(declaration'[c].methods)}
<1>1. /\ declaration'[c] = d /\ \A x \in Classes \ {c} : declaration'[x] = declaration[x]
      /\ \A x \in Classes \ {c} : defined'[x] = defined[x]
      /\ \A o \in Classes \ {c}, k \in Decorators :
            \/ recorded'[o][k] = recorded[o][k]
            \/ /\ o \in ToSet(Prototypes[c]) /\ Len(recorded[o][k]) > 1 /\ k \in {m.dec : m \in ToSet(d.methods)}
               /\ ToSet(recorded[o][k]) \subseteq ToSet(recorded'[o][k])
      /\ e # c /\ c \notin ToSet(Prototypes[e])
  BY DeclareIs
<1>2. MetadataTypeOK /\ ChainDeclared(e) /\ Covers(defined, recorded, e, EntriesOf(e))
  BY DEF MetadataInv, ClassInv
<1>3. defined \in Owners /\ OwnersAbove(defined)
  BY <1>2 DEF MetadataTypeOK
<1>4. ToSet(Prototypes[e]) \subseteq Classes \ {c}
  BY <1>1, ChainElements
<1>5. /\ MetadataKeys(e) \in Seq(Decorators)
      /\ ToSet(MetadataKeys(e)) = {m.dec : m \in EntriesOf(e)}
  BY <1>2, KeysAre
<1>6. \A i \in DOMAIN Prototypes[e] : Prototypes[e][i] \in ToSet(Prototypes[e])
  BY PrototypesAre, ElementsOf
<1>7. MetadataKeys(e)' = MetadataKeys(e)
  <2>1. \A i \in DOMAIN Prototypes[e] : declaration'[Prototypes[e][i]] = declaration[Prototypes[e][i]]
    BY <1>1, <1>4, <1>6
  <2>2. QED
    BY <2>1 DEF MetadataKeys
<1>8. \A k \in Decorators : Found(defined', e, k) = Found(defined, e, k)
  <2>1. \A x \in ToSet(Prototypes[e]), k \in Decorators : defined'[x][k] = defined[x][k]
    BY <1>1, <1>4
  <2>2. QED
    BY <2>1, FoundAgrees
<1>9. PICK k \in ToSet(MetadataKeys(e)) : recorded'[Found(defined, e, k)][k] # recorded[Found(defined, e, k)][k]
  <2>1. SUFFICES ASSUME \A k \in ToSet(MetadataKeys(e)) :
                           recorded'[Found(defined, e, k)][k] = recorded[Found(defined, e, k)][k]
                 PROVE  MethodMetadata(e)' = MethodMetadata(e)
    OBVIOUS
  <2>2. \A i \in DOMAIN MetadataKeys(e) : MetadataKeys(e)[i] \in ToSet(MetadataKeys(e)) /\ MetadataKeys(e)[i] \in Decorators
    BY <1>5, ElementsOf
  <2>3. \A i \in DOMAIN MetadataKeys(e) :
           recorded'[Found(defined', e, MetadataKeys(e)[i])][MetadataKeys(e)[i]]
             = recorded[Found(defined, e, MetadataKeys(e)[i])][MetadataKeys(e)[i]]
    BY <1>8, <2>1, <2>2
  <2>4. QED
    BY <1>7, <2>3 DEF MethodMetadata
<1>10. PICK m \in EntriesOf(e) : k = m.dec
  BY <1>5, <1>9
<1>11. k \in Decorators
  BY <1>5, <1>9, ElementsOf
<1>12. PICK o : o = Found(defined, e, k)
  OBVIOUS
<1>13. o # None
  BY <1>2, <1>10, <1>12 DEF Covers
<1>14. PICK x \in ToSet(Prototypes[e]) : defined[x][k] = o /\ x \in Classes
  BY <1>3, <1>11, <1>12, <1>13, FoundIs
<1>15. o \in ToSet(Prototypes[x])
  BY <1>3, <1>11, <1>13, <1>14 DEF OwnersAbove
<1>16. o \in Classes \ {c}
  BY <1>4, <1>14, <1>15, ChainWithin
<1>17. o \in ToSet(Prototypes[c]) /\ Len(recorded[o][k]) > 1 /\ k \in {n.dec : n \in ToSet(d.methods)}
  BY <1>1, <1>9, <1>11, <1>12, <1>16
<1>18. QED
  BY <1>1, <1>11, <1>12, <1>13, <1>17

\* Whatever decorators a class below a base repeats, in whatever order classes are
\* declared: what is found for the base changes only by an array that is its own.
THEOREM BasesAreKept == InterceptSpec => BasesKeepTheirMetadata
<1>1. ASSUME MetadataInv, [InterceptNext]_interceptVars, NEW c \in Classes, NEW e \in Declared,
             declaration[c] = None, declaration'[c] # None, MethodMetadata(e)' # MethodMetadata(e)
      PROVE  \E k \in Decorators :
                LET owner == Found(defined, e, k)
                IN /\ owner # None /\ Len(recorded[owner][k]) > 1
                   /\ owner \in ToSet(Prototypes[c])
                   /\ k \in {m.dec : m \in ToSet(declaration'[c].methods)}
  <2>1. declaration' # declaration
    BY <1>1
  <2>2. PICK b \in Classes : \E d \in Declarations[b] : Declare(b, d)
    BY <1>1, <2>1 DEF InterceptNext, CreateIntercepted, Create, Call, CallNext, interceptVars, metadataVars
  <2>3. PICK d \in Declarations[b] : Declare(b, d)
    BY <2>2
  <2>4. b = c
    BY <1>1, <2>3 DEF Declare, MetadataInv, MetadataTypeOK
  <2>5. e \in Classes /\ declaration[e] # None
    BY DEF Declared
  <2>6. QED
    BY <1>1, <2>3, <2>4, <2>5, DeclareKeepsMetadata
<1>2. MetadataInv /\ [InterceptNext]_interceptVars
        => [\A c \in Classes, e \in Declared :
              (declaration[c] = None /\ declaration'[c] # None /\ MethodMetadata(e)' # MethodMetadata(e))
              => \E d \in Decorators :
                    LET owner == Found(defined, e, d) IN
                    /\ owner # None /\ Len(recorded[owner][d]) > 1
                    /\ owner \in ToSet(Prototypes[c])
                    /\ d \in {m.dec : m \in ToSet(declaration'[c].methods)}]_metadataVars
  BY <1>1
<1>3. QED
  BY <1>2, MetadataInvariant, PTL DEF InterceptSpec, BasesKeepTheirMetadata

-----------------------------------------------------------------------------
(* The interceptors of a call                                              *)

States == {"todo", "running", "waiting", "done", "failed"}

\* Nobody waits for the promise of an interceptor that does not show it, in a call that
\* is not asynchronous.
Unawaited(e, i) == ~e.async /\ Written[intercepts[e.of].steps[i].dec] = "hidden"
Ran(e, i) == e.state[i] = "done" \/ Unawaited(e, i)
Places(e) == 1 .. Len(intercepts[e.of].steps)

\* They run one after the other, each to its end or until its promise is left alone.
StepsInv(e) ==
    /\ e.of \in Providers /\ intercepts[e.of] # None
    /\ e.state \in [Places(e) -> States]
    /\ e.async = IsAsync(e.of) /\ e.next \in Nat /\ e.next \in 1 .. Len(intercepts[e.of].steps) + 1
    /\ \A i \in Places(e) : e.turn = i => e.state[i] = "running"
    /\ \/ /\ e.at = "steps" /\ e.answer = "none"
          /\ e.turn \in {0, Loop, e.next - 1} /\ (e.turn = Loop => e.async)
          /\ \A i \in Places(e) : i >= e.next => e.state[i] = "todo"
          /\ \A i \in Places(e) : i < e.next => Ran(e, i) \/ (i = e.next - 1 /\ e.turn # 0)
       \/ e.at = "last" /\ e.answer = "none" /\ e.async /\ \A i \in Places(e) : Ran(e, i)
       \/ e.at = "ended" /\ (e.answer = "failed" \/ \A i \in Places(e) : Ran(e, i))

\* f is e with interceptor i in another state, and another's turn.
Moves(e, f, i, v, t) ==
    /\ f.of = e.of /\ f.async = e.async /\ f.next = e.next /\ f.at = e.at /\ f.answer = e.answer
    /\ f.turn = t /\ f.state \in [Places(e) -> States] /\ f.state[i] = v
    /\ \A j \in Places(e) \ {i} : f.state[j] = e.state[j]

\* What awaiting, returning, failing and resuming do.
LEMMA MovesIs ==
  ASSUME NEW e, StepsInv(e), DOMAIN e = Fields, NEW i \in DOMAIN e.state, NEW v \in States, NEW t
  PROVE  Moves(e, [e EXCEPT !.state[i] = v, !.turn = t], i, v, t)
<1>1. e.state \in [Places(e) -> States]
  BY DEF StepsInv
<1>2. PICK f : f = [e EXCEPT !.state[i] = v, !.turn = t]
  OBVIOUS
<1>3. /\ f.of = e.of /\ f.async = e.async /\ f.next = e.next /\ f.at = e.at /\ f.answer = e.answer
      /\ f.turn = t /\ f.state = [e.state EXCEPT ![i] = v]
  BY ONLY <1>2, DOMAIN e = Fields DEF Fields
<1>4. QED
  BY <1>1, <1>2, <1>3 DEF Moves

\* They keep the order: the interceptor is the last that was started, or nobody waits for it.
LEMMA MovesKeep ==
  ASSUME NEW e, NEW f, NEW i, NEW v, NEW t, StepsInv(e), i \in Places(e), Moves(e, f, i, v, t),
         t \in {0, Loop, i}, t = i => v = "running",
         e.at = "steps" => i = e.next - 1 /\ (t = Loop => e.async),
         e.answer = "failed" \/ v = "done" \/ Unawaited(e, i) \/ (e.at = "steps" /\ t # 0)
  PROVE  StepsInv(f)
<1>2. /\ f.of = e.of /\ f.async = e.async /\ f.next = e.next /\ f.at = e.at /\ f.answer = e.answer
      /\ f.turn = t /\ f.state \in [Places(e) -> States] /\ f.state[i] = v
      /\ \A j \in Places(e) \ {i} : f.state[j] = e.state[j]
  BY DEF Moves
<1>3. Places(f) = Places(e) /\ (\A j \in Places(e) : Unawaited(f, j) <=> Unawaited(e, j)) /\ Places(e) \subseteq Int
  BY <1>2 DEF Places, Unawaited
<1>4. /\ e.of \in Providers /\ intercepts[e.of] # None
      /\ e.async = IsAsync(e.of) /\ e.next \in Nat /\ e.next \in 1 .. Len(intercepts[e.of].steps) + 1
  BY DEF StepsInv
<1>5. \A j \in Places(f) : f.turn = j => f.state[j] = "running"
  BY <1>2, <1>3 DEF Loop, Places
<1>6. \A j \in Places(e) \ {i} : Ran(e, j) => Ran(f, j)
  BY <1>2, <1>3 DEF Ran
<1>7. e.answer = "failed" \/ Ran(f, i) \/ (e.at = "steps" /\ t # 0)
  BY <1>2, <1>3 DEF Ran
<1>8. CASE e.at = "steps"
  <2>1. /\ e.answer = "none"
        /\ \A j \in Places(e) : j >= e.next => e.state[j] = "todo"
        /\ \A j \in Places(e) : j < e.next => Ran(e, j) \/ (j = e.next - 1 /\ e.turn # 0)
        /\ i = e.next - 1
    BY <1>8 DEF StepsInv
  <2>2. \A j \in Places(e) : j >= e.next => f.state[j] = "todo"
    BY <1>2, <1>3, <1>4, <2>1
  <2>3. \A j \in Places(e) : j < e.next => Ran(f, j) \/ (j = e.next - 1 /\ t # 0)
    BY <1>3, <1>4, <1>6, <1>7, <2>1
  <2>4. f.turn \in {0, Loop, f.next - 1} /\ (f.turn = Loop => f.async)
    BY <1>2, <1>8, <2>1
  <2>5. QED
    BY <1>2, <1>3, <1>4, <1>5, <1>8, <2>1, <2>2, <2>3, <2>4 DEF StepsInv
<1>9. CASE e.at = "last"
  <2>1. e.answer = "none" /\ e.async /\ \A j \in Places(e) : Ran(e, j)
    BY <1>9 DEF StepsInv
  <2>2. \A j \in Places(e) : Ran(f, j)
    BY <1>6, <1>7, <1>9, <2>1
  <2>3. QED
    BY <1>2, <1>3, <1>4, <1>5, <1>9, <2>1, <2>2 DEF StepsInv
<1>10. CASE e.at = "ended"
  BY <1>2, <1>3, <1>4, <1>5, <1>6, <1>7, <1>10 DEF StepsInv
<1>11. QED
  BY <1>8, <1>9, <1>10 DEF StepsInv

\* An interceptor whose turn it is: the last that the executor has started, or one that
\* nobody waits for.
LEMMA ActingIs ==
  ASSUME NEW e, StepsInv(e), NEW i \in Places(e), e.turn = i
  PROVE  /\ e.state[i] = "running"
         /\ e.at = "steps" => i = e.next - 1
         /\ e.at # "steps" => e.answer = "failed" \/ Unawaited(e, i)
<1>1. e.state[i] = "running"
  BY DEF StepsInv
<1>2. i # 0 /\ i # Loop
  BY DEF Places, Loop
<1>3. QED
  BY <1>1, <1>2 DEF StepsInv, Ran

\* What else of a call changes does not matter.
LEMMA SameSteps ==
  ASSUME NEW e, NEW f, StepsInv(e), f.of = e.of, f.async = e.async, f.next = e.next, f.at = e.at,
         f.answer = e.answer, f.turn = e.turn, f.state = e.state
  PROVE  StepsInv(f)
BY DEF StepsInv, Places, Ran, Unawaited

\* Running the method is no step of an interceptor.
LEMMA InvokeIs ==
  ASSUME NEW e, DOMAIN e = Fields, NEW o
  PROVE  LET f == Invoke(e, o)
         IN /\ DOMAIN f = Fields /\ f.of = e.of /\ f.async = e.async /\ f.next = e.next /\ f.at = e.at
            /\ f.answer = e.answer /\ f.turn = e.turn /\ f.state = e.state
<1>1. CASE e.result # "undefined"
  BY <1>1 DEF Invoke
<1>2. CASE e.result = "undefined"
  <2>1. PICK f : f = [e EXCEPT !.result = IF o \in {"value", "promise"} THEN o ELSE @,
                               !.promise = IF o = "promise" THEN "pending" ELSE @,
                               !.log = Append(@, o)]
    OBVIOUS
  <2>2. /\ DOMAIN f = Fields /\ f.of = e.of /\ f.async = e.async /\ f.next = e.next /\ f.at = e.at
        /\ f.answer = e.answer /\ f.turn = e.turn /\ f.state = e.state
    BY ONLY DOMAIN e = Fields, <2>1 DEF Fields
  <2>3. QED
    BY <1>2, <2>1, <2>2 DEF Invoke
<1>3. QED
  BY <1>1, <1>2

\* Once the steps are through, every interceptor has run.
LEMMA AnsweredSteps ==
  ASSUME NEW e, DOMAIN e = Fields, StepsInv(e), NEW a,
         a = "failed" \/ \A i \in Places(e) : Ran(e, i)
  PROVE  StepsInv(Answered(e, a))
<1>1. PICK f : f = Answered(e, a)
  OBVIOUS
<1>2. /\ f.of = e.of /\ f.async = e.async /\ f.next = e.next /\ f.state = e.state
      /\ f.at = "ended" /\ f.answer = a /\ f.turn = Loop
  <2>1. f = [e EXCEPT !.at = "ended", !.turn = Loop, !.answer = a, !.after = Len(e.log)]
    BY <1>1 DEF Answered
  <2>2. QED
    BY ONLY DOMAIN e = Fields, <2>1 DEF Fields
<1>3. Places(f) = Places(e) /\ (\A i \in Places(e) : Ran(f, i) <=> Ran(e, i))
  BY <1>2 DEF Places, Ran, Unawaited
<1>4. \A i \in Places(e) : Loop # i
  BY DEF Places, Loop
<1>5. QED
  BY <1>1, <1>2, <1>3, <1>4 DEF StepsInv

\* An asynchronous executor waits for the result then.
LEMMA LastIs ==
  ASSUME NEW e, DOMAIN e = Fields, StepsInv(e), e.async, e.at = "steps", \A i \in Places(e) : Ran(e, i)
  PROVE  StepsInv([e EXCEPT !.at = "last", !.turn = Loop])
<1>1. PICK f : f = [e EXCEPT !.at = "last", !.turn = Loop]
  OBVIOUS
<1>2. /\ f.of = e.of /\ f.async = e.async /\ f.next = e.next /\ f.state = e.state
      /\ f.at = "last" /\ f.answer = e.answer /\ f.turn = Loop
  BY ONLY DOMAIN e = Fields, <1>1 DEF Fields
<1>3. Places(f) = Places(e) /\ (\A i \in Places(e) : Ran(f, i) <=> Ran(e, i))
  BY <1>2 DEF Places, Ran, Unawaited
<1>4. \A i \in Places(e) : Loop # i
  BY DEF Places, Loop
<1>5. QED
  BY <1>1, <1>2, <1>3, <1>4 DEF StepsInv

\* The executor starts the next interceptor when the one before has run.
LEMMA NextIs ==
  ASSUME NEW e, DOMAIN e = Fields, StepsInv(e), e.at = "steps", e.turn = 0, e.next \in Places(e)
  PROVE  StepsInv([e EXCEPT !.state[e.next] = "running", !.turn = e.next, !.next = @ + 1])
<1>1. PICK f : f = [e EXCEPT !.state[e.next] = "running", !.turn = e.next, !.next = @ + 1]
  OBVIOUS
<1>2. /\ f.of = e.of /\ f.async = e.async /\ f.next = e.next + 1 /\ f.state = [e.state EXCEPT ![e.next] = "running"]
      /\ f.at = e.at /\ f.answer = e.answer /\ f.turn = e.next
  BY ONLY DOMAIN e = Fields, <1>1 DEF Fields
<1>3. PICK n \in Nat : n = e.next /\ n \in Places(e)
  BY DEF StepsInv
<1>4. /\ Places(f) = Places(e) /\ (\A i \in Places(e) : Unawaited(f, i) <=> Unawaited(e, i)) /\ Places(e) \subseteq Int
      /\ Places(e) = 1 .. Len(intercepts[e.of].steps)
  BY <1>2 DEF Places, Unawaited
<1>5. /\ e.of \in Providers /\ intercepts[e.of] # None /\ e.state \in [Places(e) -> States]
      /\ e.async = IsAsync(e.of) /\ e.answer = "none"
      /\ \A i \in Places(e) : i >= n => e.state[i] = "todo"
      /\ \A i \in Places(e) : i < n => Ran(e, i)
  BY <1>3 DEF StepsInv
<1>6. /\ f.state \in [Places(e) -> States] /\ f.state[n] = "running"
      /\ \A i \in Places(e) \ {n} : f.state[i] = e.state[i]
  BY <1>2, <1>3, <1>5 DEF States
<1>7. \A i \in Places(e) : i < n => Ran(f, i)
  BY <1>3, <1>4, <1>5, <1>6 DEF Ran
<1>8. \A i \in Places(e) : i >= n + 1 => f.state[i] = "todo"
  BY <1>3, <1>4, <1>5, <1>6
<1>9. \A i \in Places(e) : i < n + 1 => Ran(f, i) \/ (i = n /\ n # 0)
  BY <1>3, <1>4, <1>7
<1>10. n # Loop /\ n = n + 1 - 1 /\ n + 1 \in Nat /\ n + 1 \in 1 .. Len(intercepts[e.of].steps) + 1 /\ n # 0
  <2>1. Len(intercepts[e.of].steps) \in Int
    BY <1>3, <1>4
  <2>2. QED
    BY <1>3, <1>4, <2>1 DEF Loop
<1>11. f.next = n + 1 /\ f.turn = n
  BY <1>2, <1>3
<1>12. StepsInv(f)
  BY <1>2, <1>4, <1>5, <1>6, <1>8, <1>9, <1>10, <1>11 DEF StepsInv
<1>13. QED
  BY <1>1, <1>12

\* What was put in front of the method of an instance: all that its class and the bases of it
\* apply, unless the token stood for another class, and a mark of theirs.
ExecutorInv(p) ==
    intercepts[p] # None =>
        /\ given[p] # None /\ declaration[p[2]] # None /\ cachedMetadata[p[1]] # None
        /\ intercepts[p].steps \in Seq(MethodEntries)
        /\ \A m \in ToSet(intercepts[p].steps) : m.dec \in Interceptors
        /\ cachedMetadata[p[1]].class = p[2] => Applied(p[2]) \subseteq ToSet(intercepts[p].steps)
        /\ (\E m \in EntriesOf(p[2]) : m.dec = AsyncMark) => intercepts[p].async

\* The inductive invariant of InterceptorsHaveRun.
RunInv ==
    /\ intercepts = [p \in Providers |-> intercepts[p]]
    /\ \A p \in Providers : ExecutorInv(p)
    /\ call # NoCall => StepsInv(call)

\* What is applied is among what is recorded.
LEMMA AppliedIs == \A c : Applied(c) = {m \in EntriesOf(c) : m.dec \in Interceptors}
BY DEF Applied, EntriesOf

\* The steps of a call.
LEMMA StepsNext ==
  ASSUME CallInv, RunInv, StepsInv(call), CallNext
  PROVE  StepsInv(call)'
<1>1. DOMAIN call = Fields /\ UNCHANGED intercepts /\ DOMAIN call.state = Places(call)
  BY DEF CallInv, CallNext, NoCall, Kept, StepsInv
<1>2. SUFFICES StepsInv(call')
  BY <1>1 DEF StepsInv, Places, Ran, Unawaited, IsAsync
<1>3. Len(call.state) = Len(intercepts[call.of].steps) /\ Len(call.state) \in Nat
  <2>1. PICK n : n = Len(intercepts[call.of].steps)
    OBVIOUS
  <2>2. n + 1 \in Int /\ n \in Nat
    BY <2>1 DEF StepsInv
  <2>3. call.state \in [1 .. n -> States]
    BY <2>1 DEF StepsInv, Places
  <2>4. call.state \in Seq(States) /\ Len(call.state) = n
    BY <2>2, <2>3
  <2>5. QED
    BY <2>1, <2>2, <2>4
<1>4. CASE NextStep
  <2>1. call.at = "steps" /\ call.turn = 0 /\ call.next \in Places(call)
    BY <1>3, <1>4 DEF NextStep, StepsInv, Places
  <2>2. QED
    BY <1>1, <1>4, <2>1, NextIs DEF NextStep
<1>5. CASE LastInvoke
  <2>1. PICK o \in Outcomes :
           LET e == Invoke(call, o) IN
           call' = IF e.log # call.log /\ o = "throws" THEN Answered(e, "failed")
                   ELSE IF ~call.async THEN Answered(e, e.result)
                   ELSE [e EXCEPT !.at = "last", !.turn = Loop]
    BY <1>5 DEF LastInvoke
  <2>2. PICK e : e = Invoke(call, o)
    OBVIOUS
  <2>3. /\ DOMAIN e = Fields /\ e.of = call.of /\ e.async = call.async /\ e.next = call.next /\ e.at = call.at
        /\ e.answer = call.answer /\ e.turn = call.turn /\ e.state = call.state
    BY <1>1, <2>2, InvokeIs
  <2>4. StepsInv(e)
    BY <2>3, SameSteps
  <2>5. \A i \in Places(e) : Ran(e, i)
    <3>1. e.turn = 0 /\ e.at = "steps" /\ e.next > Len(intercepts[e.of].steps)
      BY <1>3, <1>5, <2>3 DEF LastInvoke
    <3>2. \A i \in Places(e) : i < e.next
      BY <1>3, <2>3, <2>4, <3>1 DEF Places, StepsInv
    <3>3. QED
      BY <2>4, <3>1, <3>2 DEF StepsInv
  <2>6. CASE call' = Answered(e, "failed") \/ call' = Answered(e, e.result)
    BY <2>3, <2>4, <2>5, <2>6, AnsweredSteps
  <2>7. CASE call.async /\ call' = [e EXCEPT !.at = "last", !.turn = Loop]
    <3>1. e.at = "steps"
      BY <1>5, <2>3 DEF LastInvoke
    <3>2. QED
      BY <2>3, <2>4, <2>5, <2>7, <3>1, LastIs
  <2>8. QED
    BY <2>1, <2>2, <2>6, <2>7
<1>6. CASE ResultSettles
  <2>1. \A i \in Places(call) : Ran(call, i)
    BY <1>6 DEF ResultSettles, StepsInv
  <2>2. QED
    BY <1>1, <1>6, <2>1, AnsweredSteps DEF ResultSettles
<1>7. CASE PromiseSettles
  <2>1. PICK o : call' = [call EXCEPT !.promise = o]
    BY <1>7 DEF PromiseSettles
  <2>2. /\ call'.of = call.of /\ call'.async = call.async /\ call'.next = call.next /\ call'.at = call.at
        /\ call'.answer = call.answer /\ call'.turn = call.turn /\ call'.state = call.state
    BY ONLY <1>1, <2>1 DEF Fields
  <2>3. QED
    BY <2>2, SameSteps
<1>8. ASSUME NEW i \in DOMAIN call.state, InterceptorInvokes(i)
      PROVE  StepsInv(call')
  <2>1. PICK o : call' = Invoke(call, o)
    BY <1>8 DEF InterceptorInvokes
  <2>2. /\ call'.of = call.of /\ call'.async = call.async /\ call'.next = call.next /\ call'.at = call.at
        /\ call'.answer = call.answer /\ call'.turn = call.turn /\ call'.state = call.state
    BY <1>1, <2>1, InvokeIs
  <2>3. QED
    BY <2>2, SameSteps
<1>9. ASSUME NEW i \in DOMAIN call.state, Transform(i)
      PROVE  StepsInv(call')
  <2>1. call' = [call EXCEPT !.result = "data", !.log = Append(@, "data")]
    BY <1>9 DEF Transform
  <2>2. /\ call'.of = call.of /\ call'.async = call.async /\ call'.next = call.next /\ call'.at = call.at
        /\ call'.answer = call.answer /\ call'.turn = call.turn /\ call'.state = call.state
    BY ONLY <1>1, <2>1 DEF Fields
  <2>3. QED
    BY <2>2, SameSteps
<1>10. ASSUME NEW i \in DOMAIN call.state, call.turn = i
       PROVE  /\ i \in Places(call) /\ i # Loop /\ i # 0
              /\ call.at = "steps" => i = call.next - 1 /\ call.answer = "none"
              /\ call.at # "steps" => call.answer = "failed" \/ Unawaited(call, i)
  <2>1. i \in Places(call)
    BY <1>1
  <2>2. call.at = "steps" => call.answer = "none"
    BY DEF StepsInv
  <2>3. QED
    BY <1>10, <2>1, <2>2, ActingIs DEF Places, Loop
<1>11. ASSUME NEW i \in Places(call), ~call.async, Written[intercepts[call.of].steps[i].dec] # "plain"
       PROVE  Unawaited(call, i)
  <2>1. PICK p \in Providers : p = call.of
    BY DEF StepsInv
  <2>2. intercepts[p] # None /\ ~IsAsync(p)
    BY <1>11, <2>1 DEF StepsInv
  <2>3. /\ intercepts[p].steps \in Seq(MethodEntries)
        /\ \A m \in ToSet(intercepts[p].steps) : m.dec \in Interceptors
    BY <2>2 DEF RunInv, ExecutorInv
  <2>4. i \in DOMAIN intercepts[p].steps
    BY <2>1, <2>3, ElementsOf DEF Places
  <2>5. PICK m \in ToSet(intercepts[p].steps) : m = intercepts[p].steps[i]
    BY <2>3, <2>4, ElementsOf
  <2>6. m.dec \in Interceptors /\ Written[m.dec] # "async" /\ Written[m.dec] # "plain"
    BY <1>11, <2>1, <2>2, <2>3, <2>5 DEF IsAsync
  <2>7. Written[m.dec] = "hidden"
    BY <2>6, InterceptorAssumption
  <2>8. QED
    BY <1>11, <2>1, <2>5, <2>7 DEF Unawaited
<1>12. ASSUME NEW i \in DOMAIN call.state, InterceptorAwaits(i)
       PROVE  StepsInv(call')
  <2>1. PICK t : /\ t = IF call.async \/ call.at = "ended" THEN Loop ELSE 0
                 /\ call' = [call EXCEPT !.state[i] = "waiting", !.turn = t]
    BY <1>12 DEF InterceptorAwaits
  <2>2. Moves(call, call', i, "waiting", t)
    BY <1>1, <2>1, MovesIs DEF States
  <2>3. /\ i \in Places(call) /\ i # Loop /\ i # 0
        /\ call.at = "steps" => i = call.next - 1 /\ call.answer = "none"
        /\ call.at # "steps" => call.answer = "failed" \/ Unawaited(call, i)
    BY <1>10, <1>12 DEF InterceptorAwaits
  <2>4. ~call.async => Unawaited(call, i)
    BY <1>11, <1>12, <2>3 DEF InterceptorAwaits
  <2>5. t \in {0, Loop} /\ (call.at = "steps" => (t = Loop => call.async) /\ (call.async => t # 0))
    BY <2>1 DEF Loop
  <2>6. QED
    BY <2>2, <2>3, <2>4, <2>5, MovesKeep
<1>13. ASSUME NEW i \in DOMAIN call.state, InterceptorReturns(i)
       PROVE  StepsInv(call')
  <2>1. PICK t : /\ t = IF call.at = "steps" THEN 0 ELSE Loop
                 /\ call' = [call EXCEPT !.state[i] = "done", !.turn = t]
    BY <1>13 DEF InterceptorReturns
  <2>2. Moves(call, call', i, "done", t)
    BY <1>1, <2>1, MovesIs DEF States
  <2>3. /\ i \in Places(call) /\ i # Loop /\ i # 0
        /\ call.at = "steps" => i = call.next - 1
    BY <1>10, <1>13 DEF InterceptorReturns
  <2>4. t \in {0, Loop} /\ (call.at = "steps" => t # Loop)
    BY <2>1 DEF Loop
  <2>5. QED
    BY <2>2, <2>3, <2>4, MovesKeep
<1>14. ASSUME NEW i \in DOMAIN call.state, InterceptorFails(i)
       PROVE  StepsInv(call')
  <2>1. PICK e : e = [call EXCEPT !.state[i] = "failed"]
    OBVIOUS
  <2>2. CASE call' = Answered(e, "failed")
    <3>1. /\ call'.of = call.of /\ call'.async = call.async /\ call'.next = call.next /\ call'.at = "ended"
          /\ call'.answer = "failed" /\ call'.turn = Loop /\ call'.state = [call.state EXCEPT ![i] = "failed"]
      <4>1. call' = [e EXCEPT !.at = "ended", !.turn = Loop, !.answer = "failed", !.after = Len(e.log)]
        BY <2>2 DEF Answered
      <4>2. QED
        BY ONLY <1>1, <2>1, <4>1 DEF Fields
    <3>2. call'.state \in [Places(call) -> States]
      BY <3>1 DEF StepsInv, States
    <3>3. Places(call') = Places(call) /\ \A j \in Places(call) : Loop # j
      BY <3>1 DEF Places, Loop
    <3>4. QED
      BY <3>1, <3>2, <3>3 DEF StepsInv
  <2>3. CASE call' # Answered(e, "failed")
    <3>1. PICK t : /\ t = IF call.at = "steps" THEN 0 ELSE Loop
                   /\ call' = [e EXCEPT !.turn = t]
      BY <1>14, <2>1, <2>3 DEF InterceptorFails
    <3>2. call' = [call EXCEPT !.state[i] = "failed", !.turn = t]
      BY ONLY <1>1, <2>1, <3>1 DEF Fields
    <3>3. Moves(call, call', i, "failed", t)
      BY <1>1, <3>2, MovesIs DEF States
    <3>4. /\ i \in Places(call) /\ i # Loop /\ i # 0
          /\ call.at = "steps" => i = call.next - 1
          /\ call.at # "steps" => call.answer = "failed" \/ Unawaited(call, i)
      BY <1>10, <1>14 DEF InterceptorFails
    <3>5. call.at = "steps" => Unawaited(call, i)
      BY <1>11, <1>14, <2>1, <2>3, <3>4 DEF InterceptorFails
    <3>6. t \in {0, Loop} /\ (call.at = "steps" => t # Loop)
      BY <3>1 DEF Loop
    <3>7. QED
      BY <3>3, <3>4, <3>5, <3>6, MovesKeep
  <2>4. QED
    BY <2>2, <2>3
<1>15. ASSUME NEW i \in DOMAIN call.state, InterceptorResumes(i)
       PROVE  StepsInv(call')
  <2>1. /\ call' = [call EXCEPT !.state[i] = "running", !.turn = i]
        /\ call.turn = Loop /\ call.state[i] = "waiting" /\ i \in Places(call)
    BY <1>1, <1>15 DEF InterceptorResumes
  <2>2. Moves(call, call', i, "running", i)
    BY <1>1, <2>1, MovesIs DEF States
  <2>3. i # 0 /\ i # Loop /\ i \in Int
    BY <2>1 DEF Places, Loop
  <2>4. call.at = "steps" => i = call.next - 1
    <3> SUFFICES ASSUME call.at = "steps" PROVE i = call.next - 1
      OBVIOUS
    <3>1. /\ call.async
          /\ i >= call.next => call.state[i] = "todo"
          /\ i < call.next => Ran(call, i) \/ i = call.next - 1
      BY <2>1, <2>3 DEF StepsInv, Loop
    <3>2. ~Ran(call, i)
      BY <2>1, <3>1 DEF Ran, Unawaited
    <3>3. call.next \in Int
      BY DEF StepsInv
    <3>4. QED
      BY <2>1, <2>3, <3>1, <3>2, <3>3
  <2>5. call.answer = "failed" \/ Unawaited(call, i) \/ call.at = "steps"
    BY <2>1 DEF StepsInv, Ran
  <2>6. QED
    BY <2>1, <2>2, <2>3, <2>4, <2>5, MovesKeep
<1>16. QED
  BY <1>4, <1>5, <1>6, <1>7, <1>8, <1>9, <1>12, <1>13, <1>14, <1>15 DEF CallNext

\* A call begins.
LEMMA StepsCalled ==
  ASSUME RunInv, NEW p \in Providers, NEW r, Call(p, r)
  PROVE  StepsInv(call)'
<1>1. /\ intercepts[p] # None /\ UNCHANGED intercepts
      /\ call' = [at |-> "steps", of |-> p, returns |-> r, async |-> IsAsync(p), turn |-> 0, next |-> 1,
                  state |-> [i \in DOMAIN intercepts[p].steps |-> "todo"],
                  result |-> "undefined", promise |-> "none", log |-> <<>>, answer |-> "none", after |-> 0]
  BY DEF Call
<1>2. SUFFICES StepsInv(call')
  BY <1>1 DEF StepsInv, Places, Ran, Unawaited, IsAsync
<1>3. intercepts[p].steps \in Seq(MethodEntries)
  BY <1>1 DEF RunInv, ExecutorInv
<1>4. Len(intercepts[p].steps) \in Nat /\ DOMAIN intercepts[p].steps = 1 .. Len(intercepts[p].steps)
  BY <1>3, ElementsOf
<1>5. /\ call'.of = p /\ call'.async = IsAsync(p) /\ call'.turn = 0 /\ call'.next = 1 /\ call'.at = "steps"
      /\ call'.answer = "none" /\ call'.state = [i \in 1 .. Len(intercepts[p].steps) |-> "todo"]
  BY <1>1, <1>4
<1>6. Places(call') = 1 .. Len(intercepts[p].steps)
  BY <1>5 DEF Places
<1>7. call'.state \in [Places(call') -> States]
  BY <1>5, <1>6 DEF States
<1>8. \A i \in Places(call') : i \in Int /\ i >= 1 /\ call'.state[i] = "todo"
  BY <1>4, <1>5, <1>6
<1>9. call'.of \in Providers /\ intercepts[call'.of] # None /\ call'.async = IsAsync(call'.of)
  BY <1>1, <1>5
<1>10. call'.next \in Nat /\ call'.next \in 1 .. Len(intercepts[call'.of].steps) + 1
  BY <1>4, <1>5
<1>11. \A i \in Places(call') : ~(call'.turn = i) /\ ~(i < call'.next)
  BY <1>5, <1>8
<1>12. call'.turn \in {0, Loop, call'.next - 1} /\ call'.turn # Loop
  BY <1>5 DEF Loop
<1>13. QED
  BY <1>5, <1>7, <1>8, <1>9, <1>10, <1>11, <1>12 DEF StepsInv

\* The executor of an instance is what its class and its bases had applied.
LEMMA ExecutorDeclare ==
  ASSUME MetadataInv, RunInv, NEW c \in Classes, NEW d \in Declarations[c], Declare(c, d),
         UNCHANGED <<intercepts, call>>
  PROVE  RunInv'
<1>1. ASSUME NEW p \in Providers
      PROVE  ExecutorInv(p)'
  <2>1. SUFFICES ASSUME intercepts[p] # None PROVE ExecutorInv(p)'
    BY DEF ExecutorInv
  <2>2. PICK x \in Classes : x = p[2]
    BY DEF Providers
  <2>3. /\ given[p] # None /\ declaration[x] # None /\ cachedMetadata[p[1]] # None
        /\ intercepts[p].steps \in Seq(MethodEntries)
        /\ \A m \in ToSet(intercepts[p].steps) : m.dec \in Interceptors
        /\ cachedMetadata[p[1]].class = x => Applied(x) \subseteq ToSet(intercepts[p].steps)
        /\ (\E m \in EntriesOf(x) : m.dec = AsyncMark) => intercepts[p].async
    BY <2>1, <2>2 DEF RunInv, ExecutorInv
  <2>4. /\ x # c /\ c \notin ToSet(Prototypes[x])
        /\ \A e \in Classes \ {c} : declaration'[e] = declaration[e]
    BY <2>3, DeclareIs
  <2>5. ToSet(Prototypes[x]) \subseteq Classes \ {c}
    BY <2>4, ChainElements
  <2>6. EntriesOf(x)' = EntriesOf(x)
    BY <2>4, <2>5 DEF EntriesOf
  <2>7. Applied(x)' = Applied(x)
    BY <2>4, <2>5 DEF Applied
  <2>8. given' = given /\ cachedMetadata' = cachedMetadata
    BY DEF Declare
  <2>9. QED
    BY <2>2, <2>3, <2>4, <2>6, <2>7, <2>8 DEF ExecutorInv
<1>2. (StepsInv(call))' <=> StepsInv(call)
  BY DEF StepsInv, Places, Ran, Unawaited, IsAsync
<1>3. QED
  BY <1>1, <1>2 DEF RunInv

\* A new instance gets its executor from the metadata of its token.
LEMMA ExecutorCreate ==
  ASSUME MetadataInv, RunInv, NEW t \in Tokens, NEW c \in Classes, CreateIntercepted(t, c)
  PROVE  RunInv'
<1>1. PICK q \in Providers : q = <<t, c>> /\ q[1] = t /\ q[2] = c
  <2>1. <<t, c>> \in Providers
    BY DEF Providers
  <2>2. <<t, c>>[1] = t /\ <<t, c>>[2] = c
    OBVIOUS
  <2>3. QED
    BY <2>1, <2>2
<1>2. /\ Create(t, c) /\ call' = call
      /\ intercepts' = [intercepts EXCEPT ![q] =
            [steps |-> InterceptorsOf(cachedMetadata'[t].methods), async |-> Marked(c)]]
  BY <1>1 DEF CreateIntercepted
<1>3. MetadataInv' /\ cachedMetadata'[t] # None /\ given'[q] # None
  BY <1>1, <1>2, MetadataInvCreate
<1>4. /\ declaration[c] # None /\ given[q] = None /\ declaration' = declaration
      /\ cachedMetadata' = [cachedMetadata EXCEPT ![t] = Cached(t, c)]
      /\ \E v : given' = [given EXCEPT ![q] = v]
  BY <1>1, <1>2 DEF Create
<1>5. /\ cachedMetadata \in [Tokens -> CachedMetadata \cup {None}]
      /\ given \in [Providers -> Seq(Injected) \cup {None}]
      /\ cachedMetadata' \in [Tokens -> CachedMetadata \cup {None}]
  BY <1>3 DEF MetadataInv, MetadataTypeOK
<1>6. /\ \A p \in Providers : p # q => intercepts'[p] = intercepts[p] /\ given'[p] = given[p]
      /\ intercepts'[q] = [steps |-> InterceptorsOf(cachedMetadata'[t].methods), async |-> Marked(c)]
      /\ intercepts' = [p \in Providers |-> intercepts'[p]]
  <2>1. intercepts = [p \in Providers |-> intercepts[p]]
    BY DEF RunInv
  <2>2. QED
    BY <1>2, <1>4, <1>5, <2>1
<1>7. \A u \in Tokens : cachedMetadata[u] # None => cachedMetadata'[u] = cachedMetadata[u]
  BY <1>4, <1>5 DEF Cached
<1>8. \A x : EntriesOf(x)' = EntriesOf(x) /\ Applied(x)' = Applied(x)
  BY <1>4 DEF EntriesOf, Applied
<1>9. ExecutorInv(q)'
  <2>1. PICK ms \in Seq(MethodEntries) : ms = cachedMetadata'[t].methods
    BY <1>3, <1>5 DEF CachedMetadata
  <2>2. /\ InterceptorsOf(ms) \in Seq(MethodEntries)
        /\ ToSet(InterceptorsOf(ms)) = {m \in ToSet(ms) : m.dec \in Interceptors}
    BY InterceptorsOfAre
  <2>3. intercepts'[q].steps = InterceptorsOf(ms) /\ intercepts'[q].async = Marked(c)
    BY <1>6, <2>1
  <2>4. ASSUME cachedMetadata'[t].class = c
        PROVE  Applied(c) \subseteq ToSet(InterceptorsOf(ms))
    <3>1. CacheInv(t)'
      BY <1>3 DEF MetadataInv
    <3>2. UNION {ToSet(declaration'[e].methods) : e \in ToSet(Prototypes[c])} \subseteq ToSet(ms)
      BY <1>3, <2>1, <2>4, <3>1 DEF CacheInv, EntriesOf
    <3>3. EntriesOf(c) \subseteq ToSet(ms)
      BY <1>4, <3>2 DEF EntriesOf
    <3>4. QED
      BY <2>2, <3>3, AppliedIs
  <2>5. ASSUME NEW m \in EntriesOf(c), m.dec = AsyncMark
        PROVE  Marked(c)
    <3>1. Covers(defined, recorded, c, EntriesOf(c))
      BY <1>4 DEF MetadataInv, ClassInv
    <3>2. QED
      BY <2>5, <3>1 DEF Covers, Marked
  <2>6. QED
    BY <1>1, <1>3, <1>4, <1>8, <2>2, <2>3, <2>4, <2>5 DEF ExecutorInv
<1>10. ASSUME NEW p \in Providers, p # q
       PROVE  ExecutorInv(p)'
  <2>1. SUFFICES ASSUME intercepts[p] # None PROVE ExecutorInv(p)'
    BY <1>6, <1>10 DEF ExecutorInv
  <2>2. PICK x \in Classes, u \in Tokens : x = p[2] /\ u = p[1]
    BY DEF Providers
  <2>3. /\ given[p] # None /\ declaration[x] # None /\ cachedMetadata[u] # None
        /\ intercepts[p].steps \in Seq(MethodEntries)
        /\ \A m \in ToSet(intercepts[p].steps) : m.dec \in Interceptors
        /\ cachedMetadata[u].class = x => Applied(x) \subseteq ToSet(intercepts[p].steps)
        /\ (\E m \in EntriesOf(x) : m.dec = AsyncMark) => intercepts[p].async
    BY <2>1, <2>2 DEF RunInv, ExecutorInv
  <2>4. intercepts'[p] = intercepts[p] /\ given'[p] = given[p] /\ cachedMetadata'[u] = cachedMetadata[u]
    BY <1>6, <1>7, <1>10, <2>3
  <2>5. QED
    BY <1>4, <1>8, <2>2, <2>3, <2>4 DEF ExecutorInv
<1>11. call' # NoCall => StepsInv(call)'
  <2>1. SUFFICES ASSUME call # NoCall PROVE StepsInv(call)'
    BY <1>2
  <2>2. PICK p \in Providers : p = call.of /\ StepsInv(call) /\ intercepts[p] # None
    BY <2>1 DEF RunInv, StepsInv
  <2>3. p # q
    BY <1>4, <2>2 DEF RunInv, ExecutorInv
  <2>4. intercepts'[p] = intercepts[p]
    BY <1>6, <2>3
  <2>5. QED
    BY <1>2, <2>2, <2>4 DEF StepsInv, Places, Ran, Unawaited, IsAsync
<1>12. QED
  BY <1>6, <1>9, <1>10, <1>11 DEF RunInv

\* What does not touch metadata and executors keeps it, if the call does.
LEMMA RunInvKept ==
  ASSUME RunInv, UNCHANGED <<metadataVars, intercepts>>, call' # NoCall => StepsInv(call)'
  PROVE  RunInv'
<1>1. ASSUME NEW p \in Providers
      PROVE  ExecutorInv(p)'
  <2>1. ExecutorInv(p)
    BY DEF RunInv
  <2>2. QED
    BY <2>1 DEF ExecutorInv, Applied, EntriesOf, metadataVars
<1>2. QED
  BY <1>1 DEF RunInv

\* Every step keeps it,
LEMMA RunInvNext == MetadataInv /\ CallInv /\ RunInv /\ [InterceptNext]_interceptVars => RunInv'
<1> SUFFICES ASSUME MetadataInv, CallInv, RunInv, [InterceptNext]_interceptVars PROVE RunInv'
  OBVIOUS
<1>1. ASSUME NEW c \in Classes, NEW d \in Declarations[c], Declare(c, d), UNCHANGED <<intercepts, call>>
      PROVE  RunInv'
  BY <1>1, ExecutorDeclare
<1>2. ASSUME NEW t \in Tokens, NEW c \in Classes, CreateIntercepted(t, c)
      PROVE  RunInv'
  BY <1>2, ExecutorCreate
<1>3. ASSUME NEW p \in Providers, NEW r \in {"value", "promise"}, Call(p, r)
      PROVE  RunInv'
  <2>1. StepsInv(call)' /\ UNCHANGED <<metadataVars, intercepts>>
    BY <1>3, StepsCalled DEF Call
  <2>2. QED
    BY <2>1, RunInvKept
<1>4. CASE CallNext
  <2>1. StepsInv(call) /\ UNCHANGED <<metadataVars, intercepts>>
    BY <1>4 DEF CallNext, RunInv, NoCall
  <2>2. StepsInv(call)'
    BY <1>4, <2>1, StepsNext
  <2>3. QED
    BY <2>1, <2>2, RunInvKept
<1>5. CASE UNCHANGED interceptVars
  <2>1. UNCHANGED <<metadataVars, intercepts>> /\ call' = call
    BY <1>5 DEF interceptVars
  <2>2. call' # NoCall => StepsInv(call)'
    BY <2>1 DEF RunInv, StepsInv, Places, Ran, Unawaited, IsAsync
  <2>3. QED
    BY <2>1, <2>2, RunInvKept
<1>6. QED
  BY <1>1, <1>2, <1>3, <1>4, <1>5 DEF InterceptNext

\* it holds before there are instances,
LEMMA RunInvInit == InterceptInit => RunInv
BY DEF InterceptInit, RunInv, ExecutorInv

\* and says that the interceptors have run.
LEMMA RunInvSound == MetadataInv /\ RunInv => InterceptorsHaveRun
<1> SUFFICES ASSUME MetadataInv, RunInv, call.at = "ended", call.answer # "failed"
             PROVE  InterceptorsHaveRun
  BY DEF InterceptorsHaveRun
<1>1. StepsInv(call)
  BY DEF RunInv, NoCall
<1>2. PICK p \in Providers : p = call.of /\ intercepts[p] # None
  BY <1>1 DEF StepsInv
<1>3. PICK c \in Classes : c = p[2]
  BY DEF Providers
<1>4. /\ intercepts[p].steps \in Seq(MethodEntries)
      /\ cachedMetadata[p[1]].class = c => Applied(c) \subseteq ToSet(intercepts[p].steps)
      /\ (\E m \in EntriesOf(c) : m.dec = AsyncMark) => intercepts[p].async
  BY <1>2, <1>3 DEF RunInv, ExecutorInv
<1>5. DOMAIN intercepts[p].steps = Places(call) /\ \A i \in Places(call) : intercepts[p].steps[i] \in ToSet(intercepts[p].steps)
  BY <1>2, <1>4, ElementsOf DEF Places
<1>6. \A i \in Places(call) : Ran(call, i)
  BY <1>1 DEF StepsInv
<1>7. ASSUME \/ \E e \in ToSet(Prototypes[c]) : AsyncMark \in {m.dec : m \in ToSet(declaration[e].methods)}
             \/ \E i \in DOMAIN intercepts[p].steps : Written[intercepts[p].steps[i].dec] = "async"
      PROVE  call.async
  <2>1. call.async = IsAsync(p)
    BY <1>1, <1>2 DEF StepsInv
  <2>2. CASE \E e \in ToSet(Prototypes[c]) : AsyncMark \in {m.dec : m \in ToSet(declaration[e].methods)}
    <3>1. \E m \in EntriesOf(c) : m.dec = AsyncMark
      BY <2>2 DEF EntriesOf
    <3>2. QED
      BY <1>4, <2>1, <3>1 DEF IsAsync
  <2>3. CASE \E i \in DOMAIN intercepts[p].steps : Written[intercepts[p].steps[i].dec] = "async"
    BY <1>5, <2>1, <2>3 DEF IsAsync
  <2>4. QED
    BY <1>7, <2>2, <2>3
<1>8. \A i \in DOMAIN intercepts[p].steps :
         call.state[i] = "done" \/ (~call.async /\ Written[intercepts[p].steps[i].dec] = "hidden")
  BY <1>2, <1>5, <1>6 DEF Ran, Unawaited
<1>9. QED
  BY <1>2, <1>3, <1>4, <1>7, <1>8 DEF InterceptorsHaveRun

\* However interceptors are written, invoke, wait, throw and replace results, and
\* wherever promises settle: an answer that is no failure comes after all of them.
THEOREM InterceptorsRunToTheEnd == InterceptSpec => []InterceptorsHaveRun
<1>1. InterceptInit => MetadataInv /\ CallInv /\ RunInv
  BY MetadataInvInit, RunInvInit DEF InterceptInit, CallInv
<1>2. QED
  BY <1>1, MetadataInvNext, CallInvStep, RunInvNext, RunInvSound, PTL DEF InterceptSpec
=============================================================================
