---------------------------- MODULE InjectorTree ----------------------------
(***************************************************************************)
(* The tree of injectors of @typeix/di: AbstractInjector and the part of   *)
(* Injector and SyncInjector that creates a child.  Every operation here   *)
(* is synchronous code, so each is one action.  Names are left out: they   *)
(* only appear in error messages.                                          *)
(***************************************************************************)
EXTENDS Integers, Sequences, FiniteSets, SequencesExt

CONSTANTS
    Injectors,     \* identities an injector may be created with
    Keys,          \* tokens a provider is registered under
    Values,        \* what a token may be bound to
    MutableKeys,   \* the keys handed to the constructor as mutable
    NoParent,      \* _parent undefined or null
    MaxRelisted    \* bound on relisted

ASSUME TreeAssumption ==
    /\ IsFiniteSet(Injectors)
    /\ NoParent \notin Injectors
    /\ MutableKeys \subseteq Keys
    /\ MaxRelisted \in Nat

VARIABLES
    created,       \* the injectors constructed so far
    parent,        \* parent[i]: the field _parent
    children,      \* children[i]: the array _children
    providers,     \* providers[i]: the Map inside _providers
    relisted       \* auxiliary: how often i listed again a child that pointed
                   \* at it all the time but had lost its place, since
                   \* children[i] was last emptied

vars == <<created, parent, children, providers, relisted>>

Bindings == UNION {[ks -> Values] : ks \in SUBSET Keys}

TypeOK ==
    /\ created \subseteq Injectors
    /\ parent \in [Injectors -> Injectors \cup {NoParent}]
    /\ children \in [Injectors -> Seq(Injectors)]
    /\ providers \in [Injectors -> Bindings]
    /\ relisted \in [Injectors -> Nat]

Init ==
    /\ created = {}
    /\ parent = [i \in Injectors |-> NoParent]
    /\ children = [i \in Injectors |-> <<>>]
    /\ providers = [i \in Injectors |-> <<>>]
    /\ relisted = [i \in Injectors |-> 0]

-----------------------------------------------------------------------------
(* Reading the tree                                                        *)

Has(i, k) == k \in DOMAIN providers[i]

HasChild(p, c) == c \in ToSet(children[p])

\* Going from an injector of S to its parent stays in S.
Closed(S) == \A j \in S : parent[j] # NoParent => parent[j] \in S

\* The injectors a lookup that starts at i may visit: i and all above it.
Chain(i) == {j \in Injectors : \A S \in SUBSET Injectors : i \in S /\ Closed(S) => j \in S}

\* get throws unless some injector of the chain has the key ...
CanGet(i, k) == \E j \in Chain(i) : Has(j, k)

\* ... and returns what the nearest of them binds, the one below the others.
Nearest(i, k) ==
    CHOOSE j \in Chain(i) :
        Has(j, k) /\ \A h \in Chain(i) : Has(h, k) => h \in Chain(j)

Get(i, k) == providers[Nearest(i, k)][k]

-----------------------------------------------------------------------------
(* Operations                                                              *)

\* Mutant: the first child is taken for the last.
SpliceFirst(s, index) == IF s = <<>> THEN s ELSE Tail(s)

\* splice(index, 1) with a zero based index: -1 counts from the end, so it
\* removes the last element; on an empty array it removes nothing.
Splice(s, index) ==
    IF s = <<>> THEN s
    ELSE IF index = -1 THEN Front(s) ELSE RemoveAt(s, index + 1)

\* indexOf: zero based, -1 when absent.
IndexOf(s, e) == SelectInSeq(s, LAMBDA x : x = e) - 1

\* Mutant: detach forgets the parent's array.
ChildrenNotSpliced(i) == children

\* The new _children arrays after detach of i.
ChildrenAfterDetach(i) ==
    IF parent[i] = NoParent THEN children
    ELSE [children EXCEPT ![parent[i]] = Splice(@, IndexOf(children[i], i))]

NewRoot(i) ==
    /\ i \notin created
    /\ created' = created \cup {i}
    /\ UNCHANGED <<parent, children, providers, relisted>>

\* new Injector(parent), then parent.addChild(child): the child is new, so
\* it is not listed and setParent finds the parent it already has.
CreateChild(p, c) ==
    /\ p \in created /\ c \notin created
    /\ created' = created \cup {c}
    /\ parent' = [parent EXCEPT ![c] = p]
    /\ children' = [children EXCEPT ![p] = Append(@, c)]
    /\ UNCHANGED <<providers, relisted>>

\* Router.parseRequest adopts a request injector that has no parent; it does
\* not list it.  setParent itself throws when it would change a parent.  Nobody
\* in the repository adopts an injector he stands below (c \notin Chain(p));
\* the code does not check that.
SetParent(c, p) ==
    /\ {c, p} \subseteq created /\ c \notin Chain(p)
    /\ parent[c] \in {NoParent, p}
    /\ parent' = [parent EXCEPT ![c] = p]
    /\ UNCHANGED <<created, children, providers, relisted>>

\* addChild of an injector that is not listed: it has no parent, or has this
\* one already, because setParent adopted it or because another child's detach
\* took it away.  One that is listed (hasChild) is left as it is.
AddChild(p, c) ==
    /\ {c, p} \subseteq created /\ c \notin Chain(p)
    /\ ~HasChild(p, c)
    /\ parent[c] \in {NoParent, p}
    /\ parent[c] = p => relisted[p] < MaxRelisted
    /\ parent' = [parent EXCEPT ![c] = p]
    /\ children' = [children EXCEPT ![p] = Append(@, c)]
    /\ relisted' = IF parent[c] = p THEN [relisted EXCEPT ![p] = @ + 1] ELSE relisted
    /\ UNCHANGED <<created, providers>>

Detach(i) ==
    /\ i \in created
    /\ children' = ChildrenAfterDetach(i)
    /\ parent' = [parent EXCEPT ![i] = NoParent]
    /\ UNCHANGED <<created, providers, relisted>>

\* Mutant: destroy also unlinks whatever child the splice took away.
DestroyUnlinksSpliced(i) ==
    /\ i \in created
    /\ children' = [ChildrenAfterDetach(i) EXCEPT ![i] = <<>>]
    /\ parent' = [c \in Injectors |->
                    IF c = i \/ (\E p \in Injectors : HasChild(p, c) /\ ~HasChild(p, c)')
                    THEN NoParent ELSE parent[c]]
    /\ providers' = [providers EXCEPT ![i] = <<>>]
    /\ relisted' = [relisted EXCEPT ![i] = 0]
    /\ UNCHANGED created

Destroy(i) ==
    /\ i \in created
    /\ children' = [ChildrenAfterDetach(i) EXCEPT ![i] = <<>>]
    /\ parent' = [parent EXCEPT ![i] = NoParent]
    /\ providers' = [providers EXCEPT ![i] = <<>>]
    /\ relisted' = [relisted EXCEPT ![i] = 0]
    /\ UNCHANGED created

\* Mutant: ProviderList.set without its check.
SetProviderUnchecked(i, k, v) ==
    /\ i \in created
    /\ providers' = [providers EXCEPT
                        ![i] = [x \in DOMAIN @ \cup {k} |-> IF x = k THEN v ELSE @[x]]]
    /\ UNCHANGED <<created, parent, children, relisted>>

\* ProviderList.set throws a TypeError on a bound key that is not mutable.
SetProvider(i, k, v) ==
    /\ i \in created
    /\ ~Has(i, k) \/ k \in MutableKeys
    /\ providers' = [providers EXCEPT
                        ![i] = [x \in DOMAIN @ \cup {k} |-> IF x = k THEN v ELSE @[x]]]
    /\ UNCHANGED <<created, parent, children, relisted>>

Next ==
    \/ \E i \in Injectors : NewRoot(i) \/ Detach(i) \/ Destroy(i)
    \/ \E p, c \in Injectors : CreateChild(p, c) \/ SetParent(c, p) \/ AddChild(p, c)
    \/ \E i \in Injectors, k \in Keys, v \in Values : SetProvider(i, k, v)

Spec == Init /\ [][Next]_vars

\* The discipline under which detach takes the right child away: every
\* injector is listed where it points, and a parent loses its newest child
\* first, childless.
Newest(i) ==
    /\ parent[i] # NoParent => Last(children[parent[i]]) = i
    /\ \A c \in Injectors : parent[c] # i

LifoNext ==
    \/ \E i \in Injectors : NewRoot(i) \/ (Newest(i) /\ (Detach(i) \/ Destroy(i)))
    \/ \E p, c \in Injectors : CreateChild(p, c) \/ AddChild(p, c)
    \/ \E i \in Injectors, k \in Keys, v \in Values : SetProvider(i, k, v)

LifoSpec == Init /\ [][LifoNext]_vars

-----------------------------------------------------------------------------
(* Properties                                                              *)

\* However children come and go, and although detach may remove the wrong
\* one, a parent never lists more injectors than point at it, but for those
\* that detach had wrongly taken away and addChild listed again, one entry each:
\* serving connections for ever does not make _children grow.
NoChildLeak ==
    \A p \in Injectors :
        Len(children[p]) <= Cardinality({c \in Injectors : parent[c] = p}) + relisted[p]

\* Destroying or detaching an injector changes what get answers for that
\* injector and for those below it, and for nobody else.
DepartureIsLocal ==
    [][\A i \in Injectors : (Detach(i) \/ Destroy(i)) =>
          \A j \in created, k \in Keys : i \notin Chain(j) =>
              /\ CanGet(j, k) <=> CanGet(j, k)'
              /\ CanGet(j, k) => Get(j, k)' = Get(j, k)]_vars

\* A binding that is not mutable is replaced only by destroying its
\* injector: two reads of one injector agree unless it died in between.
BindingsImmutable ==
    [][\A i \in Injectors, k \in Keys \ MutableKeys :
          Has(i, k) => IF Has(i, k)' THEN providers'[i][k] = providers[i][k]
                       ELSE providers'[i] = <<>> /\ parent'[i] = NoParent]_vars

\* "Detach child from parent" (the comment on detach): afterwards the parent
\* does not list the child, and lists every other child it listed.
DetachRemovesTheChild ==
    [][\A i \in Injectors : Detach(i) /\ parent[i] # NoParent =>
          ToSet(children'[parent[i]]) = ToSet(children[parent[i]]) \ {i}]_vars

\* Under the discipline the tree is an ownership forest (module Forest).
Forest == INSTANCE Forest WITH
    kids <- [p \in Injectors |-> ToSet(children[p])], owner <- parent
IsForest == Forest!Spec
=============================================================================
