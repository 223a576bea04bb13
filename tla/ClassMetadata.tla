--------------------------- MODULE ClassMetadata ---------------------------
(***************************************************************************)
(* What decorators record about classes and what SyncInjector makes of it. *)
(* A class statement applies its decorators, once its base class exists;   *)
(* Reflect looks metadata up along the prototypes.  The list of what was   *)
(* recorded under one decorator, and the array of parameter types that     *)
(* the compiler emits, are objects: who got hold of them sees them change. *)
(* SyncInjector caches the metadata and the dependencies it found by the   *)
(* token of the provider that asked first, in maps that live for ever.     *)
(***************************************************************************)
EXTENDS Integers, SequencesExt

CONSTANTS Classes,       \* classes, in the order of their chains of bases
          Extends,       \* [Classes -> Classes or None]
          Decorators,    \* decorators of the one method looked at
          Declarations,  \* [Classes -> set of class statements]
          Tokens,        \* tokens that providers give classes for
          None

\* Bases exist before the classes below them.
ASSUME ClassAssumption ==
    /\ Extends \in [Classes -> Classes \cup {None}]
    /\ None \notin Classes \cup Tokens /\ IsFiniteSet(Classes)
    /\ \E depth \in [Classes -> 0 .. Cardinality(Classes)] :
           \A c \in Classes : Extends[c] # None => depth[Extends[c]] < depth[c]

IsSequence(s) == s \in Seq(ToSet(s))

\* methods: the decorators of the method, the one nearest to it first; types: those of
\* the parameters of the constructor, None if the class has none of its own; params: what
\* is recorded of its decorated parameters, once for each.
IsStatement(d) ==
    /\ IsSequence(d.methods) /\ \A m \in ToSet(d.methods) : m.dec \in Decorators
    /\ IsSequence(d.params) /\ IF d.types = None THEN d.params = <<>> ELSE IsSequence(d.types)
    /\ \A i, j \in DOMAIN d.params :
          /\ d.params[i].index \in DOMAIN d.types
          /\ d.params[i].index = d.params[j].index => i = j

MethodEntries == UNION {ToSet(d.methods) : d \in UNION {Declarations[c] : c \in Classes}}
CachedMetadata == [class : Classes, methods : Seq(MethodEntries)]
Injectables(d) == ToSet(d.types) \cup {p.token : p \in ToSet(d.params)}

ASSUME StatementAssumption ==
    /\ \A c \in Classes : \A d \in Declarations[c] : d # None /\ IsStatement(d)
    /\ None \notin CachedMetadata
    /\ None \notin Seq(UNION {Injectables(d) :
            d \in {e \in UNION {Declarations[c] : c \in Classes} : e.types # None}})

VARIABLES declaration,   \* the statement that has declared the class, or None
          defined,       \* the class whose statement allocated what Reflect holds here, or None
          recorded,      \* the metadata allocated there: one, or an array of several
          types,         \* design:paramtypes of the constructor the class has itself, or None
          cachedMetadata, \* __metadataCache__: whose metadata, and what it was
          cachedProviders, \* __actionParams__ of the constructor
          given          \* what the constructor of an instance got, by <<token, class>>

metadataVars == <<declaration, defined, recorded, types, cachedMetadata, cachedProviders, given>>

Declared == {c \in Classes : declaration[c] # None}
Providers == Tokens \X Classes

\* A class and its bases, nearest first: the prototypes Reflect climbs.
Prototypes[c \in Classes] == <<c>> \o (IF Extends[c] = None THEN <<>> ELSE Prototypes[Extends[c]])

\* The first of these that is in S.
NearestIn(S, c) ==
    LET places == {i \in DOMAIN Prototypes[c] : Prototypes[c][i] \in S}
    IN IF places = {} THEN None ELSE Prototypes[c][Min(places)]

Distinct(s) == FoldLeft(LAMBDA r, x : IF Contains(r, x) THEN r ELSE Append(r, x), <<>>, s)
-----------------------------------------------------------------------------
(* decorate: a method decorator that was applied here or on a base before  *)
(* adds to what is there; an array is extended in place, whoever owns it.  *)

Found(at, c, d) ==
    LET holder == NearestIn({e \in Classes : at[e][d] # None}, c)
    IN IF holder = None THEN None ELSE at[holder][d]

\* Mutant: an array is made in the place of the single entry it extends.
DecorateInPlace(st, c, m) ==
    LET from == Found(st.at, c, m.dec)
        owner == IF from = None THEN c ELSE from
    IN [at |-> [st.at EXCEPT ![c][m.dec] = owner],
        list |-> [st.list EXCEPT ![owner][m.dec] = Append(@, m)]]

Decorate(st, c, m) ==
    LET from == Found(st.at, c, m.dec)
        current == IF from = None THEN <<>> ELSE st.list[from][m.dec]
        owner == IF Len(current) > 1 THEN from ELSE c
    IN [at |-> [st.at EXCEPT ![c][m.dec] = owner],
        list |-> [st.list EXCEPT ![owner][m.dec] = Append(current, m)]]

\* What is recorded when the decorators of a statement have been applied.
AllDecorated(c, d) ==
    FoldLeft(LAMBDA s, m : Decorate(s, c, m), [at |-> defined, list |-> recorded], d.methods)

Declare(c, d) ==
    /\ declaration[c] = None
    /\ Extends[c] # None => declaration[Extends[c]] # None
    /\ declaration' = [declaration EXCEPT ![c] = d]
    /\ defined' = AllDecorated(c, d).at /\ recorded' = AllDecorated(c, d).list
    /\ types' = [types EXCEPT ![c] = d.types]
    /\ UNCHANGED <<cachedMetadata, cachedProviders, given>>
-----------------------------------------------------------------------------
(* getAllMetadataForTarget: own keys, then those of the bases that are not *)
(* among them, each with what Reflect finds for it.                        *)

MetadataKeys(c) ==
    Distinct(FlattenSeq([i \in DOMAIN Prototypes[c] |->
        LET ms == declaration[Prototypes[c][i]].methods IN [j \in DOMAIN ms |-> ms[j].dec]]))

MethodMetadata(c) ==
    FlattenSeq([i \in DOMAIN MetadataKeys(c) |-> recorded[Found(defined, c, MetadataKeys(c)[i])][MetadataKeys(c)[i]]])

\* Decorated parameters of the constructor, those of the class before those of its bases;
\* the compiler starts with the last.
Parameters(c) == FlattenSeq([i \in DOMAIN Prototypes[c] |-> declaration[Prototypes[c][i]].params])

\* The nearest class with a constructor of its own, whose array Reflect finds.
Constructor(c) == NearestIn({e \in Classes : types[e] # None}, c)

Cached(t, c) ==
    IF cachedMetadata[t] # None THEN cachedMetadata[t]
    ELSE [class |-> c, methods |-> MethodMetadata(c)]

\* Mutant: every decorated parameter is inserted.
SpliceInserts(s, i, t) == InsertAt(s, IF i <= Len(s) THEN i ELSE Len(s) + 1, t)

\* Array.splice(index, 1, token): beyond the end it appends.
SpliceToken(s, i, t) == IF i <= Len(s) THEN ReplaceAt(s, i, t) ELSE Append(s, t)

\* mergeKeys: parameters of a base that a class below it decorates too.
Overridden(c) == {i \in DOMAIN Parameters(c) : \E j \in 1 .. i - 1 : Parameters(c)[j].index = Parameters(c)[i].index}

\* getProviders: the types with the decorated ones replaced, in the array itself.
\* @Inject() of a constructor parameter has no token, and no design:type either.
ParamTypes(c) ==
    FoldLeftDomain(LAMBDA s, i : IF i \in Overridden(c) THEN s
                                 ELSE SpliceToken(s, Parameters(c)[i].index, Parameters(c)[i].token),
                   IF Constructor(c) = None THEN <<>> ELSE types[Constructor(c)], Parameters(c))

\* createAndResolve of a class: dependencies, constructor, interceptors.
Create(t, c) ==
    LET meta == Cached(t, c)
        holder == Constructor(meta.class)
        providers == IF cachedProviders[t] # None THEN cachedProviders[t] ELSE ParamTypes(meta.class)
    IN /\ declaration[c] # None /\ given[<<t, c>>] = None
       /\ cachedMetadata' = [cachedMetadata EXCEPT ![t] = meta]
       /\ cachedProviders' = [cachedProviders EXCEPT ![t] = providers]
       /\ types' = IF cachedProviders[t] # None \/ holder = None THEN types
                   ELSE [types EXCEPT ![holder] = providers]
       /\ given' = [given EXCEPT ![<<t, c>>] = providers]
       /\ UNCHANGED <<declaration, defined, recorded>>

MetadataInit ==
    /\ declaration = [c \in Classes |-> None]
    /\ defined = [c \in Classes |-> [d \in Decorators |-> None]]
    /\ recorded = [c \in Classes |-> [d \in Decorators |-> <<>>]]
    /\ types = [c \in Classes |-> None]
    /\ cachedMetadata = [t \in Tokens |-> None]
    /\ cachedProviders = [t \in Tokens |-> None]
    /\ given = [p \in Providers |-> None]

MetadataNext ==
    \/ \E c \in Classes : \E d \in Declarations[c] : Declare(c, d)
    \/ \E t \in Tokens, c \in Classes : Create(t, c)
-----------------------------------------------------------------------------
\* What the nearest constructor asks for, in the words of its statement.
AskedFor(c) ==
    LET d == declaration[Constructor(c)]
    IN [i \in DOMAIN d.types |->
          IF \E p \in ToSet(d.params) : p.index = i
          THEN (CHOOSE p \in ToSet(d.params) : p.index = i).token
          ELSE d.types[i]]

\* A base of the class with the constructor decorates a parameter that this class does not.
ReplacesDecorated(c) ==
    LET f == Constructor(c)
    IN \E e \in ToSet(Prototypes[f]) \ {f} : \E p \in ToSet(declaration[e].params) :
          \A q \in ToSet(declaration[f].params) : q.index # p.index

\* The constructor of an instance gets what its parameters ask for, whatever
\* was cached and rewritten for others before: unless the token stood for another
\* class first, or a base decorates parameters that the class's constructor
\* leaves alone (both are what the code does).
InjectedAsDeclared ==
    \A p \in Providers :
        LET t == p[1] c == p[2] IN
        (given[p] # None /\ Constructor(c) # None
            /\ cachedMetadata[t].class = c /\ ~ReplacesDecorated(c))
        => given[p] = AskedFor(c)

\* Declaring a class leaves the method decorators of the classes that exist as
\* they are; only an array, that is a decorator applied twice to a base, takes the
\* entries of a class below it in, and then shows them to all who hold it.
BasesKeepTheirMetadata ==
    [][\A c \in Classes, e \in Declared :
         (declaration[c] = None /\ declaration'[c] # None /\ MethodMetadata(e)' # MethodMetadata(e))
         => \E d \in Decorators :
               LET owner == Found(defined, e, d) IN
               /\ owner # None /\ Len(recorded[owner][d]) > 1
               /\ owner \in ToSet(Prototypes[c])
               /\ d \in {m.dec : m \in ToSet(declaration'[c].methods)}]_metadataVars
=============================================================================
