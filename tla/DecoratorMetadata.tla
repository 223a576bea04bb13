------------------------- MODULE DecoratorMetadata -------------------------
(***************************************************************************)
(* The metadata package: what the decorators of a class statement leave in *)
(* Reflect and on the prototype, and the lookups along prototypes.  A      *)
(* statement is compiled to sites: the class itself and its decorated      *)
(* members, each with the list that __decorate goes through from its end.  *)
(***************************************************************************)
EXTENDS Integers, SequencesExt

CONSTANTS Targets,       \* names of classes
          Programs,      \* the class statements, by name
          DecoratorType, \* what each decorator was made as: constructor, property, ...
          CustomKeys,    \* keys the program uses with defineMetadata itself
          Undefined

TS_TYPE == <<"design:type">>
TS_PARAMS == <<"design:paramtypes">>
TS_RETURN == <<"design:returntype">>
Design == {TS_TYPE, TS_PARAMS, TS_RETURN}

VARIABLES program,       \* the statements, by name: extends, methods, statics, sites
          executed,      \* how each class statement ended: "no", "yes", "threw"
          heap           \* store: Reflect's maps, arrays: those decorate allocated,
                         \* members: own keys of classes and prototypes, threw

decoratorVars == <<program, executed, heap>>

\* A class and its prototype are objects with metadata of their own.
Objects == Targets \X {"class", "prototype"}
ClassOf(c) == <<c, "class">>
PrototypeOf(c) == <<c, "prototype">>
Above(c) == program[c].extends
Executed == {c \in DOMAIN program : executed[c] = "yes"}

\* An object and what it inherits from, nearest first.
Line[c \in Targets] == <<c>> \o (IF Above(c) = Undefined THEN <<>> ELSE Line[Above(c)])
LineOf(o) == [i \in DOMAIN Line[o[1]] |-> <<Line[o[1]][i], o[2]>>]

Unique(s) == FoldLeft(LAMBDA r, x : IF Contains(r, x) THEN r ELSE Append(r, x), <<>>, s)
-----------------------------------------------------------------------------
(* Reflect: ordered maps of entries at <<member, key>>.                    *)

Own(h, o, at) == o \in Objects /\ \E e \in ToSet(h.store[o]) : e.at = at
Holders(h, o, at) == SelectSeq(LineOf(o), LAMBDA p : Own(h, p, at))
HasMetadata(h, o, at) == o \in Objects /\ Holders(h, o, at) # <<>>

GetMetadata(h, o, at) ==
    IF ~HasMetadata(h, o, at) THEN Undefined
    ELSE (CHOOSE e \in ToSet(h.store[Head(Holders(h, o, at))]) : e.at = at).value

Define(h, o, at, v) ==
    [h EXCEPT !.store[o] =
        IF Own(h, o, at) THEN [i \in DOMAIN @ |-> IF @[i].at = at THEN [at |-> at, value |-> v] ELSE @[i]]
        ELSE Append(@, [at |-> at, value |-> v])]

Without(h, o, at) == [h EXCEPT !.store[o] = SelectSeq(@, LAMBDA e : e.at # at)]

OwnKeys(h, o, n) ==
    LET of == SelectSeq(h.store[o], LAMBDA e : e.at[1] = n) IN [i \in DOMAIN of |-> of[i].at[2]]

GetMetadataKeys(h, o, n) ==
    Unique(FlattenSeq([i \in DOMAIN LineOf(o) |-> OwnKeys(h, LineOf(o)[i], n)]))
-----------------------------------------------------------------------------
(* Decorators.                                                             *)

IsDecorator(decorator) == decorator \in DOMAIN DecoratorType
GetDecoratorId(decorator, index) == <<decorator, index>>

\* What it was made as; the other getters of a decorator's data throw as this one does.
GetDecoratorType(decorator) == IF IsDecorator(decorator) THEN DecoratorType[decorator] ELSE "throws"

\* What a decorator is used as; a property or a parameter that is static throws.
GetType(o, n, d) ==
    LET made == DecoratorType[d.decorator]
        type == IF made # "mixed" THEN made ELSE IF d.index # Undefined THEN "parameter" ELSE "property"
    IN IF o[2] = "class" /\ n # Undefined /\ type \in {"property", "parameter"} THEN "throws"
       ELSE IF o[2] = "class" /\ type = "method" THEN "static"
       ELSE type

\* What decorate records of member n of o.
Metadata(h, o, n, d) ==
    [args |-> d.args, decorator |-> d.decorator, type |-> GetType(o, n, d), index |-> d.index, member |-> n,
     design |-> [k \in {x \in Design : HasMetadata(h, o, <<n, x>>)} |-> GetMetadata(h, o, <<n, k>>).data]]

\* Method decorators add up, in an array that is extended wherever it is; the
\* others replace what is found.
Decorated(h, o, n, d) ==
    LET at == <<n, GetDecoratorId(d.decorator, d.index)>>
        metadata == Metadata(h, o, n, d)
        current == GetMetadata(h, o, at)
    IN IF metadata.type = "throws" THEN [h EXCEPT !.threw = TRUE]
       ELSE IF metadata.type # "method" \/ current = Undefined THEN Define(h, o, at, metadata)
       ELSE IF "array" \in DOMAIN current
       THEN Define([h EXCEPT !.arrays[current.array] = Append(@, metadata)], o, at, current)
       ELSE Define([h EXCEPT !.arrays = Append(@, <<current, metadata>>)], o, at,
                   [array |-> Len(h.arrays) + 1])

\* Design types are decorators of the compiler.
Apply(h, o, n, d) ==
    IF h.threw THEN h
    ELSE IF "key" \in DOMAIN d THEN Define(h, o, <<n, d.key>>, [data |-> d.value])
    ELSE Decorated(h, o, n, d)

\* What a member is that is found on o, or Undefined.
Member(h, o, n) ==
    LET found == SelectSeq(FlattenSeq([i \in DOMAIN LineOf(o) |-> h.members[LineOf(o)[i]]]),
                           LAMBDA m : m.name = n)
    IN IF found = <<>> THEN Undefined ELSE Head(found).is

Become(h, o, n, is) ==
    [h EXCEPT !.members[o] =
        IF \E m \in ToSet(@) : m.name = n
        THEN [i \in DOMAIN @ |-> IF @[i].name = n THEN [name |-> n, is |-> is] ELSE @[i]]
        ELSE Append(@, [name |-> n, is |-> is])]

\* Mutant: __decorate gets no descriptor of a field, so it stays off the prototype.
RedefinedMethod(h, o, n) == h

\* A decorator returns its target, and __decorate then takes the target for the
\* descriptor of the member, whose members get, set and value say what becomes of it. A
\* getter that is read for its descriptor is taken to give an object.
Redefined(h, o, n) ==
    LET get == Member(h, o, "get")
        set == Member(h, o, "set")
        value == Member(h, o, "value")
        own == \E m \in ToSet(h.members[o]) : m.name = n
    IN IF "getter" \in {get, set} \/ ({get, set} # {Undefined} /\ value # Undefined)
       THEN [h EXCEPT !.threw = TRUE]
       ELSE IF get = "method" THEN Become(h, o, n, "getter")
       ELSE IF {get, set} # {Undefined} THEN Become(h, o, n, "undefined")
       ELSE IF value # Undefined /\ (n # "value" \/ ~own) THEN Become(h, o, n, "other")
       ELSE IF own THEN h ELSE Become(h, o, n, "field")

\* __decorate: the list from its end, then the descriptor. Decorators of parameters
\* return nothing.
ApplySite(h, c, s) ==
    LET o == <<c, s.on>>
        applied == FoldRight(LAMBDA d, g : Apply(g, o, s.name, d), s.written, h)
        returns == \E d \in ToSet(s.written) : "key" \notin DOMAIN d /\ d.index = Undefined
    IN IF applied.threw \/ s.name = Undefined \/ ~returns THEN applied ELSE Redefined(applied, o, s.name)

Body(names) == [i \in DOMAIN names |-> [name |-> names[i], is |-> "method"]]

\* A class statement, after that of its base. One that throws leaves no class, but
\* what it has added to arrays of its base stays.
Execute(c) ==
    /\ executed[c] = "no"
    /\ Above(c) # Undefined => executed[Above(c)] = "yes"
    /\ LET written == [heap EXCEPT !.members[PrototypeOf(c)] = Body(program[c].methods),
                                   !.members[ClassOf(c)] = Body(program[c].statics)]
           left == FoldLeft(LAMBDA h, s : IF h.threw THEN h ELSE ApplySite(h, c, s), written, program[c].sites)
       IN /\ executed' = [executed EXCEPT ![c] = IF left.threw THEN "threw" ELSE "yes"]
          /\ heap' = IF left.threw THEN [heap EXCEPT !.arrays = left.arrays] ELSE left
    /\ UNCHANGED program

\* The program's own keys; those of the compiler are refused, deleting what is not
\* there changes nothing.
DefineMetadata(o, at, v) ==
    /\ at[2] \notin Design
    /\ heap' = Define(heap, o, at, [data |-> v])
    /\ UNCHANGED <<program, executed>>

DeleteMetadata(o, at) ==
    /\ at[2] \notin Design /\ Own(heap, o, at)
    /\ heap' = Without(heap, o, at)
    /\ UNCHANGED <<program, executed>>

DecoratorInit ==
    /\ program \in Programs
    /\ executed = [c \in DOMAIN program |-> "no"]
    /\ heap = [store |-> [o \in Objects |-> <<>>], arrays |-> <<>>,
               members |-> [o \in Objects |-> <<>>], threw |-> FALSE]

DecoratorNext ==
    \/ \E c \in DOMAIN program : Execute(c)
    \/ \E c \in Executed, k \in CustomKeys :
          DefineMetadata(ClassOf(c), <<Undefined, k>>, k) \/ DeleteMetadata(ClassOf(c), <<Undefined, k>>)

DecoratorSpec == DecoratorInit /\ [][DecoratorNext]_decoratorVars
-----------------------------------------------------------------------------
(* Lookups.                                                                *)

HasDecorator(o, n, decorator, index) ==
    IsDecorator(decorator) /\ HasMetadata(heap, o, <<n, GetDecoratorId(decorator, index)>>)

\* validateDecorator: a mixed one may be looked up as anything.
Validates(decorator, name) == GetDecoratorType(decorator) \in {name, "mixed"}

Lookup(o, n, decorator, index) == GetMetadata(heap, o, <<n, GetDecoratorId(decorator, index)>>)
Listed(found) == IF found # Undefined /\ "array" \in DOMAIN found THEN heap.arrays[found.array] ELSE <<found>>

GetClassMetadata(decorator, c) == Lookup(ClassOf(c), Undefined, decorator, Undefined)
GetPropertyMetadata(decorator, c, n) == Lookup(PrototypeOf(c), n, decorator, Undefined)
GetMethodMetadata(decorator, c, n, static) ==
    Listed(Lookup(IF static THEN ClassOf(c) ELSE PrototypeOf(c), n, decorator, Undefined))
GetParameterMetadata(decorator, c, i, n) == Lookup(PrototypeOf(c), n, decorator, i)

\* mapKeyToMetadata, flattened.
MapKeyToMetadata(k) ==
    LET found == GetMetadata(heap, k.target, <<k.member, k.key>>)
    IN IF k.key \in Design \cup CustomKeys
       THEN <<[args |-> found.data, key |-> k.key, member |-> k.member]>>
       ELSE Listed(found)

Flat(keys) == FlattenSeq([i \in DOMAIN keys |-> MapKeyToMetadata(keys[i])])

\* Mutant: a key of the base is left out when any member of the class has it.
MergeByKey(a, b) == a \o SelectSeq(b, LAMBDA y : \A x \in ToSet(a) : x.key # y.key)

\* mergeKeys: what the nearer one has at the same member comes first and alone.
MergeKeys(a, b) ==
    a \o SelectSeq(b, LAMBDA y : \A x \in ToSet(a) : x.key # y.key \/ x.member # y.member)

GetMetadataKeysForTarget(o, n) ==
    LET target == IF n = Undefined THEN o ELSE PrototypeOf(o[1])
        keys == GetMetadataKeys(heap, target, n)
    IN [i \in DOMAIN keys |-> [member |-> n, target |-> target, key |-> keys[i]]]

GetMetadataForTarget(c, n) ==
    Flat(MergeKeys(GetMetadataKeysForTarget(ClassOf(c), n),
                   IF Above(c) = Undefined THEN <<>> ELSE GetMetadataKeysForTarget(ClassOf(Above(c)), n)))

\* getAllKeysForTarget: the class, and what its prototype has itself.
AllKeysForTarget(c) ==
    LET own == heap.members[PrototypeOf(c)]
    IN FoldLeft(LAMBDA r, m : r \o GetMetadataKeysForTarget(PrototypeOf(c), m.name),
                GetMetadataKeysForTarget(ClassOf(c), Undefined), own)

GetAllMetadataKeysForTarget[c \in Targets] ==
    MergeKeys(AllKeysForTarget(c),
              IF Above(c) = Undefined THEN <<>> ELSE GetAllMetadataKeysForTarget[Above(c)])

GetAllMetadataForTarget(c) == Flat(GetAllMetadataKeysForTarget[c])
-----------------------------------------------------------------------------
\* What the statement of c writes of decorators, in the order of application, at
\* which member of the class or of an instance.
Applications(c) ==
    FlattenSeq([i \in DOMAIN program[c].sites |->
        LET s == program[c].sites[i]
            ds == SelectSeq(Reverse(s.written), LAMBDA d : "key" \notin DOMAIN d)
        IN IF s.on = "class" /\ s.name # Undefined THEN <<>>
           ELSE [j \in DOMAIN ds |-> [member |-> s.name, decorator |-> ds[j].decorator,
                                      index |-> ds[j].index, args |-> ds[j].args]]])

Same(a, b) == <<a.member, a.decorator, a.index>> = <<b.member, b.decorator, b.index>>
IsMethod(a) == DecoratorType[a.decorator] = "method"

\* The ones that count for c: a base's unless the class or a nearer base has the same
\* in that place, of several in one place the one applied last; method decorators all do.
Effective(c) ==
    LET order == FlattenSeq([i \in DOMAIN Line[c] |-> Reverse(Applications(Line[c][i]))])
    IN {order[i] : i \in {j \in DOMAIN order :
           IsMethod(order[j]) \/ \A k \in 1 .. j - 1 : ~Same(order[k], order[j])}}

Seen(c) ==
    {[member |-> m.member, decorator |-> m.decorator, index |-> m.index, args |-> m.args] :
        m \in {x \in ToSet(GetAllMetadataForTarget(c)) : "decorator" \in DOMAIN x}}

\* The lookup of everything finds the decorators that count for a class, its own and
\* those of its bases, on the class and on members of any kind.  What else it finds are
\* method decorators of a class below one of the bases, added to the base's array.
MetadataIsFound ==
    \A c \in Executed :
        /\ Effective(c) \subseteq Seen(c)
        /\ \A a \in Seen(c) \ Effective(c) :
              /\ IsMethod(a)
              /\ \E e \in DOMAIN program \ ToSet(Line[c]) :
                    executed[e] # "no" /\ ToSet(Line[e]) \cap ToSet(Line[c]) # {} /\ a \in ToSet(Applications(e))

\* A method is still the method that the statement has written, decorated or not,
\* unless members with the names of a descriptor's are found on the prototype.
MethodsSurvive ==
    \A c \in Executed :
        (\A n \in {"get", "set", "value"} : Member(heap, PrototypeOf(c), n) = Undefined)
        => \A n \in ToSet(program[c].methods) : Member(heap, PrototypeOf(c), n) = "method"
=============================================================================
