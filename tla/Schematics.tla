----------------------------- MODULE Schematics -----------------------------
(***************************************************************************)
(* The schematics of @typeix/schematics: a new application, and elements   *)
(* (service, controller, provider, module, interceptor) that are generated *)
(* in it and declared in the nearest module above them.  A directory is a  *)
(* sequence of names from the root of the project.  A file is named by its *)
(* directory, its name and its type; of a module's source the model keeps  *)
(* the lines before the class (imports or other code) and the metadata of  *)
(* its decorator.  Class names are <<name, type>>.                         *)
(***************************************************************************)
EXTENDS Naturals, Sequences, SequencesExt, FiniteSets

CONSTANTS
    Names,       \* of directories and elements
    Locations    \* what a user gives as path and name: sequences of names

ASSUME NamesAssumption == {"app", "src"} \subseteq Names
ASSUME LocationsAssumption == Locations \subseteq Seq(Names) \ {<<>>}

VARIABLES
    language,    \* of the project: ts, js, or none when there is no project
    files,       \* the generated files
    modules      \* modules[f]: the source of the module file f

schematicVars == <<language, files, modules>>

Keys == {"imports", "controllers", "providers"}

\* The metadata property of a key: none, an array, or another expression.
Property(form, symbols) == [form |-> form, symbols |-> symbols]
Missing == Property("none", <<>>)
Array(symbols) == Property("array", symbols)

File(dir, name, type) == [dir |-> dir, name |-> name, type |-> type, spec |-> FALSE]
Symbol(f) == <<f.name, f.type>>
Import(symbol, from) == [kind |-> "import", symbol |-> symbol, from |-> from]
Library(symbol) ==
    Import(<<symbol, "library">>, [up |-> 0, down |-> <<>>, name |-> <<"@typeix", "library">>])
Code == [kind |-> "code"]

-----------------------------------------------------------------------------
(* PathSolver, NameParser, mergeSourceRoot                                 *)

CommonLength(d, e) ==
    CHOOSE n \in 0..Len(d) :
        /\ n <= Len(e) /\ SubSeq(d, 1, n) = SubSeq(e, 1, n)
        /\ n < Len(d) /\ n < Len(e) => d[n + 1] # e[n + 1]

\* The path from a directory to a file: ups, then downs, then the file.
Relative(dir, f) ==
    LET n == CommonLength(dir, f.dir)
    IN  [up |-> Len(dir) - n, down |-> SubSeq(f.dir, n + 1, Len(f.dir)), name |-> Symbol(f)]

\* What an import says, resolved the way a module loader does.
Resolved(dir, from) ==
    [dir |-> SubSeq(dir, 1, Len(dir) - from.up) \o from.down, symbol |-> from.name]

\* What is flat unless said otherwise, and there is no way to say it.
FlatByDefault == {"provider", "interceptor"}

\* The directory of an element below the source root: that of its location, or
\* one of its own unless flat.
Directory(location, flat) == IF flat THEN Front(location) ELSE location

TargetDir(root, location, flat) == root \o Directory(location, flat)

-----------------------------------------------------------------------------
(* ModuleFinder, ModuleDeclarator                                          *)

\* Mutant: the search does not go up.
NearestInDirectory(dir) == {m \in DOMAIN modules : m.dir = dir}

\* The module files of the nearest directory that has some; the finder takes
\* the first that the file system lists.
Nearest(dir) ==
    LET above == {m \in DOMAIN modules : IsPrefix(m.dir, dir)}
    IN  {m \in above : \A n \in above : Len(n.dir) <= Len(m.dir)}

\* An import goes after the first line that reads like the last import, or
\* after the first line.
InsertImport(lines, import) ==
    LET imports == {i \in DOMAIN lines : lines[i].kind = "import"}
        last == CHOOSE i \in imports : \A j \in imports : j <= i
        at == IF imports = {} THEN 1
              ELSE CHOOSE i \in imports : lines[i] = lines[last]
                                          /\ \A j \in imports : lines[j] = lines[last] => i <= j
    IN  InsertAt(lines, at + 1, import)

\* The metadata of a module without decorator, and a property that is no array,
\* stay what they are.
InsertSymbol(decorated, property, symbol) ==
    IF decorated /\ property.form # "other" THEN Array(Append(property.symbols, symbol))
    ELSE property

With(source, import, key) ==
    [decorated |-> source.decorated, lines |-> InsertImport(source.lines, import),
     metadata |-> [source.metadata EXCEPT
                      ![key] = InsertSymbol(source.decorated, @, import.symbol)]]

Declare(m, f, key) ==
    [modules EXCEPT ![m] = With(@, Import(Symbol(f), Relative(m.dir, f)), key)]

-----------------------------------------------------------------------------
(* The schematics                                                          *)

\* A module of one's own: one import, providers.
ModuleSource ==
    [decorated |-> TRUE, lines |-> <<Library("Module"), Code>>,
     metadata |-> [imports |-> Missing, controllers |-> Missing, providers |-> Array(<<>>)]]

\* The application schematic: a root module with a controller and a service.
RootModule(root) == File(root, "app", "module")
Application(root) ==
    LET app(type) == File(root, "app", type)
    IN  [files |-> {app(t) : t \in {"module", "controller", "service"}},
         source |-> [decorated |-> TRUE,
                     lines |-> <<Library("RootModule"),
                                 Import(<<"app", "controller">>, Relative(root, app("controller"))),
                                 Import(<<"app", "service">>, Relative(root, app("service"))), Code>>,
                     metadata |-> [imports |-> Array(<<>>),
                                   controllers |-> Array(<<<<"app", "controller">>>>),
                                   providers |-> Array(<<<<"app", "service">>>>)]]]

\* What a user may have made of it: providers from elsewhere, no decorator, or no
\* imports in front.
Edited(source) ==
    {source, [source EXCEPT !.metadata.providers = Property("other", <<>>)],
     [source EXCEPT !.decorated = FALSE, !.metadata = [k \in Keys |-> Missing]],
     [source EXCEPT !.lines = <<Code, Code>>, !.metadata = [k \in Keys |-> Array(<<>>)]]}

CreateApplication(lang, root) ==
    /\ language' = lang
    /\ files' = Application(root).files
    /\ modules' = [m \in {RootModule(root)} |-> Application(root).source]

\* The source files after f is declared in the nearest module, if there is one.
DeclareIn(f, key) ==
    IF Nearest(f.dir) = {} THEN {modules} ELSE {Declare(m, f, key) : m \in Nearest(f.dir)}

\* The filter that leaves the spec file out knows .spec.ts only.
FilesOf(f, spec) ==
    IF ~spec /\ language = "ts" THEN {f} ELSE {f, [f EXCEPT !.spec = TRUE]}

\* Nothing happens when one of the files of an element is there.
Add(new) == new \cap files = {} /\ files' = files \cup new /\ UNCHANGED language

\* Modules, services and providers are declared before their files are added,
\* controllers afterwards; in either case no module is above that was not there
\* before.
ServiceElement(dir, name, spec) ==
    LET f == File(dir, name, "service")
    IN  Add(FilesOf(f, spec)) /\ modules' \in DeclareIn(f, "providers")

ProviderElement(dir, name, spec) ==
    LET f == File(dir, name, "plain")
    IN  Add(FilesOf(f, spec)) /\ modules' \in DeclareIn(f, "providers")

ControllerElement(dir, name, spec) ==
    LET f == File(dir, name, "controller")
    IN  Add(FilesOf(f, spec)) /\ modules' \in DeclareIn(f, "controllers")

ModuleElement(dir, name) ==
    LET f == File(dir, name, "module")
    IN  /\ Add({f})
        /\ \E declared \in DeclareIn(f, "imports") :
               modules' = [m \in {f} \cup DOMAIN declared |-> IF m = f THEN ModuleSource ELSE declared[m]]

\* Interceptors are not declared.
InterceptorElement(dir, name, spec) ==
    Add(FilesOf(File(dir, name, "interceptor"), spec)) /\ UNCHANGED modules

Elements == {"service", "provider", "controller", "module", "interceptor"}

GenerateElement(schematic, root, location, flat, spec) ==
    LET dir == TargetDir(root, location, flat \/ schematic \in FlatByDefault)
        name == Last(location)
    IN  \/ schematic = "service" /\ ServiceElement(dir, name, spec)
        \/ schematic = "provider" /\ ProviderElement(dir, name, spec)
        \/ schematic = "controller" /\ ControllerElement(dir, name, spec)
        \/ schematic = "module" /\ ModuleElement(dir, name)
        \/ schematic = "interceptor" /\ InterceptorElement(dir, name, spec)

-----------------------------------------------------------------------------
(* Properties                                                              *)

Imports(m) == {l \in Range(modules[m].lines) : l.kind = "import"}
OwnImports(m) == {i \in Imports(m) : i.from.name # <<"@typeix", "library">>}
Declared(m) == UNION {Range(modules[m].metadata[k].symbols) : k \in Keys}

SchematicsTypeOK ==
    /\ language \in {"none", "ts", "js"}
    /\ \A f \in files : f.spec \in BOOLEAN /\ f.dir \in Seq(Names)
    /\ \A m \in DOMAIN modules :
           /\ m \in files /\ m.type = "module" /\ ~m.spec
           /\ \A k \in Keys : modules[m].metadata[k].form \in {"none", "array", "other"}

\* Every import that was written into a module leads from the directory of the
\* module to the file that has the class of that name.
ImportsResolve ==
    \A m \in DOMAIN modules : \A i \in OwnImports(m) :
        LET r == Resolved(m.dir, i.from)
        IN  /\ r.symbol = i.symbol
            /\ \E f \in files : f.dir = r.dir /\ Symbol(f) = i.symbol /\ ~f.spec

\* Imports come before the code of a module that starts with one.
ImportsComeFirst ==
    \A m \in DOMAIN modules :
        LET lines == modules[m].lines
        IN  lines[1].kind = "import" =>
                \A i, j \in DOMAIN lines : lines[i].kind = "code" /\ lines[j].kind = "import" => j < i

\* What the decorator of a module names is imported, and the other way round
\* if there is a decorator whose metadata can be extended.
DeclaredIsImported ==
    \A m \in DOMAIN modules :
        LET symbols == {i.symbol : i \in OwnImports(m)}
        IN  /\ Declared(m) \subseteq symbols
            /\ modules[m].decorated /\ (\A k \in Keys : modules[m].metadata[k].form # "other")
                   => symbols \subseteq Declared(m)
=============================================================================
