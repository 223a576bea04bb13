--------------------------- MODULE ProjectCommands ---------------------------
(***************************************************************************)
(* The commands new and generate of @typeix/cli.  Both end in a schematic, *)
(* run as a process of its own; new goes on to install the packages and to *)
(* make a git repository, generate first works out the source root and     *)
(* whether spec files are wanted from the configuration, the options and,  *)
(* in a project with several parts, an answer.  Prompts, package managers, *)
(* git and the runner of schematics are external.                          *)
(***************************************************************************)
EXTENDS Schematics

CONSTANTS
    Configurations,  \* what typeix-cli.json may say
    Requests,        \* the command lines of generate
    MaxGenerates     \* bound on elements generated in a project

AllRequests ==
    [schematic : Elements, alias : BOOLEAN, location : Locations,
     flat : BOOLEAN, spec : {"none", "spec", "no-spec"}, project : {"none", "named"}, dryRun : BOOLEAN]

ASSUME RequestsAssumption == Requests \subseteq AllRequests
ASSUME ConfigurationsAssumption ==
    \A c \in Configurations :
        /\ c.sourceRoot \in Seq(Names)
        /\ \A p \in DOMAIN c.projects : c.projects[p] \in Seq(Names)
ASSUME MaxGeneratesAssumption == MaxGenerates \in Nat

NoChoice == [language |-> "ts", name |-> "given", directory |-> "none", manager |-> "none",
             dryRun |-> FALSE, skipInstall |-> FALSE, skipGit |-> FALSE]
NoRequest == [schematic |-> "module", alias |-> FALSE, location |-> <<>>, flat |-> FALSE,
              spec |-> "none", project |-> "none", dryRun |-> FALSE]

VARIABLES
    config,          \* the configuration of the project
    choice,          \* the options of new
    newAt,           \* where new is
    newCode,         \* its exit code, or -1
    createdIn,       \* the directories new worked in
    installedIn,
    gitIn,           \* the directory with the repository,
    ignoredIn,       \* and with .gitignore
    request,         \* the options of generate
    generateAt,      \* where generate is
    sourceRoot,      \* the root it worked out
    generates        \* how many generate commands there were

newVars == <<choice, newAt, newCode, createdIn, installedIn, gitIn, ignoredIn>>
generateVars == <<request, generateAt, sourceRoot, generates>>
projectVars == <<schematicVars, config, newVars, generateVars>>

ProjectInit ==
    /\ newAt = "idle" /\ newCode = -1
    /\ choice = NoChoice
    /\ createdIn = "none" /\ installedIn = "none" /\ gitIn = "none" /\ ignoredIn = "none"
    /\ generateAt = "idle" /\ generates = 0 /\ sourceRoot = <<>> /\ request = NoRequest
    /\ config \in Configurations
    /\ language \in {"none", "ts", "js"}
    /\ IF language = "none" THEN files = {} /\ modules = <<>>
       ELSE files = Application(config.sourceRoot).files
            /\ \E source \in Edited(Application(config.sourceRoot).source) :
                   modules = [m \in {RootModule(config.sourceRoot)} |-> source]

-----------------------------------------------------------------------------
(* new                                                                     *)

NewChoices ==
    [language : {"ts", "js", "other"}, name : {"given", "asked", "empty"},
     directory : {"none", "dashed", "Mixed"}, manager : {"none", "npm", "other"},
     dryRun : BOOLEAN, skipInstall : BOOLEAN, skipGit : BOOLEAN]

\* dasherize: another directory if there are capitals in the name.
Dasherized(dir) == IF dir = "Mixed" THEN "mixed" ELSE dir

\* Without directory it is the name's; a name that is empty stays so, whatever
\* is answered, and its directory is the current one.
ProjectDirectory ==
    IF choice.directory # "none" THEN choice.directory
    ELSE IF choice.name = "empty" THEN "current" ELSE "name"

\* The options are read.  Another language is thrown, and nobody catches it.
ParseNew(c) ==
    /\ newAt = "idle" /\ choice' = c
    /\ IF c.language = "other" THEN newAt' = "ended" /\ newCode' = 1
       ELSE newAt' = "create" /\ UNCHANGED newCode
    /\ UNCHANGED <<schematicVars, config, createdIn, installedIn, gitIn, ignoredIn, generateVars>>

\* createApplicationFiles: the schematic reports what it would do, writes the
\* project, or fails, which ends the process.
CreateApplicationFiles ==
    /\ newAt = "create"
    /\ \/ newAt' = "ended" /\ newCode' = 1
          /\ UNCHANGED <<schematicVars, config, createdIn>>
       \/ /\ newAt' = "install" /\ UNCHANGED newCode
          /\ IF choice.dryRun THEN UNCHANGED <<schematicVars, config, createdIn>>
             ELSE /\ createdIn' = ProjectDirectory
                  /\ CreateApplication(choice.language, <<"src">>)
                  /\ config' = [sourceRoot |-> <<"src">>, projects |-> <<>>, spec |-> "none"]
    /\ UNCHANGED <<choice, installedIn, gitIn, ignoredIn, generateVars>>

\* installPackages: errors are printed, also that there is no such package
\* manager.  It works in the directory as dasherize has it: if that is not
\* there the process cannot be spawned, an event nobody listens to.
InstallPackages ==
    /\ newAt = "install"
    /\ LET dir == Dasherized(ProjectDirectory)
       IN  \/ /\ choice.skipInstall \/ choice.dryRun \/ choice.manager = "other"
              /\ newAt' = "git" /\ UNCHANGED <<installedIn, newCode>>
           \/ /\ ~choice.skipInstall /\ ~choice.dryRun /\ choice.manager # "other"
              /\ \/ newAt' = "git" /\ installedIn' \in {"none", dir} /\ UNCHANGED newCode
                 \/ /\ dir # ProjectDirectory
                    /\ newAt' = "ended" /\ newCode' = 1 /\ UNCHANGED installedIn
    /\ UNCHANGED <<schematicVars, config, choice, createdIn, gitIn, ignoredIn, generateVars>>

\* git init, whose failure is printed and no more, so that there is no repository
\* but .gitignore; to fail to write that is not caught.  The process ends.
InitGit ==
    /\ newAt = "git" /\ newAt' = "ended"
    /\ IF choice.dryRun \/ choice.skipGit THEN newCode' = 0 /\ UNCHANGED <<gitIn, ignoredIn>>
       ELSE /\ gitIn' \in {"none", ProjectDirectory}
            /\ \/ newCode' = 1 /\ UNCHANGED ignoredIn
               \/ newCode' = 0 /\ ignoredIn' = ProjectDirectory
    /\ UNCHANGED <<schematicVars, config, choice, createdIn, installedIn, generateVars>>

NewNext == CreateApplicationFiles \/ InstallPackages \/ InitGit

-----------------------------------------------------------------------------
(* generate                                                                *)

\* Mutant: nothing said means spec files.
IsSpecByDefault(r) ==
    r.spec # "no-spec" /\ config.spec # "off"

\* isSpec.  An option --spec says nothing: only --no-spec is known to have been
\* given.  The configuration knows schematics by their names, not their aliases.
IsSpec(r) ==
    /\ r.spec # "no-spec"
    /\ \/ config.spec = "on"
       \/ config.spec = "services" /\ r.schematic = "service" /\ ~r.alias

Projects == DOMAIN config.projects

\* shouldCreateMultiRepo
ShouldAsk(r) == Projects # {} /\ r.project = "none"

\* The options are read, and the configuration.  With --project the source root
\* is the one of the configuration, too.
ParseGenerate(r) ==
    /\ generateAt = "idle" /\ generates < MaxGenerates
    /\ generates' = generates + 1 /\ request' = r
    /\ sourceRoot' = config.sourceRoot
    /\ generateAt' = IF ShouldAsk(r) THEN "ask" ELSE "execute"
    /\ UNCHANGED <<schematicVars, config, newVars>>

\* The answer is the default, or a project; a project that is called like the
\* default root is taken for it.
Ask ==
    /\ generateAt = "ask" /\ generateAt' = "execute"
    /\ \/ UNCHANGED sourceRoot
       \/ \E p \in Projects : <<p>> # config.sourceRoot /\ sourceRoot' = config.projects[p]
    /\ UNCHANGED <<schematicVars, config, newVars, request, generates>>

\* The schematic runs; what it reports or throws is printed.  The process ends.
Execute ==
    /\ generateAt = "execute" /\ generateAt' = "idle"
    /\ request' = NoRequest /\ sourceRoot' = <<>>
    /\ \/ UNCHANGED schematicVars
       \/ /\ ~request.dryRun
          /\ GenerateElement(request.schematic, sourceRoot, request.location, request.flat,
                             IsSpec(request))
    /\ UNCHANGED <<config, newVars, generates>>

GenerateNext == Ask \/ Execute

-----------------------------------------------------------------------------
(* Properties                                                              *)

ProjectTypeOK ==
    /\ SchematicsTypeOK
    /\ newAt \in {"idle", "create", "install", "git", "ended"}
    /\ newCode \in {-1, 0, 1} /\ (newCode # -1 <=> newAt = "ended")
    /\ generateAt \in {"idle", "ask", "execute"} /\ generates \in 0..MaxGenerates

\* When new reports success its project is there, unless it was a dry run, with
\* .gitignore in the directory of its files, the git repository in no directory
\* but that one, nor the packages, up to the spelling of its name.  The repository
\* and the packages may be missing: new prints that they could not be made.
ProjectIsWhole ==
    newCode = 0 =>
        /\ createdIn = IF choice.dryRun THEN "none" ELSE ProjectDirectory
        /\ ignoredIn = IF choice.skipGit THEN "none" ELSE createdIn
        /\ gitIn \in {"none", ignoredIn}
        /\ installedIn \in {"none", Dasherized(createdIn)}

\* A dry run of new writes nothing, at any moment.
DryRunWritesNothing ==
    newAt \notin {"idle"} /\ choice.dryRun =>
        createdIn = "none" /\ installedIn = "none" /\ gitIn = "none" /\ ignoredIn = "none"

\* A project in TypeScript gets spec files only where its configuration wants
\* them, and not against --no-spec.
SpecsOnlyWhereConfigured ==
    [][(\E f \in files' \ files : f.spec) /\ language = "ts" =>
          request.spec # "no-spec" /\ config.spec \notin {"none", "off"}]_files

\* Every file lies under the root of the configuration or of one of its projects.
SourceRoots == {config.sourceRoot} \cup {config.projects[p] : p \in Projects}
FilesLieUnderRoots == \A f \in files : \E r \in SourceRoots : IsPrefix(r, f.dir)

\* Every element that was generated under the root of the configuration, where the
\* application's module is, interceptors apart, is imported once, by a module
\* in its directory or above.
ElementsAreImported ==
    \A f \in files \ Application(config.sourceRoot).files :
        ~f.spec /\ f.type # "interceptor" /\ IsPrefix(config.sourceRoot, f.dir)
        => Cardinality({m \in DOMAIN modules : \E i \in OwnImports(m) :
                           Resolved(m.dir, i.from) = [dir |-> f.dir, symbol |-> Symbol(f)]
                           /\ IsPrefix(m.dir, f.dir)}) = 1
=============================================================================
