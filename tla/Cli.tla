-------------------------------- MODULE Cli --------------------------------
(***************************************************************************)
(* The program typeix: setup creates the commands, and commander hands the *)
(* command line to one of them.  A process runs one command; in a project  *)
(* that new has made, or that was there, generate can be run again and     *)
(* again, each time by a process of its own.                               *)
(***************************************************************************)
EXTENDS WatchMode, PackageCommands, ProjectCommands

VARIABLE command         \* the command that was typed, or none

cliVars == <<command, watchVars, packageVars, projectVars>>

CliInit ==
    /\ command = "none"
    /\ WatchInit /\ PackageInit /\ ProjectInit

WatchCommand ==
    /\ \/ command = "none" /\ command' = "watch" /\ \E o \in Options : ParseBuild(o)
       \/ command = "watch" /\ UNCHANGED command /\ WatchNext
    /\ UNCHANGED <<packageVars, projectVars>>

PackageCommand ==
    /\ \/ command = "none" /\ command' = "package" /\ \E t \in Typed : Parse(t)
       \/ command = "package" /\ UNCHANGED command /\ PackageNext
    /\ UNCHANGED <<watchVars, projectVars>>

NewCommand ==
    /\ \/ command = "none" /\ language = "none" /\ command' = "new" /\ \E c \in NewChoices : ParseNew(c)
       \/ command = "new" /\ UNCHANGED command /\ NewNext
    /\ UNCHANGED <<watchVars, packageVars>>

\* The user turns to the new project, with a process that knows nothing of new.
EnterProject ==
    /\ command = "new" /\ newAt = "ended" /\ language # "none"
    /\ command' = "generate"
    /\ newAt' = "idle" /\ newCode' = -1
    /\ createdIn' = "none" /\ installedIn' = "none" /\ gitIn' = "none" /\ ignoredIn' = "none"
    /\ choice' = NoChoice
    /\ UNCHANGED <<watchVars, packageVars, schematicVars, config, generateVars>>

GenerateCommand ==
    /\ \/ /\ command \in {"none", "generate"}
          /\ language # "none" /\ command' = "generate"
          /\ \E r \in Requests : ParseGenerate(r)
       \/ command = "generate" /\ UNCHANGED command /\ GenerateNext
    /\ UNCHANGED <<watchVars, packageVars>>

CliNext == WatchCommand \/ PackageCommand \/ NewCommand \/ EnterProject \/ GenerateCommand

CliSpec == CliInit /\ [][CliNext]_cliVars /\ WatchFairness

-----------------------------------------------------------------------------
\* The started servers: there are no more of them than restarts overlapped, and
\* one that is not watched is started only with output that the plugins changed.
ServersAreSound == WatchTypeOK /\ NoMoreServersThanOverlaps /\ PluginsComeFirst

\* Packages: the package manager changes what the words name and nothing else, one
\* that was there is lost only by remove or by a forced update that failed
\* half-way, and a dry run stays one wherever the code passes it on.
PackagesAreSound == PackageTypeOK /\ OnlyTheNamed /\ LostOnlyByForce /\ DryRunIsPassedOn

\* The project: new leaves all of its files or reports an error, and a repository
\* that could not be made it only prints; a dry run writes nothing, elements lie
\* under a source root, each is declared in the nearest module and imported there
\* from where it lies, at a place where an import may stand.
ProjectIsSound ==
    /\ ProjectTypeOK /\ ProjectIsWhole /\ DryRunWritesNothing
    /\ ImportsResolve /\ DeclaredIsImported /\ ElementsAreImported
    /\ ImportsComeFirst /\ FilesLieUnderRoots
=============================================================================
