--------------------------- MODULE PackageCommands ---------------------------
(***************************************************************************)
(* The commands add, update and remove of @typeix/cli.  Each builds a      *)
(* command line for npm or yarn from the package it was given and from     *)
(* what getRemainingFlags makes of the words typed; the package managers   *)
(* are external: they read every word that is no flag as a package.        *)
(***************************************************************************)
EXTENDS Naturals, Sequences, SequencesExt, FiniteSets

CONSTANT Libraries       \* names of packages

Commands == {"add", "update", "remove"}
LongFlags == {"--dry-run", "--force", "--save-dev"}
ShortFlags == {"-d", "-f"}
Flags == LongFlags \cup ShortFlags

ASSUME LibrariesAssumption == Libraries \cap (Commands \cup Flags) = {}

VARIABLES
    typed,       \* the command line: command, library, flags, flags first or last
    manager,     \* getPackageManagerName: yarn, or npm
    stage,       \* where the command is: idle, operate, run, ended
    pending,     \* the operations that are still to be run
    installed,   \* the packages of the project
    before,      \* history: the packages when the command was typed
    failed       \* an operation failed

packageVars == <<typed, manager, stage, pending, installed, before, failed>>

\* What can be typed: update and remove know no other options than their own, and
\* a flag that add does not know is taken for the package if it comes first.
OptionsOf == [add |-> {"--dry-run", "-d", "--save-dev"}, remove |-> {"--dry-run", "-d"},
              update |-> {"--dry-run", "-d", "--force", "-f"}]
FlagLists == {<<>>} \cup {<<f>> : f \in Flags} \cup {<<f, g>> : f, g \in Flags}
Typed == {t \in [command : Commands, library : Libraries \cup {""}, flags : FlagLists,
                 flagsFirst : BOOLEAN] :
              /\ Range(t.flags) \subseteq OptionsOf[t.command]
              /\ t.flagsFirst => "--save-dev" \notin Range(t.flags)}

DryRun == {"--dry-run", "-d"} \cap Range(typed.flags) # {}
Forced == {"--force", "-f"} \cap Range(typed.flags) # {}

\* program.args
Args == <<typed.command>>
        \o IF typed.flagsFirst THEN typed.flags \o <<typed.library>>
           ELSE <<typed.library>> \o typed.flags

\* Mutant: the words before the first long flag are passed on too.
RemainingAll == Args

\* getRemainingFlags: the words from the first long flag on, all words if there
\* is none.
RemainingFlags ==
    LET long == {i \in DOMAIN Args : Args[i] \in LongFlags}
    IN  IF long = {} THEN Args
        ELSE SubSeq(Args, CHOOSE i \in long : \A j \in long : i <= j, Len(Args))

\* The words that npm and yarn are given.
Words == Append(RemainingFlags, typed.library)
Named == Range(Words) \ Flags

\* add, delete, update; a forced update is a delete and an add.
OperationOf == [add |-> "install", remove |-> "uninstall", update |-> "update"]
Operations ==
    IF typed.command = "update" /\ Forced THEN <<"uninstall", "install">>
    ELSE <<OperationOf[typed.command]>>

\* The packages there may be after an operation that succeeds.  npm knows
\* --dry-run; yarn does not remove what the project does not have.
Effects(operation) ==
    IF operation = "update" \/ (manager = "npm" /\ "--dry-run" \in Range(Words)) THEN {installed}
    ELSE IF operation = "install" THEN {installed \cup Named}
    ELSE {i \in {installed \ Named} : manager = "npm" \/ Named \subseteq installed}

PackageInit ==
    /\ typed = [command |-> "add", library |-> "", flags |-> <<>>, flagsFirst |-> FALSE]
    /\ manager \in {"npm", "yarn"}
    /\ stage = "idle" /\ pending = <<>>
    /\ installed \in SUBSET (Libraries \cup Commands) /\ before = installed
    /\ failed = FALSE

\* A command is typed.  An empty name is an error that nobody catches.
Parse(t) ==
    /\ stage = "idle" /\ typed' = t
    /\ stage' = IF t.library = "" THEN "ended" ELSE "operate"
    /\ UNCHANGED <<manager, pending, installed, before, failed>>

\* The package manager is looked up, the operations begin.
Begin ==
    /\ stage = "operate" /\ stage' = "run" /\ pending' = Operations
    /\ UNCHANGED <<typed, manager, installed, before, failed>>

\* An operation succeeds, and the next one is next.
Succeeds ==
    /\ stage = "run" /\ pending # <<>>
    /\ installed' \in Effects(Head(pending))
    /\ pending' = Tail(pending)
    /\ stage' = IF Len(pending) = 1 THEN "ended" ELSE "run"
    /\ UNCHANGED <<typed, manager, before, failed>>

\* An operation fails: this is printed, and the rest is dropped.
Fails ==
    /\ stage = "run" /\ pending # <<>>
    /\ failed' = TRUE /\ pending' = <<>> /\ stage' = "ended"
    /\ UNCHANGED <<typed, manager, installed, before>>

PackageNext == Begin \/ Succeeds \/ Fails

-----------------------------------------------------------------------------
(* Properties                                                              *)

PackageTypeOK ==
    /\ stage \in {"idle", "operate", "run", "ended"}
    /\ installed \subseteq Libraries \cup Commands
    /\ Len(pending) <= 2 /\ (stage = "ended" => pending = <<>>)

Changed == (before \ installed) \cup (installed \ before)

\* A command changes the package it names and no other one; without a long flag
\* the word that was typed for the command is taken for a package, too.
OnlyTheNamed ==
    Changed \subseteq {typed.library}
                      \cup IF Range(typed.flags) \cap LongFlags = {} THEN {typed.command} ELSE {}

\* A package is lost by remove, or when a forced update fails half way; while
\* the command runs it may be missing.
LostOnlyByForce ==
    stage = "ended" /\ typed.library \in before \ installed =>
        typed.command = "remove" \/ (Forced /\ failed)

\* A dry run changes nothing if it was asked for in full and the package
\* manager is npm.
DryRunIsPassedOn ==
    manager = "npm" /\ "--dry-run" \in Range(typed.flags) => installed = before
=============================================================================
