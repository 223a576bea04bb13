----------------------------- MODULE WatchMode -----------------------------
(***************************************************************************)
(* The commands build and start of @typeix/cli: the compilation, watched   *)
(* or not, and the restart of the server that start runs.  A compilation   *)
(* that went well emits "spawn"; start's listener kills the process it     *)
(* remembers and starts another one, and remembers it when that is done.   *)
(* Compilers, tree-kill and the processes are external: tree-kill calls    *)
(* back when it has signalled the process, which may live on for a while,  *)
(* and does not mind a process that is gone.  The spawn events of a run    *)
(* are numbered; a server has the number of the event it was started for.  *)
(***************************************************************************)
EXTENDS Naturals, FiniteSets

CONSTANT MaxEvents       \* bound on spawn events

ASSUME MaxEventsAssumption == MaxEvents \in Nat \ {0}

Events == 1..MaxEvents

VARIABLES
    options,     \* of the command line
    at,          \* where handle is: idle, config, compile, watching, ended
    code,        \* the exit code the command asked for, or None
    version,     \* of the sources the output was compiled from
    plugged,     \* the compiler plugins have worked on the output
    events,      \* how many spawn events start has heard
    childProcess,    \* the server that is remembered, or None
    restart,     \* restart[e]: none, killing, stuck, done
    target,      \* target[e]: the server that is killed first
    process,     \* process[e]: none, up, dying, gone
    source,      \* source[e]: the version the server was started on
    pluggedIn,   \* pluggedIn[e]: on the work of the plugins
    overlaps     \* history: events heard while a server was being killed

None == 0

restarting == <<events, childProcess, restart, target, process, source, pluggedIn, overlaps>>
watchVars == <<options, at, code, version, plugged, restarting>>

Options == [command : {"build", "start"}, watch : BOOLEAN, webpack : BOOLEAN]

WatchTypeOK ==
    /\ options \in Options
    /\ at \in {"idle", "config", "compile", "watching", "ended"}
    /\ code \in {None, 1}
    /\ version \in Nat /\ plugged \in BOOLEAN
    /\ events \in 0..MaxEvents /\ overlaps \in 0..events
    /\ childProcess \in 0..events
    /\ restart \in [Events -> {"none", "killing", "stuck", "done"}]
    /\ target \in [Events -> 0..MaxEvents]
    /\ process \in [Events -> {"none", "up", "dying", "gone"}]
    /\ source \in [Events -> 0..version] /\ pluggedIn \in [Events -> BOOLEAN]
    /\ \A e \in Events : process[e] # "none" => restart[e] = "done" /\ source[e] > 0

WatchInit ==
    /\ options = [command |-> "build", watch |-> FALSE, webpack |-> FALSE]
    /\ at = "idle" /\ code = None
    /\ version = 0 /\ plugged = FALSE
    /\ events = 0 /\ childProcess = None /\ overlaps = 0
    /\ restart = [e \in Events |-> "none"] /\ target = [e \in Events |-> None]
    /\ process = [e \in Events |-> "none"]
    /\ source = [e \in Events |-> 0] /\ pluggedIn = [e \in Events |-> FALSE]

-----------------------------------------------------------------------------
(* reStartServer                                                           *)

\* spawn for event e: a process on version v, which is remembered.
Start(e, v, p) ==
    /\ process' = [process EXCEPT ![e] = "up"]
    /\ source' = [source EXCEPT ![e] = v] /\ pluggedIn' = [pluggedIn EXCEPT ![e] = p]
    /\ restart' = [restart EXCEPT ![e] = "done"]
    /\ childProcess' = e

Killing == {e \in Events : restart[e] = "killing"}

\* A spawn event when version v is there.  Only start listens.  Without a
\* process to kill the server is started at once.
Spawn(v, p) ==
    IF options.command = "start"
    THEN LET e == events + 1
         IN  /\ events < MaxEvents /\ events' = e
             /\ target' = [target EXCEPT ![e] = childProcess]
             /\ overlaps' = IF Killing = {} THEN overlaps ELSE overlaps + 1
             /\ IF childProcess = None THEN Start(e, v, p)
                ELSE /\ restart' = [restart EXCEPT ![e] = "killing"]
                     /\ UNCHANGED <<childProcess, process, source, pluggedIn>>
    ELSE UNCHANGED restarting

\* Mutant: a process that another restart has killed already is reported as an
\* error, and an error starts nothing.
KilledMinds(e) ==
    /\ restart[e] = "killing"
    /\ IF process[target[e]] = "up"
       THEN /\ process' = [process EXCEPT ![target[e]] = "dying", ![e] = "up"]
            /\ source' = [source EXCEPT ![e] = version]
            /\ pluggedIn' = [pluggedIn EXCEPT ![e] = plugged]
            /\ restart' = [restart EXCEPT ![e] = "done"] /\ childProcess' = e
       ELSE /\ restart' = [restart EXCEPT ![e] = "done"]
            /\ UNCHANGED <<childProcess, process, source, pluggedIn>>
    /\ UNCHANGED <<options, at, code, version, plugged, events, target, overlaps>>

\* tree-kill calls back: the process has its signal, the next one is started.
Killed(e) ==
    /\ restart[e] = "killing"
    /\ process' = [process EXCEPT ![target[e]] = IF @ = "up" THEN "dying" ELSE @, ![e] = "up"]
    /\ source' = [source EXCEPT ![e] = version]
    /\ pluggedIn' = [pluggedIn EXCEPT ![e] = plugged]
    /\ restart' = [restart EXCEPT ![e] = "done"] /\ childProcess' = e
    /\ UNCHANGED <<options, at, code, version, plugged, events, target, overlaps>>

\* It calls back with an error: the promise is never settled.
KillFails(e) ==
    /\ restart[e] = "killing"
    /\ restart' = [restart EXCEPT ![e] = "stuck"]
    /\ UNCHANGED <<options, at, code, version, plugged, events, childProcess, target,
                   process, source, pluggedIn, overlaps>>

\* A signal works, or a server crashes; nobody listens.
Dies(e) ==
    /\ process[e] \in {"up", "dying"}
    /\ process' = [process EXCEPT ![e] = "gone"]
    /\ UNCHANGED <<options, at, code, version, plugged, events, childProcess, restart, target,
                   source, pluggedIn, overlaps>>

-----------------------------------------------------------------------------
(* handle                                                                  *)

\* The command is typed.
ParseBuild(o) ==
    /\ at = "idle" /\ at' = "config" /\ options' = o
    /\ UNCHANGED <<code, version, plugged, restarting>>

\* A config that cannot be read is printed, and the command ends.
ReadConfig ==
    /\ at = "config" /\ at' \in {"compile", "ended"}
    /\ UNCHANGED <<options, code, version, plugged, restarting>>

\* Mutant: what could not be compiled is started all the same.
CompileOnceSpawns ==
    /\ at = "compile" /\ ~options.watch /\ ~options.webpack
    /\ at' = "ended"
    /\ \/ UNCHANGED <<code, version, plugged, restarting>>
       \/ version' = 1 /\ plugged' = TRUE /\ code' \in {None, 1} /\ Spawn(1, TRUE)
    /\ UNCHANGED options

\* compileTypescript: plugins that cannot be loaded end the command; errors
\* end the process after the output is written.
CompileOnce ==
    /\ at = "compile" /\ ~options.watch /\ ~options.webpack
    /\ at' = "ended"
    /\ \/ UNCHANGED <<code, version, plugged, restarting>>
       \/ /\ version' = 1 /\ plugged' = TRUE
          /\ \/ code' = 1 /\ UNCHANGED restarting
             \/ code' = code /\ Spawn(1, TRUE)
    /\ UNCHANGED options

\* compileTypescript with watch: the watching program writes its output and
\* reports (and spawns) before the plugins are loaded and write theirs, so the
\* first server may find either.  Plugins may not load; the watch goes on.
CompileAndWatch ==
    /\ at = "compile" /\ options.watch /\ ~options.webpack
    /\ at' = "watching"
    /\ version' = 1 /\ plugged' \in BOOLEAN
    /\ UNCHANGED restarting \/ \E p \in {FALSE, plugged'} : Spawn(1, p)
    /\ UNCHANGED <<options, code>>

\* useWebpackCompiler: its callback spawns, whether there are errors or not.
Bundle ==
    /\ at = "compile" /\ options.webpack
    /\ \/ at' = "ended" /\ UNCHANGED <<version, plugged, restarting>>
       \/ /\ at' = IF options.watch THEN "watching" ELSE "ended"
          /\ version' = 1 /\ plugged' \in BOOLEAN
          /\ Spawn(1, plugged')
    /\ UNCHANGED <<options, code>>

\* A source changes.  The watching program knows no plugins, and does not spawn
\* if there are errors.
Recompile ==
    /\ at = "watching" /\ version < MaxEvents
    /\ version' = version + 1
    /\ IF options.webpack THEN plugged' \in BOOLEAN /\ Spawn(version + 1, plugged')
       ELSE plugged' = FALSE /\ (UNCHANGED restarting \/ Spawn(version + 1, FALSE))
    /\ UNCHANGED <<options, at, code>>

WatchNext ==
    \/ ReadConfig \/ CompileOnce \/ CompileAndWatch \/ Bundle \/ Recompile
    \/ \E e \in Events : Killed(e) \/ KillFails(e) \/ Dies(e)

\* tree-kill calls back, one way or the other.
WatchFairness == \A e \in Events : WF_watchVars(Killed(e) \/ KillFails(e))

-----------------------------------------------------------------------------
(* Properties                                                              *)

Up == {e \in Events : process[e] = "up"}

\* Old servers do not pile up: there is one, and one more at most for every
\* change that was compiled while the server was still being killed.
NoMoreServersThanOverlaps == Cardinality(Up) <= 1 + overlaps

\* What was compiled is served: a server that was started on this version or a
\* later one, unless a kill failed in the meantime.
LatestIsServed ==
    \A v \in 1..MaxEvents :
        (version = v /\ Killing # {}) ~>
            \/ \E e \in Events : source[e] >= v
            \/ \E e \in Events : restart[e] = "stuck"

\* Without watch and webpack, no server is started on what the plugins have
\* not worked on, and none at all when there were errors.
PluginsComeFirst ==
    ~options.watch /\ ~options.webpack =>
        \A e \in Events : process[e] # "none" => pluggedIn[e] /\ code = None
=============================================================================
