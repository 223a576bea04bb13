------------------------------ MODULE CliProofs ------------------------------
(***************************************************************************)
(* Theorems about the program typeix, for any number of compilations, for  *)
(* every package and for every project: servers that are restarted do not  *)
(* pile up, packages are changed that were named, and no others, and the   *)
(* sources of a project stay in order.                                     *)
(***************************************************************************)
EXTENDS Cli, SequenceTheorems, FiniteSetTheorems, WellFoundedInduction, TLAPS

-----------------------------------------------------------------------------
(* Restarts                                                                *)

\* Nothing has been started before the first compilation, which has started a
\* server that is remembered from then on.
BeforeTheFirst ==
    /\ at \in {"idle", "config", "compile"} => version = 0 /\ events = 0 /\ code = None
    /\ events > 0 => version > 0 /\ childProcess # None
    /\ \A e \in Events : restart[e] = "none" <=> e > events

\* What is killed is a server that was started by another event, and so is
\* what is remembered.
KillsStarted ==
    /\ \A e \in Events : restart[e] = "killing" =>
          target[e] \in Events /\ restart[target[e]] = "done"
    /\ childProcess # None => restart[childProcess] = "done"

\* The servers somebody is killing, and those nobody will ever kill.
Targets == {target[e] : e \in Killing}
Forgotten == Up \ (Targets \cup {childProcess})

\* Whatever is up has been forgotten, is being killed, or is remembered; each of
\* these costs an overlap, but for one.
Servers ==
    Cardinality(Forgotten) + Cardinality(Killing) + (IF childProcess \in Targets THEN 0 ELSE 1)
        <= 1 + overlaps

\* A server that is not watched was started once the plugins had done their work.
Plugged ==
    /\ ~options.watch /\ ~options.webpack /\ events > 0 =>
          plugged /\ code = None /\ at = "ended"
    /\ at = "watching" => options.watch

WatchInv ==
    /\ WatchTypeOK /\ PluginsComeFirst
    /\ BeforeTheFirst /\ KillsStarted /\ Servers /\ Plugged

\* Some events are being handled, some servers are up: finitely many.
LEMMA EventSetsFinite ==
  ASSUME NEW S \in SUBSET Events
  PROVE  IsFiniteSet(S) /\ Cardinality(S) \in Nat
<1>1. 1 \in Int /\ MaxEvents \in Int
  BY MaxEventsAssumption
<1>2. IsFiniteSet(Events)
  BY <1>1, FS_Interval DEF Events
<1>3. QED
  BY <1>2, FS_Subset, FS_CardinalityType

\* What is counted are sets of events.
LEMMA CountedAreEvents ==
  ASSUME WatchTypeOK, KillsStarted
  PROVE  Killing \in SUBSET Events /\ Targets \in SUBSET Events /\ Up \in SUBSET Events
         /\ Forgotten \in SUBSET Events
  BY DEF WatchTypeOK, KillsStarted, Killing, Targets, Up, Forgotten

\* Every restart kills one server.
LEMMA TargetsAreFew ==
  ASSUME WatchTypeOK, KillsStarted
  PROVE  Cardinality(Targets) <= Cardinality(Killing)
<1> DEFINE f == [e \in Killing |-> target[e]]
<1>1. f \in Surjection(Killing, Targets)
  BY DEF Surjection, Targets
<1>2. IsFiniteSet(Killing)
  BY CountedAreEvents, EventSetsFinite
<1> HIDE DEF f
<1>3. QED
  BY <1>1, <1>2, FS_Surjection

\* The servers that are up are no more than the invariant says.
LEMMA ServersAreFew ==
  ASSUME WatchTypeOK, KillsStarted, Servers
  PROVE  NoMoreServersThanOverlaps
<1>1. /\ IsFiniteSet(Forgotten) /\ Cardinality(Forgotten) \in Nat
      /\ IsFiniteSet(Targets) /\ Cardinality(Targets) \in Nat
      /\ IsFiniteSet(Killing) /\ Cardinality(Killing) \in Nat
      /\ Cardinality(Targets) <= Cardinality(Killing)
  BY CountedAreEvents, EventSetsFinite, TargetsAreFew
<1>2. /\ IsFiniteSet(Forgotten \cup Targets)
      /\ Cardinality(Forgotten \cup Targets) \in Nat
      /\ Cardinality(Forgotten \cup Targets) <= Cardinality(Forgotten) + Cardinality(Targets)
  <2>1. IsFiniteSet(Forgotten \cap Targets)
    BY <1>1, FS_Intersection
  <2>2. Cardinality(Forgotten \cap Targets) \in Nat
    BY <2>1, FS_CardinalityType
  <2>3. /\ IsFiniteSet(Forgotten \cup Targets)
        /\ Cardinality(Forgotten \cup Targets) =
              Cardinality(Forgotten) + Cardinality(Targets) - Cardinality(Forgotten \cap Targets)
    BY <1>1, FS_Union
  <2>4. Cardinality(Forgotten \cup Targets) \in Nat
    BY <2>3, FS_CardinalityType
  <2>5. QED
    BY <1>1, <2>2, <2>3, <2>4
<1>3. overlaps \in Nat
  BY DEF WatchTypeOK
<1>4. IsFiniteSet(Up) /\ Cardinality(Up) \in Nat
  BY CountedAreEvents, EventSetsFinite
<1>5. CASE childProcess \in Targets
  <2>1. Up \subseteq Forgotten \cup Targets
    BY <1>5 DEF Forgotten
  <2>2. Cardinality(Up) <= Cardinality(Forgotten \cup Targets)
    BY <1>2, <2>1, FS_Subset
  <2>3. QED
    BY <1>1, <1>2, <1>3, <1>4, <1>5, <2>2 DEF Servers, NoMoreServersThanOverlaps
<1>6. CASE childProcess \notin Targets
  <2>1. Up \subseteq (Forgotten \cup Targets) \cup {childProcess}
    BY DEF Forgotten
  <2> DEFINE S == Forgotten \cup Targets
  <2> HIDE DEF S
  <2>2. /\ IsFiniteSet(S \cup {childProcess})
        /\ Cardinality(S \cup {childProcess}) <= Cardinality(S) + 1
    <3>1. IsFiniteSet(S) /\ Cardinality(S) \in Nat
      BY <1>2 DEF S
    <3>2. QED
      BY <3>1, FS_AddElement
  <2> USE DEF S
  <2>3. Cardinality(Up) <= Cardinality((Forgotten \cup Targets) \cup {childProcess})
    BY <2>1, <2>2, FS_Subset
  <2>4. Cardinality((Forgotten \cup Targets) \cup {childProcess}) \in Nat
    BY <2>2, FS_CardinalityType
  <2>5. QED
    BY <1>1, <1>2, <1>3, <1>4, <1>6, <2>2, <2>3, <2>4 DEF Servers, NoMoreServersThanOverlaps
<1>7. QED
  BY <1>5, <1>6

-----------------------------------------------------------------------------
(* What restarts cost                                                      *)

\* One element more in S is one more at most.
LEMMA AtMostOneMore ==
  ASSUME NEW S \in SUBSET Events, NEW T \in SUBSET Events, NEW x, S \subseteq T \cup {x}
  PROVE  Cardinality(S) <= Cardinality(T) + 1
<1>1. IsFiniteSet(T) /\ Cardinality(T) \in Nat /\ Cardinality(S) \in Nat
  BY EventSetsFinite
<1>2. IsFiniteSet(T \cup {x}) /\ Cardinality(T \cup {x}) <= Cardinality(T) + 1
  BY <1>1, FS_AddElement
<1>3. Cardinality(S) <= Cardinality(T \cup {x}) /\ Cardinality(T \cup {x}) \in Nat
  BY <1>2, FS_Subset, FS_CardinalityType
<1>4. QED
  BY <1>1, <1>2, <1>3

LEMMA NoMore ==
  ASSUME NEW S \in SUBSET Events, NEW T \in SUBSET Events, S \subseteq T
  PROVE  Cardinality(S) <= Cardinality(T)
  BY EventSetsFinite, FS_Subset

\* A restart that ends, one way or the other, is one less.
LEMMA OneLessKilling ==
  ASSUME WatchTypeOK, NEW e \in Events, restart[e] = "killing", target' = target,
         NEW x \in {"done", "stuck"}, restart' = [restart EXCEPT ![e] = x]
  PROVE  /\ Killing' = Killing \ {e}
         /\ Targets' \subseteq Targets /\ Targets \subseteq Targets' \cup {target[e]}
         /\ Cardinality(Killing') = Cardinality(Killing) - 1
<1>1. Killing' = Killing \ {e} /\ e \in Killing /\ Killing \in SUBSET Events
  BY DEF WatchTypeOK, Killing
<1>2. Targets' \subseteq Targets /\ Targets \subseteq Targets' \cup {target[e]}
  BY <1>1 DEF Targets
<1>3. QED
  BY <1>1, <1>2, EventSetsFinite, FS_RemoveElement

\* A server that was killed may have been the remembered one, which is then
\* forgotten, or replaced.
LEMMA KilledServers ==
  ASSUME WatchTypeOK, WatchTypeOK', KillsStarted, KillsStarted', Servers, NEW e \in Events, Killed(e)
  PROVE  Servers'
<1>1. /\ restart[e] = "killing" /\ restart' = [restart EXCEPT ![e] = "done"]
      /\ target' = target /\ childProcess' = e /\ overlaps' = overlaps
      /\ process' = [process EXCEPT ![target[e]] = IF @ = "up" THEN "dying" ELSE @, ![e] = "up"]
  BY DEF Killed
<1>2. /\ Killing' = Killing \ {e}
      /\ Targets' \subseteq Targets /\ Targets \subseteq Targets' \cup {target[e]}
      /\ Cardinality(Killing') = Cardinality(Killing) - 1
  BY <1>1, OneLessKilling
<1>3. Forgotten' \subseteq Forgotten \cup ({childProcess} \ Targets)
  <2>1. target[e] \in Events /\ target[e] # e
    BY <1>1 DEF KillsStarted
  <2>2. Up' \subseteq (Up \ {target[e]}) \cup {e}
    BY <1>1, <2>1 DEF Up, WatchTypeOK
  <2>3. QED
    BY <1>1, <1>2, <2>2 DEF Forgotten
<1>4. /\ Cardinality(Forgotten) \in Nat /\ Cardinality(Forgotten') \in Nat
      /\ Cardinality(Killing) \in Nat /\ overlaps \in Nat
      /\ Forgotten \in SUBSET Events /\ Forgotten' \in SUBSET Events
  <2>1. Forgotten \in SUBSET Events /\ Forgotten' \in SUBSET Events /\ Killing \in SUBSET Events
    BY CountedAreEvents DEF Forgotten, Up
  <2>2. QED
    BY <2>1, EventSetsFinite DEF WatchTypeOK
<1>5. CASE childProcess \in Targets
  <2>1. Cardinality(Forgotten') <= Cardinality(Forgotten)
    BY <1>3, <1>4, <1>5, NoMore
  <2>2. QED
    BY <1>1, <1>2, <1>4, <1>5, <2>1 DEF Servers
<1>6. CASE childProcess \notin Targets
  <2>1. Cardinality(Forgotten') <= Cardinality(Forgotten) + 1
    BY <1>3, <1>4, <1>6, AtMostOneMore
  <2>2. QED
    BY <1>1, <1>2, <1>4, <1>6, <2>1 DEF Servers
<1>7. QED
  BY <1>5, <1>6

\* A server whose kill failed is forgotten, unless it is the remembered one.
LEMMA KillFailsServers ==
  ASSUME WatchTypeOK, KillsStarted, Servers, NEW e \in Events, KillFails(e)
  PROVE  Servers'
<1>1. /\ restart[e] = "killing" /\ restart' = [restart EXCEPT ![e] = "stuck"]
      /\ UNCHANGED <<target, childProcess, overlaps, process>>
  BY DEF KillFails
<1>2. /\ Killing' = Killing \ {e}
      /\ Targets' \subseteq Targets /\ Targets \subseteq Targets' \cup {target[e]}
      /\ Cardinality(Killing') = Cardinality(Killing) - 1
  BY <1>1, OneLessKilling
<1>3. Forgotten' \subseteq Forgotten \cup ({target[e]} \ {childProcess})
  <2>1. Up' = Up
    BY <1>1 DEF Up
  <2>2. QED
    BY <1>1, <1>2, <2>1 DEF Forgotten
<1>4. /\ Cardinality(Forgotten) \in Nat /\ Cardinality(Forgotten') \in Nat
      /\ Cardinality(Killing) \in Nat /\ overlaps \in Nat
      /\ Forgotten \in SUBSET Events /\ Forgotten' \in SUBSET Events
  <2>1. Forgotten \in SUBSET Events /\ Forgotten' \in SUBSET Events /\ Killing \in SUBSET Events
    BY CountedAreEvents DEF Forgotten, Up
  <2>2. QED
    BY <2>1, EventSetsFinite DEF WatchTypeOK
<1>5. CASE childProcess = target[e]
  <2>1. Cardinality(Forgotten') <= Cardinality(Forgotten)
    BY <1>3, <1>4, <1>5, NoMore
  <2>2. childProcess \in Targets
    BY <1>1, <1>5 DEF Targets, Killing
  <2>3. QED
    BY <1>1, <1>2, <1>4, <2>1, <2>2 DEF Servers
<1>6. CASE childProcess # target[e]
  <2>1. Cardinality(Forgotten') <= Cardinality(Forgotten) + 1
    BY <1>3, <1>4, <1>6, AtMostOneMore
  <2>2. childProcess \in Targets <=> childProcess \in Targets'
    BY <1>2, <1>6
  <2>3. QED
    BY <1>1, <1>2, <1>4, <2>1, <2>2 DEF Servers
<1>7. QED
  BY <1>5, <1>6

\* One that dies is up no longer.
LEMMA DiesServers ==
  ASSUME WatchTypeOK, KillsStarted, Servers, NEW e \in Events, Dies(e)
  PROVE  Servers'
<1>1. Up' \subseteq Up /\ Killing' = Killing /\ Targets' = Targets
      /\ childProcess' = childProcess /\ overlaps' = overlaps
  BY DEF Dies, Up, Killing, Targets, WatchTypeOK
<1>2. Forgotten' \subseteq Forgotten
  BY <1>1 DEF Forgotten
<1>3. Forgotten \in SUBSET Events /\ Forgotten' \in SUBSET Events /\ Killing \in SUBSET Events
  BY <1>2, CountedAreEvents
<1>4. Cardinality(Forgotten') <= Cardinality(Forgotten)
  BY <1>2, <1>3, NoMore
<1>5. /\ Cardinality(Forgotten) \in Nat /\ Cardinality(Forgotten') \in Nat
      /\ Cardinality(Killing) \in Nat /\ overlaps \in Nat
  BY <1>3, EventSetsFinite DEF WatchTypeOK
<1>6. QED
  BY <1>1, <1>4, <1>5 DEF Servers

\* A spawn event: the server that is remembered is to be killed, or there is none.
LEMMA SpawnServers ==
  ASSUME WatchTypeOK, KillsStarted, BeforeTheFirst, Servers, WatchTypeOK', KillsStarted',
         NEW v, NEW p, Spawn(v, p)
  PROVE  Servers'
<1>1. CASE options.command # "start"
  <2>1. UNCHANGED <<childProcess, restart, target, process, overlaps>>
    BY <1>1 DEF Spawn, restarting
  <2>2. Up' = Up /\ Killing' = Killing /\ Targets' = Targets
    BY <2>1 DEF Up, Killing, Targets
  <2>3. QED
    BY <2>1, <2>2 DEF Servers, Forgotten
<1>2. CASE options.command = "start"
  <2> DEFINE e == events + 1
  <2>1. /\ e \in Events /\ restart[e] = "none" /\ target' = [target EXCEPT ![e] = childProcess]
        /\ overlaps' = IF Killing = {} THEN overlaps ELSE overlaps + 1
    <3>1. events < MaxEvents /\ events \in Nat /\ MaxEvents \in Nat
      BY <1>2, MaxEventsAssumption DEF Spawn, WatchTypeOK
    <3>2. e \in Events /\ e > events
      BY <3>1 DEF Events
    <3>3. restart[e] = "none"
      BY <3>2 DEF BeforeTheFirst
    <3>4. QED
      BY <1>2, <3>2, <3>3 DEF Spawn
  <2>2. /\ childProcess = None => Start(e, v, p)
        /\ childProcess # None => /\ restart' = [restart EXCEPT ![e] = "killing"]
                                  /\ childProcess' = childProcess /\ process' = process
    BY <1>2 DEF Spawn
  <2> HIDE DEF e
  <2>3. overlaps \in Nat /\ overlaps' \in Nat
    BY DEF WatchTypeOK
  <2>4. CASE childProcess = None
    <3>1. \A d \in Events : restart[d] = "none" /\ process[d] = "none"
      BY <2>4 DEF BeforeTheFirst, WatchTypeOK, Events
    <3>2. restart' = [restart EXCEPT ![e] = "done"] /\ process' = [process EXCEPT ![e] = "up"]
          /\ childProcess' = e
      BY <2>2, <2>4 DEF Start
    <3>3. Killing' = {} /\ Targets' = {}
      BY <3>1, <3>2 DEF Killing, Targets, WatchTypeOK
    <3>4. Forgotten' = {}
      BY <3>1, <3>2 DEF Forgotten, Up, WatchTypeOK
    <3>5. QED
      BY <2>3, <3>3, <3>4, FS_EmptySet DEF Servers
  <2>5. CASE childProcess # None
    <3>1. Killing' = Killing \cup {e} /\ e \notin Killing
      BY <2>1, <2>2, <2>5 DEF Killing, WatchTypeOK
    <3>2. Targets' = Targets \cup {childProcess}
      BY <2>1, <3>1 DEF Targets, Killing, WatchTypeOK
    <3>3. Forgotten' = Forgotten /\ childProcess' \in Targets'
      BY <2>2, <2>5, <3>2 DEF Forgotten, Up
    <3>4. IsFiniteSet(Killing) /\ Cardinality(Killing) \in Nat /\ Cardinality(Forgotten) \in Nat
      BY CountedAreEvents, EventSetsFinite
    <3>5. Cardinality(Killing') = Cardinality(Killing) + 1
      BY <3>1, <3>4, FS_AddElement
    <3>6. CASE Killing = {}
      <4>1. childProcess \notin Targets
        BY <3>6 DEF Targets
      <4>2. QED
        BY <2>1, <2>3, <3>3, <3>4, <3>5, <3>6, <4>1 DEF Servers
    <3>7. CASE Killing # {}
      BY <2>1, <2>3, <3>3, <3>4, <3>5, <3>7 DEF Servers
    <3>8. QED
      BY <3>6, <3>7
  <2>6. QED
    BY <2>4, <2>5
<1>3. QED
  BY <1>1, <1>2

-----------------------------------------------------------------------------
(* Every step of the command preserves the invariant                       *)

\* The rest of the invariant, without what is counted.
WatchState == WatchTypeOK /\ PluginsComeFirst /\ BeforeTheFirst /\ KillsStarted /\ Plugged

\* A spawn event, of the compilation of version v.
LEMMA SpawnState ==
  ASSUME WatchState, NEW v \in Nat \ {0}, NEW p \in BOOLEAN, Spawn(v, p),
         options' = options, version' = v, version <= v, plugged' \in BOOLEAN, code' = code,
         at' \in {"watching", "ended"}, at' = "watching" => options.watch,
         ~options.watch /\ ~options.webpack => p /\ plugged' /\ code = None /\ at' = "ended" /\ events = 0
  PROVE  WatchState'
<1> USE DEF WatchState
<1>1. CASE options.command # "start"
  <2>1. UNCHANGED <<events, childProcess, restart, target, process, source, pluggedIn, overlaps>>
    BY <1>1 DEF Spawn, restarting
  <2>2. WatchTypeOK' /\ BeforeTheFirst'
    BY <2>1, MaxEventsAssumption DEF WatchTypeOK, BeforeTheFirst
  <2>3. KillsStarted' /\ PluginsComeFirst' /\ Plugged'
    BY <2>1 DEF KillsStarted, PluginsComeFirst, Plugged
  <2>4. QED
    BY <2>2, <2>3
<1>2. CASE options.command = "start"
  <2> DEFINE e == events + 1
  <2>1. /\ e \in Events /\ e > events /\ e \in Nat \ {0} /\ e <= MaxEvents
        /\ events \in Nat /\ MaxEvents \in Nat
    <3>1. events < MaxEvents /\ events \in Nat /\ MaxEvents \in Nat
      BY <1>2, MaxEventsAssumption DEF Spawn, WatchTypeOK
    <3>2. QED
      BY <3>1 DEF Events
  <2>2. restart[e] = "none" /\ process[e] = "none"
    BY <2>1 DEF BeforeTheFirst, WatchTypeOK
  <2>3. /\ target' = [target EXCEPT ![e] = childProcess] /\ events' = e
        /\ overlaps' \in {overlaps, overlaps + 1}
    BY <1>2 DEF Spawn
  <2>4. \A d \in Events : d > e <=> d > events /\ d # e
    BY <2>1 DEF Events
  <2>5. CASE childProcess = None
    <3>1. /\ restart' = [restart EXCEPT ![e] = "done"] /\ process' = [process EXCEPT ![e] = "up"]
          /\ childProcess' = e /\ source' = [source EXCEPT ![e] = v]
          /\ pluggedIn' = [pluggedIn EXCEPT ![e] = p]
      BY <1>2, <2>5 DEF Spawn, Start
    <3>2. \A d \in Events : restart[d] = "none"
      BY <2>5 DEF BeforeTheFirst, WatchTypeOK, Events
    <3> HIDE DEF e
    <3>3. BeforeTheFirst'
      BY <2>1, <2>3, <2>4, <3>1 DEF BeforeTheFirst, WatchTypeOK, None
    <3>4. KillsStarted'
      BY <2>1, <3>1, <3>2 DEF KillsStarted, WatchTypeOK
    <3>5. WatchTypeOK'
      <4>1. source' \in [Events -> 0..version']
        <5>1. source \in [Events -> 0..version] /\ version \in Nat
          BY DEF WatchTypeOK
        <5>2. \A n \in 0..version : n \in 0..v
          BY <5>1
        <5>3. v \in 0..v
          OBVIOUS
        <5>4. source' \in [Events -> 0..v]
          BY ONLY <2>1, <3>1, <5>1, <5>2, <5>3
        <5>5. QED
          BY <5>4
      <4>2. events' \in 0..MaxEvents /\ overlaps' \in 0..events' /\ childProcess' \in 0..events'
        <5>1. events' = events + 1 /\ childProcess' = events + 1
          BY <2>3, <3>1 DEF e
        <5>2. overlaps \in 0..events
          BY DEF WatchTypeOK
        <5>3. events + 1 <= MaxEvents
          BY <2>1 DEF e
        <5>4. QED
          BY <2>1, <2>3, <5>1, <5>2, <5>3
      <4>3. target' \in [Events -> 0..MaxEvents]
        BY <2>1, <2>3 DEF WatchTypeOK
      <4>4. /\ restart' \in [Events -> {"none", "killing", "stuck", "done"}]
            /\ process' \in [Events -> {"none", "up", "dying", "gone"}]
            /\ pluggedIn' \in [Events -> BOOLEAN]
        BY <2>1, <3>1 DEF WatchTypeOK
      <4>5. \A d \in Events : process'[d] # "none" => restart'[d] = "done" /\ source'[d] > 0
        BY <2>1, <3>1 DEF WatchTypeOK
      <4>6. QED
        BY <4>1, <4>2, <4>3, <4>4, <4>5 DEF WatchTypeOK
    <3>6. PluginsComeFirst' /\ Plugged'
      BY <2>1, <3>1, <3>2 DEF PluginsComeFirst, Plugged, WatchTypeOK
    <3>7. QED
      BY <3>3, <3>4, <3>5, <3>6
  <2>6. CASE childProcess # None
    <3>1. /\ restart' = [restart EXCEPT ![e] = "killing"]
          /\ UNCHANGED <<childProcess, process, source, pluggedIn>>
      BY <1>2, <2>6 DEF Spawn
    <3>2. childProcess \in Events /\ restart[childProcess] = "done" /\ childProcess # e
      BY <2>1, <2>2, <2>6 DEF KillsStarted, WatchTypeOK, Events, None
    <3> HIDE DEF e
    <3>3. BeforeTheFirst'
      BY <2>1, <2>3, <2>4, <2>6, <3>1 DEF BeforeTheFirst, WatchTypeOK
    <3>4. KillsStarted'
      BY <2>1, <2>2, <2>3, <3>1, <3>2 DEF KillsStarted, WatchTypeOK
    <3>5. WatchTypeOK'
      <4>1. source' \in [Events -> 0..version']
        BY <3>1 DEF WatchTypeOK
      <4>2. events' \in 0..MaxEvents /\ overlaps' \in 0..events' /\ childProcess' \in 0..events'
        BY <2>1, <2>3, <3>1 DEF WatchTypeOK, e
      <4>3. target' \in [Events -> 0..MaxEvents]
        BY <2>1, <2>3 DEF WatchTypeOK
      <4>4. /\ restart' \in [Events -> {"none", "killing", "stuck", "done"}]
            /\ process' \in [Events -> {"none", "up", "dying", "gone"}]
            /\ pluggedIn' \in [Events -> BOOLEAN]
        BY <2>1, <3>1 DEF WatchTypeOK
      <4>5. \A d \in Events : process'[d] # "none" => restart'[d] = "done" /\ source'[d] > 0
        BY <2>1, <2>2, <3>1 DEF WatchTypeOK
      <4>6. QED
        BY <4>1, <4>2, <4>3, <4>4, <4>5 DEF WatchTypeOK
    <3>6. PluginsComeFirst' /\ Plugged'
      BY <2>1, <3>1 DEF PluginsComeFirst, Plugged, BeforeTheFirst, WatchTypeOK
    <3>7. QED
      BY <3>3, <3>4, <3>5, <3>6
  <2>7. QED
    BY <2>5, <2>6
<1>3. QED
  BY <1>1, <1>2

\* A step that spawns nothing.
LEMMA QuietState ==
  ASSUME WatchState, UNCHANGED restarting, options' = options \/ events = 0,
         options' \in Options, version' \in Nat, version <= version', plugged' \in BOOLEAN,
         code' \in {None, 1}, at' \in {"idle", "config", "compile", "watching", "ended"},
         at' \in {"idle", "config", "compile"} => version' = 0 /\ events = 0 /\ code' = None,
         at' = "watching" => options'.watch,
         ~options'.watch /\ ~options'.webpack /\ events > 0 => plugged' /\ code' = None /\ at' = "ended"
  PROVE  WatchState'
<1> USE DEF WatchState
<1>1. /\ UNCHANGED <<events, childProcess, restart, target, process, source, pluggedIn, overlaps>>
      /\ UNCHANGED childProcess
  BY DEF restarting
<1>2. WatchTypeOK'
  <2>1. source' \in [Events -> 0..version']
    BY <1>1 DEF WatchTypeOK
  <2>2. QED
    BY <1>1, <2>1 DEF WatchTypeOK
<1>3. BeforeTheFirst'
  BY <1>1 DEF WatchTypeOK, BeforeTheFirst
<1>4. KillsStarted' /\ Plugged'
  BY <1>1 DEF KillsStarted, Plugged
<1>5. PluginsComeFirst'
  <2>1. CASE events = 0
    BY <1>1, <2>1 DEF BeforeTheFirst, WatchTypeOK, PluginsComeFirst, Events
  <2>2. CASE events # 0
    BY <1>1, <2>2 DEF PluginsComeFirst, Plugged, WatchTypeOK
  <2>3. QED
    BY <2>1, <2>2
<1>6. QED
  BY <1>2, <1>3, <1>4, <1>5

\* tree-kill calls back.
LEMMA KilledState ==
  ASSUME WatchState, NEW e \in Events, Killed(e)
  PROVE  WatchState'
<1> USE DEF WatchState
<1>1. /\ restart[e] = "killing" /\ restart' = [restart EXCEPT ![e] = "done"]
      /\ source' = [source EXCEPT ![e] = version] /\ pluggedIn' = [pluggedIn EXCEPT ![e] = plugged]
      /\ childProcess' = e
      /\ UNCHANGED <<options, at, code, version, plugged, events, target, overlaps>>
  BY DEF Killed
<1>2. process' = [process EXCEPT ![target[e]] = IF @ = "up" THEN "dying" ELSE @, ![e] = "up"]
  BY DEF Killed
<1>3. target[e] \in Events /\ restart[target[e]] = "done" /\ e <= events /\ e \in Nat \ {0}
      /\ events \in Nat
  BY <1>1 DEF KillsStarted, BeforeTheFirst, WatchTypeOK, Events
<1>4. WatchTypeOK'
  <2>1. version > 0
    BY <1>3 DEF BeforeTheFirst
  <2>2. process' \in [Events -> {"none", "up", "dying", "gone"}]
        /\ \A d \in Events : process'[d] # "none" => process[d] # "none" \/ d = e
    BY <1>2, <1>3 DEF WatchTypeOK
  <2>3. \A d \in Events : process'[d] # "none" => restart'[d] = "done" /\ source'[d] > 0
    BY <1>1, <2>1, <2>2 DEF WatchTypeOK
  <2>4. source' \in [Events -> 0..version'] /\ childProcess' \in 0..events'
    BY <1>1, <1>3 DEF WatchTypeOK
  <2>5. QED
    BY <1>1, <2>2, <2>3, <2>4 DEF WatchTypeOK
<1>5. BeforeTheFirst'
  BY <1>1, <1>3 DEF BeforeTheFirst, WatchTypeOK, None
<1>6. KillsStarted'
  BY <1>1, <1>3 DEF KillsStarted, WatchTypeOK
<1>7. PluginsComeFirst' /\ Plugged'
  <2>1. \A d \in Events : process'[d] # "none" => process[d] # "none" \/ d = e
    BY <1>2, <1>3 DEF WatchTypeOK
  <2>2. QED
    BY <1>1, <1>3, <2>1 DEF PluginsComeFirst, Plugged, WatchTypeOK
<1>8. QED
  BY <1>4, <1>5, <1>6, <1>7

\* It calls back with an error, or a process dies.
LEMMA EndsState ==
  ASSUME WatchState, NEW e \in Events, KillFails(e) \/ Dies(e)
  PROVE  WatchState'
<1> USE DEF WatchState
<1>1. CASE KillFails(e)
  <2>1. /\ restart[e] = "killing" /\ restart' = [restart EXCEPT ![e] = "stuck"]
        /\ UNCHANGED <<options, at, code, version, plugged, events, childProcess, target, process,
                       source, pluggedIn, overlaps>>
    BY <1>1 DEF KillFails
  <2>2. WatchTypeOK' /\ BeforeTheFirst' /\ KillsStarted' /\ PluginsComeFirst' /\ Plugged'
    BY <2>1 DEF WatchTypeOK, BeforeTheFirst, KillsStarted, PluginsComeFirst, Plugged
  <2>3. QED
    BY <2>2
<1>2. CASE Dies(e)
  <2>1. /\ process[e] # "none" /\ process' = [process EXCEPT ![e] = "gone"]
        /\ UNCHANGED <<options, at, code, version, plugged, events, childProcess, restart, target,
                       source, pluggedIn, overlaps>>
    BY <1>2 DEF Dies
  <2>2. WatchTypeOK' /\ BeforeTheFirst' /\ KillsStarted' /\ PluginsComeFirst' /\ Plugged'
    BY <2>1 DEF WatchTypeOK, BeforeTheFirst, KillsStarted, PluginsComeFirst, Plugged
  <2>3. QED
    BY <2>2
<1>3. QED
  BY <1>1, <1>2

\* What is counted stays when nothing is restarted.
LEMMA QuietServers ==
  ASSUME Servers, UNCHANGED restarting
  PROVE  Servers'
  BY DEF restarting, Servers, Forgotten, Targets, Killing, Up

WatchStep == WatchNext \/ (\E o \in Options : ParseBuild(o)) \/ UNCHANGED watchVars

LEMMA WatchStateStep ==
  ASSUME WatchState, WatchStep
  PROVE  WatchState'
<1>1. /\ options \in Options /\ version \in Nat /\ plugged \in BOOLEAN /\ code \in {None, 1}
      /\ at \in {"idle", "config", "compile", "watching", "ended"} /\ events \in Nat
  BY DEF WatchState, WatchTypeOK
<1>2. /\ at \in {"idle", "config", "compile"} => version = 0 /\ events = 0 /\ code = None
      /\ ~options.watch /\ ~options.webpack /\ events > 0 => plugged /\ code = None /\ at = "ended"
      /\ at = "watching" => options.watch
      /\ options.watch \in BOOLEAN /\ options.webpack \in BOOLEAN
  BY <1>1 DEF WatchState, BeforeTheFirst, Plugged, Options
<1>3. CASE \E o \in Options : ParseBuild(o)
  BY <1>1, <1>2, <1>3, QuietState DEF ParseBuild
<1>4. CASE ReadConfig \/ UNCHANGED watchVars
  BY <1>1, <1>2, <1>4, QuietState DEF ReadConfig, watchVars
<1>5. CASE CompileOnce
  <2>1. /\ at = "compile" /\ at' = "ended" /\ options' = options
        /\ ~options.watch /\ ~options.webpack /\ events = 0 /\ version = 0 /\ code = None
    BY <1>2, <1>5 DEF CompileOnce
  <2>2. \/ UNCHANGED <<code, version, plugged, restarting>>
        \/ version' = 1 /\ plugged' = TRUE /\ code' = 1 /\ UNCHANGED restarting
        \/ version' = 1 /\ plugged' = TRUE /\ code' = code /\ Spawn(1, TRUE)
    BY <1>5 DEF CompileOnce
  <2>3. CASE UNCHANGED <<code, version, plugged, restarting>>
    BY <1>1, <2>1, <2>3, QuietState
  <2>4. CASE version' = 1 /\ plugged' = TRUE /\ code' = 1 /\ UNCHANGED restarting
    BY <1>1, <2>1, <2>4, QuietState
  <2>5. CASE version' = 1 /\ plugged' = TRUE /\ code' = code /\ Spawn(1, TRUE)
    <3>1. version <= 1 /\ 1 \in Nat \ {0}
      BY <2>1
    <3>2. QED
      BY <1>1, <2>1, <2>5, <3>1, SpawnState
  <2>6. QED
    BY <2>2, <2>3, <2>4, <2>5
<1>6. CASE CompileAndWatch
  <2>1. /\ at = "compile" /\ at' = "watching" /\ options' = options /\ code' = code
        /\ options.watch /\ events = 0 /\ version = 0 /\ code = None
        /\ version' = 1 /\ plugged' \in BOOLEAN
    BY <1>2, <1>6 DEF CompileAndWatch
  <2>2. UNCHANGED restarting \/ \E p \in BOOLEAN : Spawn(1, p)
    BY <1>6, <2>1 DEF CompileAndWatch
  <2>3. CASE UNCHANGED restarting
    BY <1>1, <2>1, <2>3, QuietState
  <2>4. CASE \E p \in BOOLEAN : Spawn(1, p)
    <3>1. PICK p \in BOOLEAN : Spawn(1, p)
      BY <2>4
    <3>2. version <= 1 /\ 1 \in Nat \ {0}
      BY <2>1
    <3>3. QED
      BY <1>1, <2>1, <3>1, <3>2, SpawnState
  <2>5. QED
    BY <2>2, <2>3, <2>4
<1>7. CASE Bundle
  <2>1. /\ at = "compile" /\ options.webpack /\ options' = options /\ code' = code
        /\ events = 0 /\ version = 0 /\ code = None
        /\ at' \in {"watching", "ended"} /\ (at' = "watching" => options.watch)
    BY <1>2, <1>7 DEF Bundle
  <2>2. \/ UNCHANGED <<version, plugged, restarting>>
        \/ version' = 1 /\ plugged' \in BOOLEAN /\ Spawn(1, plugged')
    BY <1>7 DEF Bundle
  <2>3. CASE UNCHANGED <<version, plugged, restarting>>
    BY <1>1, <2>1, <2>3, QuietState
  <2>4. CASE version' = 1 /\ plugged' \in BOOLEAN /\ Spawn(1, plugged')
    <3>1. PICK p \in BOOLEAN : Spawn(1, p)
      BY <2>4
    <3>2. version <= 1 /\ 1 \in Nat \ {0}
      BY <2>1
    <3>3. QED
      BY <1>1, <2>1, <2>4, <3>1, <3>2, SpawnState
  <2>5. QED
    BY <2>2, <2>3, <2>4
<1>8. CASE Recompile
  <2>1. /\ at = "watching" /\ at' = at /\ options' = options /\ code' = code /\ options.watch
        /\ version' = version + 1 /\ plugged' \in BOOLEAN
    BY <1>2, <1>8 DEF Recompile
  <2>2. UNCHANGED restarting \/ \E p \in BOOLEAN : Spawn(version + 1, p)
    BY <1>2, <1>8, <2>1 DEF Recompile
  <2>3. CASE UNCHANGED restarting
    BY <1>1, <2>1, <2>3, QuietState
  <2>4. CASE \E p \in BOOLEAN : Spawn(version + 1, p)
    <3>1. PICK p \in BOOLEAN : Spawn(version + 1, p)
      BY <2>4
    <3>2. version <= version + 1 /\ version + 1 \in Nat \ {0}
      BY <1>1
    <3>3. QED
      BY <1>1, <2>1, <3>1, <3>2, SpawnState
  <2>5. QED
    BY <2>2, <2>3, <2>4
<1>9. CASE \E e \in Events : Killed(e) \/ KillFails(e) \/ Dies(e)
  BY <1>9, KilledState, EndsState
<1>10. QED
  BY <1>3, <1>4, <1>5, <1>6, <1>7, <1>8, <1>9 DEF WatchStep, WatchNext

LEMMA ServersStep ==
  ASSUME WatchState, Servers, WatchStep, WatchState'
  PROVE  Servers'
<1>1. CASE UNCHANGED restarting
  BY <1>1, QuietServers
<1>2. CASE \E v \in Nat, p \in BOOLEAN : Spawn(v, p)
  BY <1>2, SpawnServers DEF WatchState
<1>3. CASE \E e \in Events : Killed(e) \/ KillFails(e) \/ Dies(e)
  BY <1>3, KilledServers, KillFailsServers, DiesServers DEF WatchState
<1>4. CASE (\E o \in Options : ParseBuild(o)) \/ ReadConfig \/ UNCHANGED watchVars
  BY <1>1, <1>4 DEF ParseBuild, ReadConfig, watchVars
<1>5. CASE CompileOnce
  <2>1. UNCHANGED restarting \/ Spawn(1, TRUE)
    BY <1>5 DEF CompileOnce
  <2>2. QED
    BY <1>1, <1>2, <2>1
<1>6. CASE CompileAndWatch
  <2>1. plugged' \in BOOLEAN /\ (UNCHANGED restarting \/ \E p \in {FALSE, plugged'} : Spawn(1, p))
    BY <1>6 DEF CompileAndWatch
  <2>2. UNCHANGED restarting \/ \E p \in BOOLEAN : Spawn(1, p)
    BY <2>1
  <2>3. QED
    BY <1>1, <1>2, <2>2
<1>7. CASE Bundle
  <2>1. UNCHANGED restarting \/ \E p \in BOOLEAN : Spawn(1, p)
    BY <1>7 DEF Bundle
  <2>2. QED
    BY <1>1, <1>2, <2>1
<1>8. CASE Recompile
  <2>1. version + 1 \in Nat
    BY DEF WatchState, WatchTypeOK
  <2>2. UNCHANGED restarting \/ \E p \in BOOLEAN : Spawn(version + 1, p)
    <3>1. CASE options.webpack
      BY <1>8, <3>1 DEF Recompile
    <3>2. CASE ~options.webpack
      BY <1>8, <3>2 DEF Recompile
    <3>3. QED
      BY <3>1, <3>2
  <2>3. QED
    BY <1>1, <1>2, <2>1, <2>2
<1>9. QED
  BY <1>3, <1>4, <1>5, <1>6, <1>7, <1>8 DEF WatchStep, WatchNext

\* Nothing has been started.
LEMMA WatchStarts ==
  ASSUME WatchInit
  PROVE  WatchInv
<1>1. WatchTypeOK /\ PluginsComeFirst /\ BeforeTheFirst /\ KillsStarted /\ Plugged
  <2>1. /\ options \in Options /\ at = "idle" /\ code = None /\ version = 0 /\ plugged = FALSE
        /\ events = 0 /\ childProcess = 0 /\ overlaps = 0 /\ MaxEvents \in Nat /\ None = 0
    BY MaxEventsAssumption DEF WatchInit, Options, None
  <2>2. /\ restart = [e \in Events |-> "none"] /\ target = [e \in Events |-> 0]
        /\ process = [e \in Events |-> "none"]
        /\ source = [e \in Events |-> 0] /\ pluggedIn = [e \in Events |-> FALSE]
    BY DEF WatchInit, None
  <2>3. WatchTypeOK
    <3>1. /\ 0 \in 0..0 /\ 0 \in 0..MaxEvents
      BY <2>1
    <3>2. /\ restart \in [Events -> {"none", "killing", "stuck", "done"}]
          /\ target \in [Events -> 0..MaxEvents]
          /\ process \in [Events -> {"none", "up", "dying", "gone"}]
          /\ source \in [Events -> 0..0] /\ pluggedIn \in [Events -> BOOLEAN]
      BY <2>2, <3>1
    <3>3. \A e \in Events : process[e] = "none"
      BY <2>2
    <3>4. QED
      BY <2>1, <3>1, <3>2, <3>3 DEF WatchTypeOK
  <2>4. PluginsComeFirst /\ KillsStarted /\ Plugged
    BY <2>1, <2>2 DEF PluginsComeFirst, KillsStarted, Plugged
  <2>5. BeforeTheFirst
    BY <2>1, <2>2 DEF BeforeTheFirst, Events
  <2>6. QED
    BY <2>3, <2>4, <2>5
<1>2. Servers
  <2>1. Forgotten = {} /\ Killing = {} /\ Targets = {}
    BY DEF WatchInit, Forgotten, Up, Killing, Targets
  <2>2. Cardinality(Forgotten) = 0 /\ Cardinality(Killing) = 0
    BY <2>1, FS_EmptySet
  <2>3. overlaps = 0
    BY DEF WatchInit
  <2>4. QED
    BY <2>1, <2>2, <2>3 DEF Servers
<1>3. QED
  BY <1>1, <1>2 DEF WatchInv

LEMMA WatchInvStep ==
  ASSUME WatchInv, [CliNext]_cliVars
  PROVE  WatchInv'
<1>1. WatchStep
  BY DEF CliNext, WatchCommand, PackageCommand, NewCommand, EnterProject, GenerateCommand, cliVars,
         WatchStep
<1>2. WatchState /\ Servers
  BY DEF WatchInv, WatchState
<1>3. WatchState'
  BY <1>1, <1>2, WatchStateStep
<1>4. Servers'
  BY <1>1, <1>2, <1>3, ServersStep
<1>5. QED
  BY <1>3, <1>4 DEF WatchInv, WatchState

\* Servers that are restarted do not pile up, however often the sources change: every server
\* beyond the first is paid for by a spawn event that came while another server
\* was being killed.  Without --watch and webpack none is started before the
\* plugins have worked on the output, nor after errors (reStartServer, compileTypescript).
THEOREM CliServersAreSound == CliSpec => []ServersAreSound
<1>1. CliInit => WatchInv
  BY WatchStarts DEF CliInit
<1>2. WatchInv /\ [CliNext]_cliVars => WatchInv'
  BY WatchInvStep
<1>3. WatchInv => ServersAreSound
  BY ServersAreFew DEF WatchInv, ServersAreSound
<1>4. QED
  BY <1>1, <1>2, <1>3, PTL DEF CliSpec

-----------------------------------------------------------------------------
(* Packages                                                                *)

\* The words typed: flags are flags, what is to be changed is a library or nothing.
PackagesTyped ==
    /\ typed \in Typed /\ manager \in {"npm", "yarn"} /\ failed \in BOOLEAN
    /\ stage \in {"idle", "operate", "run", "ended"}
    /\ installed \subseteq Libraries \cup Commands

\* Nothing has changed before the operations begin; an operation that is to come is
\* the command's own, or the second one of a forced update.
Progress ==
    /\ stage \in {"idle", "operate"} => pending = <<>> /\ installed = before /\ ~failed
    /\ stage = "operate" => typed.library \in Libraries
    /\ stage = "run" =>
          /\ typed.library \in Libraries /\ ~failed
          /\ \/ pending = Operations /\ installed = before
             \/ pending = <<"install">> /\ typed.command = "update" /\ Forced
    /\ stage = "ended" => pending = <<>>

PackageInv ==
    PackagesTyped /\ Progress /\ OnlyTheNamed /\ LostOnlyByForce /\ DryRunIsPassedOn

\* The words after the command are the library and the flags.
LEMMA ArgsAre ==
  ASSUME typed \in Typed
  PROVE  /\ Args \in Seq({typed.command, typed.library} \cup Range(typed.flags))
         /\ Len(Args) \in Nat \ {0} /\ Args[1] = typed.command
         /\ \A i \in 2..Len(Args) : Args[i] = typed.library \/ Args[i] \in Range(typed.flags)
         /\ \A f \in Range(typed.flags) : \E i \in 2..Len(Args) : Args[i] = f
<1> DEFINE flags == typed.flags
           S == {typed.command, typed.library} \cup Range(typed.flags)
<1>1. flags \in FlagLists /\ typed.flagsFirst \in BOOLEAN
  BY DEF Typed
<1>2. flags \in Seq(Flags)
  <2>1. CASE flags = <<>>
    BY <2>1
  <2>2. CASE \E f \in Flags : flags = <<f>>
    BY <2>2
  <2>3. CASE \E f, g \in Flags : flags = <<f, g>>
    BY <2>3
  <2>4. QED
    BY <1>1, <2>1, <2>2, <2>3 DEF FlagLists
<1>3. Len(flags) \in Nat /\ DOMAIN flags = 1..Len(flags)
  BY <1>2
<1>4. Range(flags) = {flags[i] : i \in 1..Len(flags)}
  BY <1>3 DEF Range
<1>5. flags \in Seq(S)
  BY <1>2, <1>3, <1>4 DEF Range
<1>6. typed.command \in S /\ typed.library \in S
  OBVIOUS
<1> HIDE DEF S
<1>7. CASE typed.flagsFirst
  <2>1. Args = <<typed.command>> \o (flags \o <<typed.library>>)
    BY <1>7 DEF Args
  <2> HIDE DEF flags
  <2>2. /\ Args \in Seq(S) /\ Len(Args) = Len(flags) + 2 /\ Args[1] = typed.command
        /\ \A i \in 1..Len(flags) : Args[i + 1] = flags[i]
        /\ Args[Len(flags) + 2] = typed.library
    BY <1>3, <1>5, <1>6, <2>1
  <2>3. \A i \in 2..Len(Args) : i = Len(flags) + 2 \/ (i - 1 \in 1..Len(flags) /\ Args[i] = flags[i - 1])
    BY <1>3, <2>2
  <2>4. \A i \in 1..Len(flags) : i + 1 \in 2..Len(Args)
    BY <1>3, <2>2
  <2>5. Len(Args) \in Nat \ {0}
    BY <1>3, <2>2
  <2>6. \A i \in 2..Len(Args) : Args[i] = typed.library \/ Args[i] \in Range(flags)
    BY <1>4, <2>2, <2>3
  <2>7. \A f \in Range(flags) : \E i \in 2..Len(Args) : Args[i] = f
    BY <1>4, <2>2, <2>4
  <2>8. QED
    BY <2>2, <2>5, <2>6, <2>7 DEF flags, S
<1>8. CASE ~typed.flagsFirst
  <2>1. Args = <<typed.command>> \o (<<typed.library>> \o flags)
    BY <1>8 DEF Args
  <2> HIDE DEF flags
  <2>2. /\ Args \in Seq(S) /\ Len(Args) = Len(flags) + 2 /\ Args[1] = typed.command
        /\ \A i \in 1..Len(flags) : Args[i + 2] = flags[i]
        /\ Args[2] = typed.library
    BY <1>3, <1>5, <1>6, <2>1
  <2>3. \A i \in 2..Len(Args) : i = 2 \/ (i - 2 \in 1..Len(flags) /\ Args[i] = flags[i - 2])
    BY <1>3, <2>2
  <2>4. \A i \in 1..Len(flags) : i + 2 \in 2..Len(Args)
    BY <1>3, <2>2
  <2>5. Len(Args) \in Nat \ {0}
    BY <1>3, <2>2
  <2>6. \A i \in 2..Len(Args) : Args[i] = typed.library \/ Args[i] \in Range(flags)
    BY <1>4, <2>2, <2>3
  <2>7. \A f \in Range(flags) : \E i \in 2..Len(Args) : Args[i] = f
    BY <1>4, <2>2, <2>4
  <2>8. QED
    BY <2>2, <2>5, <2>6, <2>7 DEF flags, S
<1>9. QED
  BY <1>1, <1>7, <1>8

\* What the package manager reads as packages are the library, and the command if
\* no long flag was typed.
LEMMA NamedAreTyped ==
  ASSUME typed \in Typed, typed.library \in Libraries
  PROVE  /\ typed.library \in Named /\ Named \subseteq Libraries \cup Commands
         /\ Named \subseteq {typed.library}
                    \cup IF Range(typed.flags) \cap LongFlags = {} THEN {typed.command} ELSE {}
         /\ "--dry-run" \in Range(Words) <=> "--dry-run" \in Range(typed.flags)
<1> DEFINE S == {typed.command, typed.library} \cup Range(typed.flags)
           long == {i \in DOMAIN Args : Args[i] \in LongFlags}
<1>1. /\ typed.command \in Commands /\ typed.library \in Libraries /\ Range(typed.flags) \subseteq Flags
      /\ typed.command \notin Flags /\ typed.library \notin Flags
  <2>1. typed.command \in Commands
    BY DEF Typed
  <2>2. Range(typed.flags) \subseteq OptionsOf[typed.command]
    BY DEF Typed
  <2>3. OptionsOf[typed.command] \subseteq Flags
    BY <2>1 DEF OptionsOf, Commands, Flags, LongFlags, ShortFlags
  <2>4. Commands \cap Flags = {}
    BY DEF Commands, Flags, LongFlags, ShortFlags
  <2>5. QED
    BY <2>1, <2>2, <2>3, <2>4, LibrariesAssumption
<1>2. /\ Args \in Seq(S) /\ Len(Args) \in Nat \ {0} /\ Args[1] = typed.command
      /\ \A i \in 2..Len(Args) : Args[i] = typed.library \/ Args[i] \in Range(typed.flags)
      /\ \A f \in Range(typed.flags) : \E i \in 2..Len(Args) : Args[i] = f
      /\ DOMAIN Args = 1..Len(Args)
  BY ArgsAre
<1> HIDE DEF S
<1>3. CASE long = {}
  <2>1. Words = Append(Args, typed.library)
    BY <1>3 DEF Words, RemainingFlags
  <2>2. typed.library \in S
    BY DEF S
  <2>3. Words \in Seq(S) /\ Len(Words) = Len(Args) + 1 /\ Words[Len(Args) + 1] = typed.library
        /\ (\A i \in 1..Len(Args) : Words[i] = Args[i]) /\ DOMAIN Words = 1..Len(Words)
    BY <1>2, <2>1, <2>2
  <2>4. Range(Words) \subseteq S /\ typed.library \in Range(Words)
    BY <1>2, <2>3 DEF Range
  <2>5. Range(typed.flags) \cap LongFlags = {} /\ \A i \in DOMAIN Args : Args[i] \notin LongFlags
    BY <1>2, <1>3
  <2>6. "--dry-run" \notin Range(typed.flags) /\ "--dry-run" \notin S
    BY <1>1, <2>5 DEF S, LongFlags, Flags
  <2>7. QED
    BY <1>1, <2>4, <2>5, <2>6 DEF Named, S
<1>4. CASE long # {}
  <2> DEFINE first == CHOOSE i \in long : \A j \in long : i <= j
             rest == SubSeq(Args, first, Len(Args))
  <2>1. \E i \in long : \A j \in long : i <= j
    <3>1. long \subseteq Nat
      BY <1>2
    <3>2. PICK i \in long : \A j \in long : <<j, i>> \notin OpToRel(<, Nat)
      <4> HIDE DEF long
      <4>1. QED
        BY <1>4, <3>1, NatLessThanWellFounded, WFMin
    <3>3. \A j \in long : ~ j < i
      BY <3>1, <3>2 DEF OpToRel
    <3>4. QED
      BY <3>1, <3>3
  <2>2. first \in long /\ \A j \in long : first <= j
    BY <2>1
  <2>3. first \in 2..Len(Args)
    <3>1. Args[1] \notin LongFlags
      BY <1>1, <1>2 DEF Flags
    <3>2. QED
      BY <1>2, <2>2, <3>1
  <2>4. Words = Append(rest, typed.library)
    BY <1>4 DEF Words, RemainingFlags
  <2>5. typed.library \in S
    BY DEF S
  <2> HIDE DEF long, first
  <2>6. rest \in Seq(S) /\ Len(rest) = Len(Args) - first + 1
        /\ \A i \in 1..Len(rest) : rest[i] = Args[i + first - 1]
    BY <1>2, <2>3
  <2> HIDE DEF rest
  <2>7. Words \in Seq(S) /\ Len(Words) = Len(rest) + 1 /\ Words[Len(rest) + 1] = typed.library
        /\ (\A i \in 1..Len(rest) : Words[i] = rest[i]) /\ DOMAIN Words = 1..Len(Words)
        /\ Len(rest) \in Nat
    BY <2>4, <2>5, <2>6
  <2>8. typed.library \in Range(Words) /\ Range(Words) \subseteq {typed.library} \cup Range(typed.flags)
    <3>1. \A i \in 1..Len(rest) : i + first - 1 \in 2..Len(Args)
      BY <1>2, <2>3, <2>6, <2>7
    <3>2. \A i \in 1..Len(Words) : i = Len(rest) + 1 \/ i \in 1..Len(rest)
      BY <2>7
    <3>3. \A i \in 1..Len(Words) : Words[i] \in {typed.library} \cup Range(typed.flags)
      BY <1>2, <2>6, <2>7, <3>1, <3>2
    <3>4. Len(rest) + 1 \in 1..Len(Words)
      BY <2>7
    <3>5. QED
      BY <2>7, <3>3, <3>4 DEF Range
  <2>9. "--dry-run" \in Range(typed.flags) => "--dry-run" \in Range(Words)
    <3> SUFFICES ASSUME "--dry-run" \in Range(typed.flags)
                 PROVE  "--dry-run" \in Range(Words)
      OBVIOUS
    <3>1. PICK j \in 2..Len(Args) : Args[j] = "--dry-run"
      BY <1>2
    <3>2. j \in long
      BY <1>2, <3>1 DEF long, LongFlags
    <3>3. first <= j
      BY <2>2, <3>2
    <3>4. j - first + 1 \in 1..Len(rest)
      BY <1>2, <2>3, <2>6, <3>3
    <3>5. rest[j - first + 1] = "--dry-run"
      BY <1>2, <2>3, <2>6, <3>1, <3>4
    <3>6. j - first + 1 \in 1..Len(Words)
      BY <2>7, <3>4
    <3>7. QED
      BY <2>7, <3>4, <3>5, <3>6 DEF Range
  <2>10. "--dry-run" # typed.library
    BY <1>1 DEF Flags, LongFlags
  <2>11. Named = {typed.library}
    BY <1>1, <2>8 DEF Named
  <2>12. QED
    BY <1>1, <2>8, <2>9, <2>10, <2>11
<1>5. QED
  BY <1>3, <1>4

\* Operations: one, or the two of a forced update.
LEMMA OperationsAre ==
  ASSUME typed \in Typed
  PROVE  \/ typed.command = "update" /\ Forced /\ Operations = <<"uninstall", "install">>
         \/ typed.command = "update" /\ ~Forced /\ Operations = <<"update">>
         \/ typed.command = "add" /\ Operations = <<"install">>
         \/ typed.command = "remove" /\ Operations = <<"uninstall">>
<1>1. typed.command \in {"add", "update", "remove"}
  BY DEF Typed, Commands
<1>2. CASE typed.command = "update"
  BY <1>2 DEF Operations, OperationOf
<1>3. CASE typed.command = "add"
  BY <1>3 DEF Operations, OperationOf
<1>4. CASE typed.command = "remove"
  BY <1>4 DEF Operations, OperationOf
<1>5. QED
  BY <1>1, <1>2, <1>3, <1>4

\* An operation adds or removes what is named, or nothing; a dry run that npm knows
\* of nothing.
LEMMA EffectsAre ==
  ASSUME NEW operation, installed' \in Effects(operation)
  PROVE  /\ installed' \subseteq installed \cup Named /\ installed \ Named \subseteq installed'
         /\ operation = "update" => installed' = installed
         /\ operation = "install" => installed' = installed \cup Named \/ installed' = installed
         /\ manager = "npm" /\ "--dry-run" \in Range(Words) => installed' = installed
         /\ operation = "install" /\ installed' # installed \cup Named =>
               manager = "npm" /\ "--dry-run" \in Range(Words)
<1>1. CASE operation = "update" \/ (manager = "npm" /\ "--dry-run" \in Range(Words))
  BY <1>1 DEF Effects
<1>2. CASE ~(operation = "update" \/ (manager = "npm" /\ "--dry-run" \in Range(Words)))
           /\ operation = "install"
  BY <1>2 DEF Effects
<1>3. CASE ~(operation = "update" \/ (manager = "npm" /\ "--dry-run" \in Range(Words)))
           /\ operation # "install"
  <2>1. installed' \in {i \in {installed \ Named} : manager = "npm" \/ Named \subseteq installed}
    BY <1>3 DEF Effects
  <2>2. installed' = installed \ Named
    BY <2>1
  <2>3. QED
    BY <1>3, <2>2
<1>4. QED
  BY <1>1, <1>2, <1>3

\* The package that is meant is lost only by the first half of a forced update.
LEMMA SucceedsStep ==
  ASSUME PackageInv, Succeeds
  PROVE  PackageInv'
<1> USE DEF PackageInv
<1>1. /\ typed' = typed /\ manager' = manager /\ before' = before /\ failed' = failed
      /\ stage = "run" /\ installed' \in Effects(Head(pending)) /\ pending' = Tail(pending)
      /\ stage' = IF Len(pending) = 1 THEN "ended" ELSE "run"
  BY DEF Succeeds
<1>2. typed \in Typed /\ typed.library \in Libraries /\ ~failed /\ installed \subseteq Libraries \cup Commands
  BY <1>1 DEF PackagesTyped, Progress
<1>3. /\ typed.library \in Named /\ Named \subseteq Libraries \cup Commands
      /\ Named \subseteq {typed.library}
                    \cup IF Range(typed.flags) \cap LongFlags = {} THEN {typed.command} ELSE {}
      /\ "--dry-run" \in Range(Words) <=> "--dry-run" \in Range(typed.flags)
  BY <1>2, NamedAreTyped
<1>4. /\ installed' \subseteq installed \cup Named /\ installed \ Named \subseteq installed'
      /\ Head(pending) = "update" => installed' = installed
      /\ Head(pending) = "install" => installed' = installed \cup Named \/ installed' = installed
      /\ manager = "npm" /\ "--dry-run" \in Range(Words) => installed' = installed
      /\ Head(pending) = "install" /\ installed' # installed \cup Named =>
            manager = "npm" /\ "--dry-run" \in Range(Words)
  BY <1>1, EffectsAre
<1>5. \/ pending = Operations /\ installed = before
      \/ pending = <<"install">> /\ typed.command = "update" /\ Forced
  BY <1>1 DEF Progress
<1>6. \/ /\ pending = <<"uninstall", "install">> /\ typed.command = "update" /\ Forced
         /\ pending' = <<"install">> /\ stage' = "run"
      \/ /\ pending \in {<<"update">>, <<"install">>, <<"uninstall">>} /\ pending' = <<>> /\ stage' = "ended"
  <2>1. \/ pending = <<"uninstall", "install">> /\ typed.command = "update" /\ Forced
        \/ pending \in {<<"update">>, <<"install">>, <<"uninstall">>}
    BY <1>2, <1>5, OperationsAre
  <2>2. CASE pending = <<"uninstall", "install">> /\ typed.command = "update" /\ Forced
    <3>1. Len(pending) = 2 /\ Tail(pending) = <<"install">>
      BY <2>2
    <3>2. QED
      BY <1>1, <2>2, <3>1
  <2>3. CASE pending \in {<<"update">>, <<"install">>, <<"uninstall">>}
    <3>1. PICK o \in {"update", "install", "uninstall"} : pending = <<o>>
      BY <2>3
    <3>2. Len(<<o>>) = 1 /\ Tail(<<o>>) = <<>>
      OBVIOUS
    <3>3. QED
      BY <1>1, <2>3, <3>1, <3>2
  <2>4. QED
    BY <2>1, <2>2, <2>3
<1>7. Forced' = Forced
  BY <1>1 DEF Forced
<1>8. PackagesTyped'
  BY <1>1, <1>2, <1>3, <1>4 DEF PackagesTyped
<1>9. Progress'
  BY <1>1, <1>2, <1>6, <1>7 DEF Progress
<1>10. OnlyTheNamed'
  BY <1>1, <1>3, <1>4 DEF OnlyTheNamed, Changed
<1>11. DryRunIsPassedOn'
  BY <1>1, <1>3, <1>4 DEF DryRunIsPassedOn
<1>12. LostOnlyByForce'
  <2> SUFFICES ASSUME stage' = "ended", typed.library \in before, typed.library \notin installed',
                      typed.command # "remove"
               PROVE  FALSE
    BY <1>1 DEF LostOnlyByForce
  <2>1. pending \in {<<"update">>, <<"install">>}
    <3>1. stage' # "run"
      OBVIOUS
    <3>2. CASE pending = Operations
      BY <1>2, <1>6, <3>1, <3>2, OperationsAre
    <3>3. QED
      BY <1>5, <3>2
  <2>2. Head(pending) \in {"update", "install"}
    BY <2>1
  <2>3. CASE pending = Operations /\ installed = before
    BY <1>3, <1>4, <2>2, <2>3
  <2>4. CASE pending = <<"install">>
    <3>1. installed' = installed /\ manager = "npm" /\ "--dry-run" \in Range(typed.flags)
      BY <1>3, <1>4, <2>4
    <3>2. installed = before
      BY <3>1 DEF DryRunIsPassedOn
    <3>3. QED
      BY <3>1, <3>2
  <2>5. QED
    BY <1>5, <2>3, <2>4
<1>13. QED
  BY <1>8, <1>9, <1>10, <1>11, <1>12

LEMMA PackageInvStep ==
  ASSUME PackageInv, PackageNext \/ (\E t \in Typed : Parse(t)) \/ UNCHANGED packageVars
  PROVE  PackageInv'
<1> USE DEF PackageInv
<1>1. CASE UNCHANGED packageVars
  <2>1. /\ typed' = typed /\ manager' = manager /\ stage' = stage /\ pending' = pending
        /\ installed' = installed /\ before' = before /\ failed' = failed
    BY <1>1 DEF packageVars
  <2>2. Operations' = Operations /\ Forced' = Forced
    BY <2>1 DEF Operations, Forced
  <2>3. QED
    BY <2>1, <2>2 DEF PackagesTyped, Progress, OnlyTheNamed, LostOnlyByForce, DryRunIsPassedOn, Changed
<1>2. CASE \E t \in Typed : Parse(t)
  <2>1. /\ typed' \in Typed /\ manager' = manager /\ pending' = pending /\ stage = "idle"
        /\ installed' = installed /\ before' = before /\ failed' = failed
    BY <1>2 DEF Parse
  <2>2. pending' = <<>> /\ installed' = before /\ ~failed'
    BY <2>1 DEF Progress
  <2>3. stage' = "ended" \/ (stage' = "operate" /\ typed'.library \in Libraries)
    <3>1. PICK t \in Typed : Parse(t)
      BY <1>2
    <3>2. t.library \in Libraries \cup {""}
      BY DEF Typed
    <3>3. QED
      BY <3>1, <3>2, Zenon DEF Parse
  <2>4. PackagesTyped' /\ Progress'
    BY <2>1, <2>2, <2>3 DEF PackagesTyped, Progress
  <2>5. OnlyTheNamed' /\ LostOnlyByForce' /\ DryRunIsPassedOn'
    BY <2>1, <2>2 DEF OnlyTheNamed, LostOnlyByForce, DryRunIsPassedOn, Changed
  <2>6. QED
    BY <2>4, <2>5
<1>3. CASE Begin
  <2>1. /\ typed' = typed /\ manager' = manager /\ stage = "operate" /\ stage' = "run"
        /\ pending' = Operations /\ installed' = installed /\ before' = before /\ failed' = failed
    BY <1>3 DEF Begin
  <2>2. Operations' = Operations /\ Forced' = Forced
    BY <2>1 DEF Operations, Forced
  <2>3. QED
    BY <2>1, <2>2 DEF PackagesTyped, Progress, OnlyTheNamed, LostOnlyByForce, DryRunIsPassedOn, Changed
<1>4. CASE Succeeds
  BY <1>4, SucceedsStep
<1>5. CASE Fails
  <2>1. /\ typed' = typed /\ manager' = manager /\ stage = "run" /\ stage' = "ended"
        /\ pending' = <<>> /\ installed' = installed /\ before' = before /\ failed' = TRUE
    BY <1>5 DEF Fails
  <2>2. Operations' = Operations /\ Forced' = Forced
    BY <2>1 DEF Operations, Forced
  <2>3. PackagesTyped' /\ Progress' /\ OnlyTheNamed' /\ DryRunIsPassedOn'
    BY <2>1, <2>2 DEF PackagesTyped, Progress, OnlyTheNamed, DryRunIsPassedOn, Changed
  <2>4. LostOnlyByForce'
    BY <2>1, <2>2 DEF Progress, LostOnlyByForce
  <2>5. QED
    BY <2>3, <2>4
<1>6. QED
  BY <1>1, <1>2, <1>3, <1>4, <1>5 DEF PackageNext

\* A package manager changes the package that was named, and the word that was typed
\* for the command only when no long flag was; a package is lost by remove, or by a
\* forced update that failed half way; a dry run changes nothing when it was asked for
\* in full and npm is asked (getRemainingFlags, AddCommand, UpdateCommand, RemoveCommand).
THEOREM CliPackagesAreSound == CliSpec => []PackagesAreSound
<1>1. CliInit => PackageInv
  <2> SUFFICES ASSUME PackageInit PROVE PackageInv
    BY DEF CliInit
  <2>1. /\ manager \in {"npm", "yarn"} /\ stage = "idle" /\ pending = <<>>
        /\ installed \subseteq Libraries \cup Commands /\ before = installed /\ failed = FALSE
    BY DEF PackageInit
  <2>2. typed \in Typed
    <3>1. typed = [command |-> "add", library |-> "", flags |-> <<>>, flagsFirst |-> FALSE]
      BY DEF PackageInit
    <3>2. typed.flags = <<>> /\ typed.flagsFirst = FALSE
      BY <3>1, Zenon
    <3>3. "add" \in Commands /\ <<>> \in FlagLists
      BY DEF Commands, FlagLists
    <3>4. typed \in [command : Commands, library : Libraries \cup {""}, flags : FlagLists,
                     flagsFirst : BOOLEAN]
      BY <3>1, <3>3, Zenon
    <3>5. Range(typed.flags) = {}
      BY <3>2 DEF Range
    <3>6. QED
      BY <3>2, <3>4, <3>5, Zenon DEF Typed
  <2>3. PackagesTyped /\ Progress
    BY <2>1, <2>2 DEF PackagesTyped, Progress
  <2>4. OnlyTheNamed /\ LostOnlyByForce /\ DryRunIsPassedOn
    BY <2>1 DEF OnlyTheNamed, LostOnlyByForce, DryRunIsPassedOn, Changed
  <2>5. QED
    BY <2>3, <2>4 DEF PackageInv
<1>2. PackageInv /\ [CliNext]_cliVars => PackageInv'
  <2> SUFFICES ASSUME PackageInv, [CliNext]_cliVars PROVE PackageInv'
    OBVIOUS
  <2>1. PackageNext \/ (\E t \in Typed : Parse(t)) \/ UNCHANGED packageVars
    BY DEF CliNext, WatchCommand, PackageCommand, NewCommand, EnterProject, GenerateCommand, cliVars
  <2>2. QED
    BY <2>1, PackageInvStep
<1>3. PackageInv => PackagesAreSound
  <2> SUFFICES ASSUME PackageInv PROVE PackagesAreSound
    OBVIOUS
  <2>1. PackageTypeOK
    <3>1. \/ pending = Operations \/ pending = <<"install">> \/ pending = <<>>
      BY DEF PackageInv, PackagesTyped, Progress
    <3>2. \/ Operations = <<"uninstall", "install">> \/ Operations = <<"update">>
          \/ Operations = <<"install">> \/ Operations = <<"uninstall">>
      BY OperationsAre DEF PackageInv, PackagesTyped
    <3>3. \/ pending = <<"uninstall", "install">> \/ pending = <<"update">>
          \/ pending = <<"install">> \/ pending = <<"uninstall">> \/ pending = <<>>
      BY ONLY <3>1, <3>2, Zenon
    <3>4. Len(pending) <= 2
      BY ONLY <3>3
    <3>5. QED
      BY <3>4 DEF PackageInv, PackagesTyped, Progress, PackageTypeOK
  <2>2. QED
    BY <2>1 DEF PackageInv, PackagesAreSound
<1>4. QED
  BY <1>1, <1>2, <1>3, PTL DEF CliSpec

-----------------------------------------------------------------------------
(* new and generate                                                        *)

\* What generate does to files and modules is done in one step, and new does it in
\* another one.
LEMMA FilesChange ==
  ASSUME [CliNext]_cliVars
  PROVE  \/ UNCHANGED schematicVars
         \/ NewNext /\ CreateApplicationFiles
         \/ GenerateNext /\ Execute
  BY DEF CliNext, WatchCommand, PackageCommand, NewCommand, EnterProject, GenerateCommand, cliVars,
         projectVars, ParseNew, NewNext, InstallPackages, InitGit, ParseGenerate, GenerateNext, Ask

\* Of the files of an element only those of FilesOf can be a spec file.
LEMMA ElementSpecs ==
  ASSUME NEW schematic, NEW root, NEW location, NEW flat, NEW spec \in BOOLEAN,
         GenerateElement(schematic, root, location, flat, spec), language = "ts",
         NEW f \in files' \ files, f.spec
  PROVE  spec
<1>1. \A dir, name, type : ~File(dir, name, type).spec
  BY DEF File
<1>2. \A g : ~spec => FilesOf(g, spec) = {g}
  BY DEF FilesOf
<1> DEFINE dir == TargetDir(root, location, flat \/ schematic \in FlatByDefault)
           name == Last(location)
<1>3. CASE ServiceElement(dir, name, spec)
  <2>1. Add(FilesOf(File(dir, name, "service"), spec))
    BY <1>3 DEF ServiceElement
  <2>2. f \in FilesOf(File(dir, name, "service"), spec)
    BY <2>1 DEF Add
  <2>3. QED
    BY <1>1, <1>2, <2>2
<1>4. CASE ProviderElement(dir, name, spec)
  <2>1. Add(FilesOf(File(dir, name, "plain"), spec))
    BY <1>4 DEF ProviderElement
  <2>2. f \in FilesOf(File(dir, name, "plain"), spec)
    BY <2>1 DEF Add
  <2>3. QED
    BY <1>1, <1>2, <2>2
<1>5. CASE ControllerElement(dir, name, spec)
  <2>1. Add(FilesOf(File(dir, name, "controller"), spec))
    BY <1>5 DEF ControllerElement
  <2>2. f \in FilesOf(File(dir, name, "controller"), spec)
    BY <2>1 DEF Add
  <2>3. QED
    BY <1>1, <1>2, <2>2
<1>6. CASE ModuleElement(dir, name)
  <2>1. Add({File(dir, name, "module")})
    BY <1>6 DEF ModuleElement
  <2>2. f = File(dir, name, "module")
    BY <2>1 DEF Add
  <2>3. QED
    BY <1>1, <2>2
<1>7. CASE InterceptorElement(dir, name, spec)
  <2>1. f \in FilesOf(File(dir, name, "interceptor"), spec)
    BY <1>7 DEF InterceptorElement, Add
  <2>2. QED
    BY <1>1, <1>2, <2>1
<1>8. QED
  BY <1>3, <1>4, <1>5, <1>6, <1>7 DEF GenerateElement

\* No sequence of commands writes a spec file into a project in TypeScript unless its
\* configuration says so and --no-spec was not given (isSpec, the schematics' filter).
THEOREM CliSpecsOnlyWhereConfigured == CliSpec => SpecsOnlyWhereConfigured
<1> DEFINE Wanted == (\E f \in files' \ files : f.spec) /\ language = "ts" =>
                         request.spec # "no-spec" /\ config.spec \notin {"none", "off"}
<1>1. [CliNext]_cliVars => [Wanted]_files
  <2> SUFFICES ASSUME [CliNext]_cliVars, NEW f \in files' \ files, f.spec, language = "ts"
               PROVE  request.spec # "no-spec" /\ config.spec \notin {"none", "off"}
    BY DEF Wanted
  <2>1. files' # files
    OBVIOUS
  <2>2. CASE CreateApplicationFiles
    <3>1. files' = Application(<<"src">>).files
      BY <2>1, <2>2 DEF CreateApplicationFiles, CreateApplication, schematicVars
    <3>2. \A g \in Application(<<"src">>).files : g.spec = FALSE
      BY DEF Application, File
    <3>3. QED
      BY <3>1, <3>2
  <2>3. CASE Execute
    <3>1. GenerateElement(request.schematic, sourceRoot, request.location, request.flat, IsSpec(request))
      BY <2>1, <2>3 DEF Execute, schematicVars
    <3>2. IsSpec(request) \in BOOLEAN
      BY DEF IsSpec
    <3>3. IsSpec(request)
      BY <3>1, <3>2, ElementSpecs
    <3>4. QED
      BY <3>3 DEF IsSpec
  <2>4. QED
    BY <2>1, <2>2, <2>3, FilesChange DEF schematicVars
<1>2. QED
  BY <1>1, PTL DEF CliSpec, SpecsOnlyWhereConfigured, Wanted

-----------------------------------------------------------------------------
(* Paths                                                                   *)

LEMMA Smallest ==
  ASSUME NEW T \in SUBSET Nat, T # {}
  PROVE  \E i \in T : \A j \in T : i <= j
<1>1. PICK i \in T : \A j \in T : <<j, i>> \notin OpToRel(<, Nat)
  BY NatLessThanWellFounded, WFMin
<1>2. \A j \in T : ~ j < i
  BY <1>1 DEF OpToRel
<1>3. QED
  BY <1>2

LEMMA Largest ==
  ASSUME NEW n \in Nat, NEW T \in SUBSET (0..n), T # {}
  PROVE  \E i \in T : \A j \in T : j <= i
<1> DEFINE U == {n - i : i \in T}
<1>1. U \in SUBSET Nat /\ U # {}
  <2>1. PICK t \in T : TRUE
    OBVIOUS
  <2>2. n - t \in U
    OBVIOUS
  <2>3. \A i \in T : n - i \in Nat
    OBVIOUS
  <2>4. QED
    BY <2>2, <2>3
<1>2. PICK u \in U : \A v \in U : u <= v
  <2> HIDE DEF U
  <2>1. QED
    BY <1>1, Smallest
<1>3. PICK i \in T : u = n - i
  OBVIOUS
<1>4. \A j \in T : n - j \in U
  OBVIOUS
<1>5. \A j \in T : n - i <= n - j
  BY <1>2, <1>3, <1>4
<1>6. QED
  BY <1>5

\* A root is above what is below it.
LEMMA RootIsAbove ==
  ASSUME NEW S, NEW r \in Seq(S), NEW d \in Seq(S)
  PROVE  r \o d \in Seq(S) /\ IsPrefix(r, r \o d)
<1>1. /\ r \o d \in Seq(S) /\ Len(r \o d) = Len(r) + Len(d) /\ Len(r) \in Nat /\ Len(d) \in Nat
      /\ \A i \in 1..Len(r) : (r \o d)[i] = r[i]
  OBVIOUS
<1>2. SubSeq(r, 1, Len(r)) = SubSeq(r \o d, 1, Len(r))
  <2>1. CASE Len(r) = 0
    BY <2>1, SubSeqEmpty
  <2>2. CASE Len(r) # 0
    <3>1. 1 \in 1..Len(r) /\ Len(r) \in 1..Len(r)
      BY <1>1, <2>2
    <3>2. QED
      BY <3>1, SubSeqOfConcat1
  <2>3. QED
    BY <2>1, <2>2
<1>3. QED
  BY <1>1, <1>2 DEF IsPrefix

\* Two paths have a longest beginning in common.
LEMMA CommonBeginning ==
  ASSUME NEW d \in Seq(Names), NEW e \in Seq(Names)
  PROVE  /\ CommonLength(d, e) \in 0..Len(d) /\ CommonLength(d, e) <= Len(e)
         /\ SubSeq(d, 1, CommonLength(d, e)) = SubSeq(e, 1, CommonLength(d, e))
<1> DEFINE Common(n) == /\ n <= Len(e) /\ SubSeq(d, 1, n) = SubSeq(e, 1, n)
                        /\ n < Len(d) /\ n < Len(e) => d[n + 1] # e[n + 1]
           T == {n \in 0..Len(d) : n <= Len(e) /\ SubSeq(d, 1, n) = SubSeq(e, 1, n)}
<1>1. Len(d) \in Nat /\ Len(e) \in Nat
  OBVIOUS
<1>2. 0 \in T
  BY <1>1, SubSeqEmpty
<1>3. PICK n \in T : \A m \in T : m <= n
  <2>1. T \in SUBSET (0..Len(d))
    OBVIOUS
  <2> HIDE DEF T
  <2>2. QED
    BY <1>1, <1>2, <2>1, Largest
<1>4. Common(n)
  <2> SUFFICES ASSUME n < Len(d), n < Len(e), d[n + 1] = e[n + 1]
               PROVE  FALSE
    OBVIOUS
  <2>1. n + 1 \in 1..Len(d) /\ n + 1 \in 1..Len(e) /\ n \in Nat
    BY <1>1
  <2>2. SubSeq(d, 1, n + 1) = SubSeq(e, 1, n + 1)
    <3>1. \A k \in Nat : k = n + 1 => SubSeq(d, 1, k) = SubSeq(e, 1, k)
      <4> SUFFICES ASSUME NEW k \in Nat, k = n + 1
                   PROVE  SubSeq(d, 1, k) = SubSeq(e, 1, k)
        OBVIOUS
      <4>1. /\ 1 \in 1..Len(d) /\ k \in 1..Len(d) /\ 1 \in 1..Len(e) /\ k \in 1..Len(e)
            /\ n = k - 1
        BY <1>1, <2>1
      <4>2. SubSeq(d, 1, k) = SubSeq(d, 1, k - 1) \o <<d[k]>>
        BY <4>1, SubSeqRecursiveSecond
      <4>3. SubSeq(e, 1, k) = SubSeq(e, 1, k - 1) \o <<e[k]>>
        BY <4>1, SubSeqRecursiveSecond
      <4>4. SubSeq(d, 1, k - 1) = SubSeq(e, 1, k - 1) /\ d[k] = e[k]
        BY <4>1
      <4>5. QED
        BY ONLY <4>2, <4>3, <4>4, Zenon
    <3>2. QED
      BY <2>1, <3>1
  <2>3. n + 1 \in T
    BY <1>1, <2>1, <2>2
  <2>4. QED
    BY <1>1, <1>3, <2>1, <2>3
<1>5. \E m \in 0..Len(d) : Common(m)
  BY <1>4
<1>6. CommonLength(d, e) = CHOOSE m \in 0..Len(d) : Common(m)
  BY DEF CommonLength
<1>7. CommonLength(d, e) \in 0..Len(d) /\ Common(CommonLength(d, e))
  <2> HIDE DEF Common
  <2>1. QED
    BY <1>5, <1>6
<1>8. QED
  BY <1>7

\* An import leads to the file it was written for.
LEMMA ImportLeads ==
  ASSUME NEW dir \in Seq(Names), NEW f, f.dir \in Seq(Names)
  PROVE  /\ Resolved(dir, Relative(dir, f)).dir = f.dir
         /\ Resolved(dir, Relative(dir, f)).symbol = Symbol(f)
         /\ Resolved(dir, Relative(dir, f)) = [dir |-> f.dir, symbol |-> Symbol(f)]
         /\ Relative(dir, f).name = Symbol(f)
<1> DEFINE n == CommonLength(dir, f.dir)
           e == f.dir
<1>1. /\ n \in 0..Len(dir) /\ n <= Len(e) /\ SubSeq(dir, 1, n) = SubSeq(e, 1, n)
      /\ e \in Seq(Names) /\ Len(e) \in Nat /\ Len(dir) \in Nat
  <2>1. e \in Seq(Names) /\ Len(e) \in Nat /\ Len(dir) \in Nat
    OBVIOUS
  <2>2. /\ CommonLength(dir, e) \in 0..Len(dir) /\ CommonLength(dir, e) <= Len(e)
        /\ SubSeq(dir, 1, CommonLength(dir, e)) = SubSeq(e, 1, CommonLength(dir, e))
    <3> HIDE DEF e
    <3>1. QED
      BY <2>1, CommonBeginning
  <2>3. QED
    BY <2>1, <2>2
<1>2. Relative(dir, f) = [up |-> Len(dir) - n, down |-> SubSeq(f.dir, n + 1, Len(f.dir)),
                          name |-> Symbol(f)]
  BY DEF Relative
<1>3. Resolved(dir, Relative(dir, f)) =
         [dir |-> SubSeq(dir, 1, Len(dir) - (Len(dir) - n)) \o SubSeq(e, n + 1, Len(e)),
          symbol |-> Symbol(f)]
  BY <1>2 DEF Resolved
<1> HIDE DEF n, e
<1>4. Len(dir) - (Len(dir) - n) = n
  BY <1>1
<1>5. SubSeq(e, 1, n) \o SubSeq(e, n + 1, Len(e)) = e
  <2>1. 1 \in 1..Len(e) + 1 /\ n \in (1 - 1)..Len(e) /\ Len(e) \in n..Len(e)
    BY <1>1
  <2>2. SubSeq(e, 1, n) \o SubSeq(e, n + 1, Len(e)) = SubSeq(e, 1, Len(e))
    BY <1>1, <2>1, ConcatAdjacentSubSeq
  <2>3. QED
    BY <1>1, <2>2, SubSeqFull
<1>6. SubSeq(dir, 1, Len(dir) - (Len(dir) - n)) \o SubSeq(e, n + 1, Len(e)) = e
  BY <1>1, <1>4, <1>5
<1>7. Resolved(dir, Relative(dir, f)) = [dir |-> f.dir, symbol |-> Symbol(f)]
  <2>1. Resolved(dir, Relative(dir, f)) = [dir |-> e, symbol |-> Symbol(f)]
    BY ONLY <1>3, <1>6, Zenon
  <2>2. QED
    BY <2>1 DEF e
<1>8. Relative(dir, f).name = Symbol(f)
  BY <1>2
<1>9. QED
  BY <1>7, <1>8

-----------------------------------------------------------------------------
(* Sources                                                                 *)

LEMMA InsertAtIs ==
  ASSUME NEW s, NEW i, NEW e
  PROVE  InsertAt(s, i, e) = SubSeq(s, 1, i - 1) \o <<e>> \o SubSeq(s, i, Len(s))
  BY DEF InsertAt

\* A line that is inserted is one more line.
LEMMA Inserted ==
  ASSUME NEW S, NEW lines \in Seq(S), NEW line \in S, NEW p \in 1..Len(lines), NEW q, q = p + 1
  PROVE  /\ InsertAt(lines, q, line) \in Seq(S)
         /\ Len(InsertAt(lines, q, line)) = Len(lines) + 1
         /\ \A k \in 1..p : InsertAt(lines, q, line)[k] = lines[k]
         /\ InsertAt(lines, q, line)[p + 1] = line
         /\ \A k \in (p + 1)..Len(lines) : InsertAt(lines, q, line)[k + 1] = lines[k]
<1> DEFINE a == SubSeq(lines, 1, p)
           b == SubSeq(lines, p + 1, Len(lines))
           new == InsertAt(lines, q, line)
<1>1. Len(lines) \in Nat /\ p \in Nat /\ p + 1 - 1 = p /\ p <= Len(lines) /\ 1 <= p
  OBVIOUS
<1>2. a \in Seq(S) /\ Len(a) = p /\ \A k \in 1..p : a[k] = lines[k]
  BY <1>1
<1>3. b \in Seq(S) /\ Len(b) = Len(lines) - p /\ \A k \in 1..(Len(lines) - p) : b[k] = lines[k + p]
  BY <1>1
<1>4. new = a \o <<line>> \o b
  <2>1. InsertAt(lines, q, line) = SubSeq(lines, 1, q - 1) \o <<line>> \o SubSeq(lines, q, Len(lines))
    BY InsertAtIs
  <2>2. SubSeq(lines, 1, q - 1) = a /\ SubSeq(lines, q, Len(lines)) = b
    BY <1>1
  <2>3. QED
    BY <2>1, <2>2, Zenon
<1> HIDE DEF a, b, new
<1>5. /\ a \o <<line>> \in Seq(S) /\ Len(a \o <<line>>) = p + 1 /\ (a \o <<line>>)[p + 1] = line
      /\ \A k \in 1..p : (a \o <<line>>)[k] = a[k]
  BY <1>1, <1>2
<1> DEFINE c == a \o <<line>>
<1> HIDE DEF c
<1>6. c \in Seq(S) /\ Len(c) = p + 1 /\ c[p + 1] = line /\ \A k \in 1..p : c[k] = lines[k]
  BY <1>2, <1>5 DEF c
<1>7. /\ new \in Seq(S) /\ Len(new) = Len(c) + Len(b)
      /\ \A k \in 1..Len(c) : new[k] = c[k]
      /\ \A k \in 1..Len(b) : new[k + Len(c)] = b[k]
  <2>1. new = c \o b
    BY <1>4, Zenon DEF c
  <2>2. b \in Seq(S) /\ c \in Seq(S)
    BY <1>3, <1>6
  <2>3. QED
    BY ONLY <2>1, <2>2
<1>8. \A k \in (p + 1)..Len(lines) : new[k + 1] = lines[k]
  <2> SUFFICES ASSUME NEW k \in (p + 1)..Len(lines)
               PROVE  new[k + 1] = lines[k]
    OBVIOUS
  <2>1. Len(b) = Len(lines) - p /\ Len(c) = p + 1
    BY <1>3, <1>6
  <2>2. PICK j \in 1..Len(b) : j + p = k
    <3>1. k - p \in 1..Len(b) /\ (k - p) + p = k
      BY ONLY <1>1, <2>1, k \in (p + 1)..Len(lines)
    <3>2. QED
      BY <3>1
  <2>3. new[j + Len(c)] = b[j] /\ b[j] = lines[j + p]
    BY <1>3, <1>7, <2>1
  <2>4. j + Len(c) = k + 1
    BY ONLY <1>1, <2>1, <2>2, k \in (p + 1)..Len(lines)
  <2>5. QED
    BY <2>2, <2>3, <2>4
<1>9. Len(new) = Len(lines) + 1 /\ new[p + 1] = line /\ \A k \in 1..p : new[k] = lines[k]
  BY <1>1, <1>3, <1>6, <1>7
<1>10. QED
  BY <1>7, <1>8, <1>9 DEF new

\* An import goes after an import, if there is one, and not behind the last.
LEMMA InsertedImport ==
  ASSUME NEW S, NEW lines \in Seq(S), lines # <<>>, NEW import \in S
  PROVE  \E p \in 1..Len(lines), q \in Nat :
            /\ q = p + 1
            /\ InsertImport(lines, import) = InsertAt(lines, q, import)
            /\ \/ \A k \in 1..Len(lines) : lines[k].kind # "import"
               \/ \E last \in 1..Len(lines) : p <= last /\ lines[last].kind = "import"
<1> DEFINE imports == {i \in DOMAIN lines : lines[i].kind = "import"}
           last == CHOOSE i \in imports : \A j \in imports : j <= i
           like == {i \in imports : lines[i] = lines[last]}
           first == CHOOSE i \in imports : lines[i] = lines[last]
                                          /\ \A j \in imports : lines[j] = lines[last] => i <= j
<1>1. Len(lines) \in Nat \ {0} /\ DOMAIN lines = 1..Len(lines)
  OBVIOUS
<1>2. CASE imports = {}
  <2>1. InsertImport(lines, import) = InsertAt(lines, 2, import)
    BY <1>2 DEF InsertImport
  <2>2. \A k \in 1..Len(lines) : lines[k].kind # "import"
    BY <1>1, <1>2
  <2>3. 1 \in 1..Len(lines) /\ 2 = 1 + 1
    BY <1>1
  <2>4. QED
    BY <2>1, <2>2, <2>3
<1>3. CASE imports # {}
  <2>1. last \in imports /\ \A j \in imports : j <= last
    <3>1. imports \in SUBSET (0..Len(lines))
      BY <1>1
    <3>2. \E i \in imports : \A j \in imports : j <= i
      <4> HIDE DEF imports
      <4>1. QED
        BY <1>1, <1>3, <3>1, Largest
    <3> HIDE DEF imports
    <3>3. QED
      BY <3>2
  <2> HIDE DEF last
  <2>2. first \in imports /\ lines[first] = lines[last]
        /\ \A j \in imports : lines[j] = lines[last] => first <= j
    <3>1. like \in SUBSET Nat /\ last \in like
      BY <1>1, <2>1
    <3>2. PICK i \in like : \A j \in like : i <= j
      <4> HIDE DEF like
      <4>1. QED
        BY <3>1, Smallest
    <3>3. \E k \in imports : lines[k] = lines[last]
                            /\ \A j \in imports : lines[j] = lines[last] => k <= j
      BY <3>2
    <3> HIDE DEF imports
    <3>4. QED
      BY <3>3
  <2>3. InsertImport(lines, import) = InsertAt(lines, first + 1, import)
    BY <1>3 DEF InsertImport, last
  <2> HIDE DEF first
  <2>4. first \in 1..Len(lines) /\ last \in 1..Len(lines) /\ first <= last /\ lines[last].kind = "import"
    BY <1>1, <2>1, <2>2
  <2>5. PICK q \in Nat : q = first + 1
    BY <2>4
  <2>6. InsertImport(lines, import) = InsertAt(lines, q, import)
    BY <2>3, <2>5
  <2>7. QED
    BY <2>4, <2>5, <2>6
<1>4. QED
  BY <1>2, <1>3

\* A module's source: some lines, three properties.
SourceShape(s) ==
    /\ s.decorated \in BOOLEAN
    /\ s.lines \in Seq(Range(s.lines)) /\ s.lines # <<>>
    /\ s.metadata = [k \in Keys |-> s.metadata[k]]
    /\ \A k \in Keys : /\ s.metadata[k].form \in {"none", "array", "other"}
                       /\ s.metadata[k].symbols \in Seq(Range(s.metadata[k].symbols))

ImportsFirst(s) ==
    s.lines[1].kind = "import" =>
        \A i, j \in DOMAIN s.lines : s.lines[i].kind = "code" /\ s.lines[j].kind = "import" => j < i

OwnOf(s) == {l \in Range(s.lines) : l.kind = "import" /\ l.from.name # <<"@typeix", "library">>}
DeclaredOf(s) == UNION {Range(s.metadata[k].symbols) : k \in Keys}

Declares(s) ==
    /\ DeclaredOf(s) \subseteq {i.symbol : i \in OwnOf(s)}
    /\ s.decorated /\ (\A k \in Keys : s.metadata[k].form # "other")
           => {i.symbol : i \in OwnOf(s)} \subseteq DeclaredOf(s)

\* Lines that are extended by an import.
LEMMA LinesWithImport ==
  ASSUME NEW lines, lines \in Seq(Range(lines)), lines # <<>>, NEW import, import.kind = "import"
  PROVE  /\ InsertImport(lines, import) \in Seq(Range(InsertImport(lines, import)))
         /\ InsertImport(lines, import) # <<>>
         /\ Range(InsertImport(lines, import)) = Range(lines) \cup {import}
         /\ (lines[1].kind = "import" =>
                \A i, j \in DOMAIN lines : lines[i].kind = "code" /\ lines[j].kind = "import" => j < i)
            => (InsertImport(lines, import)[1].kind = "import" =>
                \A i, j \in DOMAIN InsertImport(lines, import) :
                    InsertImport(lines, import)[i].kind = "code"
                    /\ InsertImport(lines, import)[j].kind = "import" => j < i)
<1> DEFINE S == Range(lines) \cup {import}
           new == InsertImport(lines, import)
<1>1. lines \in Seq(S) /\ import \in S
  <2>1. Range(lines) \subseteq S
    OBVIOUS
  <2>2. lines \in Seq(S)
    BY <2>1, SeqMonotonic
  <2>3. QED
    BY <2>2
<1> HIDE DEF S
<1>2. PICK p \in 1..Len(lines), q \in Nat :
         /\ q = p + 1 /\ new = InsertAt(lines, q, import)
         /\ \/ \A k \in 1..Len(lines) : lines[k].kind # "import"
            \/ \E last \in 1..Len(lines) : p <= last /\ lines[last].kind = "import"
  BY <1>1, InsertedImport
<1>3. /\ new \in Seq(S) /\ Len(new) = Len(lines) + 1
      /\ (\A k \in 1..p : new[k] = lines[k]) /\ new[p + 1] = import
      /\ \A k \in (p + 1)..Len(lines) : new[k + 1] = lines[k]
  <2>1. q = p + 1 /\ lines \in Seq(S) /\ import \in S
    BY <1>1, <1>2
  <2>2. /\ InsertAt(lines, q, import) \in Seq(S)
        /\ Len(InsertAt(lines, q, import)) = Len(lines) + 1
        /\ \A k \in 1..p : InsertAt(lines, q, import)[k] = lines[k]
        /\ InsertAt(lines, q, import)[p + 1] = import
        /\ \A k \in (p + 1)..Len(lines) : InsertAt(lines, q, import)[k + 1] = lines[k]
    BY <2>1, Inserted, SMTT(60)
  <2>3. new = InsertAt(lines, q, import)
    BY <1>2
  <2>4. QED
    BY <2>2, <2>3, Zenon
<1>4. /\ Len(lines) \in Nat /\ DOMAIN lines = 1..Len(lines) /\ DOMAIN new = 1..Len(new)
      /\ p \in Nat /\ 1 <= p /\ p <= Len(lines)
  BY <1>1, <1>2, <1>3
<1> HIDE DEF new
\* Each line of new is the import, or a line from before or behind it.
<1>5. \A i \in 1..Len(new) :
         \/ i \in 1..p /\ new[i] = lines[i]
         \/ i = p + 1
         \/ \E k \in (p + 1)..Len(lines) : i = k + 1 /\ new[i] = lines[k]
  <2> SUFFICES ASSUME NEW i \in 1..Len(new), ~(i \in 1..p), i # p + 1
               PROVE  \E k \in (p + 1)..Len(lines) : i = k + 1 /\ new[i] = lines[k]
    BY <1>3
  <2>1. PICK k \in (p + 1)..Len(lines) : i = k + 1
    <3>1. i - 1 \in (p + 1)..Len(lines) /\ i = (i - 1) + 1
      BY <1>3, <1>4
    <3>2. QED
      BY <3>1
  <2>2. QED
    BY <1>3, <2>1
<1>6. Range(new) = Range(lines) \cup {import}
  <2>1. Range(new) \subseteq S
    BY <1>3, <1>4 DEF Range
  <2>2. import \in Range(new)
    <3>1. p + 1 \in 1..Len(new)
      BY <1>3, <1>4
    <3>2. QED
      BY <1>3, <1>4, <3>1 DEF Range
  <2>3. ASSUME NEW k \in 1..Len(lines)
        PROVE  lines[k] \in Range(new)
    <3>1. CASE k \in 1..p
      <4>1. k \in 1..Len(new)
        BY <1>3, <1>4, <3>1
      <4>2. QED
        BY <1>3, <1>4, <3>1, <4>1 DEF Range
    <3>2. CASE k \in (p + 1)..Len(lines)
      <4>1. k + 1 \in 1..Len(new)
        BY <1>3, <1>4, <3>2
      <4>2. new[k + 1] = lines[k]
        BY <1>3, <3>2
      <4>3. QED
        BY <1>4, <4>1, <4>2 DEF Range
    <3>3. QED
      BY <1>4, <3>1, <3>2
  <2>4. QED
    BY <1>4, <2>1, <2>2, <2>3 DEF Range, S
<1>7. new \in Seq(Range(new)) /\ new # <<>>
  BY <1>3, <1>4, <1>6 DEF S
<1>8. ASSUME lines[1].kind = "import" =>
                \A i, j \in DOMAIN lines : lines[i].kind = "code" /\ lines[j].kind = "import" => j < i,
             new[1].kind = "import", NEW i \in DOMAIN new, NEW j \in DOMAIN new,
             new[i].kind = "code", new[j].kind = "import"
      PROVE  j < i
  <2>1. lines[1].kind = "import" /\ 1 \in 1..Len(lines)
    BY <1>3, <1>4, <1>8
  <2>2. \A k, l \in 1..Len(lines) : lines[k].kind = "code" /\ lines[l].kind = "import" => l < k
    BY <1>4, <1>8, <2>1
  <2>3. PICK last \in 1..Len(lines) : p <= last /\ lines[last].kind = "import"
    BY <1>2, <2>1
  <2>4. \A k \in 1..p : lines[k].kind # "code"
    <3> SUFFICES ASSUME NEW k \in 1..p, lines[k].kind = "code" PROVE FALSE
      OBVIOUS
    <3>1. k \in 1..Len(lines)
      BY <1>4
    <3>2. last < k
      BY <2>2, <2>3, <3>1
    <3>3. QED
      BY <1>4, <2>3, <3>2
  <2>5. PICK k \in (p + 1)..Len(lines) : i = k + 1 /\ lines[k].kind = "code"
    BY <1>3, <1>4, <1>5, <1>8, <2>4
  <2>6. CASE j \in 1..(p + 1)
    BY <1>4, <2>5, <2>6
  <2>7. CASE \E l \in (p + 1)..Len(lines) : j = l + 1 /\ new[j] = lines[l]
    <3>1. PICK l \in (p + 1)..Len(lines) : j = l + 1 /\ lines[l].kind = "import"
      BY <1>8, <2>7
    <3>2. l < k
      <4>1. l \in 1..Len(lines) /\ k \in 1..Len(lines)
        BY <1>4
      <4>2. QED
        BY <2>2, <2>5, <3>1, <4>1
    <3>3. QED
      BY <1>4, <2>5, <3>1, <3>2
  <2>8. j \in 1..(p + 1) \/ \E l \in (p + 1)..Len(lines) : j = l + 1 /\ new[j] = lines[l]
    BY <1>4, <1>5
  <2>9. QED
    BY <2>6, <2>7, <2>8
<1>9. QED
  BY <1>6, <1>7, <1>8 DEF new

\* A source with one more import, and with its symbol where the metadata can be
\* extended.
LEMMA SourceWithImport ==
  ASSUME NEW s, SourceShape(s), NEW import, import.kind = "import",
         import.from.name # <<"@typeix", "library">>, NEW key \in Keys
  PROVE  /\ SourceShape(With(s, import, key))
         /\ OwnOf(With(s, import, key)) = OwnOf(s) \cup {import}
         /\ ImportsFirst(s) => ImportsFirst(With(s, import, key))
         /\ Declares(s) => Declares(With(s, import, key))
<1> DEFINE t == With(s, import, key)
<1>1. /\ t.decorated = s.decorated /\ t.lines = InsertImport(s.lines, import)
      /\ t.metadata = [s.metadata EXCEPT ![key] = InsertSymbol(s.decorated, @, import.symbol)]
  BY DEF With
<1>2. /\ t.metadata[key] = InsertSymbol(s.decorated, s.metadata[key], import.symbol)
      /\ \A k \in Keys : k # key => t.metadata[k] = s.metadata[k]
      /\ t.metadata = [k \in Keys |-> t.metadata[k]]
  <2> HIDE DEF t
  <2>1. s.metadata = [k \in Keys |-> s.metadata[k]]
    BY DEF SourceShape
  <2>2. PICK v : v = InsertSymbol(s.decorated, s.metadata[key], import.symbol)
    OBVIOUS
  <2>3. t.metadata = [s.metadata EXCEPT ![key] = v]
    BY <1>1, <2>2
  <2>4. /\ t.metadata[key] = v /\ \A k \in Keys : k # key => t.metadata[k] = s.metadata[k]
        /\ t.metadata = [k \in Keys |-> t.metadata[k]]
    BY ONLY <2>1, <2>3, key \in Keys
  <2>5. QED
    BY <2>2, <2>4
<1> HIDE DEF t
<1>3. /\ s.lines \in Seq(Range(s.lines)) /\ s.lines # <<>> /\ s.decorated \in BOOLEAN
  BY DEF SourceShape
<1>4. /\ t.lines \in Seq(Range(t.lines)) /\ t.lines # <<>>
      /\ Range(t.lines) = Range(s.lines) \cup {import}
      /\ ImportsFirst(s) => ImportsFirst(t)
  BY <1>1, <1>3, LinesWithImport DEF ImportsFirst
<1>5. OwnOf(t) = OwnOf(s) \cup {import}
  BY <1>4 DEF OwnOf
<1>6. \/ /\ s.decorated /\ s.metadata[key].form # "other"
         /\ t.metadata[key].form = "array"
         /\ t.metadata[key].symbols \in Seq(Range(t.metadata[key].symbols))
         /\ Range(t.metadata[key].symbols) = Range(s.metadata[key].symbols) \cup {import.symbol}
      \/ /\ ~s.decorated \/ s.metadata[key].form = "other"
         /\ t.metadata[key] = s.metadata[key]
  <2>1. CASE s.decorated /\ s.metadata[key].form # "other"
    <3> DEFINE old == s.metadata[key].symbols
               S == Range(old) \cup {import.symbol}
    <3>1. t.metadata[key] = [form |-> "array", symbols |-> Append(old, import.symbol)]
      BY <1>2, <2>1 DEF InsertSymbol, Array, Property
    <3>2. old \in Seq(S)
      <4>1. old \in Seq(Range(old)) /\ Range(old) \subseteq S
        BY DEF SourceShape
      <4>2. QED
        BY <4>1, SeqMonotonic
    <3>3. import.symbol \in S
      OBVIOUS
    <3>4. t.metadata[key].form = "array" /\ t.metadata[key].symbols = Append(old, import.symbol)
      BY <3>1
    <3> DEFINE new == Append(old, import.symbol)
    <3>5. /\ new \in Seq(S) /\ Len(new) = Len(old) + 1 /\ Len(old) \in Nat
          /\ new[Len(old) + 1] = import.symbol
          /\ \A i \in 1..Len(old) : new[i] = old[i]
          /\ DOMAIN old = 1..Len(old) /\ DOMAIN new = 1..Len(new)
      <4> HIDE DEF S
      <4>1. QED
        BY <3>2, <3>3
    <3> HIDE DEF new, old
    <3>6. Range(new) = S
      <4>1. Range(new) \subseteq S
        BY <3>5 DEF Range
      <4>2. \A i \in 1..Len(old) : i \in 1..Len(new)
        BY <3>5
      <4>3. Len(old) + 1 \in 1..Len(new)
        BY <3>5
      <4>4. QED
        BY <3>5, <4>1, <4>2, <4>3 DEF Range
    <3>7. QED
      BY <2>1, <3>4, <3>5, <3>6 DEF new, old
  <2>2. CASE ~(s.decorated /\ s.metadata[key].form # "other")
    BY <1>2, <2>2 DEF InsertSymbol
  <2>3. QED
    BY <2>1, <2>2
<1>7. SourceShape(t)
  BY <1>1, <1>2, <1>3, <1>4, <1>6 DEF SourceShape
<1>8. ASSUME Declares(s)
      PROVE  Declares(t)
  <2>1. CASE s.decorated /\ s.metadata[key].form # "other" /\ t.metadata[key].form = "array"
             /\ Range(t.metadata[key].symbols) = Range(s.metadata[key].symbols) \cup {import.symbol}
    <3>1. DeclaredOf(t) = DeclaredOf(s) \cup {import.symbol}
      <4>1. DeclaredOf(t) \subseteq DeclaredOf(s) \cup {import.symbol}
        BY <1>2, <2>1 DEF DeclaredOf
      <4>2. DeclaredOf(s) \subseteq DeclaredOf(t)
        BY <1>2, <2>1 DEF DeclaredOf
      <4>3. import.symbol \in DeclaredOf(t)
        BY <2>1 DEF DeclaredOf
      <4>4. QED
        BY <4>1, <4>2, <4>3
    <3>2. (\A k \in Keys : t.metadata[k].form # "other") => \A k \in Keys : s.metadata[k].form # "other"
      BY <1>2, <2>1
    <3>3. {i.symbol : i \in OwnOf(t)} = {i.symbol : i \in OwnOf(s)} \cup {import.symbol}
      BY <1>5
    <3>4. QED
      BY <1>1, <1>8, <3>1, <3>2, <3>3 DEF Declares
  <2>2. CASE (~s.decorated \/ s.metadata[key].form = "other") /\ t.metadata[key] = s.metadata[key]
    <3>1. DeclaredOf(t) = DeclaredOf(s)
      BY <1>2, <2>2 DEF DeclaredOf
    <3>2. ~(t.decorated /\ \A k \in Keys : t.metadata[k].form # "other")
      BY <1>1, <2>2
    <3>3. {i.symbol : i \in OwnOf(s)} \subseteq {i.symbol : i \in OwnOf(t)}
      BY <1>5
    <3>4. QED
      BY <1>8, <3>1, <3>2, <3>3 DEF Declares
  <2>3. QED
    BY <1>6, <2>1, <2>2
<1>9. QED
  BY <1>4, <1>5, <1>7, <1>8 DEF t

-----------------------------------------------------------------------------
(* Files and modules                                                       *)

Types == {"module", "controller", "service", "plain", "interceptor"}
FileSet == [dir : Seq(Names), name : Names, type : Types, spec : BOOLEAN]

GoodSource(s) == SourceShape(s) /\ ImportsFirst(s) /\ Declares(s)

\* A module's imports lead to files, which have the class.
Leads(m, s, all) ==
    \A i \in OwnOf(s) : \E f \in all :
        /\ ~f.spec /\ Symbol(f) = i.symbol
        /\ Resolved(m.dir, i.from) = [dir |-> f.dir, symbol |-> i.symbol]

FilesTyped ==
    /\ language \in {"none", "ts", "js"}
    /\ files \subseteq FileSet
    /\ config.sourceRoot \in Seq(Names)
    /\ \A p \in Projects : config.projects[p] \in Seq(Names)

ModulesAreGood ==
    /\ modules = [m \in DOMAIN modules |-> modules[m]]
    /\ \A m \in DOMAIN modules :
          /\ m \in files /\ m.type = "module" /\ ~m.spec
          /\ GoodSource(modules[m]) /\ Leads(m, modules[m], files)
    /\ language # "none" => RootModule(config.sourceRoot) \in DOMAIN modules

Importers(f) ==
    {m \in DOMAIN modules : \E i \in OwnOf(modules[m]) :
        Resolved(m.dir, i.from) = [dir |-> f.dir, symbol |-> Symbol(f)] /\ IsPrefix(m.dir, f.dir)}

ImportedOnce ==
    \A f \in files \ Application(config.sourceRoot).files :
        ~f.spec /\ f.type # "interceptor" /\ IsPrefix(config.sourceRoot, f.dir)
            => \E m : Importers(f) = {m}

SourcesInv == FilesTyped /\ ModulesAreGood /\ ImportedOnce /\ FilesLieUnderRoots

\* An element is added: its files, an import in at most one module above it and,
\* perhaps, its own module.
LEMMA AddedElement ==
  ASSUME SourcesInv, config' = config, language' = language, language # "none",
         NEW f \in FileSet, ~f.spec, NEW N, f \in N, N \subseteq {f, [f EXCEPT !.spec = TRUE]},
         N \cap files = {}, files' = files \cup N, \E r \in SourceRoots : IsPrefix(r, f.dir),
         NEW T \in SUBSET DOMAIN modules, T = {} \/ (\E m : T = {m}),
         \A m \in T : IsPrefix(m.dir, f.dir),
         f.type # "interceptor" /\ (\E m \in DOMAIN modules : IsPrefix(m.dir, f.dir)) => T # {},
         NEW X, X = {} \/ (X = {f} /\ f.type = "module"),
         modules' = [m \in DOMAIN modules \cup X |-> modules'[m]],
         \A m \in DOMAIN modules \cup X : GoodSource(modules'[m]),
         \A m \in DOMAIN modules :
             OwnOf(modules'[m]) = OwnOf(modules[m])
                 \cup IF m \in T THEN {Import(Symbol(f), Relative(m.dir, f))} ELSE {},
         \A m \in X : OwnOf(modules'[m]) = {}
  PROVE  SourcesInv'
<1> USE DEF SourcesInv
<1>1. /\ N \subseteq FileSet /\ \A g \in N : g.dir = f.dir /\ (~g.spec => g = f)
      /\ f \notin files /\ f \in files' /\ files \subseteq files'
  <2>1. PICK h : h = [f EXCEPT !.spec = TRUE]
    OBVIOUS
  <2>2. h \in FileSet /\ h.dir = f.dir /\ h.spec
    BY ONLY <2>1, f \in FileSet DEF FileSet
  <2>3. N \subseteq {f, h}
    BY <2>1
  <2>4. f \notin files /\ f \in files' /\ files \subseteq files'
    OBVIOUS
  <2>5. QED
    BY ONLY <2>2, <2>3, <2>4, f \in FileSet
<1>2. FilesTyped'
  <2>1. files' \subseteq FileSet
    BY <1>1 DEF FilesTyped
  <2>2. QED
    BY <2>1 DEF FilesTyped, Projects
<1>3. FilesLieUnderRoots'
  <2>1. SourceRoots' = SourceRoots
    BY DEF SourceRoots, Projects
  <2>2. QED
    BY <1>1, <2>1 DEF FilesLieUnderRoots
<1>4. DOMAIN modules' = DOMAIN modules \cup X /\ f \notin DOMAIN modules
  BY <1>1 DEF ModulesAreGood
<1>5. ASSUME NEW m \in DOMAIN modules
      PROVE  /\ Import(Symbol(f), Relative(m.dir, f)).symbol = Symbol(f)
             /\ Resolved(m.dir, Import(Symbol(f), Relative(m.dir, f)).from) =
                   [dir |-> f.dir, symbol |-> Symbol(f)]
  <2>1. m.dir \in Seq(Names) /\ f.dir \in Seq(Names)
    <3>1. m \in FileSet
      BY DEF ModulesAreGood, FilesTyped
    <3>2. QED
      BY <3>1 DEF FileSet
  <2>2. Resolved(m.dir, Relative(m.dir, f)) = [dir |-> f.dir, symbol |-> Symbol(f)]
    BY <2>1, ImportLeads
  <2>3. QED
    BY <2>2 DEF Import
<1>6. ModulesAreGood'
  <2>1. ASSUME NEW m \in DOMAIN modules'
        PROVE  /\ m \in files' /\ m.type = "module" /\ ~m.spec
               /\ GoodSource(modules'[m]) /\ Leads(m, modules'[m], files')
    <3>1. CASE m \in X
      BY <1>1, <3>1 DEF Leads
    <3>2. CASE m \in DOMAIN modules
      <4>1. m \in files /\ m.type = "module" /\ ~m.spec /\ Leads(m, modules[m], files)
        BY <3>2 DEF ModulesAreGood
      <4>2. Leads(m, modules'[m], files')
        <5> SUFFICES ASSUME NEW i \in OwnOf(modules'[m])
                     PROVE  \E g \in files' :
                               /\ ~g.spec /\ Symbol(g) = i.symbol
                               /\ Resolved(m.dir, i.from) = [dir |-> g.dir, symbol |-> i.symbol]
          BY DEF Leads
        <5>1. CASE i \in OwnOf(modules[m])
          BY <1>1, <4>1, <5>1 DEF Leads
        <5>2. CASE i = Import(Symbol(f), Relative(m.dir, f))
          BY <1>1, <1>5, <3>2, <5>2
        <5>3. QED
          BY <3>2, <5>1, <5>2
      <4>3. QED
        BY <1>1, <3>2, <4>1, <4>2
    <3>3. QED
      BY <1>4, <3>1, <3>2
  <2>2. modules' = [m \in DOMAIN modules' |-> modules'[m]]
    BY <1>4
  <2>3. RootModule(config'.sourceRoot) \in DOMAIN modules'
    BY <1>4 DEF ModulesAreGood
  <2>4. QED
    BY <2>1, <2>2, <2>3 DEF ModulesAreGood
\* The import of f is nobody else's, and f's importers are the targets.
<1>7. ASSUME NEW g \in files, ~g.spec
      PROVE  Importers(g)' = Importers(g)
  <2>1. [dir |-> g.dir, symbol |-> Symbol(g)] # [dir |-> f.dir, symbol |-> Symbol(f)]
    <3>1. g \in FileSet /\ g # f
      BY <1>1 DEF FilesTyped
    <3>2. g.dir # f.dir \/ g.name # f.name \/ g.type # f.type
      BY <1>7, <3>1 DEF FileSet
    <3>3. QED
      BY <3>2 DEF Symbol
  <2>2. \A m \in DOMAIN modules :
           (\E i \in OwnOf(modules'[m]) :
               Resolved(m.dir, i.from) = [dir |-> g.dir, symbol |-> Symbol(g)] /\ IsPrefix(m.dir, g.dir))
           <=> \E i \in OwnOf(modules[m]) :
               Resolved(m.dir, i.from) = [dir |-> g.dir, symbol |-> Symbol(g)] /\ IsPrefix(m.dir, g.dir)
    BY <1>5, <2>1
  <2>3. QED
    BY <1>4, <2>2 DEF Importers
<1>8. Importers(f)' = T
  <2>1. ASSUME NEW m \in DOMAIN modules, NEW i \in OwnOf(modules[m])
        PROVE  Resolved(m.dir, i.from) # [dir |-> f.dir, symbol |-> Symbol(f)]
    <3> SUFFICES ASSUME Resolved(m.dir, i.from) = [dir |-> f.dir, symbol |-> Symbol(f)]
                 PROVE  FALSE
      OBVIOUS
    <3>1. PICK g \in files : /\ ~g.spec /\ Symbol(g) = i.symbol
                             /\ Resolved(m.dir, i.from) = [dir |-> g.dir, symbol |-> i.symbol]
      BY <2>1 DEF ModulesAreGood, Leads
    <3>2. g.dir = f.dir /\ i.symbol = Symbol(f)
      <4>1. [dir |-> g.dir, symbol |-> i.symbol] = [dir |-> f.dir, symbol |-> Symbol(f)]
        BY <3>1
      <4>2. QED
        BY ONLY <4>1
    <3>3. g \in FileSet
      BY DEF FilesTyped
    <3>4. g.name = f.name /\ g.type = f.type
      BY <3>1, <3>2 DEF Symbol
    <3>5. g = f
      BY <3>1, <3>2, <3>3, <3>4 DEF FileSet
    <3>6. QED
      BY <1>1, <3>5
  <2>2. \A m \in DOMAIN modules' :
           (\E i \in OwnOf(modules'[m]) :
               Resolved(m.dir, i.from) = [dir |-> f.dir, symbol |-> Symbol(f)] /\ IsPrefix(m.dir, f.dir))
           <=> m \in T
    BY <1>4, <1>5, <2>1
  <2>3. QED
    BY <1>4, <2>2 DEF Importers
<1>9. ImportedOnce'
  <2> SUFFICES ASSUME NEW g \in files', g \notin Application(config.sourceRoot).files, ~g.spec,
                      g.type # "interceptor", IsPrefix(config.sourceRoot, g.dir)
               PROVE  \E m : Importers(g)' = {m}
    BY DEF ImportedOnce
  <2>1. CASE g \in files
    BY <1>7, <2>1 DEF ImportedOnce
  <2>2. CASE g = f
    <3>1. RootModule(config.sourceRoot) \in DOMAIN modules
          /\ RootModule(config.sourceRoot).dir = config.sourceRoot
      BY DEF ModulesAreGood, RootModule, File
    <3>2. T # {}
      BY <2>2, <3>1
    <3>3. QED
      BY <1>8, <2>2, <3>2
  <2>3. QED
    BY <1>1, <2>1, <2>2
<1>10. QED
  BY <1>2, <1>3, <1>6, <1>9

\* If there are modules above, there is a nearest one.
LEMMA NearestIs ==
  ASSUME SourcesInv, NEW dir \in Seq(Names)
  PROVE  /\ \A m \in Nearest(dir) : m \in DOMAIN modules /\ IsPrefix(m.dir, dir)
         /\ (\E m \in DOMAIN modules : IsPrefix(m.dir, dir)) => Nearest(dir) # {}
<1> DEFINE above == {m \in DOMAIN modules : IsPrefix(m.dir, dir)}
           L == {Len(m.dir) : m \in above}
<1>1. Nearest(dir) = {m \in above : \A n \in above : Len(n.dir) <= Len(m.dir)}
  BY DEF Nearest
<1>2. ASSUME above # {}
      PROVE  Nearest(dir) # {}
  <2>1. L \in SUBSET (0..Len(dir)) /\ L # {} /\ Len(dir) \in Nat
    <3>1. ASSUME NEW m \in above
          PROVE  Len(m.dir) \in 0..Len(dir)
      <4>1. m.dir \in Seq(Names)
        <5>1. m \in FileSet
          BY DEF SourcesInv, ModulesAreGood, FilesTyped
        <5>2. QED
          BY <5>1 DEF FileSet
      <4>2. QED
        BY <4>1 DEF IsPrefix
    <3>2. Len(dir) \in Nat
      OBVIOUS
    <3> HIDE DEF above
    <3>3. QED
      BY <1>2, <3>1, <3>2
  <2>2. PICK l \in L : \A k \in L : k <= l
    <3> HIDE DEF L
    <3>1. QED
      BY <2>1, Largest
  <2>3. PICK m \in above : l = Len(m.dir)
    OBVIOUS
  <2>4. \A n \in above : Len(n.dir) <= Len(m.dir)
    BY <2>2, <2>3
  <2>5. QED
    BY <1>1, <2>4
<1>3. QED
  BY <1>1, <1>2

\* What is declared is declared in one module above, if there is one.
DeclaredOnce(f, mods) ==
    \E T \in SUBSET DOMAIN modules :
        /\ T = {} \/ \E m : T = {m}
        /\ \A m \in T : IsPrefix(m.dir, f.dir)
        /\ (\E m \in DOMAIN modules : IsPrefix(m.dir, f.dir)) => T # {}
        /\ mods = [m \in DOMAIN modules |-> mods[m]]
        /\ \A m \in DOMAIN modules :
              /\ GoodSource(mods[m])
              /\ OwnOf(mods[m]) = OwnOf(modules[m])
                    \cup IF m \in T THEN {Import(Symbol(f), Relative(m.dir, f))} ELSE {}

LEMMA DeclaredIn ==
  ASSUME SourcesInv, NEW f \in FileSet, NEW key \in Keys, NEW mods \in DeclareIn(f, key)
  PROVE  DeclaredOnce(f, mods)
<1> USE DEF DeclaredOnce
<1>1. f.dir \in Seq(Names)
  BY DEF FileSet
<1>2. /\ modules = [m \in DOMAIN modules |-> modules[m]]
      /\ \A m \in DOMAIN modules : GoodSource(modules[m])
  BY DEF SourcesInv, ModulesAreGood
<1>3. CASE Nearest(f.dir) = {}
  <2>1. mods = modules
    BY <1>3 DEF DeclareIn
  <2>2. ~ \E m \in DOMAIN modules : IsPrefix(m.dir, f.dir)
    BY <1>1, <1>3, NearestIs
  <2>3. WITNESS {} \in SUBSET DOMAIN modules
  <2>4. QED
    BY <1>2, <2>1, <2>2
<1>4. CASE Nearest(f.dir) # {}
  <2>1. PICK m \in Nearest(f.dir) : mods = Declare(m, f, key)
    BY <1>4 DEF DeclareIn
  <2>2. m \in DOMAIN modules /\ IsPrefix(m.dir, f.dir)
    BY <1>1, NearestIs
  <2> DEFINE import == Import(Symbol(f), Relative(m.dir, f))
  <2>3. import.kind = "import" /\ import.from.name # <<"@typeix", "library">>
    <3>1. import.kind = "import" /\ import.from = Relative(m.dir, f)
      BY DEF Import
    <3>2. Relative(m.dir, f).name = Symbol(f)
      BY DEF Relative
    <3>3. Symbol(f) # <<"@typeix", "library">>
      BY DEF Symbol, FileSet, Types
    <3>4. QED
      BY <3>1, <3>2, <3>3
  <2>4. mods = [modules EXCEPT ![m] = With(modules[m], import, key)]
    BY <2>1 DEF Declare
  <2> HIDE DEF import
  <2>5. /\ GoodSource(With(modules[m], import, key))
        /\ OwnOf(With(modules[m], import, key)) = OwnOf(modules[m]) \cup {import}
    BY <1>2, <2>2, <2>3, SourceWithImport DEF GoodSource
  <2>6. /\ mods = [n \in DOMAIN modules |-> mods[n]]
        /\ mods[m] = With(modules[m], import, key)
        /\ \A n \in DOMAIN modules : n # m => mods[n] = modules[n]
    <3>1. PICK w : w = With(modules[m], import, key)
      OBVIOUS
    <3>2. mods = [modules EXCEPT ![m] = w]
      BY <2>4, <3>1
    <3>3. /\ mods = [n \in DOMAIN modules |-> mods[n]] /\ mods[m] = w
          /\ \A n \in DOMAIN modules : n # m => mods[n] = modules[n]
      BY ONLY <1>2, <2>2, <3>2
    <3>4. QED
      BY <3>1, <3>3
  <2>7. \A n \in DOMAIN modules :
           /\ GoodSource(mods[n])
           /\ OwnOf(mods[n]) = OwnOf(modules[n])
                 \cup IF n \in {m} THEN {Import(Symbol(f), Relative(n.dir, f))} ELSE {}
    BY <1>2, <2>5, <2>6 DEF import
  <2>8. {m} \in SUBSET DOMAIN modules /\ {m} # {} /\ \E n : {m} = {n}
    BY <2>2
  <2>9. \A n \in {m} : IsPrefix(n.dir, f.dir)
    BY <2>2
  <2> DEFINE T == {m}
  <2> HIDE DEF T
  <2>10. /\ T \in SUBSET DOMAIN modules /\ T # {} /\ (\E n : T = {n}) /\ (\A n \in T : IsPrefix(n.dir, f.dir))
         /\ \A n \in DOMAIN modules :
               /\ GoodSource(mods[n])
               /\ OwnOf(mods[n]) = OwnOf(modules[n])
                     \cup IF n \in T THEN {Import(Symbol(f), Relative(n.dir, f))} ELSE {}
    BY <2>7, <2>8, <2>9 DEF T
  <2>11. QED
    BY <2>6, <2>10
<1>5. QED
  BY <1>3, <1>4

\* The files of an element: its own, and the one that tests it.
LEMMA ElementFiles ==
  ASSUME NEW dir \in Seq(Names), NEW name \in Names, NEW type \in Types, NEW spec \in BOOLEAN,
         NEW f, f = File(dir, name, type)
  PROVE  /\ f \in FileSet /\ ~f.spec /\ f.type = type /\ f.dir = dir
         /\ f \in FilesOf(f, spec) /\ FilesOf(f, spec) \subseteq {f, [f EXCEPT !.spec = TRUE]}
  BY DEF File, FileSet, FilesOf

\* A service, a provider or a controller.
LEMMA DeclaredElement ==
  ASSUME SourcesInv, config' = config, language # "none",
         NEW dir \in Seq(Names), NEW name \in Names, NEW type \in Types, type # "module",
         NEW spec \in BOOLEAN, NEW key \in Keys, \E r \in SourceRoots : IsPrefix(r, dir),
         Add(FilesOf(File(dir, name, type), spec)),
         modules' \in DeclareIn(File(dir, name, type), key)
  PROVE  SourcesInv'
<1>1. PICK f : f = File(dir, name, type)
  OBVIOUS
<1>2. /\ f \in FileSet /\ ~f.spec /\ f.type = type /\ f.dir = dir
      /\ f \in FilesOf(f, spec) /\ FilesOf(f, spec) \subseteq {f, [f EXCEPT !.spec = TRUE]}
  BY <1>1, ElementFiles
<1>3. PICK N : N = FilesOf(f, spec)
  OBVIOUS
<1>4. N \cap files = {} /\ files' = files \cup N /\ language' = language
  BY <1>1, <1>3 DEF Add
<1>5. PICK T \in SUBSET DOMAIN modules :
            /\ T = {} \/ \E m : T = {m}
            /\ \A m \in T : IsPrefix(m.dir, f.dir)
            /\ (\E m \in DOMAIN modules : IsPrefix(m.dir, f.dir)) => T # {}
            /\ modules' = [m \in DOMAIN modules |-> modules'[m]]
            /\ \A m \in DOMAIN modules :
                  /\ GoodSource(modules'[m])
                  /\ OwnOf(modules'[m]) = OwnOf(modules[m])
                        \cup IF m \in T THEN {Import(Symbol(f), Relative(m.dir, f))} ELSE {}
  <2>1. modules' \in DeclareIn(f, key)
    BY <1>1
  <2>2. \A mods \in DeclareIn(f, key) : DeclaredOnce(f, mods)
    BY <1>2, <2>1, DeclaredIn
  <2>3. DeclaredOnce(f, modules')
    BY <2>1, <2>2
  <2>4. QED
    BY <2>3 DEF DeclaredOnce
<1>6. PICK X : X = {}
  OBVIOUS
<1>7. DOMAIN modules \cup X = DOMAIN modules
  BY <1>6
<1>8. /\ modules' = [m \in DOMAIN modules \cup X |-> modules'[m]]
      /\ \A m \in DOMAIN modules \cup X : GoodSource(modules'[m])
      /\ \A m \in X : OwnOf(modules'[m]) = {}
  BY <1>5, <1>6, <1>7
<1>9. f \in N /\ N \subseteq {f, [f EXCEPT !.spec = TRUE]} /\ \E r \in SourceRoots : IsPrefix(r, f.dir)
  BY <1>2, <1>3
<1>10. QED
  BY <1>2, <1>4, <1>5, <1>6, <1>8, <1>9, AddedElement

\* The source of a new module is in order, and imports nothing of the project's.
LEMMA ModuleSourceIsGood == GoodSource(ModuleSource) /\ OwnOf(ModuleSource) = {}
<1> DEFINE s == ModuleSource
<1>1. /\ s.decorated = TRUE /\ s.lines = <<Library("Module"), Code>>
      /\ s.metadata = [imports |-> Missing, controllers |-> Missing, providers |-> Array(<<>>)]
  BY DEF ModuleSource
<1>2. /\ Library("Module").kind = "import" /\ Library("Module").from.name = <<"@typeix", "library">>
      /\ Code.kind = "code"
  BY DEF Library, Import, Code
<1>3. /\ Missing.form = "none" /\ Missing.symbols = <<>>
      /\ Array(<<>>).form = "array" /\ Array(<<>>).symbols = <<>>
  BY DEF Missing, Array, Property
<1>4. \A k \in Keys : s.metadata[k] \in {Missing, Array(<<>>)}
  BY <1>1 DEF Keys
<1>5. \A k \in Keys : s.metadata[k].form \in {"none", "array"} /\ s.metadata[k].symbols = <<>>
  BY <1>3, <1>4
<1>6. s.metadata = [k \in Keys |-> s.metadata[k]]
  BY <1>1 DEF Keys
<1> HIDE DEF s
<1>7. PICK a, b : a = Library("Module") /\ b = Code
  OBVIOUS
<1>8. s.lines = <<a, b>> /\ a.kind = "import" /\ a.from.name = <<"@typeix", "library">> /\ b.kind = "code"
  BY <1>1, <1>2, <1>7
<1>9. Range(s.lines) = {a, b} /\ s.lines \in Seq({a, b}) /\ s.lines # <<>> /\ DOMAIN s.lines = {1, 2}
      /\ s.lines[1] = a /\ s.lines[2] = b
  <2>1. PICK l : l = <<a, b>>
    OBVIOUS
  <2>2. DOMAIN l = {1, 2} /\ l[1] = a /\ l[2] = b /\ l # <<>> /\ l \in Seq({a, b})
    BY <2>1
  <2>3. Range(l) = {a, b}
    BY <2>2 DEF Range
  <2>4. s.lines = l
    BY <1>8, <2>1
  <2>5. QED
    BY <2>2, <2>3, <2>4
<1>10. OwnOf(s) = {}
  BY <1>8, <1>9 DEF OwnOf
<1>11. Range(<<>>) = {} /\ <<>> \in Seq({})
  BY DEF Range
<1>12. SourceShape(s)
  BY <1>1, <1>5, <1>6, <1>9, <1>11 DEF SourceShape
<1>13. ImportsFirst(s)
  BY <1>8, <1>9 DEF ImportsFirst
<1>14. DeclaredOf(s) = {}
  BY <1>5, <1>11 DEF DeclaredOf
<1>15. Declares(s)
  BY <1>10, <1>14 DEF Declares
<1>16. QED
  BY <1>10, <1>12, <1>13, <1>15 DEF s, GoodSource

\* Any element, anywhere below one of the project's roots.
LEMMA GeneratedElement ==
  ASSUME SourcesInv, config' = config, language # "none", NEW schematic,
         NEW root \in SourceRoots, NEW location \in Locations, NEW flat, NEW spec \in BOOLEAN,
         GenerateElement(schematic, root, location, flat, spec)
  PROVE  SourcesInv'
<1>1. PICK dir, isFlat : isFlat = (flat \/ schematic \in FlatByDefault)
                         /\ dir = TargetDir(root, location, isFlat)
  OBVIOUS
<1>2. PICK name : name = Last(location)
  OBVIOUS
<1>3. location \in Seq(Names) /\ location # <<>> /\ root \in Seq(Names)
  BY LocationsAssumption DEF SourcesInv, FilesTyped, SourceRoots
<1>4. dir \in Seq(Names) /\ name \in Names /\ IsPrefix(root, dir)
  <2>1. name \in Names
    BY <1>2, <1>3 DEF Last
  <2>2. Front(location) \in Seq(Names)
    BY <1>3 DEF Front
  <2>3. Directory(location, isFlat) \in Seq(Names)
    BY <1>3, <2>2 DEF Directory
  <2>4. dir = root \o Directory(location, isFlat)
    BY <1>1 DEF TargetDir
  <2>5. QED
    BY <1>3, <2>1, <2>3, <2>4, RootIsAbove
<1>5. \E r \in SourceRoots : IsPrefix(r, dir)
  BY <1>4
<1>6. /\ "service" \in Types /\ "plain" \in Types /\ "controller" \in Types /\ "module" \in Types
      /\ "interceptor" \in Types
      /\ "imports" \in Keys /\ "providers" \in Keys /\ "controllers" \in Keys
  BY DEF Types, Keys
<1>7. CASE ServiceElement(dir, name, spec)
  BY <1>4, <1>5, <1>6, <1>7, DeclaredElement DEF ServiceElement
<1>8. CASE ProviderElement(dir, name, spec)
  BY <1>4, <1>5, <1>6, <1>8, DeclaredElement DEF ProviderElement
<1>9. CASE ControllerElement(dir, name, spec)
  BY <1>4, <1>5, <1>6, <1>9, DeclaredElement DEF ControllerElement
<1>10. CASE ModuleElement(dir, name)
  <2>1. PICK f : f = File(dir, name, "module")
    OBVIOUS
  <2>2. f \in FileSet /\ ~f.spec /\ f.type = "module" /\ f.dir = dir
    BY <1>4, <1>6, <2>1, ElementFiles
  <2>3. PICK N : N = {f}
    OBVIOUS
  <2>4. N \cap files = {} /\ files' = files \cup N /\ language' = language
    BY <1>10, <2>1, <2>3 DEF ModuleElement, Add
  <2>5. PICK mods \in DeclareIn(f, "imports") : 
             modules' = [m \in {f} \cup DOMAIN mods |-> IF m = f THEN ModuleSource ELSE mods[m]]
    BY <1>10, <2>1 DEF ModuleElement
  <2>6. PICK T \in SUBSET DOMAIN modules :
            /\ T = {} \/ \E m : T = {m}
            /\ \A m \in T : IsPrefix(m.dir, f.dir)
            /\ (\E m \in DOMAIN modules : IsPrefix(m.dir, f.dir)) => T # {}
            /\ mods = [m \in DOMAIN modules |-> mods[m]]
            /\ \A m \in DOMAIN modules :
                  /\ GoodSource(mods[m])
                  /\ OwnOf(mods[m]) = OwnOf(modules[m])
                        \cup IF m \in T THEN {Import(Symbol(f), Relative(m.dir, f))} ELSE {}
    <3>1. DeclaredOnce(f, mods)
      BY <1>6, <2>2, <2>5, DeclaredIn
    <3>2. QED
      BY <3>1 DEF DeclaredOnce
  <2>7. PICK X : X = {f}
    OBVIOUS
  <2>8. f \notin DOMAIN modules
    BY <2>3, <2>4 DEF SourcesInv, ModulesAreGood
  <2>9. PICK src : src = ModuleSource
    OBVIOUS
  <2>10. /\ modules' = [m \in DOMAIN modules \cup X |-> modules'[m]]
         /\ \A m \in DOMAIN modules : modules'[m] = mods[m]
         /\ modules'[f] = src
    <3>1. DOMAIN mods = DOMAIN modules
      BY <2>6
    <3>2. modules' = [m \in {f} \cup DOMAIN modules |-> IF m = f THEN src ELSE mods[m]]
      BY <2>5, <2>9, <3>1
    <3>3. QED
      BY <2>7, <2>8, <3>2
  <2>11. \A m \in DOMAIN modules \cup X : GoodSource(modules'[m])
    BY <2>6, <2>7, <2>9, <2>10, ModuleSourceIsGood
  <2>12. \A m \in DOMAIN modules :
             OwnOf(modules'[m]) = OwnOf(modules[m])
                 \cup IF m \in T THEN {Import(Symbol(f), Relative(m.dir, f))} ELSE {}
    BY <2>6, <2>10
  <2>13. \A m \in X : OwnOf(modules'[m]) = {}
    BY <2>7, <2>9, <2>10, ModuleSourceIsGood
  <2>14. f \in N /\ N \subseteq {f, [f EXCEPT !.spec = TRUE]} /\ \E r \in SourceRoots : IsPrefix(r, f.dir)
    BY <1>5, <2>2, <2>3
  <2>15. X = {f} /\ f.type = "module"
    BY <2>2, <2>7
  <2>16. (\E m \in DOMAIN modules : IsPrefix(m.dir, f.dir)) => T # {}
    BY <2>6
  <2>17. QED
    BY <2>2, <2>4, <2>6, <2>10, <2>11, <2>12, <2>13, <2>14, <2>15, <2>16, AddedElement
<1>11. CASE InterceptorElement(dir, name, spec)
  <2>1. PICK f : f = File(dir, name, "interceptor")
    OBVIOUS
  <2>2. PICK N : N = FilesOf(f, spec)
    OBVIOUS
  <2>3. /\ f \in FileSet /\ ~f.spec /\ f.type = "interceptor" /\ f.dir = dir
        /\ f \in N /\ N \subseteq {f, [f EXCEPT !.spec = TRUE]}
    BY <1>4, <1>6, <2>1, <2>2, ElementFiles
  <2>4. N \cap files = {} /\ files' = files \cup N /\ language' = language /\ modules' = modules
    BY <1>11, <2>1, <2>2 DEF InterceptorElement, Add
  <2>5. PICK T : T = {}
    OBVIOUS
  <2>6. PICK X : X = {}
    OBVIOUS
  <2>7. /\ modules = [m \in DOMAIN modules |-> modules[m]]
        /\ \A m \in DOMAIN modules : GoodSource(modules[m])
    BY DEF SourcesInv, ModulesAreGood
  <2>8. DOMAIN modules \cup X = DOMAIN modules
    BY <2>6
  <2>9. /\ modules' = [m \in DOMAIN modules \cup X |-> modules'[m]]
        /\ \A m \in DOMAIN modules \cup X : GoodSource(modules'[m])
    BY <2>4, <2>7, <2>8
  <2>10. \A m \in DOMAIN modules :
             OwnOf(modules'[m]) = OwnOf(modules[m])
                 \cup IF m \in T THEN {Import(Symbol(f), Relative(m.dir, f))} ELSE {}
    BY <2>4, <2>5
  <2>11. T \in SUBSET DOMAIN modules /\ \A m \in T : IsPrefix(m.dir, f.dir)
    BY <2>5
  <2>12. \A m \in X : OwnOf(modules'[m]) = {}
    BY <2>6
  <2>13. \E r \in SourceRoots : IsPrefix(r, f.dir)
    BY <1>5, <2>3
  <2>14. QED
    BY <2>3, <2>4, <2>5, <2>6, <2>9, <2>10, <2>11, <2>12, <2>13, AddedElement
<1>12. QED
  BY <1>1, <1>2, <1>7, <1>8, <1>9, <1>10, <1>11 DEF GenerateElement

-----------------------------------------------------------------------------
(* A new application                                                       *)

\* The module of a new application, as it was written or as a user has changed it,
\* is in order, and imports what was written with it.
LEMMA ApplicationSource ==
  ASSUME NEW root \in Seq(Names), NEW s \in Edited(Application(root).source)
  PROVE  GoodSource(s) /\ Leads(RootModule(root), s, Application(root).files)
<1>1. PICK g : g = File(root, "app", "controller")
  OBVIOUS
<1>2. PICK h : h = File(root, "app", "service")
  OBVIOUS
<1>3. /\ g.dir = root /\ ~g.spec /\ Symbol(g) = <<"app", "controller">>
      /\ h.dir = root /\ ~h.spec /\ Symbol(h) = <<"app", "service">>
  BY <1>1, <1>2 DEF File, Symbol
<1>4. g \in Application(root).files /\ h \in Application(root).files
  BY <1>1, <1>2 DEF Application
<1>5. PICK a, b, c, d : /\ a = Library("RootModule") /\ d = Code
                        /\ b = Import(<<"app", "controller">>, Relative(root, g))
                        /\ c = Import(<<"app", "service">>, Relative(root, h))
  OBVIOUS
<1>6. /\ a.kind = "import" /\ a.from.name = <<"@typeix", "library">> /\ d.kind = "code"
      /\ b.kind = "import" /\ b.symbol = <<"app", "controller">> /\ b.from = Relative(root, g)
      /\ c.kind = "import" /\ c.symbol = <<"app", "service">> /\ c.from = Relative(root, h)
  BY <1>5 DEF Library, Import, Code
<1>7. /\ Resolved(root, b.from) = [dir |-> root, symbol |-> <<"app", "controller">>]
      /\ b.from.name = <<"app", "controller">>
      /\ Resolved(root, c.from) = [dir |-> root, symbol |-> <<"app", "service">>]
      /\ c.from.name = <<"app", "service">>
  <2>1. /\ Resolved(root, Relative(root, g)) = [dir |-> g.dir, symbol |-> Symbol(g)]
        /\ Relative(root, g).name = Symbol(g)
    BY <1>3, ImportLeads
  <2>2. /\ Resolved(root, Relative(root, h)) = [dir |-> h.dir, symbol |-> Symbol(h)]
        /\ Relative(root, h).name = Symbol(h)
    BY <1>3, ImportLeads
  <2>3. QED
    BY <1>3, <1>6, <2>1, <2>2
<1>8. b.from.name # <<"@typeix", "library">> /\ c.from.name # <<"@typeix", "library">>
  BY <1>7
<1>9. PICK o : o = Application(root).source
  OBVIOUS
<1>10. PICK x, y, z : /\ x = Array(<<>>) /\ y = Array(<<<<"app", "controller">>>>)
                      /\ z = Array(<<<<"app", "service">>>>)
  OBVIOUS
<1>11. o = [decorated |-> TRUE, lines |-> <<a, b, c, d>>,
            metadata |-> [imports |-> x, controllers |-> y, providers |-> z]]
  BY <1>1, <1>2, <1>5, <1>9, <1>10 DEF Application
<1>12. PICK u, w : u = Property("other", <<>>) /\ w = Missing
  OBVIOUS
<1>13. /\ x.form = "array" /\ x.symbols = <<>> /\ u.form = "other" /\ u.symbols = <<>>
       /\ w.form = "none" /\ w.symbols = <<>>
       /\ y.form = "array" /\ y.symbols = <<<<"app", "controller">>>>
       /\ z.form = "array" /\ z.symbols = <<<<"app", "service">>>>
  BY <1>10, <1>12 DEF Array, Missing, Property
<1>14. /\ \A p \in {x, u, w} : p.symbols \in Seq(Range(p.symbols)) /\ Range(p.symbols) = {}
       /\ y.symbols \in Seq(Range(y.symbols)) /\ Range(y.symbols) = {b.symbol}
       /\ z.symbols \in Seq(Range(z.symbols)) /\ Range(z.symbols) = {c.symbol}
  <2>1. Range(<<>>) = {} /\ <<>> \in Seq({})
    BY DEF Range
  <2>2. ASSUME NEW e, NEW l, l = <<e>>
        PROVE  Range(l) = {e} /\ l \in Seq(Range(l))
    <3>1. DOMAIN l = {1} /\ l[1] = e /\ l \in Seq({e})
      BY <2>2
    <3>2. Range(l) = {e}
      BY <3>1 DEF Range
    <3>3. QED
      BY <3>1, <3>2
  <2>3. y.symbols = <<b.symbol>> /\ z.symbols = <<c.symbol>>
    BY <1>6, <1>13
  <2>4. Range(y.symbols) = {b.symbol} /\ y.symbols \in Seq(Range(y.symbols))
    BY ONLY <2>2, <2>3, Zenon
  <2>5. Range(z.symbols) = {c.symbol} /\ z.symbols \in Seq(Range(z.symbols))
    BY ONLY <2>2, <2>3, Zenon
  <2>6. QED
    BY <1>13, <2>1, <2>4, <2>5
<1>15. \/ s = o
       \/ s = [o EXCEPT !.metadata.providers = u]
       \/ s = [o EXCEPT !.decorated = FALSE, !.metadata = [k \in Keys |-> w]]
       \/ s = [o EXCEPT !.lines = <<d, d>>, !.metadata = [k \in Keys |-> x]]
  BY <1>5, <1>9, <1>10, <1>12 DEF Edited
<1>16. Keys = {"imports", "controllers", "providers"}
  BY DEF Keys
<1>17. PICK four, two, mw, mx : /\ four = <<a, b, c, d>> /\ two = <<d, d>>
                                /\ mw = [k \in Keys |-> w] /\ mx = [k \in Keys |-> x]
  OBVIOUS
<1>18. \/ /\ s.decorated = TRUE /\ s.lines = four
          /\ s.metadata = [imports |-> x, controllers |-> y, providers |-> z]
       \/ /\ s.decorated = TRUE /\ s.lines = four
          /\ s.metadata = [imports |-> x, controllers |-> y, providers |-> u]
       \/ s.decorated = FALSE /\ s.lines = four /\ s.metadata = mw
       \/ s.decorated = TRUE /\ s.lines = two /\ s.metadata = mx
  <2>1. o = [decorated |-> TRUE, lines |-> four,
             metadata |-> [imports |-> x, controllers |-> y, providers |-> z]]
    BY ONLY <1>11, <1>17, Zenon
  <2>2. \/ s = o
        \/ s = [o EXCEPT !.metadata.providers = u]
        \/ s = [o EXCEPT !.decorated = FALSE, !.metadata = mw]
        \/ s = [o EXCEPT !.lines = two, !.metadata = mx]
    BY ONLY <1>15, <1>17, Zenon
  <2>3. CASE s = o
    BY ONLY <2>1, <2>3
  <2>4. CASE s = [o EXCEPT !.metadata.providers = u]
    BY ONLY <2>1, <2>4
  <2>5. CASE s = [o EXCEPT !.decorated = FALSE, !.metadata = mw]
    BY ONLY <2>1, <2>5
  <2>6. CASE s = [o EXCEPT !.lines = two, !.metadata = mx]
    BY ONLY <2>1, <2>6
  <2>7. QED
    BY ONLY <2>2, <2>3, <2>4, <2>5, <2>6, Zenon
<1>19. s.decorated \in BOOLEAN /\ s.metadata = [k \in Keys |-> s.metadata[k]]
       /\ \A k \in Keys : s.metadata[k] \in {x, y, z, u, w}
  <2>1. s.decorated \in BOOLEAN
    BY <1>18
  <2>2. CASE s.metadata = [imports |-> x, controllers |-> y, providers |-> z]
    BY ONLY <1>16, <2>1, <2>2
  <2>3. CASE s.metadata = [imports |-> x, controllers |-> y, providers |-> u]
    BY ONLY <1>16, <2>1, <2>3
  <2>4. CASE s.metadata = mw
    BY ONLY <1>17, <2>1, <2>4
  <2>5. CASE s.metadata = mx
    BY ONLY <1>17, <2>1, <2>5
  <2>6. QED
    BY <1>18, <2>2, <2>3, <2>4, <2>5
<1>20. \A k \in Keys : /\ s.metadata[k].form \in {"none", "array", "other"}
                       /\ s.metadata[k].symbols \in Seq(Range(s.metadata[k].symbols))
  BY <1>13, <1>14, <1>19
<1>21. /\ s.lines \in Seq(Range(s.lines)) /\ s.lines # <<>> /\ ImportsFirst(s)
       /\ OwnOf(s) \subseteq {b, c} /\ Declares(s)
  <2>1. CASE s.lines = <<d, d>> /\ s.metadata = [k \in Keys |-> x]
    <3>1. PICK l : l = <<d, d>>
      OBVIOUS
    <3>2. DOMAIN l = {1, 2} /\ l[1] = d /\ l[2] = d /\ l # <<>> /\ l \in Seq({d})
      BY <3>1
    <3>3. Range(l) = {d}
      BY <3>2 DEF Range
    <3>4. s.lines = l
      BY <2>1, <3>1
    <3>5. ImportsFirst(s) /\ OwnOf(s) = {}
      BY <1>6, <3>2, <3>3, <3>4 DEF ImportsFirst, OwnOf
    <3>6. DeclaredOf(s) = {}
      BY <1>14, <2>1 DEF DeclaredOf
    <3>7. QED
      BY <3>2, <3>3, <3>4, <3>5, <3>6 DEF Declares
  <2>2. CASE s.lines = <<a, b, c, d>> /\ ~ (s.lines = two /\ s.metadata = mx)
    <3>1. s.lines \in Seq(Range(s.lines)) /\ s.lines # <<>> /\ ImportsFirst(s) /\ OwnOf(s) = {b, c}
      <4>1. /\ DOMAIN four = {1, 2, 3, 4} /\ four[1] = a /\ four[2] = b /\ four[3] = c /\ four[4] = d
            /\ four \in Seq({a, b, c, d}) /\ four # <<>>
        BY ONLY <1>17
      <4>2. s.lines = four
        BY <1>17, <2>2
      <4>3. Range(four) = {a, b, c, d}
        BY ONLY <4>1 DEF Range
      <4>4. \A i, j \in {1, 2, 3, 4} : four[i].kind = "code" /\ four[j].kind = "import" => j < i
        <5> SUFFICES ASSUME NEW i \in {1, 2, 3, 4}, NEW j \in {1, 2, 3, 4},
                            four[i].kind = "code", four[j].kind = "import"
                     PROVE  j < i
          OBVIOUS
        <5>1. i = 4 /\ j # 4
          BY <1>6, <4>1
        <5>2. QED
          BY <5>1
      <4>5. ImportsFirst(s)
        BY <4>1, <4>2, <4>4 DEF ImportsFirst
      <4>6. OwnOf(s) = {b, c}
        BY <1>6, <1>8, <4>2, <4>3 DEF OwnOf
      <4>7. QED
        BY <4>1, <4>2, <4>3, <4>5, <4>6
    <3>2. CASE s.metadata["controllers"] = y /\ s.metadata["providers"] = z /\ s.metadata["imports"] = x
      <4>1. DeclaredOf(s) = {b.symbol, c.symbol}
        <5>1. \A e : e \in DeclaredOf(s) <=> \E k \in Keys : e \in Range(s.metadata[k].symbols)
          BY DEF DeclaredOf
        <5>2. \A e : e \in DeclaredOf(s) <=> e \in {b.symbol, c.symbol}
          BY <1>14, <1>16, <3>2, <5>1
        <5>3. QED
          BY <5>2
      <4>2. QED
        BY <3>1, <4>1 DEF Declares
    <3>3. CASE s.metadata["controllers"] = y /\ s.metadata["providers"] = u /\ s.metadata["imports"] = x
      <4>1. DeclaredOf(s) \subseteq {b.symbol, c.symbol}
        BY <1>14, <1>16, <3>3 DEF DeclaredOf
      <4>2. QED
        BY <1>13, <1>16, <3>1, <3>3, <4>1 DEF Declares
    <3>4. CASE s.decorated = FALSE /\ s.metadata = [k \in Keys |-> w]
      <4>1. DeclaredOf(s) = {}
        BY <1>14, <3>4 DEF DeclaredOf
      <4>2. QED
        BY <3>1, <3>4, <4>1 DEF Declares
    <3>5. \/ s.metadata["controllers"] = y /\ s.metadata["providers"] = z /\ s.metadata["imports"] = x
          \/ s.metadata["controllers"] = y /\ s.metadata["providers"] = u /\ s.metadata["imports"] = x
          \/ s.decorated = FALSE /\ s.metadata = [k \in Keys |-> w]
      <4>1. CASE s.metadata = [imports |-> x, controllers |-> y, providers |-> z]
        BY <4>1
      <4>2. CASE s.metadata = [imports |-> x, controllers |-> y, providers |-> u]
        BY <4>2
      <4>3. QED
        BY <1>17, <1>18, <2>2, <4>1, <4>2
    <3>6. QED
      BY <3>1, <3>2, <3>3, <3>4, <3>5
  <2>3. \/ s.lines = <<a, b, c, d>>
        \/ s.lines = two /\ s.metadata = mx
    BY ONLY <1>17, <1>18, Zenon
  <2>4. s.lines = two /\ s.metadata = mx => s.lines = <<d, d>> /\ s.metadata = [k \in Keys |-> x]
    BY ONLY <1>17, Zenon
  <2>5. QED
    BY ONLY <2>1, <2>2, <2>3, <2>4, Zenon
<1>22. GoodSource(s)
  BY <1>20, <1>21, <1>19 DEF GoodSource, SourceShape
<1>23. Leads(RootModule(root), s, Application(root).files)
  <2>1. RootModule(root).dir = root
    BY DEF RootModule, File
  <2>2. QED
    BY <1>3, <1>4, <1>6, <1>7, <1>21, <2>1 DEF Leads
<1>24. QED
  BY <1>22, <1>23

\* A project in which there is the application and nothing else.
NewApplication ==
    /\ language \in {"ts", "js"}
    /\ config.sourceRoot \in Seq(Names)
    /\ \A p \in Projects : config.projects[p] \in Seq(Names)
    /\ files = Application(config.sourceRoot).files
    /\ \E s \in Edited(Application(config.sourceRoot).source) :
           modules = [m \in {RootModule(config.sourceRoot)} |-> s]

LEMMA ApplicationIsGood == NewApplication => SourcesInv
<1> SUFFICES ASSUME NewApplication PROVE SourcesInv
  OBVIOUS
<1>1. PICK root : root = config.sourceRoot
  OBVIOUS
<1>2. PICK s \in Edited(Application(root).source) : modules = [m \in {RootModule(root)} |-> s]
  BY <1>1 DEF NewApplication
<1>3. PICK r : r = RootModule(root)
  OBVIOUS
<1>4. root \in Seq(Names)
  BY <1>1 DEF NewApplication
<1>5. GoodSource(s) /\ Leads(r, s, Application(root).files)
  BY <1>2, <1>3, <1>4, ApplicationSource
<1>6. r.type = "module" /\ ~r.spec /\ r \in Application(root).files
  BY <1>3 DEF RootModule, File, Application
<1>7. \A f \in Application(root).files : f \in FileSet /\ f.dir = root
  <2>1. "app" \in Names
    BY NamesAssumption
  <2>2. \A f \in Application(root).files : \E t \in {"module", "controller", "service"} : f = File(root, "app", t)
    BY DEF Application
  <2>3. "module" \in Types /\ "controller" \in Types /\ "service" \in Types
    BY DEF Types
  <2>4. ASSUME NEW f \in Application(root).files
        PROVE  f \in FileSet /\ f.dir = root
    <3>1. PICK t \in Types : f = File(root, "app", t)
      BY <2>2, <2>3
    <3>2. QED
      <4>1. f = [dir |-> root, name |-> "app", type |-> t, spec |-> FALSE]
        BY <3>1 DEF File
      <4>2. QED
        BY ONLY <1>4, <2>1, <4>1, t \in Types DEF FileSet
  <2>5. QED
    BY <2>4
<1>8. files = Application(root).files
  BY <1>1 DEF NewApplication
<1>9. FilesTyped
  BY <1>7, <1>8 DEF FilesTyped, NewApplication
<1>10. ModulesAreGood
  <2>1. modules = [m \in {r} |-> s]
    BY <1>2, <1>3
  <2>2. DOMAIN modules = {r} /\ modules[r] = s
    BY <2>1
  <2>3. modules = [m \in DOMAIN modules |-> modules[m]]
    BY <2>1
  <2>4. QED
    BY <1>1, <1>3, <1>5, <1>6, <1>8, <2>2, <2>3 DEF ModulesAreGood
<1>11. ImportedOnce
  BY <1>1, <1>8 DEF ImportedOnce
<1>12. FilesLieUnderRoots
  <2>1. IsPrefix(root, root)
    <3>1. root \o <<>> = root /\ <<>> \in Seq(Names)
      BY <1>4
    <3>2. QED
      BY <1>4, <3>1, RootIsAbove
  <2>2. root \in SourceRoots
    BY <1>1 DEF SourceRoots
  <2>3. QED
    BY <1>7, <1>8, <2>1, <2>2 DEF FilesLieUnderRoots
<1>13. QED
  BY <1>9, <1>10, <1>11, <1>12 DEF SourcesInv

LEMMA ApplicationIsGoodNext == NewApplication' => SourcesInv'
  BY ApplicationIsGood, PTL

-----------------------------------------------------------------------------
(* new and generate, step by step                                          *)

\* new: what is typed, and where the directories it worked in stand.
NewOK ==
    /\ newAt \in {"idle", "create", "install", "git", "ended"}
    /\ newCode \in {-1, 0, 1} /\ (newCode # -1 <=> newAt = "ended")
    /\ newAt \in {"create", "install", "git"} => choice.language \in {"ts", "js"}
    /\ newAt \in {"idle", "create"} => createdIn = "none"
    /\ newAt \in {"idle", "create", "install"} => installedIn = "none"
    /\ newAt # "ended" => gitIn = "none" /\ ignoredIn = "none"
    /\ newAt \in {"install", "git"} =>
           createdIn = IF choice.dryRun THEN "none" ELSE ProjectDirectory
    /\ newAt = "git" => /\ installedIn \in {"none", Dasherized(ProjectDirectory)}
                        /\ choice.dryRun => installedIn = "none"

\* generate: it runs in a project, for a request, below one of the project's roots.
GenerateOK ==
    /\ generateAt \in {"idle", "ask", "execute"} /\ generates \in 0..MaxGenerates
    /\ generateAt # "idle" =>
           command = "generate" /\ request \in Requests /\ sourceRoot \in SourceRoots
    /\ command = "generate" => language # "none"

ProjectInv == SourcesInv /\ NewOK /\ ProjectIsWhole /\ DryRunWritesNothing /\ GenerateOK

LEMMA ProjectInvInit == CliInit => ProjectInv
<1> SUFFICES ASSUME CliInit PROVE ProjectInv
  OBVIOUS
<1>1. command = "none" /\ ProjectInit
  BY DEF CliInit
<1>2. SourcesInv
  <2>1. /\ config.sourceRoot \in Seq(Names)
        /\ \A p \in Projects : config.projects[p] \in Seq(Names)
    BY <1>1, ConfigurationsAssumption DEF ProjectInit, Projects
  <2>2. CASE language = "none"
    <3>1. files = {} /\ modules = <<>>
      BY <1>1, <2>2 DEF ProjectInit
    <3>2. DOMAIN modules = {} /\ modules = [m \in DOMAIN modules |-> modules[m]]
      BY <3>1
    <3>3. FilesTyped
      BY <2>1, <2>2, <3>1 DEF FilesTyped
    <3>4. ModulesAreGood
      BY <2>2, <3>2 DEF ModulesAreGood
    <3>5. ImportedOnce /\ FilesLieUnderRoots
      BY <3>1 DEF ImportedOnce, FilesLieUnderRoots
    <3>6. QED
      BY <3>3, <3>4, <3>5 DEF SourcesInv
  <2>3. CASE language # "none"
    <3>1. NewApplication
      BY <1>1, <2>1, <2>3 DEF ProjectInit, NewApplication
    <3>2. QED
      BY <3>1, ApplicationIsGood
  <2>4. QED
    BY <2>2, <2>3
<1>3. NewOK
  BY <1>1 DEF ProjectInit, NewOK
<1>4. ProjectIsWhole /\ DryRunWritesNothing
  BY <1>1 DEF ProjectInit, ProjectIsWhole, DryRunWritesNothing
<1>5. GenerateOK
  BY <1>1, MaxGeneratesAssumption DEF ProjectInit, GenerateOK
<1>6. QED
  BY <1>2, <1>3, <1>4, <1>5 DEF ProjectInv

\* Where neither new nor generate writes, sources stay what they are.
LEMMA SourcesUnchanged ==
  ASSUME SourcesInv, UNCHANGED <<schematicVars, config>>
  PROVE  SourcesInv'
<1>1. language' = language /\ files' = files /\ modules' = modules /\ config' = config
  BY DEF schematicVars
<1>2. FilesTyped'
  BY <1>1 DEF SourcesInv, FilesTyped, Projects
<1>3. ModulesAreGood'
  BY <1>1 DEF SourcesInv, ModulesAreGood
<1>4. ImportedOnce'
  BY <1>1 DEF SourcesInv, ImportedOnce, Importers
<1>5. FilesLieUnderRoots'
  BY <1>1 DEF SourcesInv, FilesLieUnderRoots, SourceRoots, Projects
<1>6. QED
  BY <1>2, <1>3, <1>4, <1>5 DEF SourcesInv

\* The steps of new.
LEMMA NewStep ==
  ASSUME ProjectInv, command = "new", command' = "new", NewNext
  PROVE  ProjectInv'
<1> USE DEF ProjectInv
<1>1. generateAt = "idle" /\ UNCHANGED generateVars
  BY DEF GenerateOK, NewNext, CreateApplicationFiles, InstallPackages, InitGit
<1>2. GenerateOK'
  BY <1>1 DEF GenerateOK, generateVars
<1>3. choice' = choice /\ ProjectDirectory' = ProjectDirectory
  BY DEF NewNext, CreateApplicationFiles, InstallPackages, InitGit, ProjectDirectory
<1>4. CASE CreateApplicationFiles
  <2>1. newAt = "create" /\ newCode = -1 /\ createdIn = "none" /\ installedIn = "none" /\ gitIn = "none"
        /\ ignoredIn = "none" /\ choice.language \in {"ts", "js"}
        /\ installedIn' = installedIn /\ gitIn' = gitIn /\ ignoredIn' = ignoredIn
    BY <1>4 DEF NewOK, CreateApplicationFiles
  <2>2. SourcesInv'
    <3>1. CASE UNCHANGED <<schematicVars, config>>
      BY <3>1, SourcesUnchanged
    <3>2. CASE /\ CreateApplication(choice.language, <<"src">>)
               /\ config' = [sourceRoot |-> <<"src">>, projects |-> <<>>, spec |-> "none"]
      <4>1. PICK root : root = <<"src">>
        OBVIOUS
      <4>2. root \in Seq(Names)
        BY <4>1, NamesAssumption
      <4>3. config'.sourceRoot = root /\ Projects' = {}
        BY <3>2, <4>1 DEF Projects
      <4>4. Application(root).source \in Edited(Application(root).source)
        BY DEF Edited
      <4>5. language' \in {"ts", "js"} /\ files' = Application(root).files
            /\ modules' = [m \in {RootModule(root)} |-> Application(root).source]
        BY <2>1, <3>2, <4>1 DEF CreateApplication
      <4>6. NewApplication'
        BY <4>2, <4>3, <4>4, <4>5 DEF NewApplication
      <4>7. QED
        BY <4>6, ApplicationIsGoodNext
    <3>3. QED
      BY <1>4, <3>1, <3>2 DEF CreateApplicationFiles
  <2>3. \/ newAt' = "ended" /\ newCode' = 1 /\ createdIn' = "none"
        \/ /\ newAt' = "install" /\ newCode' = -1
           /\ createdIn' = IF choice.dryRun THEN "none" ELSE ProjectDirectory
    BY <1>4, <2>1 DEF CreateApplicationFiles
  <2>4. NewOK' /\ ProjectIsWhole' /\ DryRunWritesNothing'
    BY <1>3, <2>1, <2>3 DEF NewOK, ProjectIsWhole, DryRunWritesNothing
  <2>5. QED
    BY <1>2, <2>2, <2>4
<1>5. CASE InstallPackages
  <2>1. SourcesInv'
    BY <1>5, SourcesUnchanged DEF InstallPackages
  <2>2. /\ newAt = "install" /\ newCode = -1 /\ installedIn = "none" /\ gitIn = "none"
        /\ createdIn = IF choice.dryRun THEN "none" ELSE ProjectDirectory
        /\ ignoredIn = "none" /\ choice.language \in {"ts", "js"}
        /\ createdIn' = createdIn /\ gitIn' = gitIn /\ ignoredIn' = ignoredIn
    BY <1>5 DEF NewOK, InstallPackages
  <2>3. \/ newAt' = "git" /\ newCode' = -1 /\ installedIn' = "none"
        \/ /\ newAt' = "git" /\ newCode' = -1 /\ ~choice.dryRun
           /\ installedIn' \in {"none", Dasherized(ProjectDirectory)}
        \/ newAt' = "ended" /\ newCode' = 1 /\ installedIn' = "none" /\ ~choice.dryRun
    BY <1>5, <2>2 DEF InstallPackages
  <2>4. NewOK' /\ ProjectIsWhole' /\ DryRunWritesNothing'
    BY <1>3, <2>2, <2>3 DEF NewOK, ProjectIsWhole, DryRunWritesNothing
  <2>5. QED
    BY <1>2, <2>1, <2>4
<1>6. CASE InitGit
  <2>1. SourcesInv'
    BY <1>6, SourcesUnchanged DEF InitGit
  <2>2. /\ newAt = "git" /\ newCode = -1 /\ gitIn = "none" /\ ignoredIn = "none" /\ newAt' = "ended"
        /\ createdIn = IF choice.dryRun THEN "none" ELSE ProjectDirectory
        /\ installedIn \in {"none", Dasherized(ProjectDirectory)}
        /\ (choice.dryRun => installedIn = "none")
        /\ createdIn' = createdIn /\ installedIn' = installedIn
    BY <1>6 DEF NewOK, InitGit
  <2>3. \/ /\ choice.dryRun \/ choice.skipGit
           /\ newCode' = 0 /\ gitIn' = "none" /\ ignoredIn' = "none"
        \/ /\ ~choice.dryRun /\ ~choice.skipGit /\ gitIn' \in {"none", ProjectDirectory}
           /\ \/ newCode' = 1 /\ ignoredIn' = "none"
              \/ newCode' = 0 /\ ignoredIn' = ProjectDirectory
    BY <1>6, <2>2 DEF InitGit
  <2>4. NewOK' /\ DryRunWritesNothing'
    BY <1>3, <2>2, <2>3 DEF NewOK, DryRunWritesNothing
  <2>5. ProjectIsWhole'
    BY <1>3, <2>2, <2>3 DEF ProjectIsWhole
  <2>6. QED
    BY <1>2, <2>1, <2>4, <2>5
<1>7. QED
  BY <1>4, <1>5, <1>6 DEF NewNext

\* The steps of generate.
LEMMA GenerateStep ==
  ASSUME ProjectInv, command = "generate", command' = "generate", GenerateNext
  PROVE  ProjectInv'
<1> USE DEF ProjectInv
<1>1. language # "none" /\ config' = config /\ UNCHANGED newVars /\ generates' = generates
  BY DEF GenerateOK, GenerateNext, Ask, Execute
<1>2. NewOK' /\ ProjectIsWhole' /\ DryRunWritesNothing'
  BY <1>1 DEF newVars, NewOK, ProjectIsWhole, DryRunWritesNothing, ProjectDirectory
<1>3. SourceRoots' = SourceRoots
  BY <1>1 DEF SourceRoots, Projects
<1>4. CASE Ask
  <2>1. SourcesInv' /\ language' = language
    BY <1>1, <1>4, SourcesUnchanged DEF Ask, schematicVars
  <2>2. sourceRoot' \in SourceRoots /\ request' = request
    <3>1. sourceRoot \in SourceRoots
      BY <1>4 DEF GenerateOK, Ask
    <3>2. \A p \in Projects : config.projects[p] \in SourceRoots
      BY DEF SourceRoots
    <3>3. QED
      BY <1>4, <3>1, <3>2 DEF Ask
  <2>3. GenerateOK'
    BY <1>1, <1>3, <1>4, <2>1, <2>2 DEF GenerateOK, Ask
  <2>4. QED
    BY <1>2, <2>1, <2>3
<1>5. CASE Execute
  <2>1. request \in Requests /\ sourceRoot \in SourceRoots /\ generateAt' = "idle"
    BY <1>5 DEF GenerateOK, Execute
  <2>2. CASE UNCHANGED schematicVars
    <3>1. SourcesInv' /\ language' = language
      BY <1>1, <2>2, SourcesUnchanged DEF schematicVars
    <3>2. GenerateOK'
      BY <1>1, <2>1, <3>1 DEF GenerateOK
    <3>3. QED
      BY <1>2, <3>1, <3>2
  <2>3. CASE GenerateElement(request.schematic, sourceRoot, request.location, request.flat,
                             IsSpec(request))
    <3>1. request.location \in Locations /\ IsSpec(request) \in BOOLEAN
      BY <2>1, RequestsAssumption DEF AllRequests, IsSpec
    <3>2. SourcesInv'
      BY <1>1, <2>1, <2>3, <3>1, GeneratedElement
    <3>3. language' = language
      BY <2>3 DEF GenerateElement, ServiceElement, ProviderElement, ControllerElement, ModuleElement,
                  InterceptorElement, Add
    <3>4. GenerateOK'
      BY <1>1, <2>1, <3>3 DEF GenerateOK
    <3>5. QED
      BY <1>2, <3>2, <3>4
  <2>4. QED
    BY <1>5, <2>2, <2>3 DEF Execute
<1>6. QED
  BY <1>4, <1>5 DEF GenerateNext

LEMMA ProjectInvStep ==
  ASSUME ProjectInv, [CliNext]_cliVars
  PROVE  ProjectInv'
<1> USE DEF ProjectInv
<1>1. CASE UNCHANGED projectVars /\ (command' # "generate" \/ command' = command)
           /\ (command = "generate" => command' = "generate")
  <2>1. UNCHANGED <<schematicVars, config, newVars, generateVars>>
    BY <1>1 DEF projectVars
  <2>2. SourcesInv'
    BY <2>1, SourcesUnchanged
  <2>3. NewOK' /\ ProjectIsWhole' /\ DryRunWritesNothing'
    BY <2>1 DEF newVars, NewOK, ProjectIsWhole, DryRunWritesNothing, ProjectDirectory
  <2>4. GenerateOK'
    BY <1>1, <2>1 DEF GenerateOK, generateVars, schematicVars, SourceRoots, Projects
  <2>5. QED
    BY <2>2, <2>3, <2>4
<1>2. ASSUME NEW c \in NewChoices, command = "none", command' = "new", ParseNew(c)
      PROVE  ProjectInv'
  <2>1. UNCHANGED <<schematicVars, config, createdIn, installedIn, gitIn, ignoredIn, generateVars>>
    BY <1>2 DEF ParseNew
  <2>2. SourcesInv'
    BY <2>1, SourcesUnchanged
  <2>3. newAt = "idle" /\ newCode = -1 /\ createdIn = "none" /\ installedIn = "none"
        /\ gitIn = "none" /\ ignoredIn = "none"
    BY <1>2 DEF ParseNew, NewOK
  <2>4. \/ newAt' = "ended" /\ newCode' = 1
        \/ newAt' = "create" /\ newCode' = -1 /\ choice'.language \in {"ts", "js"}
    BY <1>2, <2>3 DEF ParseNew, NewChoices
  <2>5. NewOK' /\ ProjectIsWhole' /\ DryRunWritesNothing'
    BY <2>1, <2>3, <2>4 DEF NewOK, ProjectIsWhole, DryRunWritesNothing
  <2>6. GenerateOK'
    BY <1>2, <2>1 DEF GenerateOK, generateVars
  <2>7. QED
    BY <2>2, <2>5, <2>6
<1>3. CASE EnterProject
  <2>1. UNCHANGED <<schematicVars, config, generateVars>> /\ command = "new" /\ language # "none"
    BY <1>3 DEF EnterProject
  <2>2. SourcesInv'
    BY <2>1, SourcesUnchanged
  <2>3. NewOK' /\ ProjectIsWhole' /\ DryRunWritesNothing'
    BY <1>3 DEF EnterProject, NewOK, ProjectIsWhole, DryRunWritesNothing
  <2>4. GenerateOK'
    BY <1>3, <2>1 DEF EnterProject, GenerateOK, generateVars, schematicVars
  <2>5. QED
    BY <2>2, <2>3, <2>4
<1>4. ASSUME NEW r \in Requests, language # "none", command' = "generate", ParseGenerate(r)
      PROVE  ProjectInv'
  <2>1. UNCHANGED <<schematicVars, config, newVars>>
    BY <1>4 DEF ParseGenerate
  <2>2. SourcesInv'
    BY <2>1, SourcesUnchanged
  <2>3. NewOK' /\ ProjectIsWhole' /\ DryRunWritesNothing'
    BY <2>1 DEF newVars, NewOK, ProjectIsWhole, DryRunWritesNothing, ProjectDirectory
  <2>4. /\ generateAt' \in {"ask", "execute"} /\ generates' = generates + 1 /\ generates < MaxGenerates
        /\ request' = r /\ sourceRoot' = config.sourceRoot /\ language' = language /\ config' = config
    BY <1>4 DEF ParseGenerate, schematicVars
  <2>5. generates' \in 0..MaxGenerates
    BY <2>4, MaxGeneratesAssumption DEF GenerateOK
  <2>6. sourceRoot' \in SourceRoots'
    BY <2>4 DEF SourceRoots
  <2>7. GenerateOK'
    BY <1>4, <2>4, <2>5, <2>6 DEF GenerateOK
  <2>8. QED
    BY <2>2, <2>3, <2>7
<1>5. CASE WatchCommand
  <2>1. UNCHANGED projectVars /\ command' = "watch" /\ command \in {"none", "watch"}
    BY <1>5 DEF WatchCommand
  <2>2. QED
    BY <1>1, <2>1
<1>6. CASE PackageCommand
  <2>1. UNCHANGED projectVars /\ command' = "package" /\ command \in {"none", "package"}
    BY <1>6 DEF PackageCommand
  <2>2. QED
    BY <1>1, <2>1
<1>7. CASE NewCommand
  BY <1>2, <1>7, NewStep DEF NewCommand
<1>8. CASE GenerateCommand
  BY <1>4, <1>8, GenerateStep DEF GenerateCommand
<1>9. CASE UNCHANGED cliVars
  BY <1>1, <1>9 DEF cliVars
<1>10. QED
  BY <1>3, <1>5, <1>6, <1>7, <1>8, <1>9 DEF CliNext

\* Sources that are in order satisfy what the runs check of them.
LEMMA SourcesAreSound ==
  ASSUME SourcesInv
  PROVE  /\ SchematicsTypeOK /\ ImportsResolve /\ DeclaredIsImported /\ ImportsComeFirst
         /\ ElementsAreImported /\ FilesLieUnderRoots
<1>1. \A m : OwnImports(m) = OwnOf(modules[m])
  BY DEF OwnImports, Imports, OwnOf
<1>2. \A m : Declared(m) = DeclaredOf(modules[m])
  BY DEF Declared, DeclaredOf
<1>3. \A m \in DOMAIN modules :
         /\ m \in files /\ m.type = "module" /\ ~m.spec
         /\ GoodSource(modules[m]) /\ Leads(m, modules[m], files)
  BY DEF SourcesInv, ModulesAreGood
<1>4. SchematicsTypeOK
  <2>1. \A f \in files : f.spec \in BOOLEAN /\ f.dir \in Seq(Names)
    BY DEF SourcesInv, FilesTyped, FileSet
  <2>2. \A m \in DOMAIN modules : \A k \in Keys :
           modules[m].metadata[k].form \in {"none", "array", "other"}
    BY <1>3 DEF GoodSource, SourceShape
  <2>3. QED
    BY <1>3, <2>1, <2>2 DEF SchematicsTypeOK, SourcesInv, FilesTyped
<1>5. ImportsResolve
  <2> SUFFICES ASSUME NEW m \in DOMAIN modules, NEW i \in OwnImports(m)
               PROVE  /\ Resolved(m.dir, i.from).symbol = i.symbol
                      /\ \E f \in files : f.dir = Resolved(m.dir, i.from).dir
                                          /\ Symbol(f) = i.symbol /\ ~f.spec
    BY DEF ImportsResolve
  <2>1. PICK f \in files : /\ ~f.spec /\ Symbol(f) = i.symbol
                           /\ Resolved(m.dir, i.from) = [dir |-> f.dir, symbol |-> i.symbol]
    BY <1>1, <1>3 DEF Leads
  <2>2. QED
    BY <2>1
<1>6. ImportsComeFirst
  BY <1>3 DEF ImportsComeFirst, GoodSource, ImportsFirst
<1>7. DeclaredIsImported
  BY <1>1, <1>2, <1>3 DEF DeclaredIsImported, GoodSource, Declares
<1>8. ElementsAreImported
  <2> SUFFICES ASSUME NEW f \in files, f \notin Application(config.sourceRoot).files,
                      ~f.spec, f.type # "interceptor", IsPrefix(config.sourceRoot, f.dir)
               PROVE  Cardinality({m \in DOMAIN modules : \E i \in OwnImports(m) :
                           Resolved(m.dir, i.from) = [dir |-> f.dir, symbol |-> Symbol(f)]
                           /\ IsPrefix(m.dir, f.dir)}) = 1
    BY DEF ElementsAreImported
  <2>1. {m \in DOMAIN modules : \E i \in OwnImports(m) :
             Resolved(m.dir, i.from) = [dir |-> f.dir, symbol |-> Symbol(f)]
             /\ IsPrefix(m.dir, f.dir)} = Importers(f)
    BY <1>1 DEF Importers
  <2>2. PICK m : Importers(f) = {m}
    BY DEF SourcesInv, ImportedOnce
  <2>3. Cardinality({m}) = 1
    BY FS_Singleton
  <2>4. QED
    BY ONLY <2>1, <2>2, <2>3, Zenon
<1>9. QED
  BY <1>4, <1>5, <1>6, <1>7, <1>8 DEF SourcesInv

\* Whatever is created and generated, in any project: new leaves all of it or reports
\* an error, a dry run writes nothing, and every element lies below a root of
\* the project, is declared in the nearest module above it and is imported there
\* from where it lies (CreateCommand, GenerateCommand, ModuleDeclarator).
THEOREM CliProjectIsSound == CliSpec => []ProjectIsSound
<1>1. ProjectInv /\ [CliNext]_cliVars => ProjectInv'
  BY ProjectInvStep
<1>2. ProjectInv => ProjectIsSound
  <2> SUFFICES ASSUME ProjectInv PROVE ProjectIsSound
    OBVIOUS
  <2>1. /\ SchematicsTypeOK /\ ImportsResolve /\ DeclaredIsImported /\ ImportsComeFirst
        /\ ElementsAreImported /\ FilesLieUnderRoots
    BY SourcesAreSound DEF ProjectInv
  <2>2. ProjectTypeOK
    BY <2>1 DEF ProjectInv, NewOK, GenerateOK, ProjectTypeOK
  <2>3. QED
    BY <2>1, <2>2 DEF ProjectInv, ProjectIsSound
<1>3. QED
  BY <1>1, <1>2, ProjectInvInit, PTL DEF CliSpec
=============================================================================
