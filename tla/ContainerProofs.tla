--------------------------- MODULE ContainerProofs ---------------------------
(***************************************************************************)
(* Proofs about Container: the daemon whose launchers and containers are   *)
(* two processes is still the daemon of Daemon with careful clients, and a *)
(* container that was stopped while running or exited stays down.          *)
(***************************************************************************)
EXTENDS Container, DaemonProofs

LEMMA StepIsCareful == ContainerNext => [CarefulNext]_vars
<1>1. DaemonStep => CarefulNext
  BY DEF DaemonStep, CarefulNext, Environment
<1>2. ASSUME NEW n \in Names, StopAnswered(n)
      PROVE  CarefulNext
  BY <1>2 DEF StopAnswered, CarefulNext
<1>3. ASSUME NEW t \in Task, ProcessExits(t)
      PROVE  CarefulNext
  BY <1>3 DEF CarefulNext, Environment
<1>4. ASSUME NEW t \in Task, LauncherStep(t) \/ BoxStep(t) \/ LauncherFails(t)
                             \/ SetupFails(t) \/ ContainerEnds(t)
      PROVE  ProcessExits(t) \/ UNCHANGED vars
  BY <1>4 DEF LauncherStep, BoxStep, LauncherFails, SetupFails, ContainerEnds, Fork,
     ContainerWaited, LauncherKilled, KilledExits, Arm, MountRoot, Exec, ContainerDies
<1> QED
  BY <1>1, <1>2, <1>3, <1>4 DEF ContainerNext

\* The daemon with its launchers and containers told apart does nothing the
\* daemon with one process per task cannot do (launcher.rs:12-64): what is
\* proved of careful clients holds of it.
THEOREM ContainerIsCareful == ContainerSpec => CarefulSpec
<1>1. ContainerInit => Init
  BY DEF ContainerInit
<1>2. [ContainerNext]_containerVars => [CarefulNext]_vars
  BY StepIsCareful DEF containerVars
<1> QED
  BY <1>1, <1>2, PTL DEF ContainerSpec, CarefulSpec

-----------------------------------------------------------------------------
(* Once a Stop has been answered while Ps showed the name running or exited, *)
(* the only task the name may have is one that waits for a launcher that has *)
(* been killed, or is about to record its exit.                              *)
Outlived(t) == pc[t] \in {"wait", "record"} /\ proc[t] # "alive"

StopInv ==
  /\ stopped \in [Names -> {"no", "absent", "building", "running", "exited"}]
  /\ \A n \in Names : stopped[n] \in {"running", "exited"} =>
       \A t \in Task : Tracked(t) /\ job[t].name = n => Outlived(t)

\* A task goes on: an outlived one reaps its launcher or records its exit.
LEMMA TaskOutlives ==
  ASSUME CarefulInv, NEW t \in Task, TaskStep(t)
  PROVE  /\ job' = job
         /\ \A s \in Task : Tracked(s)' => Tracked(s)
         /\ \A s \in Task : Tracked(s)' /\ Outlived(s) => Outlived(s)'
<1>1. TypeOK
  BY DEF CarefulInv, TypeInv
<1> QED
  BY <1>1 DEF TaskStep, EnsureBaseImage, EnsureOverlay, CreateLog, BindPort,
     BindFails, MakeFifo, Launch, LaunchFails, WritePid, WriteManifest, Publish,
     Reap, RecordExit, Unregister, Goto, Tracked, Outlived, TypeOK

\* An accepted Run or Start starts a task of its own name only.
LEMMA SpawnAccepts ==
  ASSUME CarefulInv, NEW n \in Names, NEW m \in Manifests, SpawnReplica(n, m)
  PROVE  /\ Accepted(n)
         /\ \A k \in Names \ {n} : \A s \in Task : Tracked(s)' /\ job'[s].name = k =>
              /\ Tracked(s) /\ job[s].name = k
              /\ Outlived(s) => Outlived(s)'
<1>1. PICK t \in Task : /\ pc' = [pc EXCEPT ![t] = "base"]
                        /\ job' = [job EXCEPT ![t] = [name |-> n, manifest |-> m]]
  BY DEF SpawnReplica
<1>2. /\ map' = [map EXCEPT ![n] = Placeholder(m)] /\ ~Unfinished(n)
      /\ proc' = proc /\ TypeOK
  BY DEF SpawnReplica, CarefulInv, TypeInv
<1>3. Placeholder(m) # None
  BY PlaceholderType, DaemonAssumption
<1>4. Unfinished(n)'
  BY <1>2, <1>3 DEF Unfinished, Placeholder, TypeOK
<1> QED
  BY <1>1, <1>2, <1>4 DEF Accepted, Tracked, Outlived, TypeOK

\* A Stop of names kills the launchers of those that are running.
LEMMA StopKills ==
  ASSUME CarefulInv, NEW S \in SUBSET {n \in Names : map[n] # None}, StopThese(S)
  PROVE  /\ pc' = pc /\ job' = job
         /\ \A s \in Task : Outlived(s) => Outlived(s)'
         /\ \A n \in S : Status(n) \in {"running", "exited"} =>
              \A s \in Task : Tracked(s) /\ job[s].name = n => Outlived(s)'
<1>1. pc' = pc /\ job' = job
  BY DEF StopThese, taskVars
<1>2. \A s \in Task : proc[s] # "alive" => proc'[s] # "alive"
  BY DEF StopThese, SigKill
<1>3. ASSUME NEW n \in S, Status(n) \in {"running", "exited"},
             NEW s \in Task, Tracked(s), job[s].name = n
      PROVE  Outlived(s)'
  <2>1. OwnsEntry(s)
    BY <1>3 DEF CarefulInv, GenerationInv, Generations
  <2>2. pc[s] \in {"wait", "record"} /\ map[n].pid = s /\ ~map[n].exit
    BY <1>3, <2>1 DEF OwnsEntry, Unfinished, Status
  <2>3. s \in {map[k].pid : k \in {k \in S : ~map[k].exit}}
    BY <1>3, <2>2
  <2>4. proc'[s] # "alive"
    BY <2>3 DEF StopThese, SigKill
  <2> QED
    BY <1>1, <2>2, <2>4 DEF Outlived
<1> QED
  BY <1>1, <1>2, <1>3 DEF Outlived

LEMMA StopAnsweredKeeps ==
  ASSUME CarefulInv, StopInv, NEW n \in Names, StopAnswered(n)
  PROVE  StopInv'
<1>1. {n} \in SUBSET {k \in Names : map[k] # None} /\ StopThese({n})
  BY DEF StopAnswered, Stop
<1>2. stopped' = [stopped EXCEPT ![n] = Status(n)]
  BY DEF StopAnswered
<1>3. Status(n) \in {"absent", "building", "running", "exited"}
  BY DEF Status
<1>4. stopped' \in [Names -> {"no", "absent", "building", "running", "exited"}]
  BY <1>2, <1>3 DEF StopInv
<1>5. stopped'[n] = Status(n) /\ \A k \in Names \ {n} : stopped'[k] = stopped[k]
  BY <1>2 DEF StopInv
<1>6. /\ pc' = pc /\ job' = job
      /\ \A s \in Task : Outlived(s) => Outlived(s)'
      /\ Status(n) \in {"running", "exited"} =>
           \A s \in Task : Tracked(s) /\ job[s].name = n => Outlived(s)'
  BY <1>1, StopKills
<1> QED
  BY <1>4, <1>5, <1>6 DEF StopInv, Tracked

LEMMA DaemonStepKeeps ==
  ASSUME CarefulInv, StopInv, DaemonStep
  PROVE  StopInv'
<1>1. stopped' = [n \in Names |-> IF Accepted(n) THEN "no" ELSE stopped[n]]
  BY DEF DaemonStep
<1>2. /\ stopped' \in [Names -> {"no", "absent", "building", "running", "exited"}]
      /\ \A n \in Names : stopped'[n] = "no" \/ stopped'[n] = stopped[n]
      /\ \A n \in Names : Accepted(n) => stopped'[n] = "no"
  BY <1>1 DEF StopInv
<1>3. CASE /\ \A s \in Task : Tracked(s)' =>
                /\ Tracked(s) /\ job'[s] = job[s]
                /\ Outlived(s) => Outlived(s)'
  BY <1>2, <1>3 DEF StopInv
<1>4. ASSUME NEW n \in Names, NEW m \in Manifests, SpawnReplica(n, m)
      PROVE  StopInv'
  <2>1. stopped'[n] = "no"
    BY <1>2, <1>4, SpawnAccepts
  <2>2. \A k \in Names \ {n} : \A s \in Task : Tracked(s)' /\ job'[s].name = k =>
          /\ Tracked(s) /\ job[s].name = k
          /\ Outlived(s) => Outlived(s)'
    BY <1>4, SpawnAccepts
  <2> QED
    BY <1>2, <2>1, <2>2 DEF StopInv
<1>5. ASSUME NEW t \in Task, TaskStep(t)
      PROVE  StopInv'
  <2>1. /\ job' = job
        /\ \A s \in Task : Tracked(s)' => Tracked(s)
        /\ \A s \in Task : Tracked(s)' /\ Outlived(s) => Outlived(s)'
    BY <1>5, TaskOutlives
  <2> QED
    BY <1>3, <2>1
<1>6. ASSUME NEW c \in Clients, StartSpawn(c)
      PROVE  StopInv'
  <2>1. PICK n \in Names, m \in Manifests :
          n = start[c].name /\ m = start[c].manifest
    BY <1>6 DEF StartSpawn, CarefulInv, TypeInv, TypeOK, Job
  <2>2. SpawnReplica(n, m)
    BY <1>6, <2>1 DEF StartSpawn, SpawnReplica, Unfinished, Placeholder
  <2> QED
    BY <1>4, <2>2
<1>7. CASE StopAll
  <2> DEFINE S == {n \in Names : map[n] # None}
  <2>1. S \in SUBSET {n \in Names : map[n] # None} /\ StopThese(S)
    BY <1>7 DEF StopAll
  <2>2. /\ pc' = pc /\ job' = job
        /\ \A s \in Task : Outlived(s) => Outlived(s)'
    BY <2>1, StopKills
  <2> QED
    BY <1>3, <2>2 DEF Tracked
<1>8. CASE UNCHANGED <<pc, job, proc>>
  BY <1>3, <1>8 DEF Tracked, Outlived
<1> QED
  BY <1>4, <1>5, <1>6, <1>7, <1>8
     DEF DaemonStep, Serve, Run, StartRead, StartRefused, ListenerDropped, RmStopped, Rm,
         taskVars

LEMMA ContainerStepKeeps ==
  ASSUME CarefulInv, StopInv, [ContainerNext]_containerVars
  PROVE  StopInv'
<1>1. CASE UNCHANGED containerVars
  BY <1>1 DEF containerVars, vars, StopInv, Tracked, Outlived
<1>2. ASSUME NEW t \in Task, ProcessExits(t) \/ UNCHANGED vars, stopped' = stopped
      PROVE  StopInv'
  <2>1. /\ pc' = pc /\ job' = job
        /\ \A s \in Task : proc[s] # "alive" => proc'[s] # "alive"
    BY <1>2 DEF ProcessExits, taskVars, vars, CarefulInv, TypeInv, TypeOK
  <2> QED
    BY <1>2, <2>1 DEF StopInv, Tracked, Outlived
<1>3. ASSUME NEW t \in Task, LauncherStep(t) \/ BoxStep(t) \/ LauncherFails(t)
                             \/ SetupFails(t) \/ ContainerEnds(t)
      PROVE  (ProcessExits(t) \/ UNCHANGED vars) /\ stopped' = stopped
  BY <1>3 DEF LauncherStep, BoxStep, LauncherFails, SetupFails, ContainerEnds, Fork,
     ContainerWaited, LauncherKilled, KilledExits, Arm, MountRoot, Exec, ContainerDies
<1> QED
  BY <1>1, <1>2, <1>3, StopAnsweredKeeps, DaemonStepKeeps DEF ContainerNext

\* A container stopped while Ps shows it running or exited stays down until a
\* Run or a Start of the name is accepted (daemon.rs:802-815).
THEOREM StopHolds == ContainerSpec => []StoppedStaysDown
<1>1. ContainerInit => StopInv
  BY DEF ContainerInit, Init, StopInv, Tracked
<1>2. CarefulInv /\ StopInv /\ [ContainerNext]_containerVars => StopInv'
  BY ContainerStepKeeps
<1>3. CarefulInv /\ StopInv => StoppedStaysDown
  <2>1. CarefulInv => \A t \in Task : Alive(t) => Tracked(t)
    BY AliveIsTracked DEF Tracked
  <2> QED
    BY <2>1 DEF StopInv, StoppedStaysDown, Down, Processes, Alive, Outlived
<1>4. ContainerSpec => []CarefulInv
  BY ContainerIsCareful, CarefulInvariant
<1> QED
  BY <1>1, <1>2, <1>3, <1>4, PTL DEF ContainerSpec
=============================================================================
