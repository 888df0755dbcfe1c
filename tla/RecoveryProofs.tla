---------------------------- MODULE RecoveryProofs ----------------------------
(***************************************************************************)
(* Proofs about Recovery, for any names, ports, manifests, failures,       *)
(* spawns and crashes, at any point: that every live process whose pid is  *)
(* on disk is in the map, unfinished and watched, whenever requests are    *)
(* served, unless the very calls that should have found it failed; and     *)
(* that the handles of an entry are those of proxies of its own that       *)
(* listen, before a crash, in the middle of recovery and after.            *)
(*                                                                         *)
(* While the daemon serves, its steps are Daemon's, and the lemmas about   *)
(* those do for them; what has to be said besides is what the disk, the    *)
(* container being re-registered and the watching tasks have in common.    *)
(***************************************************************************)
EXTENDS Recovery, ReachProofs

\* What the steps of Daemon keep.
CoreInv == TypeInv /\ PidInv /\ ProcInv /\ PortInv /\ GenerationInv

\* No task outlives a crash; recovery has not registered what it has yet to
\* look at.
ScanInv ==
  /\ mode # "up" => \A t \in Task : ~Tracked(t)
  /\ mode = "down" => \A n \in Names : map[n] = None
  /\ mode # "scan" => todo = {} /\ rec = None
  /\ \A n \in todo : dir[n] # None /\ map[n] = None

\* A process that is ending or has ended, or that recovery has missed.
Lost(t) == proc[t] # "alive" \/ t \in missed

\* The container being re-registered is the one on disk.
CandidateInv ==
  rec # None =>
    /\ rec.name \notin todo
    /\ map[rec.name] = None
    /\ dir[rec.name] # None
    /\ dir[rec.name].pid = rec.pid
    /\ rec.watched => watch[rec.pid] = "wait" \/ Lost(rec.pid)
    /\ \A p \in rec.proxies : listener[p] = rec.pid /\ p \notin aborting

\* A pid file names a process that was launched for its directory's name.
DirInv ==
  \A n \in Names : dir[n] # None =>
    /\ pc[dir[n].pid] # "idle"
    /\ job[dir[n].pid].name = n
    /\ proc[dir[n].pid] # "none"

\* A task that waits on a pidfd, or has seen the end, has an entry to mark: it
\* is there, or about to be inserted.
HasEntry(t) ==
  \/ Running(job[t].name) /\ map[job[t].name].pid = t
  \/ rec # None /\ rec.watched /\ rec.pid = t

WatchInv ==
  \A t \in Task :
    /\ watch[t] # "none" => pc[t] = "done"
    /\ watch[t] = "record" => Lost(t)
    /\ watch[t] \in {"wait", "record"} => HasEntry(t)

\* A live process on disk is still to be looked at, being re-registered, missed,
\* about to be published by its task, or in the map with a task that waits for it.
Known(n) ==
  LET t == dir[n].pid
  IN \/ n \in todo
     \/ rec # None /\ rec.name = n
     \/ t \in missed
     \/ pc[t] \in {"manifest", "publish"}
     \/ /\ Unfinished(n) /\ map[n].pid = t
        /\ pc[t] = "wait" \/ watch[t] = "wait"

DiskInv ==
  mode # "down" =>
    \A n \in Names : dir[n] # None /\ proc[dir[n].pid] = "alive" => Known(n)

RecoveryInv ==
  /\ RecoveryTypeOK /\ CoreInv
  /\ ScanInv /\ CandidateInv /\ DirInv /\ WatchInv /\ DiskInv

LEMMA RecoveryInvInit == RecoveryInit => RecoveryInv
<1> SUFFICES ASSUME RecoveryInit
             PROVE  RecoveryInv
  OBVIOUS
<1>1. Init
  BY DEF RecoveryInit
<1>2. CoreInv
  BY <1>1, CarefulInit, PidInit, PortInit DEF CoreInv, CarefulInv
<1>3. RecoveryTypeOK
  BY <1>2, RecoveryAssumption DEF CoreInv, TypeInv, RecoveryInit, RecoveryTypeOK
<1>4. ScanInv /\ CandidateInv /\ DirInv /\ WatchInv /\ DiskInv
  BY <1>1 DEF RecoveryInit, Init, ScanInv, CandidateInv, DirInv, WatchInv, DiskInv
<1> QED
  BY <1>2, <1>3, <1>4 DEF RecoveryInv

\* A recovered container's pid and name.
LEMMA OnDisk ==
  ASSUME RecoveryTypeOK, NEW n \in Names, dir[n] # None
  PROVE  dir[n] \in Directory /\ dir[n].pid \in Task
  BY DEF RecoveryTypeOK, TypeOK, Directory

LEMMA MissType ==
  ASSUME RecoveryTypeOK, NEW n \in Names, dir[n] # None, Miss(dir[n].pid)
  PROVE  missed' \subseteq Task
  BY OnDisk DEF Miss, RecoveryTypeOK

\* A process that is missed is remembered, as are the ones before.
LEMMA MissKeeps ==
  ASSUME NEW t, Miss(t)
  PROVE  missed \subseteq missed' /\ (proc[t] = "alive" => t \in missed')
  BY DEF Miss

LEMMA CandidateType ==
  ASSUME RecoveryTypeOK, DirInv, CandidateInv, rec # None
  PROVE  /\ rec.name \in Names /\ rec.pid \in Task /\ rec.manifest \in Manifests
         /\ rec.tried \in Nat /\ rec.proxies \subseteq Ports /\ rec.watched \in BOOLEAN
         /\ pc[rec.pid] # "idle" /\ job[rec.pid].name = rec.name
         /\ proc[rec.pid] # "none"
<1>1. rec \in Candidate
  BY DEF RecoveryTypeOK
<1>2. /\ rec.name \in Names /\ rec.pid \in Task /\ rec.manifest \in Manifests
      /\ rec.tried \in Nat /\ rec.proxies \subseteq Ports /\ rec.watched \in BOOLEAN
  BY <1>1 DEF Candidate
<1> QED
  BY <1>2 DEF CandidateInv, DirInv

-----------------------------------------------------------------------------
(* What the steps of Daemon do to what recovery relies on. *)

\* A task that has been started keeps its job, a process that was launched is
\* not forgotten, and only a launch brings one to life.
LEMMA NextKeeps ==
  ASSUME TypeInv, [Next]_vars, NEW t \in Task
  PROVE  /\ pc[t] # "idle" => pc'[t] # "idle" /\ job'[t] = job[t]
         /\ proc[t] # "none" => proc'[t] # "none"
         /\ proc'[t] = "alive" => proc[t] = "alive" \/ pc[t] = "launch"
         /\ proc[t] \in {"zombie", "reaped"} =>
              proc'[t] \in {"zombie", "reaped"} \/ pc[t] = "launch"
         /\ pc[t] = "done" => pc'[t] = "done"
<1> DEFINE Kept == /\ pc[t] # "idle" => pc'[t] # "idle" /\ job'[t] = job[t]
                   /\ proc[t] # "none" => proc'[t] # "none"
                   /\ proc'[t] = "alive" => proc[t] = "alive" \/ pc[t] = "launch"
                   /\ proc[t] \in {"zombie", "reaped"} =>
                        proc'[t] \in {"zombie", "reaped"} \/ pc[t] = "launch"
                   /\ pc[t] = "done" => pc'[t] = "done"
<1>1. ASSUME NEW n, NEW m, SpawnReplica(n, m)
      PROVE  Kept
  BY <1>1 DEF SpawnReplica, Fresh, TypeInv, TypeOK
<1>2. ASSUME NEW S, StopThese(S)
      PROVE  Kept
  BY <1>2 DEF StopThese, SigKill, TypeInv, TypeOK, taskVars
<1>3. ASSUME NEW c \in Clients, StartRefused(c) \/ \E n \in Names : StartRead(c, n)
      PROVE  Kept
  BY <1>3 DEF StartRefused, StartRead, taskVars
<1>4. ASSUME NEW n \in Names, Rm(n)
      PROVE  Kept
  BY <1>4 DEF Rm, taskVars
<1>5. CASE Environment
  BY <1>5 DEF Environment, ProcessExits, ListenerDropped, Alive, taskVars, TypeInv, TypeOK
<1>6. ASSUME NEW s \in Task, TaskStep(s)
      PROVE  Kept
  <2>1. CASE s = t
    BY <1>6, <2>1 DEF TaskStep, EnsureBaseImage, EnsureOverlay, CreateLog, BindPort,
         BindFails, MakeFifo, Launch, LaunchFails, WritePid, WriteManifest,
         Publish, Reap, RecordExit, Unregister, Goto, TypeInv, TypeOK, PC
  <2>2. CASE s # t
    BY <1>6, <2>2, TaskLocal
  <2> QED
    BY <2>1, <2>2
<1>7. CASE UNCHANGED vars
  BY <1>7 DEF vars
<1> QED
  BY <1>1, <1>2, <1>3, <1>4, <1>5, <1>6, <1>7
     DEF Next, Serve, Run, StartSpawn, StopAll, Stop

\* The pid on disk is changed by the task that writes its own only.
LEMMA PidFile ==
  ASSUME TypeInv, [Next]_vars, NEW n \in Names, dir'[n] # None
  PROVE  \/ dir[n] # None /\ dir'[n].pid = dir[n].pid
         \/ \E t \in Task : WritePid(t) /\ job[t].name = n /\ dir'[n].pid = t
<1>1. ASSUME NEW t \in Task, WriteManifest(t)
      PROVE  dir[n] # None /\ dir'[n].pid = dir[n].pid
  <2>1. job[t].name \in Names
    BY <1>1, LocalProxiesType DEF WriteManifest, Goto
  <2> QED
    BY <1>1, <2>1 DEF WriteManifest, TypeInv, TypeOK, Directory
<1>2. ASSUME NEW t \in Task, WritePid(t)
      PROVE  \/ dir[n] # None /\ dir'[n].pid = dir[n].pid
             \/ job[t].name = n /\ dir'[n].pid = t
  <2>1. job[t].name \in Names
    BY <1>2, LocalProxiesType DEF WritePid, Goto
  <2> QED
    BY <1>2, <2>1 DEF WritePid, TypeInv, TypeOK
<1>3. ASSUME NEW k \in Names, Rm(k)
      PROVE  dir[n] # None /\ dir'[n].pid = dir[n].pid
  BY <1>3 DEF Rm, TypeInv, TypeOK
<1>4. dir' = dir \/ (\E t \in Task : WritePid(t) \/ WriteManifest(t))
        \/ \E k \in Names : Rm(k)
  BY DEF Next, TaskStep, EnsureBaseImage, EnsureOverlay, CreateLog, BindPort,
         BindFails, MakeFifo, Launch, LaunchFails, Publish, Reap, RecordExit,
         Unregister, Environment, ProcessExits, ListenerDropped, Serve, Run,
         StartRead, StartSpawn, StartRefused, SpawnReplica, StopAll, Stop,
         StopThese, diskVars, vars
<1> QED
  BY <1>1, <1>2, <1>3, <1>4

\* No client takes away an entry that is not finished, or gives it a new pid.
LEMMA ServedKeepsEntry ==
  ASSUME TypeInv, Serve \/ \E k \in Names : Stop(k) \/ RmStopped(k),
         NEW n \in Names, Unfinished(n)
  PROVE  /\ Unfinished(n)' /\ map'[n].pid = map[n].pid
         /\ map'[n].building = map[n].building
<1> DEFINE Kept == /\ Unfinished(n)' /\ map'[n].pid = map[n].pid
                   /\ map'[n].building = map[n].building
<1>1. ASSUME NEW k \in Names, NEW m, SpawnReplica(k, m)
      PROVE  Kept
  BY <1>1 DEF SpawnReplica, Unfinished, TypeInv, TypeOK
<1>2. ASSUME NEW S \in SUBSET {k \in Names : map[k] # None}, StopThese(S)
      PROVE  Kept
  BY <1>2, StopEntries DEF Unfinished
<1>3. ASSUME NEW c \in Clients, StartSpawn(c)
      PROVE  Kept
  <2>1. start[c].name \in Names
    BY <1>3 DEF StartSpawn, TypeInv, TypeOK, Job
  <2> QED
    BY <1>1, <1>3, <2>1 DEF StartSpawn
<1>4. ASSUME NEW c \in Clients, StartRefused(c) \/ \E k \in Names : StartRead(c, k)
      PROVE  Kept
  BY <1>4 DEF StartRefused, StartRead, Unfinished
<1>5. ASSUME NEW k \in Names, RmStopped(k)
      PROVE  Kept
  BY <1>5 DEF RmStopped, Rm, Exited, Unfinished, TypeInv, TypeOK
<1>6. CASE StopAll \/ \E k \in Names : Stop(k)
  BY <1>2, <1>6 DEF StopAll, Stop
<1> QED
  BY <1>1, <1>3, <1>4, <1>5, <1>6 DEF Serve, Run

\* No task takes away an entry that shows the pid of a task that is over.
LEMMA TaskKeepsEntry ==
  ASSUME TypeInv, GenerationInv, NEW s \in Task, TaskStep(s),
         NEW n \in Names, map[n] # None, map[n].pid \in Task, pc[map[n].pid] = "done"
  PROVE  map'[n] = map[n]
<1>1. Tracked(s) /\ (n # job[s].name => map'[n] = map[n])
  BY TaskLocal
<1>2. ASSUME n = job[s].name
      PROVE  FALSE
  BY <1>1, <1>2 DEF GenerationInv, Generations, OwnsEntry, Tracked, Task
<1> QED
  BY <1>1, <1>2

-----------------------------------------------------------------------------
(* The steps of recovery keep what the steps of Daemon keep. *)

\* Steps that change nothing of Daemon but files and processes.
LEMMA CoreQuiet ==
  ASSUME CoreInv, TypeInv', ProcInv', pc' = pc, job' = job, bound' = bound,
         map' = map, listener' = listener, aborting' = aborting,
         \A t \in Task : proc[t] # "none" => proc'[t] # "none"
  PROVE  CoreInv'
<1>1. PidInv'
  <2>1. \A n \in Names : map[n] # None => map[n].pid = 0 \/ map[n].pid \in Task
    BY PidRange DEF CoreInv, TypeInv
  <2>2. LaunchInv'
    BY DEF CoreInv, PidInv, LaunchInv
  <2> QED
    BY <2>1, <2>2, PidQuiet DEF CoreInv
<1>2. PortInv'
  BY PortsSeen DEF CoreInv
<1>3. GenerationInv'
  BY QuietGenerations DEF CoreInv, GenerationInv
<1> QED
  BY <1>1, <1>2, <1>3 DEF CoreInv

LEMMA CoreKept == CoreInv /\ UNCHANGED vars => CoreInv'
<1> SUFFICES ASSUME CoreInv, UNCHANGED vars
             PROVE  CoreInv'
  OBVIOUS
<1>1. TypeInv' /\ ProcInv'
  BY TypeStep, ProcStep DEF CoreInv
<1> QED
  BY <1>1, CoreQuiet DEF vars

\* With no task on the way, generations are nothing to keep.
LEMMA NoGenerations ==
  ASSUME \A t \in Task : ~Tracked(t)
  PROVE  GenerationInv
  BY DEF GenerationInv, Generations

LEMMA ServesCore ==
  ASSUME RecoveryInv, Serves \/ Environment
  PROVE  CoreInv' /\ [Next]_vars
<1>1. [Next]_vars
  BY DEF Serves, Next, RmStopped
<1>2. TypeInv' /\ PidInv' /\ ProcInv' /\ PortInv'
  BY <1>1, TypeStep, PidStep, ProcStep, PortStep DEF RecoveryInv, CoreInv
<1>3. GenerationInv'
  BY TaskGenerations, EnvironmentGenerations, ServeGenerations
     DEF Serves, RecoveryInv, CoreInv, GenerationInv
<1> QED
  BY <1>1, <1>2, <1>3 DEF CoreInv

LEMMA CrashCore ==
  ASSUME RecoveryInv, Crash
  PROVE  CoreInv' /\ RecoveryTypeOK' /\ \A t \in Task : pc'[t] \in {"idle", "done"}
<1>0. RecoveryTypeOK /\ CoreInv /\ TypeInv
  BY DEF RecoveryInv, CoreInv
<1>1. \A t \in Task : pc'[t] = IF pc[t] = "idle" THEN "idle" ELSE "done"
  BY DEF Crash
<1>2. TypeOK'
  BY <1>0, DaemonAssumption DEF Crash, TypeInv, TypeOK, PC, diskVars, Pid
<1>3. JobInv'
  BY <1>0, <1>1 DEF Crash, TypeInv, JobInv
<1>4. PidInv'
  BY <1>1 DEF Crash, PidInv, LaunchInv, PidIsOfItsName
<1>5. ProcInv'
  BY <1>0, <1>1 DEF Crash, CoreInv, ProcInv
<1>6. PortInv'
  BY <1>1 DEF Crash, PortInv, LocalInv, EntryInv, AbortInv, Binding
<1>7. GenerationInv'
  BY <1>1 DEF GenerationInv, Generations, Tracked
<1>8. RecoveryTypeOK'
  BY <1>0, <1>2, RecoveryAssumption DEF Crash, RecoveryTypeOK
<1> QED
  BY <1>1, <1>2, <1>3, <1>4, <1>5, <1>6, <1>7, <1>8 DEF CoreInv, TypeInv

\* A process that is reaped, killed or forgotten.
LEMMA ForgetCore ==
  ASSUME RecoveryInv,
         \/ \E t \in Task : InitReaps(t)
         \/ \E n \in Names :
              KillIncomplete(n) \/ ForgetStopped(n) \/ ForgetUnreadable(n)
  PROVE  CoreInv' /\ RecoveryTypeOK'
<1>0. RecoveryTypeOK /\ CoreInv /\ TypeInv
  BY DEF RecoveryInv, CoreInv
<1>1. ASSUME NEW t \in Task, InitReaps(t)
      PROVE  CoreInv' /\ RecoveryTypeOK'
  <2>1. TypeInv'
    BY <1>0, <1>1 DEF InitReaps, TypeInv, TypeOK, JobInv, taskVars, netVars, diskVars
  <2>2. ProcInv' /\ \A s \in Task : proc[s] # "none" => proc'[s] # "none"
    BY <1>0, <1>1 DEF InitReaps, CoreInv, ProcInv, TypeInv, TypeOK, taskVars
  <2> QED
    BY <1>0, <1>1, <2>1, <2>2, CoreQuiet
       DEF InitReaps, taskVars, netVars, recoveryVars, RecoveryTypeOK, TypeInv
<1>2. ASSUME NEW n \in Names, KillIncomplete(n)
      PROVE  CoreInv' /\ RecoveryTypeOK'
  <2>1. TypeInv'
    BY <1>0, <1>2 DEF KillIncomplete, Visit, RemoveDirectory, SigKill, TypeInv,
                      TypeOK, JobInv, taskVars, netVars
  <2>2. ProcInv' /\ \A s \in Task : proc[s] # "none" => proc'[s] # "none"
    BY <1>0, <1>2 DEF KillIncomplete, Visit, SigKill, CoreInv, ProcInv, TypeInv,
                      TypeOK, taskVars
  <2>3. CoreInv'
    BY <1>0, <1>2, <2>1, <2>2, CoreQuiet DEF KillIncomplete, Visit, taskVars, netVars
  <2> QED
    BY <1>0, <1>2, <2>1, <2>3 DEF KillIncomplete, Visit, RecoveryTypeOK, TypeInv
<1>3. ASSUME NEW n \in Names, ForgetStopped(n) \/ ForgetUnreadable(n)
      PROVE  CoreInv' /\ RecoveryTypeOK'
  <2>1. TypeInv'
    BY <1>0, <1>3 DEF ForgetStopped, ForgetUnreadable, Visit, RemoveDirectory,
                      TypeInv, TypeOK, JobInv, taskVars, netVars
  <2>2. ProcInv' /\ \A s \in Task : proc[s] # "none" => proc'[s] # "none"
    BY <1>0, <1>3 DEF ForgetStopped, ForgetUnreadable, Visit, CoreInv, ProcInv, taskVars
  <2>3. CoreInv'
    BY <1>0, <1>3, <2>1, <2>2, CoreQuiet
       DEF ForgetStopped, ForgetUnreadable, Visit, taskVars, netVars
  <2>4. missed' \subseteq Task
    BY <1>0, <1>3, MissType DEF ForgetStopped, ForgetUnreadable, Visit, RecoveryInv, ScanInv
  <2> QED
    BY <1>0, <1>3, <2>1, <2>3, <2>4
       DEF ForgetStopped, ForgetUnreadable, Visit, RecoveryTypeOK, TypeInv
<1> QED
  BY <1>1, <1>2, <1>3

\* Steps of recovery that are none of Daemon.
LEMMA OtherCore ==
  ASSUME RecoveryInv,
         \/ Restart \/ Watch \/ Serving
         \/ \E n \in Names : RecoverRunning(n)
         \/ \E t \in Task : NoticeExit(t)
  PROVE  UNCHANGED vars /\ CoreInv' /\ RecoveryTypeOK'
<1>0. RecoveryTypeOK /\ CoreInv
  BY DEF RecoveryInv
<1>1. UNCHANGED vars
  BY DEF Restart, Watch, Serving, RecoverRunning, Visit, NoticeExit, vars,
         taskVars, netVars, diskVars
<1>2. CoreInv' /\ TypeOK'
  BY <1>0, <1>1, CoreKept DEF CoreInv, TypeInv
<1>3. CASE Restart \/ Serving
  BY <1>0, <1>2, <1>3 DEF Restart, Serving, RecoveryTypeOK
<1>4. CASE Watch
  <2>1. rec' = [rec EXCEPT !.watched = TRUE] /\ rec \in Candidate
    BY <1>0, <1>4 DEF Watch, RecoveryTypeOK
  <2>2. rec' \in Candidate
    BY <2>1 DEF Candidate
  <2>3. rec.pid \in Task
    BY <2>1 DEF Candidate
  <2> QED
    BY <1>0, <1>2, <1>4, <2>2, <2>3 DEF Watch, Miss, RecoveryTypeOK
<1>5. ASSUME NEW n \in Names, RecoverRunning(n)
      PROVE  RecoveryTypeOK'
  <2>1. dir[n].pid \in Task /\ dir[n].manifest \in Manifests
    BY <1>0, <1>5 DEF RecoverRunning, Visit, RecoveryInv, ScanInv, RecoveryTypeOK,
                      TypeOK, Directory
  <2>2. rec' \in Candidate
    BY <1>5, <2>1 DEF RecoverRunning, Candidate
  <2> QED
    BY <1>0, <1>2, <1>5, <2>2 DEF RecoverRunning, Visit, RecoveryTypeOK
<1>6. ASSUME NEW t \in Task, NoticeExit(t)
      PROVE  RecoveryTypeOK'
  BY <1>0, <1>2, <1>6 DEF NoticeExit, RecoveryTypeOK
<1> QED
  BY <1>1, <1>2, <1>3, <1>4, <1>5, <1>6

\* While recovery runs, a process on disk has a task that is over.
LEMMA ScanIsQuiet ==
  ASSUME RecoveryInv, mode = "scan"
  PROVE  /\ \A t \in Task : ~Tracked(t) /\ ~Binding(t)
         /\ \A n \in Names : dir[n] # None => pc[dir[n].pid] = "done"
<1>1. \A t \in Task : ~Tracked(t) /\ ~Binding(t)
  BY DEF RecoveryInv, ScanInv, Tracked, Binding
<1>2. \A n \in Names : dir[n] # None => dir[n].pid \in Task
  BY OnDisk DEF RecoveryInv
<1> QED
  BY <1>1, <1>2 DEF RecoveryInv, DirInv, Tracked

LEMMA RegisterCore ==
  ASSUME RecoveryInv, NEW n \in Names, RegisterStopped(n)
  PROVE  CoreInv' /\ RecoveryTypeOK'
<1>0. RecoveryTypeOK /\ CoreInv /\ TypeInv /\ mode = "scan" /\ n \in todo
  BY DEF RecoveryInv, CoreInv, RegisterStopped, Visit
<1> DEFINE e == [pid |-> 0, building |-> FALSE, exit |-> TRUE,
                 proxies |-> {}, manifest |-> dir[n].manifest]
<1>1. e \in Entry
  <2>1. dir[n] \in Directory
    BY <1>0, OnDisk DEF RecoveryInv, ScanInv
  <2> QED
    BY <2>1, DaemonAssumption DEF RegisterStopped, Directory, Entry, Pid
<1>2. /\ map' = [map EXCEPT ![n] = e] /\ e.pid = 0 /\ e.proxies = {}
      /\ pc' = pc /\ job' = job /\ bound' = bound /\ proc' = proc
      /\ listener' = listener /\ aborting' = aborting
  BY DEF RegisterStopped, Visit, taskVars, netVars
<1> HIDE DEF e
<1>3. \A k \in Names : map'[k] = IF k = n THEN e ELSE map[k]
  BY <1>0, <1>2 DEF TypeInv, TypeOK
<1>4. TypeInv'
  BY <1>0, <1>1, <1>2 DEF RegisterStopped, Visit, TypeInv, TypeOK, JobInv
<1>5. PidInv'
  BY <1>0, <1>2, <1>3 DEF CoreInv, PidInv, LaunchInv, PidIsOfItsName
<1>6. ProcInv'
  BY <1>0, <1>2 DEF CoreInv, ProcInv
<1>7. PortInv'
  BY <1>0, <1>2, <1>3, PortsKept DEF CoreInv, Binding, Published, LocalProxies
<1>8. GenerationInv'
  BY <1>0, <1>2, NoGenerations, ScanIsQuiet DEF GenerationInv, Generations, Tracked
<1>9. RecoveryTypeOK'
  <2>1. missed' \subseteq Task
    BY <1>0, MissType DEF RegisterStopped, RecoveryInv, ScanInv
  <2> QED
    BY <1>0, <1>4, <2>1 DEF RegisterStopped, Visit, RecoveryTypeOK, TypeInv
<1> QED
  BY <1>4, <1>5, <1>6, <1>7, <1>8, <1>9 DEF CoreInv

\* The entry inserted shows the pid on disk and holds what has been bound.
LEMMA InsertCore ==
  ASSUME RecoveryInv, Insert
  PROVE  CoreInv' /\ RecoveryTypeOK'
<1>0. RecoveryTypeOK /\ CoreInv /\ TypeInv /\ CandidateInv /\ DirInv /\ mode = "scan"
  BY DEF RecoveryInv, CoreInv, Insert, ScanInv, RecoveryTypeOK
<1>1. /\ rec.name \in Names /\ rec.pid \in Task /\ rec.manifest \in Manifests
      /\ rec.proxies \subseteq Ports /\ job[rec.pid].name = rec.name
      /\ pc[rec.pid] = "done" /\ proc[rec.pid] # "none"
  BY <1>0, CandidateType, ScanIsQuiet DEF Insert, CandidateInv
<1> DEFINE e == [pid |-> rec.pid, building |-> FALSE, exit |-> FALSE,
                 proxies |-> rec.proxies, manifest |-> rec.manifest]
<1>2. e \in Entry
  BY <1>1, DaemonAssumption DEF Entry, Pid, Task
<1>3. /\ map' = [map EXCEPT ![rec.name] = e]
      /\ e.pid = rec.pid /\ e.proxies = rec.proxies
      /\ pc' = pc /\ job' = job /\ bound' = bound /\ proc' = proc
      /\ listener' = listener /\ aborting' = aborting
  BY DEF Insert, taskVars, netVars
<1> HIDE DEF e
<1>4. \A k \in Names : map'[k] = IF k = rec.name THEN e ELSE map[k]
  BY <1>0, <1>3 DEF TypeInv, TypeOK
<1>5. TypeInv'
  BY <1>0, <1>1, <1>2, <1>3 DEF Insert, TypeInv, TypeOK, JobInv, diskVars
<1>6. PidInv'
  <2>1. job[rec.pid] # None
    BY <1>1, DaemonAssumption DEF CoreInv, TypeInv, JobInv, RecoveryInv
  <2> QED
    BY <1>0, <1>1, <1>3, <1>4, <2>1 DEF CoreInv, PidInv, LaunchInv, PidIsOfItsName
<1>7. ProcInv'
  BY <1>0, <1>3 DEF CoreInv, ProcInv
<1>8. PortInv'
  <2>1. LocalInv' /\ AbortInv'
    BY <1>0, <1>3 DEF CoreInv, PortInv, LocalInv, AbortInv, Binding, LocalProxies
  <2>2. \A p \in rec.proxies : listener[p] = rec.pid /\ p \notin aborting
    BY <1>0 DEF CandidateInv, Insert
  <2>3. EntryInv'
    BY <1>0, <1>1, <1>3, <1>4, <2>2 DEF CoreInv, PortInv, EntryInv, Published
  <2> QED
    BY <2>1, <2>3 DEF PortInv
<1>9. GenerationInv'
  BY <1>0, <1>3, NoGenerations, ScanIsQuiet DEF GenerationInv, Generations, Tracked
<1>10. RecoveryTypeOK'
  BY <1>0, <1>5 DEF Insert, RecoveryTypeOK, TypeInv
<1> QED
  BY <1>5, <1>6, <1>7, <1>8, <1>9, <1>10 DEF CoreInv

\* A port bound by recovery was nobody's.
LEMMA RebindCore ==
  ASSUME RecoveryInv, Rebind
  PROVE  CoreInv' /\ RecoveryTypeOK' /\ CandidateInv' /\ rec' \in Candidate
<1>0. RecoveryTypeOK /\ CoreInv /\ TypeInv /\ CandidateInv /\ DirInv /\ mode = "scan"
  BY DEF RecoveryInv, CoreInv, Rebind, ScanInv, RecoveryTypeOK
<1>1. /\ rec \in Candidate /\ rec.pid \in Task /\ rec.tried \in Nat
      /\ rec.proxies \subseteq Ports /\ rec.manifest \in Seq(Ports)
  BY <1>0, CandidateType, DaemonAssumption DEF Rebind, RecoveryTypeOK
<1>2. /\ map' = map /\ pc' = pc /\ job' = job /\ bound' = bound /\ proc' = proc
      /\ aborting' = aborting /\ dir' = dir /\ fifo' = fifo /\ start' = start
      /\ mode' = mode /\ crashes' = crashes /\ todo' = todo /\ watch' = watch
      /\ missed' = missed
  BY DEF Rebind, taskVars, diskVars
<1> DEFINE p == rec.manifest[rec.tried + 1]
<1>3. p \in Ports
  BY <1>1 DEF Rebind
<1>4. CASE listener' = listener /\ rec' = [rec EXCEPT !.tried = @ + 1]
  <2>1. /\ rec' \in Candidate /\ rec'.name = rec.name /\ rec'.pid = rec.pid
        /\ rec'.proxies = rec.proxies /\ rec'.watched = rec.watched
    BY <1>1, <1>4 DEF Candidate
  <2>2. UNCHANGED vars
    BY <1>2, <1>4 DEF vars
  <2>3. CoreInv'
    BY <1>0, <2>2, CoreKept
  <2>4. RecoveryTypeOK'
    BY <1>0, <1>2, <2>1, <2>3 DEF RecoveryTypeOK, CoreInv, TypeInv
  <2>5. CandidateInv'
    BY <1>0, <1>2, <1>4, <2>1 DEF CandidateInv, Lost, Rebind
  <2> QED
    BY <2>1, <2>3, <2>4, <2>5
<1>5. CASE /\ listener[p] = 0
           /\ listener' = [listener EXCEPT ![p] = rec.pid]
           /\ rec' = [rec EXCEPT !.tried = @ + 1, !.proxies = @ \cup {p}]
  <2> HIDE DEF p
  <2>1. /\ rec' \in Candidate /\ rec'.name = rec.name /\ rec'.pid = rec.pid
        /\ rec'.proxies = rec.proxies \cup {p} /\ rec'.watched = rec.watched
    <3>1. rec.tried + 1 \in Nat /\ rec.proxies \cup {p} \subseteq Ports
      BY <1>1, <1>3
    <3>2. \A x \in Nat, h \in SUBSET Ports :
            /\ [rec EXCEPT !.tried = x, !.proxies = h] \in Candidate
            /\ [rec EXCEPT !.tried = x, !.proxies = h].name = rec.name
            /\ [rec EXCEPT !.tried = x, !.proxies = h].pid = rec.pid
            /\ [rec EXCEPT !.tried = x, !.proxies = h].proxies = h
            /\ [rec EXCEPT !.tried = x, !.proxies = h].watched = rec.watched
      BY <1>1 DEF Candidate
    <3> QED
      BY <1>5, <3>1, <3>2
  <2>2. p \notin aborting /\ rec.pid # 0
    BY <1>0, <1>1, <1>5 DEF CoreInv, PortInv, AbortInv, Task
  <2>3. listener'[p] = rec.pid /\ \A q \in Ports : q # p => listener'[q] = listener[q]
    BY <1>0, <1>3, <1>5 DEF TypeInv, TypeOK
  <2>4. TypeInv'
    <3>1. rec.pid \in Pid
      BY <1>1, DaemonAssumption DEF Task, Pid
    <3> QED
      BY <1>0, <1>2, <1>5, <3>1 DEF TypeInv, TypeOK, JobInv
  <2>5. PidInv' /\ ProcInv'
    BY <1>0, <1>2 DEF CoreInv, PidInv, LaunchInv, PidIsOfItsName, ProcInv
  <2>6. PortInv'
    <3>1. LocalInv'
      BY <1>0, <1>2, ScanIsQuiet DEF LocalInv, Binding
    <3>2. ASSUME NEW n \in Names, map[n] # None, NEW q \in map[n].proxies
          PROVE  /\ map[n].pid \in Task /\ Published(map[n].pid)
                 /\ listener'[q] = map[n].pid /\ q \notin aborting
      <4>1. /\ map[n].pid \in Task /\ Published(map[n].pid)
            /\ listener[q] = map[n].pid /\ q \notin aborting
        BY <1>0, <3>2 DEF CoreInv, PortInv, EntryInv
      <4>2. q \in Ports /\ q # p
        BY <1>0, <1>5, <3>2, <4>1 DEF TypeInv, TypeOK, Entry, Task
      <4> QED
        BY <2>3, <4>1, <4>2
    <3>3. EntryInv'
      BY <1>2, <3>2 DEF EntryInv, Published
    <3>4. AbortInv'
      BY <1>0, <1>2, <2>2, <2>3 DEF CoreInv, PortInv, AbortInv, TypeInv, TypeOK
    <3> QED
      BY <3>1, <3>3, <3>4 DEF PortInv
  <2>7. GenerationInv'
    BY <1>0, <1>2, ScanIsQuiet DEF GenerationInv, Generations, Tracked
  <2>8. RecoveryTypeOK'
    BY <1>0, <1>2, <2>1, <2>4 DEF RecoveryTypeOK, TypeInv
  <2>9. CandidateInv'
    <3>1. \A q \in rec.proxies \cup {p} : listener'[q] = rec.pid /\ q \notin aborting
      BY <1>0, <1>1, <2>2, <2>3 DEF CandidateInv, Rebind
    <3> QED
      BY <1>0, <1>2, <2>1, <3>1 DEF CandidateInv, Lost, Rebind
  <2> QED
    BY <2>1, <2>4, <2>5, <2>6, <2>7, <2>8, <2>9 DEF CoreInv
<1> QED
  BY <1>4, <1>5 DEF Rebind

\* The end of a recovered process takes the handles of its entry along, and
\* nobody else's.
LEMMA MarkCore ==
  ASSUME RecoveryInv, NEW t \in Task, MarkExited(t)
  PROVE  /\ CoreInv' /\ RecoveryTypeOK'
         /\ \A n \in Names : n # job[t].name => map'[n] = map[n]
         /\ \A n \in Names : map'[n] = None <=> map[n] = None
<1>0. RecoveryTypeOK /\ CoreInv /\ TypeInv /\ WatchInv
  BY DEF RecoveryInv, CoreInv
<1>1. pc[t] = "done" /\ job[t].name \in Names
  BY <1>0, LocalProxiesType DEF MarkExited, WatchInv
<1> DEFINE n == job[t].name
<1>2. /\ pc' = pc /\ job' = job /\ bound' = bound /\ proc' = proc
      /\ listener' = listener /\ dir' = dir /\ start' = start
      /\ mode' = mode /\ crashes' = crashes /\ todo' = todo /\ rec' = rec
      /\ watch' = [watch EXCEPT ![t] = "done"] /\ missed' = missed
  BY DEF MarkExited, taskVars
<1>3. ASSUME TypeOK'
      PROVE  RecoveryTypeOK'
  BY <1>0, <1>2, <1>3 DEF RecoveryTypeOK
<1>4. CASE map[n] = None
  <2>1. UNCHANGED vars
    BY <1>2, <1>4 DEF MarkExited, vars
  <2> QED
    BY <1>0, <1>3, <2>1, CoreKept DEF vars, CoreInv, TypeInv
<1>5. CASE map[n] # None
  <2> DEFINE e == [map[n] EXCEPT !.proxies = {}, !.exit = TRUE]
  <2>1. /\ map' = [map EXCEPT ![n] = e] /\ aborting' = aborting \cup map[n].proxies
        /\ fifo' = fifo \ {n}
    BY <1>5 DEF MarkExited, Abort
  <2>2. map[n] \in Entry
    BY <1>0, <1>1, <1>5 DEF TypeInv, TypeOK
  <2>3. e \in Entry /\ e.pid = map[n].pid /\ e.proxies = {}
    BY <2>2, EntryDrained DEF Entry
  <2>4. map[n].proxies \subseteq Ports
    BY <2>2 DEF Entry
  <2> HIDE DEF e
  <2>5. \A k \in Names : map'[k] = IF k = n THEN e ELSE map[k]
    BY <1>0, <2>1 DEF TypeInv, TypeOK
  <2>6. TypeInv'
    BY <1>0, <1>1, <1>2, <2>1, <2>3, <2>4 DEF TypeInv, TypeOK, JobInv
  <2>7. PidInv'
    BY <1>0, <1>2, <1>5, <2>3, <2>5 DEF CoreInv, PidInv, LaunchInv, PidIsOfItsName
  <2>8. ProcInv'
    BY <1>0, <1>2 DEF CoreInv, ProcInv
  <2>9. PortInv'
    <3>1. {n} \in SUBSET {k \in Names : map[k] # None}
      BY <1>1, <1>5
    <3>2. aborting' = aborting \cup UNION {map[k].proxies : k \in {n}}
      BY <2>1
    <3> QED
      BY <1>0, <1>1, <1>2, <2>3, <2>5, <3>1, <3>2, PortsAborted
         DEF CoreInv, Binding, Published
  <2>10. GenerationInv'
    \* No task of the name is on the way: it would own the entry.
    <3>1. ASSUME NEW s \in Task, Tracked(s)
          PROVE  job[s].name # n /\ job[s].name \in Names
      <4>1. job[s].name \in Names /\ OwnsEntry(s) /\ rec = None
        BY <1>0, <3>1, LocalProxiesType
           DEF CoreInv, GenerationInv, Generations, Tracked, RecoveryInv, ScanInv
      <4>2. map[n].pid = t
        BY <1>0, <4>1 DEF MarkExited, WatchInv, HasEntry
      <4>3. ASSUME job[s].name = n
            PROVE  FALSE
        BY <1>1, <3>1, <4>1, <4>2, <4>3 DEF OwnsEntry, Tracked, Task
      <4> QED
        BY <4>1, <4>3
    <3> QED
      BY <1>0, <1>2, <2>5, <3>1
         DEF CoreInv, GenerationInv, Generations, OwnsEntry, Unfinished, Tracked
  <2>11. e # None
    BY <2>3, DaemonAssumption
  <2> QED
    BY <1>3, <1>5, <2>5, <2>6, <2>7, <2>8, <2>9, <2>10, <2>11 DEF CoreInv, TypeInv
<1> QED
  BY <1>4, <1>5

-----------------------------------------------------------------------------
(* What recovery relies on, under the steps of the daemon that serves. *)

LEMMA ServedMovesNoTask ==
  ASSUME TypeInv, Serve \/ \E k \in Names : Stop(k) \/ RmStopped(k),
         NEW t \in Task, pc[t] # "idle"
  PROVE  pc'[t] = pc[t]
<1>1. ASSUME NEW n, NEW m, SpawnReplica(n, m)
      PROVE  pc'[t] = pc[t]
  BY <1>1 DEF SpawnReplica, Fresh, TypeInv, TypeOK
<1> QED
  BY <1>1 DEF Serve, Run, StartRead, StartSpawn, StartRefused, StopAll, Stop,
              StopThese, RmStopped, Rm, taskVars

LEMMA DirNext ==
  ASSUME RecoveryInv, [Next]_vars
  PROVE  DirInv'
<1>0. RecoveryTypeOK /\ CoreInv /\ TypeInv /\ DirInv
  BY DEF RecoveryInv, CoreInv
<1> SUFFICES ASSUME NEW n \in Names, dir'[n] # None
             PROVE  /\ pc'[dir'[n].pid] # "idle"
                    /\ job'[dir'[n].pid].name = n
                    /\ proc'[dir'[n].pid] # "none"
  BY DEF DirInv
<1>1. CASE dir[n] # None /\ dir'[n].pid = dir[n].pid
  BY <1>0, <1>1, OnDisk, NextKeeps DEF DirInv
<1>2. ASSUME NEW t \in Task, WritePid(t), job[t].name = n, dir'[n].pid = t
      PROVE  pc'[t] # "idle" /\ job'[t].name = n /\ proc'[t] # "none"
  <2>1. pc[t] = "pidfile" /\ proc[t] # "none"
    BY <1>0, <1>2 DEF WritePid, Goto, CoreInv, ProcInv
  <2> QED
    BY <1>0, <1>2, <2>1, NextKeeps
<1> QED
  BY <1>0, <1>1, <1>2, PidFile

LEMMA ServesWatch ==
  ASSUME RecoveryInv, Serves
  PROVE  WatchInv'
<1>0. /\ CoreInv /\ TypeInv /\ GenerationInv /\ WatchInv /\ [Next]_vars
      /\ rec = None /\ rec' = rec /\ watch' = watch /\ missed' = missed
  BY ServesCore DEF RecoveryInv, CoreInv, ScanInv, Serves, recoveryVars
<1> SUFFICES ASSUME NEW t \in Task, watch[t] # "none"
             PROVE  /\ pc'[t] = "done"
                    /\ watch[t] = "record" => Lost(t)'
                    /\ watch[t] \in {"wait", "record"} => HasEntry(t)'
  BY <1>0 DEF WatchInv
<1>1. pc[t] = "done" /\ pc'[t] = "done" /\ job'[t] = job[t] /\ job[t].name \in Names
  BY <1>0, NextKeeps, LocalProxiesType DEF WatchInv
<1>2. watch[t] = "record" => Lost(t)'
  BY <1>0, <1>1, NextKeeps DEF WatchInv, Lost
<1>3. ASSUME watch[t] \in {"wait", "record"}
      PROVE  HasEntry(t)'
  <2>0. PICK n \in Names : n = job[t].name
    BY <1>1
  <2>1. Running(n) /\ map[n].pid = t
    BY <1>0, <1>3, <2>0 DEF WatchInv, HasEntry
  <2>2. ASSUME NEW s \in Task, TaskStep(s)
        PROVE  map'[n] = map[n]
    BY <1>0, <1>1, <2>1, <2>2, TaskKeepsEntry DEF Running, Unfinished
  <2>3. ASSUME Serve \/ \E k \in Names : Stop(k) \/ RmStopped(k)
        PROVE  Running(n)' /\ map'[n].pid = t
    BY <1>0, <2>1, <2>3, ServedKeepsEntry DEF Running
  <2>4. Running(n)' /\ map'[n].pid = t
    BY <2>1, <2>2, <2>3 DEF Serves, Running, Unfinished
  <2> QED
    BY <1>1, <2>0, <2>4 DEF HasEntry
<1> QED
  BY <1>1, <1>2, <1>3

\* From the pid file on, the task of a live process goes as far as to wait.
LEMMA TaskGoesOn ==
  ASSUME TypeInv, NEW t \in Task, TaskStep(t),
         pc[t] \in {"manifest", "publish", "wait"}, proc[t] = "alive"
  PROVE  pc'[t] \in {"publish", "wait"}
  BY DEF TaskStep, EnsureBaseImage, EnsureOverlay, CreateLog, BindPort, BindFails,
         MakeFifo, Launch, LaunchFails, WritePid, WriteManifest, Publish, Reap,
         RecordExit, Unregister, Goto, TypeInv, TypeOK

LEMMA ServesDisk ==
  ASSUME RecoveryInv, Serves
  PROVE  DiskInv'
<1>0. /\ RecoveryTypeOK /\ CoreInv /\ TypeInv /\ GenerationInv /\ ProcInv /\ DirInv
      /\ WatchInv /\ DiskInv /\ [Next]_vars
      /\ mode = "up" /\ rec = None /\ todo = {} /\ watch' = watch /\ missed' = missed
  BY ServesCore DEF RecoveryInv, CoreInv, ScanInv, Serves, recoveryVars
<1> SUFFICES ASSUME NEW n \in Names, dir'[n] # None, proc'[dir'[n].pid] = "alive"
             PROVE  Known(n)'
  BY DEF DiskInv
<1>1. ASSUME NEW t \in Task, WritePid(t), dir'[n].pid = t
      PROVE  Known(n)'
  BY <1>0, <1>1 DEF WritePid, Goto, Known, TypeInv, TypeOK
<1>2. CASE dir[n] # None /\ dir'[n].pid = dir[n].pid
  <2>0. PICK t \in Task : t = dir[n].pid
    BY <1>0, <1>2, OnDisk
  <2>1. pc[t] # "idle" /\ job[t].name = n /\ proc[t] # "none"
    BY <1>0, <1>2, <2>0 DEF DirInv
  <2>2. proc[t] = "alive"
    BY <1>0, <1>2, <2>0, <2>1, NextKeeps DEF ProcInv
  <2>3. Known(n)
    BY <1>0, <1>2, <2>0, <2>2 DEF DiskInv
  <2>4. dir'[n].pid = t
    BY <1>2, <2>0
  <2>5. \/ t \in missed
        \/ pc[t] \in {"manifest", "publish"}
        \/ Unfinished(n) /\ map[n].pid = t /\ (pc[t] = "wait" \/ watch[t] = "wait")
    BY <1>0, <2>0, <2>3 DEF Known
  <2>6. ASSUME NEW s \in Task, TaskStep(s), s # t
        PROVE  Known(n)'
    <3>1. /\ Tracked(s) /\ pc'[t] = pc[t]
          /\ job[s].name # n => map'[n] = map[n]
      BY <1>0, <2>1, <2>6, TaskLocal
    <3>2. CASE pc[t] \in {"manifest", "publish"}
      BY <2>4, <3>1, <3>2 DEF Known
    <3>3. CASE Unfinished(n) /\ map[n].pid = t /\ pc[t] = "wait"
      <4>1. job[s].name # n
        BY <1>0, <2>1, <2>6, <3>1, <3>3 DEF GenerationInv, Generations, Tracked
      <4> QED
        BY <2>4, <3>1, <3>3, <4>1 DEF Known, Unfinished
    <3>4. CASE Unfinished(n) /\ map[n].pid = t /\ watch[t] = "wait"
      <4>1. map'[n] = map[n]
        BY <1>0, <2>1, <2>6, <3>4, TaskKeepsEntry DEF Unfinished, WatchInv
      <4> QED
        BY <1>0, <2>4, <3>4, <4>1 DEF Known, Unfinished
    <3>5. CASE t \in missed
      BY <1>0, <2>4, <3>5 DEF Known
    <3> QED
      BY <2>5, <3>2, <3>3, <3>4, <3>5
  <2>7. CASE TaskStep(t) /\ t \notin missed
    <3>1. Tracked(t) /\ job' = job
      BY <1>0, <2>1, <2>7, TaskLocal
    <3>2. pc[t] \in {"manifest", "publish", "wait"}
      BY <1>0, <2>1, <2>5, <2>7, <3>1 DEF WatchInv, Tracked
    <3>3. pc'[t] \in {"publish", "wait"}
      BY <1>0, <2>2, <2>7, <3>2, TaskGoesOn
    <3>4. OwnsEntry(t)'
      BY <1>0, <2>1, <2>7, <3>1, <3>3, TaskOwns
         DEF GenerationInv, Generations, Tracked
    <3> QED
      BY <2>1, <2>4, <3>1, <3>3, <3>4 DEF Known, OwnsEntry, Unfinished
  <2>8. CASE Serve \/ \E k \in Names : Stop(k) \/ RmStopped(k)
    <3>1. pc'[t] = pc[t]
      BY <1>0, <2>1, <2>8, ServedMovesNoTask
    <3>2. Unfinished(n) => Unfinished(n)' /\ map'[n].pid = map[n].pid
      BY <1>0, <2>8, ServedKeepsEntry
    <3> QED
      BY <1>0, <2>4, <2>5, <3>1, <3>2 DEF Known
  <2>9. CASE t \in missed
    BY <1>0, <2>4, <2>9 DEF Known
  <2> QED
    BY <2>6, <2>7, <2>8, <2>9 DEF Serves
<1> QED
  BY <1>0, <1>1, <1>2, PidFile

LEMMA ServesStep == RecoveryInv /\ Serves => RecoveryInv'
<1> SUFFICES ASSUME RecoveryInv, Serves
             PROVE  RecoveryInv'
  OBVIOUS
<1>1. CoreInv' /\ [Next]_vars
  BY ServesCore
<1>2. RecoveryTypeOK'
  BY <1>1 DEF Serves, RecoveryInv, RecoveryTypeOK, CoreInv, TypeInv, recoveryVars
<1>3. ScanInv' /\ CandidateInv'
  BY DEF Serves, recoveryVars, RecoveryInv, ScanInv, CandidateInv
<1> QED
  BY <1>1, <1>2, <1>3, DirNext, ServesWatch, ServesDisk DEF RecoveryInv

\* A process that ends, or a proxy that is dropped, whatever the daemon is doing.
LEMMA EnvironmentStep ==
  RecoveryInv /\ Environment /\ UNCHANGED recoveryVars => RecoveryInv'
<1> SUFFICES ASSUME RecoveryInv, Environment, UNCHANGED recoveryVars
             PROVE  RecoveryInv'
  OBVIOUS
<1>1. CoreInv' /\ [Next]_vars
  BY ServesCore
<1>2. TypeInv /\ TypeOK
  BY DEF RecoveryInv, CoreInv, TypeInv
<1>3. /\ mode' = mode /\ crashes' = crashes /\ todo' = todo /\ rec' = rec
      /\ watch' = watch /\ map' = map /\ pc' = pc /\ job' = job /\ dir' = dir
      /\ missed' = missed
      /\ \A t \in Task : proc'[t] = "alive" => proc[t] = "alive"
      /\ \A t \in Task : proc[t] \in {"zombie", "reaped"} =>
           proc'[t] \in {"zombie", "reaped"}
  BY <1>2 DEF Environment, ProcessExits, ListenerDropped, taskVars, diskVars,
              recoveryVars, TypeOK, Alive
<1>4. RecoveryTypeOK'
  BY <1>1, <1>3 DEF RecoveryInv, RecoveryTypeOK, CoreInv, TypeInv
<1>5. ScanInv'
  BY <1>3 DEF RecoveryInv, ScanInv, Tracked
<1>6. CandidateInv'
  <2> SUFFICES ASSUME rec # None
               PROVE  /\ rec.watched => watch[rec.pid] = "wait" \/ Lost(rec.pid)'
                      /\ \A p \in rec.proxies :
                           listener'[p] = rec.pid /\ p \notin aborting'
    BY <1>3 DEF RecoveryInv, CandidateInv
  <2>1. /\ rec.pid \in Task /\ rec.proxies \subseteq Ports
        /\ rec.watched => watch[rec.pid] = "wait" \/ Lost(rec.pid)
        /\ \A p \in rec.proxies : listener[p] = rec.pid /\ p \notin aborting
    BY CandidateType DEF RecoveryInv, CandidateInv
  <2> QED
    BY <1>2, <1>3, <2>1
       DEF Lost, Environment, ProcessExits, ListenerDropped, netVars, TypeOK
<1>7. WatchInv'
  BY <1>3 DEF RecoveryInv, WatchInv, Lost, HasEntry, Running, Unfinished
<1>8. DiskInv'
  <2>1. \A n \in Names : dir[n] # None => dir[n].pid \in Task
    BY OnDisk DEF RecoveryInv
  <2> QED
    BY <1>3, <2>1 DEF RecoveryInv, DiskInv, Known, Unfinished
<1> QED
  BY <1>1, <1>4, <1>5, <1>6, <1>7, <1>8, DirNext DEF RecoveryInv

-----------------------------------------------------------------------------
(* What recovery relies on, under its own steps. *)

LEMMA CrashStep == RecoveryInv /\ Crash => RecoveryInv'
<1> SUFFICES ASSUME RecoveryInv, Crash
             PROVE  RecoveryInv'
  OBVIOUS
<1>0. RecoveryTypeOK /\ DirInv
  BY DEF RecoveryInv
<1>1. CoreInv' /\ RecoveryTypeOK' /\ \A t \in Task : pc'[t] \in {"idle", "done"}
  BY CrashCore
<1>2. ScanInv' /\ CandidateInv' /\ DiskInv'
  BY <1>1 DEF Crash, ScanInv, CandidateInv, DiskInv, Tracked
<1>3. DirInv'
  <2>1. \A n \in Names : dir[n] # None => dir[n].pid \in Task
    BY <1>0, OnDisk
  <2> QED
    BY <1>0, <2>1 DEF Crash, DirInv, diskVars
<1>4. WatchInv'
  BY DEF Crash, WatchInv
<1> QED
  BY <1>1, <1>2, <1>3, <1>4 DEF RecoveryInv

\* Steps that change neither the map nor the files nor a process.
LEMMA OtherStep ==
  ASSUME RecoveryInv,
         \/ Restart \/ Watch \/ Serving
         \/ \E n \in Names : RecoverRunning(n)
         \/ \E t \in Task : NoticeExit(t)
  PROVE  RecoveryInv'
<1>0. /\ RecoveryTypeOK /\ ScanInv /\ CandidateInv /\ DirInv /\ WatchInv /\ DiskInv
      /\ map' = map /\ pc' = pc /\ job' = job /\ proc' = proc /\ dir' = dir
      /\ listener' = listener /\ aborting' = aborting
  BY OtherCore DEF RecoveryInv, vars
<1>1. CoreInv' /\ RecoveryTypeOK'
  BY OtherCore
<1>2. DirInv'
  BY <1>0 DEF DirInv
<1>3. ASSUME Restart
      PROVE  ScanInv' /\ CandidateInv' /\ WatchInv' /\ DiskInv'
  <2>1. rec = None /\ rec' = None /\ watch' = watch /\ missed' = missed
    BY <1>0, <1>3 DEF Restart, ScanInv
  <2>2. ScanInv'
    BY <1>0, <1>3 DEF Restart, ScanInv, Tracked
  <2>3. CandidateInv' /\ WatchInv' /\ DiskInv'
    BY <1>0, <1>3, <2>1 DEF Restart, CandidateInv, WatchInv, Lost, HasEntry, Running,
                            Unfinished, DiskInv, Known
  <2> QED
    BY <2>2, <2>3
<1>4. ASSUME Serving
      PROVE  ScanInv' /\ CandidateInv' /\ WatchInv' /\ DiskInv'
  BY <1>0, <1>4 DEF Serving, ScanInv, CandidateInv, WatchInv, Lost, HasEntry,
                    Running, Unfinished, DiskInv, Known
<1>5. ASSUME NEW n \in Names, RecoverRunning(n)
      PROVE  ScanInv' /\ CandidateInv' /\ WatchInv' /\ DiskInv'
  <2>1. /\ rec = None /\ mode = "scan" /\ mode' = mode /\ n \in todo
        /\ todo' = todo \ {n} /\ watch' = watch /\ missed' = missed
        /\ rec' = [name |-> n, pid |-> dir[n].pid, manifest |-> dir[n].manifest,
                   tried |-> 0, proxies |-> {}, watched |-> FALSE]
    BY <1>5 DEF RecoverRunning, Visit
  <2>2. /\ rec'.name = n /\ rec'.pid = dir[n].pid /\ rec'.proxies = {}
        /\ rec'.watched = FALSE /\ rec' \in Candidate \cup {None}
    BY <1>1, <2>1 DEF RecoveryTypeOK
  <2>3. rec' # None
    <3>1. dir[n].pid \in Task /\ dir[n].manifest \in Manifests
      BY <1>0, <1>5, <2>1 DEF RecoverRunning, ScanInv, RecoveryTypeOK, TypeOK, Directory
    <3>2. rec' \in Candidate
      BY <2>1, <3>1 DEF Candidate
    <3> QED
      BY <3>2, RecoveryAssumption
  <2>4. ScanInv' /\ CandidateInv'
    BY <1>0, <2>1, <2>2 DEF ScanInv, CandidateInv, Tracked
  <2>5. WatchInv' /\ DiskInv'
    BY <1>0, <2>1, <2>2, <2>3 DEF WatchInv, Lost, HasEntry, Running, Unfinished,
                                  DiskInv, Known
  <2> QED
    BY <2>4, <2>5
<1>6. ASSUME Watch
      PROVE  ScanInv' /\ CandidateInv' /\ WatchInv' /\ DiskInv'
  <2>1. /\ rec \in Candidate /\ rec.pid \in Task /\ pc[rec.pid] = "done"
        /\ mode = "scan"
    BY <1>0, <1>6, CandidateType, ScanIsQuiet
       DEF Watch, RecoveryTypeOK, ScanInv, CandidateInv
  <2>2. /\ rec' \in Candidate /\ rec' # None /\ rec'.name = rec.name
        /\ rec'.pid = rec.pid /\ rec'.proxies = rec.proxies /\ rec'.watched = TRUE
    BY <1>6, <2>1, RecoveryAssumption DEF Watch, Candidate
  <2>3. /\ \/ watch' = [watch EXCEPT ![rec.pid] = "wait"]
           \/ watch' = [watch EXCEPT ![rec.pid] = "record"] /\ Lost(rec.pid)'
        /\ missed \subseteq missed'
        /\ mode' = mode /\ todo' = todo /\ DOMAIN watch = Task
    BY <1>0, <1>6 DEF Watch, Miss, Lost, RecoveryTypeOK
  <2>4. ScanInv'
    BY <1>0, <2>1, <2>3 DEF ScanInv, Tracked
  <2>5. CandidateInv'
    BY <1>0, <1>6, <2>1, <2>2, <2>3 DEF CandidateInv, Watch
  <2>6. WatchInv'
    <3> SUFFICES ASSUME NEW t \in Task, t # rec.pid
                 PROVE  /\ watch[t] = "record" => Lost(t)'
                        /\ watch[t] \in {"wait", "record"} => HasEntry(t)'
      BY <1>0, <2>1, <2>2, <2>3 DEF WatchInv, HasEntry
    <3> QED
      BY <1>0, <2>3 DEF WatchInv, Lost, HasEntry, Running, Unfinished
  <2>7. DiskInv'
    <3>1. \A n \in Names : dir[n] # None => dir[n].pid \in Task
      BY <1>0, OnDisk
    <3> QED
      BY <1>0, <1>6, <2>1, <2>2, <2>3, <3>1 DEF DiskInv, Known, Lost, Watch, Unfinished
  <2> QED
    BY <2>4, <2>5, <2>6, <2>7
<1>7. ASSUME NEW t \in Task, NoticeExit(t)
      PROVE  ScanInv' /\ CandidateInv' /\ WatchInv' /\ DiskInv'
  <2>1. /\ watch[t] = "wait" /\ proc[t] \in {"zombie", "reaped"}
        /\ watch' = [watch EXCEPT ![t] = "record"] /\ DOMAIN watch = Task
        /\ mode' = mode /\ todo' = todo /\ rec' = rec /\ missed' = missed
    BY <1>0, <1>7 DEF NoticeExit, RecoveryTypeOK
  <2>2. ScanInv'
    BY <1>0, <2>1 DEF ScanInv, Tracked
  <2>3. CandidateInv'
    <3>1. rec # None => rec.pid \in Task
      BY <1>0, CandidateType
    <3> QED
      BY <1>0, <2>1, <3>1 DEF CandidateInv, Lost
  <2>4. WatchInv'
    BY <1>0, <2>1 DEF WatchInv, Lost, HasEntry, Running, Unfinished
  <2>5. DiskInv'
    <3>1. \A n \in Names : dir[n] # None => dir[n].pid \in Task
      BY <1>0, OnDisk
    <3> QED
      BY <1>0, <2>1, <3>1 DEF DiskInv, Known, Unfinished
  <2> QED
    BY <2>2, <2>3, <2>4, <2>5
<1> QED
  BY <1>0, <1>1, <1>2, <1>3, <1>4, <1>5, <1>6, <1>7 DEF RecoveryInv

\* A process that is reaped, killed or forgotten.
LEMMA ForgetStep ==
  ASSUME RecoveryInv,
         \/ \E t \in Task : InitReaps(t)
         \/ \E n \in Names :
              KillIncomplete(n) \/ ForgetStopped(n) \/ ForgetUnreadable(n)
  PROVE  RecoveryInv'
<1>0. /\ RecoveryTypeOK /\ TypeOK /\ ScanInv /\ CandidateInv /\ DirInv /\ WatchInv
      /\ DiskInv /\ \A n \in Names : dir[n] # None => dir[n].pid \in Task
  BY OnDisk DEF RecoveryInv, CoreInv, TypeInv
<1>1. CoreInv' /\ RecoveryTypeOK'
  BY ForgetCore
<1>2. /\ map' = map /\ pc' = pc /\ job' = job /\ rec' = rec /\ watch' = watch
      /\ mode' = mode /\ listener' = listener /\ aborting' = aborting
  BY DEF InitReaps, KillIncomplete, ForgetStopped, ForgetUnreadable, Visit,
         taskVars, netVars, recoveryVars
<1>3. /\ \A t \in Task : proc[t] # "none" => proc'[t] # "none"
      /\ \A t \in Task : proc'[t] = "alive" => proc[t] = "alive"
      /\ \A t \in Task : proc[t] \in {"zombie", "reaped"} =>
           proc'[t] \in {"zombie", "reaped"}
      /\ missed \subseteq missed'
  BY <1>0 DEF InitReaps, KillIncomplete, ForgetStopped, ForgetUnreadable, Miss,
              SigKill, TypeOK, recoveryVars
\* The files of the name that was looked at are gone, or its process is lost, and
\* no others are touched.
<1>4. \/ todo' = todo /\ dir' = dir
      \/ \E n \in todo : /\ rec = None /\ todo' = todo \ {n}
                         /\ proc'[dir[n].pid] # "alive" \/ dir[n].pid \in missed'
                         /\ dir' = dir \/ dir' = [dir EXCEPT ![n] = None]
  <2>1. ASSUME NEW n \in Names, KillIncomplete(n)
        PROVE  proc'[dir[n].pid] # "alive"
    BY <1>0, <2>1 DEF KillIncomplete, Visit, SigKill, ScanInv
  <2>2. ASSUME NEW n \in Names, ForgetStopped(n) \/ ForgetUnreadable(n)
        PROVE  proc'[dir[n].pid] # "alive" \/ dir[n].pid \in missed'
    BY <2>2 DEF ForgetStopped, ForgetUnreadable, Miss
  <2> QED
    BY <2>1, <2>2
       DEF InitReaps, KillIncomplete, ForgetStopped, ForgetUnreadable, Visit,
           RemoveDirectory, recoveryVars, diskVars
<1>5. /\ \A n \in Names : dir'[n] # None => dir'[n] = dir[n]
      /\ \A n \in todo' : n \in todo /\ dir'[n] = dir[n]
      /\ \A n \in Names : dir'[n] # None /\ n \in todo =>
           \/ n \in todo'
           \/ proc'[dir[n].pid] # "alive" \/ dir[n].pid \in missed'
      /\ rec # None => dir' = dir /\ todo' = todo
  BY <1>0, <1>4 DEF TypeOK, RecoveryTypeOK
<1>6. ScanInv'
  BY <1>0, <1>2, <1>5 DEF ScanInv, Tracked
<1>7. CandidateInv'
  <2>1. rec # None => rec.pid \in Task
    BY <1>0, CandidateType
  <2> QED
    BY <1>0, <1>2, <1>3, <1>5, <2>1 DEF CandidateInv, Lost
<1>8. DirInv'
  BY <1>0, <1>2, <1>3, <1>5 DEF DirInv
<1>9. WatchInv'
  BY <1>0, <1>2, <1>3 DEF WatchInv, Lost, HasEntry, Running, Unfinished
<1>10. DiskInv'
  BY <1>0, <1>2, <1>3, <1>5 DEF DiskInv, Known, Unfinished
<1> QED
  BY <1>1, <1>6, <1>7, <1>8, <1>9, <1>10 DEF RecoveryInv

LEMMA RegisterStep ==
  ASSUME RecoveryInv, NEW n \in Names, RegisterStopped(n)
  PROVE  RecoveryInv'
<1>0. /\ RecoveryTypeOK /\ TypeOK /\ ScanInv /\ CandidateInv /\ DirInv /\ WatchInv
      /\ DiskInv
  BY DEF RecoveryInv, CoreInv, TypeInv
<1>1. CoreInv' /\ RecoveryTypeOK'
  BY RegisterCore
<1>2. /\ pc' = pc /\ job' = job /\ proc' = proc /\ dir' = dir /\ rec' = rec
      /\ watch' = watch /\ mode' = mode /\ listener' = listener
      /\ rec = None /\ n \in todo /\ todo' = todo \ {n} /\ mode = "scan"
      /\ map[n] = None /\ Lost(dir[n].pid)' /\ missed \subseteq missed'
      /\ \A k \in Names : k # n => map'[k] = map[k]
  BY <1>0 DEF RegisterStopped, Visit, Miss, Lost, taskVars, netVars, ScanInv, TypeOK
<1>3. ScanInv' /\ CandidateInv' /\ DirInv'
  BY <1>0, <1>2 DEF ScanInv, CandidateInv, DirInv, RecoveryTypeOK, Tracked
<1>4. WatchInv'
  <2>1. ASSUME NEW t \in Task, HasEntry(t), watch[t] # "none"
        PROVE  HasEntry(t)'
    <3>1. job[t].name # n /\ job[t].name \in Names
      BY <1>0, <1>2, <2>1, LocalProxiesType
         DEF HasEntry, Running, Unfinished, WatchInv, RecoveryInv, CoreInv
    <3> QED
      BY <1>2, <2>1, <3>1 DEF HasEntry, Running, Unfinished
  <2> QED
    BY <1>0, <1>2, <2>1 DEF WatchInv, Lost
<1>5. DiskInv'
  BY <1>0, <1>2 DEF DiskInv, Known, Lost, Unfinished
<1> QED
  BY <1>1, <1>3, <1>4, <1>5 DEF RecoveryInv

LEMMA RebindStep == RecoveryInv /\ Rebind => RecoveryInv'
<1> SUFFICES ASSUME RecoveryInv, Rebind
             PROVE  RecoveryInv'
  OBVIOUS
<1>0. /\ RecoveryTypeOK /\ ScanInv /\ CandidateInv /\ DirInv /\ WatchInv /\ DiskInv
  BY DEF RecoveryInv
<1>1. CoreInv' /\ RecoveryTypeOK' /\ CandidateInv' /\ rec' \in Candidate
  BY RebindCore
<1>2. /\ map' = map /\ pc' = pc /\ job' = job /\ proc' = proc /\ dir' = dir
      /\ mode' = mode /\ todo' = todo /\ watch' = watch /\ missed' = missed
  BY DEF Rebind, taskVars, diskVars
<1>3. /\ rec # None /\ rec' # None /\ rec'.name = rec.name /\ rec'.pid = rec.pid
      /\ rec'.watched = rec.watched
  <2>1. rec \in Candidate
    BY <1>0 DEF Rebind, RecoveryTypeOK
  <2>2. \/ rec' = [rec EXCEPT !.tried = @ + 1]
        \/ \E p : rec' = [rec EXCEPT !.tried = @ + 1, !.proxies = @ \cup {p}]
    BY DEF Rebind
  <2>3. /\ rec'.name = rec.name /\ rec'.pid = rec.pid /\ rec'.watched = rec.watched
    BY <2>1, <2>2 DEF Candidate
  <2> QED
    BY <1>1, <2>3, RecoveryAssumption DEF Rebind
<1>4. ScanInv' /\ DirInv'
  BY <1>0, <1>2, <1>3 DEF ScanInv, DirInv, Tracked
<1>5. WatchInv' /\ DiskInv'
  BY <1>0, <1>2, <1>3 DEF WatchInv, Lost, HasEntry, Running, Unfinished, DiskInv, Known
<1> QED
  BY <1>1, <1>4, <1>5 DEF RecoveryInv

LEMMA InsertStep == RecoveryInv /\ Insert => RecoveryInv'
<1> SUFFICES ASSUME RecoveryInv, Insert
             PROVE  RecoveryInv'
  OBVIOUS
<1>0. /\ RecoveryTypeOK /\ TypeOK /\ ScanInv /\ CandidateInv /\ DirInv /\ WatchInv
      /\ DiskInv
  BY DEF RecoveryInv, CoreInv, TypeInv
<1>1. CoreInv' /\ RecoveryTypeOK'
  BY InsertCore
<1>2. PICK n \in Names : n = rec.name
  BY <1>0, CandidateType DEF Insert
<1>3. /\ rec # None /\ rec.watched /\ rec.pid \in Task /\ job[rec.pid].name = n
      /\ map[n] = None /\ n \notin todo /\ mode = "scan" /\ dir[n].pid = rec.pid
      /\ watch[rec.pid] = "wait" \/ Lost(rec.pid)
  BY <1>0, <1>2, CandidateType DEF Insert, CandidateInv, ScanInv
<1>4. /\ pc' = pc /\ job' = job /\ proc' = proc /\ dir' = dir /\ todo' = todo
      /\ watch' = watch /\ mode' = mode /\ rec' = None /\ missed' = missed
      /\ \A k \in Names : k # n => map'[k] = map[k]
  BY <1>2 DEF Insert, taskVars, diskVars
<1>5. map'[n].pid = rec.pid /\ Running(n)'
  <2> DEFINE e == [pid |-> rec.pid, building |-> FALSE, exit |-> FALSE,
                   proxies |-> rec.proxies, manifest |-> rec.manifest]
  <2>1. map'[n] = e
    BY <1>0, <1>2 DEF Insert, TypeOK
  <2>2. e \in Entry
    BY <1>0, <1>3, CandidateType, DaemonAssumption DEF Entry, Pid, Task
  <2>3. e # None
    BY <2>2, DaemonAssumption
  <2> QED
    BY <2>1, <2>3 DEF Running, Unfinished
<1>6. ScanInv' /\ CandidateInv' /\ DirInv'
  BY <1>0, <1>3, <1>4 DEF ScanInv, CandidateInv, DirInv, RecoveryTypeOK, Tracked
<1>7. WatchInv'
  <2>1. ASSUME NEW t \in Task, HasEntry(t), watch[t] # "none"
        PROVE  HasEntry(t)'
    <3>1. CASE t = rec.pid
      BY <1>3, <1>4, <1>5, <3>1 DEF HasEntry
    <3>2. CASE t # rec.pid
      <4>1. job[t].name # n /\ job[t].name \in Names
        BY <1>0, <1>3, <2>1, <3>2, LocalProxiesType
           DEF HasEntry, Running, Unfinished, WatchInv, RecoveryInv, CoreInv
      <4> QED
        BY <1>4, <2>1, <3>2, <4>1 DEF HasEntry, Running, Unfinished
    <3> QED
      BY <3>1, <3>2
  <2> QED
    BY <1>0, <1>4, <2>1 DEF WatchInv, Lost
<1>8. DiskInv'
  BY <1>0, <1>2, <1>3, <1>4, <1>5 DEF DiskInv, Known, Lost, Running, Unfinished
<1> QED
  BY <1>1, <1>6, <1>7, <1>8 DEF RecoveryInv

LEMMA MarkStep ==
  ASSUME RecoveryInv, NEW t \in Task, MarkExited(t)
  PROVE  RecoveryInv'
<1>0. /\ RecoveryTypeOK /\ ScanInv /\ CandidateInv /\ DirInv /\ WatchInv /\ DiskInv
      /\ DOMAIN watch = Task
      /\ \A n \in Names : dir[n] # None => dir[n].pid \in Task
      /\ \A s \in Task : pc[s] # "idle" => job[s].name \in Names
  BY OnDisk, LocalProxiesType DEF RecoveryInv, RecoveryTypeOK, CoreInv
<1>1. /\ CoreInv' /\ RecoveryTypeOK'
      /\ \A n \in Names : n # job[t].name => map'[n] = map[n]
      /\ \A n \in Names : map'[n] = None <=> map[n] = None
  BY MarkCore
<1>2. /\ pc' = pc /\ job' = job /\ proc' = proc /\ dir' = dir /\ todo' = todo
      /\ mode' = mode /\ rec' = rec /\ listener' = listener
      /\ watch' = [watch EXCEPT ![t] = "done"] /\ missed' = missed
  BY DEF MarkExited, taskVars
<1>3. watch[t] = "record" /\ Lost(t) /\ HasEntry(t)
  BY <1>0 DEF MarkExited, WatchInv
\* The entry it changes, if any, shows its own pid.
<1>4. ASSUME NEW n \in Names, map'[n] # map[n]
      PROVE  n = job[t].name /\ map[n].pid = t /\ map[n] # None
  <2>1. n = job[t].name /\ map[n] # None
    BY <1>1, <1>4 DEF MarkExited
  <2>2. ~(rec # None /\ rec.pid = t)
    BY <1>0, <2>1, CandidateType DEF CandidateInv
  <2> QED
    BY <1>3, <2>1, <2>2 DEF HasEntry
<1>5. ScanInv' /\ DirInv'
  BY <1>0, <1>1, <1>2 DEF ScanInv, DirInv, RecoveryTypeOK, Tracked
<1>6. CandidateInv'
  <2> SUFFICES ASSUME rec # None
               PROVE  /\ map'[rec.name] = None
                      /\ rec.watched => watch'[rec.pid] = "wait" \/ Lost(rec.pid)
                      /\ \A p \in rec.proxies : p \notin aborting'
    BY <1>0, <1>2 DEF CandidateInv, Lost
  <2>1. rec.name \in Names /\ rec.pid \in Task /\ job[rec.pid].name = rec.name
    BY <1>0, CandidateType
  <2>2. map'[rec.name] = None
    BY <1>0, <1>1, <2>1 DEF CandidateInv
  <2>3. rec.watched => watch'[rec.pid] = "wait" \/ Lost(rec.pid)
    BY <1>0, <1>2, <1>3, <2>1 DEF CandidateInv
  <2>4. ASSUME NEW p \in rec.proxies
        PROVE  p \notin aborting'
    <3> DEFINE n == job[t].name
    <3>1. listener[p] = rec.pid /\ p \notin aborting
      BY <1>0 DEF CandidateInv
    <3>2. CASE map[n] = None
      BY <3>1, <3>2 DEF MarkExited
    <3>3. CASE map[n] # None
      <4>1. n # rec.name
        BY <1>0, <3>3 DEF CandidateInv
      <4>2. map[n].pid = t /\ n \in Names
        BY <1>0, <1>3, <2>1, <4>1 DEF HasEntry, WatchInv
      <4>3. p \notin map[n].proxies
        BY <2>1, <3>1, <3>3, <4>1, <4>2 DEF RecoveryInv, CoreInv, PortInv, EntryInv
      <4> QED
        BY <3>1, <3>3, <4>3 DEF MarkExited, Abort
    <3> QED
      BY <3>2, <3>3
  <2> QED
    BY <2>2, <2>3, <2>4
<1>7. WatchInv'
  <2>1. ASSUME NEW s \in Task, s # t, watch[s] # "none", HasEntry(s)
        PROVE  HasEntry(s)'
    <3>1. CASE rec # None /\ rec.watched /\ rec.pid = s
      BY <1>2, <3>1 DEF HasEntry
    <3>2. CASE Running(job[s].name) /\ map[job[s].name].pid = s
      <4>1. map'[job[s].name] = map[job[s].name]
        BY <1>0, <1>4, <2>1, <3>2 DEF WatchInv
      <4> QED
        BY <1>2, <3>2, <4>1 DEF HasEntry, Running, Unfinished
    <3> QED
      BY <2>1, <3>1, <3>2 DEF HasEntry
  <2>2. watch'[t] = "done" /\ \A s \in Task : s # t => watch'[s] = watch[s]
    BY <1>0, <1>2
  <2>3. ASSUME NEW s \in Task
        PROVE  /\ watch'[s] # "none" => pc'[s] = "done"
               /\ watch'[s] = "record" => Lost(s)'
               /\ watch'[s] \in {"wait", "record"} => HasEntry(s)'
    <3>1. CASE s = t
      BY <1>0, <1>2, <1>3, <2>2, <3>1 DEF WatchInv, Lost
    <3>2. CASE s # t
      BY <1>0, <1>2, <2>1, <2>2, <3>2 DEF WatchInv, Lost
    <3> QED
      BY <3>1, <3>2
  <2> QED
    BY <2>3 DEF WatchInv
<1>8. DiskInv'
  <2> SUFFICES ASSUME mode # "down", NEW n \in Names, dir[n] # None,
                      proc[dir[n].pid] = "alive"
               PROVE  Known(n)'
    BY <1>2 DEF DiskInv
  <2>0. Known(n) /\ dir[n].pid \in Task
    BY <1>0 DEF DiskInv
  <2>1. dir[n].pid # t \/ dir[n].pid \in missed
    BY <1>3 DEF Lost
  <2> SUFFICES ASSUME dir[n].pid \notin missed
               PROVE  Known(n)'
    BY <1>2 DEF Known
  <2>2. map[n] # None /\ map[n].pid = dir[n].pid => map'[n] = map[n]
    BY <1>4, <2>1
  <2>3. watch'[dir[n].pid] = watch[dir[n].pid]
    BY <1>0, <1>2, <2>0, <2>1
  <2> QED
    BY <1>2, <2>0, <2>2, <2>3 DEF Known, Unfinished
<1> QED
  BY <1>1, <1>5, <1>6, <1>7, <1>8 DEF RecoveryInv

LEMMA RecoveryInvStep == RecoveryInv /\ [RecoveryNext]_allVars => RecoveryInv'
<1> SUFFICES ASSUME RecoveryInv, [RecoveryNext]_allVars
             PROVE  RecoveryInv'
  OBVIOUS
<1>1. CASE UNCHANGED allVars
  <2>1. UNCHANGED vars /\ UNCHANGED recoveryVars
    BY <1>1 DEF allVars
  <2>2. CoreInv'
    BY <2>1, CoreKept DEF RecoveryInv
  <2>3. RecoveryTypeOK'
    BY <2>1, <2>2 DEF RecoveryInv, RecoveryTypeOK, CoreInv, TypeInv, recoveryVars
  <2> QED
    BY <2>1, <2>2, <2>3
       DEF vars, recoveryVars, RecoveryInv, ScanInv, CandidateInv, DirInv, WatchInv,
           Lost, DiskInv, HasEntry, Known, Running, Unfinished, Tracked
<1> QED
  BY <1>1, ServesStep, EnvironmentStep, CrashStep, OtherStep, ForgetStep,
     RegisterStep, RebindStep, InsertStep, MarkStep
     DEF RecoveryNext, Recover, WatchStep

LEMMA RecoveryInvariant == RecoverySpec => []RecoveryInv
  BY RecoveryInvInit, RecoveryInvStep, PTL DEF RecoverySpec

\* Type correctness, crashes and recovery included.
THEOREM RecoveryTypeCorrect == RecoverySpec => []RecoveryTypeOK
<1>1. RecoveryInv => RecoveryTypeOK
  BY DEF RecoveryInv
<1> QED
  BY <1>1, RecoveryInvariant, PTL

\* Whenever requests are served, every live process whose pid is on disk can be
\* stopped, and some task waits for its end, wherever the daemon crashed: but for
\* those the last recovery could not read, open or watch.
THEOREM RecordedIsFoundAgain == RecoverySpec => []RecordedIsTracked
<1>1. RecoveryInv => RecordedIsTracked
  <2> SUFFICES ASSUME RecoveryInv, mode = "up", NEW n \in Names, dir[n] # None,
                      proc[dir[n].pid] = "alive"
               PROVE  \/ dir[n].pid \in missed
                      \/ pc[dir[n].pid] \in {"manifest", "publish"}
                      \/ /\ map[n] # None /\ ~map[n].exit /\ map[n].pid = dir[n].pid
                         /\ pc[dir[n].pid] = "wait" \/ watch[dir[n].pid] = "wait"
    BY DEF RecordedIsTracked
  <2>1. Known(n) /\ todo = {} /\ rec = None
    BY DEF RecoveryInv, DiskInv, ScanInv
  <2> QED
    BY <2>1 DEF Known, Unfinished
<1> QED
  BY <1>1, RecoveryInvariant, PTL

\* If the files can be read, and the kernel and the runtime refuse no pidfd, no
\* live process escapes a recovery.
THEOREM NothingIsMissed ==
  ASSUME {"read", "pidfd", "asyncfd"} \cap Faults = {}
  PROVE  RecoverySpec => [](missed = {})
<1>1. RecoveryInit => missed = {}
  BY DEF RecoveryInit
<1>2. missed = {} /\ [RecoveryNext]_allVars => (missed = {})'
  <2> SUFFICES ASSUME missed = {}, [RecoveryNext]_allVars PROVE missed' = {}
    OBVIOUS
  <2>1. CASE Recover
    BY <2>1
       DEF Recover, ForgetUnreadable, KillIncomplete, RecoverRunning, RegisterStopped,
           ForgetStopped, NoProcess, NoManifest, HasProcess, Rebind, Watch, Insert,
           Serving, Miss, MayFail
  <2> QED
    BY <2>1
       DEF RecoveryNext, Serves, Crash, Restart, InitReaps, WatchStep, NoticeExit,
           MarkExited, allVars, recoveryVars
<1> QED
  BY <1>1, <1>2, PTL DEF RecoverySpec

\* An entry's handles are those of proxies that listen for its own container,
\* whether the ports were bound by its task or again by recovery.
THEOREM RecoveredHandlesAreOwn == RecoverySpec => []RecoveredHandlesListen
<1>1. RecoveryInv => RecoveredHandlesListen
  BY DEF RecoveryInv, CoreInv, PortInv, EntryInv, RecoveredHandlesListen
<1> QED
  BY <1>1, RecoveryInvariant, PTL
=============================================================================
