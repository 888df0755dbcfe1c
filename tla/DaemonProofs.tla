---------------------------- MODULE DaemonProofs ----------------------------
(***************************************************************************)
(* Proofs about Daemon, for any names, ports, manifests, clients, failures *)
(* and number of spawns.                                                   *)
(*                                                                         *)
(* For all clients: type correctness, and that the pid a Stop kills by is  *)
(* one the kernel still holds for the container.  For clients that use Rm  *)
(* on stopped containers: that a name never has two launchers, that every  *)
(* process is one Stop can reach, and that the daemon implements the       *)
(* abstract life cycle of a name (Lifecycle).                              *)
(***************************************************************************)
EXTENDS Daemon, TLAPS

\* What a task knows: its job from the moment it is started, and never more
\* bound ports than its manifest lists.
JobInv ==
  \A t \in Task :
    /\ pc[t] = "idle" => bound[t] = 0 /\ proc[t] = "none"
    /\ pc[t] # "idle" => job[t] \in Job /\ bound[t] <= Len(job[t].manifest)

TypeInv == TypeOK /\ JobInv

LEMMA TypeInit == Init => TypeInv
  BY DaemonAssumption
     DEF Init, TypeInv, TypeOK, JobInv, Pid, Task, PC

\* The entry a Run or a Start puts into the map, and a task's handles.
LEMMA PlaceholderType ==
  ASSUME NEW m \in Manifests
  PROVE  Placeholder(m) \in Entry
  BY DaemonAssumption DEF Placeholder, Entry, Pid

LEMMA LocalProxiesType ==
  ASSUME TypeInv, NEW t \in Task, pc[t] # "idle"
  PROVE  /\ job[t].name \in Names
         /\ job[t].manifest \in Manifests
         /\ job[t].manifest \in Seq(Ports)
         /\ LocalProxies(t) \subseteq Ports
  BY DaemonAssumption DEF TypeInv, TypeOK, JobInv, Job, LocalProxies

\* What Stop, RecordExit and Publish make of an entry.
LEMMA EntryDrained ==
  ASSUME NEW e \in Entry
  PROVE  /\ [e EXCEPT !.proxies = {}] \in Entry
         /\ [e EXCEPT !.proxies = {}, !.exit = TRUE] \in Entry
  BY DEF Entry

LEMMA EntryPublished ==
  ASSUME NEW e \in Entry, NEW q \in Pid, NEW h \in SUBSET Ports
  PROVE  [e EXCEPT !.pid = q, !.building = FALSE, !.proxies = h] \in Entry
  BY DEF Entry

LEMMA SpawnType ==
  ASSUME TypeInv, NEW n \in Names, NEW m \in Manifests,
         SpawnReplica(n, m), start' \in [Clients -> Job \cup {None}]
  PROVE  TypeInv'
<1>1. PICK t \in Task : /\ Fresh(t)
                        /\ pc' = [pc EXCEPT ![t] = "base"]
                        /\ job' = [job EXCEPT ![t] = [name |-> n, manifest |-> m]]
  BY DEF SpawnReplica
<1>2. [name |-> n, manifest |-> m] \in Job /\ Len(m) \in Nat
  BY DaemonAssumption DEF Job
<1>3. TypeOK'
  BY <1>1, <1>2, PlaceholderType
     DEF SpawnReplica, TypeInv, TypeOK, PC, netVars, diskVars
<1>4. JobInv'
  BY <1>1, <1>2, DaemonAssumption
     DEF SpawnReplica, TypeInv, TypeOK, JobInv, Fresh, Job, PC
<1> QED
  BY <1>3, <1>4 DEF TypeInv

\* Requests keep the types.
LEMMA RequestType ==
  ASSUME TypeInv, Serve \/ \E n \in Names : Stop(n) \/ Rm(n)
  PROVE  TypeInv'
<1>1. ASSUME NEW n \in Names, NEW m \in Manifests, Run(n, m)
      PROVE  TypeInv'
  BY <1>1, SpawnType DEF Run, TypeInv, TypeOK
<1>2. ASSUME NEW c \in Clients, NEW n \in Names, StartRead(c, n)
      PROVE  TypeInv'
  BY <1>2 DEF StartRead, TypeInv, TypeOK, JobInv, Job, Entry, taskVars,
              netVars, diskVars
<1>3. ASSUME NEW c \in Clients, StartSpawn(c)
      PROVE  TypeInv'
  <2>1. start[c].name \in Names /\ start[c].manifest \in Manifests
    BY <1>3 DEF StartSpawn, TypeInv, TypeOK, Job
  <2>2. start' \in [Clients -> Job \cup {None}]
    BY <1>3 DEF StartSpawn, TypeInv, TypeOK
  <2> QED
    BY <1>3, <2>1, <2>2, SpawnType DEF StartSpawn
<1>4. ASSUME NEW c \in Clients, StartRefused(c)
      PROVE  TypeInv'
  BY <1>4 DEF StartRefused, TypeInv, TypeOK, JobInv, taskVars, netVars, diskVars
<1>5. ASSUME NEW S \in SUBSET {n \in Names : map[n] # None}, StopThese(S)
      PROVE  TypeInv'
  <2>1. map' \in [Names -> Entry \cup {None}]
    <3>1. ASSUME NEW n \in S
          PROVE  [map[n] EXCEPT !.proxies = {}] \in Entry
      BY EntryDrained DEF TypeInv, TypeOK
    <3> QED
      BY <1>5, <3>1 DEF StopThese, TypeInv, TypeOK
  <2>2. aborting' \subseteq Ports
    BY <1>5 DEF StopThese, Abort, TypeInv, TypeOK, Entry
  <2>3. proc' \in [Task -> {"none", "alive", "killed", "zombie", "reaped"}]
    BY <1>5 DEF StopThese, SigKill, TypeInv, TypeOK
  <2>4. \A t \in Task : proc[t] = "none" => proc'[t] = "none"
    BY <1>5 DEF StopThese, SigKill
  <2> QED
    BY <1>5, <2>1, <2>2, <2>3, <2>4
       DEF StopThese, TypeInv, TypeOK, JobInv, taskVars, diskVars
<1>6. ASSUME NEW n \in Names, Rm(n)
      PROVE  TypeInv'
  BY <1>6 DEF Rm, TypeInv, TypeOK, JobInv, taskVars, netVars
<1>7. ASSUME NEW n \in Names, Stop(n)
      PROVE  TypeInv'
  BY <1>5, <1>7 DEF Stop
<1>8. CASE StopAll
  BY <1>5, <1>8 DEF StopAll
<1> QED
  BY <1>1, <1>2, <1>3, <1>4, <1>6, <1>7, <1>8 DEF Serve

\* Steps of a background task keep the types.
LEMMA TaskType ==
  ASSUME TypeInv, NEW t \in Task, TaskStep(t)
  PROVE  TypeInv'
<1> USE DEF TypeInv, TypeOK, JobInv, PC, Goto
<1>1. CASE EnsureBaseImage(t) \/ EnsureOverlay(t) \/ CreateLog(t)
  BY <1>1 DEF EnsureBaseImage, EnsureOverlay, CreateLog, netVars, diskVars
<1>2. CASE BindPort(t)
  <2>0. job[t].manifest \in Seq(Ports) /\ bound[t] \in Nat
    BY <1>2, LocalProxiesType DEF BindPort
  <2>1. /\ NextPort(t) \in Ports
        /\ Len(job[t].manifest) \in Nat
    BY <1>2, <2>0 DEF BindPort, MorePorts, NextPort
  <2>2. t \in Pid
    BY DaemonAssumption DEF Task, Pid
  <2>3. bound[t] + 1 <= Len(job[t].manifest)
    BY <1>2, <2>1 DEF BindPort, MorePorts
  <2> QED
    BY <1>2, <2>1, <2>2, <2>3 DEF BindPort, diskVars
<1>3. CASE BindFails(t) \/ LaunchFails(t)
  BY <1>3 DEF BindFails, LaunchFails, netVars, diskVars
<1>4. CASE MakeFifo(t)
  BY <1>4, LocalProxiesType DEF MakeFifo, netVars
<1>5. CASE Launch(t)
  BY <1>5 DEF Launch, netVars, diskVars
<1>6. CASE WritePid(t)
  <2> DEFINE n == job[t].name
             old == IF dir[n] = None THEN None ELSE dir[n].manifest
  <2>1. n \in Names
    BY <1>6, LocalProxiesType DEF WritePid
  <2>2. old \in Manifests \cup {None}
    BY <2>1 DEF Directory
  <2>3. [pid |-> t, manifest |-> old] \in Directory
    BY <2>2 DEF Directory
  <2>4. dir' \in [Names -> Directory \cup {None}]
    BY <1>6, <2>3 DEF WritePid
  <2> QED
    BY <1>6, <2>4 DEF WritePid, netVars
<1>7. CASE WriteManifest(t)
  <2>1. ASSUME NEW d \in Directory
        PROVE  [d EXCEPT !.manifest = job[t].manifest] \in Directory
    BY <1>7, LocalProxiesType DEF WriteManifest, Directory
  <2>2. dir' \in [Names -> Directory \cup {None}]
    BY <1>7, <2>1, LocalProxiesType DEF WriteManifest
  <2> QED
    BY <1>7, <2>2 DEF WriteManifest, netVars
<1>8. CASE Publish(t)
  <2>1. t \in Pid
    BY DaemonAssumption DEF Task, Pid
  <2>2. map' \in [Names -> Entry \cup {None}]
    <3>1. CASE map[job[t].name] = None
      BY <1>8, <3>1 DEF Publish
    <3>2. CASE map[job[t].name] # None
      <4>1. /\ map[job[t].name] \in Entry
            /\ LocalProxies(t) \in SUBSET Ports
        BY <1>8, <3>2, LocalProxiesType DEF Publish
      <4>2. [map[job[t].name] EXCEPT !.pid = t, !.building = FALSE,
                                     !.proxies = LocalProxies(t)] \in Entry
        BY <2>1, <4>1, EntryPublished
      <4> QED
        BY <1>8, <3>2, <4>2 DEF Publish
    <3> QED
      BY <3>1, <3>2
  <2> QED
    BY <1>8, <2>2 DEF Publish, netVars, diskVars
<1>9. CASE Reap(t)
  BY <1>9 DEF Reap, netVars, diskVars
<1>10. CASE RecordExit(t)
  <2>1. CASE map[job[t].name] = None
    BY <1>10, <2>1 DEF RecordExit
  <2>2. CASE map[job[t].name] # None
    <3>1. map[job[t].name] \in Entry
      BY <1>10, <2>2, LocalProxiesType DEF RecordExit
    <3>2. [map[job[t].name] EXCEPT !.proxies = {}, !.exit = TRUE] \in Entry
      BY <3>1, EntryDrained
    <3>3. map' \in [Names -> Entry \cup {None}]
      BY <1>10, <2>2, <3>2 DEF RecordExit
    <3>4. aborting' \subseteq Ports /\ fifo' \subseteq Names
      BY <1>10, <2>2, <3>1 DEF RecordExit, Abort, Entry
    <3> QED
      BY <1>10, <3>3, <3>4 DEF RecordExit
  <2> QED
    BY <2>1, <2>2
<1>11. CASE Unregister(t)
  BY <1>11, LocalProxiesType DEF Unregister, netVars, diskVars
<1> QED
  BY <1>1, <1>2, <1>3, <1>4, <1>5, <1>6, <1>7, <1>8, <1>9, <1>10, <1>11
     DEF TaskStep

LEMMA EnvironmentType ==
  ASSUME TypeInv, Environment
  PROVE  TypeInv'
<1>1. ASSUME NEW t \in Task, ProcessExits(t)
      PROVE  TypeInv'
  BY <1>1 DEF ProcessExits, Alive, TypeInv, TypeOK, JobInv, taskVars, netVars,
              diskVars
<1>2. ASSUME NEW p \in Ports, ListenerDropped(p)
      PROVE  TypeInv'
  BY <1>2, DaemonAssumption
     DEF ListenerDropped, TypeInv, TypeOK, JobInv, Pid, taskVars, diskVars
<1> QED
  BY <1>1, <1>2 DEF Environment

LEMMA TypeStep == TypeInv /\ [Next]_vars => TypeInv'
<1> SUFFICES ASSUME TypeInv, [Next]_vars
             PROVE  TypeInv'
  OBVIOUS
<1>1. CASE UNCHANGED vars
  BY <1>1 DEF vars, TypeInv, TypeOK, JobInv
<1> QED
  BY <1>1, RequestType, TaskType, EnvironmentType DEF Next

\* Type correctness, whatever the clients do.
THEOREM TypeCorrect == Spec => []TypeOK
<1>1. TypeInv => TypeOK
  BY DEF TypeInv
<1> QED
  BY <1>1, TypeInit, TypeStep, PTL DEF Spec

-----------------------------------------------------------------------------
(* An entry's pid is a process of its own name, whatever the clients do. *)

\* A task about to publish its child has launched it, and a pid in the map is
\* that of a child launched for the name.
LaunchInv ==
  \A t \in Task : pc[t] \in {"pidfile", "manifest", "publish"} => proc[t] # "none"

PidIsOfItsName ==
  \A n \in Names : map[n] # None /\ map[n].pid > 0 =>
    /\ job[map[n].pid] # None
    /\ job[map[n].pid].name = n
    /\ proc[map[n].pid] # "none"

PidInv == LaunchInv /\ PidIsOfItsName

LEMMA PidInit == Init => PidInv
  BY DEF Init, PidInv, LaunchInv, PidIsOfItsName

\* Steps that start no task, forget no process and give no entry a new pid.
LEMMA PidQuiet ==
  ASSUME PidInv, LaunchInv', job' = job,
         \A t \in Task : proc[t] # "none" => proc'[t] # "none",
         \A n \in Names : map'[n] # None =>
           map[n] # None /\ map'[n].pid = map[n].pid,
         \A n \in Names : map[n] # None => map[n].pid = 0 \/ map[n].pid \in Task
  PROVE  PidInv'
  BY DEF PidInv, PidIsOfItsName

LEMMA PidRange ==
  ASSUME TypeOK, NEW n \in Names, map[n] # None
  PROVE  map[n].pid = 0 \/ map[n].pid \in Task
  BY DaemonAssumption DEF TypeOK, Entry, Pid, Task

LEMMA SpawnPid ==
  ASSUME TypeInv, PidInv, NEW n \in Names, NEW m \in Manifests,
         SpawnReplica(n, m)
  PROVE  PidInv'
<1>1. PICK t \in Task : /\ Fresh(t)
                        /\ pc' = [pc EXCEPT ![t] = "base"]
                        /\ job' = [job EXCEPT ![t] = [name |-> n, manifest |-> m]]
  BY DEF SpawnReplica
<1>2. proc[t] = "none" /\ proc' = proc /\ map' = [map EXCEPT ![n] = Placeholder(m)]
  BY <1>1 DEF SpawnReplica, Fresh, TypeInv, JobInv
<1>3. LaunchInv'
  BY <1>1, <1>2 DEF PidInv, LaunchInv, TypeInv, TypeOK
<1>4. PidIsOfItsName'
  <2> SUFFICES ASSUME NEW k \in Names, map'[k] # None, map'[k].pid > 0
               PROVE  /\ job'[map'[k].pid] # None
                      /\ job'[map'[k].pid].name = k
                      /\ proc'[map'[k].pid] # "none"
    BY DEF PidIsOfItsName
  <2>1. k # n
    BY <1>2 DEF Placeholder, TypeInv, TypeOK
  <2>2. map'[k] = map[k]
    BY <1>2, <2>1 DEF TypeInv, TypeOK
  <2>3. map[k].pid \in Task
    BY <2>2, PidRange DEF TypeInv
  <2>4. map[k].pid # t
    BY <1>2, <2>2 DEF PidInv, PidIsOfItsName
  <2> QED
    BY <1>1, <1>2, <2>2, <2>3, <2>4 DEF PidInv, PidIsOfItsName, TypeInv, TypeOK
<1> QED
  BY <1>3, <1>4 DEF PidInv

LEMMA RequestPid ==
  ASSUME TypeInv, PidInv, Serve \/ \E n \in Names : Stop(n) \/ Rm(n)
  PROVE  PidInv'
<1>0. \A n \in Names : map[n] # None => map[n].pid = 0 \/ map[n].pid \in Task
  BY PidRange DEF TypeInv
<1>1. ASSUME NEW n \in Names, NEW m \in Manifests, Run(n, m)
      PROVE  PidInv'
  BY <1>1, SpawnPid DEF Run
<1>2. ASSUME NEW c \in Clients,
             StartRefused(c) \/ \E n \in Names : StartRead(c, n)
      PROVE  PidInv'
  BY <1>0, <1>2, PidQuiet DEF StartRead, StartRefused, PidInv, LaunchInv, taskVars
<1>3. ASSUME NEW c \in Clients, StartSpawn(c)
      PROVE  PidInv'
  <2>1. start[c].name \in Names /\ start[c].manifest \in Manifests
    BY <1>3 DEF StartSpawn, TypeInv, TypeOK, Job
  <2> QED
    BY <1>3, <2>1, SpawnPid DEF StartSpawn
<1>4. ASSUME NEW S \in SUBSET {n \in Names : map[n] # None}, StopThese(S)
      PROVE  PidInv'
  <2>1. \A t \in Task : proc[t] # "none" => proc'[t] # "none"
    BY <1>4 DEF StopThese, SigKill
  <2>2. \A n \in Names : map'[n] # None =>
          map[n] # None /\ map'[n].pid = map[n].pid
    <3> SUFFICES ASSUME NEW n \in Names, map'[n] # None
                 PROVE  map[n] # None /\ map'[n].pid = map[n].pid
      OBVIOUS
    <3>1. CASE n \in S
      BY <1>4, <3>1 DEF StopThese, TypeInv, TypeOK, Entry
    <3>2. CASE n \notin S
      BY <1>4, <3>2 DEF StopThese
    <3> QED
      BY <3>1, <3>2
  <2> QED
    BY <1>0, <1>4, <2>1, <2>2, PidQuiet DEF StopThese, PidInv, LaunchInv, taskVars
<1>5. ASSUME NEW n \in Names, Rm(n)
      PROVE  PidInv'
  BY <1>0, <1>5, PidQuiet DEF Rm, PidInv, LaunchInv, TypeInv, TypeOK, taskVars
<1>6. ASSUME NEW n \in Names, Stop(n)
      PROVE  PidInv'
  BY <1>4, <1>6 DEF Stop
<1>7. CASE StopAll
  BY <1>4, <1>7 DEF StopAll
<1> QED
  BY <1>1, <1>2, <1>3, <1>5, <1>6, <1>7 DEF Serve

LEMMA TaskPid ==
  ASSUME TypeInv, PidInv, NEW t \in Task, TaskStep(t)
  PROVE  PidInv'
<1>0. \A n \in Names : map[n] # None => map[n].pid = 0 \/ map[n].pid \in Task
  BY PidRange DEF TypeInv
<1>1. pc[t] # "idle" /\ job' = job /\ job[t].name \in Names
  <2>1. pc[t] # "idle" /\ job' = job
    BY DEF TaskStep, EnsureBaseImage, EnsureOverlay, CreateLog, BindPort,
           BindFails, MakeFifo, Launch, LaunchFails, WritePid, WriteManifest,
           Publish, Reap, RecordExit, Unregister, Goto
  <2> QED
    BY <2>1, LocalProxiesType
<1>2. LaunchInv' /\ \A s \in Task : proc[s] # "none" => proc'[s] # "none"
  BY DEF TaskStep, EnsureBaseImage, EnsureOverlay, CreateLog, BindPort,
         BindFails, MakeFifo, Launch, LaunchFails, WritePid, WriteManifest,
         Publish, Reap, RecordExit, Unregister, Goto, PidInv, LaunchInv,
         TypeInv, TypeOK
<1>3. CASE UNCHANGED map
  BY <1>0, <1>1, <1>2, <1>3, PidQuiet
<1>4. CASE RecordExit(t) \/ Unregister(t)
  <2>1. ASSUME NEW n \in Names, map'[n] # None
        PROVE  map[n] # None /\ map'[n].pid = map[n].pid
    <3>1. CASE Unregister(t)
      BY <1>1, <2>1, <3>1 DEF Unregister, TypeInv, TypeOK
    <3>2. CASE RecordExit(t) /\ map' # map
      <4>1. /\ map[job[t].name] # None
            /\ map' = [map EXCEPT ![job[t].name] =
                              [@ EXCEPT !.proxies = {}, !.exit = TRUE]]
        BY <3>2 DEF RecordExit
      <4>2. map[job[t].name] \in Entry
        BY <1>1, <4>1 DEF TypeInv, TypeOK
      <4>3. [map[job[t].name] EXCEPT !.proxies = {}, !.exit = TRUE].pid
              = map[job[t].name].pid
        BY <4>2 DEF Entry
      <4> QED
        BY <1>1, <2>1, <4>1, <4>3 DEF TypeInv, TypeOK
    <3> QED
      BY <1>4, <2>1, <3>1, <3>2
  <2> QED
    BY <1>0, <1>1, <1>2, <2>1, PidQuiet
\* The one step that gives an entry a pid: the task's own, under its own name.
<1>5. CASE Publish(t)
  <2>1. proc[t] # "none" /\ proc' = proc
    BY <1>5 DEF Publish, Goto, PidInv, LaunchInv
  <2>2. PidIsOfItsName'
    <3> SUFFICES ASSUME NEW k \in Names, map'[k] # None, map'[k].pid > 0
                 PROVE  /\ job[map'[k].pid] # None
                        /\ job[map'[k].pid].name = k
                        /\ proc[map'[k].pid] # "none"
      BY <1>1, <2>1 DEF PidIsOfItsName
    <3>1. CASE map'[k] = map[k]
      BY <3>1 DEF PidInv, PidIsOfItsName
    <3>2. CASE map'[k] # map[k]
      <4>1. k = job[t].name /\ map'[k].pid = t
        BY <1>1, <1>5, <3>2 DEF Publish, TypeInv, TypeOK, Entry
      <4>2. job[t] # None
        BY <1>1, DaemonAssumption DEF TypeInv, JobInv
      <4> QED
        BY <2>1, <4>1, <4>2
    <3> QED
      BY <3>1, <3>2
  <2> QED
    BY <1>2, <2>2 DEF PidInv
<1> QED
  BY <1>3, <1>4, <1>5
     DEF TaskStep, EnsureBaseImage, EnsureOverlay, CreateLog, BindPort,
         BindFails, MakeFifo, Launch, LaunchFails, WritePid, WriteManifest, Reap

LEMMA PidStep == TypeInv /\ PidInv /\ [Next]_vars => PidInv'
<1> SUFFICES ASSUME TypeInv, PidInv, [Next]_vars
             PROVE  PidInv'
  OBVIOUS
<1>1. CASE UNCHANGED vars
  BY <1>1 DEF vars, PidInv, LaunchInv, PidIsOfItsName
<1>2. CASE Environment
  <2>1. \A n \in Names : map[n] # None => map[n].pid = 0 \/ map[n].pid \in Task
    BY PidRange DEF TypeInv
  <2>2. job' = job /\ map' = map /\ pc' = pc
    BY <1>2 DEF Environment, ProcessExits, ListenerDropped, taskVars
  <2>3. \A t \in Task : proc[t] # "none" => proc'[t] # "none"
    BY <1>2 DEF Environment, ProcessExits, ListenerDropped, TypeInv, TypeOK
  <2> QED
    BY <2>1, <2>2, <2>3, PidQuiet DEF PidInv, LaunchInv
<1> QED
  BY <1>1, <1>2, RequestPid, TaskPid DEF Next

-----------------------------------------------------------------------------
(* The child of a task, whatever the clients do. *)

\* The state of the child follows from where its task is.
ProcInv ==
  \A t \in Task :
    /\ pc[t] \in {"idle", "base", "overlay", "log", "bind", "launch",
                  "unregister", "abandoned"} => proc[t] = "none"
    /\ pc[t] \in {"pidfile", "manifest", "publish", "wait"} =>
         proc[t] \in {"alive", "killed", "zombie"}
    /\ pc[t] = "record" => proc[t] = "reaped"

\* A task that is over has no child, or has reaped it.
EndedInv == \A t \in Task : pc[t] = "done" => proc[t] \in {"none", "reaped"}

LEMMA ProcInit == Init => ProcInv /\ EndedInv
  BY DEF Init, ProcInv, EndedInv

LEMMA TaskProc ==
  ASSUME TypeInv, ProcInv, NEW t \in Task, TaskStep(t)
  PROVE  ProcInv' /\ (EndedInv => EndedInv')
<1> USE DEF ProcInv, EndedInv, Goto
<1>0. /\ pc \in [Task -> PC]
      /\ proc \in [Task -> {"none", "alive", "killed", "zombie", "reaped"}]
  BY DEF TypeInv, TypeOK
<1>1. CASE EnsureBaseImage(t) \/ EnsureOverlay(t) \/ CreateLog(t)
  BY <1>0, <1>1 DEF EnsureBaseImage, EnsureOverlay, CreateLog
<1>2. CASE BindPort(t)
  BY <1>2 DEF BindPort
<1>3. CASE BindFails(t) \/ MakeFifo(t) \/ LaunchFails(t)
  BY <1>0, <1>3 DEF BindFails, MakeFifo, LaunchFails
<1>4. CASE Launch(t)
  BY <1>0, <1>4 DEF Launch
<1>5. CASE WritePid(t) \/ WriteManifest(t)
  BY <1>0, <1>5 DEF WritePid, WriteManifest
<1>6. CASE Publish(t)
  BY <1>0, <1>6 DEF Publish
<1>7. CASE Reap(t)
  BY <1>0, <1>7 DEF Reap
<1>8. CASE RecordExit(t) \/ Unregister(t)
  BY <1>0, <1>8 DEF RecordExit, Unregister
<1> QED
  BY <1>1, <1>2, <1>3, <1>4, <1>5, <1>6, <1>7, <1>8 DEF TaskStep

LEMMA EnvironmentProc ==
  ASSUME TypeInv, ProcInv, Environment
  PROVE  ProcInv' /\ (EndedInv => EndedInv')
<1>1. ASSUME NEW t \in Task, ProcessExits(t)
      PROVE  ProcInv' /\ (EndedInv => EndedInv')
  BY <1>1 DEF ProcessExits, Alive, ProcInv, EndedInv, TypeInv, TypeOK, PC, taskVars
<1>2. ASSUME NEW p \in Ports, ListenerDropped(p)
      PROVE  ProcInv' /\ (EndedInv => EndedInv')
  BY <1>2 DEF ListenerDropped, ProcInv, EndedInv, taskVars
<1> QED
  BY <1>1, <1>2 DEF Environment

LEMMA RequestProc ==
  ASSUME TypeInv, ProcInv, Serve \/ \E n \in Names : Stop(n) \/ Rm(n)
  PROVE  ProcInv' /\ (EndedInv => EndedInv')
<1> USE DEF ProcInv, EndedInv
<1>1. ASSUME NEW n, NEW m, SpawnReplica(n, m)
      PROVE  ProcInv' /\ (EndedInv => EndedInv')
  BY <1>1 DEF SpawnReplica, Fresh, TypeInv, TypeOK
<1>2. ASSUME NEW S, StopThese(S)
      PROVE  ProcInv' /\ (EndedInv => EndedInv')
  BY <1>2 DEF StopThese, SigKill, TypeInv, TypeOK, taskVars
<1>3. ASSUME NEW c \in Clients, StartRefused(c) \/ \E n \in Names : StartRead(c, n)
      PROVE  ProcInv' /\ (EndedInv => EndedInv')
  BY <1>3 DEF StartRefused, StartRead, taskVars
<1>4. ASSUME NEW n \in Names, Rm(n)
      PROVE  ProcInv' /\ (EndedInv => EndedInv')
  BY <1>4 DEF Rm, taskVars
<1> QED
  BY <1>1, <1>2, <1>3, <1>4 DEF Serve, Run, StartSpawn, StopAll, Stop

LEMMA ProcStep ==
  TypeInv /\ ProcInv /\ [Next]_vars => ProcInv' /\ (EndedInv => EndedInv')
<1> SUFFICES ASSUME TypeInv, ProcInv, [Next]_vars
             PROVE  ProcInv' /\ (EndedInv => EndedInv')
  OBVIOUS
<1>1. CASE UNCHANGED vars
  BY <1>1 DEF vars, ProcInv, EndedInv
<1> QED
  BY <1>1, TaskProc, EnvironmentProc, RequestProc DEF Next

-----------------------------------------------------------------------------
(* One generation per name.  The lemmas speak of any set G of names whose   *)
(* entry may have been removed under their task: Rm makes no other          *)
(* difference, as long as such a name is not run again.                     *)

Tracked(t) == pc[t] \notin {"idle", "done"}

\* A task that is not over owns the entry of its name: the placeholder until
\* it publishes, the entry with its pid from then on.
OwnsEntry(t) ==
  LET n == job[t].name
  IN /\ Unfinished(n)
     /\ IF pc[t] \in {"wait", "record"}
        THEN map[n].pid = t /\ ~map[n].building
        ELSE map[n].pid = 0 /\ map[n].building

Generations(G) ==
  /\ \A t \in Task : Tracked(t) /\ job[t].name \notin G => OwnsEntry(t)
  /\ \A s, t \in Task :
       Tracked(s) /\ Tracked(t) /\ job[s].name = job[t].name => s = t

\* A new generation of a name starts when no task of the name is left.
LEMMA SpawnGenerations ==
  ASSUME TypeInv, NEW G, Generations(G), NEW n \in Names, n \notin G,
         NEW m \in Manifests, SpawnReplica(n, m)
  PROVE  Generations(G)'
<1> USE DEF Generations, Tracked, OwnsEntry, Unfinished
<1>1. PICK t \in Task : /\ Fresh(t)
                        /\ pc' = [pc EXCEPT ![t] = "base"]
                        /\ job' = [job EXCEPT ![t] = [name |-> n, manifest |-> m]]
  BY DEF SpawnReplica
<1>2. \A s \in Task : Tracked(s) => job[s].name # n
  BY DEF SpawnReplica
<1>3. map' = [map EXCEPT ![n] = Placeholder(m)]
  BY DEF SpawnReplica
<1>4. Placeholder(m) # None
  BY PlaceholderType, DaemonAssumption
<1>5. \A s \in Task : Tracked(s) => job[s].name \in Names
  BY LocalProxiesType
<1>6. (\A s \in Task : Tracked(s) /\ job[s].name \notin G => OwnsEntry(s))'
  <2> SUFFICES ASSUME NEW s \in Task, Tracked(s)', job'[s].name \notin G
               PROVE  OwnsEntry(s)'
    OBVIOUS
  <2>1. CASE s = t
    BY <1>1, <1>3, <1>4, <2>1 DEF Placeholder, TypeInv, TypeOK
  <2>2. CASE s # t
    <3>1. Tracked(s) /\ job'[s] = job[s] /\ pc'[s] = pc[s]
      BY <1>1, <2>2 DEF TypeInv, TypeOK
    <3>2. map'[job[s].name] = map[job[s].name]
      BY <1>2, <1>3, <1>5, <3>1 DEF TypeInv, TypeOK
    <3> QED
      BY <3>1, <3>2
  <2> QED
    BY <2>1, <2>2
<1>7. (\A r, s \in Task :
         Tracked(r) /\ Tracked(s) /\ job[r].name = job[s].name => r = s)'
  BY <1>1, <1>2 DEF TypeInv, TypeOK
<1> QED
  BY <1>6, <1>7

\* Steps that move no task and change neither pid, flag nor exit of an entry.
LEMMA QuietGenerations ==
  ASSUME TypeInv, NEW G, Generations(G), pc' = pc, job' = job,
         \A n \in Names :
           /\ map'[n] = None <=> map[n] = None
           /\ map[n] # None => /\ map'[n].pid = map[n].pid
                               /\ map'[n].building = map[n].building
                               /\ map'[n].exit = map[n].exit
  PROVE  Generations(G)'
<1>1. \A t \in Task : Tracked(t) => job[t].name \in Names
  BY LocalProxiesType DEF Tracked
<1> QED
  BY <1>1 DEF Generations, Tracked, OwnsEntry, Unfinished

\* A Stop leaves an entry what it is but for its handles.
LEMMA StopEntries ==
  ASSUME TypeInv, NEW S \in SUBSET {n \in Names : map[n] # None}, StopThese(S),
         NEW n \in Names
  PROVE  /\ map'[n] = None <=> map[n] = None
         /\ map[n] # None => /\ map'[n].pid = map[n].pid
                             /\ map'[n].building = map[n].building
                             /\ map'[n].exit = map[n].exit
<1>1. CASE n \in S
  <2>1. map[n] \in Entry /\ map'[n] = [map[n] EXCEPT !.proxies = {}]
    BY <1>1 DEF StopThese, TypeInv, TypeOK
  <2>2. map'[n] \in Entry
    BY <2>1, EntryDrained
  <2> QED
    BY <2>1, <2>2, DaemonAssumption DEF Entry
<1>2. CASE n \notin S
  BY <1>2 DEF StopThese
<1> QED
  BY <1>1, <1>2

LEMMA StopGenerations ==
  ASSUME TypeInv, NEW G, Generations(G),
         NEW S \in SUBSET {n \in Names : map[n] # None}, StopThese(S)
  PROVE  Generations(G)'
<1>1. \A n \in Names :
        /\ map'[n] = None <=> map[n] = None
        /\ map[n] # None => /\ map'[n].pid = map[n].pid
                            /\ map'[n].building = map[n].building
                            /\ map'[n].exit = map[n].exit
  BY StopEntries
<1> QED
  BY <1>1, QuietGenerations DEF StopThese, taskVars

\* Rm removes an entry that no task owns, or one whose loss is accounted for.
LEMMA RmGenerations ==
  ASSUME TypeInv, NEW G, Generations(G), NEW n \in Names, Rm(n),
         Exited(n) \/ n \in G
  PROVE  Generations(G)'
<1>1. \A t \in Task : Tracked(t) /\ job[t].name \notin G =>
        job[t].name # n /\ job[t].name \in Names
  BY LocalProxiesType DEF Exited, Generations, OwnsEntry, Unfinished, Tracked
<1> QED
  BY <1>1 DEF Rm, Generations, OwnsEntry, Unfinished, Tracked, TypeInv, TypeOK, taskVars

LEMMA ServeGenerations ==
  ASSUME TypeInv, Generations({}),
         Serve \/ \E n \in Names : Stop(n) \/ RmStopped(n)
  PROVE  Generations({})'
<1>1. ASSUME NEW n \in Names, NEW m \in Manifests, Run(n, m)
      PROVE  Generations({})'
  BY <1>1, SpawnGenerations DEF Run
<1>2. ASSUME NEW c \in Clients, StartRefused(c) \/ \E n \in Names : StartRead(c, n)
      PROVE  Generations({})'
  BY <1>2, QuietGenerations DEF StartRefused, StartRead, taskVars
<1>3. ASSUME NEW c \in Clients, StartSpawn(c)
      PROVE  Generations({})'
  <2>1. start[c].name \in Names /\ start[c].manifest \in Manifests
    BY <1>3 DEF StartSpawn, TypeInv, TypeOK, Job
  <2> QED
    BY <1>3, <2>1, SpawnGenerations DEF StartSpawn
<1>4. CASE StopAll \/ \E n \in Names : Stop(n)
  BY <1>4, StopGenerations DEF StopAll, Stop
<1>5. ASSUME NEW n \in Names, RmStopped(n)
      PROVE  Generations({})'
  BY <1>5, RmGenerations DEF RmStopped
<1> QED
  BY <1>1, <1>2, <1>3, <1>4, <1>5 DEF Serve

\* A step of a task is about its own name only, and goes forward.
LEMMA TaskLocal ==
  ASSUME TypeInv, NEW t \in Task, TaskStep(t)
  PROVE  /\ Tracked(t) /\ job' = job /\ job[t].name \in Names
         /\ pc'[t] # "idle"
         /\ \A s \in Task : s # t => pc'[s] = pc[s] /\ proc'[s] = proc[s]
         /\ \A n \in Names : n # job[t].name => map'[n] = map[n]
         /\ \A n \in Names : map'[n] # None => map[n] # None
<1>1. Tracked(t) /\ job' = job
  BY DEF TaskStep, EnsureBaseImage, EnsureOverlay, CreateLog, BindPort,
         BindFails, MakeFifo, Launch, LaunchFails, WritePid, WriteManifest,
         Publish, Reap, RecordExit, Unregister, Goto, Tracked
<1>2. job[t].name \in Names
  BY <1>1, LocalProxiesType DEF Tracked
<1>3. /\ pc'[t] # "idle"
      /\ \A s \in Task : s # t => pc'[s] = pc[s] /\ proc'[s] = proc[s]
  BY DEF TaskStep, EnsureBaseImage, EnsureOverlay, CreateLog, BindPort,
         BindFails, MakeFifo, Launch, LaunchFails, WritePid, WriteManifest,
         Publish, Reap, RecordExit, Unregister, Goto, TypeInv, TypeOK, PC
<1>4. /\ \A n \in Names : n # job[t].name => map'[n] = map[n]
      /\ \A n \in Names : map'[n] # None => map[n] # None
  BY DEF TaskStep, EnsureBaseImage, EnsureOverlay, CreateLog, BindPort,
         BindFails, MakeFifo, Launch, LaunchFails, WritePid, WriteManifest,
         Publish, Reap, RecordExit, Unregister, TypeInv, TypeOK
<1> QED
  BY <1>1, <1>2, <1>3, <1>4

\* Steps of a task that leave the map alone.
LEMMA TaskMoves ==
  ASSUME TypeInv, NEW t \in Task, OwnsEntry(t), NEW to,
         pc' = [pc EXCEPT ![t] = to], map' = map, job' = job,
         pc[t] \in {"wait", "record"} <=> to \in {"wait", "record"}
  PROVE  OwnsEntry(t)'
  BY DEF OwnsEntry, Unfinished, TypeInv, TypeOK

\* A task keeps its entry until it is over.
LEMMA TaskOwns ==
  ASSUME TypeInv, NEW t \in Task, TaskStep(t), OwnsEntry(t), Tracked(t)'
  PROVE  OwnsEntry(t)'
<1>0. pc \in [Task -> PC]
  BY DEF TypeInv, TypeOK
<1>1. CASE EnsureBaseImage(t) \/ EnsureOverlay(t) \/ CreateLog(t)
  BY <1>1, TaskMoves DEF EnsureBaseImage, EnsureOverlay, CreateLog, Goto
<1>2. CASE BindPort(t)
  BY <1>2 DEF BindPort, OwnsEntry, Unfinished
<1>3. CASE BindFails(t) \/ MakeFifo(t) \/ LaunchFails(t) \/ Launch(t)
  BY <1>3, TaskMoves DEF BindFails, MakeFifo, LaunchFails, Launch, Goto
<1>4. CASE WritePid(t) \/ WriteManifest(t) \/ Reap(t)
  BY <1>4, TaskMoves DEF WritePid, WriteManifest, Reap, Goto
<1>5. CASE Publish(t)
  <2> DEFINE n == job[t].name
             e == [map[n] EXCEPT !.pid = t, !.building = FALSE,
                                 !.proxies = LocalProxies(t)]
  <2>1. n \in Names /\ LocalProxies(t) \in SUBSET Ports /\ t \in Pid
    BY <1>5, LocalProxiesType, DaemonAssumption DEF Publish, Goto, Task, Pid
  <2>2. map[n] # None /\ ~map[n].exit /\ map[n] \in Entry
    BY <2>1 DEF OwnsEntry, Unfinished, TypeInv, TypeOK
  <2>3. e \in Entry
    BY <2>1, <2>2, EntryPublished
  <2>4. e # None /\ e.pid = t /\ ~e.building /\ ~e.exit
    BY <2>2, <2>3, DaemonAssumption DEF Entry
  <2>5. map' = [map EXCEPT ![n] = e] /\ job' = job /\ pc'[t] = "wait"
    BY <1>0, <1>5, <2>2 DEF Publish, Goto
  <2> HIDE DEF e
  <2>6. map'[n] = e
    BY <2>1, <2>5 DEF TypeInv, TypeOK
  <2> QED
    BY <2>4, <2>5, <2>6 DEF OwnsEntry, Unfinished
<1>6. CASE RecordExit(t) \/ Unregister(t)
  BY <1>0, <1>6 DEF RecordExit, Unregister, Goto, Tracked
<1> QED
  BY <1>1, <1>2, <1>3, <1>4, <1>5, <1>6 DEF TaskStep

LEMMA TaskGenerations ==
  ASSUME TypeInv, NEW G, Generations(G), NEW t \in Task, TaskStep(t)
  PROVE  Generations(G)'
<1>1. /\ Tracked(t) /\ job' = job
      /\ \A s \in Task : s # t => pc'[s] = pc[s]
      /\ \A n \in Names : n # job[t].name => map'[n] = map[n]
  BY TaskLocal
<1>2. ASSUME NEW s \in Task, Tracked(s)', job'[s].name \notin G
      PROVE  OwnsEntry(s)'
  <2>1. CASE s = t
    BY <1>1, <1>2, <2>1, TaskOwns DEF Generations
  <2>2. CASE s # t
    <3>1. Tracked(s) /\ OwnsEntry(s) /\ job[s].name \in Names
      BY <1>1, <1>2, <2>2, LocalProxiesType DEF Generations, Tracked
    <3>2. map'[job[s].name] = map[job[s].name]
      BY <1>1, <2>2, <3>1 DEF Generations
    <3> QED
      BY <1>1, <2>2, <3>1, <3>2 DEF OwnsEntry, Unfinished
  <2> QED
    BY <2>1, <2>2
<1>3. \A s \in Task : Tracked(s)' => Tracked(s)
  BY <1>1 DEF Tracked
<1> QED
  BY <1>1, <1>2, <1>3 DEF Generations

LEMMA EnvironmentGenerations ==
  ASSUME TypeInv, NEW G, Generations(G), Environment
  PROVE  Generations(G)'
  BY QuietGenerations DEF Environment, ProcessExits, ListenerDropped, taskVars

-----------------------------------------------------------------------------
(* The pid in an unfinished entry, whatever the clients do. *)

\* Its task is waiting for the process, or about to record its end under the
\* very name.
HeldInv ==
  \A n \in Names : Unfinished(n) /\ map[n].pid > 0 =>
    job[map[n].pid].name = n /\ pc[map[n].pid] \in {"wait", "record"}

\* Steps that move no task and leave unfinished no entry that was not.
LEMMA HeldQuiet ==
  ASSUME HeldInv, pc' = pc, job' = job,
         \A n \in Names : Unfinished(n)' => Unfinished(n) /\ map'[n].pid = map[n].pid
  PROVE  HeldInv'
  BY DEF HeldInv

LEMMA HeldSpawn ==
  ASSUME TypeInv, HeldInv, NEW n \in Names, NEW m \in Manifests, SpawnReplica(n, m)
  PROVE  HeldInv'
<1>1. PICK t \in Task : /\ Fresh(t)
                        /\ pc' = [pc EXCEPT ![t] = "base"]
                        /\ job' = [job EXCEPT ![t] = [name |-> n, manifest |-> m]]
  BY DEF SpawnReplica
<1>2. map' = [map EXCEPT ![n] = Placeholder(m)]
  BY DEF SpawnReplica
<1> SUFFICES ASSUME NEW k \in Names, Unfinished(k)', map'[k].pid > 0
             PROVE  /\ job'[map'[k].pid].name = k
                    /\ pc'[map'[k].pid] \in {"wait", "record"}
  BY DEF HeldInv
<1>3. k # n /\ map'[k] = map[k]
  BY <1>2 DEF Placeholder, TypeInv, TypeOK
<1>4. /\ job[map[k].pid].name = k
      /\ pc[map[k].pid] \in {"wait", "record"}
  BY <1>3 DEF HeldInv, Unfinished
<1>5. map[k].pid # t
  BY <1>1, <1>4 DEF Fresh
<1> QED
  BY <1>1, <1>3, <1>4, <1>5 DEF TypeInv, TypeOK

LEMMA HeldRequest ==
  ASSUME TypeInv, HeldInv, Serve \/ \E n \in Names : Stop(n) \/ Rm(n)
  PROVE  HeldInv'
<1>1. ASSUME NEW n \in Names, NEW m \in Manifests, Run(n, m)
      PROVE  HeldInv'
  BY <1>1, HeldSpawn DEF Run
<1>2. ASSUME NEW c \in Clients, StartSpawn(c)
      PROVE  HeldInv'
  <2>1. start[c].name \in Names /\ start[c].manifest \in Manifests
    BY <1>2 DEF StartSpawn, TypeInv, TypeOK, Job
  <2> QED
    BY <1>2, <2>1, HeldSpawn DEF StartSpawn
<1>3. ASSUME NEW c \in Clients, StartRefused(c) \/ \E n \in Names : StartRead(c, n)
      PROVE  HeldInv'
  BY <1>3, HeldQuiet DEF StartRefused, StartRead, Unfinished, taskVars
<1>4. ASSUME NEW S \in SUBSET {n \in Names : map[n] # None}, StopThese(S)
      PROVE  HeldInv'
  <2>1. \A n \in Names : Unfinished(n)' => Unfinished(n) /\ map'[n].pid = map[n].pid
    BY <1>4, StopEntries DEF Unfinished
  <2> QED
    BY <1>4, <2>1, HeldQuiet DEF StopThese, taskVars
<1>5. ASSUME NEW n \in Names, Rm(n)
      PROVE  HeldInv'
  BY <1>5, HeldQuiet DEF Rm, Unfinished, TypeInv, TypeOK, taskVars
<1>6. CASE StopAll \/ \E n \in Names : Stop(n)
  BY <1>4, <1>6 DEF StopAll, Stop
<1> QED
  BY <1>1, <1>2, <1>3, <1>5, <1>6 DEF Serve

LEMMA HeldTask ==
  ASSUME TypeInv, HeldInv, NEW t \in Task, TaskStep(t)
  PROVE  HeldInv'
<1>1. /\ job' = job /\ job[t].name \in Names
      /\ \A s \in Task : s # t => pc'[s] = pc[s]
      /\ \A n \in Names : n # job[t].name => map'[n] = map[n]
  BY TaskLocal
<1>2. \A n \in Names : map[n] # None => map[n].pid = 0 \/ map[n].pid \in Task
  BY PidRange DEF TypeInv
<1>3. pc \in [Task -> PC] /\ map \in [Names -> Entry \cup {None}]
  BY DEF TypeInv, TypeOK
<1>4. CASE Publish(t)
  <2>1. pc[t] = "publish" /\ pc'[t] = "wait"
    BY <1>3, <1>4 DEF Publish, Goto
  <2>2. ASSUME NEW n \in Names, Unfinished(n)', map'[n] # map[n]
        PROVE  n = job[t].name /\ map'[n].pid = t
    BY <1>1, <1>3, <1>4, <2>2 DEF Publish, Entry
  <2> SUFFICES ASSUME NEW n \in Names, Unfinished(n)', map'[n].pid > 0
               PROVE  /\ job[map'[n].pid].name = n
                      /\ pc'[map'[n].pid] \in {"wait", "record"}
    BY <1>1 DEF HeldInv
  <2>3. CASE map'[n] = map[n]
    BY <1>1, <1>2, <2>1, <2>3, DaemonAssumption DEF HeldInv, Unfinished, Task
  <2> QED
    BY <2>1, <2>2, <2>3
<1>5. CASE Reap(t)
  <2>1. map' = map /\ pc[t] = "wait" /\ pc'[t] = "record"
    BY <1>3, <1>5 DEF Reap, Goto
  <2> QED
    BY <1>1, <1>2, <2>1, DaemonAssumption DEF HeldInv, Unfinished, Task
<1>6. CASE RecordExit(t)
  <2>1. ~Unfinished(job[t].name)'
    <3>1. CASE map[job[t].name] = None
      BY <1>1, <1>6, <3>1 DEF RecordExit, Unfinished
    <3>2. CASE map[job[t].name] # None
      <4>1. map[job[t].name] \in Entry
        BY <1>1, <1>3, <3>2
      <4>2. map'[job[t].name]
              = [map[job[t].name] EXCEPT !.proxies = {}, !.exit = TRUE]
        BY <1>1, <1>3, <1>6, <3>2 DEF RecordExit
      <4>3. map'[job[t].name].exit
        BY <4>1, <4>2 DEF Entry
      <4> QED
        BY <1>1, <4>3 DEF Unfinished
    <3> QED
      BY <3>1, <3>2
  <2> QED
    BY <1>1, <1>2, <2>1, DaemonAssumption DEF HeldInv, Unfinished, Task
<1>7. CASE Unregister(t)
  <2>1. map'[job[t].name] = None /\ pc[t] = "unregister"
    BY <1>1, <1>3, <1>7 DEF Unregister, Goto
  <2> QED
    BY <1>1, <1>2, <2>1, DaemonAssumption DEF HeldInv, Unfinished, Task
<1>8. CASE map' = map /\ pc[t] \notin {"wait", "record"}
  BY <1>1, <1>2, <1>8, DaemonAssumption DEF HeldInv, Unfinished, Task
<1> QED
  BY <1>4, <1>5, <1>6, <1>7, <1>8
     DEF TaskStep, EnsureBaseImage, EnsureOverlay, CreateLog, BindPort, BindFails,
         MakeFifo, Launch, LaunchFails, WritePid, WriteManifest, Goto

LEMMA HeldStep == TypeInv /\ HeldInv /\ [Next]_vars => HeldInv'
<1> SUFFICES ASSUME TypeInv, HeldInv, [Next]_vars
             PROVE  HeldInv'
  OBVIOUS
<1>1. CASE UNCHANGED vars
  BY <1>1, HeldQuiet DEF vars, Unfinished
<1>2. CASE Environment
  BY <1>2, HeldQuiet DEF Environment, ProcessExits, ListenerDropped, Unfinished,
                         taskVars
<1> QED
  BY <1>1, <1>2, HeldRequest, HeldTask DEF Next

\* The pid a Stop kills by has not been given back to the kernel, but for the
\* moment before the end of its process is recorded, whatever the clients do.
THEOREM KilledPidsAreHeld == Spec => []KilledPidIsHeld
<1>1. Init => HeldInv
  BY DEF Init, HeldInv, Unfinished
<1>2. TypeInv /\ ProcInv /\ HeldInv => KilledPidIsHeld
  <2> SUFFICES ASSUME TypeInv, ProcInv, HeldInv,
                      NEW n \in Names, Unfinished(n), map[n].pid > 0
               PROVE  proc[map[n].pid] # "reaped" \/ pc[map[n].pid] = "record"
    BY DEF KilledPidIsHeld
  <2>1. map[n].pid \in Task
    BY PidRange DEF Unfinished, TypeInv
  <2>2. pc[map[n].pid] \in {"wait", "record"}
    BY DEF HeldInv
  <2> QED
    BY <2>1, <2>2 DEF ProcInv
<1> QED
  BY <1>1, <1>2, TypeInit, TypeStep, ProcInit, ProcStep, HeldStep, PTL DEF Spec

-----------------------------------------------------------------------------
(* Clients that use Rm on stopped containers only. *)

GenerationInv == Generations({})

CarefulInv == TypeInv /\ ProcInv /\ EndedInv /\ GenerationInv

LEMMA CarefulIsNext == CarefulNext => Next
  BY DEF CarefulNext, Next, RmStopped

LEMMA CarefulInit == Init => CarefulInv
  BY TypeInit, ProcInit DEF Init, CarefulInv, GenerationInv, Generations, Tracked

LEMMA CarefulStep == CarefulInv /\ [CarefulNext]_vars => CarefulInv'
<1> SUFFICES ASSUME CarefulInv, [CarefulNext]_vars
             PROVE  CarefulInv'
  OBVIOUS
<1>1. TypeInv' /\ ProcInv' /\ EndedInv'
  BY TypeStep, ProcStep, CarefulIsNext DEF CarefulInv
<1>2. GenerationInv'
  <2>1. CASE UNCHANGED vars
    BY <2>1, QuietGenerations DEF vars, CarefulInv, GenerationInv
  <2> QED
    BY <2>1, TaskGenerations, EnvironmentGenerations, ServeGenerations
       DEF CarefulNext, CarefulInv, GenerationInv
<1> QED
  BY <1>1, <1>2 DEF CarefulInv

LEMMA CarefulInvariant == CarefulSpec => []CarefulInv
  BY CarefulInit, CarefulStep, PTL DEF CarefulSpec

\* A live process has a task that is bringing it up or waiting for it.
LEMMA AliveIsTracked ==
  ASSUME CarefulInv, NEW t \in Task, Alive(t)
  PROVE  pc[t] \in {"pidfile", "manifest", "publish", "wait"}
  BY DEF CarefulInv, ProcInv, EndedInv, Alive, TypeInv, TypeOK, PC

\* Two launchers of one name never live at the same time.
THEOREM AtMostOneProcess == CarefulSpec => []OneProcessPerName
<1>1. CarefulInv => OneProcessPerName
  BY AliveIsTracked DEF OneProcessPerName, CarefulInv, GenerationInv, Generations, Tracked
<1> QED
  BY <1>1, CarefulInvariant, PTL

\* Every live process can be stopped: it is, or is about to be, in the map.
THEOREM ProcessesAreTracked == CarefulSpec => []NoOrphan
<1>1. CarefulInv => NoOrphan
  BY AliveIsTracked
     DEF NoOrphan, CarefulInv, GenerationInv, Generations, Tracked, OwnsEntry
<1> QED
  BY <1>1, CarefulInvariant, PTL

-----------------------------------------------------------------------------
(* The daemon implements the abstract life cycle.  Every step changes at    *)
(* most one name's status or processes.                                     *)

LEMMA OnlyStatus ==
  ASSUME NEW n \in Names, NEW to, Status(n)' = to,
         \A k \in Names \ {n} : Status(k)' = Status(k),
         \A k \in Names : Processes(k)' = Processes(k)
  PROVE  /\ [k \in Names |-> Status(k)]'
              = [[k \in Names |-> Status(k)] EXCEPT ![n] = to]
         /\ [k \in Names |-> Processes(k)]' = [k \in Names |-> Processes(k)]
  OBVIOUS

LEMMA OnlyLive ==
  ASSUME NEW n \in Names, NEW to, Processes(n)' = to,
         \A k \in Names \ {n} : Processes(k)' = Processes(k),
         \A k \in Names : Status(k)' = Status(k)
  PROVE  /\ [k \in Names |-> Processes(k)]'
              = [[k \in Names |-> Processes(k)] EXCEPT ![n] = to]
         /\ [k \in Names |-> Status(k)]' = [k \in Names |-> Status(k)]
  OBVIOUS

LEMMA Unobserved ==
  ASSUME \A k \in Names : Status(k)' = Status(k) /\ Processes(k)' = Processes(k)
  PROVE  UNCHANGED Lifecycle!vars
  BY DEF Lifecycle!vars

\* A name's only process is that of its only task.
LEMMA ProcessesOf ==
  ASSUME CarefulInv, NEW n \in Names
  PROVE  /\ ~Unfinished(n) => Processes(n) = {}
         /\ \A t \in Task : Tracked(t) /\ job[t].name = n =>
              Processes(n) = IF Alive(t) THEN {t} ELSE {}
<1>1. \A s \in Task : Alive(s) => Tracked(s)
  BY AliveIsTracked DEF Tracked
<1> QED
  BY <1>1 DEF CarefulInv, GenerationInv, Generations, OwnsEntry, Processes

\* Tasks and processes that stay what they are to a client.
LEMMA SameProcesses ==
  ASSUME job' = job, \A t \in Task : Alive(t)' = Alive(t), NEW n \in Names
  PROVE  Processes(n)' = Processes(n)
  BY DEF Processes

LEMMA SpawnIsAccept ==
  ASSUME CarefulInv, NEW n \in Names, NEW m \in Manifests, SpawnReplica(n, m)
  PROVE  Lifecycle!Next
<1>1. PICK t \in Task : /\ Fresh(t)
                        /\ job' = [job EXCEPT ![t] = [name |-> n, manifest |-> m]]
  BY DEF SpawnReplica
<1>2. /\ map' = [map EXCEPT ![n] = Placeholder(m)] /\ ~Unfinished(n)
      /\ proc' = proc /\ TypeOK
  BY DEF SpawnReplica, CarefulInv, TypeInv
<1>3. ~Alive(t)
  BY <1>1 DEF Fresh, CarefulInv, ProcInv, Alive
<1>4. \A k \in Names : Processes(k)' = Processes(k)
  BY <1>1, <1>2, <1>3 DEF Processes, Alive, TypeOK
<1>5. Placeholder(m) # None
  BY PlaceholderType, DaemonAssumption
<1>6. /\ Status(n)' = "building" /\ Status(n) \in {"absent", "exited"}
      /\ \A k \in Names \ {n} : Status(k)' = Status(k)
  BY <1>2, <1>5 DEF Status, Unfinished, Placeholder, TypeOK
<1>7. Processes(n) = {}
  BY <1>2, ProcessesOf
<1>8. Lifecycle!Accept(n)
  BY <1>4, <1>6, <1>7, OnlyStatus
     DEF Lifecycle!Accept, Lifecycle!Idle, Lifecycle!SetStatus
<1> QED
  BY <1>8 DEF Lifecycle!Next

LEMMA StopIsUnobserved ==
  ASSUME CarefulInv, NEW S \in SUBSET {n \in Names : map[n] # None}, StopThese(S)
  PROVE  UNCHANGED Lifecycle!vars
<1>1. \A t \in Task : Alive(t)' = Alive(t)
  BY DEF StopThese, SigKill, Alive
<1>2. ASSUME NEW n \in Names
      PROVE  Status(n)' = Status(n)
  <2>1. CASE n \in S
    <3>1. map[n] \in Entry /\ map'[n] = [map[n] EXCEPT !.proxies = {}]
      BY <2>1 DEF StopThese, CarefulInv, TypeInv, TypeOK
    <3>2. map'[n] \in Entry
      BY <3>1, EntryDrained
    <3> QED
      BY <3>1, <3>2, DaemonAssumption DEF Status, Entry
  <2>2. CASE n \notin S
    BY <2>2 DEF StopThese, Status
  <2> QED
    BY <2>1, <2>2
<1> QED
  BY <1>1, <1>2, SameProcesses, Unobserved DEF StopThese, taskVars

LEMMA TaskImplements ==
  ASSUME CarefulInv, NEW t \in Task, TaskStep(t), NEW n \in Names, job[t].name = n
  PROVE  Lifecycle!Next \/ UNCHANGED Lifecycle!vars
<1>0. TypeOK /\ ProcInv /\ GenerationInv
  BY DEF CarefulInv, TypeInv
<1>1. job' = job /\ Tracked(t)
  BY DEF TaskStep, EnsureBaseImage, EnsureOverlay, CreateLog, BindPort,
         BindFails, MakeFifo, Launch, LaunchFails, WritePid, WriteManifest,
         Publish, Reap, RecordExit, Unregister, Goto, Tracked
<1>2. /\ map[n] # None /\ ~map[n].exit /\ map[n] \in Entry
      /\ IF pc[t] \in {"wait", "record"}
         THEN map[n].pid = t /\ ~map[n].building
         ELSE map[n].pid = 0 /\ map[n].building
  BY <1>0, <1>1, LocalProxiesType
     DEF CarefulInv, Tracked, GenerationInv, Generations, OwnsEntry, Unfinished,
         TypeOK
<1>3. Processes(n) = IF Alive(t) THEN {t} ELSE {}
  BY <1>1, <1>2, ProcessesOf
<1>4. CASE Launch(t)
  <2>1. /\ pc[t] = "launch" /\ proc' = [proc EXCEPT ![t] = "alive"] /\ map' = map
    BY <1>4 DEF Launch, Goto
  <2>2. Processes(n) = {} /\ Status(n) = "building"
    BY <1>0, <1>2, <1>3, <2>1 DEF ProcInv, Alive, Status
  <2>3. Processes(n)' = {t}
    BY <1>0, <1>1, <2>1, <2>2 DEF Processes, Alive, TypeOK
  <2>4. \A k \in Names \ {n} : Processes(k)' = Processes(k)
    BY <1>0, <1>1, <2>1 DEF Processes, Alive, TypeOK
  <2>5. \A k \in Names : Status(k)' = Status(k)
    BY <2>1 DEF Status
  <2>6. Lifecycle!Launch(n, t)
    BY <1>2, <2>2, <2>3, <2>4, <2>5, OnlyLive DEF Lifecycle!Launch
  <2> QED
    BY <1>2, <2>6 DEF Lifecycle!Next
<1>5. CASE Publish(t)
  <2>1. /\ pc[t] = "publish" /\ proc' = proc
        /\ map' = [map EXCEPT ![n] = [map[n] EXCEPT !.pid = t, !.building = FALSE,
                                                    !.proxies = LocalProxies(t)]]
    BY <1>2, <1>5 DEF Publish, Goto
  <2>2. \A k \in Names : Processes(k)' = Processes(k)
    BY <1>1, <2>1, SameProcesses DEF Alive
  <2>3. map'[n] # None /\ ~map'[n].building /\ ~map'[n].exit
    <3>1. LocalProxies(t) \in SUBSET Ports /\ t \in Pid
      BY <2>1, LocalProxiesType, DaemonAssumption DEF CarefulInv, Task, Pid
    <3>2. [map[n] EXCEPT !.pid = t, !.building = FALSE,
                         !.proxies = LocalProxies(t)] \in Entry
      BY <1>2, <3>1, EntryPublished
    <3> QED
      BY <1>0, <1>2, <2>1, <3>2, DaemonAssumption DEF TypeOK, Entry
  <2>4. /\ Status(n) = "building" /\ Status(n)' = "running"
        /\ \A k \in Names \ {n} : Status(k)' = Status(k)
    BY <1>0, <1>2, <2>1, <2>3 DEF Status, TypeOK
  <2>5. Lifecycle!Announce(n)
    BY <1>2, <2>2, <2>4, OnlyStatus DEF Lifecycle!Announce, Lifecycle!SetStatus
  <2> QED
    BY <1>2, <2>5 DEF Lifecycle!Next
<1>6. CASE RecordExit(t)
  <2>1. /\ pc[t] = "record" /\ proc' = proc
        /\ map' = [map EXCEPT ![n] = [map[n] EXCEPT !.proxies = {}, !.exit = TRUE]]
    BY <1>2, <1>6 DEF RecordExit, Goto
  <2>2. \A k \in Names : Processes(k)' = Processes(k)
    BY <1>1, <2>1, SameProcesses DEF Alive
  <2>3. map'[n] # None /\ map'[n].exit
    <3>1. [map[n] EXCEPT !.proxies = {}, !.exit = TRUE] \in Entry
      BY <1>2, EntryDrained
    <3> QED
      BY <1>0, <1>2, <2>1, <3>1, DaemonAssumption DEF TypeOK, Entry
  <2>4. /\ Status(n) = "running" /\ Status(n)' = "exited"
        /\ \A k \in Names \ {n} : Status(k)' = Status(k)
    BY <1>0, <1>2, <2>1, <2>3 DEF Status, TypeOK
  <2>5. Processes(n) = {}
    BY <1>0, <1>3, <2>1 DEF ProcInv, Alive
  <2>6. Lifecycle!NoticeExit(n)
    BY <1>2, <2>2, <2>4, <2>5, OnlyStatus
       DEF Lifecycle!NoticeExit, Lifecycle!Idle, Lifecycle!SetStatus
  <2> QED
    BY <1>2, <2>6 DEF Lifecycle!Next
<1>7. CASE Unregister(t)
  <2>1. pc[t] = "unregister" /\ proc' = proc /\ map' = [map EXCEPT ![n] = None]
    BY <1>7 DEF Unregister, Goto
  <2>2. \A k \in Names : Processes(k)' = Processes(k)
    BY <1>1, <2>1, SameProcesses DEF Alive
  <2>3. /\ Status(n) = "building" /\ Status(n)' = "absent"
        /\ \A k \in Names \ {n} : Status(k)' = Status(k)
    BY <1>0, <1>2, <2>1 DEF Status, TypeOK
  <2>4. Processes(n) = {}
    BY <1>0, <1>3, <2>1 DEF ProcInv, Alive
  <2>5. Lifecycle!GiveUp(n)
    BY <1>2, <2>2, <2>3, <2>4, OnlyStatus
       DEF Lifecycle!GiveUp, Lifecycle!Idle, Lifecycle!SetStatus
  <2> QED
    BY <1>2, <2>5 DEF Lifecycle!Next
<1>8. CASE map' = map /\ \A s \in Task : Alive(s)' = Alive(s)
  <2>1. \A k \in Names : Status(k)' = Status(k) /\ Processes(k)' = Processes(k)
    BY <1>1, <1>8, SameProcesses DEF Status
  <2> QED
    BY <2>1, Unobserved
<1> QED
  BY <1>0, <1>4, <1>5, <1>6, <1>7, <1>8
     DEF TaskStep, EnsureBaseImage, EnsureOverlay, CreateLog, BindPort, BindFails,
         MakeFifo, LaunchFails, WritePid, WriteManifest, Reap, Alive, TypeOK

LEMMA ExitImplements ==
  ASSUME CarefulInv, NEW t \in Task, ProcessExits(t), NEW n \in Names, job[t].name = n
  PROVE  Lifecycle!Next
<1>0. TypeOK
  BY DEF CarefulInv, TypeInv
<1>1. Alive(t) /\ proc' = [proc EXCEPT ![t] = "zombie"] /\ map' = map /\ job' = job
  BY DEF ProcessExits, taskVars
<1>2. Tracked(t)
  BY <1>1, AliveIsTracked DEF Tracked
<1>3. Processes(n) = {t}
  BY <1>1, <1>2, ProcessesOf
<1>4. \A s \in Task : Alive(s)' <=> Alive(s) /\ s # t
  BY <1>0, <1>1 DEF Alive, TypeOK
<1>5. Processes(n)' = {}
  BY <1>1, <1>3, <1>4 DEF Processes
<1>6. \A k \in Names \ {n} : Processes(k)' = Processes(k)
  BY <1>1, <1>4 DEF Processes
<1>7. \A k \in Names : Status(k)' = Status(k)
  BY <1>1 DEF Status
<1>8. Lifecycle!Die(n)
  BY <1>5, <1>6, <1>7, OnlyLive DEF Lifecycle!Die
<1> QED
  BY <1>8 DEF Lifecycle!Next

LEMMA RemoveImplements ==
  ASSUME CarefulInv, NEW n \in Names, RmStopped(n)
  PROVE  Lifecycle!Next
<1>0. TypeOK
  BY DEF CarefulInv, TypeInv
<1>1. Exited(n) /\ map' = [map EXCEPT ![n] = None] /\ job' = job /\ proc' = proc
  BY DEF RmStopped, Rm, taskVars
<1>2. /\ Status(n) = "exited" /\ Status(n)' = "absent"
      /\ \A k \in Names \ {n} : Status(k)' = Status(k)
  BY <1>0, <1>1 DEF Exited, Status, TypeOK
<1>3. Processes(n) = {}
  BY <1>1, ProcessesOf DEF Exited, Unfinished
<1>4. \A k \in Names : Processes(k)' = Processes(k)
  BY <1>1, SameProcesses DEF Alive
<1>5. Lifecycle!Remove(n)
  BY <1>2, <1>3, <1>4, OnlyStatus
     DEF Lifecycle!Remove, Lifecycle!Idle, Lifecycle!SetStatus
<1> QED
  BY <1>5 DEF Lifecycle!Next

LEMMA StepImplements ==
  ASSUME CarefulInv, [CarefulNext]_vars
  PROVE  Lifecycle!Next \/ UNCHANGED Lifecycle!vars
<1>0. TypeOK
  BY DEF CarefulInv, TypeInv
<1>1. CASE UNCHANGED <<map, job, proc>>
  <2>1. \A k \in Names : Status(k)' = Status(k) /\ Processes(k)' = Processes(k)
    BY <1>1 DEF Status, Processes, Alive
  <2> QED
    BY <2>1, Unobserved
<1>2. ASSUME NEW t \in Task, ProcessExits(t)
      PROVE  Lifecycle!Next
  <2>1. Tracked(t)
    BY <1>2, AliveIsTracked DEF ProcessExits, Tracked
  <2>2. PICK n \in Names : job[t].name = n
    BY <2>1, LocalProxiesType DEF CarefulInv, Tracked
  <2> QED
    BY <1>2, <2>2, ExitImplements
<1>3. ASSUME NEW t \in Task, TaskStep(t)
      PROVE  Lifecycle!Next \/ UNCHANGED Lifecycle!vars
  <2>1. pc[t] # "idle"
    BY <1>3 DEF TaskStep, EnsureBaseImage, EnsureOverlay, CreateLog, BindPort,
       BindFails, MakeFifo, Launch, LaunchFails, WritePid, WriteManifest,
       Publish, Reap, RecordExit, Unregister, Goto
  <2>2. PICK n \in Names : job[t].name = n
    BY <2>1, LocalProxiesType DEF CarefulInv
  <2> QED
    BY <1>3, <2>2, TaskImplements
<1>4. ASSUME NEW c \in Clients, StartSpawn(c)
      PROVE  Lifecycle!Next
  <2>1. PICK n \in Names, m \in Manifests :
          n = start[c].name /\ m = start[c].manifest
    BY <1>0, <1>4 DEF StartSpawn, TypeOK, Job
  <2>2. SpawnReplica(n, m)
    BY <1>4, <2>1 DEF StartSpawn, SpawnReplica, Unfinished, Placeholder
  <2> QED
    BY <2>2, SpawnIsAccept
<1>5. ASSUME NEW S \in SUBSET {n \in Names : map[n] # None}, StopThese(S)
      PROVE  UNCHANGED Lifecycle!vars
  BY <1>5, StopIsUnobserved
<1> QED
  BY <1>1, <1>2, <1>3, <1>4, <1>5, SpawnIsAccept, RemoveImplements
     DEF CarefulNext, Serve, Environment, Run, StartRead, StartRefused, Stop, StopAll,
         ListenerDropped, taskVars, vars

\* With Rm on stopped containers only, what clients see of a name, and the
\* processes it has, follow the abstract life cycle.
THEOREM ImplementsLifecycle == CarefulSpec => LifecycleSpec
<1>1. Init => Lifecycle!Init
  BY DEF Init, Lifecycle!Init, Status, Processes, Alive
<1>2. CarefulInv /\ [CarefulNext]_vars => [Lifecycle!Next]_(Lifecycle!vars)
  BY StepImplements
<1> QED
  BY <1>1, <1>2, CarefulInvariant, PTL DEF CarefulSpec, LifecycleSpec, Lifecycle!Spec
=============================================================================
