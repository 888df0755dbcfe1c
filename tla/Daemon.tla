------------------------------- MODULE Daemon -------------------------------
(***************************************************************************)
(* The container lifecycle of the engine daemon (src/src/daemon.rs): the   *)
(* map of containers behind one mutex, the background task spawn_replica   *)
(* starts for each accepted Run or Start, the launcher child of that task, *)
(* the proxies listening on the host ports, and the files a restart reads. *)
(*                                                                         *)
(* Every action is one critical section of the map's mutex or one step of  *)
(* a task between two points where another task may be scheduled.  A task  *)
(* and the child it launches share a number: the task's, which stands for  *)
(* the child's pid.  Pids are therefore never reused here.                 *)
(***************************************************************************)
EXTENDS Naturals, Sequences

CONSTANTS
  Names,      \* app_name values: the keys of the map
  Ports,      \* host ports
  Manifests,  \* manifests, each abstracted to its sequence of host ports
  Clients,    \* connections on which a Start may be in progress
  MaxSpawns,  \* bound: how many background tasks may ever be started
  Faults,     \* the steps of a task that the environment may make fail
  None        \* no entry, no job, no directory, no pending Start

Task == 1 .. MaxSpawns
Pid == 0 .. MaxSpawns       \* 0: no process yet

\* A step of the background task, in program order; "unregister" is a task
\* about to remove its name from the map, "abandoned" one that returned
\* without doing so, "done" one with nothing left to do.
PC == {"idle", "base", "overlay", "log", "bind", "launch", "pidfile",
       "manifest", "publish", "wait", "record", "unregister", "abandoned",
       "done"}

Job == [name : Names, manifest : Manifests]
Entry == [pid : Pid, building : BOOLEAN, exit : BOOLEAN,
          proxies : SUBSET Ports, manifest : Manifests]
Directory == [pid : Task, manifest : Manifests \cup {None}]

ASSUME DaemonAssumption ==
  /\ MaxSpawns \in Nat
  /\ Manifests \subseteq Seq(Ports)
  /\ None \notin Job
  /\ None \notin Entry
  /\ None \notin Directory

VARIABLES
  map,       \* Names -> the ContainerState of the name, or None
  pc,        \* Task -> where the background task is
  job,       \* Task -> the name and manifest the task was started with
  bound,     \* Task -> how many host ports the task has bound
  proc,      \* Task -> the state of the launcher child
  listener,  \* Ports -> the task whose proxy listens there, 0 if none
  aborting,  \* ports whose proxy was aborted and is not yet dropped
  fifo,      \* names whose stdin FIFO exists
  dir,       \* Names -> pid and manifest.json in the container's directory
  start      \* Clients -> the manifest a Start has read, or None

taskVars == <<pc, job, bound>>
netVars == <<listener, aborting>>
diskVars == <<fifo, dir>>
vars == <<map, pc, job, bound, proc, listener, aborting, fifo, dir, start>>

\* Names a client sees as running or building: exit_code is None.
Unfinished(n) == map[n] # None /\ ~map[n].exit
Exited(n) == map[n] # None /\ map[n].exit
Building(n) == Unfinished(n) /\ map[n].building
Running(n) == Unfinished(n) /\ ~map[n].building

\* The status column of Ps.
Status(n) == IF map[n] = None THEN "absent"
             ELSE IF map[n].exit THEN "exited"
             ELSE IF map[n].building THEN "building" ELSE "running"

Alive(t) == proc[t] \in {"alive", "killed"}
Processes(n) == {t \in Task : Alive(t) /\ job[t].name = n}

\* The host ports the task's local proxy_tasks vector has handles for.
HostPorts(m) == {m[i] : i \in 1 .. Len(m)}
LocalProxies(t) == {job[t].manifest[i] : i \in 1 .. bound[t]}

Init ==
  /\ map = [n \in Names |-> None]
  /\ pc = [t \in Task |-> "idle"]
  /\ job = [t \in Task |-> None]
  /\ bound = [t \in Task |-> 0]
  /\ proc = [t \in Task |-> "none"]
  /\ listener = [p \in Ports |-> 0]
  /\ aborting = {}
  /\ fifo = {}
  /\ dir = [n \in Names |-> None]
  /\ start = [c \in Clients |-> None]

-----------------------------------------------------------------------------
(* Requests: handle_request and the critical section of spawn_replica. *)

\* Tasks are numbered in the order they are started.
Fresh(t) == pc[t] = "idle" /\ \A s \in Task : s < t => pc[s] # "idle"

\* The entry spawn_replica puts under the name, replacing an exited one; the
\* handles of the replaced entry are dropped, which does not stop their proxies.
Placeholder(m) == [pid |-> 0, building |-> TRUE, exit |-> FALSE,
                   proxies |-> {}, manifest |-> m]

\* Variant: the check takes a building container for one that is not running.
SpawnOverBuilding(n, m) ==
  /\ ~Running(n)
  /\ \E t \in Task :
       /\ Fresh(t)
       /\ pc' = [pc EXCEPT ![t] = "base"]
       /\ job' = [job EXCEPT ![t] = [name |-> n, manifest |-> m]]
  /\ map' = [map EXCEPT ![n] = Placeholder(m)]
  /\ UNCHANGED <<bound, proc, netVars, diskVars>>

SpawnReplica(n, m) ==
  /\ ~Unfinished(n)
  /\ \E t \in Task :
       /\ Fresh(t)
       /\ pc' = [pc EXCEPT ![t] = "base"]
       /\ job' = [job EXCEPT ![t] = [name |-> n, manifest |-> m]]
  /\ map' = [map EXCEPT ![n] = Placeholder(m)]
  /\ UNCHANGED <<bound, proc, netVars, diskVars>>

\* A Run that finds the name unfinished answers an error and changes nothing.
Run(n, m) == SpawnReplica(n, m) /\ UNCHANGED start

\* Start releases the mutex between reading the manifest and spawning.
StartRead(c, n) ==
  /\ start[c] = None
  /\ map[n] # None
  /\ start' = [start EXCEPT ![c] = [name |-> n, manifest |-> map[n].manifest]]
  /\ UNCHANGED <<map, taskVars, proc, netVars, diskVars>>

StartSpawn(c) ==
  /\ start[c] # None
  /\ SpawnReplica(start[c].name, start[c].manifest)
  /\ start' = [start EXCEPT ![c] = None]

StartRefused(c) ==
  /\ start[c] # None
  /\ Unfinished(start[c].name)
  /\ start' = [start EXCEPT ![c] = None]
  /\ UNCHANGED <<map, taskVars, proc, netVars, diskVars>>

\* Abort drops a proxy at its next poll, so the port is freed some time later.
Abort(ports) == aborting' = aborting \cup ports

SigKill(pids) ==
  proc' = [t \in Task |->
             IF t \in pids /\ proc[t] = "alive" THEN "killed" ELSE proc[t]]

\* Variant: Stop marks the container exited itself.
StopMarksExited(S) ==
  /\ Abort(UNION {map[n].proxies : n \in S})
  /\ SigKill({map[n].pid : n \in {n \in S : ~map[n].exit}})
  /\ map' = [n \in Names |->
               IF n \in S THEN [map[n] EXCEPT !.proxies = {}, !.exit = TRUE]
               ELSE map[n]]
  /\ UNCHANGED <<taskVars, listener, diskVars, start>>

\* Variant: Stop removes the FIFO itself.
StopRemovesFifo(S) ==
  /\ Abort(UNION {map[n].proxies : n \in S})
  /\ SigKill({map[n].pid : n \in {n \in S : ~map[n].exit}})
  /\ map' = [n \in Names |->
               IF n \in S THEN [map[n] EXCEPT !.proxies = {}] ELSE map[n]]
  /\ fifo' = fifo \ S
  /\ UNCHANGED <<taskVars, listener, dir, start>>

\* Variant: Stop only takes the container off the network.
StopWithoutKill(S) ==
  /\ Abort(UNION {map[n].proxies : n \in S})
  /\ map' = [n \in Names |->
               IF n \in S THEN [map[n] EXCEPT !.proxies = {}] ELSE map[n]]
  /\ UNCHANGED <<taskVars, proc, listener, diskVars, start>>

\* Both forms of Stop drain the handles and kill a process that has a pid and
\* no exit code; the exit code is left to the task that waits for the child.
StopThese(S) ==
  /\ Abort(UNION {map[n].proxies : n \in S})
  /\ SigKill({map[n].pid : n \in {n \in S : ~map[n].exit}})
  /\ map' = [n \in Names |->
               IF n \in S THEN [map[n] EXCEPT !.proxies = {}] ELSE map[n]]
  /\ UNCHANGED <<taskVars, listener, diskVars, start>>

Stop(n) == map[n] # None /\ StopThese({n})

StopAll == StopThese({n \in Names : map[n] # None})

\* Rm refuses a name with a pid and no exit code: a building one has no pid.
Rm(n) ==
  /\ map[n] # None
  /\ ~(map[n].pid > 0 /\ ~map[n].exit)
  /\ dir' = [dir EXCEPT ![n] = None]
  /\ map' = [map EXCEPT ![n] = None]
  /\ UNCHANGED <<taskVars, proc, netVars, fifo, start>>

-----------------------------------------------------------------------------
(* The background task of spawn_replica and the task that waits for its     *)
(* child.                                                                    *)

Goto(t, from, to) == pc[t] = from /\ pc' = [pc EXCEPT ![t] = to]

MayFail(step) == step \in Faults

\* Variant: the error path returns without removing the entry.
EnsureBaseImageAbandons(t) ==
  /\ \/ Goto(t, "base", "overlay")
     \/ MayFail("base") /\ Goto(t, "base", "abandoned")
  /\ UNCHANGED <<map, job, bound, proc, netVars, diskVars, start>>

EnsureBaseImage(t) ==
  /\ \/ Goto(t, "base", "overlay")
     \/ MayFail("base") /\ Goto(t, "base", "unregister")
  /\ UNCHANGED <<map, job, bound, proc, netVars, diskVars, start>>

EnsureOverlay(t) ==
  /\ \/ Goto(t, "overlay", "log")
     \/ MayFail("overlay") /\ Goto(t, "overlay", "unregister")
  /\ UNCHANGED <<map, job, bound, proc, netVars, diskVars, start>>

\* The failures of the log file return without touching the map.
CreateLog(t) ==
  /\ \/ Goto(t, "log", "bind")
     \/ MayFail("log") /\ Goto(t, "log", "abandoned")
  /\ UNCHANGED <<map, job, bound, proc, netVars, diskVars, start>>

MorePorts(t) == bound[t] < Len(job[t].manifest)
NextPort(t) == job[t].manifest[bound[t] + 1]

BindPort(t) ==
  /\ pc[t] = "bind"
  /\ MorePorts(t)
  /\ listener[NextPort(t)] = 0
  /\ listener' = [listener EXCEPT ![NextPort(t)] = t]
  /\ bound' = [bound EXCEPT ![t] = @ + 1]
  /\ UNCHANGED <<map, pc, job, proc, aborting, diskVars, start>>

\* Variant: a port that cannot be bound is skipped, as recovery does.
BindSkips(t) ==
  /\ pc[t] = "bind"
  /\ MorePorts(t)
  /\ listener[NextPort(t)] # 0 \/ MayFail("bind")
  /\ bound' = [bound EXCEPT ![t] = @ + 1]
  /\ UNCHANGED <<map, pc, job, proc, netVars, diskVars, start>>

\* A port that is taken, or that the host refuses: the task gives up and its
\* proxy_tasks are dropped, which leaves the ports bound before listening.
BindFails(t) ==
  /\ pc[t] = "bind"
  /\ MorePorts(t)
  /\ listener[NextPort(t)] # 0 \/ MayFail("bind")
  /\ Goto(t, "bind", "unregister")
  /\ UNCHANGED <<map, job, bound, proc, netVars, diskVars, start>>

\* The FIFO of before is removed and a new one is made; if that fails the
\* container is launched without one.
MakeFifo(t) ==
  /\ Goto(t, "bind", "launch")
  /\ ~MorePorts(t)
  /\ \/ fifo' = fifo \cup {job[t].name}
     \/ MayFail("fifo") /\ fifo' = fifo \ {job[t].name}
  /\ UNCHANGED <<map, job, bound, proc, netVars, dir, start>>

Launch(t) ==
  /\ Goto(t, "launch", "pidfile")
  /\ proc' = [proc EXCEPT ![t] = "alive"]
  /\ UNCHANGED <<map, job, bound, netVars, diskVars, start>>

LaunchFails(t) ==
  /\ MayFail("launch")
  /\ Goto(t, "launch", "unregister")
  /\ UNCHANGED <<map, job, bound, proc, netVars, diskVars, start>>

\* Variant: the pid of a child that has already been polled to its end.
WriteNoPid(t) ==
  LET n == job[t].name
      old == IF dir[n] = None THEN None ELSE dir[n].manifest
  IN /\ Goto(t, "pidfile", "manifest")
     /\ dir' = [dir EXCEPT ![n] = [pid |-> 0, manifest |-> old]]
     /\ UNCHANGED <<map, job, bound, proc, netVars, fifo, start>>

\* create_dir_all and the pid file; a manifest.json of before is kept, and a
\* failure is ignored.
WritePid(t) ==
  LET n == job[t].name
      old == IF dir[n] = None THEN None ELSE dir[n].manifest
  IN /\ Goto(t, "pidfile", "manifest")
     /\ \/ dir' = [dir EXCEPT ![n] = [pid |-> t, manifest |-> old]]
        \/ MayFail("disk") /\ UNCHANGED dir
     /\ UNCHANGED <<map, job, bound, proc, netVars, fifo, start>>

\* Variant: a manifest.json of an earlier container is not overwritten.
WriteManifestOnce(t) ==
  LET n == job[t].name
  IN /\ Goto(t, "manifest", "publish")
     /\ \/ /\ dir[n] # None /\ dir[n].manifest = None
           /\ dir' = [dir EXCEPT ![n] = [@ EXCEPT !.manifest = job[t].manifest]]
        \/ /\ dir[n] = None \/ dir[n].manifest # None
           /\ UNCHANGED dir
     /\ UNCHANGED <<map, job, bound, proc, netVars, fifo, start>>

\* The write fails, unnoticed, when the directory has been removed meanwhile.
WriteManifest(t) ==
  LET n == job[t].name
  IN /\ Goto(t, "manifest", "publish")
     /\ \/ /\ dir[n] # None
           /\ dir' = [dir EXCEPT ![n] = [@ EXCEPT !.manifest = job[t].manifest]]
        \/ /\ dir[n] = None \/ MayFail("disk")
           /\ UNCHANGED dir
     /\ UNCHANGED <<map, job, bound, proc, netVars, fifo, start>>

\* Variant: the handles stay in the task's vector, and are dropped with it.
PublishWithoutProxies(t) ==
  LET n == job[t].name
  IN /\ Goto(t, "publish", "wait")
     /\ map' = IF map[n] = None THEN map
               ELSE [map EXCEPT ![n] = [@ EXCEPT !.pid = t, !.building = FALSE]]
     /\ UNCHANGED <<job, bound, proc, netVars, diskVars, start>>

\* Whatever entry is under the name gets the pid and the proxies; with no
\* entry the handles are dropped and the proxies go on listening.
Publish(t) ==
  LET n == job[t].name
  IN /\ Goto(t, "publish", "wait")
     /\ map' = IF map[n] = None THEN map
               ELSE [map EXCEPT ![n] = [@ EXCEPT !.pid = t, !.building = FALSE,
                                                 !.proxies = LocalProxies(t)]]
     /\ UNCHANGED <<job, bound, proc, netVars, diskVars, start>>

\* Variant: an early return on what wait reports.
ReapAndReturn(t) ==
  /\ proc[t] = "zombie"
  /\ Goto(t, "wait", "abandoned")
  /\ proc' = [proc EXCEPT ![t] = "reaped"]
  /\ UNCHANGED <<map, job, bound, netVars, diskVars, start>>

\* child.wait returns: the child has been reaped.
Reap(t) ==
  /\ proc[t] = "zombie"
  /\ Goto(t, "wait", "record")
  /\ proc' = [proc EXCEPT ![t] = "reaped"]
  /\ UNCHANGED <<map, job, bound, netVars, diskVars, start>>

\* Variant: the handles are dropped, not aborted.
RecordExitWithoutAbort(t) ==
  LET n == job[t].name
  IN /\ Goto(t, "record", "done")
     /\ IF map[n] = None
        THEN UNCHANGED <<map, fifo>>
        ELSE /\ map' = [map EXCEPT ![n] = [@ EXCEPT !.proxies = {}, !.exit = TRUE]]
             /\ fifo' = fifo \ {n}
     /\ UNCHANGED <<job, bound, proc, netVars, dir, start>>

\* Variant: the handles are aborted, and stay in the entry.
RecordExitWithoutDrain(t) ==
  LET n == job[t].name
  IN /\ Goto(t, "record", "done")
     /\ IF map[n] = None
        THEN UNCHANGED <<map, aborting, fifo>>
        ELSE /\ Abort(map[n].proxies)
             /\ map' = [map EXCEPT ![n] = [@ EXCEPT !.exit = TRUE]]
             /\ fifo' = fifo \ {n}
     /\ UNCHANGED <<job, bound, proc, listener, dir, start>>

\* Whatever entry is under the name is marked exited.
RecordExit(t) ==
  LET n == job[t].name
  IN /\ Goto(t, "record", "done")
     /\ IF map[n] = None
        THEN UNCHANGED <<map, aborting, fifo>>
        ELSE /\ Abort(map[n].proxies)
             /\ map' = [map EXCEPT ![n] = [@ EXCEPT !.proxies = {}, !.exit = TRUE]]
             /\ fifo' = fifo \ {n}
     /\ UNCHANGED <<job, bound, proc, listener, dir, start>>

\* Variant: the error paths leave an exited entry.
UnregisterAsExited(t) ==
  /\ Goto(t, "unregister", "done")
  /\ map' = IF map[job[t].name] = None THEN map
            ELSE [map EXCEPT ![job[t].name] = [@ EXCEPT !.exit = TRUE]]
  /\ UNCHANGED <<job, bound, proc, netVars, diskVars, start>>

\* map.remove on the error paths, whatever entry is under the name.
Unregister(t) ==
  /\ Goto(t, "unregister", "done")
  /\ map' = [map EXCEPT ![job[t].name] = None]
  /\ UNCHANGED <<job, bound, proc, netVars, diskVars, start>>

-----------------------------------------------------------------------------
(* The environment: the kernel and the runtime. *)

\* A container ends by itself, or of the signal it was sent.
ProcessExits(t) ==
  /\ Alive(t)
  /\ proc' = [proc EXCEPT ![t] = "zombie"]
  /\ UNCHANGED <<map, taskVars, netVars, diskVars, start>>

KilledExits(t) == proc[t] = "killed" /\ ProcessExits(t)

\* The runtime drops an aborted proxy and its listening socket is closed.
ListenerDropped(p) ==
  /\ p \in aborting
  /\ aborting' = aborting \ {p}
  /\ listener' = [listener EXCEPT ![p] = 0]
  /\ UNCHANGED <<map, taskVars, proc, diskVars, start>>

-----------------------------------------------------------------------------
TaskStep(t) ==
  \/ EnsureBaseImage(t)
  \/ EnsureOverlay(t)
  \/ CreateLog(t)
  \/ BindPort(t)
  \/ BindFails(t)
  \/ MakeFifo(t)
  \/ Launch(t)
  \/ LaunchFails(t)
  \/ WritePid(t)
  \/ WriteManifest(t)
  \/ Publish(t)
  \/ Reap(t)
  \/ RecordExit(t)
  \/ Unregister(t)

\* A task waiting for the image or the layer of its manifest.
InCaches(t) == pc[t] \in {"base", "overlay"}

\* What a task does by itself: a call of the caches may never return.
OwnStep(t) == ~InCaches(t) /\ TaskStep(t)

Environment ==
  \/ \E t \in Task : ProcessExits(t)
  \/ \E p \in Ports : ListenerDropped(p)

\* The requests that change state, but for Stop of one name and Rm.
Serve ==
  \/ \E n \in Names, m \in Manifests : Run(n, m)
  \/ \E c \in Clients, n \in Names : StartRead(c, n)
  \/ \E c \in Clients : StartSpawn(c) \/ StartRefused(c)
  \/ StopAll

Next ==
  \/ \E t \in Task : TaskStep(t)
  \/ Environment
  \/ Serve
  \/ \E n \in Names : Stop(n) \/ Rm(n)

\* Clients that use Rm as the command line documents it, "Remove a stopped
\* container" (src/src/main.rs:42): only on a name Ps lists as exited.
RmStopped(n) == Exited(n) /\ Rm(n)

CarefulNext ==
  \/ \E t \in Task : TaskStep(t)
  \/ Environment
  \/ Serve
  \/ \E n \in Names : Stop(n) \/ RmStopped(n)

\* A task is polled as long as it can go on (the map's mutex is a fair queue),
\* a killed process dies and the runtime gets to an aborted proxy.  Nothing
\* obliges a call of the caches to return (overlay.rs:242, 448), a container to
\* end by itself or a client to send a request.
Fairness ==
  /\ \A t \in Task : WF_vars(OwnStep(t)) /\ WF_vars(KilledExits(t))
  /\ \A p \in Ports : WF_vars(ListenerDropped(p))
  /\ \A c \in Clients : WF_vars(StartSpawn(c) \/ StartRefused(c))

Spec == Init /\ [][Next]_vars
CarefulSpec == Init /\ [][CarefulNext]_vars

-----------------------------------------------------------------------------
TypeOK ==
  /\ map \in [Names -> Entry \cup {None}]
  /\ pc \in [Task -> PC]
  /\ job \in [Task -> Job \cup {None}]
  /\ bound \in [Task -> Nat]
  /\ proc \in [Task -> {"none", "alive", "killed", "zombie", "reaped"}]
  /\ listener \in [Ports -> Pid]
  /\ aborting \subseteq Ports
  /\ fifo \subseteq Names
  /\ dir \in [Names -> Directory \cup {None}]
  /\ start \in [Clients -> Job \cup {None}]

(* What holds whatever the clients do. *)

\* Stop kills by the pid in the entry.  The kernel cannot have given that pid to
\* another process, as its own has not been reaped, but for the time between
\* the return of child.wait and the mutex being taken to record the exit
\* (daemon.rs:685-703, 809-811).
KilledPidIsHeld ==
  \A n \in Names : Unfinished(n) /\ map[n].pid > 0 =>
    proc[map[n].pid] # "reaped" \/ pc[map[n].pid] = "record"

\* A handle in the map is the handle of a proxy that is still listening, and
\* no other entry holds it: an abort never takes away another name's port
\* (daemon.rs:806-808, 699-702).
HandlesAreExclusive ==
  /\ \A n \in Names : map[n] # None =>
       \A p \in map[n].proxies : listener[p] # 0 /\ p \notin aborting
  /\ \A n, k \in Names : n # k /\ map[n] # None /\ map[k] # None =>
       map[n].proxies \cap map[k].proxies = {}

(* What holds when Rm is used on stopped containers only. *)

\* Two launchers of one name never live at the same time, whatever Runs,
\* Starts, Stops and exits interleave (the check of daemon.rs:470-475).  The
\* container of the earlier one may still be dying: see Container.
OneProcessPerName ==
  \A s, t \in Task : Alive(s) /\ Alive(t) /\ job[s].name = job[t].name => s = t

\* Every live process is one Stop can reach, or will be once its task has
\* published it: its entry is there, unfinished, and holds its pid or is the
\* placeholder its task is about to fill in (daemon.rs:675-683).
NoOrphan ==
  \A t \in Task : Alive(t) =>
    LET n == job[t].name
    IN /\ Unfinished(n)
       /\ IF pc[t] = "wait" THEN map[n].pid = t ELSE map[n].building

\* A running container that nobody stopped is reachable: every host port of
\* its manifest is served by its own proxy, whose handle is in the entry,
\* whatever the end of an earlier container of the name aborts
\* (daemon.rs:698-702).
RunningIsReachable ==
  \A n \in Names : Running(n) /\ proc[map[n].pid] = "alive" =>
    /\ map[n].proxies = HostPorts(map[n].manifest)
    /\ \A p \in map[n].proxies : listener[p] = map[n].pid

\* A live container that was launched with its stdin FIFO keeps it: neither the
\* end of an earlier container of the name, nor a task that is to launch
\* another one, nor a request takes it away (daemon.rs:645-650, 698-704).
FifoIsKept ==
  [][\A t \in Task : proc[t] = "alive" /\ proc'[t] = "alive" =>
       (job[t].name \in fifo => job[t].name \in fifo')]_vars

\* What a restart of the daemon would read is what the map says: the directory
\* of a running container holds its pid and its manifest, provided the files
\* can be written (daemon.rs:664-673).
RunningIsOnDisk ==
  \A n \in Names : Running(n) =>
    dir[n] = [pid |-> map[n].pid, manifest |-> map[n].manifest]

\* An exited container has left nothing behind that could make the next start
\* of the name fail: its process is reaped, its FIFO is gone, and the ports
\* it still occupies are being released (daemon.rs:695-706).
ExitedHoldsNothing ==
  \A n \in Names : Exited(n) =>
    /\ proc[map[n].pid] = "reaped"
    /\ n \notin fifo
    /\ \A p \in Ports : listener[p] = map[n].pid => p \in aborting

\* A container that was launched leaks no port: its proxies' handles are with
\* its task, then in the entry, until they are aborted (daemon.rs:675-683).
\* Only a task that gives up after binding some ports leaves them bound.
LaunchedLeaksNoPort ==
  \A p \in Ports : listener[p] # 0 /\ proc[listener[p]] # "none" =>
    \/ p \in aborting
    \/ pc[listener[p]] \in {"pidfile", "manifest", "publish"}
    \/ p \in map[job[listener[p]].name].proxies

(* Liveness. *)

\* A building container is resolved once its calls of the caches have returned:
\* it runs, or its entry goes away and the name can be run again.  A call that
\* never returns (overlay.rs:242, 448) leaves it building for ever.
BuildingResolves ==
  \A n \in Names :
    Building(n) /\ (\A t \in Task : InCaches(t) => job[t].name # n) ~> ~Building(n)

\* The ports of a container whose exit was recorded become free.
ExitedFreesPorts ==
  \A t \in Task, p \in Ports :
    proc[t] = "reaped" /\ listener[p] = t ~> listener[p] # t

-----------------------------------------------------------------------------
(* What the daemon promises of one name, as an abstract life cycle. *)
Lifecycle == INSTANCE Lifecycle WITH
               Pids <- Task,
               status <- [n \in Names |-> Status(n)],
               live <- [n \in Names |-> Processes(n)]

LifecycleSpec == Lifecycle!Spec
=============================================================================
