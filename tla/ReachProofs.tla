------------------------------ MODULE ReachProofs ------------------------------
(***************************************************************************)
(* Proofs about what the containers of Daemon hold, for any names, ports,  *)
(* manifests and failures.                                                 *)
(*                                                                         *)
(* For all clients: the host ports and the handles of their proxies.  For  *)
(* clients that use Rm on stopped containers only: what a running          *)
(* container has, what an exited one has left, and that no launched        *)
(* container leaks a port.  RunningIsOnDisk needs a disk that can be       *)
(* written.                                                                *)
(***************************************************************************)
EXTENDS DaemonProofs

\* A task whose handles are in its own vector, and one that has published them.
Binding(t) == pc[t] \in {"base", "overlay", "log", "bind", "launch", "pidfile",
                         "manifest", "publish"}
Published(t) == pc[t] \in {"wait", "record", "done"}

\* A task holds handles of proxies of its own that listen.
LocalInv ==
  \A t \in Task : Binding(t) =>
    \A p \in LocalProxies(t) : listener[p] = t /\ p \notin aborting

\* So does an entry, of proxies of the task whose pid it shows.
EntryInv ==
  \A n \in Names : map[n] # None =>
    \A p \in map[n].proxies :
      /\ map[n].pid \in Task
      /\ Published(map[n].pid)
      /\ listener[p] = map[n].pid
      /\ p \notin aborting

\* A proxy that is being aborted still listens.
AbortInv == \A p \in aborting : listener[p] # 0

PortInv == LocalInv /\ EntryInv /\ AbortInv

LEMMA PortInit == Init => PortInv
  BY DEF Init, PortInv, LocalInv, EntryInv, AbortInv, Binding

\* Steps that neither bind nor abort, and give no handle away.
LEMMA PortsKept ==
  ASSUME PortInv, listener' = listener, aborting' = aborting,
         \A t \in Task : Binding(t)' =>
           \/ Binding(t) /\ LocalProxies(t)' = LocalProxies(t)
           \/ LocalProxies(t)' = {},
         \A t \in Task : Published(t) => Published(t)',
         \A n \in Names : map'[n] # None =>
           \/ map'[n].proxies = {}
           \/ /\ map[n] # None
              /\ map'[n].proxies = map[n].proxies
              /\ map'[n].pid = map[n].pid
  PROVE  PortInv'
<1>1. LocalInv'
  BY DEF PortInv, LocalInv
<1>2. EntryInv'
  BY DEF PortInv, EntryInv
<1>3. AbortInv'
  BY DEF PortInv, AbortInv
<1> QED
  BY <1>1, <1>2, <1>3 DEF PortInv

\* Steps that abort the proxies whose handles they take out of the entries of S.
LEMMA PortsAborted ==
  ASSUME TypeInv, PidInv, PortInv, job' = job, bound' = bound, listener' = listener,
         NEW S \in SUBSET {n \in Names : map[n] # None},
         aborting' = aborting \cup UNION {map[n].proxies : n \in S},
         \A t \in Task : Binding(t)' => Binding(t),
         \A t \in Task : Published(t) => Published(t)',
         \A n \in S : map'[n].proxies = {},
         \A n \in Names \ S : map'[n] = map[n]
  PROVE  PortInv'
<1>1. ASSUME NEW n \in S, NEW p \in map[n].proxies
      PROVE  /\ map[n].pid \in Task
             /\ Published(map[n].pid)
             /\ listener[p] = map[n].pid
             /\ job[map[n].pid].name = n
  <2>1. map[n].pid \in Task /\ Published(map[n].pid) /\ listener[p] = map[n].pid
    BY <1>1 DEF PortInv, EntryInv
  <2> QED
    BY <2>1, DaemonAssumption DEF PidInv, PidIsOfItsName, Task
<1>2. LocalInv'
  \* What is aborted has been published, by a task that binds no more.
  BY <1>1 DEF PortInv, LocalInv, LocalProxies, Binding, Published
<1>3. EntryInv'
  <2>1. ASSUME NEW n \in Names, map'[n] # None, NEW p \in map'[n].proxies
        PROVE  /\ map[n] # None /\ map'[n] = map[n] /\ p \notin aborting'
               /\ map[n].pid \in Task
               /\ Published(map[n].pid)'
               /\ listener[p] = map[n].pid
    <3>1. n \notin S /\ map'[n] = map[n]
      BY <2>1
    <3>2. /\ map[n].pid \in Task
          /\ Published(map[n].pid)
          /\ listener[p] = map[n].pid
          /\ p \notin aborting
      BY <2>1, <3>1 DEF PortInv, EntryInv
    <3>3. pc'[map[n].pid] \in {"wait", "record", "done"}
      BY <3>2 DEF Published
    <3>4. job[map[n].pid].name = n
      BY <2>1, <3>1, <3>2, DaemonAssumption DEF PidInv, PidIsOfItsName, Task
    <3>5. ASSUME NEW k \in S, p \in map[k].proxies
          PROVE  FALSE
      \* It would be the proxy of one task of two names.
      <4>1. job[listener[p]].name = k
        BY <1>1, <3>5
      <4> QED
        BY <3>1, <3>2, <3>4, <4>1
    <3> QED
      BY <2>1, <3>1, <3>2, <3>3, <3>5 DEF Published
  <2> QED
    BY <2>1 DEF EntryInv, Published
<1>4. AbortInv'
  BY <1>1, DaemonAssumption DEF PortInv, AbortInv, Task
<1> QED
  BY <1>2, <1>3, <1>4 DEF PortInv

LEMMA SpawnPorts ==
  ASSUME TypeInv, PortInv, NEW n \in Names, NEW m \in Manifests, SpawnReplica(n, m)
  PROVE  PortInv'
<1>1. PICK t \in Task : /\ Fresh(t)
                        /\ pc' = [pc EXCEPT ![t] = "base"]
                        /\ job' = [job EXCEPT ![t] = [name |-> n, manifest |-> m]]
  BY DEF SpawnReplica
<1>2. /\ map' = [map EXCEPT ![n] = Placeholder(m)]
      /\ bound' = bound /\ listener' = listener /\ aborting' = aborting
  BY DEF SpawnReplica, netVars
\* The new task has bound no port yet.
<1>3. ASSUME NEW s \in Task, Binding(s)'
      PROVE  \/ Binding(s) /\ LocalProxies(s)' = LocalProxies(s)
             \/ LocalProxies(s)' = {}
  <2>1. CASE s = t
    <3>1. bound[t] = 0
      BY <1>1 DEF Fresh, TypeInv, JobInv
    <3> QED
      BY <1>2, <2>1, <3>1 DEF LocalProxies
  <2>2. CASE s # t
    BY <1>1, <1>2, <1>3, <2>2 DEF Binding, LocalProxies, TypeInv, TypeOK
  <2> QED
    BY <2>1, <2>2
<1>4. ASSUME NEW s \in Task, Published(s)
      PROVE  Published(s)'
  BY <1>1, <1>4 DEF Published, Fresh, TypeInv, TypeOK
<1>5. ASSUME NEW k \in Names, map'[k] # None
      PROVE  \/ map'[k].proxies = {}
             \/ /\ map[k] # None
                /\ map'[k].proxies = map[k].proxies
                /\ map'[k].pid = map[k].pid
  BY <1>2, <1>5 DEF Placeholder, TypeInv, TypeOK
<1> QED
  BY <1>2, <1>3, <1>4, <1>5, PortsKept

\* Requests that change no entry, or take entries out of the map.
LEMMA PortsSeen ==
  ASSUME PortInv, pc' = pc, job' = job, bound' = bound, listener' = listener,
         aborting' = aborting,
         \A n \in Names : map'[n] # None => map'[n] = map[n]
  PROVE  PortInv'
  BY PortsKept DEF Binding, Published, LocalProxies

LEMMA RequestPorts ==
  ASSUME TypeInv, PidInv, PortInv, Serve \/ \E n \in Names : Stop(n) \/ Rm(n)
  PROVE  PortInv'
<1>1. ASSUME NEW n \in Names, NEW m \in Manifests, Run(n, m)
      PROVE  PortInv'
  BY <1>1, SpawnPorts DEF Run
<1>2. ASSUME NEW c \in Clients,
             StartRefused(c) \/ \E n \in Names : StartRead(c, n)
      PROVE  PortInv'
  BY <1>2, PortsSeen DEF StartRead, StartRefused, taskVars, netVars
<1>3. ASSUME NEW c \in Clients, StartSpawn(c)
      PROVE  PortInv'
  <2>1. start[c].name \in Names /\ start[c].manifest \in Manifests
    BY <1>3 DEF StartSpawn, TypeInv, TypeOK, Job
  <2> QED
    BY <1>3, <2>1, SpawnPorts DEF StartSpawn
<1>4. ASSUME NEW S \in SUBSET {n \in Names : map[n] # None}, StopThese(S)
      PROVE  PortInv'
  <2>1. \A n \in S : map'[n].proxies = {}
    BY <1>4 DEF StopThese, TypeInv, TypeOK, Entry
  <2>2. \A n \in Names \ S : map'[n] = map[n]
    BY <1>4 DEF StopThese
  <2>3. aborting' = aborting \cup UNION {map[n].proxies : n \in S}
    BY <1>4 DEF StopThese, Abort
  <2>4. pc' = pc /\ job' = job /\ bound' = bound /\ listener' = listener
    BY <1>4 DEF StopThese, taskVars
  <2> QED
    BY <2>1, <2>2, <2>3, <2>4, PortsAborted DEF Binding, Published
<1>5. ASSUME NEW n \in Names, Rm(n)
      PROVE  PortInv'
  BY <1>5, PortsSeen DEF Rm, TypeInv, TypeOK, taskVars, netVars
<1>6. ASSUME NEW n \in Names, Stop(n)
      PROVE  PortInv'
  BY <1>4, <1>6 DEF Stop
<1>7. CASE StopAll
  BY <1>4, <1>7 DEF StopAll
<1> QED
  BY <1>1, <1>2, <1>3, <1>5, <1>6, <1>7 DEF Serve

LEMMA TaskPorts ==
  ASSUME TypeInv, PidInv, PortInv, NEW t \in Task, TaskStep(t)
  PROVE  PortInv'
<1>1. /\ pc[t] # "idle" /\ job' = job /\ job[t].name \in Names
      /\ \A s \in Task : s # t => pc'[s] = pc[s]
  <2>1. /\ pc[t] # "idle" /\ job' = job
        /\ \A s \in Task : s # t => pc'[s] = pc[s]
    BY DEF TaskStep, EnsureBaseImage, EnsureOverlay, CreateLog, BindPort,
           BindFails, MakeFifo, Launch, LaunchFails, WritePid, WriteManifest,
           Publish, Reap, RecordExit, Unregister, Goto, TypeInv, TypeOK
  <2> QED
    BY <2>1, LocalProxiesType
\* Once published, a task stays so, and none goes back to binding.
<1>2. /\ \A s \in Task : Binding(s)' => Binding(s)
      /\ \A s \in Task : Published(s) => Published(s)'
  BY DEF TaskStep, EnsureBaseImage, EnsureOverlay, CreateLog, BindPort,
         BindFails, MakeFifo, Launch, LaunchFails, WritePid, WriteManifest,
         Publish, Reap, RecordExit, Unregister, Goto, Binding, Published,
         TypeInv, TypeOK
<1>3. CASE UNCHANGED <<map, bound, listener, aborting>>
  BY <1>1, <1>2, <1>3, PortsKept DEF LocalProxies
<1>4. CASE Unregister(t)
  BY <1>1, <1>2, <1>4, PortsKept DEF Unregister, LocalProxies, netVars, TypeInv, TypeOK
<1>5. CASE RecordExit(t) /\ map[job[t].name] # None
  <2> DEFINE n == job[t].name
  <2>1. /\ map[n] # None
        /\ map' = [map EXCEPT ![n] = [@ EXCEPT !.proxies = {}, !.exit = TRUE]]
        /\ aborting' = aborting \cup map[n].proxies
        /\ bound' = bound /\ listener' = listener
    BY <1>5 DEF RecordExit, Abort
  <2>2. map'[n].proxies = {}
    BY <1>1, <2>1 DEF TypeInv, TypeOK, Entry
  <2>3. \A k \in Names \ {n} : map'[k] = map[k]
    BY <2>1 DEF TypeInv, TypeOK
  <2>4. aborting' = aborting \cup UNION {map[k].proxies : k \in {n}}
    BY <2>1
  <2> HIDE DEF n
  <2>5. {n} \in SUBSET {k \in Names : map[k] # None}
    BY <1>1, <2>1 DEF n
  <2> QED
    BY <1>1, <1>2, <2>1, <2>2, <2>3, <2>4, <2>5, PortsAborted
<1>6. CASE BindPort(t)
  <2> DEFINE p == NextPort(t)
  <2>1. /\ listener[p] = 0
        /\ listener' = [listener EXCEPT ![p] = t]
        /\ bound' = [bound EXCEPT ![t] = bound[t] + 1]
        /\ map' = map /\ pc' = pc /\ aborting' = aborting
        /\ pc[t] = "bind"
    BY <1>6 DEF BindPort
  <2>2. p \notin aborting
    BY <2>1 DEF PortInv, AbortInv
  <2>3. bound[t] \in Nat
    BY DEF TypeInv, TypeOK
  <2>4. p \in Ports
    BY <1>1, <1>6, <2>3, LocalProxiesType DEF BindPort, NextPort, MorePorts
  <2>5. LocalProxies(t)' = LocalProxies(t) \cup {p}
    BY <1>1, <2>1, <2>3 DEF LocalProxies, NextPort, TypeInv, TypeOK
  <2>6. \A s \in Task : s # t => LocalProxies(s)' = LocalProxies(s)
    BY <1>1, <2>1 DEF LocalProxies, TypeInv, TypeOK
  <2> HIDE DEF p
  <2>7. listener'[p] = t /\ \A q \in Ports : q # p => listener'[q] = listener[q]
    BY <2>1, <2>4 DEF TypeInv, TypeOK
  <2>8. t # 0 /\ 0 \notin Task
    BY DaemonAssumption DEF Task
  <2>9. \A s \in Task : pc[s] # "idle" => LocalProxies(s) \subseteq Ports
    BY LocalProxiesType
  <2>10. LocalInv'
    <3> SUFFICES ASSUME NEW s \in Task, Binding(s)', NEW q \in LocalProxies(s)'
                 PROVE  listener'[q] = s /\ q \notin aborting'
      BY DEF LocalInv
    <3>1. Binding(s) /\ pc[s] # "idle"
      BY <1>2, <2>1 DEF Binding
    <3>2. CASE q \in LocalProxies(s)
      <4>1. listener[q] = s /\ q \notin aborting /\ q \in Ports
        BY <2>9, <3>1, <3>2 DEF PortInv, LocalInv
      <4> QED
        BY <2>1, <2>7, <2>8, <4>1
    <3>3. CASE q \notin LocalProxies(s)
      BY <2>1, <2>2, <2>5, <2>6, <2>7, <3>3
    <3> QED
      BY <3>2, <3>3
  <2>11. EntryInv'
    <3>1. ASSUME NEW n \in Names, map[n] # None, NEW q \in map[n].proxies
          PROVE  /\ listener'[q] = listener[q]
                 /\ map[n].pid \in Task /\ Published(map[n].pid)
                 /\ listener[q] = map[n].pid /\ q \notin aborting
      <4>1. /\ map[n].pid \in Task /\ Published(map[n].pid)
            /\ listener[q] = map[n].pid /\ q \notin aborting
        BY <3>1 DEF PortInv, EntryInv
      <4>2. q \in Ports
        BY <3>1 DEF TypeInv, TypeOK, Entry
      <4> QED
        BY <2>1, <2>7, <2>8, <4>1, <4>2
    <3> QED
      BY <2>1, <3>1 DEF EntryInv, Published
  <2>12. AbortInv'
    BY <2>1, <2>2, <2>7 DEF PortInv, AbortInv, TypeInv, TypeOK
  <2> QED
    BY <2>10, <2>11, <2>12 DEF PortInv
\* The handles of the task become those of the entry, under the task's pid.
<1>7. CASE Publish(t)
  <2> DEFINE n == job[t].name
  <2>1. /\ pc[t] = "publish" /\ pc'[t] = "wait"
        /\ bound' = bound /\ listener' = listener /\ aborting' = aborting
    BY <1>7 DEF Publish, Goto, netVars, TypeInv, TypeOK
  <2>2. LocalInv'
    BY <1>1, <1>2, <2>1 DEF PortInv, LocalInv, LocalProxies
  <2>3. ASSUME NEW k \in Names, map'[k] # None, map'[k] # map[k]
        PROVE  map'[k].pid = t /\ map'[k].proxies = LocalProxies(t)
    BY <1>1, <1>7, <2>3 DEF Publish, TypeInv, TypeOK, Entry
  <2>4. \A p \in LocalProxies(t) : listener[p] = t /\ p \notin aborting
    BY <2>1 DEF PortInv, LocalInv, Binding
  <2>5. EntryInv'
    <3>1. ASSUME NEW k \in Names, map'[k] # None, NEW p \in map'[k].proxies
          PROVE  /\ map'[k].pid \in Task
                 /\ pc'[map'[k].pid] \in {"wait", "record", "done"}
                 /\ listener[p] = map'[k].pid
                 /\ p \notin aborting
      <4>1. CASE map'[k] = map[k]
        BY <1>2, <3>1, <4>1 DEF PortInv, EntryInv, Published
      <4>2. CASE map'[k] # map[k]
        BY <2>1, <2>3, <2>4, <3>1, <4>2
      <4> QED
        BY <4>1, <4>2
    <3> QED
      BY <2>1, <3>1 DEF EntryInv, Published
  <2>6. AbortInv'
    BY <2>1 DEF PortInv, AbortInv
  <2> QED
    BY <2>2, <2>5, <2>6 DEF PortInv
<1> QED
  BY <1>3, <1>4, <1>5, <1>6, <1>7
     DEF TaskStep, EnsureBaseImage, EnsureOverlay, CreateLog, BindFails, MakeFifo,
         Launch, LaunchFails, WritePid, WriteManifest, Reap, RecordExit, netVars

LEMMA PortStep == TypeInv /\ PidInv /\ PortInv /\ [Next]_vars => PortInv'
<1> SUFFICES ASSUME TypeInv, PidInv, PortInv, [Next]_vars
             PROVE  PortInv'
  OBVIOUS
<1>1. CASE UNCHANGED vars
  BY <1>1, PortsSeen DEF vars
<1>2. ASSUME NEW t \in Task, ProcessExits(t)
      PROVE  PortInv'
  BY <1>2, PortsSeen DEF ProcessExits, taskVars, netVars
<1>3. ASSUME NEW p \in Ports, ListenerDropped(p)
      PROVE  PortInv'
  <2>1. /\ p \in aborting /\ aborting' = aborting \ {p}
        /\ listener' = [listener EXCEPT ![p] = 0]
        /\ map' = map /\ pc' = pc /\ job' = job /\ bound' = bound
    BY <1>3 DEF ListenerDropped, taskVars
  <2>2. \A q \in Ports : q # p => listener'[q] = listener[q]
    BY <2>1 DEF TypeInv, TypeOK
  <2>3. \A t \in Task : pc[t] # "idle" => LocalProxies(t) \subseteq Ports
    BY LocalProxiesType
  \* Nobody holds a handle of it.
  <2>4. LocalInv'
    BY <2>1, <2>2, <2>3 DEF PortInv, LocalInv, LocalProxies, Binding
  <2>5. EntryInv'
    BY <2>1, <2>2 DEF PortInv, EntryInv, Published, TypeInv, TypeOK, Entry
  <2>6. AbortInv'
    BY <2>1, <2>2 DEF PortInv, AbortInv, TypeInv, TypeOK
  <2> QED
    BY <2>4, <2>5, <2>6 DEF PortInv
<1> QED
  BY <1>1, <1>2, <1>3, RequestPorts, TaskPorts DEF Next, Environment

\* A handle in the map is the handle of a proxy that listens, and no other entry
\* has it, whatever the clients do: aborting it takes no other name's port away.
THEOREM HandlesAreTheNamesOwn == Spec => []HandlesAreExclusive
<1>1. PidInv /\ PortInv => HandlesAreExclusive
  <2> SUFFICES ASSUME PidInv, PortInv
               PROVE  HandlesAreExclusive
    OBVIOUS
  <2>1. ASSUME NEW n \in Names, map[n] # None, NEW p \in map[n].proxies
        PROVE  /\ map[n].pid \in Task /\ listener[p] = map[n].pid /\ p \notin aborting
               /\ job[listener[p]].name = n
    <3>1. map[n].pid \in Task /\ listener[p] = map[n].pid /\ p \notin aborting
      BY <2>1 DEF PortInv, EntryInv
    <3> QED
      BY <2>1, <3>1, DaemonAssumption DEF PidInv, PidIsOfItsName, Task
  <2>2. 0 \notin Task
    BY DEF Task
  <2> QED
    BY <2>1, <2>2 DEF HandlesAreExclusive
<1> QED
  BY <1>1, TypeInit, TypeStep, PidInit, PidStep, PortInit, PortStep, PTL DEF Spec

-----------------------------------------------------------------------------
(* What a container has, when Rm is used on stopped containers only. *)

BaseInv == CarefulInv /\ PidInv /\ PortInv

LEMMA BaseInvariant ==
  /\ Init => BaseInv
  /\ BaseInv /\ [CarefulNext]_vars => BaseInv'
<1>1. Init => BaseInv
  BY CarefulInit, PidInit, PortInit DEF BaseInv
<1>2. CarefulInv => TypeInv
  BY DEF CarefulInv
<1> QED
  BY <1>1, <1>2, CarefulStep, PidStep, PortStep, CarefulIsNext DEF BaseInv

\* What a task touches is its own and its name's.
LEMMA TaskIsLocal ==
  ASSUME CarefulInv, NEW t \in Task, TaskStep(t)
  PROVE  /\ job' = job /\ Tracked(t) /\ job[t].name \in Names
         /\ \A s \in Task \ {t} :
              /\ pc'[s] = pc[s] /\ proc'[s] = proc[s] /\ bound'[s] = bound[s]
              /\ Tracked(s) => job[s].name # job[t].name /\ job[s].name \in Names
         /\ \A n \in Names \ {job[t].name} :
              /\ map'[n] = map[n] /\ dir'[n] = dir[n]
              /\ n \in fifo' <=> n \in fifo
<1>1. job' = job /\ Tracked(t)
  BY TaskLocal DEF CarefulInv
<1>2. \A s \in Task : Tracked(s) => job[s].name \in Names
  BY LocalProxiesType DEF CarefulInv, Tracked
<1>3. \A s \in Task \ {t} :
        Tracked(s) => job[s].name # job[t].name /\ job[s].name \in Names
  BY <1>1, <1>2 DEF CarefulInv, GenerationInv, Generations
<1>4. \A s \in Task \ {t} :
        pc'[s] = pc[s] /\ proc'[s] = proc[s] /\ bound'[s] = bound[s]
  BY DEF TaskStep, EnsureBaseImage, EnsureOverlay, CreateLog, BindPort,
         BindFails, MakeFifo, Launch, LaunchFails, WritePid, WriteManifest,
         Publish, Reap, RecordExit, Unregister, Goto, CarefulInv, TypeInv, TypeOK
<1>5. \A n \in Names \ {job[t].name} : map'[n] = map[n]
  BY DEF TaskStep, EnsureBaseImage, EnsureOverlay, CreateLog, BindPort,
         BindFails, MakeFifo, Launch, LaunchFails, WritePid, WriteManifest,
         Publish, Reap, RecordExit, Unregister, CarefulInv, TypeInv, TypeOK
<1>6. \A n \in Names \ {job[t].name} : dir'[n] = dir[n] /\ (n \in fifo' <=> n \in fifo)
  BY DEF TaskStep, EnsureBaseImage, EnsureOverlay, CreateLog, BindPort,
         BindFails, MakeFifo, Launch, LaunchFails, WritePid, WriteManifest,
         Publish, Reap, RecordExit, Unregister, CarefulInv, TypeInv, TypeOK, diskVars
<1> QED
  BY <1>1, <1>2, <1>3, <1>4, <1>5, <1>6

-----------------------------------------------------------------------------
(* What an entry says of the task whose pid it shows. *)

RunningHas(n) == Running(n) => /\ map[n].pid \in Task
                               /\ pc[map[n].pid] \in {"wait", "record"}

ExitedHas(n) == Exited(n) => /\ map[n].pid \in Task
                             /\ pc[map[n].pid] = "done"
                             /\ proc[map[n].pid] = "reaped"
                             /\ map[n].proxies = {}
                             /\ n \notin fifo

ShownInv == \A n \in Names : RunningHas(n) /\ ExitedHas(n)

LEMMA ShownInit == Init => ShownInv
  BY DEF Init, ShownInv, RunningHas, ExitedHas, Running, Exited, Unfinished

LEMMA ShownKept ==
  ASSUME ShownInv, NEW n \in Names,
         map'[n] # None => /\ map[n] # None
                           /\ map'[n].pid = map[n].pid
                           /\ map'[n].building = map[n].building
                           /\ map'[n].exit = map[n].exit
                           /\ map'[n].proxies = map[n].proxies \/ map'[n].proxies = {},
         n \in fifo' => n \in fifo \/ ~Exited(n),
         \A t \in Task :
           /\ pc[t] \in {"wait", "record"} => pc'[t] \in {"wait", "record"}
           /\ pc[t] = "done" => pc'[t] = "done"
           /\ proc[t] = "reaped" => proc'[t] = "reaped"
  PROVE  RunningHas(n)' /\ ExitedHas(n)'
  BY DEF ShownInv, RunningHas, ExitedHas, Running, Exited, Unfinished

LEMMA ShownStep ==
  ASSUME BaseInv, BaseInv', ShownInv, CarefulNext
  PROVE  ShownInv'
<1> SUFFICES ASSUME NEW n \in Names
             PROVE  RunningHas(n)' /\ ExitedHas(n)'
  BY DEF ShownInv
<1>0. /\ TypeInv /\ ProcInv /\ GenerationInv
      /\ TypeOK
  BY DEF BaseInv, CarefulInv, TypeInv
<1>1. ASSUME NEW t \in Task, TaskStep(t)
      PROVE  RunningHas(n)' /\ ExitedHas(n)'
  <2>1. /\ job' = job /\ Tracked(t) /\ job[t].name \in Names
        /\ \A s \in Task \ {t} : pc'[s] = pc[s] /\ proc'[s] = proc[s]
        /\ n # job[t].name => map'[n] = map[n] /\ (n \in fifo' <=> n \in fifo)
    BY <1>1, TaskIsLocal DEF BaseInv
  <2>2. map[n] # None /\ map[n].pid > 0 => job[map[n].pid].name = n
    BY DEF BaseInv, PidInv, PidIsOfItsName
  <2>3. 0 \notin Task /\ \A s \in Task : s > 0
    BY DaemonAssumption DEF Task
  <2>4. CASE n # job[t].name
    \* The task is another name's, so that the entry shows another pid.
    <3>1. map'[n] = map[n] /\ (n \in fifo' <=> n \in fifo)
      BY <2>1, <2>4
    <3>2. map[n] # None /\ map[n].pid \in Task =>
            map[n].pid # t
      BY <2>2, <2>3, <2>4
    <3> QED
      BY <2>1, <3>1, <3>2 DEF ShownInv, RunningHas, ExitedHas, Running, Exited, Unfinished
  <2>5. CASE n = job[t].name
    <3>1. /\ Unfinished(n)
          /\ IF pc[t] \in {"wait", "record"}
             THEN map[n].pid = t /\ ~map[n].building
             ELSE map[n].pid = 0 /\ map[n].building
      BY <1>0, <2>1, <2>5 DEF GenerationInv, Generations, OwnsEntry
    <3>2. map[n] \in Entry
      BY <1>0, <3>1 DEF TypeOK, Unfinished
    <3>3. CASE Publish(t)
      <4>1. map'[n].pid = t /\ ~map'[n].building /\ ~map'[n].exit
        BY <1>0, <2>5, <3>1, <3>2, <3>3 DEF Publish, Unfinished, TypeOK, Entry
      <4>2. pc'[t] = "wait"
        BY <1>0, <3>3 DEF Publish, Goto, TypeOK
      <4> QED
        BY <4>1, <4>2 DEF RunningHas, ExitedHas, Running, Exited, Unfinished
    <3>4. CASE RecordExit(t)
      <4>0. /\ map' = [map EXCEPT ![n] = [map[n] EXCEPT !.proxies = {}, !.exit = TRUE]]
            /\ fifo' = fifo \ {n}
            /\ map[n].pid = t
        BY <2>5, <3>1, <3>4 DEF RecordExit, Goto, Unfinished
      <4>1. /\ map'[n].pid = t /\ map'[n].exit /\ map'[n].proxies = {}
            /\ n \notin fifo'
        BY <1>0, <3>2, <4>0 DEF TypeOK, Entry
      <4>2. pc'[t] = "done" /\ proc'[t] = "reaped"
        BY <1>0, <3>4 DEF RecordExit, Goto, TypeOK, ProcInv
      <4> QED
        BY <4>1, <4>2 DEF RunningHas, ExitedHas, Running, Exited, Unfinished
    <3>5. CASE Unregister(t)
      <4>1. map'[n] = None
        BY <1>0, <2>5, <3>5 DEF Unregister, TypeOK
      <4> QED
        BY <4>1 DEF RunningHas, ExitedHas, Running, Exited, Unfinished
    <3>6. CASE /\ map' = map
               /\ pc[t] \in {"wait", "record"} => pc'[t] \in {"wait", "record"}
      BY <2>1, <2>3, <3>1, <3>6 DEF RunningHas, ExitedHas, Running, Exited, Unfinished
    <3> QED
      BY <1>0, <1>1, <3>3, <3>4, <3>5, <3>6
         DEF TaskStep, EnsureBaseImage, EnsureOverlay, CreateLog, BindPort,
             BindFails, MakeFifo, Launch, LaunchFails, WritePid, WriteManifest,
             Reap, Goto, TypeOK
  <2> QED
    BY <2>4, <2>5
<1>2. ASSUME NEW k \in Names, NEW m \in Manifests, SpawnReplica(k, m)
      PROVE  RunningHas(n)' /\ ExitedHas(n)'
  <2>1. PICK t \in Task : Fresh(t) /\ pc' = [pc EXCEPT ![t] = "base"]
    BY <1>2 DEF SpawnReplica
  <2>2. /\ map' = [map EXCEPT ![k] = Placeholder(m)]
        /\ proc' = proc /\ fifo' = fifo
    BY <1>2 DEF SpawnReplica, diskVars
  <2>3. \A s \in Task : pc[s] # "idle" => pc'[s] = pc[s]
    BY <1>0, <2>1 DEF Fresh, TypeOK
  <2>4. CASE n = k
    BY <1>0, <2>2, <2>4
       DEF Placeholder, TypeOK, RunningHas, ExitedHas, Running, Exited, Unfinished
  <2>5. CASE n # k
    <3>1. map'[n] = map[n]
      BY <1>0, <2>2, <2>5 DEF TypeOK
    <3> QED
      BY <2>2, <2>3, <3>1, ShownKept
  <2> QED
    BY <2>4, <2>5
<1>3. ASSUME NEW S \in SUBSET {k \in Names : map[k] # None}, StopThese(S)
      PROVE  RunningHas(n)' /\ ExitedHas(n)'
  <2>1. \A t \in Task : proc[t] = "reaped" => proc'[t] = "reaped"
    BY <1>3 DEF StopThese, SigKill
  <2>2. CASE n \in S
    BY <1>0, <1>3, <2>1, <2>2, ShownKept
       DEF StopThese, TypeOK, Entry, taskVars, diskVars
  <2>3. CASE n \notin S
    <3>1. map'[n] = map[n]
      BY <1>3, <2>3 DEF StopThese
    <3> QED
      BY <1>3, <2>1, <3>1, ShownKept DEF StopThese, taskVars, diskVars
  <2> QED
    BY <2>2, <2>3
<1>4. ASSUME NEW k \in Names, RmStopped(k)
      PROVE  RunningHas(n)' /\ ExitedHas(n)'
  <2>1. map'[n] # None => map'[n] = map[n]
    BY <1>0, <1>4 DEF RmStopped, Rm, TypeOK
  <2> QED
    BY <1>4, <2>1, ShownKept DEF RmStopped, Rm, taskVars
<1>5. ASSUME NEW t \in Task, ProcessExits(t)
      PROVE  RunningHas(n)' /\ ExitedHas(n)'
  <2>1. \A s \in Task : proc[s] = "reaped" => proc'[s] = "reaped"
    BY <1>0, <1>5 DEF ProcessExits, Alive, TypeOK
  <2> QED
    BY <1>5, <2>1, ShownKept DEF ProcessExits, taskVars, diskVars
<1>6. CASE \/ \E c \in Clients : StartRefused(c) \/ \E k \in Names : StartRead(c, k)
           \/ \E p \in Ports : ListenerDropped(p)
  BY <1>6, ShownKept DEF StartRefused, StartRead, ListenerDropped, taskVars, diskVars
<1>7. ASSUME NEW c \in Clients, StartSpawn(c)
      PROVE  RunningHas(n)' /\ ExitedHas(n)'
  <2>1. start[c].name \in Names /\ start[c].manifest \in Manifests
    BY <1>0, <1>7 DEF StartSpawn, TypeOK, Job
  <2> QED
    BY <1>2, <1>7, <2>1 DEF StartSpawn
<1>8. ASSUME NEW k \in Names, Stop(k)
      PROVE  RunningHas(n)' /\ ExitedHas(n)'
  BY <1>3, <1>8 DEF Stop
<1>9. CASE StopAll
  BY <1>3, <1>9 DEF StopAll
<1> QED
  BY <1>1, <1>2, <1>4, <1>5, <1>6, <1>7, <1>8, <1>9
     DEF CarefulNext, Serve, Environment, Run

-----------------------------------------------------------------------------
(* Whose a port is. *)

InEntry(p, t) ==
  LET n == job[t].name
  IN map[n] # None /\ map[n].pid = t /\ p \in map[n].proxies

Owned(p) ==
  LET t == listener[p]
  IN t # 0 => /\ pc[t] # "idle"
              /\ Binding(t) => p \in LocalProxies(t)
              /\ Published(t) /\ proc[t] # "none" => p \in aborting \/ InEntry(p, t)

OwnedInv == \A p \in Ports : Owned(p)

LEMMA OwnedInit == Init => OwnedInv
  BY DEF Init, OwnedInv, Owned

\* Steps that change neither a listener nor the work of the task behind it.
LEMMA OwnedKept ==
  ASSUME TypeOK, OwnedInv, NEW p \in Ports, listener'[p] = listener[p],
         p \in aborting => p \in aborting',
         \A t \in Task : listener[p] = t =>
           /\ pc[t] # "idle" => pc'[t] # "idle" /\ job'[t] = job[t]
           /\ Binding(t)' => Binding(t)
           /\ Binding(t) => LocalProxies(t) \subseteq LocalProxies(t)'
           /\ Published(t)' /\ proc'[t] # "none" => Published(t) /\ proc[t] # "none",
         \A t \in Task : listener[p] = t /\ pc[t] # "idle" /\ InEntry(p, t) =>
           p \in aborting' \/ InEntry(p, t)'
  PROVE  Owned(p)'
<1>1. listener[p] \in Pid /\ Owned(p)
  BY DEF TypeOK, OwnedInv
<1>2. CASE listener[p] = 0
  BY <1>2 DEF Owned
<1>3. ASSUME NEW t \in Task, listener[p] = t
      PROVE  Owned(p)'
  <2>1. t # 0 /\ listener'[p] = t
    BY <1>3, DaemonAssumption DEF Task
  <2>2. /\ pc[t] # "idle"
        /\ Binding(t) => p \in LocalProxies(t)
        /\ Published(t) /\ proc[t] # "none" => p \in aborting \/ InEntry(p, t)
    BY <1>1, <1>3, <2>1 DEF Owned
  <2>3. pc'[t] # "idle"
    BY <1>3, <2>2
  <2>4. Binding(t)' => p \in LocalProxies(t)'
    BY <1>3, <2>2
  <2>5. Published(t)' /\ proc'[t] # "none" => p \in aborting' \/ InEntry(p, t)'
    BY <1>3, <2>2
  <2> QED
    BY <2>1, <2>3, <2>4, <2>5
       DEF Owned, Binding, Published, LocalProxies, InEntry
<1> QED
  BY <1>1, <1>2, <1>3, DaemonAssumption DEF Pid, Task

LEMMA OwnedStep ==
  ASSUME BaseInv, BaseInv', ShownInv, OwnedInv, CarefulNext
  PROVE  OwnedInv'
<1> SUFFICES ASSUME NEW p \in Ports
             PROVE  Owned(p)'
  BY DEF OwnedInv
<1>0. /\ TypeInv /\ ProcInv /\ GenerationInv
      /\ TypeOK
  BY DEF BaseInv, CarefulInv, TypeInv
<1>a. 0 \notin Task
  BY DaemonAssumption DEF Task
<1>b. \A s \in Task : pc[s] # "idle" => job[s].name \in Names
  BY <1>0, LocalProxiesType
<1>1. ASSUME NEW t \in Task, TaskStep(t)
      PROVE  Owned(p)'
  <2> DEFINE n == job[t].name
  <2>1. /\ job' = job /\ Tracked(t) /\ n \in Names
        /\ \A s \in Task \ {t} :
             pc'[s] = pc[s] /\ proc'[s] = proc[s] /\ bound'[s] = bound[s]
        /\ \A k \in Names \ {n} : map'[k] = map[k]
    BY <1>1, TaskIsLocal DEF BaseInv
  <2>2. /\ Unfinished(n)
        /\ IF pc[t] \in {"wait", "record"}
           THEN map[n].pid = t /\ ~map[n].building
           ELSE map[n].pid = 0 /\ map[n].building
    BY <1>0, <2>1 DEF GenerationInv, Generations, OwnsEntry
  <2> HIDE DEF n
  <2>3. CASE listener[p] = t /\ Publish(t)
    <3>1. pc[t] = "publish" /\ pc' = [pc EXCEPT ![t] = "wait"] /\ listener' = listener
      BY <2>3 DEF Publish, Goto, netVars
    <3>2. p \in LocalProxies(t)
      BY <1>a, <2>3, <3>1 DEF OwnedInv, Owned, Binding
    <3>3. map'[n].pid = t /\ map'[n].proxies = LocalProxies(t) /\ map'[n] # None
      <4>1. map' = [map EXCEPT ![n] = [map[n] EXCEPT !.pid = t, !.building = FALSE,
                                                     !.proxies = LocalProxies(t)]]
        BY <2>2, <2>3 DEF Publish, Unfinished, n
      <4>2. map[n] \in Entry
        BY <1>0, <2>1, <2>2 DEF TypeOK, Unfinished
      <4>3. map'[n].pid = t /\ map'[n].proxies = LocalProxies(t)
        BY <1>0, <2>1, <4>1, <4>2 DEF TypeOK, Entry
      <4>4. LocalProxies(t) \in SUBSET Ports /\ t \in Pid
        BY <1>0, <3>1, LocalProxiesType, DaemonAssumption DEF Task, Pid
      <4>5. [map[n] EXCEPT !.pid = t, !.building = FALSE,
                           !.proxies = LocalProxies(t)] \in Entry
        BY <4>2, <4>4, EntryPublished
      <4> QED
        BY <1>0, <2>1, <4>1, <4>3, <4>5, DaemonAssumption DEF TypeOK
    <3>4. InEntry(p, t)'
      BY <2>1, <3>2, <3>3 DEF InEntry, n
    <3>5. listener'[p] = t /\ pc'[t] = "wait"
      BY <1>0, <2>3, <3>1 DEF TypeOK
    <3> QED
      BY <3>4, <3>5 DEF Owned, Binding, InEntry
  <2>4. CASE BindPort(t) /\ p = NextPort(t)
    <3>1. /\ listener'[p] = t /\ pc'[t] = "bind"
          /\ bound' = [bound EXCEPT ![t] = bound[t] + 1]
      BY <1>0, <2>4 DEF BindPort, TypeOK
    <3>2. p \in LocalProxies(t)'
      BY <1>0, <2>1, <2>4, <3>1 DEF LocalProxies, NextPort, TypeOK
    <3> QED
      BY <3>1, <3>2 DEF Owned, Published, LocalProxies
  <2>5. CASE ~(listener[p] = t /\ Publish(t)) /\ ~(BindPort(t) /\ p = NextPort(t))
    <3>1. listener'[p] = listener[p] /\ (p \in aborting => p \in aborting')
      BY <1>0, <1>1, <2>5
         DEF TaskStep, EnsureBaseImage, EnsureOverlay, CreateLog, BindPort,
             BindFails, MakeFifo, Launch, LaunchFails, WritePid, WriteManifest,
             Publish, Reap, RecordExit, Unregister, Abort, netVars, TypeOK
    <3>2. /\ pc'[t] # "idle"
          /\ Binding(t)' => Binding(t)
          /\ Published(t)' /\ proc'[t] # "none" =>
               (Published(t) \/ Publish(t)) /\ proc[t] # "none"
      BY <1>0, <1>1
         DEF TaskStep, EnsureBaseImage, EnsureOverlay, CreateLog, BindPort,
             BindFails, MakeFifo, Launch, LaunchFails, WritePid, WriteManifest,
             Publish, Reap, RecordExit, Unregister, Goto, Binding, Published,
             TypeOK, ProcInv
    <3>3. \A s \in Task : LocalProxies(s) \subseteq LocalProxies(s)'
      <4>1. bound[t] \in Nat /\ (bound'[t] = bound[t] \/ bound'[t] = bound[t] + 1)
        BY <1>0, <1>1
           DEF TaskStep, EnsureBaseImage, EnsureOverlay, CreateLog, BindPort,
               BindFails, MakeFifo, Launch, LaunchFails, WritePid, WriteManifest,
               Publish, Reap, RecordExit, Unregister, TypeOK
      <4>2. \A s \in Task : 1 .. bound[s] \subseteq 1 .. bound'[s]
        BY <1>0, <2>1, <4>1 DEF TypeOK
      <4> QED
        BY <2>1, <4>2 DEF LocalProxies
    <3>4. ASSUME NEW s \in Task, listener[p] = s, pc[s] # "idle", InEntry(p, s)
          PROVE  p \in aborting' \/ InEntry(p, s)'
      <4>1. CASE job[s].name # n
        BY <1>b, <2>1, <3>4, <4>1 DEF InEntry
      <4>2. CASE job[s].name = n /\ map'[n] = map[n]
        BY <2>1, <3>4, <4>2 DEF InEntry
      <4>3. CASE job[s].name = n /\ RecordExit(t)
        BY <3>4, <4>3 DEF InEntry, RecordExit, Abort, n
      <4>4. CASE job[s].name = n /\ (Publish(t) \/ Unregister(t))
        \* The entry is still the placeholder.
        BY <1>a, <2>2, <3>4, <4>4 DEF InEntry, Publish, Unregister, Goto
      <4> QED
        BY <1>1, <4>1, <4>2, <4>3, <4>4
           DEF TaskStep, EnsureBaseImage, EnsureOverlay, CreateLog, BindPort,
               BindFails, MakeFifo, Launch, LaunchFails, WritePid, WriteManifest, Reap
    <3>5. \A s \in Task : listener[p] = s =>
            /\ pc[s] # "idle" => pc'[s] # "idle" /\ job'[s] = job[s]
            /\ Binding(s)' => Binding(s)
            /\ Binding(s) => LocalProxies(s) \subseteq LocalProxies(s)'
            /\ Published(s)' /\ proc'[s] # "none" => Published(s) /\ proc[s] # "none"
      BY <2>1, <2>5, <3>2, <3>3 DEF Binding, Published
    <3> QED
      BY <1>0, <3>1, <3>4, <3>5, OwnedKept
  <2> QED
    BY <2>3, <2>4, <2>5
<1>2. ASSUME NEW k \in Names, NEW m \in Manifests, SpawnReplica(k, m)
      PROVE  Owned(p)'
  <2>1. PICK t \in Task : /\ Fresh(t)
                          /\ pc' = [pc EXCEPT ![t] = "base"]
                          /\ job' = [job EXCEPT ![t] = [name |-> k, manifest |-> m]]
    BY <1>2 DEF SpawnReplica
  <2>2. /\ map' = [map EXCEPT ![k] = Placeholder(m)] /\ ~Unfinished(k)
        /\ proc' = proc /\ bound' = bound /\ listener' = listener /\ aborting' = aborting
    BY <1>2 DEF SpawnReplica, netVars
  <2>3. \A s \in Task : listener[p] = s => s # t
    BY <1>a, <2>1 DEF OwnedInv, Owned, Fresh
  <2>4. \A s \in Task \ {t} : pc'[s] = pc[s] /\ job'[s] = job[s]
    BY <1>0, <2>1 DEF TypeOK
  \* The entry that is replaced is an exited one, which has no handles.
  <2>5. ASSUME NEW s \in Task, listener[p] = s, pc[s] # "idle", InEntry(p, s)
        PROVE  InEntry(p, s)'
    <3>1. job[s].name # k
      BY <2>2, <2>5 DEF InEntry, ShownInv, ExitedHas, Exited, Unfinished
    <3>2. map'[job[s].name] = map[job[s].name]
      BY <1>0, <1>b, <2>2, <2>5, <3>1 DEF TypeOK
    <3> QED
      BY <2>3, <2>4, <2>5, <3>2 DEF InEntry
  <2> QED
    BY <1>0, <2>2, <2>3, <2>4, <2>5, OwnedKept DEF Binding, Published, LocalProxies
<1>3. ASSUME NEW S \in SUBSET {k \in Names : map[k] # None}, StopThese(S)
      PROVE  Owned(p)'
  <2>1. /\ pc' = pc /\ job' = job /\ bound' = bound /\ listener' = listener
        /\ aborting' = aborting \cup UNION {map[k].proxies : k \in S}
        /\ \A k \in Names \ S : map'[k] = map[k]
        /\ \A s \in Task : proc'[s] # "none" => proc[s] # "none"
    BY <1>3 DEF StopThese, Abort, SigKill, taskVars
  <2>2. ASSUME NEW s \in Task, pc[s] # "idle", InEntry(p, s)
        PROVE  p \in aborting' \/ InEntry(p, s)'
    <3>1. job[s].name \in Names
      BY <1>b, <2>2
    <3> QED
      BY <2>1, <2>2, <3>1 DEF InEntry
  <2> QED
    BY <1>0, <2>1, <2>2, OwnedKept DEF Binding, Published, LocalProxies
<1>4. ASSUME NEW k \in Names, RmStopped(k)
      PROVE  Owned(p)'
  <2>1. ASSUME NEW s \in Task, pc[s] # "idle", InEntry(p, s)
        PROVE  InEntry(p, s)'
    <3>1. job[s].name \in Names \ {k}
      BY <1>4, <1>b, <2>1 DEF InEntry, RmStopped, ShownInv, ExitedHas
    <3>2. map'[job[s].name] = map[job[s].name] /\ job' = job
      BY <1>0, <1>4, <3>1 DEF RmStopped, Rm, TypeOK, taskVars
    <3> QED
      BY <2>1, <3>2 DEF InEntry
  <2> QED
    BY <1>0, <1>4, <2>1, OwnedKept
       DEF RmStopped, Rm, taskVars, netVars, Binding, Published, LocalProxies
<1>5. ASSUME NEW t \in Task, ProcessExits(t)
      PROVE  Owned(p)'
  <2>1. \A s \in Task : proc'[s] # "none" => proc[s] # "none"
    BY <1>0, <1>5 DEF ProcessExits, Alive, TypeOK
  <2> QED
    BY <1>0, <1>5, <2>1, OwnedKept
       DEF ProcessExits, taskVars, netVars, Binding, Published, LocalProxies, InEntry
<1>6. CASE \E c \in Clients : StartRefused(c) \/ \E k \in Names : StartRead(c, k)
  BY <1>0, <1>6, OwnedKept
     DEF StartRefused, StartRead, taskVars, netVars, Binding, Published,
         LocalProxies, InEntry
<1>7. ASSUME NEW q \in Ports, ListenerDropped(q)
      PROVE  Owned(p)'
  <2>1. CASE p = q
    BY <1>0, <1>7, <2>1 DEF ListenerDropped, Owned, TypeOK
  <2>2. CASE p # q
    BY <1>0, <1>7, <2>2, OwnedKept
       DEF ListenerDropped, TypeOK, taskVars, Binding, Published, LocalProxies, InEntry
  <2> QED
    BY <2>1, <2>2
<1>8. ASSUME NEW c \in Clients, StartSpawn(c)
      PROVE  Owned(p)'
  <2>1. start[c].name \in Names /\ start[c].manifest \in Manifests
    BY <1>0, <1>8 DEF StartSpawn, TypeOK, Job
  <2> QED
    BY <1>2, <1>8, <2>1 DEF StartSpawn
<1>9. ASSUME NEW k \in Names, Stop(k)
      PROVE  Owned(p)'
  BY <1>3, <1>9 DEF Stop
<1>10. CASE StopAll
  BY <1>3, <1>10 DEF StopAll
<1> QED
  BY <1>1, <1>2, <1>4, <1>5, <1>6, <1>7, <1>8, <1>9, <1>10
     DEF CarefulNext, Serve, Environment, Run

-----------------------------------------------------------------------------
(* What a task has done for its container so far. *)

Prepared(t) ==
  LET n == job[t].name
      m == job[t].manifest
  IN /\ map[n].manifest = m
     /\ pc[t] \in {"launch", "pidfile", "manifest", "publish"} =>
          bound[t] = Len(m)
     /\ pc[t] = "wait" /\ proc[t] = "alive" => map[n].proxies = HostPorts(m)

Written(t) ==
  LET n == job[t].name
  IN "disk" \notin Faults =>
       /\ pc[t] = "manifest" => dir[n] # None /\ dir[n].pid = t
       /\ pc[t] \in {"publish", "wait", "record"} =>
            dir[n] = [pid |-> t, manifest |-> job[t].manifest]

WorkInv == \A t \in Task : Tracked(t) => Prepared(t) /\ Written(t)

LEMMA WorkInit == Init => WorkInv
  BY DEF Init, WorkInv, Tracked

\* Steps that leave a task and what it has done alone.
LEMMA WorkKept ==
  ASSUME WorkInv, NEW t \in Task, Tracked(t),
         pc'[t] = pc[t], job'[t] = job[t], bound'[t] = bound[t],
         proc'[t] = "alive" => proc[t] = "alive",
         map'[job[t].name].manifest = map[job[t].name].manifest,
         pc[t] = "wait" /\ proc'[t] = "alive" =>
           map'[job[t].name].proxies = map[job[t].name].proxies,
         dir'[job[t].name] = dir[job[t].name]
  PROVE  Prepared(t)' /\ Written(t)'
  BY DEF WorkInv, Prepared, Written

LEMMA TaskWork ==
  ASSUME BaseInv, WorkInv, NEW t \in Task, TaskStep(t), Tracked(t)'
  PROVE  Prepared(t)' /\ Written(t)'
<1> DEFINE n == job[t].name
           m == job[t].manifest
<1>0. TypeInv /\ TypeOK /\ ProcInv /\ GenerationInv
  BY DEF BaseInv, CarefulInv, TypeInv
<1>1. job' = job /\ Tracked(t) /\ n \in Names
  BY TaskIsLocal DEF BaseInv
<1>2. Prepared(t) /\ Written(t)
  BY <1>1 DEF WorkInv
<1>3. /\ Unfinished(n)
      /\ map[n] \in Entry
      /\ m \in Manifests /\ m \in Seq(Ports)
      /\ bound[t] \in Nat /\ bound[t] <= Len(m)
  BY <1>0, <1>1, LocalProxiesType
     DEF GenerationInv, Generations, OwnsEntry, Unfinished, TypeOK, Tracked, TypeInv, JobInv
<1> HIDE DEF n, m
<1>4. CASE \/ EnsureBaseImage(t) \/ EnsureOverlay(t) \/ CreateLog(t) \/ BindPort(t)
           \/ BindFails(t) \/ LaunchFails(t)
  <2>1. map' = map /\ pc'[t] \in {"overlay", "log", "bind", "unregister", "abandoned"}
    BY <1>0, <1>4 DEF EnsureBaseImage, EnsureOverlay, CreateLog, BindPort,
                      BindFails, LaunchFails, Goto, TypeOK
  <2> QED
    BY <1>1, <1>2, <2>1 DEF Prepared, Written
<1>5. CASE MakeFifo(t)
  <2>1. map' = map /\ pc'[t] = "launch" /\ bound' = bound /\ bound[t] = Len(m)
    BY <1>0, <1>3, <1>5 DEF MakeFifo, MorePorts, Goto, TypeOK, n, m
  <2> QED
    BY <1>1, <1>2, <2>1 DEF Prepared, Written, n, m
<1>6. CASE Launch(t)
  <2>1. map' = map /\ pc[t] = "launch" /\ pc'[t] = "pidfile" /\ bound' = bound
    BY <1>0, <1>6 DEF Launch, Goto, TypeOK
  <2> QED
    BY <1>1, <1>2, <2>1 DEF Prepared, Written
<1>7. CASE WritePid(t)
  <2>1. map' = map /\ pc[t] = "pidfile" /\ pc'[t] = "manifest" /\ bound' = bound
    BY <1>0, <1>7 DEF WritePid, Goto, TypeOK
  <2>2. Prepared(t)'
    BY <1>1, <1>2, <2>1 DEF Prepared
  <2>3. ASSUME "disk" \notin Faults
        PROVE  dir'[n] # None /\ dir'[n].pid = t
    <3>1. PICK old : dir' = [dir EXCEPT ![n] = [pid |-> t, manifest |-> old]]
                     /\ old = IF dir[n] = None THEN None ELSE dir[n].manifest
      BY <1>7, <2>3 DEF WritePid, MayFail, n
    <3>2. [pid |-> t, manifest |-> old] \in Directory
      BY <1>0, <1>1, <3>1 DEF TypeOK, Directory, n
    <3> QED
      BY <1>0, <1>1, <3>1, <3>2, DaemonAssumption DEF TypeOK, n
  <2> QED
    BY <1>1, <2>1, <2>2, <2>3 DEF Written, n
<1>8. CASE WriteManifest(t)
  <2>1. map' = map /\ pc[t] = "manifest" /\ pc'[t] = "publish" /\ bound' = bound
    BY <1>0, <1>8 DEF WriteManifest, Goto, TypeOK
  <2>2. Prepared(t)'
    BY <1>1, <1>2, <2>1 DEF Prepared
  <2>3. ASSUME "disk" \notin Faults
        PROVE  dir'[n] = [pid |-> t, manifest |-> m]
    <3>1. dir[n] # None /\ dir[n].pid = t
      BY <1>2, <2>1, <2>3 DEF Written, n
    <3>2. dir[n] \in Directory
      BY <1>0, <1>1, <3>1 DEF TypeOK, n
    <3>3. dir' = [dir EXCEPT ![n] = [dir[n] EXCEPT !.manifest = m]]
      BY <1>8, <2>3, <3>1 DEF WriteManifest, MayFail, n, m
    <3>4. [dir[n] EXCEPT !.manifest = m] = [pid |-> t, manifest |-> m]
      BY <3>1, <3>2 DEF Directory
    <3> QED
      BY <1>0, <1>1, <3>3, <3>4 DEF TypeOK, n
  <2> QED
    BY <1>1, <2>1, <2>2, <2>3 DEF Written, n, m
<1>9. CASE Publish(t)
  <2>1. /\ pc[t] = "publish" /\ pc'[t] = "wait" /\ bound' = bound
        /\ dir' = dir
        /\ map' = [map EXCEPT ![n] = [map[n] EXCEPT !.pid = t, !.building = FALSE,
                                                    !.proxies = LocalProxies(t)]]
    BY <1>0, <1>3, <1>9 DEF Publish, Goto, TypeOK, diskVars, Unfinished, n
  <2>2. map'[n].manifest = map[n].manifest /\ map'[n].proxies = LocalProxies(t)
    BY <1>0, <1>1, <1>3, <2>1 DEF TypeOK, Entry, n
  <2>3. LocalProxies(t) = HostPorts(m)
    BY <1>2, <2>1 DEF Prepared, LocalProxies, HostPorts, m
  <2>4. Prepared(t)'
    BY <1>1, <1>2, <2>1, <2>2, <2>3 DEF Prepared, n, m
  <2> QED
    BY <1>1, <1>2, <2>1, <2>4 DEF Written
<1>10. CASE Reap(t)
  <2>1. pc[t] = "wait" /\ pc'[t] = "record" /\ map' = map /\ dir' = dir
    BY <1>0, <1>10 DEF Reap, Goto, TypeOK, diskVars
  <2> QED
    BY <1>1, <1>2, <2>1 DEF Prepared, Written
<1>11. CASE RecordExit(t) \/ Unregister(t)
  BY <1>0, <1>11 DEF RecordExit, Unregister, Goto, Tracked, TypeOK
<1> QED
  BY <1>4, <1>5, <1>6, <1>7, <1>8, <1>9, <1>10, <1>11 DEF TaskStep

LEMMA WorkStep ==
  ASSUME BaseInv, BaseInv', WorkInv, CarefulNext
  PROVE  WorkInv'
<1> SUFFICES ASSUME NEW t \in Task, Tracked(t)'
             PROVE  Prepared(t)' /\ Written(t)'
  BY DEF WorkInv
<1> DEFINE n == job[t].name
<1>0. TypeInv /\ TypeOK /\ ProcInv /\ GenerationInv
  BY DEF BaseInv, CarefulInv, TypeInv
<1>1. ASSUME Tracked(t)
      PROVE  /\ n \in Names /\ Unfinished(n) /\ map[n] \in Entry
             /\ pc[t] = "wait" => map[n].pid = t
  BY <1>0, <1>1, LocalProxiesType
     DEF GenerationInv, Generations, OwnsEntry, Unfinished, TypeOK, Tracked
<1>2. ASSUME NEW s \in Task, TaskStep(s)
      PROVE  Prepared(t)' /\ Written(t)'
  <2>1. CASE s = t
    BY <1>2, <2>1, TaskWork
  <2>2. CASE s # t
    <3>1. /\ job' = job /\ pc'[t] = pc[t] /\ proc'[t] = proc[t] /\ bound'[t] = bound[t]
          /\ Tracked(t)
      BY <1>2, <2>2, TaskIsLocal DEF BaseInv, Tracked
    <3>2. map'[n] = map[n] /\ dir'[n] = dir[n]
      BY <1>2, <2>2, <3>1, TaskIsLocal DEF BaseInv
    <3> QED
      BY <3>1, <3>2, WorkKept
  <2> QED
    BY <2>1, <2>2
<1>3. ASSUME NEW k \in Names, NEW m \in Manifests, SpawnReplica(k, m)
      PROVE  Prepared(t)' /\ Written(t)'
  <2>1. PICK s \in Task : /\ Fresh(s)
                          /\ pc' = [pc EXCEPT ![s] = "base"]
                          /\ job' = [job EXCEPT ![s] = [name |-> k, manifest |-> m]]
    BY <1>3 DEF SpawnReplica
  <2>2. /\ map' = [map EXCEPT ![k] = Placeholder(m)] /\ ~Unfinished(k)
        /\ proc' = proc /\ bound' = bound /\ dir' = dir
    BY <1>3 DEF SpawnReplica, diskVars
  <2>3. CASE s = t
    BY <1>0, <2>1, <2>2, <2>3 DEF Prepared, Written, Placeholder, TypeOK
  <2>4. CASE s # t
    <3>1. pc'[t] = pc[t] /\ job'[t] = job[t] /\ Tracked(t)
      BY <1>0, <2>1, <2>4 DEF TypeOK, Tracked
    <3>2. n # k /\ map'[n] = map[n]
      BY <1>0, <1>1, <2>2, <3>1 DEF TypeOK
    <3> QED
      BY <2>2, <3>1, <3>2, WorkKept
  <2> QED
    BY <2>3, <2>4
<1>4. ASSUME NEW S \in SUBSET {k \in Names : map[k] # None}, StopThese(S)
      PROVE  Prepared(t)' /\ Written(t)'
  <2>1. /\ pc' = pc /\ job' = job /\ bound' = bound /\ dir' = dir
        /\ proc'[t] = "alive" => proc[t] = "alive"
    BY <1>4 DEF StopThese, SigKill, taskVars, diskVars
  <2>2. Tracked(t)
    BY <2>1 DEF Tracked
  <2>3. CASE n \in S
    \* Its process is killed, if it has one.
    <3>1. map'[n].manifest = map[n].manifest
      BY <1>1, <1>4, <2>2, <2>3 DEF StopThese, Entry
    <3>2. pc[t] = "wait" => proc'[t] # "alive"
      BY <1>1, <1>4, <2>2, <2>3 DEF StopThese, SigKill, Unfinished
    <3> QED
      BY <2>1, <2>2, <3>1, <3>2, WorkKept
  <2>4. CASE n \notin S
    <3>1. map'[n] = map[n]
      BY <1>1, <1>4, <2>2, <2>4 DEF StopThese
    <3> QED
      BY <2>1, <2>2, <3>1, WorkKept
  <2> QED
    BY <2>3, <2>4
<1>5. ASSUME NEW k \in Names, RmStopped(k)
      PROVE  Prepared(t)' /\ Written(t)'
  <2>1. pc' = pc /\ job' = job /\ bound' = bound /\ proc' = proc
    BY <1>5 DEF RmStopped, Rm, taskVars
  <2>2. Tracked(t) /\ n # k
    BY <1>1, <1>5, <2>1 DEF Tracked, RmStopped, Exited, Unfinished
  <2>3. map'[n] = map[n] /\ dir'[n] = dir[n]
    BY <1>0, <1>1, <1>5, <2>2 DEF RmStopped, Rm, TypeOK
  <2> QED
    BY <2>1, <2>2, <2>3, WorkKept
<1>6. CASE \/ \E s \in Task : ProcessExits(s)
           \/ \E p \in Ports : ListenerDropped(p)
           \/ \E c \in Clients : StartRefused(c) \/ \E k \in Names : StartRead(c, k)
  <2>1. /\ pc' = pc /\ job' = job /\ bound' = bound /\ dir' = dir
        /\ map' = map
        /\ proc'[t] = "alive" => proc[t] = "alive"
    BY <1>0, <1>6
       DEF ProcessExits, ListenerDropped, StartRefused, StartRead, taskVars, diskVars, TypeOK
  <2>2. Tracked(t)
    BY <2>1 DEF Tracked
  <2> QED
    BY <2>1, <2>2, WorkKept
<1>7. ASSUME NEW c \in Clients, StartSpawn(c)
      PROVE  Prepared(t)' /\ Written(t)'
  <2>1. start[c].name \in Names /\ start[c].manifest \in Manifests
    BY <1>0, <1>7 DEF StartSpawn, TypeOK, Job
  <2> QED
    BY <1>3, <1>7, <2>1 DEF StartSpawn
<1>8. ASSUME NEW k \in Names, Stop(k)
      PROVE  Prepared(t)' /\ Written(t)'
  BY <1>4, <1>8 DEF Stop
<1>9. CASE StopAll
  BY <1>4, <1>9 DEF StopAll
<1> QED
  BY <1>2, <1>3, <1>5, <1>6, <1>7, <1>8, <1>9
     DEF CarefulNext, Serve, Environment, Run

-----------------------------------------------------------------------------
FullInv == BaseInv /\ ShownInv /\ OwnedInv /\ WorkInv

LEMMA FullInvariant == CarefulSpec => []FullInv
<1>1. Init => FullInv
  BY BaseInvariant, ShownInit, OwnedInit, WorkInit DEF FullInv
<1>2. FullInv /\ [CarefulNext]_vars => FullInv'
  <2> SUFFICES ASSUME FullInv, [CarefulNext]_vars
               PROVE  FullInv'
    OBVIOUS
  <2>1. BaseInv'
    BY BaseInvariant DEF FullInv
  <2>2. CASE CarefulNext
    BY <2>1, <2>2, ShownStep, OwnedStep, WorkStep DEF FullInv
  <2>3. CASE UNCHANGED vars
    <3>1. ShownInv'
      BY <2>3 DEF FullInv, vars, ShownInv, RunningHas, ExitedHas, Running, Exited,
                  Unfinished
    <3>2. OwnedInv'
      BY <2>3 DEF FullInv, vars, OwnedInv, Owned, InEntry, Binding, Published,
                  LocalProxies
    <3>3. WorkInv'
      BY <2>3 DEF FullInv, vars, WorkInv, Tracked, Prepared, Written
    <3> QED
      BY <2>1, <3>1, <3>2, <3>3 DEF FullInv
  <2> QED
    BY <2>2, <2>3
<1> QED
  BY <1>1, <1>2, PTL DEF CarefulSpec

\* The task of a running container is the one its entry shows.
LEMMA RunningTask ==
  ASSUME FullInv, NEW n \in Names, Running(n)
  PROVE  /\ map[n].pid \in Task
         /\ pc[map[n].pid] \in {"wait", "record"}
         /\ job[map[n].pid].name = n
         /\ Prepared(map[n].pid) /\ Written(map[n].pid)
<1>1. map[n].pid \in Task /\ pc[map[n].pid] \in {"wait", "record"}
  BY DEF FullInv, ShownInv, RunningHas
<1>2. job[map[n].pid].name = n
  BY <1>1, DaemonAssumption
     DEF FullInv, BaseInv, PidInv, PidIsOfItsName, Running, Unfinished, Task
<1>3. Tracked(map[n].pid)
  BY <1>1 DEF Tracked
<1> QED
  BY <1>1, <1>2, <1>3 DEF FullInv, WorkInv

\* A running container nobody stopped has a proxy of its own that listens on
\* every host port of its manifest, whatever earlier containers of the name,
\* other names and failing tasks have done.
THEOREM RunningContainersAreReachable == CarefulSpec => []RunningIsReachable
<1>1. FullInv => RunningIsReachable
  <2> SUFFICES ASSUME FullInv, NEW n \in Names, Running(n),
                      proc[map[n].pid] = "alive"
               PROVE  /\ map[n].proxies = HostPorts(map[n].manifest)
                      /\ \A p \in map[n].proxies : listener[p] = map[n].pid
    BY DEF RunningIsReachable
  <2>1. pc[map[n].pid] = "wait"
    BY RunningTask DEF FullInv, BaseInv, CarefulInv, ProcInv
  <2>2. map[n].proxies = HostPorts(map[n].manifest)
    BY <2>1, RunningTask DEF Prepared
  <2>3. \A p \in map[n].proxies : listener[p] = map[n].pid
    BY DEF FullInv, BaseInv, PortInv, EntryInv, Running, Unfinished
  <2> QED
    BY <2>2, <2>3
<1> QED
  BY <1>1, FullInvariant, PTL

\* A FIFO goes with the task that launched its container, once that has been
\* reaped, or with one that is about to launch, and no other of the name is left.
LEMMA FifoStep ==
  ASSUME CarefulInv, CarefulNext, NEW t \in Task, proc[t] = "alive",
         job[t].name \in fifo
  PROVE  job[t].name \in fifo'
<1>1. pc[t] \in {"pidfile", "manifest", "publish", "wait"}
  BY AliveIsTracked DEF Alive
<1>2. Tracked(t)
  BY <1>1 DEF Tracked
<1>3. ASSUME NEW s \in Task, TaskStep(s)
      PROVE  job[t].name \in fifo'
  <2>1. CASE s # t
    BY <1>2, <1>3, <2>1, TaskIsLocal
  <2>2. CASE s = t
    BY <1>1, <1>3, <2>2
       DEF TaskStep, EnsureBaseImage, EnsureOverlay, CreateLog, BindPort, BindFails,
           MakeFifo, Launch, LaunchFails, WritePid, WriteManifest, Publish, Reap,
           RecordExit, Unregister, Goto, diskVars
  <2> QED
    BY <2>1, <2>2
<1>4. CASE Environment \/ Serve \/ \E n \in Names : Stop(n) \/ RmStopped(n)
  BY <1>4 DEF Environment, ProcessExits, ListenerDropped, Serve, Run, SpawnReplica,
     StartRead, StartSpawn, StartRefused, StopAll, Stop, StopThese, RmStopped, Rm,
     diskVars
<1> QED
  BY <1>3, <1>4 DEF CarefulNext

\* A live container keeps the FIFO it was launched with, whatever else of its
\* name ends, is stopped, or is started.
THEOREM LiveContainersKeepTheirFifo == CarefulSpec => FifoIsKept
<1>1. CarefulInv /\ [CarefulNext]_vars =>
        [\A t \in Task : proc[t] = "alive" /\ proc'[t] = "alive" =>
           (job[t].name \in fifo => job[t].name \in fifo')]_vars
  BY FifoStep
<1> QED
  BY <1>1, CarefulInvariant, PTL DEF CarefulSpec, FifoIsKept

\* A restart reads of a running container what the map says of it, if files can
\* be written.
THEOREM RunningContainersAreOnDisk ==
  ASSUME "disk" \notin Faults
  PROVE  CarefulSpec => []RunningIsOnDisk
<1>1. FullInv => RunningIsOnDisk
  <2> SUFFICES ASSUME FullInv, NEW n \in Names, Running(n)
               PROVE  dir[n] = [pid |-> map[n].pid, manifest |-> map[n].manifest]
    BY DEF RunningIsOnDisk
  <2>1. map[n].manifest = job[map[n].pid].manifest
    BY RunningTask DEF Prepared
  <2>2. dir[n] = [pid |-> map[n].pid, manifest |-> job[map[n].pid].manifest]
    BY RunningTask DEF Written
  <2> QED
    BY <2>1, <2>2
<1> QED
  BY <1>1, FullInvariant, PTL

\* An exited container has no process and no FIFO, and its ports are on their
\* way to be free, for the next Start to find.
THEOREM ExitedContainersHoldNothing == CarefulSpec => []ExitedHoldsNothing
<1>1. FullInv => ExitedHoldsNothing
  <2> SUFFICES ASSUME FullInv, NEW n \in Names, Exited(n)
               PROVE  /\ proc[map[n].pid] = "reaped"
                      /\ n \notin fifo
                      /\ \A p \in Ports : listener[p] = map[n].pid => p \in aborting
    BY DEF ExitedHoldsNothing
  <2>1. /\ map[n].pid \in Task
        /\ pc[map[n].pid] = "done"
        /\ proc[map[n].pid] = "reaped"
        /\ map[n].proxies = {}
        /\ n \notin fifo
    BY DEF FullInv, ShownInv, ExitedHas
  <2>2. job[map[n].pid].name = n
    BY <2>1, DaemonAssumption DEF FullInv, BaseInv, PidInv, PidIsOfItsName, Exited, Task
  <2>3. ASSUME NEW p \in Ports, listener[p] = map[n].pid
        PROVE  p \in aborting
    <3>1. map[n].pid # 0
      BY <2>1, DaemonAssumption DEF Task
    <3> QED
      BY <2>1, <2>2, <2>3, <3>1 DEF FullInv, OwnedInv, Owned, Published, InEntry
  <2> QED
    BY <2>1, <2>3
<1> QED
  BY <1>1, FullInvariant, PTL

\* No container that was launched leaves a port bound for which nobody has a
\* handle.
THEOREM LaunchedContainersLeakNoPort == CarefulSpec => []LaunchedLeaksNoPort
<1>1. FullInv => LaunchedLeaksNoPort
  <2> SUFFICES ASSUME FullInv, NEW p \in Ports, listener[p] # 0,
                      proc[listener[p]] # "none"
               PROVE  \/ p \in aborting
                      \/ pc[listener[p]] \in {"pidfile", "manifest", "publish"}
                      \/ p \in map[job[listener[p]].name].proxies
    BY DEF LaunchedLeaksNoPort
  <2>1. listener[p] \in Task
    BY DaemonAssumption DEF FullInv, BaseInv, CarefulInv, TypeInv, TypeOK, Pid, Task
  <2>2. pc[listener[p]] \in {"pidfile", "manifest", "publish", "wait", "record", "done"}
    BY <2>1 DEF FullInv, BaseInv, CarefulInv, ProcInv, TypeInv, TypeOK, PC
  <2> QED
    BY <2>1, <2>2 DEF FullInv, OwnedInv, Owned, Published, InEntry
<1> QED
  BY <1>1, FullInvariant, PTL
=============================================================================
