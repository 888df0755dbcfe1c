# Specifications of OpenBack

OpenBack runs containers on Linux hosts: an engine daemon per host, a control plane
over etcd, and command line tools. This directory holds TLA+ models of it, the TLC
configurations that check them on small instances, and proofs checked by TLAPS.

## The system

| Component | Source | State it keeps | Operations | What is hard | What makes it correct |
|---|---|---|---|---|---|
| Container lifecycle | `daemon.rs` `spawn_replica`, `handle_request` | map of containers behind one async mutex; host ports; FIFOs; `containers/<name>/` | Run, Start, Stop, Rm, Ps, Attach; a background task per spawn; a task that waits for the child | requests, tasks and exits of several generations of a name interleave; tasks find entries by name only; every step can fail after others took effect | at most one process per name; every process can be stopped; nothing of an exited container is left; what restarts read matches the map |
| Recovery | `daemon.rs` `recover_containers` | rebuilds the map from pid files | one pass at start-up | crash between the writes; pid reuse; a container that dies while it is being recovered | every live container is tracked again, or killed; nothing dead is shown as running |
| Image and layer caches | `engine/overlay.rs` | two maps from key to `Notify`; directories | `ensure_base_image`, `ensure_overlay`, `build_ephemeral_sandbox` | checks without the lock, lost wakeups, builds in place, failures half-way, mounts and a build root that outlive a build, two pipes read one after the other | one build per key at a time; what is returned is whole; every caller is answered |
| Launcher | `launcher.rs` | namespaces, mounts | one process per container | death signal asked for after the fork | the container dies with the launcher |
| Store | `daemon.rs` Deps*, Base* | directories under the store | list, inspect, prune | BaseList writes into an image that is being downloaded | what it writes is not taken for an image |
| Node agent | `backlet.rs` `run_node_agent` | none of its own; heartbeat key | every 5 s: heartbeat, read assignments, Ps, Run or Stop+Rm | failed reads, engine and assignments seen at different times, Stop and Rm of a container that is being built | the node runs what it is assigned, once, and nothing else |
| Leader | `backlet.rs` `run_leader_election`, `run_leader_reconciliation` | `/openback/leader`, assignments | lease, reconcile every 3 s | expired leases, two leaders, unguarded read-then-write | assignments converge to the replicas asked for |
| Cluster API | `backlet.rs` `handle_cluster_request`, `backctl.rs` edit | applications in etcd | Apply, Delete, Scale, Get, Describe | read-modify-write without a transaction | no update is lost |
| Inspector, manifest, RPC types, CLIs | `engine/inspector.rs`, `manifest.rs`, `rpc.rs`, `client.rs`, ... | none | pure functions, one request each | - | - |

Interaction: the CLIs and the node agent send requests to the daemon's socket; a Run or
a Start makes the daemon call the caches, then start the launcher as a child; the leader
and the agents meet only in etcd.

`PROJECT.json` lists under `hazards` what is hard to test, each at its line, with the
properties that cover it or the reason why none does.

## Modules

| Module | What it is |
|---|---|
| `Lifecycle` | what the daemon promises of a name, without locks, tasks, ports or files |
| `Daemon` | the container lifecycle: map, background tasks, launcher children, proxies, files |
| `Container` | `Daemon` with launcher and container told apart, and a history of the Stops it has answered |
| `Recovery` | `Daemon` with crashes and restarts: `recover_containers` and the tasks that wait on a pidfd |
| `NodeAgent` | `Daemon` with one client, the agent's loop over the assignments of its node |
| `OverlayEngine` | the caches: the `Notify` protocol and what a build does to the directories |
| `Sandbox` | the inside of `build_ephemeral_sandbox`, which refines a builder of `OverlayEngine` |
| `Cluster` | the control plane: applications and assignments in etcd, leases, the election and the leader's reconciliation |
| `MCDaemon`, `MCContainer`, `MCRecovery`, `MCNodeAgent`, `MCOverlayEngine`, `MCSandbox`, `MCCluster` | small instances for TLC |
| `DaemonProofs`, `ReachProofs` | theorems about `Daemon`: its tasks and processes, then what containers hold |
| `ContainerProofs`, `NodeAgentProofs`, `RecoveryProofs` | theorems that carry those of `Daemon` over, and some of their own |
| `OverlayEngineProofs`, `SandboxProofs`, `ClusterProofs` | theorems about those modules |

Definitions marked "Variant" in the modules are no part of a specification: each is a
plausible bug of the definition it stands beside, which the properties must notice.

### Daemon

One action is one critical section of the map's mutex, or one step of a task between
two points where another thread can act. `pc[t]` follows the background task of
`spawn_replica` through its steps (`base`, `overlay`, `log`, `bind`, `launch`, `pidfile`,
`manifest`, `publish`) and then the task that waits for the child (`wait`, `record`).
Failures log first and take the mutex afterwards, so an error path is a step to
`unregister` followed by `Unregister`. The failure of the log file returns without
touching the map (`abandoned`).

- The map is `map`, `None` standing for no key. `exit_code` is reduced to whether it is
  set: the launcher always exits with 0, so no code depends on its value.
- A manifest is its sequence of host ports, bound in that order. `proxy_tasks` of an
  entry is the set of ports it has handles for; `listener[p]` is the task whose proxy
  listens on `p`. Dropping a handle does not stop a proxy; aborting one does, but only
  when the runtime gets to it (`aborting`, `ListenerDropped`).
- A task and its child share a number, which stands for the pid: pids are never reused.
  Launcher and container are one process here; `Container` tells them apart.
- `dir` is the pid file and `manifest.json` of a container's directory, `fifo` its stdin
  FIFO. The start time, the log's content and Attach are left out.
- A request that answers an error changes nothing, and is no action, except for a Start
  that was already in progress (`StartRefused`).
- `Faults` names the steps the environment can make fail. Some failures the code ignores:
  a pid file or a manifest that cannot be written (`"disk"`), a FIFO that cannot be made
  (`"fifo"`). A container is launched all the same, so that it may have no FIFO for good;
  `FifoIsKept` is about the FIFO of one that was launched with it.
- A call of the caches is one step, `EnsureBaseImage` or `EnsureOverlay`; it need not ever
  return (`InCaches`, see Fairness).
- `OneProcessPerName` and the other properties of `Daemon` that speak of containers are
  about launchers: a launcher's container may still be dying when the next one starts.

`Spec` lets clients do anything. `CarefulSpec` is the same but for Rm, sent only for a
name Ps lists as exited, as the command line documents it ("Remove a stopped container").
Most of what one expects of the daemon holds under `CarefulSpec` only: an Rm of a
container that is being built leaves a process that is in no entry. The node agent is not
careful, it sends Stop and Rm back to back, and the run `agent_orphan` shows what comes
of it.

### Container

`proc[t]` of `Daemon` is the launcher here, and `box[t]` the container it forks: not yet
asking for a death signal (`unarmed`), in its setup, mounted, running, sent SIGKILL
(`doomed`), gone. A launcher ends when its container has (`ContainerWaited`), when it
fails before the fork (`LauncherFails`), or when it is killed (`LauncherKilled`), and
the kernel then kills a container that has asked for it. That signal is delivered some
time later (`ContainerDies`): the daemon may record the exit, and accept a Start, while
the old container is still dying over the same upper directory. A launcher killed between
its fork and the container's `prctl` leaves a container nobody knows of;
`KilledTakesItsContainer` leaves that window out and is about all others. `stopped[n]` is
what Ps showed of `n` when the last Stop of it was answered.

### Recovery

`Crash` takes the map, the tasks and the sockets away and leaves processes, FIFOs and
directories; `InitReaps` reaps what ends without a parent. `Restart` reads the list of
directories. For each of them one of five things happens, by whether the pid can be read,
`pidfd_open` answers with a descriptor and a manifest can be read: `ForgetUnreadable`,
`KillIncomplete`, `RecoverRunning`, `RegisterStopped`, `ForgetStopped`. Every step of it may
fail: a file that cannot be read (`"read"`), a removal that leaves the directory (`"disk"`),
any error of `pidfd_open`, which the code takes for a process that is gone (`"pidfd"`), a
pidfd the runtime does not take, whose container is marked exited at once (`"asyncfd"`), a
port that cannot be bound (`"rebind"`). `missed` is a history variable: the live processes
that escaped the last recovery in one of these ways. A container that runs takes several steps to come
back: its ports (`Rebind`), the task that waits on its pidfd (`Watch`), its entry
(`Insert`). That task runs beside the recovery (`NoticeExit`, `MarkExited`), and may find
no entry yet: the run `recovery_ghost`. Requests are served once recovery is over
(`Serving`, then the actions of `Daemon` under `Serves`); a crash may hit the recovery too.

A process whose task crashed before it wrote the pid, or could not write it (`"disk"`), is
in no file, and no restart can find it: `RecordedIsTracked` speaks of the others, and of
those the last recovery has not `missed`: nothing in the repository says what should become
of a container that cannot be read, opened or watched. A file that a crash has left half
written counts as one that cannot be read; a pid cut short that is still a number, and the
reuse of pids, are not modelled. Clients are careful ones.

### NodeAgent

One round of `run_node_agent` is a read of the node's assignments, a Ps, a Run for each
replica that is assigned and not listed, and a Stop and an Rm for each that is listed and
not assigned. Every request is a step and may fail (`Outage`); a failed read is an empty
list, any other failure is ignored, as is every answer. Between two of them the leader
assigns and unassigns, and the tasks of the daemon go on. The heartbeat at the head of
the loop is in `Cluster`. Names carry a random suffix, so that a name is assigned once:
the agent's safety rests on it, since the orphan of a removed name would meet a second
process otherwise. `Exhausted` is the model's bound on spawns, not the daemon's.

### OverlayEngine

Both `ensure_*` functions follow one protocol, modelled once: a check without the lock
(`Lookup`), the map (`Acquire` or `Join`), `notified()` (`Await`), and for the builder
`Release`, which wakes those who wait at that moment. `CreateImageDir`, `Fetch`,
`StartExtract`, `FinishExtract` are the download, in place; `Install`, `Rename`,
`StartCopy`, `FinishCopy` the sandbox, seen from outside. What is on disk is one of
missing, empty, listed (empty but for the `base_manifest.json` that BaseList and
BaseInspect write), partial, complete, nested (a second layer copied into a complete one),
and remains: half of an image or layer that nobody fills any more. At the start everything
is there that a daemon killed at any point may have left (`Found`), and a removal, whose
failure the code ignores, may leave what it was to remove or a part of it (`RemoveImage`).
`ImageIsNotLeftHalf` says that there is no third way to an image that is half there.
Two images may share a tarball in `/tmp`: what one call then does to another is a `tar`
that fails, at any point. An error that removes the directory and one that leaves it as
it is are different steps.

### Sandbox

The steps of `build_ephemeral_sandbox` for one layer: a blocking thread with its mount
namespace (`Begin`, `Mount`), the package manager as a process of its own that writes any
number of lines, up to `MaxLines`, to two pipes of `Capacity` lines, the builder that reads
stdout to its end and then stderr, the unmounting, the status, the rename or copy and the
`rm -rf` of the build root. `root` says how many builds have written to the upper
directory; `mounts[t]` how many builds are mounted in the namespace of a thread, which the
thread's next build inherits, until the thread ends.

A build cut short at the start of `chroot` leaves its overlay and the host's `/dev` mounted;
the next `rm -rf` of the build root from that thread then empties `/dev` (`cut`,
`devices`). A crash, or a failure after the package manager has succeeded, leaves the upper
directory, which the next build uses as it finds it (`torn`, `layer`). Both are what the
code does and no text says otherwise: `HostKeepsDevices` and `LayerIsOfOneBuild` name these
cases and are about all others.

### Cluster

etcd is atomic and every request to it is one step; what a task does between two requests
belongs to the later one. `election[n]` is the task of `run_leader_election` on node `n`,
with the locals of `run_leader_reconciliation` as long as they are used: `live` nodes,
`wanted` applications, assignments to `remove` and how many to `add`. A read that fails is
an empty answer (`Read`), a write that fails is ignored, a keep-alive request that fails
panics the task. Assignments are removed in the order etcd lists them, so nodes and the
random suffixes of replica names are ordered; suffixes do not collide.

`beats` and `holder` are keys under leases. A lease runs out when its node is down or no
longer renews it, and otherwise only as a fault (a partition, a node that stalls). etcd
answers a keep-alive of a lost lease with a TTL of 0, which the code does not look at, so
`StillAlive` does not depend on `holder`.

An application is the number of its replicas. A Scale is a read and a write; `edit` is an
Apply. The agents' heartbeats are here, their rounds in `NodeAgent`: the two meet in the
assignments of a node, which `Cluster` writes as the leader and `NodeAgent` lets anybody
write in any order.

## Runs

| Run | Instance | What it shows |
|---|---|---|
| `daemon_careful` | 2 names, 2 ports, manifests `<<p1,p2>>` and `<<p2>>`, 3 spawns, tasks that fail, FIFOs that cannot be made | consistency of map, processes, ports and files, FIFOs that stay, and the refinement of `Lifecycle` |
| `daemon_progress` | `Container`, 1 name, 1 port, 3 spawns, a Start in progress, launchers and setups that fail | killed launchers take their containers along, every end is recorded, building containers resolve once the caches have answered, ports come free, stopped containers stay down |
| `node_agent` | 2 replicas that ask for one port, 2 spawns, 1 failed request, overlays that fail | what is assigned comes up, once, and is left alone; what is not goes down; pids that Stop kills are nobody else's (but while an exit is being recorded) and entries keep to their own ports, although the client is not careful |
| `agent_orphan` (violation) | 1 replica, nothing fails | a replica removed while it was being built, whose process runs for good and is never listed |
| `recovery_restart` | 2 names, 1 manifest of 2 ports, 2 spawns, 2 crashes at any point, launches, rebinds, reads, writes, pidfds and their registration that fail | every live container whose pid is on disk, and which recovery could read, open and watch, is tracked and waited for again; handles are those of proxies that listen; recovery ends |
| `recovery_ghost` (violation) | 1 name, 1 crash | an entry that shows a dead container as running, with nobody left to notice |
| `overlay_flight` | 3 calls, an image and a layer, BaseList, what a killed daemon left, all failures of builds and removals but a rename | one builder, whole layers that stay, images left half unpacked by a killed daemon or a failed removal only, answered waiters |
| `overlay_partial_image` (violation) | 3 calls, an image | Ok for a half unpacked image |
| `overlay_lost_wakeup` (violation) | 3 calls, a layer | a wakeup lost between the clone and `notified()` |
| `sandbox` | 3 calls for a layer, 2 threads, pipes of 1 line, 2 lines per pipe, all failures | the build ends, its output is read, a layer is of one build, `/dev` stays, and all of it implements `OverlayEngine` |
| `cluster_converge` | 2 nodes, 1 application of up to 2 replicas, 2 requests, 1 crash, failed request or lost lease | assignments converge, also under two leaders; exact scaling while nothing fails; somebody leads |
| `cluster_two_leaders` (violation) | 2 nodes, 1 lost lease | a leader without a lease that never steps down |

Bounds. In `daemon_careful` three spawns on two names give a name two generations while
another name competes for its ports, or three generations of one name; tasks find each
other through names and ports only, so a third name adds no new encounter. The second port
of `<<p1,p2>>` makes a bind fail after another succeeded. In `daemon_progress` the third
generation meets a port that the second has found taken by the first. In `node_agent` the
two replicas compete for their port, and the one failed request can be any; two spawns are
a replica that is started again, or one of each. Three callers are a builder, a waiter and
a latecomer; in `sandbox` the second thread lets a build start while another thread holds
stale mounts, and two lines for a pipe of one are what fills it. The second crash of
`recovery_restart` is there to hit the recovery of the first; its names share one manifest,
since what differs between manifests is no concern of a recovery but for the conflicts. In `cluster_converge` a second
node is a second leader, four suffixes are what two leaders that both start from an empty
list can use up, and one fault splits the leadership, blinds a read, drops a write or kills
a node; requests and faults are finite, so that what must hold in the end has an end to hold
in. The daemon and the callers come to rest when the bound is used up: deadlock is not
checked there. It is checked in `node_agent` and `cluster_converge`, whose loops never end.

Fairness. Weak fairness of the steps of each task (tokio polls a task that can go on, its
mutex is a fair queue) but for its calls of the caches: those may wait for ever, for a wakeup
that was lost (overlay.rs:242, the run `overlay_lost_wakeup`) or a package manager that blocks
on its stderr (overlay.rs:448), so that `OwnStep` leaves them out, `BuildingResolves` is about
calls that have returned, and `AssignedComesUp` counts a container that is being built as up.
Weak fairness also of the death of a killed process, and of the runtime dropping an
aborted proxy. In `Container`, of the launcher's and the container's own steps, which the
kernel schedules. In `NodeAgent`, of the agent's loop. In `Sandbox`, of the builder's thread
and of the package manager going on while it has room to write. In `Cluster`, of the steps
of a backlet that runs, of leases nobody renews running out, and of a Scale being finished;
no node has to restart. No container has to end by itself, no build has to fail and no
client has to send a request. `BuildingResolves` needs a log file that can be created:
otherwise the entry stays for ever. `BuildEnds` is for a package manager whose stderr fits
into the pipe: with more, it blocks on stderr while the builder waits for the end of stdout.

## Proofs

All theorems hold for any value of the constants. They assume what the modules do: `None` is
no entry, job, directory, caller, key, node, thread or candidate of a recovery (it stands for
Rust's `None` or a key that is not there); manifests are sequences of ports; images and
layers are different keys; nodes and suffixes are ordered as numbers are; bounds are natural
numbers. `Sandbox` is about one layer, hence one build root, and says so
(`SandboxAssumption`): the code derives the root from the layer's hash.

`DaemonProofs`:

- `TypeCorrect`: `Spec => []TypeOK`, strengthened by `JobInv` (a started task has a job and
  never more bound ports than its manifest lists).
- `KilledPidsAreHeld`: `Spec => []KilledPidIsHeld`, for all clients. The pid in an entry not
  yet marked exited has not been reaped, and so not been given to another process, unless the
  task that waits for it is about to record the exit. By `HeldInv` the pid of an
  unfinished entry is that of a task of the same name that waits for its child or is about to
  record its end, so that the record of one end never leaves the pid of another in place.
- `AtMostOneProcess` and `ProcessesAreTracked`: `CarefulSpec => []OneProcessPerName` and
  `CarefulSpec => []NoOrphan`. The inductive invariant is `CarefulInv`: the state of a child
  follows from where its task is (`ProcInv`), a task that is over has no live child
  (`EndedInv`), and a task that is not over owns the unfinished entry of its name, alone
  (`GenerationInv`). The ownership is needed because the tasks find the entry by name: an
  entry without its task would let a second one in, and a task without its entry would
  write into the next one's.
- `ImplementsLifecycle`: `CarefulSpec => LifecycleSpec`. From `CarefulInv`, every step is a
  step of `Lifecycle` or changes neither status nor processes; `Unregister`, say, is
  `GiveUp` because the entry it removes is its own and its task was never launched.

The lemmas about ownership are stated for a set `G` of names that are left out
(`Generations(G)`): of a name in `G` an entry may be gone while its task goes on, and only
that no second task is there is still said. No step but an Rm of an unfinished entry or a
spawn touches a name's place in or outside `G`. With `G = {}` this is `GenerationInv`, for
careful clients and across crashes; with the replicas the agent has given up for good it is
what holds on a node.

`ReachProofs`: for all clients `HandlesAreTheNamesOwn`, `Spec => []HandlesAreExclusive`. By
`PortInv`, on a port that a task has bound and not published (`LocalInv`) or that an entry
has a handle of (`EntryInv`), the proxy of that task, or of the entry's pid, listens and is
not aborted; a proxy that is being aborted still listens (`AbortInv`). For careful clients
`RunningContainersAreReachable`, `LiveContainersKeepTheirFifo` (`CarefulSpec => FifoIsKept`, an
action property: of the steps that remove a FIFO of a name none finds a live container of it),
`ExitedContainersHoldNothing`, `LaunchedContainersLeakNoPort` and, where no write fails (`"disk" \notin Faults`), `RunningContainersAreOnDisk`. `FullInv`
adds to the invariants before what a task has prepared and written by the time of each step
(`WorkInv`), where the handle of every listening port is (`OwnedInv`), and what an entry
shown as running or exited has of these (`ShownInv`).

`ContainerProofs`: `ContainerIsCareful` (`ContainerSpec => CarefulSpec`, so that the theorems
above hold with launcher and container told apart) and `StopHolds`
(`ContainerSpec => []StoppedStaysDown`), by `StopInv`: once a Stop has been answered for a
running or an exited name, a task the name still has is waiting for a killed launcher, or
recording its end.

`RecoveryProofs`: `RecoveryTypeCorrect`, `RecordedIsFoundAgain`
(`RecoverySpec => []RecordedIsTracked`), `RecoveredHandlesAreOwn`
(`RecoverySpec => []RecoveredHandlesListen`), and `NothingIsMissed`: if no read, pidfd or
registration fails, `missed` stays empty and `RecordedIsTracked` has no exception; for any number of crashes at any point. While the daemon
serves, its steps are `Daemon`'s, and the lemmas above are cited for `CoreInv`, the part of
the invariant that is about the daemon alone. `EndedInv` is not in it, for a task whose
daemon has crashed is over and its child lives. What takes its place is `DiskInv`: a live
process with a directory is still in the list being scanned, or the candidate being
re-registered, or about to be published by its task, or in the map with a task that waits for
it, or `missed` (`Lost`). `DirInv` says whose pid a directory holds, `CandidateInv` that the candidate is the one on
disk and that its proxies listen, `ScanInv` that what is still to be looked at is not in the
map, and `WatchInv` that a task that waits on a pidfd has an entry to mark, or one about to be
inserted. The second half of that sentence is where `recovery_ghost` comes from: such a task
may look for its entry too early, and then `DiskInv` has nothing to say, since the process is
dead.

`NodeAgentProofs`: `AgentImplementsDaemon` (`AgentSpec => Spec`: the agent runs only what was
assigned, and removes only names), and with it `AgentKillsWhatIsHeld` and `AgentKeepsHandlesApart`,
the two properties that hold for all clients. `ReplicasHaveOneProcess`
(`AgentSpec => []OneProcessPerReplica`) and `AgentLeavesAssignedAlone`
(`AgentSpec => AssignedIsLeftAlone`) do not follow from those: the agent is not careful. What
saves it is that a name is assigned once. `PlanInv` says that what it stops and removes is in
`Gone`, unassigned for good and not about to be run; on all other names the daemon's tasks own
their entries (`Generations(Gone)`), and a name in `Gone` starts no second task. Both are
about an agent that has never taken a failed read for an empty list of assignments (`blind`).

`OverlayEngineProofs`: `TypeCorrect`; `MutualExclusion` (`Spec => []OneBuilder`), by
`HolderInv`: whoever builds is the creator of the `Notify` in the map; `NoImageIsLeftHalf`,
by `UnpackInv` and `RemainsInv`: an image that is being filled has a builder that fills it, and
remains come from a crash or a removal; `WholeLayersStay` (`Spec => LayerStays`, an action property); and, where renames succeed
(`"rename" \notin Faults`), `LayersAreWhole` (`Spec => []LayerReady`).

`SandboxProofs`: `SandboxImplements` (`SandboxSpec => ImplementsOverlayEngine`) and
`SandboxExclusion`, where an installation may fail (`"install" \in Faults`): in
`OverlayEngine` that failure stands for every early return before the layer is moved. The
exclusion is used for the rest: `OutputIsReadToItsEnd` (`[]OutputIsRead`),
`LayersAreOfOneBuild` (`[]LayerIsOfOneBuild`) and `DevicesAreKept` (`[]HostKeepsDevices`). As
one build is inside at a time (`Alone`), what is mounted in a thread's namespace is what the
build on that thread mounted, as long as none was cut short (`MountInv`), so that a build
root is removed with nothing mounted below it; the upper directory a build starts from is
clean (`RootInv`); and the end of a pipe is seen after the last line (`PipeInv`).

`ClusterProofs`: `TypeCorrect`, with the assignments finite; `NeverTooManyReplicas`
(`Spec => []NeverOverAssigned`); and `ScaleDownLeavesEnough` (`Spec => KeepsWhatIsWanted`, an
action property). While there is no fault only the holder of the key leads (`HolderInv`), so
nobody else writes under its plan. The replicas that are there, without those of dead nodes,
which it removes first, and those it is still to add are together no more than may be asked
for (`PlanInv`). Of an application it is to scale down, what is there and not in its plan is
no less than it wants (`LeftInv`): the first `k` of a listing are at most `k`
(`FirstOfSize`, by the pigeonhole principle, as the keys are strictly ordered), and what is
written later only adds to the rest.

Only model-checked: the liveness properties of every module, as fairness is out of the
prover's reach. What the `violation` runs show needs no proof. Every invariant and every
action property of a passing run is a theorem.

## Not modelled

- Pids that are used again, by the kernel or after a restart of the host: a task's number
  stands for its pid. What `KilledPidIsHeld` shows is where the code keeps that from
  mattering; the window it leaves (daemon.rs:685-698) is not explored further.
- Failures the code ignores and that no property depends on: of unlinking a FIFO, of removing
  a directory in Rm, of `rm -rf` on a build root and of `umount2`.
- Attach and the proxies' connections: they read the map and copy bytes. An Attach may
  block on a FIFO that the container opens by a path of its new root.
- DepsList, DepsInspect and Logs, which read; DepsRemove, which does nothing; DepsPrune and
  BasePrune, which look at directories nothing in the source writes to.
- `engine/inspector.rs`, a pure classification of a directory; `manifest.rs` and `rpc.rs`, data
  types; the command line tools, which send one request and print the answer; packaging.
- Which mounts, devices, limits and capabilities a container gets: its setup is one step
  that fails or not.
- Specifications in `Cluster` beyond the number of replicas.

## Plan

1. Reuse of pids in `Daemon` and `Recovery` (a recovered or reaped pid that names another
   process).
2. Specifications told apart in `Cluster` and `NodeAgent`: an assignment keeps the one it was
   written with, and `edit` writes back an old one.
3. `Daemon` with `OverlayEngine` in place of `EnsureBaseImage` and `EnsureOverlay`.
4. Proofs about what 1. to 3. add: with pids that come back, that a Stop kills a process of
   its name but in the window `KilledPidIsHeld` leaves; and that `Daemon` with
   `OverlayEngine` inside implements `Daemon` as it is now.
