------------------------------- MODULE Sandbox -------------------------------
(***************************************************************************)
(* The inside of build_ephemeral_sandbox (src/src/engine/overlay.rs): the  *)
(* build root of a layer, the mounts a build leaves in the namespace of    *)
(* the thread it runs on, the package manager and its two pipes.           *)
(*                                                                         *)
(* The module refines the builder's steps of OverlayEngine: a step below   *)
(* is a step of that module or leaves its variables alone.  There is one   *)
(* layer, so that one build root is at stake; images are not built here.   *)
(*                                                                         *)
(* A blocking thread of the runtime enters a mount namespace of its own    *)
(* for its first build and stays in it; a later build of the thread starts *)
(* from a copy of that namespace, with what is mounted in it.              *)
(***************************************************************************)
EXTENDS OverlayEngine

CONSTANTS
  Threads,   \* blocking threads of the runtime
  Capacity,  \* lines a pipe holds
  MaxLines   \* bound: lines a package manager writes to either pipe

ASSUME SandboxAssumption ==
  /\ Capacity \in Nat
  /\ MaxLines \in Nat
  /\ None \notin Threads
  /\ \A k, l \in Layers : k = l  \* one build root

VARIABLES
  step,    \* Callers -> the step of build_ephemeral_sandbox, "none" outside it
  thread,  \* Callers -> the thread the build runs on, or None
  mounts,  \* Threads -> how many builds are mounted on each other in its namespace
  root,    \* the upper directory of the build root: "absent", "clean", or written
           \* by one build ("used") or by more than one ("mixed")
  child,   \* the package manager
  left,    \* the lines it has yet to write to each pipe
  pipe,    \* the lines in each pipe
  layer,   \* what the layer in the cache was made of
  garbled, \* whether the build gave up on a pipe for a line that is not UTF-8
  torn,    \* whether a build was cut short with its upper directory in use
  cut,     \* whether a build was cut short with its mounts in place
  devices  \* whether the host still has its device nodes

packageVars == <<child, left, pipe, garbled>>
historyVars == <<torn, cut, devices>>
buildVars == <<mounts, root, layer, packageVars, historyVars>>
sandboxVars == <<step, thread, buildVars>>
allVars == <<vars, sandboxVars>>

Pipe == {"stdout", "stderr"}
Lines == [Pipe -> 0 .. MaxLines]
Empty == [p \in Pipe |-> 0]

\* A daemon that died during a build has left its upper directory behind.
SandboxInit ==
  /\ Init
  /\ step = [c \in Callers |-> "none"]
  /\ thread = [c \in Callers |-> None]
  /\ mounts = [t \in Threads |-> 0]
  /\ root \in {"absent", "used"}
  /\ child = "none"
  /\ left = Empty
  /\ pipe = Empty
  /\ layer = "none"
  /\ garbled = FALSE
  /\ torn = (root = "used")
  /\ cut = FALSE
  /\ devices = TRUE

At(c, from, to) == step[c] = from /\ step' = [step EXCEPT ![c] = to]
Leave(c) == thread' = [thread EXCEPT ![c] = None]

\* An early return: what the build has set up stays as it is.
Bail(c, from, fault) ==
  /\ MayFail(fault)
  /\ At(c, from, "none")
  /\ Leave(c)
  /\ Goto(c, "build", "broken")
  /\ UNCHANGED <<key, joined, locks, store>>

-----------------------------------------------------------------------------
(* Setting up. *)

\* spawn_blocking takes an idle thread; the directories are made unless they
\* are there.
Begin(c) ==
  /\ pc[c] = "build"
  /\ At(c, "none", "unshare")
  /\ \E t \in Threads :
       /\ \A d \in Callers : thread[d] # t
       /\ thread' = [thread EXCEPT ![c] = t]
  /\ root' = IF root = "absent" THEN "clean" ELSE root
  /\ UNCHANGED <<vars, mounts, layer, packageVars, historyVars>>

\* No base image, a directory that cannot be made, no namespace, or an overlay
\* that cannot be mounted, as when the upper directory is mounted already.
SetupFails(c) ==
  /\ Bail(c, "unshare", "setup")
  /\ UNCHANGED buildVars

\* unshare, the overlay, /proc and the host's /dev below it; the results of the
\* last two are ignored.
Mount(c) ==
  /\ At(c, "unshare", "spawn")
  /\ mounts' = [mounts EXCEPT ![thread[c]] = @ + 1]
  /\ UNCHANGED <<vars, thread, root, layer, packageVars, historyVars>>

\* Variant: the child is waited for before its pipes are read.
SpawnAndWait(c) ==
  /\ At(c, "spawn", "wait")
  /\ child' = "running"
  /\ left' \in Lines
  /\ pipe' = Empty
  /\ garbled' = FALSE
  /\ root' = IF root = "clean" THEN "used" ELSE "mixed"
  /\ UNCHANGED <<vars, thread, mounts, layer, historyVars>>

\* The package manager may write any number of lines to each pipe.
Spawn(c) ==
  /\ At(c, "spawn", "stdout")
  /\ child' = "running"
  /\ left' \in Lines
  /\ pipe' = Empty
  /\ garbled' = FALSE
  /\ root' = IF root = "clean" THEN "used" ELSE "mixed"
  /\ UNCHANGED <<vars, thread, mounts, layer, historyVars>>

\* chroot cannot be started: the early return leaves the mounts.
SpawnFails(c) ==
  /\ Bail(c, "spawn", "chroot")
  /\ cut' = TRUE
  /\ UNCHANGED <<mounts, root, layer, packageVars, torn, devices>>

-----------------------------------------------------------------------------
(* The package manager, which is not polled but scheduled by the kernel. *)

Write(p) ==
  /\ child = "running"
  /\ left[p] > 0
  /\ pipe[p] < Capacity
  /\ left' = [left EXCEPT ![p] = @ - 1]
  /\ pipe' = [pipe EXCEPT ![p] = @ + 1]
  /\ UNCHANGED <<vars, step, thread, mounts, root, child, layer, garbled, historyVars>>

Exit(status) ==
  /\ child = "running"
  /\ child' = status
  /\ left' = Empty
  /\ UNCHANGED <<vars, step, thread, mounts, root, pipe, layer, garbled, historyVars>>

Succeed == left = Empty /\ Exit("succeeded")

\* A failure may come at any time, and need not come.
Fail == MayFail("install") /\ Exit("failed")

WorkOn == Succeed \/ \E p \in Pipe : Write(p)

-----------------------------------------------------------------------------
(* The builder: stdout is read to its end, then stderr. *)

ReadLine(c, p) ==
  /\ step[c] = p
  /\ pipe[p] > 0
  /\ pipe' = [pipe EXCEPT ![p] = @ - 1]
  /\ UNCHANGED <<vars, step, thread, mounts, root, child, left, layer, garbled, historyVars>>

\* The loop over a pipe ends at an error as well.
GiveUp(c, p) ==
  /\ MayFail("line")
  /\ At(c, p, IF p = "stdout" THEN "stderr" ELSE "wait")
  /\ pipe[p] > 0
  /\ garbled' = TRUE
  /\ UNCHANGED <<vars, thread, mounts, root, child, left, pipe, layer, historyVars>>

EndOfFile(p) == child # "running" /\ pipe[p] = 0

StdoutEnds(c) ==
  /\ At(c, "stdout", "stderr")
  /\ EndOfFile("stdout")
  /\ UNCHANGED <<vars, thread, buildVars>>

\* Variant: stderr is not read.
StderrSkipped(c) ==
  /\ At(c, "stderr", "wait")
  /\ UNCHANGED <<vars, thread, buildVars>>

StderrEnds(c) ==
  /\ At(c, "stderr", "wait")
  /\ EndOfFile("stderr")
  /\ UNCHANGED <<vars, thread, buildVars>>

Unmount(c) == mounts' = [mounts EXCEPT ![thread[c]] = @ - 1]

\* Variant: the mounts are torn down after the status has been checked.
WaitKeepsMounts(c) ==
  /\ At(c, "wait", IF child = "succeeded" THEN "cachedir" ELSE "discard")
  /\ child # "running"
  /\ IF child = "succeeded" THEN Unmount(c) ELSE UNCHANGED mounts
  /\ child' = "none"
  /\ UNCHANGED <<vars, thread, root, left, pipe, layer, garbled, historyVars>>

\* The status is looked at after the mounts are gone.
Wait(c) ==
  /\ At(c, "wait", IF child = "succeeded" THEN "cachedir" ELSE "discard")
  /\ child # "running"
  /\ Unmount(c)
  /\ child' = "none"
  /\ UNCHANGED <<vars, thread, root, left, pipe, layer, garbled, historyVars>>

\* rm -rf of the build root does not stop at mount points: with an earlier
\* build still mounted it empties the host's /dev, and the mount point stays.
RemoveRoot(c) ==
  /\ devices' = (devices /\ mounts[thread[c]] = 0)
  /\ root' \in IF mounts[thread[c]] = 0 THEN {"absent"} ELSE {"clean", "mixed"}

\* Variant: the build root is left as it is.
DiscardNothing(c) ==
  /\ At(c, "discard", "none")
  /\ Leave(c)
  /\ Goto(c, "build", "broken")
  /\ UNCHANGED <<key, joined, locks, store, buildVars>>

Discard(c) ==
  /\ At(c, "discard", "none")
  /\ Leave(c)
  /\ Goto(c, "build", "broken")
  /\ RemoveRoot(c)
  /\ UNCHANGED <<key, joined, locks, store, mounts, layer, packageVars, torn, cut>>

-----------------------------------------------------------------------------
(* Persisting the layer. *)

MakeCacheDir(c) ==
  /\ At(c, "cachedir", "persist")
  /\ Goto(c, "build", "persist")
  /\ UNCHANGED <<key, joined, locks, store, thread, buildVars>>

\* The early return leaves the upper directory with all that was installed.
CacheDirFails(c) ==
  /\ Bail(c, "cachedir", "cachedir")
  /\ torn' = TRUE
  /\ UNCHANGED <<mounts, root, layer, packageVars, cut, devices>>

RenameUpper(c) ==
  /\ At(c, "persist", "finish")
  /\ Rename(c)
  /\ layer' = root
  /\ root' = "clean"
  /\ UNCHANGED <<thread, mounts, packageVars, historyVars>>

\* A copy into a layer that is there does not change it.
CopyUpper(c) ==
  /\ At(c, "persist", "copy")
  /\ StartCopy(c)
  /\ layer' = IF store[key[c]] = "missing" THEN root ELSE layer
  /\ UNCHANGED <<thread, mounts, root, packageVars, historyVars>>

\* Variant: the status of cp is ignored.
CopyEndsUnchecked(c) ==
  /\ At(c, "copy", "finish")
  /\ Goto(c, "copying", "built")
  /\ UNCHANGED <<key, joined, locks, store, thread, buildVars>>

CopyEnds(c) ==
  /\ At(c, "copy", "finish")
  /\ FinishCopy(c)
  /\ UNCHANGED <<thread, buildVars>>

Finish(c) ==
  /\ At(c, "finish", "none")
  /\ Leave(c)
  /\ RemoveRoot(c)
  /\ UNCHANGED <<vars, mounts, layer, packageVars, torn, cut>>

-----------------------------------------------------------------------------
\* An idle blocking thread ends after ten seconds, and its namespace with it.
ThreadEnds(t) ==
  /\ mounts[t] > 0
  /\ \A c \in Callers : thread[c] # t
  /\ mounts' = [mounts EXCEPT ![t] = 0]
  /\ UNCHANGED <<vars, step, thread, root, layer, packageVars, historyVars>>

BuildStep(c) ==
  \/ Begin(c)
  \/ SetupFails(c)
  \/ Mount(c)
  \/ Spawn(c)
  \/ SpawnFails(c)
  \/ \E p \in Pipe : ReadLine(c, p) \/ GiveUp(c, p)
  \/ StdoutEnds(c)
  \/ StderrEnds(c)
  \/ Wait(c)
  \/ Discard(c)
  \/ MakeCacheDir(c)
  \/ CacheDirFails(c)
  \/ RenameUpper(c)
  \/ CopyUpper(c)
  \/ CopyEnds(c)
  \/ Finish(c)

\* The protocol of OverlayEngine around a build, which is over when its last
\* rm -rf is.
Protocol(c) ==
  /\ \/ \E k \in Layers : Call(c, k)
     \/ Lookup(c)
     \/ Acquire(c)
     \/ Join(c)
     \/ Await(c)
     \/ step[c] = "none" /\ Release(c)
     \/ Recheck(c)
  /\ UNCHANGED sandboxVars

SandboxNext ==
  \/ \E c \in Callers : BuildStep(c) \/ Protocol(c)
  \/ WorkOn
  \/ Fail
  \/ \E t \in Threads : ThreadEnds(t)

\* The builder's thread and the package manager are scheduled.
SandboxFairness ==
  /\ \A c \in Callers : WF_allVars(BuildStep(c))
  /\ WF_allVars(WorkOn)

SandboxSpec == SandboxInit /\ [][SandboxNext]_allVars
FairSandboxSpec == SandboxSpec /\ SandboxFairness

-----------------------------------------------------------------------------
\* What a builder does to the cache is what OverlayEngine says it does.
ImplementsOverlayEngine == Spec

\* The package manager ends and its status is looked at, however much it writes
\* to stdout, if what it writes to stderr fits into the pipe: the builder reads
\* stdout to its end first (overlay.rs:448-480).
BuildEnds ==
  child = "running" /\ left["stderr"] + pipe["stderr"] <= Capacity
    ~> child = "none" \/ garbled

\* All that the package manager has written is in the log when its status is
\* looked at (overlay.rs:440-480).
OutputIsRead ==
  \A c \in Callers : step[c] \in {"discard", "cachedir"} =>
    pipe = Empty \/ garbled

\* A layer holds what one build has installed and nothing of an earlier one
\* that failed, unless a build was cut short: by a crash, by a failure once the
\* package manager had succeeded, or with its mounts in place (overlay.rs:489-507).
LayerIsOfOneBuild == ~torn /\ ~cut => layer # "mixed"

\* The host's /dev, bound below every build root, is never below what rm -rf
\* removes, unless a build was cut short with its mounts in place
\* (overlay.rs:484-487, 550).
HostKeepsDevices == ~cut => devices
=============================================================================
