---------------------------- MODULE SandboxProofs ----------------------------
(***************************************************************************)
(* The build in the sandbox implements the builder of OverlayEngine, for   *)
(* any callers, threads, pipes and failures, so that what is proved of     *)
(* OverlayEngine holds with the inside of the sandbox as well: among it,   *)
(* that a layer has one builder, on which the rest is built: that what the *)
(* package manager writes is read, that a layer is of one build, and that  *)
(* no rm -rf meets what is mounted.                                        *)
(***************************************************************************)
EXTENDS Sandbox, OverlayEngineProofs

\* Calls are for layers: an image is unpacked, not built in a sandbox.
LayerInv ==
  \A c \in Callers : pc[c] # "idle" => key[c] \in Layers

LEMMA LayerInit == SandboxInit => LayerInv
  BY DEF SandboxInit, Init, LayerInv

\* A step of the protocol is that of OverlayEngine.
LEMMA ProtocolStep ==
  ASSUME NEW c \in Callers, Protocol(c)
  PROVE  Next
  BY DEF Protocol, Next, Step, Keys

\* Every other step is inside the builder's, or the end of the package manager's
\* part of it, in success or failure.
LEMMA BuilderStep ==
  ASSUME LayerInv, "install" \in Faults, NEW c \in Callers, BuildStep(c)
  PROVE  [Next]_vars
<1>1. CASE \/ Begin(c) \/ Mount(c) \/ Spawn(c) \/ StdoutEnds(c) \/ StderrEnds(c)
           \/ Wait(c) \/ Finish(c)
           \/ \E p \in Pipe : ReadLine(c, p) \/ GiveUp(c, p)
  BY <1>1 DEF Begin, Mount, Spawn, StdoutEnds, StderrEnds, Wait, Finish,
              ReadLine, GiveUp
<1>2. CASE \/ SetupFails(c) \/ SpawnFails(c) \/ Discard(c) \/ CacheDirFails(c)
           \/ MakeCacheDir(c)
  <2>1. Install(c)
    BY <1>2 DEF SetupFails, SpawnFails, Discard, CacheDirFails, MakeCacheDir,
                Bail, Install, LayerInv, Goto, MayFail
  <2> QED
    BY <2>1 DEF Next, Step
<1>3. CASE RenameUpper(c) \/ CopyUpper(c) \/ CopyEnds(c)
  BY <1>3 DEF RenameUpper, CopyUpper, CopyEnds, Next, Step
<1> QED
  BY <1>1, <1>2, <1>3 DEF BuildStep

LEMMA SandboxStepIsNext ==
  ASSUME LayerInv, "install" \in Faults, [SandboxNext]_allVars
  PROVE  [Next]_vars
<1>1. CASE UNCHANGED allVars \/ WorkOn \/ Fail \/ \E t \in Threads : ThreadEnds(t)
  BY <1>1 DEF allVars, WorkOn, Succeed, Fail, Exit, Write, ThreadEnds
<1> QED
  BY <1>1, ProtocolStep, BuilderStep DEF SandboxNext

\* A call keeps what it is for until it ends.
LEMMA LayerKept ==
  ASSUME LayerInv, key' = key,
         \A c \in Callers : pc'[c] # "idle" => pc[c] # "idle"
  PROVE  LayerInv'
  BY DEF LayerInv

LEMMA LayerStep == TypeInv /\ LayerInv /\ [SandboxNext]_allVars => LayerInv'
<1> USE DEF TypeInv, TypeOK, CallInv
<1> SUFFICES ASSUME TypeInv, LayerInv, [SandboxNext]_allVars
             PROVE  LayerInv'
  OBVIOUS
<1>1. CASE UNCHANGED vars
  BY <1>1, LayerKept DEF vars
<1>2. ASSUME NEW c \in Callers, NEW k \in Layers, Call(c, k)
      PROVE  LayerInv'
  BY <1>2 DEF Call, Goto, LayerInv
<1>3. ASSUME NEW c \in Callers,
             Lookup(c) \/ Acquire(c) \/ Join(c) \/ Await(c) \/ Recheck(c)
      PROVE  LayerInv'
  BY <1>3, LayerKept DEF Lookup, Acquire, Join, Await, Recheck, Goto
<1>4. ASSUME NEW c \in Callers, Release(c)
      PROVE  LayerInv'
  BY <1>4, LayerKept DEF Release
<1>5. ASSUME NEW c \in Callers, BuildStep(c)
      PROVE  LayerInv'
  <2>1. CASE \/ Begin(c) \/ Mount(c) \/ Spawn(c) \/ StdoutEnds(c) \/ StderrEnds(c)
             \/ Wait(c) \/ Finish(c)
             \/ \E p \in Pipe : ReadLine(c, p) \/ GiveUp(c, p)
    BY <2>1, <1>1 DEF Begin, Mount, Spawn, StdoutEnds, StderrEnds, Wait, Finish,
                      ReadLine, GiveUp
  <2>2. CASE \/ SetupFails(c) \/ SpawnFails(c) \/ Discard(c) \/ CacheDirFails(c)
             \/ MakeCacheDir(c)
    BY <2>2, LayerKept DEF SetupFails, SpawnFails, Discard, CacheDirFails,
                           MakeCacheDir, Bail, Goto
  <2>3. CASE RenameUpper(c) \/ CopyUpper(c) \/ CopyEnds(c)
    BY <2>3, LayerKept DEF RenameUpper, CopyUpper, CopyEnds, Rename, StartCopy,
                           FinishCopy, Goto
  <2> QED
    BY <1>5, <2>1, <2>2, <2>3 DEF BuildStep
<1>6. CASE UNCHANGED allVars \/ WorkOn \/ Fail \/ \E t \in Threads : ThreadEnds(t)
  BY <1>6, <1>1 DEF allVars, WorkOn, Succeed, Fail, Exit, Write, ThreadEnds
<1> QED
  BY <1>2, <1>3, <1>4, <1>5, <1>6 DEF SandboxNext, Protocol

-----------------------------------------------------------------------------
\* What the inside of a build does to the cache is what OverlayEngine says a
\* builder does: each step is a step of OverlayEngine or leaves its variables
\* alone.  The early returns before the package manager has succeeded and its
\* own failure are that module's failing installation.
THEOREM SandboxImplements ==
  ASSUME "install" \in Faults
  PROVE  SandboxSpec => ImplementsOverlayEngine
<1>1. SandboxInit => Init /\ TypeInv /\ LayerInv
  BY TypeInit, LayerInit DEF SandboxInit
<1>2. TypeInv /\ LayerInv /\ [SandboxNext]_allVars
        => [Next]_vars /\ TypeInv' /\ LayerInv'
  BY SandboxStepIsNext, TypeStep, LayerStep
<1> QED
  BY <1>1, <1>2, PTL DEF SandboxSpec, ImplementsOverlayEngine, Spec

\* Whatever happens inside the builds of a layer, no two of them are under way
\* at the same time, so that one build root has one build in it.
THEOREM SandboxExclusion ==
  ASSUME "install" \in Faults
  PROVE  SandboxSpec => []OneBuilder
BY SandboxImplements, MutualExclusion DEF ImplementsOverlayEngine

-----------------------------------------------------------------------------
(* One build is inside the sandbox at a time: what it does to the mounts,    *)
(* the build root and the pipes is not disturbed by another one.             *)

Steps == {"none", "unshare", "spawn", "stdout", "stderr", "wait", "discard",
          "cachedir", "persist", "copy", "finish"}
Inside(c) == step[c] # "none"

\* Where the caller is in OverlayEngine while its build is at a step.
PhaseInv ==
  /\ step \in [Callers -> Steps]
  /\ thread \in [Callers -> Threads \cup {None}]
  /\ \A c \in Callers :
       /\ Inside(c) => thread[c] \in Threads
       /\ step[c] \in {"unshare", "spawn", "stdout", "stderr", "wait", "discard",
                       "cachedir"} => pc[c] = "build"
       /\ step[c] = "persist" => pc[c] = "persist"
       /\ step[c] = "copy" => pc[c] = "copying"
       /\ step[c] = "finish" => pc[c] \in {"built", "broken"}

LEMMA PhaseInit == SandboxInit => PhaseInv
  BY DEF SandboxInit, PhaseInv, Inside, Steps

\* The steps of a build that leave the caller where it is in OverlayEngine.
LEMMA PhaseKept ==
  ASSUME TypeInv, PhaseInv, pc' = pc, NEW c \in Callers,
         NEW from \in Steps \ {"none", "persist", "copy", "finish"},
         NEW to \in {"unshare", "spawn", "stdout", "stderr", "wait", "discard", "cachedir"},
         At(c, from, to), thread' = thread
  PROVE  PhaseInv'
  BY DEF PhaseInv, At, Inside, Steps

LEMMA PhaseStep ==
  ASSUME TypeInv, PhaseInv, [SandboxNext]_allVars
  PROVE  PhaseInv'
<1> USE DEF TypeInv, TypeOK
<1>1. CASE UNCHANGED <<pc, step, thread>>
  BY <1>1 DEF PhaseInv, Inside
<1>2. ASSUME NEW c \in Callers, Protocol(c)
      PROVE  PhaseInv'
  \* A caller inside a build is at none of these.
  <2>1. UNCHANGED <<step, thread>>
    BY <1>2 DEF Protocol, sandboxVars
  <2>2. \A d \in Callers : Inside(d) => pc'[d] = pc[d]
    BY <1>2 DEF Protocol, Call, Lookup, Acquire, Join, Await, Release, Recheck,
                Goto, PhaseInv, Inside, Steps
  <2> QED
    BY <2>1, <2>2 DEF PhaseInv, Inside
<1>3. ASSUME NEW c \in Callers, Begin(c)
      PROVE  PhaseInv'
  BY <1>3 DEF Begin, At, PhaseInv, Inside, Steps, vars
<1>4. ASSUME NEW c \in Callers,
             Mount(c) \/ Spawn(c) \/ StdoutEnds(c) \/ StderrEnds(c) \/ Wait(c)
             \/ \E p \in Pipe : GiveUp(c, p)
      PROVE  PhaseInv'
  BY <1>4, PhaseKept DEF Mount, Spawn, StdoutEnds, StderrEnds, Wait, GiveUp, At,
     PhaseInv, Inside, Steps, vars, Pipe
<1>5. ASSUME NEW c \in Callers,
             SetupFails(c) \/ SpawnFails(c) \/ Discard(c) \/ CacheDirFails(c) \/ Finish(c)
      PROVE  PhaseInv'
  BY <1>5 DEF SetupFails, SpawnFails, Discard, CacheDirFails, Finish, Bail, At, Leave,
     Goto, PhaseInv, Inside, Steps, vars
<1>6. ASSUME NEW c \in Callers,
             MakeCacheDir(c) \/ RenameUpper(c) \/ CopyUpper(c) \/ CopyEnds(c)
      PROVE  PhaseInv'
  BY <1>6 DEF MakeCacheDir, RenameUpper, CopyUpper, CopyEnds, Rename, StartCopy,
     FinishCopy, At, Goto, PhaseInv, Inside, Steps
<1>7. ASSUME NEW c \in Callers, NEW p \in Pipe, ReadLine(c, p)
      PROVE  UNCHANGED <<pc, step, thread>>
  BY <1>7 DEF ReadLine, vars
<1>8. CASE UNCHANGED allVars \/ WorkOn \/ Fail \/ \E t \in Threads : ThreadEnds(t)
  BY <1>8, <1>1 DEF allVars, sandboxVars, vars, WorkOn, Succeed, Fail, Exit, Write, ThreadEnds
<1> QED
  BY <1>1, <1>2, <1>3, <1>4, <1>5, <1>6, <1>7, <1>8 DEF SandboxNext, BuildStep

\* The builder of the one layer is the one whose Notify is in the map.
LEMMA Alone ==
  ASSUME HolderInv, LayerInv, PhaseInv,
         NEW c \in Callers, NEW d \in Callers, Inside(c), Inside(d)
  PROVE  c = d
  BY SandboxAssumption DEF HolderInv, LayerInv, PhaseInv, Inside, Steps, HolderPC, BuildPC

InsideInv == TypeInv /\ HolderInv /\ LayerInv /\ PhaseInv

LEMMA InsideStep ==
  ASSUME "install" \in Faults, InsideInv, [SandboxNext]_allVars
  PROVE  InsideInv'
  BY SandboxStepIsNext, TypeStep, HolderStep, LayerStep, PhaseStep DEF InsideInv

-----------------------------------------------------------------------------
\* Unless a build was cut short, what is mounted in a namespace is what the
\* build on its thread has mounted.
Mounted(c) == step[c] \in {"spawn", "stdout", "stderr", "wait"}

MountInv ==
  ~cut =>
    /\ mounts \in [Threads -> {0, 1}]
    /\ \A t \in Threads : mounts[t] = 1 <=> \E c \in Callers : thread[c] = t /\ Mounted(c)

LEMMA MountInit == SandboxInit => MountInv
  BY DEF SandboxInit, MountInv, Mounted

\* Steps that mount nothing and leave the mounted builds as they are.
LEMMA MountKept ==
  ASSUME MountInv, mounts' = mounts, cut' = cut,
         \A c \in Callers : Mounted(c)' <=> Mounted(c),
         \A c \in Callers : Mounted(c) => thread'[c] = thread[c]
  PROVE  MountInv'
  BY DEF MountInv

LEMMA MountStep ==
  ASSUME InsideInv, MountInv, [SandboxNext]_allVars
  PROVE  MountInv'
<1> USE DEF InsideInv, PhaseInv
<1>1. CASE UNCHANGED <<step, thread, mounts, cut>>
  BY <1>1, MountKept DEF Mounted
<1>2. ASSUME NEW c \in Callers, Begin(c)
      PROVE  MountInv'
  BY <1>2, MountKept DEF Begin, At, Mounted, historyVars
<1>3. ASSUME NEW c \in Callers,
             Spawn(c) \/ StdoutEnds(c) \/ StderrEnds(c) \/ \E p \in Pipe : GiveUp(c, p)
      PROVE  MountInv'
  BY <1>3, MountKept DEF Spawn, StdoutEnds, StderrEnds, GiveUp, At, Mounted, Pipe,
     buildVars, historyVars
<1>4. ASSUME NEW c \in Callers,
             SetupFails(c) \/ Discard(c) \/ MakeCacheDir(c) \/ CacheDirFails(c)
             \/ RenameUpper(c) \/ CopyUpper(c) \/ CopyEnds(c) \/ Finish(c)
      PROVE  MountInv'
  BY <1>4, MountKept DEF SetupFails, Discard, MakeCacheDir, CacheDirFails, RenameUpper,
     CopyUpper, CopyEnds, Finish, Bail, At, Leave, Mounted, buildVars, historyVars
\* No other build is on the thread, nor inside at all.
<1>5. ASSUME NEW c \in Callers, Mount(c), ~cut
      PROVE  MountInv'
  <2>1. thread[c] \in Threads /\ step[c] = "unshare" /\ step' = [step EXCEPT ![c] = "spawn"]
    BY <1>5 DEF Mount, At, Inside
  <2>2. \A d \in Callers : ~Mounted(d)
    BY <2>1, Alone DEF Mounted, Inside
  <2>3. mounts = [t \in Threads |-> 0]
    BY <1>5, <2>2 DEF MountInv
  <2>4. /\ mounts' = [mounts EXCEPT ![thread[c]] = 1]
        /\ thread' = thread
    BY <1>5, <2>1, <2>3 DEF Mount
  <2>5. \A d \in Callers : Mounted(d)' <=> d = c
    BY <2>1, <2>2 DEF Mounted
  <2> QED
    BY <2>1, <2>3, <2>4, <2>5 DEF MountInv
<1>6. ASSUME NEW c \in Callers, Wait(c), ~cut
      PROVE  MountInv'
  <2>1. thread[c] \in Threads /\ step[c] = "wait"
    BY <1>6 DEF Wait, At, Inside
  <2>2. \A d \in Callers : Mounted(d) => d = c
    BY <2>1, Alone DEF Mounted, Inside
  <2>3. \A t \in Threads : t # thread[c] => mounts[t] = 0
    BY <1>6, <2>2 DEF MountInv
  <2>4. mounts[thread[c]] = 1
    BY <1>6, <2>1 DEF MountInv, Mounted
  <2>5. /\ mounts' = [mounts EXCEPT ![thread[c]] = 0]
        /\ thread' = thread
    BY <1>6, <2>4 DEF Wait, Unmount
  <2>6. \A d \in Callers : ~Mounted(d)'
    BY <1>6, <2>2 DEF Wait, At, Mounted
  <2> QED
    BY <1>6, <2>1, <2>3, <2>5, <2>6 DEF MountInv
<1>7. ASSUME NEW t \in Threads, ThreadEnds(t), ~cut
      PROVE  MountInv'
  BY <1>7 DEF ThreadEnds, MountInv, Mounted, historyVars
\* Once a build has been cut short nothing is claimed any more.
<1>8. ASSUME cut'
      PROVE  MountInv'
  BY <1>8 DEF MountInv
<1>9. ASSUME NEW c \in Callers, SpawnFails(c)
      PROVE  cut'
  BY <1>9 DEF SpawnFails
<1>10. (WorkOn \/ Fail \/ \E c \in Callers, p \in Pipe : ReadLine(c, p))
         => UNCHANGED <<step, thread, mounts, cut>>
  BY DEF WorkOn, Succeed, Fail, Exit, Write, ReadLine, historyVars
<1>11. UNCHANGED allVars \/ (\E c \in Callers : Protocol(c))
         => UNCHANGED <<step, thread, mounts, cut>>
  BY DEF allVars, Protocol, sandboxVars, buildVars, historyVars
<1>12. (\E c \in Callers : Mount(c) \/ Wait(c)) \/ (\E t \in Threads : ThreadEnds(t))
         => cut' = cut
  BY DEF Mount, Wait, ThreadEnds, historyVars
<1> QED
  BY <1>1, <1>2, <1>3, <1>4, <1>5, <1>6, <1>7, <1>8, <1>9, <1>10, <1>11, <1>12
     DEF SandboxNext, BuildStep

\* rm -rf finds nothing mounted below the build root.
LEMMA NothingMounted ==
  ASSUME InsideInv, MountInv, ~cut,
         NEW c \in Callers, step[c] \in {"discard", "finish"}
  PROVE  mounts[thread[c]] = 0
<1>1. \A d \in Callers : ~Mounted(d)
  BY Alone DEF InsideInv, Mounted, Inside
<1> QED
  BY <1>1 DEF MountInv, InsideInv, PhaseInv, Inside

LEMMA DevicesStep ==
  ASSUME InsideInv, MountInv, HostKeepsDevices,
         [SandboxNext]_allVars
  PROVE  HostKeepsDevices'
<1>1. CASE UNCHANGED historyVars
  BY <1>1 DEF historyVars, HostKeepsDevices
<1>2. ASSUME NEW c \in Callers, Discard(c) \/ Finish(c)
      PROVE  HostKeepsDevices'
  <2>1. step[c] \in {"discard", "finish"} /\ cut' = cut
    BY <1>2 DEF Discard, Finish, At
  <2>2. ~cut => mounts[thread[c]] = 0
    BY <2>1, NothingMounted
  <2> QED
    BY <1>2, <2>1, <2>2 DEF Discard, Finish, RemoveRoot, HostKeepsDevices
<1>3. ASSUME NEW c \in Callers, SpawnFails(c) \/ CacheDirFails(c)
      PROVE  HostKeepsDevices'
  BY <1>3 DEF SpawnFails, CacheDirFails, HostKeepsDevices
<1> QED
  BY <1>1, <1>2, <1>3
     DEF SandboxNext, BuildStep, Protocol, Begin, SetupFails, Mount, Spawn, ReadLine,
         GiveUp, StdoutEnds, StderrEnds, Wait, MakeCacheDir, RenameUpper, CopyUpper,
         CopyEnds, WorkOn, Succeed, Fail, Exit, Write, ThreadEnds, allVars, sandboxVars,
         buildVars

-----------------------------------------------------------------------------
\* Unless a build was cut short, a build finds an upper directory nobody has
\* written to, and what it persists it has written alone.
RootInv ==
  ~torn /\ ~cut =>
    /\ layer \in {"none", "used"}
    /\ (\A c \in Callers : ~Inside(c)) => root \in {"absent", "clean"}
    /\ \A c \in Callers :
         /\ step[c] \in {"unshare", "spawn"} => root = "clean"
         /\ step[c] \in {"stdout", "stderr", "wait", "cachedir", "persist"} => root = "used"

LEMMA RootInit == SandboxInit => RootInv
  BY DEF SandboxInit, RootInv, Inside

\* Steps that write neither to the build root nor to the cache.
LEMMA RootKept ==
  ASSUME RootInv, UNCHANGED <<root, layer, torn, cut>>,
         \A c \in Callers :
           /\ Inside(c)' <=> Inside(c)
           /\ step'[c] \in {"unshare", "spawn"} => step[c] \in {"unshare", "spawn"}
           /\ step'[c] \in {"stdout", "stderr", "wait", "cachedir", "persist"} =>
                step[c] \in {"stdout", "stderr", "wait", "cachedir", "persist"}
  PROVE  RootInv'
  BY DEF RootInv

LEMMA RootStep ==
  ASSUME InsideInv, MountInv, RootInv,
         [SandboxNext]_allVars
  PROVE  RootInv'
<1> USE DEF InsideInv, PhaseInv
<1>1. ASSUME UNCHANGED <<step, root, layer, torn, cut>>
      PROVE  RootInv'
  BY <1>1, RootKept DEF Inside
<1>2. ASSUME NEW c \in Callers,
             Mount(c) \/ StdoutEnds(c) \/ StderrEnds(c) \/ Wait(c) \/ MakeCacheDir(c)
             \/ CopyEnds(c) \/ \E p \in Pipe : GiveUp(c, p)
      PROVE  RootInv'
  BY <1>2, RootKept DEF Mount, StdoutEnds, StderrEnds, Wait, MakeCacheDir, CopyEnds,
     GiveUp, At, Inside, Steps, Pipe, buildVars, historyVars
\* Every other step is that of the one build inside.
<1>3. ASSUME NEW c \in Callers,
             \/ SetupFails(c) \/ SpawnFails(c) \/ CacheDirFails(c) \/ Discard(c)
             \/ Spawn(c) \/ RenameUpper(c) \/ CopyUpper(c) \/ Finish(c)
      PROVE  /\ \A d \in Callers \ {c} : ~Inside(d) /\ ~Inside(d)'
             /\ Inside(c) /\ step' \in [Callers -> Steps]
             /\ \E to : step' = [step EXCEPT ![c] = to]
  <2>1. Inside(c) /\ \E to \in Steps : step' = [step EXCEPT ![c] = to]
    BY <1>3 DEF SetupFails, SpawnFails, CacheDirFails, Discard, Spawn, RenameUpper,
       CopyUpper, Finish, Bail, At, Inside, Steps
  <2> QED
    BY <2>1, Alone DEF Inside
<1>4. ASSUME NEW c \in Callers, Begin(c)
      PROVE  RootInv'
  <2>1. \A d \in Callers : ~Inside(d)
    \* The caller holds the layer, so nobody else is inside.
    <3>1. pc[c] = "build" /\ step[c] = "none"
      BY <1>4 DEF Begin, At
    <3>2. ASSUME NEW d \in Callers, Inside(d)
          PROVE  FALSE
      BY <3>1, <3>2, SandboxAssumption DEF HolderInv, LayerInv, HolderPC, BuildPC, Inside, Steps
    <3> QED
      BY <3>2
  <2>2. \A d \in Callers : step'[d] = IF d = c THEN "unshare" ELSE "none"
    BY <1>4, <2>1 DEF Begin, At, Inside
  <2> QED
    BY <1>4, <2>1, <2>2 DEF Begin, RootInv, Inside, historyVars
<1>5. ASSUME NEW c \in Callers, SetupFails(c)
      PROVE  RootInv'
  BY <1>3, <1>5 DEF SetupFails, Bail, At, Inside, RootInv, buildVars, historyVars
<1>6. ASSUME NEW c \in Callers, Spawn(c)
      PROVE  RootInv'
  BY <1>3, <1>6 DEF Spawn, At, Inside, RootInv, historyVars
<1>7. ASSUME NEW c \in Callers, Discard(c) \/ Finish(c)
      PROVE  RootInv'
  <2>1. /\ step[c] \in {"discard", "finish"} /\ step' = [step EXCEPT ![c] = "none"]
        /\ RemoveRoot(c) /\ UNCHANGED <<layer, torn, cut>>
    BY <1>7 DEF Discard, Finish, At
  <2>2. ~cut => root' = "absent"
    BY <2>1, NothingMounted DEF RemoveRoot
  <2>3. \A d \in Callers : ~Inside(d)' /\ step'[d] = "none"
    BY <1>3, <1>7, <2>1 DEF Inside
  <2> QED
    BY <2>1, <2>2, <2>3 DEF RootInv
<1>8. ASSUME NEW c \in Callers, RenameUpper(c)
      PROVE  RootInv'
  BY <1>3, <1>8 DEF RenameUpper, At, Inside, RootInv, historyVars
<1>9. ASSUME NEW c \in Callers, CopyUpper(c)
      PROVE  RootInv'
  BY <1>3, <1>9 DEF CopyUpper, At, Inside, RootInv, historyVars
<1>10. ASSUME NEW c \in Callers, SpawnFails(c) \/ CacheDirFails(c)
       PROVE  RootInv'
  BY <1>10 DEF SpawnFails, CacheDirFails, RootInv
<1>11. ((\E c \in Callers : Protocol(c) \/ \E p \in Pipe : ReadLine(c, p))
        \/ WorkOn \/ Fail \/ (\E t \in Threads : ThreadEnds(t)) \/ UNCHANGED allVars)
          => UNCHANGED <<step, root, layer, torn, cut>>
  BY DEF Protocol, ReadLine, WorkOn, Succeed, Fail, Exit, Write, ThreadEnds, allVars,
         sandboxVars, buildVars, historyVars
<1> QED
  BY <1>1, <1>2, <1>4, <1>5, <1>6, <1>7, <1>8, <1>9, <1>10, <1>11
     DEF SandboxNext, BuildStep

-----------------------------------------------------------------------------
\* A pipe that has been read to its end stays empty, for no package manager
\* runs any more.
PipeInv ==
  /\ pipe \in [Pipe -> Nat]
  /\ ~garbled =>
       \A c \in Callers :
         /\ step[c] \in {"stderr", "wait", "discard", "cachedir"} =>
              child # "running" /\ pipe["stdout"] = 0
         /\ step[c] \in {"wait", "discard", "cachedir"} => pipe["stderr"] = 0

LEMMA PipeInit == SandboxInit => PipeInv
  BY DEF SandboxInit, PipeInv, Empty

\* Steps that neither start a package manager nor touch the pipes.
LEMMA PipeKept ==
  ASSUME PipeInv, UNCHANGED <<pipe, garbled>>,
         child' = "running" => child = "running",
         \A c \in Callers :
           /\ step'[c] \in {"stderr", "wait", "discard", "cachedir"} =>
                step[c] \in {"stderr", "wait", "discard", "cachedir"}
           /\ step'[c] \in {"wait", "discard", "cachedir"} =>
                step[c] \in {"wait", "discard", "cachedir"}
  PROVE  PipeInv'
  BY DEF PipeInv

LEMMA PipeStep ==
  ASSUME InsideInv, PipeInv, [SandboxNext]_allVars
  PROVE  PipeInv'
<1> USE DEF InsideInv, PhaseInv
<1>1. ASSUME UNCHANGED <<step, pipe, child, garbled>>
      PROVE  PipeInv'
  BY <1>1, PipeKept
<1>2. ASSUME NEW c \in Callers,
             \/ Begin(c) \/ SetupFails(c) \/ Mount(c) \/ SpawnFails(c) \/ Wait(c)
             \/ Discard(c) \/ MakeCacheDir(c) \/ CacheDirFails(c) \/ RenameUpper(c)
             \/ CopyUpper(c) \/ CopyEnds(c) \/ Finish(c)
      PROVE  PipeInv'
  BY <1>2, PipeKept DEF Begin, SetupFails, Mount, SpawnFails, Wait, Discard,
     MakeCacheDir, CacheDirFails, RenameUpper, CopyUpper, CopyEnds, Finish, Bail, At,
     Steps, buildVars, packageVars
\* Nobody reads the pipes of another one's package manager.
<1>3. ASSUME NEW c \in Callers, Spawn(c)
      PROVE  PipeInv'
  <2>1. \A d \in Callers : Inside(d) => d = c
    BY <1>3, Alone DEF Spawn, At, Inside
  <2> QED
    BY <1>3, <2>1 DEF Spawn, At, Inside, PipeInv, Empty
<1>4. ASSUME NEW c \in Callers, StdoutEnds(c)
      PROVE  PipeInv'
  <2>1. \A d \in Callers : Inside(d) => d = c
    BY <1>4, Alone DEF StdoutEnds, At, Inside
  <2> QED
    BY <1>4, <2>1 DEF StdoutEnds, EndOfFile, At, Inside, PipeInv, buildVars, packageVars
<1>5. ASSUME NEW c \in Callers, StderrEnds(c)
      PROVE  PipeInv'
  <2>1. \A d \in Callers : Inside(d) => d = c
    BY <1>5, Alone DEF StderrEnds, At, Inside
  <2> QED
    BY <1>5, <2>1 DEF StderrEnds, EndOfFile, At, Inside, PipeInv, buildVars, packageVars
<1>6. ASSUME NEW c \in Callers, NEW p \in Pipe, ReadLine(c, p)
      PROVE  PipeInv'
  BY <1>6 DEF ReadLine, PipeInv, Pipe
<1>7. ASSUME NEW c \in Callers, NEW p \in Pipe, GiveUp(c, p)
      PROVE  PipeInv'
  BY <1>7 DEF GiveUp, PipeInv
<1>8. ASSUME NEW p \in Pipe, Write(p)
      PROVE  PipeInv'
  BY <1>8 DEF Write, PipeInv
<1>9. ASSUME Succeed \/ Fail
      PROVE  PipeInv'
  BY <1>9, PipeKept DEF Succeed, Fail, Exit
<1>10. ((\E c \in Callers : Protocol(c)) \/ (\E t \in Threads : ThreadEnds(t))
        \/ UNCHANGED allVars) => UNCHANGED <<step, pipe, child, garbled>>
  BY DEF Protocol, ThreadEnds, allVars, sandboxVars, buildVars, packageVars
<1> QED
  BY <1>1, <1>2, <1>3, <1>4, <1>5, <1>6, <1>7, <1>8, <1>9, <1>10
     DEF SandboxNext, BuildStep, WorkOn

-----------------------------------------------------------------------------
SandboxInv ==
  InsideInv /\ MountInv /\ RootInv /\ PipeInv /\ HostKeepsDevices

\* The inductive invariant of one build root.
LEMMA SandboxInvariant ==
  ASSUME "install" \in Faults
  PROVE  SandboxSpec => []SandboxInv
<1>1. SandboxInit => SandboxInv
  <2>1. SandboxInit => InsideInv
    BY TypeInit, HolderInit, LayerInit, PhaseInit DEF SandboxInit, InsideInv
  <2>2. SandboxInit => HostKeepsDevices
    BY DEF SandboxInit, HostKeepsDevices
  <2> QED
    BY <2>1, <2>2, MountInit, RootInit, PipeInit DEF SandboxInv
<1>2. SandboxInv /\ [SandboxNext]_allVars => SandboxInv'
  BY InsideStep, MountStep, RootStep, PipeStep, DevicesStep DEF SandboxInv
<1> QED
  BY <1>1, <1>2, PTL DEF SandboxSpec

\* All that a package manager has written has been read when its status is
\* looked at, if every line could be decoded.
THEOREM OutputIsReadToItsEnd ==
  ASSUME "install" \in Faults
  PROVE  SandboxSpec => []OutputIsRead
<1>1. SandboxInv => OutputIsRead
  <2> SUFFICES ASSUME PipeInv, ~garbled, NEW c \in Callers,
                      step[c] \in {"discard", "cachedir"}
               PROVE  pipe = Empty
    BY DEF SandboxInv, OutputIsRead
  <2> QED
    BY DEF PipeInv, Empty, Pipe
<1> QED
  BY <1>1, SandboxInvariant, PTL

\* A layer is what one build has installed, unless a build was cut short.
THEOREM LayersAreOfOneBuild ==
  ASSUME "install" \in Faults
  PROVE  SandboxSpec => []LayerIsOfOneBuild
<1>1. SandboxInv => LayerIsOfOneBuild
  BY DEF SandboxInv, RootInv, LayerIsOfOneBuild
<1> QED
  BY <1>1, SandboxInvariant, PTL

\* The host keeps its device nodes, unless a build was cut short with its mounts
\* in place.
THEOREM DevicesAreKept ==
  ASSUME "install" \in Faults
  PROVE  SandboxSpec => []HostKeepsDevices
<1>1. SandboxInv => HostKeepsDevices
  BY DEF SandboxInv
<1> QED
  BY <1>1, SandboxInvariant, PTL
=============================================================================
