------------------------------ MODULE Container ------------------------------
(***************************************************************************)
(* The daemon with careful clients (Daemon) and what its children really   *)
(* are: a launcher (src/src/launcher.rs), and the first process of the     *)
(* container, which the launcher forks and waits for.  Daemon takes the    *)
(* two for one process; here proc is the launcher alone, and a launcher    *)
(* ends only when its container has, when it is killed, or when it fails.  *)
(*                                                                         *)
(* The container asks the kernel to be killed when its launcher dies, but  *)
(* does so itself, after the fork.                                         *)
(*                                                                         *)
(* A history variable keeps the Stop requests that were answered           *)
(* "Container '...' stopped".                                              *)
(***************************************************************************)
EXTENDS Daemon

VARIABLES
  box,     \* Task -> the container the task's launcher has forked
  stopped  \* Names -> what Ps showed when the last Stop was answered, "no" if
           \* none was or if a Run or Start has been accepted since

containerVars == <<vars, box, stopped>>

\* "none": not forked; "unarmed": forked, with no death signal yet; "setup": it has asked for it;
\* "mounted": its root file system is there; "running": the entry point;
\* "doomed": sent SIGKILL; "gone": it has ended.
Armed == {"setup", "mounted", "running"}

Contained(t) == box[t] \in Armed \cup {"unarmed", "doomed"}

ContainerInit ==
  /\ Init
  /\ box = [t \in Task |-> "none"]
  /\ stopped = [n \in Names |-> "no"]

BoxGoes(t, from, to) == box[t] = from /\ box' = [box EXCEPT ![t] = to]

-----------------------------------------------------------------------------
(* The launcher. *)

\* A manifest it cannot read, namespaces or a fork it is refused: no container.
LauncherFails(t) ==
  /\ MayFail("launcher")
  /\ box[t] = "none"
  /\ proc[t] = "alive" /\ ProcessExits(t)
  /\ UNCHANGED <<box, stopped>>

Fork(t) ==
  /\ proc[t] = "alive"
  /\ BoxGoes(t, "none", "unarmed")
  /\ UNCHANGED <<vars, stopped>>

\* waitpid returns, and the launcher exits with 0 however its container ended.
ContainerWaited(t) ==
  /\ box[t] = "gone"
  /\ proc[t] = "alive" /\ ProcessExits(t)
  /\ UNCHANGED <<box, stopped>>

\* Variant: no death signal is asked for.
LauncherKilledAlone(t) ==
  /\ KilledExits(t)
  /\ UNCHANGED <<box, stopped>>

\* Its death is the container's, if the container has asked for it by then.
LauncherKilled(t) ==
  /\ KilledExits(t)
  /\ box' = IF box[t] \in Armed THEN [box EXCEPT ![t] = "doomed"]
            ELSE box
  /\ UNCHANGED stopped

-----------------------------------------------------------------------------
(* The container. *)

\* The container's first process asks for SIGKILL on the death of its parent.
\* A parent that is dead already makes no difference: it is not looked at.
Arm(t) ==
  /\ BoxGoes(t, "unarmed", "setup")
  /\ UNCHANGED <<vars, stopped>>

\* The overlay of upper directory, layer and image, /run, /app, /proc, /tmp, and
\* the devices.
MountRoot(t) ==
  /\ BoxGoes(t, "setup", "mounted")
  /\ UNCHANGED <<vars, stopped>>

\* The change of root, environment, standard input, capabilities, entry point.
Exec(t) ==
  /\ BoxGoes(t, "mounted", "running")
  /\ UNCHANGED <<vars, stopped>>

\* A mount, the change of root, an empty entry point or the exec fails.
SetupFails(t) ==
  /\ MayFail("setup")
  /\ BoxGoes(t, "setup", "gone") \/ BoxGoes(t, "mounted", "gone")
  /\ UNCHANGED <<vars, stopped>>

\* The entry point comes to its end, by itself.
ContainerEnds(t) ==
  /\ BoxGoes(t, "running", "gone")
  /\ UNCHANGED <<vars, stopped>>

\* A container that was sent SIGKILL ends some time after its launcher.
ContainerDies(t) ==
  /\ BoxGoes(t, "doomed", "gone")
  /\ UNCHANGED <<vars, stopped>>

-----------------------------------------------------------------------------
StopAnswered(n) ==
  /\ Stop(n)
  /\ stopped' = [stopped EXCEPT ![n] = Status(n)]
  /\ UNCHANGED box

Accepted(n) == ~Unfinished(n) /\ Unfinished(n)'

DaemonStep ==
  /\ \/ \E t \in Task : TaskStep(t)
     \/ \E p \in Ports : ListenerDropped(p)
     \/ Serve
     \/ \E n \in Names : RmStopped(n)
  /\ stopped' = [n \in Names |-> IF Accepted(n) THEN "no" ELSE stopped[n]]
  /\ UNCHANGED box

LauncherStep(t) == Fork(t) \/ ContainerWaited(t) \/ LauncherKilled(t)

BoxStep(t) == Arm(t) \/ MountRoot(t) \/ Exec(t) \/ ContainerDies(t)

ContainerNext ==
  \/ DaemonStep
  \/ \E n \in Names : StopAnswered(n)
  \/ \E t \in Task : LauncherStep(t) \/ BoxStep(t)
  \/ \E t \in Task : LauncherFails(t) \/ SetupFails(t) \/ ContainerEnds(t)

\* Both processes are scheduled; no container has to end by itself, and no call
\* of the caches has to return.
ContainerFairness ==
  /\ \A t \in Task : WF_vars(OwnStep(t))
  /\ \A p \in Ports : WF_vars(ListenerDropped(p))
  /\ \A c \in Clients : WF_vars(StartSpawn(c) \/ StartRefused(c))
  /\ \A t \in Task : WF_containerVars(LauncherStep(t)) /\ WF_containerVars(BoxStep(t))

ContainerSpec == ContainerInit /\ [][ContainerNext]_containerVars
FairContainerSpec == ContainerSpec /\ ContainerFairness

-----------------------------------------------------------------------------
\* No launcher of the name is left but one that has been sent SIGKILL.
Down(n) == \A t \in Processes(n) : proc[t] = "killed"

\* A container stopped while Ps shows it running or exited stays down until a
\* Run or a Start of the name is accepted, whatever was in progress when the
\* Stop was answered (daemon.rs:802-815).
StoppedStaysDown ==
  \A n \in Names : stopped[n] \in {"running", "exited"} => Down(n)

\* A Stop kills the launcher only.  The container ends all the same, or never
\* comes to be, unless the launcher was caught between its fork and the
\* container's asking for the death signal (launcher.rs:19-28, daemon.rs:809).
KilledTakesItsContainer ==
  \A t \in Task : proc[t] = "killed" /\ box[t] # "unarmed" ~>
    proc[t] = "reaped" /\ ~Contained(t)

\* The end of a container is recorded, whether its launcher is killed, at any
\* point and before its pid is published too, or it ends by itself or fails to
\* be set up: the launcher is waiting for it, and the daemon for the launcher
\* (launcher.rs:19-24, daemon.rs:685-706).
EndIsRecorded ==
  \A t \in Task : proc[t] = "killed" \/ box[t] = "gone" ~> pc[t] = "done"
=============================================================================
