------------------------------ MODULE Recovery ------------------------------
(***************************************************************************)
(* Crashes of the engine daemon and recover_containers (src/src/daemon.rs),*)
(* which rebuilds the map of Daemon from the pid and manifest.json files,  *)
(* one directory after the other, before any request is served.  The       *)
(* launchers are not the daemon's to take along: they survive a crash and  *)
(* are reaped by init when they end.                                       *)
(***************************************************************************)
EXTENDS Daemon

CONSTANT MaxCrashes  \* bound: how many times the daemon may crash

VARIABLES
  mode,    \* "up": serving; "down": crashed; "scan": in recover_containers
  crashes, \* how many crashes there have been
  todo,    \* names whose directory is still to be looked at
  rec,     \* the container being re-registered, or None
  watch,   \* Task -> the task that waits on the pidfd of a recovered process
  missed   \* history: live processes this recovery took for ended, or for nobody's

recoveryVars == <<mode, crashes, todo, rec, watch, missed>>
allVars == <<vars, recoveryVars>>

\* A container on its way into the map: its pid, the manifest read from disk,
\* the number of ports tried, the ports bound, and whether its task is started.
Candidate == [name : Names, pid : Task, manifest : Manifests, tried : Nat,
              proxies : SUBSET Ports, watched : BOOLEAN]

ASSUME RecoveryAssumption == MaxCrashes \in Nat /\ None \notin Candidate

RecoveryInit ==
  /\ Init
  /\ mode = "up"
  /\ crashes = 0
  /\ todo = {}
  /\ rec = None
  /\ watch = [t \in Task |-> "none"]
  /\ missed = {}

-----------------------------------------------------------------------------
(* The daemon dies: its map, tasks and sockets go, processes and files stay. *)

Crash ==
  /\ mode # "down"
  /\ crashes < MaxCrashes
  /\ mode' = "down"
  /\ crashes' = crashes + 1
  /\ todo' = {}
  /\ rec' = None
  /\ watch' = [t \in Task |-> "none"]
  /\ missed' = {}
  /\ map' = [n \in Names |-> None]
  /\ pc' = [t \in Task |-> IF pc[t] = "idle" THEN "idle" ELSE "done"]
  /\ listener' = [p \in Ports |-> 0]
  /\ aborting' = {}
  /\ start' = [c \in Clients |-> None]
  /\ UNCHANGED <<job, bound, proc, diskVars>>

\* Processes whose task is gone are children of init.
InitReaps(t) ==
  /\ pc[t] = "done"
  /\ proc[t] = "zombie"
  /\ proc' = [proc EXCEPT ![t] = "reaped"]
  /\ UNCHANGED <<map, taskVars, netVars, diskVars, start, recoveryVars>>

Restart ==
  /\ mode = "down"
  /\ mode' = "scan"
  /\ todo' = {n \in Names : dir[n] # None}
  /\ UNCHANGED <<vars, crashes, rec, watch, missed>>

-----------------------------------------------------------------------------
(* recover_containers. *)

Visit(n) ==
  /\ mode = "scan"
  /\ rec = None
  /\ n \in todo
  /\ todo' = todo \ {n}
  /\ UNCHANGED <<mode, crashes, taskVars, start, fifo, netVars>>

\* pidfd_open finds a process that has not been reaped.  Whatever error it
\* answers is taken for a process that is gone.
HasProcess(n) == proc[dir[n].pid] # "reaped"
NoProcess(n) == ~HasProcess(n) \/ MayFail("pidfd")

NoManifest(n) == dir[n].manifest = None \/ MayFail("read")

Miss(t) == missed' = IF proc[t] = "alive" THEN missed \cup {t} ELSE missed

\* remove_dir_all, whose failure is ignored.
RemoveDirectory(n) ==
  \/ dir' = [dir EXCEPT ![n] = None]
  \/ MayFail("disk") /\ UNCHANGED dir

\* A directory whose pid file cannot be read is removed, its process left alone.
ForgetUnreadable(n) ==
  /\ MayFail("read")
  /\ Visit(n)
  /\ Miss(dir[n].pid)
  /\ RemoveDirectory(n)
  /\ UNCHANGED <<map, proc, rec, watch>>

\* A process without a readable manifest is killed and forgotten.
KillIncomplete(n) ==
  /\ Visit(n)
  /\ HasProcess(n)
  /\ NoManifest(n)
  /\ SigKill({dir[n].pid})
  /\ RemoveDirectory(n)
  /\ UNCHANGED <<map, rec, watch, missed>>

\* Variant: an unreadable manifest is taken for a default one.
RecoverAnyManifest(n) ==
  /\ Visit(n)
  /\ HasProcess(n)
  /\ rec' = [name |-> n, pid |-> dir[n].pid, manifest |-> dir[n].manifest,
             tried |-> 0, proxies |-> {}, watched |-> FALSE]
  /\ UNCHANGED <<map, proc, dir, watch, missed>>

RecoverRunning(n) ==
  /\ Visit(n)
  /\ HasProcess(n)
  /\ dir[n].manifest # None
  /\ rec' = [name |-> n, pid |-> dir[n].pid, manifest |-> dir[n].manifest,
             tried |-> 0, proxies |-> {}, watched |-> FALSE]
  /\ UNCHANGED <<map, proc, dir, watch, missed>>

\* What ended while the daemon was away, or is taken for ended, is registered as
\* exited.
RegisterStopped(n) ==
  /\ Visit(n)
  /\ NoProcess(n)
  /\ Miss(dir[n].pid)
  /\ dir[n].manifest # None
  /\ map' = [map EXCEPT ![n] = [pid |-> 0, building |-> FALSE, exit |-> TRUE,
                                proxies |-> {}, manifest |-> dir[n].manifest]]
  /\ UNCHANGED <<proc, dir, rec, watch>>

ForgetStopped(n) ==
  /\ Visit(n)
  /\ NoProcess(n)
  /\ Miss(dir[n].pid)
  /\ NoManifest(n)
  /\ RemoveDirectory(n)
  /\ UNCHANGED <<map, proc, rec, watch>>

\* Variant: a port that is in use is waited for.
RebindWhenFree ==
  /\ rec # None
  /\ rec.tried < Len(rec.manifest)
  /\ LET p == rec.manifest[rec.tried + 1]
     IN /\ listener[p] = 0
        /\ listener' = [listener EXCEPT ![p] = rec.pid]
        /\ rec' = [rec EXCEPT !.tried = @ + 1, !.proxies = @ \cup {p}]
  /\ UNCHANGED <<map, taskVars, proc, aborting, diskVars, start, mode, crashes,
                 todo, watch, missed>>

\* Variant: a port that is in use ends the recovery of its container.
RebindGivesUp ==
  /\ rec # None
  /\ rec.tried < Len(rec.manifest)
  /\ LET p == rec.manifest[rec.tried + 1]
     IN \/ /\ listener[p] = 0
           /\ listener' = [listener EXCEPT ![p] = rec.pid]
           /\ rec' = [rec EXCEPT !.tried = @ + 1, !.proxies = @ \cup {p}]
        \/ /\ listener[p] # 0 \/ MayFail("rebind")
           /\ rec' = None
           /\ UNCHANGED listener
  /\ UNCHANGED <<map, taskVars, proc, aborting, diskVars, start, mode, crashes,
                 todo, watch, missed>>

\* The ports are bound again, one after the other; a conflict is only logged.
Rebind ==
  /\ rec # None
  /\ rec.tried < Len(rec.manifest)
  /\ LET p == rec.manifest[rec.tried + 1]
     IN \/ /\ listener[p] = 0
           /\ listener' = [listener EXCEPT ![p] = rec.pid]
           /\ rec' = [rec EXCEPT !.tried = @ + 1, !.proxies = @ \cup {p}]
        \/ /\ listener[p] # 0 \/ MayFail("rebind")
           /\ rec' = [rec EXCEPT !.tried = @ + 1]
           /\ UNCHANGED listener
  /\ UNCHANGED <<map, taskVars, proc, aborting, diskVars, start, mode, crashes,
                 todo, watch, missed>>

\* The task that waits on the pidfd is started; one that cannot register the
\* pidfd goes on as if the process had ended ...
Watch ==
  /\ rec # None
  /\ ~rec.watched
  /\ rec.tried = Len(rec.manifest)
  /\ \/ /\ watch' = [watch EXCEPT ![rec.pid] = "wait"]
        /\ UNCHANGED missed
     \/ /\ MayFail("asyncfd")
        /\ watch' = [watch EXCEPT ![rec.pid] = "record"]
        /\ Miss(rec.pid)
  /\ rec' = [rec EXCEPT !.watched = TRUE]
  /\ UNCHANGED <<vars, mode, crashes, todo>>

\* ... and then the entry it will mark is inserted.
Insert ==
  /\ rec # None
  /\ rec.watched
  /\ map' = [map EXCEPT ![rec.name] =
               [pid |-> rec.pid, building |-> FALSE, exit |-> FALSE,
                proxies |-> rec.proxies, manifest |-> rec.manifest]]
  /\ rec' = None
  /\ UNCHANGED <<taskVars, proc, netVars, diskVars, start, mode, crashes, todo,
                 watch, missed>>

Serving ==
  /\ mode = "scan"
  /\ todo = {}
  /\ rec = None
  /\ mode' = "up"
  /\ UNCHANGED <<vars, crashes, todo, rec, watch, missed>>

\* The pidfd of a recovered process becomes readable.
NoticeExit(t) ==
  /\ watch[t] = "wait"
  /\ proc[t] \in {"zombie", "reaped"}
  /\ watch' = [watch EXCEPT ![t] = "record"]
  /\ UNCHANGED <<vars, mode, crashes, todo, rec, missed>>

\* Variant: the proxies are aborted, and their handles kept.
MarkExitedKeepsHandles(t) ==
  LET n == job[t].name
  IN /\ watch[t] = "record"
     /\ watch' = [watch EXCEPT ![t] = "done"]
     /\ IF map[n] = None
        THEN UNCHANGED <<map, aborting, fifo>>
        ELSE /\ Abort(map[n].proxies)
             /\ map' = [map EXCEPT ![n].exit = TRUE]
             /\ fifo' = fifo \ {n}
     /\ UNCHANGED <<taskVars, proc, listener, dir, start, mode, crashes, todo, rec,
                    missed>>

\* Whatever entry is under the name is marked, if there is one.
MarkExited(t) ==
  LET n == job[t].name
  IN /\ watch[t] = "record"
     /\ watch' = [watch EXCEPT ![t] = "done"]
     /\ IF map[n] = None
        THEN UNCHANGED <<map, aborting, fifo>>
        ELSE /\ Abort(map[n].proxies)
             /\ map' = [map EXCEPT ![n] = [@ EXCEPT !.proxies = {}, !.exit = TRUE]]
             /\ fifo' = fifo \ {n}
     /\ UNCHANGED <<taskVars, proc, listener, dir, start, mode, crashes, todo, rec,
                    missed>>

-----------------------------------------------------------------------------
Recover ==
  \/ \E n \in Names :
       \/ ForgetUnreadable(n)
       \/ KillIncomplete(n)
       \/ RecoverRunning(n)
       \/ RegisterStopped(n)
       \/ ForgetStopped(n)
  \/ Rebind
  \/ Watch
  \/ Insert
  \/ Serving

WatchStep(t) == NoticeExit(t) \/ MarkExited(t)

\* The daemon of Daemon, with careful clients, while it serves.
Serves ==
  /\ mode = "up"
  /\ \/ \E t \in Task : TaskStep(t)
     \/ Serve
     \/ \E n \in Names : Stop(n) \/ RmStopped(n)
  /\ UNCHANGED recoveryVars

RecoveryNext ==
  \/ Serves
  \/ Environment /\ UNCHANGED recoveryVars
  \/ Crash
  \/ Restart
  \/ Recover
  \/ \E t \in Task : InitReaps(t) \/ WatchStep(t)

\* Fairness of the daemon's tasks, of recovery once it has been started, of
\* init and of the kernel.
RecoveryFairness ==
  /\ \A t \in Task :
       /\ WF_allVars(mode = "up" /\ OwnStep(t) /\ UNCHANGED recoveryVars)
       /\ WF_allVars(KilledExits(t) /\ UNCHANGED recoveryVars)
       /\ WF_allVars(InitReaps(t))
       /\ WF_allVars(WatchStep(t))
  /\ WF_allVars(Recover)

RecoverySpec == RecoveryInit /\ [][RecoveryNext]_allVars
FairRecoverySpec == RecoverySpec /\ RecoveryFairness

-----------------------------------------------------------------------------
RecoveryTypeOK ==
  /\ TypeOK
  /\ mode \in {"up", "down", "scan"}
  /\ crashes \in 0 .. MaxCrashes
  /\ todo \subseteq Names
  /\ rec \in Candidate \cup {None}
  /\ watch \in [Task -> {"none", "wait", "record", "done"}]
  /\ missed \subseteq Task

\* Every process the disk knows is in the map and some task waits for its end:
\* wherever the daemon was when it crashed, a live container whose pid file is
\* there can be stopped once requests are served again, and its end is recorded
\* (daemon.rs:250-410).  The processes that escape are those whose pid had not
\* been written yet, and those recovery cannot see: their pid file could not be
\* read, or pidfd_open or AsyncFd::new failed for them (daemon.rs:253, 376).
RecordedIsTracked ==
  \A n \in Names : mode = "up" /\ dir[n] # None =>
    LET t == dir[n].pid
    IN \/ proc[t] # "alive"
       \/ t \in missed
       \/ pc[t] \in {"manifest", "publish"}
       \/ /\ map[n] # None /\ ~map[n].exit /\ map[n].pid = t
          /\ pc[t] = "wait" \/ watch[t] = "wait"

\* A container the daemon has recovered and shows as running serves the ports
\* it holds handles for, itself (daemon.rs:315-356, 397-410).
RecoveredHandlesListen ==
  \A n \in Names : map[n] # None =>
    \A p \in map[n].proxies : listener[p] = map[n].pid /\ p \notin aborting

\* Recovery comes to an end, whatever dies in the middle of it.
RecoveryEnds == mode = "scan" ~> mode # "scan"

\* "monitoring process health" (src/README.md:9): a container that is shown as
\* running and whose process has ended is noticed by the task that watches it.
NoGhost ==
  \A n \in Names : Running(n) /\ proc[map[n].pid] \in {"zombie", "reaped"} =>
    \/ pc[map[n].pid] \in {"wait", "record"}
    \/ watch[map[n].pid] \in {"wait", "record"}
=============================================================================
