-------------------------- MODULE NodeAgentProofs --------------------------
(***************************************************************************)
(* Proofs about NodeAgent, for any names, manifests, failures, spawns and  *)
(* outages.                                                                *)
(*                                                                         *)
(* What Daemon promises to any client it promises to the node agent: the   *)
(* agent's system is the daemon's with some of its clients.  The agent     *)
(* removes containers that are not stopped, so that Daemon's promises to   *)
(* careful clients are lost on it; that a replica still has one process at *)
(* most, and is not stopped while it is assigned, is proved here.          *)
(***************************************************************************)
EXTENDS NodeAgent, ReachProofs

LEMMA ServedIsNext ==
  ASSUME NEW n \in Names
  PROVE  /\ \A m \in Manifests : Run(n, m) => Next
         /\ Stop(n) => Next
         /\ Rm(n) => Next
  BY DEF Next, Serve

\* The agent runs what was assigned, and stops and removes names.
AgentTypeOK ==
  /\ assigned \in [Names -> Manifests \cup {None}]
  /\ expected \in [Names -> Manifests \cup {None}]
  /\ surplus \subseteq Names
  /\ agent = "rm" => removing \in Names

LEMMA AgentTypeInit == AgentInit => AgentTypeOK
  BY DEF AgentInit, AgentTypeOK, Nothing

LEMMA AgentTypeStep == AgentTypeOK /\ [AgentNext]_nodeVars => AgentTypeOK'
<1> SUFFICES ASSUME AgentTypeOK, [AgentNext]_nodeVars
             PROVE  AgentTypeOK'
  OBVIOUS
<1> USE DEF AgentTypeOK
<1>1. CASE ReadAssignments
  BY <1>1 DEF ReadAssignments, Nothing, leaderVars
<1>2. CASE ListContainers
  BY <1>2 DEF ListContainers, Compare, Actual, leaderVars
<1>3. CASE AllRun \/ RemoveSurplus \/ AllStopped
  BY <1>3 DEF AllRun, RemoveSurplus, AllStopped, leaderVars
<1>4. ASSUME NEW n \in Names, RunMissing(n)
      PROVE  AgentTypeOK'
  BY <1>4 DEF RunMissing, leaderVars
<1>5. ASSUME NEW n \in Names, StopSurplus(n)
      PROVE  AgentTypeOK'
  BY <1>5 DEF StopSurplus, leaderVars
<1>6. CASE Leader
  BY <1>6 DEF Leader, Assign, Unassign, agentVars
<1>7. CASE DaemonStep \/ UNCHANGED nodeVars
  BY <1>7 DEF DaemonStep, leaderVars, agentVars, nodeVars
<1> QED
  BY <1>1, <1>2, <1>3, <1>4, <1>5, <1>6, <1>7 DEF AgentNext, AgentStep

\* Every step of the agent, of the leader and of the daemon is a step of the
\* daemon or leaves it alone.
LEMMA AgentStepIsNext ==
  AgentTypeOK /\ [AgentNext]_nodeVars => [Next]_vars
<1> SUFFICES ASSUME AgentTypeOK, [AgentNext]_nodeVars
             PROVE  [Next]_vars
  OBVIOUS
<1>1. CASE ReadAssignments \/ ListContainers \/ AllRun \/ AllStopped
  BY <1>1 DEF ReadAssignments, ListContainers, AllRun, AllStopped
<1>2. ASSUME NEW n \in Names, RunMissing(n)
      PROVE  [Next]_vars
  <2>1. expected[n] \in Manifests
    BY <1>2 DEF RunMissing, AgentTypeOK
  <2> QED
    BY <1>2, <2>1, ServedIsNext DEF RunMissing
<1>3. ASSUME NEW n \in Names, StopSurplus(n)
      PROVE  [Next]_vars
  BY <1>3, ServedIsNext DEF StopSurplus
<1>4. CASE RemoveSurplus
  BY <1>4, ServedIsNext DEF RemoveSurplus, AgentTypeOK
<1>5. CASE Leader
  BY <1>5 DEF Leader, Assign, Unassign
<1>6. CASE DaemonStep
  BY <1>6 DEF DaemonStep, Next
<1>7. CASE UNCHANGED nodeVars
  BY <1>7 DEF nodeVars
<1> QED
  BY <1>1, <1>2, <1>3, <1>4, <1>5, <1>6, <1>7 DEF AgentNext, AgentStep

\* The agent with its daemon implements the daemon.
THEOREM AgentImplementsDaemon == AgentSpec => Spec
<1>1. AgentInit => Init
  BY DEF AgentInit
<1> QED
  BY <1>1, AgentTypeInit, AgentTypeStep, AgentStepIsNext, PTL DEF AgentSpec, Spec

\* The pid of whatever the agent stops has not been given back to the kernel,
\* but for the moment before the end of its process is recorded.
THEOREM AgentKillsWhatIsHeld == AgentSpec => []KilledPidIsHeld
  BY AgentImplementsDaemon, KilledPidsAreHeld, PTL

\* What it stops gives up ports of its own only.
THEOREM AgentKeepsHandlesApart == AgentSpec => []HandlesAreExclusive
  BY AgentImplementsDaemon, HandlesAreTheNamesOwn, PTL

-----------------------------------------------------------------------------
(* One process per replica, as long as the assignments can be read. *)

\* Replicas that will never be run again: their assignment is gone and is not
\* in what the agent has yet to run.  Their entries may be removed at any time.
Gone == {n \in retired : expected[n] = None}

\* What the agent runs was assigned once.
KnownInv ==
  /\ retired \subseteq Names
  /\ \A n \in retired : ~Assigned(n)
  /\ \A n \in Names : expected[n] # None \/ map[n] # None =>
       Assigned(n) \/ n \in retired

\* What the agent stops and removes is gone for good.
PlanInv ==
  /\ agent = "ps" => \A n \in Names : map[n] # None =>
       expected[n] # None \/ n \in retired
  /\ surplus \subseteq Gone
  /\ agent = "rm" => removing \in Gone

DaemonInv == TypeInv /\ ProcInv /\ EndedInv /\ PidInv

AgentInv ==
  /\ AgentTypeOK
  /\ DaemonInv
  /\ KnownInv
  /\ ~blind => PlanInv /\ Generations(Gone)

LEMMA AgentInvInit == AgentInit => AgentInv
<1> SUFFICES ASSUME AgentInit
             PROVE  AgentInv
  OBVIOUS
<1>1. Init
  BY DEF AgentInit
<1>2. AgentTypeOK /\ DaemonInv
  BY <1>1, AgentTypeInit, TypeInit, ProcInit, PidInit DEF DaemonInv
<1>3. KnownInv /\ PlanInv
  BY <1>1 DEF AgentInit, Init, Nothing, KnownInv, PlanInv, Assigned
<1>4. Generations(Gone)
  BY <1>1 DEF Init, Generations, Tracked
<1> QED
  BY <1>2, <1>3, <1>4 DEF AgentInv

\* Every request the agent makes of the daemon is one of these.
LEMMA AgentRequests ==
  ASSUME [AgentNext]_nodeVars
  PROVE  \/ UNCHANGED vars
         \/ \E n \in Names : RunMissing(n) /\ Run(n, expected[n])
         \/ \E n \in Names : StopSurplus(n) /\ Stop(n)
         \/ RemoveSurplus /\ Rm(removing)
         \/ DaemonStep
  BY DEF AgentNext, AgentStep, Leader, nodeVars, ReadAssignments, ListContainers,
         AllRun, AllStopped, RunMissing, StopSurplus, RemoveSurplus, Assign, Unassign

\* A Run is the only step after which there is an entry where there was none.
LEMMA EntriesAreRun ==
  ASSUME AgentInv, [AgentNext]_nodeVars,
         NEW n \in Names, map[n] = None, map'[n] # None
  PROVE  expected[n] # None
<1>1. TypeInv
  BY DEF AgentInv, DaemonInv
<1>2. CASE UNCHANGED vars
  BY <1>2 DEF vars
<1>3. ASSUME NEW k \in Names, RunMissing(k), Run(k, expected[k])
      PROVE  expected[n] # None
  BY <1>1, <1>3 DEF RunMissing, Run, SpawnReplica, TypeInv, TypeOK
<1>4. ASSUME NEW k \in Names, Stop(k)
      PROVE  FALSE
  BY <1>1, <1>4, StopEntries DEF Stop
<1>5. CASE Rm(removing)
  BY <1>1, <1>5 DEF Rm, TypeInv, TypeOK
<1>6. CASE DaemonStep
  BY <1>1, <1>6, TaskLocal
     DEF DaemonStep, Environment, ProcessExits, ListenerDropped
<1> QED
  BY <1>2, <1>3, <1>4, <1>5, <1>6, AgentRequests

LEMMA KnownStep == AgentInv /\ [AgentNext]_nodeVars => KnownInv'
<1> SUFFICES ASSUME AgentInv, [AgentNext]_nodeVars
             PROVE  KnownInv'
  OBVIOUS
<1>0. AgentTypeOK /\ KnownInv
  BY DEF AgentInv
\* An entry of before, or one of a name the agent has read.
<1>1. ASSUME NEW n \in Names, map'[n] # None
      PROVE  Assigned(n) \/ n \in retired
  BY <1>0, <1>1, EntriesAreRun DEF KnownInv
<1>2. ASSUME NEW n \in Names, expected'[n] # None
      PROVE  Assigned(n) \/ n \in retired
  <2>1. expected'[n] = expected[n] \/ expected'[n] = assigned[n]
    BY <1>0, <1>2
       DEF AgentNext, AgentStep, Leader, DaemonStep, nodeVars, leaderVars,
           agentVars, ReadAssignments, ListContainers, AllRun, AllStopped,
           RunMissing, StopSurplus, RemoveSurplus, Assign, Unassign, Compare,
           Nothing, AgentTypeOK
  <2> QED
    BY <1>0, <1>2, <2>1 DEF KnownInv, Assigned
<1>3. CASE UNCHANGED leaderVars
  BY <1>0, <1>1, <1>2, <1>3 DEF leaderVars, KnownInv, Assigned
<1>4. CASE Leader
  <2>1. ASSUME NEW n \in Names, NEW m \in Manifests, Assign(n, m)
        PROVE  KnownInv'
    BY <1>0, <1>1, <1>2, <2>1 DEF Assign, KnownInv, Assigned, AgentTypeOK
  <2>2. ASSUME NEW n \in Names, Unassign(n)
        PROVE  KnownInv'
    BY <1>0, <1>1, <1>2, <2>2 DEF Unassign, KnownInv, Assigned, AgentTypeOK
  <2> QED
    BY <1>4, <2>1, <2>2 DEF Leader
<1> QED
  BY <1>3, <1>4
     DEF AgentNext, AgentStep, DaemonStep, nodeVars, ReadAssignments,
         ListContainers, AllRun, AllStopped, RunMissing, StopSurplus, RemoveSurplus

\* What is gone stays gone, as long as the assignments can be read.
LEMMA GoneGrows ==
  ASSUME AgentInv, [AgentNext]_nodeVars, ~blind'
  PROVE  ~blind /\ Gone \subseteq Gone'
<1>0. AgentTypeOK /\ KnownInv
  BY DEF AgentInv
<1>1. CASE ReadAssignments
  BY <1>0, <1>1 DEF ReadAssignments, leaderVars, Gone, KnownInv, Assigned
<1>2. CASE ListContainers
  BY <1>0, <1>2 DEF ListContainers, Compare, leaderVars, Gone, KnownInv, AgentTypeOK
<1>3. CASE AllRun \/ AllStopped \/ RemoveSurplus
  BY <1>3 DEF AllRun, AllStopped, RemoveSurplus, leaderVars, Gone
<1>4. ASSUME NEW n \in Names, RunMissing(n)
      PROVE  ~blind /\ Gone \subseteq Gone'
  BY <1>0, <1>4 DEF RunMissing, leaderVars, Gone, AgentTypeOK
<1>5. ASSUME NEW n \in Names, StopSurplus(n)
      PROVE  ~blind /\ Gone \subseteq Gone'
  BY <1>5 DEF StopSurplus, leaderVars, Gone
<1>6. CASE Leader
  BY <1>6 DEF Leader, Assign, Unassign, agentVars, Gone
<1>7. CASE DaemonStep \/ UNCHANGED nodeVars
  BY <1>7 DEF DaemonStep, nodeVars, leaderVars, agentVars, Gone
<1> QED
  BY <1>1, <1>2, <1>3, <1>4, <1>5, <1>6, <1>7 DEF AgentNext, AgentStep

LEMMA PlanStep ==
  ASSUME AgentInv, [AgentNext]_nodeVars, ~blind'
  PROVE  PlanInv'
<1>0. AgentTypeOK /\ KnownInv /\ PlanInv /\ ~blind /\ Gone \subseteq Gone'
  BY GoneGrows DEF AgentInv
<1>1. CASE ReadAssignments
  BY <1>0, <1>1
     DEF ReadAssignments, leaderVars, vars, KnownInv, PlanInv, Assigned
<1>2. CASE ListContainers
  <2>1. surplus' \subseteq {n \in Actual : expected[n] = None} /\ agent' = "run"
    BY <1>0, <1>2 DEF ListContainers, Compare
  <2>2. surplus' \subseteq retired
    BY <1>0, <1>2, <2>1 DEF ListContainers, Actual, Unfinished, PlanInv
  <2> QED
    BY <1>0, <1>2, <2>1, <2>2
       DEF ListContainers, Compare, Actual, leaderVars, PlanInv, Gone, AgentTypeOK
<1>3. CASE AllRun \/ AllStopped \/ RemoveSurplus
  BY <1>0, <1>3 DEF AllRun, AllStopped, RemoveSurplus, PlanInv
<1>4. ASSUME NEW n \in Names, RunMissing(n)
      PROVE  PlanInv'
  BY <1>0, <1>4 DEF RunMissing, PlanInv
<1>5. ASSUME NEW n \in Names, StopSurplus(n)
      PROVE  PlanInv'
  BY <1>0, <1>5 DEF StopSurplus, PlanInv
<1>6. CASE Leader
  BY <1>0, <1>6 DEF Leader, Assign, Unassign, agentVars, vars, PlanInv
<1>7. CASE UNCHANGED nodeVars
  BY <1>0, <1>7 DEF nodeVars, vars, leaderVars, agentVars, PlanInv
<1>8. CASE DaemonStep
  <2>1. \A n \in Names : map'[n] # None => map[n] # None
    BY <1>8, TaskLocal
       DEF DaemonStep, Environment, ProcessExits, ListenerDropped, AgentInv, DaemonInv
  <2> QED
    BY <1>0, <1>8, <2>1 DEF DaemonStep, leaderVars, agentVars, PlanInv
<1> QED
  BY <1>1, <1>2, <1>3, <1>4, <1>5, <1>6, <1>7, <1>8 DEF AgentNext, AgentStep

\* The agent never runs a replica that has a task, as it would if one whose
\* entry it has removed could be assigned, or read, once more.
LEMMA GenerationsStep ==
  ASSUME AgentInv, [AgentNext]_nodeVars, ~blind'
  PROVE  Generations(Gone)'
<1>0. /\ AgentTypeOK /\ TypeInv /\ PlanInv /\ Generations(Gone)
      /\ Gone \subseteq Gone'
  BY GoneGrows DEF AgentInv, DaemonInv
<1>1. PICK G : G = Gone
  OBVIOUS
<1>2. Generations(G)
  BY <1>0, <1>1
<1>3. ASSUME UNCHANGED vars
      PROVE  Generations(G)'
  BY <1>0, <1>2, <1>3, QuietGenerations DEF vars
<1>4. ASSUME NEW n \in Names, RunMissing(n), Run(n, expected[n])
      PROVE  Generations(G)'
  <2>1. n \notin G /\ expected[n] \in Manifests
    BY <1>0, <1>1, <1>4 DEF RunMissing, Gone, AgentTypeOK
  <2> QED
    BY <1>0, <1>2, <1>4, <2>1, SpawnGenerations DEF Run
<1>5. ASSUME NEW n \in Names, Stop(n)
      PROVE  Generations(G)'
  BY <1>0, <1>2, <1>5, StopGenerations DEF Stop
<1>6. ASSUME RemoveSurplus, Rm(removing)
      PROVE  Generations(G)'
  <2>1. removing \in Names /\ removing \in G
    BY <1>0, <1>1, <1>6 DEF RemoveSurplus, PlanInv, AgentTypeOK
  <2> QED
    BY <1>0, <1>2, <1>6, <2>1, RmGenerations
<1>7. ASSUME DaemonStep
      PROVE  Generations(G)'
  BY <1>0, <1>2, <1>7, TaskGenerations, EnvironmentGenerations DEF DaemonStep
<1>8. Generations(G)'
  BY <1>3, <1>4, <1>5, <1>6, <1>7, AgentRequests
<1> QED
  BY <1>0, <1>1, <1>8 DEF Generations

LEMMA AgentInvStep == AgentInv /\ [AgentNext]_nodeVars => AgentInv'
<1> SUFFICES ASSUME AgentInv, [AgentNext]_nodeVars
             PROVE  AgentInv'
  OBVIOUS
<1>1. AgentTypeOK' /\ [Next]_vars
  BY AgentTypeStep, AgentStepIsNext DEF AgentInv
<1>2. DaemonInv'
  BY <1>1, TypeStep, ProcStep, PidStep DEF AgentInv, DaemonInv
<1> QED
  BY <1>1, <1>2, KnownStep, PlanStep, GenerationsStep DEF AgentInv

\* A replica never has two processes, although the agent removes containers
\* that are being built, as long as it can read what is assigned.
THEOREM ReplicasHaveOneProcess == AgentSpec => []OneProcessPerReplica
<1>1. AgentInv => OneProcessPerReplica
  <2> SUFFICES ASSUME AgentInv, ~blind, NEW s \in Task, NEW t \in Task,
                      Alive(s), Alive(t), job[s].name = job[t].name
               PROVE  s = t
    BY DEF OneProcessPerReplica, OneProcessPerName
  <2>1. Tracked(s) /\ Tracked(t)
    BY DEF AgentInv, DaemonInv, ProcInv, EndedInv, Tracked, Alive
  <2> QED
    BY <2>1 DEF AgentInv, Generations
<1> QED
  BY <1>1, AgentInvInit, AgentInvStep, PTL DEF AgentSpec

\* The agent stops no replica that is assigned, as long as it can read what is.
THEOREM AgentLeavesAssignedAlone == AgentSpec => AssignedIsLeftAlone
<1>1. ASSUME AgentInv, [AgentNext]_nodeVars, NEW t \in Task,
             proc[t] = "alive", proc'[t] = "killed"
      PROVE  blind \/ ~Assigned(job[t].name)
  <2>0. TypeInv /\ PidInv /\ KnownInv
    BY <1>1 DEF AgentInv, DaemonInv
  <2>1. CASE UNCHANGED vars \/ \E n \in Names : Run(n, expected[n])
    BY <1>1, <2>1 DEF vars, Run, SpawnReplica
  <2>2. CASE RemoveSurplus /\ Rm(removing)
    BY <1>1, <2>2 DEF Rm
  <2>3. CASE DaemonStep
    BY <1>1, <2>0, <2>3
       DEF DaemonStep, Environment, ProcessExits, ListenerDropped, TaskStep,
           EnsureBaseImage, EnsureOverlay, CreateLog, BindPort, BindFails,
           MakeFifo, Launch, LaunchFails, WritePid, WriteManifest, Publish,
           Reap, RecordExit, Unregister, TypeInv, TypeOK
  <2>4. ASSUME NEW n \in Names, StopSurplus(n), Stop(n)
        PROVE  blind \/ ~Assigned(job[t].name)
    <3>1. map[n] # None /\ map[n].pid = t
      BY <1>1, <2>4 DEF Stop, StopThese, SigKill
    <3>2. job[t].name = n
      BY <2>0, <3>1, DaemonAssumption DEF PidInv, PidIsOfItsName, Task
    <3>3. blind \/ n \in retired
      BY <1>1, <2>4 DEF StopSurplus, AgentInv, PlanInv, Gone
    <3> QED
      BY <2>0, <3>2, <3>3 DEF KnownInv
  <2> QED
    BY <1>1, <2>1, <2>2, <2>3, <2>4, AgentRequests
<1>2. AgentInv /\ [AgentNext]_nodeVars =>
        [\A t \in Task : proc[t] = "alive" /\ proc'[t] = "killed" =>
           blind \/ ~Assigned(job[t].name)]_nodeVars
  BY <1>1
<1> QED
  BY <1>2, AgentInvInit, AgentInvStep, PTL DEF AgentSpec, AssignedIsLeftAlone
=============================================================================
