------------------------------ MODULE NodeAgent ------------------------------
(***************************************************************************)
(* The node agent of src/src/backlet.rs (run_node_agent) as the client of  *)
(* one daemon: the loop that reads what the leader has assigned to the     *)
(* node and what the daemon runs, starts what is missing and stops and     *)
(* removes what is not assigned.  The names of Daemon are replica names.   *)
(*                                                                         *)
(* Every request of the agent, to etcd or to the daemon, is a step of its  *)
(* own and may fail; the heartbeat at the head of the loop is in Cluster.  *)
(* The leader draws a random name for a replica (backlet.rs:480), so that  *)
(* a name is assigned once.                                                *)
(***************************************************************************)
EXTENDS Daemon

CONSTANT
  MaxOutages  \* bound: how many of the agent's requests may fail

VARIABLES
  assigned,  \* Names -> the manifest in the replica's assignment, or None
  retired,   \* names whose assignment was deleted
  agent,     \* the request the agent sends next
  expected,  \* Names -> the manifest the agent has read and has yet to run
  surplus,   \* names the agent has yet to stop and remove
  removing,  \* the name it has sent Stop for and sends Rm for next, or None
  outages,   \* how many requests of the agent have failed
  blind      \* whether a read of the assignments was among them

agentVars == <<agent, expected, surplus, removing, outages, blind>>
leaderVars == <<assigned, retired>>
nodeVars == <<vars, leaderVars, agentVars>>

Assigned(n) == assigned[n] # None
Nothing == [n \in Names |-> None]

AgentInit ==
  /\ Init
  /\ assigned = [n \in Names |-> None]
  /\ retired = {}
  /\ agent = "read"
  /\ expected = Nothing
  /\ surplus = {}
  /\ removing = None
  /\ outages = 0
  /\ blind = FALSE

-----------------------------------------------------------------------------
(* The leader, as this node sees it. *)

\* Variant: a name may be used again.
AssignAgain(n, m) ==
  /\ ~Assigned(n)
  /\ assigned' = [assigned EXCEPT ![n] = m]
  /\ retired' = retired \ {n}
  /\ UNCHANGED <<vars, agentVars>>

Assign(n, m) ==
  /\ ~Assigned(n) /\ n \notin retired
  /\ assigned' = [assigned EXCEPT ![n] = m]
  /\ UNCHANGED <<vars, retired, agentVars>>

Unassign(n) ==
  /\ Assigned(n)
  /\ assigned' = [assigned EXCEPT ![n] = None]
  /\ retired' = retired \cup {n}
  /\ UNCHANGED <<vars, agentVars>>

-----------------------------------------------------------------------------
(* One round of the agent. *)

Answered == UNCHANGED outages
Outage == outages < MaxOutages /\ outages' = outages + 1

\* A read of the assignments that fails leaves the list empty.
ReadAssignments ==
  /\ agent = "read"
  /\ agent' = "ps"
  /\ \/ /\ Answered
        /\ expected' = assigned
        /\ UNCHANGED blind
     \/ Outage /\ expected' = Nothing /\ blind' = TRUE
  /\ UNCHANGED <<vars, leaderVars, surplus, removing>>

\* What Ps lists, a building container included, but for the exited ones.
Actual == {n \in Names : Unfinished(n)}

\* Variant: what is to be stopped is compared with what is left to run.
CompareWithRest(actual) ==
  /\ expected' = [n \in Names |-> IF n \in actual THEN None ELSE expected[n]]
  /\ surplus' = {n \in actual : expected'[n] = None}

\* Splits what is expected and what there is into what to run and what to stop.
Compare(actual) ==
  /\ expected' = [n \in Names |-> IF n \in actual THEN None ELSE expected[n]]
  /\ surplus' = {n \in actual : expected[n] = None}

\* Variant: exited containers are not filtered out of the answer.
ListAll ==
  /\ agent = "ps"
  /\ agent' = "run"
  /\ \/ Answered /\ Compare({n \in Names : map[n] # None})
     \/ Outage /\ Compare({})
  /\ UNCHANGED <<vars, leaderVars, removing, blind>>

\* A Ps that fails is taken for an empty list.
ListContainers ==
  /\ agent = "ps"
  /\ agent' = "run"
  /\ \/ Answered /\ Compare(Actual)
     \/ Outage /\ Compare({})
  /\ UNCHANGED <<vars, leaderVars, removing, blind>>

\* The bound on spawns is used up: no Run can be accepted any more.
Exhausted == \A t \in Task : pc[t] # "idle"

\* The answer to the Run, an error for a name that is not finished, is ignored.
RunMissing(n) ==
  /\ agent = "run"
  /\ expected[n] # None
  /\ expected' = [expected EXCEPT ![n] = None]
  /\ \/ Answered /\ Run(n, expected[n])
     \/ Answered /\ (Unfinished(n) \/ Exhausted) /\ UNCHANGED vars
     \/ Outage /\ UNCHANGED vars
  /\ UNCHANGED <<leaderVars, agent, surplus, removing, blind>>

AllRun ==
  /\ agent = "run"
  /\ expected = Nothing
  /\ agent' = "stop"
  /\ UNCHANGED <<vars, leaderVars, expected, surplus, removing, outages, blind>>

\* Variant: the Stop is left to the Rm.
RmWithoutStop(n) ==
  /\ agent = "stop"
  /\ n \in surplus
  /\ agent' = "rm"
  /\ removing' = n
  /\ surplus' = surplus \ {n}
  /\ UNCHANGED <<vars, leaderVars, expected, outages, blind>>

\* The answer to the Stop is ignored: the name may not be there any more.
StopSurplus(n) ==
  /\ agent = "stop"
  /\ n \in surplus
  /\ agent' = "rm"
  /\ removing' = n
  /\ surplus' = surplus \ {n}
  /\ \/ Answered /\ Stop(n)
     \/ Answered /\ map[n] = None /\ UNCHANGED vars
     \/ Outage /\ UNCHANGED vars
  /\ UNCHANGED <<leaderVars, expected, blind>>

RmRefused(n) == map[n] # None => map[n].pid > 0 /\ ~map[n].exit

\* Rm follows at once and its answer is ignored as well: it is an error while
\* the process that was killed has not been reaped.
RemoveSurplus ==
  /\ agent = "rm"
  /\ agent' = "stop"
  /\ removing' = None
  /\ \/ Answered /\ Rm(removing)
     \/ Answered /\ RmRefused(removing) /\ UNCHANGED vars
     \/ Outage /\ UNCHANGED vars
  /\ UNCHANGED <<leaderVars, expected, surplus, blind>>

\* The next round begins, five seconds later.
AllStopped ==
  /\ agent = "stop"
  /\ surplus = {}
  /\ agent' = "read"
  /\ UNCHANGED <<vars, leaderVars, expected, surplus, removing, outages, blind>>

-----------------------------------------------------------------------------
AgentStep ==
  \/ ReadAssignments
  \/ ListContainers
  \/ AllRun
  \/ RemoveSurplus
  \/ AllStopped
  \/ \E n \in Names : RunMissing(n) \/ StopSurplus(n)

Leader ==
  \/ \E n \in Names, m \in Manifests : Assign(n, m)
  \/ \E n \in Names : Unassign(n)

DaemonStep ==
  /\ Environment \/ \E t \in Task : TaskStep(t)
  /\ UNCHANGED <<leaderVars, agentVars>>

AgentNext == AgentStep \/ Leader \/ DaemonStep

\* The agent's loop never ends; its rounds are not synchronised with anything.
AgentFairness == Fairness /\ WF_nodeVars(AgentStep)

AgentSpec == AgentInit /\ [][AgentNext]_nodeVars
FairAgentSpec == AgentSpec /\ AgentFairness

-----------------------------------------------------------------------------
\* As long as the assignments can be read, a replica never gets a second
\* process while the first one lives, although the agent removes containers
\* that are being built and the daemon then has lost sight of them: a name
\* that has been removed is never run again (backlet.rs:282-336, 480).
OneProcessPerReplica == ~blind => OneProcessPerName

\* As long as the assignments can be read, a replica is not stopped while it
\* is assigned (backlet.rs:314-324).
AssignedIsLeftAlone ==
  [][\A t \in Task : proc[t] = "alive" /\ proc'[t] = "killed" =>
       blind \/ ~Assigned(job[t].name)]_nodeVars

\* An assigned replica is started, and started again whenever it has ended,
\* whatever requests have failed meanwhile (backlet.rs:282-311).
AssignedComesUp ==
  \A n \in Names : Assigned(n) ~> Unfinished(n) \/ n \in retired \/ Exhausted

\* Once its assignment is gone, Ps shows a replica neither building nor running
\* from some time on, even if the agent was about to run it (backlet.rs:314-335).
UnassignedGoesDown ==
  \A n \in Names : <>[](n \in retired => ~Unfinished(n))

\* "Running but not assigned! Kill it." (src/src/backlet.rs:316): no process of
\* a replica is left once its assignment is gone.
UnassignedIsKilled ==
  \A n \in Names : n \in retired ~> Processes(n) = {}
=============================================================================
