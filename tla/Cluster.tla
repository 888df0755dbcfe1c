------------------------------ MODULE Cluster ------------------------------
(***************************************************************************)
(* The control plane of a cluster (src/src/backlet.rs): applications and   *)
(* assignments in etcd, heartbeats and the leader key under leases, the    *)
(* election, and the reconciliation a leader runs every three seconds.     *)
(* Every request to etcd is a step of its own; etcd itself is atomic.      *)
(***************************************************************************)
EXTENDS Naturals, FiniteSets

CONSTANTS
  Nodes,        \* hostnames, in the order of their keys
  Apps,         \* names of applications
  Ids,          \* the random suffixes of replica names, in the order of their keys
  None,
  MaxReplicas,  \* bound: replicas an application may ask for
  MaxRequests,  \* bound: requests of clients
  MaxFaults     \* bound: crashes, requests to etcd that fail and leases that are lost

ASSUME OrderAssumption == Nodes \subseteq Nat /\ Ids \subseteq Nat
ASSUME NoneAssumption == None \notin Nodes \cup Nat
ASSUME BoundAssumption ==
  MaxReplicas \in Nat /\ MaxRequests \in Nat /\ MaxFaults \in Nat

VARIABLES
  apps,      \* /openback/applications/<app>: replicas asked for, or None
  assigned,  \* /openback/assignments/<node>/<app>-<id>
  beats,     \* nodes with a key /openback/nodes/<node>/status
  holder,    \* the node named in /openback/leader, or None
  up,        \* nodes whose backlet runs
  election,  \* Nodes -> the task of run_leader_election
  scale,     \* a Scale between its read and its write, or None
  requests, crashes, faults

etcdVars == <<apps, assigned, beats, holder>>
boundVars == <<requests, crashes, faults>>
vars == <<etcdVars, up, election, scale, boundVars>>

Assignment == [node : Nodes, app : Apps, id : Ids]
Replicas == 0 .. MaxReplicas

PC == {"elect", "panicked", "nodes", "apps", "assignments", "write", "check"}

\* The locals of run_leader_reconciliation.
Task == [pc : PC, live : SUBSET Nodes, wanted : [Apps -> Replicas \cup {None}],
         remove : SUBSET Assignment, add : [Apps -> Replicas]]

NoApps == [a \in Apps |-> None]
NoAdds == [a \in Apps |-> 0]
At(pc) == [pc |-> pc, live |-> {}, wanted |-> NoApps, remove |-> {}, add |-> NoAdds]

Leading(n) == election[n].pc \notin {"elect", "panicked"}
Desired(a) == IF apps[a] = None THEN 0 ELSE apps[a]
OfApp(S, a) == {x \in S : x.app = a}

Init ==
  /\ apps = NoApps
  /\ assigned = {}
  /\ beats = {}
  /\ holder = None
  /\ up = Nodes
  /\ election = [n \in Nodes |-> At("elect")]
  /\ scale = None
  /\ requests = 0
  /\ crashes = 0
  /\ faults = 0

Fault == crashes + faults < MaxFaults /\ faults' = faults + 1

-----------------------------------------------------------------------------
(* Requests of clients (handle_cluster_request). *)

Request ==
  /\ requests < MaxRequests
  /\ requests' = requests + 1
  /\ UNCHANGED <<assigned, beats, holder, up, election, crashes, faults>>

Apply(a) ==
  /\ Request
  /\ \E r \in Replicas : apps' = [apps EXCEPT ![a] = r]
  /\ UNCHANGED scale

Delete(a) ==
  /\ Request
  /\ apps' = [apps EXCEPT ![a] = None]
  /\ UNCHANGED scale

\* An application that is not there is refused.
ScaleRead(a) ==
  /\ Request
  /\ scale = None
  /\ apps[a] # None
  /\ \E r \in Replicas : scale' = [app |-> a, replicas |-> r]
  /\ UNCHANGED apps

\* The application read is put back with the new number, whatever has happened
\* to it; the answer is Ok even if the put fails.
ScaleWrite ==
  /\ scale # None
  /\ scale' = None
  /\ \/ /\ apps' = [apps EXCEPT ![scale.app] = scale.replicas]
        /\ UNCHANGED faults
     \/ /\ Fault
        /\ UNCHANGED apps
  /\ UNCHANGED <<assigned, beats, holder, up, election, requests, crashes>>

-----------------------------------------------------------------------------
(* Heartbeats, leases, crashes. *)

Heartbeat(n) ==
  /\ n \in up
  /\ beats' = beats \cup {n}
  /\ UNCHANGED <<apps, assigned, holder, up, election, scale, boundVars>>

\* The lease of a heartbeat runs out when its node is down, or cannot renew it.
BeatExpires(n) ==
  /\ n \in beats
  /\ (n \notin up /\ UNCHANGED faults) \/ Fault
  /\ beats' = beats \ {n}
  /\ UNCHANGED <<apps, assigned, holder, up, election, scale, requests, crashes>>

\* Variant: the leader key is put without a lease.
LeaderKeyStays ==
  /\ FALSE
  /\ UNCHANGED vars

\* The lease of the leader key is kept alive by the node that leads only.
LeaderExpires ==
  /\ holder # None
  /\ (~Leading(holder) /\ UNCHANGED faults) \/ Fault
  /\ holder' = None
  /\ UNCHANGED <<apps, assigned, beats, up, election, scale, requests, crashes>>

NodeCrashes(n) ==
  /\ n \in up
  /\ crashes + faults < MaxFaults
  /\ crashes' = crashes + 1
  /\ up' = up \ {n}
  /\ election' = [election EXCEPT ![n] = At("elect")]
  /\ UNCHANGED <<etcdVars, scale, requests, faults>>

NodeStarts(n) ==
  /\ n \notin up
  /\ up' = up \cup {n}
  /\ UNCHANGED <<etcdVars, election, scale, boundVars>>

-----------------------------------------------------------------------------
(* run_leader_election. *)

\* Variant: the key is put without the comparison.
CampaignWithoutTxn(n) ==
  /\ n \in up
  /\ election[n].pc = "elect"
  /\ holder' = n
  /\ election' = [election EXCEPT ![n] = At("nodes")]
  /\ UNCHANGED <<apps, assigned, beats, up, scale, boundVars>>

\* The key is put if it does not exist.  The answer may be lost, and a request
\* to keep the lease alive that fails is unwrapped: the task panics.
Campaign(n) ==
  /\ n \in up
  /\ election[n].pc = "elect"
  /\ holder = None
  /\ holder' = n
  /\ \/ /\ election' = [election EXCEPT ![n] = At("nodes")]
        /\ UNCHANGED faults
     \/ /\ Fault
        /\ UNCHANGED election
     \/ /\ Fault
        /\ election' = [election EXCEPT ![n] = At("panicked")]
  /\ UNCHANGED <<apps, assigned, beats, up, scale, requests, crashes>>

\* Any answer of the keep-alive stream is taken for a lease that is alive.
StillAlive(n) ==
  /\ election[n].pc = "check"
  /\ \/ /\ election' = [election EXCEPT ![n] = At("nodes")]
        /\ UNCHANGED faults
     \/ /\ Fault
        /\ election' = [election EXCEPT ![n] = At("elect")]
  /\ UNCHANGED <<etcdVars, up, scale, requests, crashes>>

-----------------------------------------------------------------------------
(* run_leader_reconciliation. *)

\* A read that fails is taken for an empty answer.
Read(answer, value, empty) ==
  \/ answer = value /\ UNCHANGED faults
  \/ answer = empty /\ Fault

ReadNodes(n) ==
  /\ election[n].pc = "nodes"
  /\ \E live \in {beats, {}} :
       /\ Read(live, beats, {})
       /\ election' = [election EXCEPT ![n] =
            IF live = {} THEN At("check") ELSE [At("apps") EXCEPT !.live = live]]
  /\ UNCHANGED <<etcdVars, up, scale, requests, crashes>>

ReadApps(n) ==
  /\ election[n].pc = "apps"
  /\ \E wanted \in {apps, NoApps} :
       /\ Read(wanted, apps, NoApps)
       /\ election' = [election EXCEPT ![n] =
            [@ EXCEPT !.pc = "assignments", !.wanted = wanted]]
  /\ UNCHANGED <<etcdVars, up, scale, requests, crashes>>

\* Listings come in the order of the keys; the first ones are removed.
Precedes(x, y) == x.node < y.node \/ (x.node = y.node /\ x.id < y.id)
FirstOf(S, k) == {x \in S : Cardinality({y \in S : Precedes(y, x)}) < k}

\* Variant: the difference is taken without the comparison.
MissingOrNot(seen, want) == IF want = None THEN 0 ELSE want - Cardinality(seen)

Missing(seen, want) ==
  IF want = None \/ Cardinality(seen) >= want THEN 0 ELSE want - Cardinality(seen)

\* Those in excess, or all those of an application that is not there.
Surplus(seen, want) ==
  IF want = None THEN seen
  ELSE IF Cardinality(seen) > want THEN FirstOf(seen, Cardinality(seen) - want) ELSE {}

\* Variant: the assignments of dead nodes count.
PlanCountsDead(task, seen) ==
  LET alive == {x \in seen : x.node \in task.live}
  IN [task EXCEPT
        !.pc = "write",
        !.remove = (seen \ alive)
                     \cup UNION {Surplus(OfApp(seen, a), task.wanted[a]) : a \in Apps},
        !.add = [a \in Apps |-> Missing(OfApp(seen, a), task.wanted[a])]]

\* Variant: the assignments of dead nodes are skipped, and not removed.
PlanKeepsDead(task, seen) ==
  LET alive == {x \in seen : x.node \in task.live}
  IN [task EXCEPT
        !.pc = "write",
        !.remove = UNION {Surplus(OfApp(alive, a), task.wanted[a]) : a \in Apps},
        !.add = [a \in Apps |-> Missing(OfApp(alive, a), task.wanted[a])]]

\* What is left to write: the assignments of dead nodes go first.
Plan(task, seen) ==
  LET alive == {x \in seen : x.node \in task.live}
  IN [task EXCEPT
        !.pc = "write",
        !.remove = (seen \ alive)
                     \cup UNION {Surplus(OfApp(alive, a), task.wanted[a]) : a \in Apps},
        !.add = [a \in Apps |-> Missing(OfApp(alive, a), task.wanted[a])]]

ReadAssignments(n) ==
  /\ election[n].pc = "assignments"
  /\ \E seen \in {assigned, {}} :
       /\ Read(seen, assigned, {})
       /\ election' = [election EXCEPT ![n] = Plan(@, seen)]
  /\ UNCHANGED <<etcdVars, up, scale, requests, crashes>>

OfDeadNodes(task) == {x \in task.remove : x.node \notin task.live}

\* One delete; its result is ignored.
Remove(n, x) ==
  /\ election' = [election EXCEPT ![n].remove = @ \ {x}]
  /\ \/ assigned' = assigned \ {x} /\ UNCHANGED faults
     \/ Fault /\ UNCHANGED assigned
  /\ UNCHANGED <<apps, beats, holder, up, scale, requests, crashes>>

PurgeDead(n) ==
  /\ election[n].pc = "write"
  /\ \E x \in OfDeadNodes(election[n]) : Remove(n, x)

ScaleDown(n) ==
  /\ election[n].pc = "write"
  /\ OfDeadNodes(election[n]) = {}
  /\ \E x \in election[n].remove : Remove(n, x)

\* The random suffix is one that nothing uses.
Fresh(id) ==
  \A x \in assigned \cup UNION {election[n].remove : n \in Nodes} : x.id # id

\* One put, to a random node among those seen alive; its result is ignored.
ScaleUp(n, a) ==
  /\ election[n].pc = "write"
  /\ OfDeadNodes(election[n]) = {}
  /\ election[n].add[a] > 0
  /\ election' = [election EXCEPT ![n].add[a] = @ - 1]
  /\ \/ /\ \E node \in election[n].live, id \in Ids :
             /\ Fresh(id)
             /\ assigned' = assigned \cup {[node |-> node, app |-> a, id |-> id]}
        /\ UNCHANGED faults
     \/ Fault /\ UNCHANGED assigned
  /\ UNCHANGED <<apps, beats, holder, up, scale, requests, crashes>>

Written(n) ==
  /\ election[n].pc = "write"
  /\ election[n].remove = {}
  /\ election[n].add = NoAdds
  /\ election' = [election EXCEPT ![n] = At("check")]
  /\ UNCHANGED <<etcdVars, up, scale, boundVars>>

-----------------------------------------------------------------------------
Reconcile(n) ==
  \/ ReadNodes(n)
  \/ ReadApps(n)
  \/ ReadAssignments(n)
  \/ PurgeDead(n)
  \/ ScaleDown(n)
  \/ \E a \in Apps : ScaleUp(n, a)
  \/ Written(n)

Elect(n) == Campaign(n) \/ StillAlive(n) \/ Reconcile(n)

Leases == LeaderExpires \/ \E n \in Nodes : BeatExpires(n)

Next ==
  \/ \E a \in Apps : Apply(a) \/ Delete(a) \/ ScaleRead(a)
  \/ ScaleWrite
  \/ \E n \in Nodes : Heartbeat(n) \/ NodeCrashes(n) \/ NodeStarts(n) \/ Elect(n)
  \/ Leases

\* A backlet that runs goes on, a lease that is not renewed runs out, and a
\* request to etcd is not refused for ever.
Fairness ==
  /\ \A n \in Nodes : WF_vars(Heartbeat(n)) /\ WF_vars(BeatExpires(n)) /\ WF_vars(Elect(n))
  /\ WF_vars(LeaderExpires)
  /\ WF_vars(ScaleWrite)

Spec == Init /\ [][Next]_vars
FairSpec == Spec /\ Fairness

-----------------------------------------------------------------------------
TypeOK ==
  /\ apps \in [Apps -> Replicas \cup {None}]
  /\ assigned \subseteq Assignment
  /\ beats \subseteq Nodes
  /\ holder \in Nodes \cup {None}
  /\ up \subseteq Nodes
  /\ election \in [Nodes -> Task]
  /\ scale \in [app : Apps, replicas : Replicas] \cup {None}
  /\ requests \in 0 .. MaxRequests
  /\ crashes \in 0 .. MaxFaults
  /\ faults \in 0 .. MaxFaults

Leaders == {n \in Nodes : Leading(n)}

\* "Still alive" (src/src/backlet.rs:375): a node that goes on leading holds the
\* leader key; one whose lease is lost notices it and steps down.
StepsDown ==
  \A n \in Nodes : (Leading(n) /\ holder # n) ~> (~Leading(n) \/ holder = n)

\* While no request to etcd fails and no lease is lost, an application never has
\* more replicas on nodes with a heartbeat than were ever asked for, although
\* leaders crash half-way and their successors plan again (backlet.rs:456-504).
NeverOverAssigned ==
  faults = 0 => \A a \in Apps :
    Cardinality({x \in OfApp(assigned, a) : x.node \in beats}) <= MaxReplicas

\* Under the same condition a leader that takes an assignment of an application
\* away from a node it has seen alive leaves as many as it has read the
\* application to ask for (backlet.rs:487-503).
KeepsWhatIsWanted ==
  [][\A n \in Nodes, a \in Apps :
       /\ faults = 0
       /\ ScaleDown(n)
       /\ election[n].wanted[a] # None
       /\ OfApp(assigned', a) # OfApp(assigned, a)
       => Cardinality(OfApp(assigned', a)) >= election[n].wanted[a]]_vars

\* Some node runs whose task has not panicked.
CanLead == \E n \in up : election[n].pc # "panicked"

\* Somebody leads in the end, whoever crashed while holding the key.
SomeoneLeads == []<>(CanLead => Leaders # {})

Settled ==
  \A a \in Apps : /\ Cardinality(OfApp(assigned, a)) = Desired(a)
                  /\ \A x \in OfApp(assigned, a) : x.node \in up

\* Whatever was requested, has crashed and has failed, when that is over every
\* application has the replicas it asks for, on nodes that run, and keeps them.
Converges == <>[]CanLead => <>[]Settled
=============================================================================
