---------------------------- MODULE ClusterProofs ----------------------------
(***************************************************************************)
(* Proofs about Cluster, for any nodes, applications, requests, crashes    *)
(* and failures: type correctness, and, while nothing fails but nodes,     *)
(* that an application never has more replicas assigned than may be asked  *)
(* for and that a leader which scales it down leaves as many as it wants.  *)
(***************************************************************************)
EXTENDS Cluster, FiniteSetTheorems, TLAPS

\* The assignments of etcd are finitely many at any time, whatever the nodes.
TypeInv == TypeOK /\ IsFiniteSet(assigned)

LEMMA OfAppFinite ==
  ASSUME NEW S, IsFiniteSet(S), NEW a
  PROVE  IsFiniteSet(OfApp(S, a)) /\ Cardinality(OfApp(S, a)) \in Nat
<1>1. OfApp(S, a) \in SUBSET S
  BY DEF OfApp
<1> QED
  BY <1>1, FS_Subset, FS_CardinalityType

LEMMA AtType ==
  ASSUME NEW p \in PC
  PROVE  At(p) \in Task
  BY BoundAssumption DEF At, Task, NoApps, NoAdds, Replicas

LEMMA MissingType ==
  ASSUME NEW S, IsFiniteSet(S), NEW want \in Replicas \cup {None}
  PROVE  Missing(S, want) \in Replicas
<1>1. Cardinality(S) \in Nat
  BY FS_CardinalityType
<1> QED
  BY <1>1, BoundAssumption, NoneAssumption DEF Missing, Replicas

LEMMA PlanType ==
  ASSUME NEW task \in Task, NEW seen \in SUBSET Assignment, IsFiniteSet(seen)
  PROVE  Plan(task, seen) \in Task
<1> DEFINE alive == {x \in seen : x.node \in task.live}
           remove == (seen \ alive)
                       \cup UNION {Surplus(OfApp(alive, a), task.wanted[a]) : a \in Apps}
           add == [a \in Apps |-> Missing(OfApp(alive, a), task.wanted[a])]
<1>1. remove \in SUBSET Assignment
  BY DEF Surplus, FirstOf, OfApp
<1>2. IsFiniteSet(alive)
  <2>1. alive \in SUBSET seen
    OBVIOUS
  <2> QED
    BY <2>1, FS_Subset
<1>3. add \in [Apps -> Replicas]
  <2>1. \A a \in Apps : task.wanted[a] \in Replicas \cup {None}
    BY DEF Task
  <2>2. \A a \in Apps : IsFiniteSet(OfApp(alive, a))
    BY <1>2, OfAppFinite
  <2>3. \A a \in Apps : Missing(OfApp(alive, a), task.wanted[a]) \in Replicas
    BY <2>1, <2>2, MissingType
  <2> QED
    BY <2>3
<1>4. Plan(task, seen) = [task EXCEPT !.pc = "write", !.remove = remove, !.add = add]
  BY DEF Plan
<1> HIDE DEF remove, add
<1> QED
  BY <1>1, <1>3, <1>4 DEF Task, PC

LEMMA TypeInit == Init => TypeInv
<1> SUFFICES ASSUME Init PROVE TypeInv
  OBVIOUS
<1>1. election \in [Nodes -> Task]
  BY AtType DEF Init, PC
<1> QED
  BY <1>1, FS_EmptySet, BoundAssumption DEF Init, TypeInv, TypeOK, NoApps, Replicas

\* What a fault may still do to the counters.
LEMMA CountersType ==
  ASSUME TypeOK
  PROVE  /\ Fault => faults' \in 0 .. MaxFaults
         /\ crashes + faults < MaxFaults => crashes + 1 \in 0 .. MaxFaults
  BY BoundAssumption DEF TypeOK, Fault

LEMMA RequestType ==
  ASSUME TypeInv, NEW a \in Apps, Apply(a) \/ Delete(a) \/ ScaleRead(a) \/ ScaleWrite
  PROVE  TypeInv'
  BY CountersType, BoundAssumption
     DEF TypeInv, TypeOK, Apply, Delete, ScaleRead, ScaleWrite, Request

LEMMA LeaseType ==
  ASSUME TypeInv, Leases
  PROVE  TypeInv'
  BY CountersType DEF TypeInv, TypeOK, Leases, LeaderExpires, BeatExpires

LEMMA NodeType ==
  ASSUME TypeInv, NEW n \in Nodes, Heartbeat(n) \/ NodeCrashes(n) \/ NodeStarts(n)
  PROVE  TypeInv'
<1>1. At("elect") \in Task
  BY AtType DEF PC
<1> QED
  BY <1>1, CountersType
     DEF TypeInv, TypeOK, Heartbeat, NodeCrashes, NodeStarts, etcdVars, boundVars

LEMMA ElectionType ==
  ASSUME TypeInv, NEW n \in Nodes, Campaign(n) \/ StillAlive(n) \/ Written(n)
  PROVE  TypeInv'
<1>1. /\ At("nodes") \in Task /\ At("panicked") \in Task /\ At("elect") \in Task
      /\ At("check") \in Task
  BY AtType DEF PC
<1> QED
  BY <1>1, CountersType
     DEF TypeInv, TypeOK, Campaign, StillAlive, Written, etcdVars, boundVars

LEMMA ReadType ==
  ASSUME TypeInv, NEW n \in Nodes, ReadNodes(n) \/ ReadApps(n) \/ ReadAssignments(n)
  PROVE  TypeInv'
<1>1. election[n] \in Task
  BY DEF TypeInv, TypeOK
<1>2. faults' = faults \/ Fault
  BY DEF ReadNodes, ReadApps, ReadAssignments, Read
<1>3. CASE ReadNodes(n)
  <2>1. PICK live \in {beats, {}} :
          election' = [election EXCEPT ![n] =
            IF live = {} THEN At("check") ELSE [At("apps") EXCEPT !.live = live]]
    BY <1>3 DEF ReadNodes
  <2>2. At("check") \in Task /\ [At("apps") EXCEPT !.live = live] \in Task
    BY <2>1, AtType DEF TypeInv, TypeOK, Task, PC
  <2> QED
    BY <1>2, <1>3, <2>1, <2>2, CountersType DEF ReadNodes, TypeInv, TypeOK, etcdVars
<1>4. CASE ReadApps(n)
  <2>1. PICK wanted \in {apps, NoApps} :
          election' = [election EXCEPT ![n] =
            [election[n] EXCEPT !.pc = "assignments", !.wanted = wanted]]
    BY <1>4 DEF ReadApps
  <2>2. [election[n] EXCEPT !.pc = "assignments", !.wanted = wanted] \in Task
    BY <1>1, <2>1 DEF TypeInv, TypeOK, Task, PC, NoApps
  <2> QED
    BY <1>2, <1>4, <2>1, <2>2, CountersType DEF ReadApps, TypeInv, TypeOK, etcdVars
<1>5. CASE ReadAssignments(n)
  <2>1. PICK seen \in {assigned, {}} :
          election' = [election EXCEPT ![n] = Plan(election[n], seen)]
    BY <1>5 DEF ReadAssignments
  <2>2. seen \in SUBSET Assignment /\ IsFiniteSet(seen)
    BY <2>1, FS_EmptySet DEF TypeInv, TypeOK
  <2>3. Plan(election[n], seen) \in Task
    BY <1>1, <2>2, PlanType
  <2> QED
    BY <1>2, <1>5, <2>1, <2>3, CountersType
       DEF ReadAssignments, TypeInv, TypeOK, etcdVars
<1> QED
  BY <1>3, <1>4, <1>5

LEMMA RemoveType ==
  ASSUME TypeInv, NEW n \in Nodes, PurgeDead(n) \/ ScaleDown(n)
  PROVE  TypeInv'
<1>1. PICK x \in election[n].remove : Remove(n, x)
  BY DEF PurgeDead, ScaleDown, OfDeadNodes
<1>2. [election[n] EXCEPT !.remove = election[n].remove \ {x}] \in Task
  <2>1. election[n] \in Task
    BY DEF TypeInv, TypeOK
  <2> QED
    BY <2>1 DEF Task
<1>3. election' = [election EXCEPT ![n] =
                     [election[n] EXCEPT !.remove = election[n].remove \ {x}]]
  BY <1>1 DEF Remove
<1>4. election' \in [Nodes -> Task]
  BY <1>2, <1>3 DEF TypeInv, TypeOK
<1>5. IsFiniteSet(assigned') /\ assigned' \subseteq Assignment
  BY <1>1, FS_RemoveElement DEF Remove, TypeInv, TypeOK
<1> QED
  BY <1>1, <1>4, <1>5, CountersType DEF Remove, TypeInv, TypeOK

LEMMA ScaleUpType ==
  ASSUME TypeInv, NEW n \in Nodes, NEW a \in Apps, ScaleUp(n, a)
  PROVE  TypeInv'
<1>1. election[n] \in Task
  BY DEF TypeInv, TypeOK
<1>2. election[n].add[a] - 1 \in Replicas
  BY <1>1, BoundAssumption DEF ScaleUp, Task, Replicas
<1>3. [election[n] EXCEPT !.add[a] = election[n].add[a] - 1] \in Task
  BY <1>1, <1>2 DEF Task
<1>4. election' = [election EXCEPT ![n] =
                     [election[n] EXCEPT !.add[a] = election[n].add[a] - 1]]
  BY DEF ScaleUp
<1>5. election' \in [Nodes -> Task]
  BY <1>3, <1>4 DEF TypeInv, TypeOK
<1>6. election[n].live \subseteq Nodes
  BY <1>1 DEF Task
<1>7. IsFiniteSet(assigned') /\ assigned' \subseteq Assignment
  <2>1. IsFiniteSet(assigned) /\ assigned \subseteq Assignment
    BY DEF TypeInv, TypeOK
  <2>2. ASSUME NEW node \in election[n].live, NEW id \in Ids,
               assigned' = assigned \cup {[node |-> node, app |-> a, id |-> id]}
        PROVE  IsFiniteSet(assigned') /\ assigned' \subseteq Assignment
    <3>1. [node |-> node, app |-> a, id |-> id] \in Assignment
      BY <1>6, <2>2 DEF Assignment
    <3>2. IsFiniteSet(assigned \cup {[node |-> node, app |-> a, id |-> id]})
      BY <2>1, FS_AddElement
    <3> QED
      BY <2>1, <2>2, <3>1, <3>2
  <2> QED
    BY <2>1, <2>2 DEF ScaleUp
<1> QED
  BY <1>5, <1>7, CountersType DEF ScaleUp, TypeInv, TypeOK

LEMMA TypeStep == TypeInv /\ [Next]_vars => TypeInv'
<1> SUFFICES ASSUME TypeInv, [Next]_vars PROVE TypeInv'
  OBVIOUS
<1>1. CASE UNCHANGED vars
  BY <1>1 DEF vars, etcdVars, boundVars, TypeInv, TypeOK
<1>2. CASE ScaleWrite
  BY <1>2, CountersType DEF TypeInv, TypeOK, ScaleWrite
<1>3. CASE Leases
  BY <1>3, LeaseType
<1>4. ASSUME NEW a \in Apps, Apply(a) \/ Delete(a) \/ ScaleRead(a)
      PROVE  TypeInv'
  BY <1>4, RequestType
<1>5. ASSUME NEW n \in Nodes, Heartbeat(n) \/ NodeCrashes(n) \/ NodeStarts(n)
      PROVE  TypeInv'
  BY <1>5, NodeType
<1>6. ASSUME NEW n \in Nodes, Campaign(n) \/ StillAlive(n) \/ Written(n)
      PROVE  TypeInv'
  BY <1>6, ElectionType
<1>7. ASSUME NEW n \in Nodes, ReadNodes(n) \/ ReadApps(n) \/ ReadAssignments(n)
      PROVE  TypeInv'
  BY <1>7, ReadType
<1>8. ASSUME NEW n \in Nodes, PurgeDead(n) \/ ScaleDown(n)
      PROVE  TypeInv'
  BY <1>8, RemoveType
<1>9. ASSUME NEW n \in Nodes, NEW a \in Apps, ScaleUp(n, a)
      PROVE  TypeInv'
  BY <1>9, ScaleUpType
<1> QED
  BY <1>1, <1>2, <1>3, <1>4, <1>5, <1>6, <1>7, <1>8, <1>9 DEF Next, Elect, Reconcile

\* Every variable of the control plane keeps its type, for any number of nodes,
\* applications, requests and faults (backlet.rs:336-506).
THEOREM TypeCorrect == Spec => []TypeOK
<1>1. TypeInv => TypeOK
  BY DEF TypeInv
<1> QED
  BY TypeInit, TypeStep, <1>1, PTL DEF Spec

-----------------------------------------------------------------------------
(* While no request fails and no lease is lost, only the holder of the key  *)
(* leads.  Whatever its plan, the replicas that are there without those of  *)
(* dead nodes, which go first, and those it is to add are not too many.     *)
Kept(n, a) == {x \in OfApp(assigned, a) : x \notin OfDeadNodes(election[n])}

HolderInv == \A n \in Nodes : Leading(n) => holder = n

PlanInv ==
  \A n \in Nodes, a \in Apps : election[n].pc = "write" =>
    election[n].add[a] + Cardinality(Kept(n, a)) <= MaxReplicas

BoundInv == \A a \in Apps : Cardinality(OfApp(assigned, a)) <= MaxReplicas

QuietInv == faults = 0 => HolderInv /\ PlanInv /\ BoundInv

\* A step without a fault: there was none before it either.
LEMMA NoFault ==
  ASSUME TypeInv, [Next]_vars, faults' = 0
  PROVE  faults = 0 /\ ~Fault
<1>1. ~Fault
  BY DEF Fault, TypeInv, TypeOK
<1> QED
  BY <1>1 DEF TypeInv, TypeOK, Next, vars, boundVars, Apply, Delete, ScaleRead, ScaleWrite,
     Request, Heartbeat, NodeCrashes, NodeStarts, Elect, Campaign, StillAlive, Reconcile,
     ReadNodes, ReadApps, ReadAssignments, Read, PurgeDead, ScaleDown, Remove, ScaleUp,
     Written, Leases, LeaderExpires, BeatExpires

LEMMA HolderStep ==
  ASSUME TypeInv, HolderInv, [Next]_vars, ~Fault
  PROVE  HolderInv'
<1>1. CASE UNCHANGED <<holder, election>>
  BY <1>1 DEF HolderInv, Leading
<1>2. CASE LeaderExpires
  BY <1>2, NoneAssumption DEF LeaderExpires, HolderInv, Leading, TypeInv, TypeOK
<1>3. ASSUME NEW n \in Nodes, NodeCrashes(n)
      PROVE  HolderInv'
  BY <1>3 DEF NodeCrashes, HolderInv, Leading, TypeInv, TypeOK, At, etcdVars
<1>4. ASSUME NEW n \in Nodes, Campaign(n)
      PROVE  HolderInv'
  BY <1>4, NoneAssumption DEF Campaign, HolderInv, Leading, TypeInv, TypeOK, At
<1>5. ASSUME NEW n \in Nodes, StillAlive(n) \/ Reconcile(n)
      PROVE  HolderInv'
  <2>1. holder' = holder /\ Leading(n)
    BY <1>5 DEF StillAlive, Reconcile, ReadNodes, ReadApps, ReadAssignments, PurgeDead,
       ScaleDown, Remove, ScaleUp, Written, Leading, etcdVars
  <2>2. \A m \in Nodes \ {n} : election'[m] = election[m]
    BY <1>5 DEF StillAlive, Reconcile, ReadNodes, ReadApps, ReadAssignments, PurgeDead,
       ScaleDown, Remove, ScaleUp, Written, TypeInv, TypeOK
  <2> QED
    BY <2>1, <2>2 DEF HolderInv, Leading
<1> QED
  BY <1>1, <1>2, <1>3, <1>4, <1>5
     DEF Next, vars, etcdVars, Apply, Delete, ScaleRead, ScaleWrite, Request, Heartbeat,
         NodeStarts, Elect, Leases, BeatExpires

\* A smaller set of assignments is not larger.
LEMMA Smaller ==
  ASSUME NEW S, NEW T \in SUBSET S, IsFiniteSet(S)
  PROVE  /\ Cardinality(S) \in Nat /\ Cardinality(T) \in Nat
         /\ Cardinality(T) <= Cardinality(S)
  BY FS_Subset, FS_CardinalityType

LEMMA KeptFinite ==
  ASSUME TypeInv, NEW n \in Nodes, NEW a \in Apps
  PROVE  IsFiniteSet(Kept(n, a)) /\ Cardinality(Kept(n, a)) \in Nat
<1>1. Kept(n, a) \in SUBSET OfApp(assigned, a)
  BY DEF Kept
<1> QED
  BY <1>1, OfAppFinite, FS_Subset, FS_CardinalityType DEF TypeInv

LEMMA PlanFields ==
  ASSUME NEW task \in Task, NEW S, NEW a \in Apps
  PROVE  LET alive == {x \in S : x.node \in task.live}
         IN /\ Plan(task, S).add[a] = Missing(OfApp(alive, a), task.wanted[a])
            /\ Plan(task, S).live = task.live
            /\ S \ alive \subseteq Plan(task, S).remove
<1> DEFINE alive == {x \in S : x.node \in task.live}
           remove == (S \ alive)
                       \cup UNION {Surplus(OfApp(alive, b), task.wanted[b]) : b \in Apps}
           add == [b \in Apps |-> Missing(OfApp(alive, b), task.wanted[b])]
<1>1. Plan(task, S) = [task EXCEPT !.pc = "write", !.remove = remove, !.add = add]
  BY DEF Plan
<1>2. add[a] = Missing(OfApp(alive, a), task.wanted[a]) /\ S \ alive \subseteq remove
  OBVIOUS
<1> HIDE DEF remove, add
<1>3. /\ Plan(task, S).remove = remove /\ Plan(task, S).add = add
      /\ Plan(task, S).live = task.live
  BY <1>1 DEF Task
<1> QED
  BY <1>2, <1>3

\* A new plan, made of the assignments as they are.
LEMMA PlanIsBounded ==
  ASSUME TypeInv, BoundInv, NEW n \in Nodes, NEW a \in Apps,
         election' = [election EXCEPT ![n] = Plan(election[n], assigned)],
         assigned' = assigned
  PROVE  election'[n].add[a] + Cardinality(Kept(n, a)') <= MaxReplicas
<1> DEFINE alive == {x \in assigned : x.node \in election[n].live}
           seen == OfApp(alive, a)
           want == election[n].wanted[a]
<1>1. /\ election'[n] = Plan(election[n], assigned)
      /\ election[n] \in Task
  BY DEF TypeInv, TypeOK
<1>2. /\ election'[n].add[a] = Missing(seen, want)
      /\ election'[n].live = election[n].live
      /\ assigned \ alive \subseteq election'[n].remove
  <2>1. /\ Plan(election[n], assigned).add[a] = Missing(seen, want)
        /\ Plan(election[n], assigned).live = election[n].live
        /\ assigned \ alive \subseteq Plan(election[n], assigned).remove
    BY <1>1, PlanFields
  <2> HIDE DEF alive, seen, want
  <2> QED
    BY <1>1, <2>1
<1>3. Kept(n, a)' \in SUBSET seen
  BY <1>2 DEF Kept, OfDeadNodes, OfApp
<1>4. seen \in SUBSET OfApp(assigned, a) /\ IsFiniteSet(OfApp(assigned, a))
  BY OfAppFinite DEF OfApp, TypeInv
<1>5. IsFiniteSet(seen)
  BY <1>4, FS_Subset
<1>6. /\ Cardinality(seen) \in Nat /\ Cardinality(Kept(n, a)') \in Nat
      /\ Cardinality(Kept(n, a)') <= Cardinality(seen)
      /\ Cardinality(seen) <= MaxReplicas
  <2>1. Cardinality(OfApp(assigned, a)) <= MaxReplicas
    BY DEF BoundInv
  <2>2. /\ Cardinality(OfApp(assigned, a)) \in Nat
        /\ Cardinality(seen) <= Cardinality(OfApp(assigned, a))
    BY <1>4, Smaller
  <2> HIDE DEF seen
  <2> QED
    BY <1>3, <1>5, <2>1, <2>2, Smaller, BoundAssumption
<1>7. want \in Replicas \cup {None}
  BY <1>1 DEF Task
<1> HIDE DEF seen, want
<1> QED
  BY <1>2, <1>6, <1>7, BoundAssumption, NoneAssumption DEF Missing, Replicas

\* Nobody else is writing when a leader does.
LEMMA SoleWriter ==
  ASSUME HolderInv, NEW n \in Nodes, Leading(n), NEW m \in Nodes, election[m].pc = "write"
  PROVE  m = n
  BY DEF HolderInv, Leading

LEMMA RemoveBounded ==
  ASSUME TypeInv, HolderInv, PlanInv, BoundInv, NEW n \in Nodes, ~Fault,
         PurgeDead(n) \/ ScaleDown(n)
  PROVE  PlanInv' /\ BoundInv'
<1>1. PICK x \in election[n].remove : Remove(n, x)
  BY DEF PurgeDead, ScaleDown, OfDeadNodes
<1>2. /\ assigned' = assigned \ {x}
      /\ election' = [election EXCEPT ![n] =
                        [election[n] EXCEPT !.remove = election[n].remove \ {x}]]
      /\ election[n].pc = "write" /\ election[n] \in Task
  BY <1>1 DEF Remove, PurgeDead, ScaleDown, TypeInv, TypeOK
<1>3. /\ election'[n].add = election[n].add /\ election'[n].live = election[n].live
      /\ election'[n].remove = election[n].remove \ {x}
      /\ \A m \in Nodes \ {n} : election'[m] = election[m]
  BY <1>2 DEF Task, TypeInv, TypeOK
<1>4. ASSUME NEW a \in Apps
      PROVE  Cardinality(OfApp(assigned, a)') <= MaxReplicas
  <2>1. OfApp(assigned, a)' \in SUBSET OfApp(assigned, a)
    BY <1>2 DEF OfApp
  <2> QED
    BY <2>1, OfAppFinite, Smaller, BoundAssumption DEF BoundInv, TypeInv
<1>5. ASSUME NEW a \in Apps
      PROVE  election'[n].add[a] + Cardinality(Kept(n, a)') <= MaxReplicas
  <2>1. Kept(n, a)' \in SUBSET Kept(n, a)
    BY <1>2, <1>3 DEF Kept, OfApp, OfDeadNodes
  <2>2. /\ Cardinality(Kept(n, a)') \in Nat /\ Cardinality(Kept(n, a)) \in Nat
        /\ Cardinality(Kept(n, a)') <= Cardinality(Kept(n, a))
    BY <2>1, KeptFinite, Smaller
  <2>3. election[n].add[a] \in Nat
    BY <1>2, BoundAssumption DEF Task, Replicas
  <2>4. election[n].add[a] + Cardinality(Kept(n, a)) <= MaxReplicas
    BY <1>2 DEF PlanInv
  <2> QED
    BY <1>3, <2>2, <2>3, <2>4, BoundAssumption
<1>6. \A m \in Nodes : election'[m].pc = "write" => m = n
  BY <1>2, <1>3, SoleWriter DEF Leading
<1> QED
  BY <1>4, <1>5, <1>6 DEF PlanInv, BoundInv

LEMMA ScaleUpBounded ==
  ASSUME TypeInv, HolderInv, PlanInv, BoundInv, NEW n \in Nodes, NEW a \in Apps, ~Fault,
         ScaleUp(n, a)
  PROVE  PlanInv' /\ BoundInv'
<1>1. PICK x : x.app = a /\ assigned' = assigned \cup {x}
  BY DEF ScaleUp
<1>2. /\ election[n].pc = "write" /\ election[n] \in Task /\ OfDeadNodes(election[n]) = {}
      /\ election[n].add[a] > 0
      /\ election' = [election EXCEPT ![n] =
                        [election[n] EXCEPT !.add[a] = election[n].add[a] - 1]]
  BY DEF ScaleUp, TypeInv, TypeOK
<1>3. /\ election'[n].live = election[n].live
      /\ election'[n].remove = election[n].remove
      /\ election'[n].add[a] = election[n].add[a] - 1
      /\ \A b \in Apps \ {a} : election'[n].add[b] = election[n].add[b]
      /\ \A m \in Nodes \ {n} : election'[m] = election[m]
  BY <1>2 DEF Task, TypeInv, TypeOK
<1>4. \A b \in Apps : /\ election[n].add[b] \in Nat
                      /\ election[n].add[b] + Cardinality(Kept(n, b)) <= MaxReplicas
  BY <1>2, BoundAssumption DEF Task, Replicas, PlanInv
<1>5. \A b \in Apps : Kept(n, b) = OfApp(assigned, b) /\ Kept(n, b)' = OfApp(assigned, b)'
  BY <1>2, <1>3 DEF Kept, OfApp, OfDeadNodes
<1>6. \A b \in Apps \ {a} : OfApp(assigned, b)' = OfApp(assigned, b)
  BY <1>1 DEF OfApp
<1>7. /\ Cardinality(OfApp(assigned, a)') \in Nat
      /\ Cardinality(OfApp(assigned, a)') <= Cardinality(OfApp(assigned, a)) + 1
  <2>1. OfApp(assigned, a)' = OfApp(assigned, a) \cup {x}
    BY <1>1 DEF OfApp
  <2>2. IsFiniteSet(OfApp(assigned, a)) /\ Cardinality(OfApp(assigned, a)) \in Nat
    BY OfAppFinite DEF TypeInv
  <2>3. /\ IsFiniteSet(OfApp(assigned, a) \cup {x})
        /\ Cardinality(OfApp(assigned, a) \cup {x}) <= Cardinality(OfApp(assigned, a)) + 1
    BY <2>2, FS_AddElement
  <2>4. Cardinality(OfApp(assigned, a) \cup {x}) \in Nat
    BY <2>3, FS_CardinalityType
  <2> QED
    BY <2>1, <2>3, <2>4
<1>8. Cardinality(OfApp(assigned, a)) \in Nat
  BY OfAppFinite DEF TypeInv
<1>9. ASSUME NEW b \in Apps
      PROVE  /\ election'[n].add[b] + Cardinality(Kept(n, b)') <= MaxReplicas
             /\ Cardinality(OfApp(assigned, b)') <= MaxReplicas
  <2>1. CASE b = a
    BY <1>2, <1>3, <1>4, <1>5, <1>7, <1>8, <2>1, BoundAssumption
  <2>2. CASE b # a
    BY <1>3, <1>4, <1>5, <1>6, <2>2 DEF BoundInv
  <2> QED
    BY <2>1, <2>2
<1>10. \A m \in Nodes : election'[m].pc = "write" => m = n
  BY <1>2, <1>3, SoleWriter DEF Leading
<1> QED
  BY <1>9, <1>10 DEF PlanInv, BoundInv

\* No plan comes of these steps.
LEMMA NotWriting ==
  ASSUME TypeInv, ~Fault, NEW n \in Nodes,
         NodeCrashes(n) \/ Campaign(n) \/ StillAlive(n) \/ ReadNodes(n) \/ ReadApps(n)
         \/ Written(n)
  PROVE  \A m \in Nodes : election'[m] = election[m] \/ election'[m].pc # "write"
<1>1. election'[n].pc # "write"
  <2>1. election \in [Nodes -> Task] /\ election[n] \in Task
    BY DEF TypeInv, TypeOK
  <2>2. CASE NodeCrashes(n) \/ Campaign(n) \/ StillAlive(n) \/ Written(n)
    BY <2>1, <2>2 DEF NodeCrashes, Campaign, StillAlive, Written, At
  <2>3. CASE ReadNodes(n)
    BY <2>1, <2>3 DEF ReadNodes, At
  <2>4. CASE ReadApps(n)
    BY <2>1, <2>4 DEF ReadApps, Task
  <2> QED
    BY <2>2, <2>3, <2>4
<1>2. \A m \in Nodes \ {n} : election'[m] = election[m]
  BY DEF NodeCrashes, Campaign, StillAlive, ReadNodes, ReadApps, Written, TypeInv, TypeOK
<1> QED
  BY <1>1, <1>2

LEMMA QuietStep == TypeInv /\ QuietInv /\ [Next]_vars => QuietInv'
<1> SUFFICES ASSUME TypeInv, QuietInv, [Next]_vars, faults' = 0
             PROVE  HolderInv' /\ PlanInv' /\ BoundInv'
  BY DEF QuietInv
<1>1. ~Fault /\ HolderInv /\ PlanInv /\ BoundInv
  BY NoFault DEF QuietInv
<1>2. HolderInv'
  BY <1>1, HolderStep
<1>3. ASSUME assigned' = assigned,
             \A n \in Nodes : election'[n] = election[n] \/ election'[n].pc # "write"
      PROVE  PlanInv' /\ BoundInv'
  <2>1. \A n \in Nodes, a \in Apps :
          election'[n] = election[n] => Kept(n, a)' = Kept(n, a)
    BY <1>3 DEF Kept, OfApp, OfDeadNodes
  <2> QED
    BY <1>1, <1>3, <2>1 DEF PlanInv, BoundInv, OfApp
<1>4. ASSUME NEW n \in Nodes, PurgeDead(n) \/ ScaleDown(n)
      PROVE  PlanInv' /\ BoundInv'
  BY <1>1, <1>4, RemoveBounded
<1>5. ASSUME NEW n \in Nodes, NEW a \in Apps, ScaleUp(n, a)
      PROVE  PlanInv' /\ BoundInv'
  BY <1>1, <1>5, ScaleUpBounded
<1>6. ASSUME NEW n \in Nodes, ReadAssignments(n)
      PROVE  PlanInv' /\ BoundInv'
  <2>1. /\ election' = [election EXCEPT ![n] = Plan(election[n], assigned)]
        /\ assigned' = assigned
        /\ election[n].pc = "assignments"
    BY <1>1, <1>6 DEF ReadAssignments, Read, etcdVars
  <2>2. \A a \in Apps : election'[n].add[a] + Cardinality(Kept(n, a)') <= MaxReplicas
    BY <1>1, <2>1, PlanIsBounded
  <2>3. \A m \in Nodes \ {n} : election'[m] = election[m]
    BY <2>1 DEF TypeInv, TypeOK
  <2>4. \A m \in Nodes : election'[m].pc = "write" => m = n
    BY <1>1, <2>1, <2>3, SoleWriter DEF Leading
  <2> QED
    BY <1>1, <2>1, <2>2, <2>4 DEF PlanInv, BoundInv, OfApp
<1>7. ASSUME NEW n \in Nodes,
             NodeCrashes(n) \/ Campaign(n) \/ StillAlive(n) \/ ReadNodes(n) \/ ReadApps(n)
             \/ Written(n)
      PROVE  PlanInv' /\ BoundInv'
  <2>1. assigned' = assigned
    BY <1>7 DEF NodeCrashes, Campaign, StillAlive, ReadNodes, ReadApps, Written, etcdVars
  <2>2. \A m \in Nodes : election'[m] = election[m] \/ election'[m].pc # "write"
    BY <1>1, <1>7, NotWriting
  <2> QED
    BY <1>3, <2>1, <2>2
<1>8. CASE UNCHANGED <<assigned, election>>
  <2>1. /\ assigned' = assigned
        /\ \A n \in Nodes : election'[n] = election[n] \/ election'[n].pc # "write"
    BY <1>8
  <2> QED
    BY <1>2, <1>3, <2>1
<1>9. CASE Leases
  BY <1>8, <1>9 DEF Leases, LeaderExpires, BeatExpires
<1>10. PlanInv' /\ BoundInv'
  BY <1>4, <1>5, <1>6, <1>7, <1>8, <1>9
     DEF Next, vars, etcdVars, Apply, Delete, ScaleRead, ScaleWrite, Request, Heartbeat,
         NodeStarts, Elect, Reconcile
<1> QED
  BY <1>2, <1>10

LEMMA QuietInit == Init => QuietInv
<1> SUFFICES ASSUME Init PROVE HolderInv /\ PlanInv /\ BoundInv
  BY DEF QuietInv
<1>1. \A n \in Nodes : election[n].pc = "elect"
  BY DEF Init, At
<1>2. \A a \in Apps : OfApp(assigned, a) = {}
  BY DEF Init, OfApp
<1>3. HolderInv /\ PlanInv
  BY <1>1 DEF HolderInv, PlanInv, Leading
<1>4. BoundInv
  BY <1>2, FS_EmptySet, BoundAssumption DEF BoundInv
<1> QED
  BY <1>3, <1>4

\* While no request to etcd fails and no lease is lost, an application never has
\* more replicas on nodes with a heartbeat than may be asked for, whatever nodes
\* crash and whatever requests come in (backlet.rs:456-504).
THEOREM NeverTooManyReplicas == Spec => []NeverOverAssigned
<1>1. TypeInv /\ QuietInv => NeverOverAssigned
  <2> SUFFICES ASSUME TypeInv, QuietInv, faults = 0, NEW a \in Apps
               PROVE  Cardinality({x \in OfApp(assigned, a) : x.node \in beats})
                        <= MaxReplicas
    BY DEF NeverOverAssigned
  <2>1. {x \in OfApp(assigned, a) : x.node \in beats} \in SUBSET OfApp(assigned, a)
    OBVIOUS
  <2>2. IsFiniteSet(OfApp(assigned, a)) /\ Cardinality(OfApp(assigned, a)) <= MaxReplicas
    BY OfAppFinite DEF QuietInv, BoundInv, TypeInv
  <2> QED
    BY <2>1, <2>2, Smaller, BoundAssumption
<1> QED
  BY <1>1, QuietInit, TypeInit, TypeStep, QuietStep, PTL DEF Spec

-----------------------------------------------------------------------------
(* A plan takes away no more than what is in excess: the assignments of one *)
(* application are ordered, and FirstOf picks as many as it is asked for.   *)
(* The plan goes on being right while it is written, for nobody else writes *)
(* and what is written meanwhile only adds to what it leaves.               *)
Left(n, a) == OfApp(assigned, a) \ election[n].remove

\* The leader is about to take an assignment of a away from a node seen alive.
TakesAway(n, a) == \E x \in election[n].remove \ OfDeadNodes(election[n]) : x.app = a

LeftInv ==
  \A n \in Nodes, a \in Apps :
    /\ election[n].pc = "write"
    /\ election[n].wanted[a] # None
    /\ TakesAway(n, a)
    => Cardinality(Left(n, a)) >= election[n].wanted[a]

SafeInv == faults = 0 => LeftInv

\* Of two assignments of one application one comes first, and the order is strict.
LEMMA PrecedesOrder ==
  ASSUME NEW x \in Assignment, NEW y \in Assignment, NEW z \in Assignment,
         x.app = y.app
  PROVE  /\ ~Precedes(x, x)
         /\ Precedes(x, y) /\ Precedes(y, z) => Precedes(x, z)
         /\ x = y \/ Precedes(x, y) \/ Precedes(y, x)
<1>1. /\ x.node \in Nat /\ y.node \in Nat /\ z.node \in Nat
      /\ x.id \in Nat /\ y.id \in Nat /\ z.id \in Nat
  BY OrderAssumption DEF Assignment
<1>2. x.node = y.node /\ x.id = y.id => x = y
  BY DEF Assignment
<1> QED
  BY <1>1, <1>2 DEF Precedes

\* FirstOf picks at most as many as it is asked for.
LEMMA FirstOfSize ==
  ASSUME NEW S \in SUBSET Assignment, IsFiniteSet(S), NEW a, \A x \in S : x.app = a,
         NEW k \in Nat
  PROVE  Cardinality(FirstOf(S, k)) \in Nat /\ Cardinality(FirstOf(S, k)) <= k
<1> DEFINE Before(x) == {y \in S : Precedes(y, x)}
           First == FirstOf(S, k)
           rank == [x \in First |-> Cardinality(Before(x))]
<1>1. First \in SUBSET S
  BY DEF FirstOf
<1>2. \A x \in S : IsFiniteSet(Before(x)) /\ Cardinality(Before(x)) \in Nat
  <2> TAKE x \in S
  <2>1. Before(x) \in SUBSET S
    OBVIOUS
  <2> HIDE DEF Before
  <2> QED
    BY <2>1, FS_Subset, FS_CardinalityType
<1>3. \A x \in First : Cardinality(Before(x)) < k
  BY DEF FirstOf
<1>4. ASSUME NEW x \in S, NEW y \in S, Precedes(x, y)
      PROVE  Cardinality(Before(x)) # Cardinality(Before(y))
  <2>1. Before(x) \in SUBSET Before(y)
    BY <1>4, PrecedesOrder
  <2>2. x \in Before(y) /\ x \notin Before(x)
    BY <1>4, PrecedesOrder
  <2> HIDE DEF Before
  <2> QED
    BY <1>2, <2>1, <2>2, FS_Subset
<1>5. \A x, y \in First : x # y => rank[x] # rank[y]
  <2> TAKE x, y \in First
  <2> HAVE x # y
  <2>1. x \in S /\ y \in S /\ (Precedes(x, y) \/ Precedes(y, x))
    BY <1>1, PrecedesOrder
  <2>2. Cardinality(Before(x)) # Cardinality(Before(y))
    BY <1>4, <2>1
  <2> HIDE DEF Before, First
  <2> QED
    BY <2>2
<1>6. rank \in [First -> 0 .. (k - 1)]
  <2> HIDE DEF Before, First
  <2>1. \A x \in First : Cardinality(Before(x)) \in 0 .. (k - 1)
    BY <1>1, <1>2, <1>3
  <2> QED
    BY <2>1
<1>7. IsFiniteSet(0 .. (k - 1)) /\ Cardinality(0 .. (k - 1)) = k
  BY FS_Interval
<1>8. IsFiniteSet(First) /\ Cardinality(First) \in Nat
  BY <1>1, FS_Subset, FS_CardinalityType
<1> HIDE DEF First, rank
<1>9. Cardinality(First) <= k
  BY <1>5, <1>6, <1>7, <1>8, FS_PigeonHole
<1> QED
  BY <1>8, <1>9 DEF First

\* What is in excess leaves as many as are wanted, if there is anything in excess.
LEMMA SurplusLeaves ==
  ASSUME NEW S \in SUBSET Assignment, IsFiniteSet(S), NEW a, \A x \in S : x.app = a,
         NEW want \in Nat, want # None, Surplus(S, want) # {}
  PROVE  /\ Cardinality(S \ Surplus(S, want)) \in Nat
         /\ Cardinality(S \ Surplus(S, want)) >= want
<1>1. Cardinality(S) \in Nat
  BY FS_CardinalityType
<1>2. Cardinality(S) > want
  BY DEF Surplus
<1> DEFINE k == Cardinality(S) - want
           First == FirstOf(S, k)
<1>3. Surplus(S, want) = First
  BY <1>2 DEF Surplus
<1>4. k \in Nat
  BY <1>1, <1>2
<1>5. Cardinality(First) \in Nat /\ Cardinality(First) <= k
  BY <1>4, FirstOfSize
<1>6. First \in SUBSET S
  BY DEF FirstOf
<1> HIDE DEF First
<1>7. S \cap First = First
  BY <1>6
<1>8. /\ IsFiniteSet(S \ First)
      /\ Cardinality(S \ First) = Cardinality(S) - Cardinality(First)
  BY <1>7, FS_Difference
<1> QED
  BY <1>1, <1>3, <1>5, <1>8

LEMMA LeftFinite ==
  ASSUME TypeInv, NEW n \in Nodes, NEW a \in Apps
  PROVE  IsFiniteSet(Left(n, a)) /\ Cardinality(Left(n, a)) \in Nat
<1>1. Left(n, a) \in SUBSET OfApp(assigned, a)
  BY DEF Left
<1> QED
  BY <1>1, OfAppFinite, FS_Subset, FS_CardinalityType DEF TypeInv

\* What a plan takes away of an application, on a node seen alive.
LEMMA PlanRemoves ==
  ASSUME NEW task \in Task, NEW S, NEW a \in Apps, NEW x \in S, x.app = a,
         x.node \in task.live
  PROVE  LET alive == {y \in S : y.node \in task.live}
         IN x \in Plan(task, S).remove
              <=> x \in Surplus(OfApp(alive, a), task.wanted[a])
<1> DEFINE alive == {y \in S : y.node \in task.live}
           remove == (S \ alive)
                       \cup UNION {Surplus(OfApp(alive, b), task.wanted[b]) : b \in Apps}
           add == [b \in Apps |-> Missing(OfApp(alive, b), task.wanted[b])]
<1>1. Plan(task, S) = [task EXCEPT !.pc = "write", !.remove = remove, !.add = add]
  BY DEF Plan
<1>2. \A b \in Apps : \A y \in Surplus(OfApp(alive, b), task.wanted[b]) : y.app = b
  BY DEF Surplus, FirstOf, OfApp
<1>3. x \in remove <=> x \in Surplus(OfApp(alive, a), task.wanted[a])
  <2>1. x \notin S \ alive
    OBVIOUS
  <2> HIDE DEF alive
  <2> QED
    BY <1>2, <2>1
<1> HIDE DEF remove, add
<1>4. Plan(task, S).remove = remove
  BY <1>1 DEF Task
<1> QED
  BY <1>3, <1>4

\* A new plan leaves as many as it has read to be wanted.
LEMMA PlanLeaves ==
  ASSUME TypeInv, NEW n \in Nodes, NEW a \in Apps,
         election' = [election EXCEPT ![n] = Plan(election[n], assigned)],
         assigned' = assigned,
         election'[n].wanted[a] # None, TakesAway(n, a)'
  PROVE  Cardinality(Left(n, a)') >= election'[n].wanted[a]
<1> DEFINE task == election[n]
           alive == {x \in assigned : x.node \in task.live}
           seen == OfApp(alive, a)
           want == task.wanted[a]
           over == Surplus(seen, want)
<1>1. /\ election'[n] = Plan(task, assigned)
      /\ task \in Task
  BY DEF TypeInv, TypeOK
<1>2. /\ election'[n].live = task.live /\ election'[n].wanted = task.wanted
      /\ election'[n].remove \subseteq assigned
  <2>1. /\ Plan(task, assigned).live = task.live
        /\ Plan(task, assigned).wanted = task.wanted
    BY <1>1 DEF Plan, Task
  <2>2. Plan(task, assigned).remove \subseteq assigned
    BY <1>1 DEF Plan, Task, Surplus, FirstOf, OfApp
  <2> HIDE DEF task
  <2> QED
    BY <1>1, <2>1, <2>2
<1>3. want \in Nat /\ want # None
  BY <1>1, <1>2, BoundAssumption DEF Task, Replicas
<1>4. /\ seen \in SUBSET Assignment /\ IsFiniteSet(seen)
      /\ \A x \in seen : x.app = a
  <2>1. seen \in SUBSET assigned
    BY DEF OfApp
  <2> QED
    BY <2>1, FS_Subset DEF TypeInv, TypeOK, OfApp
<1>5. \A x \in seen : x \in election'[n].remove <=> x \in over
  <2> TAKE x \in seen
  <2>1. x \in assigned /\ x.app = a /\ x.node \in task.live
    BY DEF OfApp
  <2>2. x \in Plan(task, assigned).remove <=> x \in over
    BY <1>1, <2>1, PlanRemoves
  <2> HIDE DEF task, over
  <2> QED
    BY <1>1, <2>2
<1>6. over # {}
  <2>1. PICK x \in election'[n].remove :
          x \notin OfDeadNodes(election'[n]) /\ x.app = a
    BY DEF TakesAway
  <2>2. x \in seen
    BY <1>2, <2>1 DEF OfDeadNodes, OfApp
  <2> QED
    BY <1>5, <2>1, <2>2
<1>7. Cardinality(seen \ over) \in Nat /\ Cardinality(seen \ over) >= want
  <2> HIDE DEF seen, want
  <2> QED
    BY <1>3, <1>4, <1>6, SurplusLeaves
<1>8. seen \ over \in SUBSET Left(n, a)'
  <2>1. seen \in SUBSET OfApp(assigned, a)
    BY DEF OfApp
  <2> HIDE DEF seen, over
  <2> QED
    BY <1>5, <2>1 DEF Left, OfApp
<1>9. IsFiniteSet(Left(n, a)')
  <2>1. Left(n, a)' \in SUBSET assigned
    BY DEF Left, OfApp
  <2> QED
    BY <2>1, FS_Subset DEF TypeInv
<1>10. /\ Cardinality(Left(n, a)') \in Nat
       /\ Cardinality(seen \ over) <= Cardinality(Left(n, a)')
  <2> HIDE DEF seen, over
  <2> QED
    BY <1>8, <1>9, Smaller
<1>11. election'[n].wanted[a] = want
  BY <1>2
<1> HIDE DEF seen, over, want
<1> QED
  BY <1>3, <1>7, <1>10, <1>11

\* The leader writes: what it has not planned to remove stays.
LEMMA WriteLeaves ==
  ASSUME TypeInv, HolderInv, LeftInv, NEW n \in Nodes, ~Fault,
         PurgeDead(n) \/ ScaleDown(n) \/ \E a \in Apps : ScaleUp(n, a)
  PROVE  LeftInv'
<1>1. election[n].pc = "write" /\ election[n] \in Task
  BY DEF PurgeDead, ScaleDown, ScaleUp, TypeInv, TypeOK
<1> DEFINE Leaves ==
         /\ election'[n].pc = election[n].pc /\ election'[n].wanted = election[n].wanted
         /\ election'[n].live = election[n].live
         /\ election'[n].remove \subseteq election[n].remove
         /\ \A m \in Nodes \ {n} : election'[m] = election[m]
         /\ assigned \ election[n].remove \subseteq assigned' \ election'[n].remove
<1>2. Leaves
  <2>1. CASE PurgeDead(n) \/ ScaleDown(n)
    <3>1. PICK x \in election[n].remove : Remove(n, x)
      BY <2>1 DEF PurgeDead, ScaleDown, OfDeadNodes
    <3>2. /\ assigned' = assigned \ {x}
          /\ election' = [election EXCEPT ![n] =
                            [election[n] EXCEPT !.remove = election[n].remove \ {x}]]
      BY <3>1 DEF Remove
    <3> QED
      BY <1>1, <3>2 DEF Task, TypeInv, TypeOK
  <2>2. ASSUME NEW a \in Apps, ScaleUp(n, a)
        PROVE  Leaves
    <3>1. /\ assigned \subseteq assigned'
          /\ election' = [election EXCEPT ![n] =
                            [election[n] EXCEPT !.add[a] = election[n].add[a] - 1]]
      BY <2>2 DEF ScaleUp
    <3> QED
      BY <1>1, <3>1 DEF Task, TypeInv, TypeOK
  <2> QED
    BY <2>1, <2>2
<1>3. ASSUME NEW a \in Apps, election'[n].wanted[a] # None, TakesAway(n, a)'
      PROVE  Cardinality(Left(n, a)') >= election'[n].wanted[a]
  <2>1. TakesAway(n, a)
    BY <1>2, <1>3 DEF TakesAway, OfDeadNodes
  <2>2. Cardinality(Left(n, a)) >= election[n].wanted[a]
    BY <1>1, <1>2, <1>3, <2>1 DEF LeftInv
  <2>3. Left(n, a) \in SUBSET Left(n, a)'
    BY <1>2 DEF Left, OfApp
  <2>4. TypeInv'
    BY TypeStep DEF Next, Elect, Reconcile
  <2>5. IsFiniteSet(Left(n, a)')
    <3>1. Left(n, a)' \in SUBSET assigned'
      BY DEF Left, OfApp
    <3> QED
      BY <2>4, <3>1, FS_Subset DEF TypeInv
  <2>6. /\ Cardinality(Left(n, a)) \in Nat /\ Cardinality(Left(n, a)') \in Nat
        /\ Cardinality(Left(n, a)) <= Cardinality(Left(n, a)')
    BY <2>3, <2>5, Smaller
  <2>7. election[n].wanted[a] \in Nat
    BY <1>1, <1>2, <1>3, BoundAssumption DEF Task, Replicas
  <2> QED
    BY <1>2, <2>2, <2>6, <2>7
<1>4. \A m \in Nodes : election'[m].pc = "write" => m = n
  BY <1>1, <1>2, SoleWriter DEF Leading
<1> QED
  BY <1>3, <1>4 DEF LeftInv

LEMMA SafeStep == TypeInv /\ QuietInv /\ SafeInv /\ [Next]_vars => SafeInv'
<1> SUFFICES ASSUME TypeInv, QuietInv, SafeInv, [Next]_vars, faults' = 0
             PROVE  LeftInv'
  BY DEF SafeInv
<1>1. ~Fault /\ HolderInv /\ LeftInv
  BY NoFault DEF QuietInv, SafeInv
<1>2. ASSUME assigned' = assigned,
             \A n \in Nodes : election'[n] = election[n] \/ election'[n].pc # "write"
      PROVE  LeftInv'
  BY <1>1, <1>2 DEF LeftInv, Left, TakesAway, OfApp, OfDeadNodes
<1>3. ASSUME NEW n \in Nodes,
             PurgeDead(n) \/ ScaleDown(n) \/ \E a \in Apps : ScaleUp(n, a)
      PROVE  LeftInv'
  BY <1>1, <1>3, WriteLeaves
<1>4. ASSUME NEW n \in Nodes, ReadAssignments(n)
      PROVE  LeftInv'
  <2>1. /\ election' = [election EXCEPT ![n] = Plan(election[n], assigned)]
        /\ assigned' = assigned
        /\ election[n].pc = "assignments"
    BY <1>1, <1>4 DEF ReadAssignments, Read, etcdVars
  <2>2. \A m \in Nodes \ {n} : election'[m] = election[m]
    BY <2>1 DEF TypeInv, TypeOK
  <2>3. \A m \in Nodes : election'[m].pc = "write" => m = n
    BY <1>1, <2>1, <2>2, SoleWriter DEF Leading
  <2> QED
    BY <2>1, <2>3, PlanLeaves DEF LeftInv
<1>5. ASSUME NEW n \in Nodes,
             NodeCrashes(n) \/ Campaign(n) \/ StillAlive(n) \/ ReadNodes(n) \/ ReadApps(n)
             \/ Written(n)
      PROVE  LeftInv'
  <2>1. assigned' = assigned
    BY <1>5 DEF NodeCrashes, Campaign, StillAlive, ReadNodes, ReadApps, Written, etcdVars
  <2>2. \A m \in Nodes : election'[m] = election[m] \/ election'[m].pc # "write"
    BY <1>1, <1>5, NotWriting
  <2> QED
    BY <1>2, <2>1, <2>2
<1>6. CASE UNCHANGED <<assigned, election>>
  <2>1. /\ assigned' = assigned
        /\ \A n \in Nodes : election'[n] = election[n] \/ election'[n].pc # "write"
    BY <1>6
  <2> QED
    BY <1>2, <2>1
<1> QED
  BY <1>3, <1>4, <1>5, <1>6
     DEF Next, vars, etcdVars, Apply, Delete, ScaleRead, ScaleWrite, Request, Heartbeat,
         NodeStarts, Elect, Reconcile, Leases, LeaderExpires, BeatExpires

\* While no request fails and no lease is lost, a leader that takes a replica away
\* from a node it has seen alive leaves as many as it has read to be wanted, whatever
\* crashes and requests happened since it made its plan (backlet.rs:487-503).
THEOREM ScaleDownLeavesEnough == Spec => KeepsWhatIsWanted
<1>1. Init => QuietInv /\ SafeInv
  <2> SUFFICES ASSUME Init PROVE QuietInv /\ LeftInv
    BY DEF SafeInv
  <2>1. \A n \in Nodes : election[n].pc = "elect"
    BY DEF Init, At
  <2> QED
    BY <2>1, QuietInit DEF LeftInv
<1>2. ASSUME TypeInv, SafeInv, NEW n \in Nodes, NEW a \in Apps, faults = 0,
             ScaleDown(n), election[n].wanted[a] # None,
             OfApp(assigned', a) # OfApp(assigned, a)
      PROVE  Cardinality(OfApp(assigned', a)) >= election[n].wanted[a]
  <2>1. PICK x \in election[n].remove : Remove(n, x)
    BY <1>2 DEF ScaleDown
  <2>2. assigned' = assigned \ {x} /\ x.app = a
    BY <1>2, <2>1 DEF Remove, OfApp
  <2>3. election[n].pc = "write" /\ TakesAway(n, a)
    BY <1>2, <2>1, <2>2 DEF ScaleDown, TakesAway
  <2>4. Cardinality(Left(n, a)) >= election[n].wanted[a]
    BY <1>2, <2>3 DEF SafeInv, LeftInv
  <2>5. Left(n, a) \in SUBSET OfApp(assigned', a)
    BY <2>1, <2>2 DEF Left, OfApp
  <2>6. IsFiniteSet(OfApp(assigned', a))
    <3>1. OfApp(assigned', a) \in SUBSET assigned
      BY <2>2 DEF OfApp
    <3> QED
      BY <1>2, <3>1, FS_Subset DEF TypeInv
  <2>7. /\ Cardinality(Left(n, a)) \in Nat /\ Cardinality(OfApp(assigned', a)) \in Nat
        /\ Cardinality(Left(n, a)) <= Cardinality(OfApp(assigned', a))
    BY <2>5, <2>6, Smaller
  <2>8. election[n].wanted[a] \in Nat
    BY <1>2, BoundAssumption DEF TypeInv, TypeOK, Task, Replicas
  <2> QED
    BY <2>4, <2>7, <2>8
<1> DEFINE Keeps ==
  \A n \in Nodes, a \in Apps :
    /\ faults = 0
    /\ ScaleDown(n)
    /\ election[n].wanted[a] # None
    /\ OfApp(assigned', a) # OfApp(assigned, a)
    => Cardinality(OfApp(assigned', a)) >= election[n].wanted[a]
<1>3. TypeInv /\ SafeInv /\ [Next]_vars => [Keeps]_vars
  BY <1>2
<1>4. Spec => [][Keeps]_vars
  <2> HIDE DEF Keeps
  <2> QED
    BY <1>1, <1>3, TypeInit, TypeStep, QuietStep, SafeStep, PTL DEF Spec
<1> QED
  BY <1>4 DEF KeepsWhatIsWanted
=============================================================================
