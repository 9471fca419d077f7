------------------------- MODULE StagedUpdate_proofs -------------------------
(***************************************************************************)
(* One call at a time, Rollout implements StagedUpdate, for any pools,     *)
(* versions, options and operations.  What an abstract step needs beyond   *)
(* the inductive invariant StayInv is the shape of the plans (who is put   *)
(* before whom) and the bookkeeping of a prune.                            *)
(***************************************************************************)
EXTENDS Rollout_proofs

\* What the first steps of a plan have put.
Behind(op, v, i) ==
  {Plan(op, v)[j].key : j \in {n \in 1 .. (i - 1) : Plan(op, v)[n].do = "put"}}

LEMMA StepKinds ==
  /\ \A k : Put(k).do = "put" /\ Put(k).key = k
  /\ Gate.do = "gate" /\ Prune.do = "prune"
BY DEF Put, Gate, Prune

\* The worker objects a state asks for are those its pool list names.
LEMMA WorkerKeyFacts ==
  ASSUME NEW v \in Variables
  PROVE  /\ \A i \in 1 .. Len(Workers(v)) : Workers(v)[i] \in WorkerKeys
         /\ \A k \in WantedKeys(v) \cap WorkerKeys : \E i \in 1 .. Len(Workers(v)) : Workers(v)[i] = k
         /\ WantedKeys(v) \ WorkerKeys =
              {PrincipalSecret, Cluster, ClusterIdentity, OCIManagedCluster, ControlPlane(v.display)}
<1> DEFINE n == Len(v.pools)
<1>1. /\ Workers(v) \in Seq(WantedKeys(v)) /\ Len(Workers(v)) = 2 * n /\ n \in Nat
      /\ \A i \in 1 .. n : /\ Workers(v)[i] = MachinePool(v.pools[i].name)
                           /\ Workers(v)[n + i] = OCIMachinePool(v.pools[i].name)
  BY WorkersType
<1>2. DOMAIN v.pools = 1 .. n /\ \A i \in 1 .. n : v.pools[i].name \in Pools
  <2>1. v.pools \in Seq(NodePool)
    BY DEF Variables
  <2>2. DOMAIN v.pools = 1 .. n /\ \A i \in 1 .. n : v.pools[i] \in NodePool
    BY <2>1
  <2> QED BY <2>2 DEF NodePool
<1>3. ASSUME NEW i \in 1 .. Len(Workers(v))
      PROVE  Workers(v)[i] \in WorkerKeys
  <2>1. CASE i <= n
    <3>1. i \in 1 .. n
      BY <1>1, <2>1
    <3> QED BY <1>1, <1>2, <3>1, WorkerKeysAreKeys
  <2>2. CASE ~(i <= n)
    <3>1. i - n \in 1 .. n /\ i = n + (i - n)
      BY <1>1, <2>2
    <3> QED BY <1>1, <1>2, <3>1, WorkerKeysAreKeys
  <2> QED BY <2>1, <2>2
<1>4. \A p : /\ MachinePool(p) \notin {PrincipalSecret, Cluster, ClusterIdentity, OCIManagedCluster,
                                       ControlPlane(v.display)}
             /\ OCIMachinePool(p) \notin {PrincipalSecret, Cluster, ClusterIdentity,
                                          OCIManagedCluster, ControlPlane(v.display)}
  BY DEF MachinePool, OCIMachinePool, PrincipalSecret, Cluster, ClusterIdentity,
         OCIManagedCluster, ControlPlane
<1>5. \A k \in WorkerKeys : \E p \in Pools : k = MachinePool(p) \/ k = OCIMachinePool(p)
  BY DEF WorkerKeys
<1>6. \A p \in WantedPools(v) : /\ MachinePool(p) \in WorkerKeys /\ OCIMachinePool(p) \in WorkerKeys
                                /\ \E i \in 1 .. n : v.pools[i].name = p
  BY <1>2, WorkerKeysAreKeys DEF WantedPools
<1>7. ASSUME NEW k \in WantedKeys(v) \cap WorkerKeys
      PROVE  \E i \in 1 .. Len(Workers(v)) : Workers(v)[i] = k
  <2>1. PICK p \in WantedPools(v) : k = MachinePool(p) \/ k = OCIMachinePool(p)
    BY <1>4, <1>5 DEF WantedKeys
  <2>2. PICK i \in 1 .. n : v.pools[i].name = p
    BY <1>6
  <2>3. i \in 1 .. Len(Workers(v)) /\ n + i \in 1 .. Len(Workers(v))
    BY <1>1
  <2> QED BY <1>1, <2>1, <2>2, <2>3
<1>8. WantedKeys(v) \ WorkerKeys =
        {PrincipalSecret, Cluster, ClusterIdentity, OCIManagedCluster, ControlPlane(v.display)}
  BY <1>4, <1>5, <1>6 DEF WantedKeys
<1> QED BY <1>3, <1>7, <1>8

\* The kinds of a cluster's own objects all differ.
LEMMA BaseKeys ==
  ASSUME NEW d
  PROVE  /\ PrincipalSecret # ControlPlane(d)
         /\ \A i \in 1 .. 3 : CapiObjects[i] # PrincipalSecret /\ CapiObjects[i] # ControlPlane(d)
<1>1. CapiObjects[1] = Cluster /\ CapiObjects[2] = ClusterIdentity /\ CapiObjects[3] = OCIManagedCluster
  BY DEF CapiObjects
<1>2. \A i \in 1 .. 3 : i = 1 \/ i = 2 \/ i = 3
  OBVIOUS
<1> QED BY <1>1, <1>2 DEF PrincipalSecret, ControlPlane, Cluster, ClusterIdentity, OCIManagedCluster

\* The objects a state asks for, as the plans list them.
LEMMA WantedSplit ==
  ASSUME NEW v \in Variables
  PROVE  /\ \A i \in 1 .. 3 : CapiObjects[i] \notin WorkerKeys
         /\ \A k \in WantedKeys(v) :
              \/ k \in WorkerKeys \/ k \in {PrincipalSecret, ControlPlane(v.display)}
              \/ \E i \in 1 .. 3 : k = CapiObjects[i]
<1>1. CapiObjects[1] = Cluster /\ CapiObjects[2] = ClusterIdentity /\ CapiObjects[3] = OCIManagedCluster
  BY DEF CapiObjects
<1>2. 1 \in 1 .. 3 /\ 2 \in 1 .. 3 /\ 3 \in 1 .. 3 /\ \A i \in 1 .. 3 : i = 1 \/ i = 2 \/ i = 3
  OBVIOUS
<1> HIDE DEF CapiObjects
<1>3. WantedKeys(v) \ WorkerKeys =
        {PrincipalSecret, Cluster, ClusterIdentity, OCIManagedCluster, ControlPlane(v.display)}
  BY WorkerKeyFacts
<1>4. {Cluster, ClusterIdentity, OCIManagedCluster} \cap WorkerKeys = {}
  BY <1>3
<1>5. \A i \in 1 .. 3 : CapiObjects[i] \notin WorkerKeys
  BY <1>1, <1>2, <1>4
<1>6. ASSUME NEW k \in WantedKeys(v), k \notin WorkerKeys
      PROVE  k \in {PrincipalSecret, ControlPlane(v.display)} \/ \E i \in 1 .. 3 : k = CapiObjects[i]
  BY <1>1, <1>2, <1>3, <1>6
<1> QED BY <1>5, <1>6

-----------------------------------------------------------------------------
(* The order of the plans.                                                 *)

\* What a plan has put at step j is behind every later step.
LEMMA InBehind ==
  ASSUME NEW op, NEW v, NEW i \in Nat, NEW j \in 1 .. (i - 1), NEW k, Plan(op, v)[j] = Put(k)
  PROVE  k \in Behind(op, v, i)
BY StepKinds DEF Behind

\* In UpdateCluster an object is put after the objects that Before names, the
\* prune comes last and after everything, and a gate is never the last step.
LEMMA UpdateOrder ==
  ASSUME NEW op, NEW v \in Variables, Prunes([op |-> op, v |-> v]),
         NEW i \in 1 .. Len(Plan(op, v))
  PROVE  LET s == Plan(op, v)[i] IN
         /\ s.do = "put" => /\ Before([op |-> op, v |-> v], s.key) \subseteq Behind(op, v, i)
                            /\ i # Len(Plan(op, v))
         /\ s.do = "gate" => i # Len(Plan(op, v))
         /\ s.do = "prune" => i = Len(Plan(op, v)) /\ WantedKeys(v) \subseteq Behind(op, v, i)
<1> DEFINE g == [op |-> op, v |-> v]
           plan == Plan(op, v)
           n == Len(Workers(v))
           base == {PrincipalSecret, ControlPlane(v.display)}
<1>1. plan = UpdateCluster(v)
  BY DEF Plan, Prunes
<1>2. /\ Len(plan) = n + 9 /\ n \in Nat
      /\ plan[1] = Put(PrincipalSecret) /\ plan[2] = Put(ControlPlane(v.display))
      /\ plan[3] = Gate
      /\ \A j \in 1 .. n : plan[3 + j] = Put(Workers(v)[j])
      /\ plan[n + 4] = Gate
      /\ \A j \in 1 .. 3 : plan[n + 4 + j] = Put(CapiObjects[j])
      /\ plan[n + 8] = Gate /\ plan[n + 9] = Prune
  BY <1>1, UpdateClusterSteps, Zenon
<1>3. /\ Before(g, PrincipalSecret) = {}
      /\ \A k \in WorkerKeys : Before(g, k) \subseteq base
      /\ \A k : Before(g, k) \subseteq base \cup (WantedKeys(v) \cap WorkerKeys)
  BY DEF Before, Asked
<1>4. Before(g, ControlPlane(v.display)) \subseteq {PrincipalSecret}
  <2>1. ControlPlane(v.display) # PrincipalSecret /\ ControlPlane(v.display) \notin WorkerKeys
    BY WorkerKeyFacts, BaseKeys
  <2> QED BY <2>1 DEF Before
<1> HIDE DEF plan, n, g
<1>0. n \in Nat
  BY <1>2
<1>5. i > 1 => PrincipalSecret \in Behind(op, v, i)
  BY <1>2, InBehind DEF plan
<1>6. i > 2 => base \subseteq Behind(op, v, i)
  BY <1>2, <1>5, InBehind DEF plan
<1>7. ASSUME i > n + 3
      PROVE  WantedKeys(v) \cap WorkerKeys \subseteq Behind(op, v, i)
  <2> SUFFICES ASSUME NEW k \in WantedKeys(v) \cap WorkerKeys PROVE k \in Behind(op, v, i)
    OBVIOUS
  <2>1. PICK j \in 1 .. n : Workers(v)[j] = k
    BY WorkerKeyFacts DEF n
  <2>2. 3 + j \in 1 .. (i - 1) /\ i \in Nat
    BY <1>2, <1>7
  <2>3. plan[3 + j] = Put(k)
    BY <1>2, <2>1
  <2> QED BY <2>2, <2>3, InBehind DEF plan
<1>8. CASE i = 1
  BY <1>2, <1>3, <1>8, StepKinds DEF plan, g
<1>9. CASE i = 2
  BY <1>2, <1>4, <1>5, <1>9, StepKinds DEF plan, g
<1>10. CASE i \in {3, n + 4, n + 8}
  BY <1>2, <1>10, StepKinds DEF plan
<1>11. CASE i \in 4 .. n + 3
  <2>1. i - 3 \in 1 .. n /\ 3 + (i - 3) = i
    BY <1>0, <1>11
  <2>2. plan[i] = Put(Workers(v)[i - 3]) /\ Workers(v)[i - 3] \in WorkerKeys
    BY <1>2, <2>1, WorkerKeyFacts DEF n
  <2>3. Before(g, Workers(v)[i - 3]) \subseteq Behind(op, v, i)
    BY <1>3, <1>6, <1>11, <2>2
  <2>4. i # Len(plan)
    BY <1>2, <1>11
  <2> QED BY <2>2, <2>3, <2>4, StepKinds DEF plan, g
<1>12. CASE i \in n + 5 .. n + 7
  <2>1. i - (n + 4) \in 1 .. 3 /\ n + 4 + (i - (n + 4)) = i /\ i # Len(plan) /\ i > n + 3 /\ i > 2
    BY <1>2, <1>12
  <2>2. plan[i] = Put(CapiObjects[i - (n + 4)])
    BY <1>2, <2>1
  <2>3. Before(g, CapiObjects[i - (n + 4)]) \subseteq Behind(op, v, i)
    BY <1>3, <1>6, <1>7, <2>1
  <2> QED BY <2>1, <2>2, <2>3, StepKinds DEF plan, g
<1>13. CASE i = n + 9
  <2>1. i > n + 3 /\ i > 2 /\ i = Len(plan)
    BY <1>2, <1>13
  <2>2. ASSUME NEW j \in 1 .. 3 PROVE CapiObjects[j] \in Behind(op, v, i)
    <3>1. n + 4 + j \in 1 .. (i - 1) /\ i \in Nat
      BY <1>2, <1>13
    <3> QED BY <1>2, <3>1, InBehind DEF plan
  <2>3. WantedKeys(v) \subseteq Behind(op, v, i)
    BY <1>6, <1>7, <2>1, <2>2, WantedSplit
  <2> QED BY <1>2, <1>13, <2>1, <2>3, StepKinds DEF plan
<1> QED BY <1>2, <1>8, <1>9, <1>10, <1>11, <1>12, <1>13 DEF plan

\* The same for CreateOrUpdateAllObjects, which has puts only.
LEMMA CreateOrder ==
  ASSUME NEW op, NEW v \in Variables, ~Prunes([op |-> op, v |-> v]),
         NEW i \in 1 .. Len(Plan(op, v))
  PROVE  LET s == Plan(op, v)[i] IN
         /\ s.do = "put" /\ Before([op |-> op, v |-> v], s.key) \subseteq Behind(op, v, i)
         /\ i = Len(Plan(op, v)) => WantedKeys(v) \subseteq Behind(op, v, i) \cup {s.key}
<1> DEFINE g == [op |-> op, v |-> v]
           plan == Plan(op, v)
           n == Len(Workers(v))
           base == {PrincipalSecret, ControlPlane(v.display)}
<1>1. plan = CreateOrUpdateAllObjects(v)
  BY DEF Plan, Prunes
<1>2. /\ Len(plan) = n + 5 /\ n \in Nat
      /\ plan[1] = Put(PrincipalSecret)
      /\ \A j \in 1 .. 3 : plan[1 + j] = Put(CapiObjects[j])
      /\ plan[5] = Put(ControlPlane(v.display))
      /\ \A j \in 1 .. n : plan[5 + j] = Put(Workers(v)[j])
  BY <1>1, CreateAllSteps, Zenon
<1>3. /\ Before(g, PrincipalSecret) = {}
      /\ \A k \in WorkerKeys : Before(g, k) \subseteq base
      /\ \A k : k \notin WorkerKeys => Before(g, k) \subseteq {PrincipalSecret}
  BY DEF Before, Asked
<1> HIDE DEF plan, n, g
<1>4. i > 1 => PrincipalSecret \in Behind(op, v, i)
  BY <1>2, InBehind DEF plan
<1>5. i > 5 => base \subseteq Behind(op, v, i)
  BY <1>2, <1>4, InBehind DEF plan
<1>6. \A j \in 1 .. 3 : CapiObjects[j] \notin WorkerKeys
  BY WantedSplit
<1>7. ControlPlane(v.display) \notin WorkerKeys
  BY WorkerKeyFacts
<1>8. plan[i].do = "put" /\ Before(g, plan[i].key) \subseteq Behind(op, v, i)
  <2>1. CASE i = 1
    BY <1>2, <1>3, <2>1, StepKinds
  <2>2. CASE i \in 2 .. 4
    <3>1. i - 1 \in 1 .. 3 /\ 1 + (i - 1) = i /\ i > 1
      BY <2>2
    <3>2. plan[i] = Put(CapiObjects[i - 1])
      BY <1>2, <3>1
    <3> QED BY <1>3, <1>4, <1>6, <3>1, <3>2, StepKinds
  <2>3. CASE i = 5
    BY <1>2, <1>3, <1>4, <1>7, <2>3, StepKinds
  <2>4. CASE i \in 6 .. n + 5
    <3>1. i - 5 \in 1 .. n /\ 5 + (i - 5) = i /\ i > 5
      BY <1>2, <2>4
    <3>2. plan[i] = Put(Workers(v)[i - 5]) /\ Workers(v)[i - 5] \in WorkerKeys
      BY <1>2, <3>1, WorkerKeyFacts DEF n
    <3> QED BY <1>3, <1>5, <3>1, <3>2, StepKinds
  <2> QED BY <1>2, <2>1, <2>2, <2>3, <2>4 DEF plan
<1>9. ASSUME i = Len(plan)
      PROVE  WantedKeys(v) \subseteq Behind(op, v, i) \cup {plan[i].key}
  <2>1. i = n + 5 /\ i > 4 /\ i \in Nat
    BY <1>2, <1>9
  <2>2. ASSUME NEW j \in 1 .. 3 PROVE CapiObjects[j] \in Behind(op, v, i)
    <3>1. 1 + j \in 1 .. (i - 1)
      BY <1>2, <2>1
    <3> QED BY <1>2, <2>1, <3>1, InBehind DEF plan
  <2>3. ControlPlane(v.display) \in Behind(op, v, i) \cup {plan[i].key}
    <3>1. CASE i = 5
      BY <1>2, <3>1, StepKinds
    <3>2. CASE i # 5
      <4>1. 5 \in 1 .. (i - 1)
        BY <1>2, <2>1, <3>2
      <4> QED BY <1>2, <2>1, <4>1, InBehind DEF plan
    <3> QED BY <3>1, <3>2
  <2>4. ASSUME NEW k \in WantedKeys(v) \cap WorkerKeys
        PROVE  k \in Behind(op, v, i) \cup {plan[i].key}
    <3>1. PICK j \in 1 .. n : Workers(v)[j] = k
      BY WorkerKeyFacts DEF n
    <3>2. plan[5 + j] = Put(k)
      BY <1>2, <3>1
    <3>3. CASE j = n
      <4>1. i = 5 + j
        BY <1>2, <2>1, <3>3
      <4> QED BY <3>2, <4>1, StepKinds
    <3>4. CASE j # n
      <4>1. 5 + j \in 1 .. (i - 1)
        BY <1>2, <2>1, <3>4
      <4> QED BY <2>1, <3>2, <4>1, InBehind DEF plan
    <3> QED BY <3>3, <3>4
  <2> QED BY <1>4, <2>1, <2>2, <2>3, <2>4, WantedSplit
<1> QED BY <1>8, <1>9 DEF plan, g

-----------------------------------------------------------------------------
(* What a move of a call is to StagedUpdate.                               *)

\* With one call at a time the goal and the objects put so far are that call's.
LEMMA GoalIs ==
  ASSUME SerialCalls, NEW c \in Calls
  PROVE  /\ Running(c) => goal = GoalOf(c) /\ done = PutBy(c)
         /\ ~Running(c) => goal = None /\ done = {}
         /\ Running(c)' => goal' = GoalOf(c)' /\ done' = PutBy(c)'
         /\ ~Running(c)' => goal' = None /\ done' = {}
<1>1. \A d \in Calls : d = c
  BY DEF SerialCalls
<1>2. Running(c) => goal = GoalOf(c) /\ done = PutBy(c)
  <2> SUFFICES ASSUME Running(c) PROVE goal = GoalOf(c) /\ done = PutBy(c)
    OBVIOUS
  <2>1. {d \in Calls : Running(d)} = {c}
    BY <1>1
  <2> QED BY <1>1, <2>1 DEF goal, done
<1>3. ~Running(c) => goal = None /\ done = {}
  BY <1>1 DEF goal, done
<1>4. Running(c)' => goal' = GoalOf(c)' /\ done' = PutBy(c)'
  <2> SUFFICES ASSUME Running(c)' PROVE goal' = GoalOf(c)' /\ done' = PutBy(c)'
    OBVIOUS
  <2>1. {d \in Calls : Running(d)'} = {c}
    BY <1>1
  <2> QED BY <1>1, <2>1 DEF goal, done
<1>5. ~Running(c)' => goal' = None /\ done' = {}
  BY <1>1 DEF goal, done
<1> QED BY <1>2, <1>3, <1>4, <1>5

\* One step further, its object is behind the call as well.
LEMMA BehindNext ==
  ASSUME NEW op, NEW v, NEW i \in Nat \ {0}
  PROVE  /\ Plan(op, v)[i].do = "put" =>
              Behind(op, v, i + 1) = Behind(op, v, i) \cup {Plan(op, v)[i].key}
         /\ Plan(op, v)[i].do # "put" => Behind(op, v, i + 1) = Behind(op, v, i)
<1> DEFINE Puts(m) == {n \in 1 .. (m - 1) : Plan(op, v)[n].do = "put"}
<1>1. 1 .. (i + 1 - 1) = (1 .. (i - 1)) \cup {i}
  OBVIOUS
<1>2. /\ Plan(op, v)[i].do = "put" => Puts(i + 1) = Puts(i) \cup {i}
      /\ Plan(op, v)[i].do # "put" => Puts(i + 1) = Puts(i)
  BY <1>1
<1>3. Behind(op, v, i + 1) = {Plan(op, v)[j].key : j \in Puts(i + 1)}
      /\ Behind(op, v, i) = {Plan(op, v)[j].key : j \in Puts(i)}
  BY DEF Behind
<1> HIDE DEF Puts
<1> QED BY <1>2, <1>3

\* The goal of a running call, and what StagedUpdate reads off it.
LEMMA GoalFacts ==
  ASSUME CallOK, SerialCalls, NEW c \in Calls, Running(c)
  PROVE  /\ goal = [op |-> call[c].op, v |-> call[c].v] /\ goal # None /\ goal \in Goals
         /\ Asked(goal) = WantedKeys(call[c].v) /\ Success(goal) = call[c].op
         /\ \A k : Content(goal, k) = Render(k, call[c].v)
         /\ Prunes(goal) <=> call[c].op \in {"Update", "SetVersion"}
         /\ done = Behind(call[c].op, call[c].v, call[c].at)
<1>1. goal = GoalOf(c) /\ done = PutBy(c)
  BY GoalIs
<1>2. goal \in Goals
  BY <1>1, RunningStep DEF GoalOf, Goals
<1>3. goal # None
  BY <1>2, NoneIsNoValue
<1> QED BY <1>1, <1>2, <1>3 DEF GoalOf, PutBy, Behind, Asked, Success, Content, Prunes

\* A frame that stays a frame keeps the goal.
LEMMA FrameGoal ==
  ASSUME CallOK, SerialCalls, NEW c \in Calls, Running(c), SameCall(call[c], call'[c])
  PROVE  /\ goal' = goal
         /\ call'[c].at = call[c].at => done' = done
         /\ (call'[c].at = call[c].at + 1 /\ Step(c).do = "put") => done' = done \cup {Step(c).key}
         /\ (call'[c].at = call[c].at + 1 /\ Step(c).do # "put") => done' = done
<1>1. Running(c)' /\ call'[c].op = call[c].op /\ call'[c].v = call[c].v
  BY NoneFacts DEF SameCall, Running
<1>2. goal' = goal
  BY <1>1, GoalIs DEF GoalOf
<1>3. /\ done = Behind(call[c].op, call[c].v, call[c].at)
      /\ done' = Behind(call[c].op, call[c].v, call'[c].at)
  BY <1>1, GoalIs DEF PutBy, Behind, Plan
<1>4. call[c].at \in Nat \ {0}
  BY RunningStep DEF Frames
<1>5. Step(c) = Plan(call[c].op, call[c].v)[call[c].at]
  BY DEF Step
<1> QED BY <1>2, <1>3, <1>4, <1>5, BehindNext

\* An error ends the call and nothing else.
LEMMA FailIs ==
  ASSUME CallOK, CallerOK, SerialCalls, NEW c \in Calls, Running(c), Return(c, FALSE)
  PROVE  Staged!Fail
<1>1. call'[c] = None
  BY ReturnType
<1>2. outcome' = "failed"
  BY DEF Return
<1> QED BY <1>1, <1>2, GoalIs DEF Staged!Fail, Running

\* A call that goes on after a put continues or, behind its last step, succeeds.
LEMMA AdvanceIs ==
  ASSUME CallOK, CallerOK, SerialCalls, NEW c \in Calls, Running(c), Advance(c)
  PROVE  /\ Step(c).do = "put" => Staged!Continue(done \cup {Step(c).key})
                                    \/ Staged!Succeed(done \cup {Step(c).key})
         /\ Step(c).do = "gate" => Staged!Continue(done)
         /\ Step(c).do = "prune" => /\ WantedKeys(call[c].v) \subseteq done
                                    /\ goal' = None /\ done' = {} /\ outcome' = Success(goal)
<1> DEFINE op == call[c].op
           v == call[c].v
           i == call[c].at
           n == Len(Plan(op, v))
<1>1. v \in Variables /\ i \in 1 .. n /\ Step(c) = Plan(op, v)[i] /\ n \in Nat
  BY RunningStep, PlanSteps DEF Step
<1>2. /\ goal = [op |-> op, v |-> v] /\ Asked(goal) = WantedKeys(v) /\ Success(goal) = op
      /\ done = Behind(op, v, i)
  BY GoalFacts
<1>3. CASE i = n
  <2>1. call'[c] = None /\ outcome' = op
    BY <1>3, ReturnType DEF Advance, Return
  <2>2. goal' = None /\ done' = {}
    BY <2>1, GoalIs DEF Running
  <2>3. CASE Prunes(goal)
    <3>1. Step(c).do \notin {"put", "gate"} /\ (Step(c).do = "prune" => WantedKeys(v) \subseteq done)
      BY <1>1, <1>2, <1>3, <2>3, UpdateOrder
    <3> QED BY <1>2, <2>1, <2>2, <3>1
  <2>4. CASE ~Prunes(goal)
    <3>1. Step(c).do = "put" /\ WantedKeys(v) \subseteq done \cup {Step(c).key}
      BY <1>1, <1>2, <1>3, <2>4, CreateOrder
    <3>2. Staged!Succeed(done \cup {Step(c).key})
      BY <1>2, <2>1, <2>2, <2>4, <3>1 DEF Staged!Succeed
    <3> QED BY <3>1, <3>2
  <2> QED BY <2>3, <2>4
<1>4. CASE i # n
  <2>1. SameCall(call[c], call'[c]) /\ call'[c].at = i + 1 /\ outcome' = outcome
    <3>1. call' = [call EXCEPT ![c] = [call[c] EXCEPT !.at = @ + 1, !.seen = "nothing"]]
          /\ UNCHANGED caller
      BY <1>4 DEF Advance
    <3> DEFINE f == [call[c] EXCEPT !.at = @ + 1, !.seen = "nothing"]
    <3>2. call'[c] = f
      BY <3>1 DEF CallOK
    <3>3. SameCall(call[c], f) /\ f.at = i + 1
      BY RunningStep, FrameUpdates
    <3>4. outcome' = outcome
      BY <3>1 DEF caller
    <3> QED BY <3>2, <3>3, <3>4
  <2>2. Step(c).do = "put" => Staged!Continue(done \cup {Step(c).key})
    BY <2>1, FrameGoal DEF Staged!Continue
  <2>3. Step(c).do = "gate" => Staged!Continue(done)
    BY <2>1, FrameGoal DEF Staged!Continue
  <2>4. Step(c).do # "prune"
    <3>1. CASE Prunes(goal)
      BY <1>1, <1>2, <1>4, <3>1, UpdateOrder
    <3>2. CASE ~Prunes(goal)
      BY <1>1, <1>2, <3>2, CreateOrder
    <3> QED BY <3>1, <3>2
  <2> QED BY <2>2, <2>3, <2>4
<1> QED BY <1>3, <1>4

-----------------------------------------------------------------------------
(* What a change of the store is to StagedUpdate.                          *)

LEMMA ContentFacts ==
  ASSUME StoreOK, NEW k \in Keys
  PROVE  /\ content[k] # None <=> Exists(k)
         /\ k \in leaving <=> Exists(k) /\ store[k].dying
<1>1. ASSUME store[k] # None PROVE store[k].content # None
  <2>1. store[k] \in Object
    BY <1>1 DEF StoreOK
  <2>2. store[k].content \in Contents
    BY <2>1 DEF Object
  <2> QED BY <2>2, NoneIsNoValue
<1> QED BY <1>1 DEF content, leaving, Exists

LEMMA Quiet ==
  ASSUME store' = store PROVE content' = content /\ leaving' = leaving
BY DEF content, leaving, Exists

\* A write of a new object, or of the content of one that is there.
LEMMA WriteIs ==
  ASSUME NEW k \in Keys, NEW o \in Object, store \in [Keys -> Object \cup {None}],
         store' = [store EXCEPT ![k] = o], o.dying <=> Exists(k) /\ store[k].dying
  PROVE  content' = [content EXCEPT ![k] = o.content] /\ leaving' = leaving
<1>1. o # None
  BY NoneFacts
<1>2. store'[k] = o /\ \A j \in Keys \ {k} : store'[j] = store[j]
  OBVIOUS
<1>3. content' = [content EXCEPT ![k] = o.content]
  BY <1>1, <1>2 DEF content, Exists
<1>4. leaving' = leaving
  BY <1>1, <1>2 DEF leaving, Exists
<1> QED BY <1>3, <1>4

LEMMA DoomIs ==
  ASSUME NEW k \in Keys, store \in [Keys -> Object \cup {None}], Doom(k)
  PROVE  /\ content' = content
         /\ leaving' = IF Exists(k) THEN leaving \cup {k} ELSE leaving
<1>1. CASE ~Exists(k)
  <2>1. store' = store
    BY <1>1 DEF Doom, Exists
  <2> QED BY <1>1, <2>1, Quiet
<1>2. CASE Exists(k)
  <2> DEFINE o == [store[k] EXCEPT !.dying = TRUE]
  <2>1. store[k] \in Object
    BY <1>2 DEF Exists
  <2>2. o \in Object /\ o.content = store[k].content /\ o.dying
    BY <2>1 DEF Object
  <2>3. store' = [store EXCEPT ![k] = o]
    BY <1>2 DEF Doom, Exists
  <2> HIDE DEF o
  <2>4. o # None /\ store'[k] = o /\ \A j \in Keys \ {k} : store'[j] = store[j]
    BY <2>2, <2>3, NoneFacts
  <2>5. content' = content
    BY <1>2, <2>2, <2>4 DEF content, Exists
  <2>6. leaving' = leaving \cup {k}
    BY <1>2, <2>2, <2>4 DEF leaving, Exists
  <2> QED BY <1>2, <2>5, <2>6
<1> QED BY <1>1, <1>2

\* A delete reaches its object and no other.
LEMMA DoomedOne ==
  ASSUME StoreOK, NEW k \in Keys, Doom(k)
  PROVE  /\ store'[k] # None => store'[k].dying
         /\ \A j \in Keys \ {k} : store'[j] = store[j]
<1>1. store \in [Keys -> Object \cup {None}]
  BY DEF StoreOK
<1>2. CASE store[k] = None
  <2>1. store' = [store EXCEPT ![k] = None]
    BY <1>1, <1>2 DEF Doom
  <2> QED BY <1>1, <2>1
<1>3. CASE store[k] # None
  <2> DEFINE o == [store[k] EXCEPT !.dying = TRUE]
  <2>1. store[k] \in Object
    BY <1>1, <1>3
  <2>2. o.dying
    BY <2>1 DEF Object
  <2>3. store' = [store EXCEPT ![k] = o]
    BY <1>1, <1>3 DEF Doom
  <2> HIDE DEF o
  <2> QED BY <1>1, <2>2, <2>3
<1> QED BY <1>2, <1>3

-----------------------------------------------------------------------------
(***************************************************************************)
(* The bookkeeping of a prune: nothing wanted is ever in line for deletion, *)
(* and behind the list of the pools every unwanted pool still is, or is     *)
(* being deleted already.                                                   *)
(***************************************************************************)
Unwanted(c) == Pools \ WantedPools(call[c].v)

InLine(c) ==
  /\ call[c].doomed \subseteq Unwanted(c) /\ call[c].infra \notin WantedPools(call[c].v)
  /\ (Step(c).do = "prune" /\ call[c].seen = "found") =>
       \A p \in Unwanted(c) : Exists(MachinePool(p)) =>
         p \in call[c].doomed \/ store[MachinePool(p)].dying

PruneInv == \A c \in Calls : Running(c) => InLine(c)

LEMMA WantedPoolsType ==
  ASSUME NEW v \in Variables PROVE WantedPools(v) \subseteq Pools /\ None \notin WantedPools(v)
<1>1. v.pools \in Seq(NodePool)
  BY DEF Variables
<1>2. \A i \in DOMAIN v.pools : v.pools[i] \in NodePool
  BY <1>1
<1>3. \A i \in DOMAIN v.pools : v.pools[i].name \in Pools
  BY <1>2 DEF NodePool
<1> QED BY <1>3, NoneFacts DEF WantedPools

\* Nobody but a call deletes a pool, and only a call creates one.
LEMMA PruneOutside ==
  ASSUME PruneInv, call' = call,
         \A p \in Pools : store'[MachinePool(p)] \in {store[MachinePool(p)], None}
  PROVE  PruneInv'
BY DEF PruneInv, InLine, Unwanted, Running, Step, Plan, Exists

\* A call moves within a step that is no prune, or leaves a step.
LEMMA PruneMove ==
  ASSUME SerialCalls, PruneInv, NEW c \in Calls, Running(c), SameCall(call[c], call'[c]),
         call'[c].doomed = call[c].doomed, call'[c].infra = call[c].infra,
         call'[c].seen = "nothing" \/ Step(c)'.do # "prune"
  PROVE  PruneInv'
<1>1. call'[c].v = call[c].v
  BY DEF SameCall
<1>2. InLine(c)'
  BY <1>1 DEF PruneInv, InLine, Unwanted
<1> QED BY <1>2 DEF PruneInv, SerialCalls

LEMMA PruneEnds ==
  ASSUME SerialCalls, NEW c \in Calls, call'[c] = None PROVE PruneInv'
BY DEF PruneInv, SerialCalls, Running

\* What the updates of a frame do to the fields of a prune.
LEMMA FrameFields ==
  ASSUME NEW f \in Frames
  PROVE  /\ \A s : LET g == [f EXCEPT !.seen = s] IN
            g.doomed = f.doomed /\ g.infra = f.infra /\ g.seen = s
         /\ LET g == [f EXCEPT !.at = @ + 1, !.seen = "nothing"] IN
            g.doomed = f.doomed /\ g.infra = f.infra /\ g.seen = "nothing"
         /\ \A D : LET g == [f EXCEPT !.seen = "found", !.doomed = D] IN
            g.doomed = D /\ g.infra = f.infra /\ g.seen = "found"
         /\ \A p : LET g == [f EXCEPT !.doomed = @ \ {p}, !.infra = p] IN
            g.doomed = f.doomed \ {p} /\ g.infra = p /\ g.seen = f.seen
         /\ LET g == [f EXCEPT !.infra = None] IN
            g.doomed = f.doomed /\ g.infra = None /\ g.seen = f.seen
BY DEF Frames

LEMMA PruneAdvance ==
  ASSUME CallOK, CallerOK, SerialCalls, PruneInv, NEW c \in Calls, Running(c),
         Advance(c) \/ Return(c, FALSE)
  PROVE  PruneInv'
<1> DEFINE f == [call[c] EXCEPT !.at = @ + 1, !.seen = "nothing"]
<1>1. CASE call'[c] = None
  BY <1>1, PruneEnds
<1>2. CASE call'[c] # None
  <2>1. call'[c] = f
    BY <1>2, AdvanceType, ReturnType
  <2>2. SameCall(call[c], f) /\ f.seen = "nothing" /\ f.doomed = call[c].doomed
        /\ f.infra = call[c].infra
    BY RunningStep, FrameUpdates, FrameFields
  <2> HIDE DEF f
  <2> QED BY <2>1, <2>2, PruneMove
<1> QED BY <1>1, <1>2

LEMMA PruneStep ==
  ASSUME TypeInv, SerialCalls, PruneInv, [Next]_vars
  PROVE  PruneInv'
<1>1. CallOK /\ CallerOK /\ FreshOK /\ StoreOK
  BY TypeInvParts
<1>2. ASSUME call' = call, store' = store
      PROVE  PruneInv'
  BY <1>2, PruneOutside
<1>3. ASSUME NEW c \in Calls, NEW op, NEW v \in Variables, Begin(c, op, v)
      PROVE  PruneInv'
  <2>1. call'[c] = [op |-> op, v |-> v, at |-> 1, seen |-> "nothing", doomed |-> {}, infra |-> None]
    BY <1>1, <1>3 DEF Begin, CallOK
  <2>2. InLine(c)'
    BY <2>1, WantedPoolsType DEF InLine
  <2> QED BY <2>2 DEF PruneInv, SerialCalls
<1>4. ASSUME NEW c \in Calls, Running(c), NEW f, SameCall(call[c], f), f.at = call[c].at,
             f.doomed = call[c].doomed, f.infra = call[c].infra, Step(c).do # "prune",
             call' = [call EXCEPT ![c] = f]
      PROVE  PruneInv'
  <2>1. call'[c] = f
    BY <1>1, <1>4 DEF CallOK
  <2>2. Step(c)' = Step(c)
    BY <1>4, <2>1 DEF Step, Plan, SameCall
  <2> QED BY <1>4, <2>1, <2>2, PruneMove
<1>5. ASSUME NEW c \in Calls, Get(c) \/ CheckCluster(c)
      PROVE  PruneInv'
  <2>1. Running(c) /\ Step(c).do # "prune"
    BY <1>5 DEF Get, CheckCluster, AtStep
  <2>2. Advance(c) \/ \E x \in {"found", "missing"} : call' = [call EXCEPT ![c] = [call[c] EXCEPT !.seen = x]]
    BY <1>5 DEF Get, CheckCluster
  <2>3. ASSUME NEW x \in {"found", "missing"}, call' = [call EXCEPT ![c] = [call[c] EXCEPT !.seen = x]]
        PROVE  PruneInv'
    <3> DEFINE f == [call[c] EXCEPT !.seen = x]
    <3>1. call[c] \in Frames
      BY <1>1, <2>1, RunningStep
    <3>2. SameCall(call[c], f) /\ f.at = call[c].at
      <4>1. x \in {"nothing", "found", "missing"}
        OBVIOUS
      <4> QED BY <3>1, <4>1, FrameUpdates
    <3>3. f.doomed = call[c].doomed /\ f.infra = call[c].infra
      BY <3>1, FrameFields
    <3>4. call' = [call EXCEPT ![c] = f]
      BY <2>3
    <3> HIDE DEF f
    <3> QED BY <1>4, <2>1, <3>2, <3>3, <3>4
  <2> QED BY <1>1, <2>1, <2>2, <2>3, PruneAdvance
<1>6. ASSUME NEW c \in Calls, ListPools(c)
      PROVE  PruneInv'
  <2> DEFINE D == ListedPools \ WantedPools(call[c].v)
             f == [call[c] EXCEPT !.seen = "found", !.doomed = D]
  <2>1. Running(c) /\ store' = store /\ call' = [call EXCEPT ![c] = f]
    BY <1>6 DEF ListPools, AtStep
  <2>2. D \in SUBSET Pools /\ \A p \in Unwanted(c) : Exists(MachinePool(p)) => p \in D
    BY DEF ListedPools, Unwanted
  <2>3. D \subseteq Unwanted(c)
    BY DEF ListedPools, Unwanted
  <2> HIDE DEF D
  <2>4. SameCall(call[c], f) /\ f.doomed = D /\ f.infra = call[c].infra
    <3>1. call[c] \in Frames
      BY <1>1, <2>1, RunningStep
    <3>2. SameCall(call[c], f)
      BY <2>2, <3>1, FrameUpdates
    <3>3. f.doomed = D /\ f.infra = call[c].infra
      BY <3>1, FrameFields
    <3> QED BY <3>2, <3>3
  <2> HIDE DEF f
  <2>5. call'[c] = f /\ call'[c].v = call[c].v
    BY <1>1, <2>1, <2>4 DEF CallOK, SameCall
  <2>6. InLine(c)'
    BY <2>1, <2>2, <2>3, <2>4, <2>5 DEF PruneInv, InLine, Unwanted, Exists
  <2> QED BY <2>6 DEF PruneInv, SerialCalls
<1>7. ASSUME NEW c \in Calls, NEW p \in Pools, DeletePool(c, p)
      PROVE  PruneInv'
  <2> DEFINE f == [call[c] EXCEPT !.doomed = @ \ {p}, !.infra = p]
  <2>1. /\ Running(c) /\ Step(c).do = "prune" /\ call[c].seen = "found" /\ p \in call[c].doomed
        /\ Doom(MachinePool(p)) /\ (call' = [call EXCEPT ![c] = f] \/ Return(c, FALSE))
    BY <1>7 DEF DeletePool, AtStep
  <2>2. CASE Return(c, FALSE)
    BY <1>1, <2>1, <2>2, PruneAdvance
  <2>3. CASE call' = [call EXCEPT ![c] = f]
    <3>1. /\ SameCall(call[c], f) /\ f.doomed = call[c].doomed \ {p} /\ f.infra = p
          /\ f.seen = call[c].seen /\ f.at = call[c].at
      <4>1. call[c] \in Frames
        BY <1>1, <2>1, RunningStep
      <4>2. SameCall(call[c], f) /\ f.at = call[c].at
        BY <4>1, FrameUpdates
      <4> QED BY <4>1, <4>2, FrameFields
    <3> HIDE DEF f
    <3>2. call'[c] = f /\ call'[c].v = call[c].v /\ Step(c)' = Step(c)
      BY <1>1, <2>3, <3>1 DEF CallOK, SameCall, Step, Plan
    <3>3. InLine(c)
      BY <2>1 DEF PruneInv
    <3>0. /\ store'[MachinePool(p)] # None => store'[MachinePool(p)].dying
          /\ \A j \in Keys \ {MachinePool(p)} : store'[j] = store[j]
      <4>1. MachinePool(p) \in Keys
        BY WorkerKeysAreKeys
      <4>2. StoreOK /\ Doom(MachinePool(p))
        BY <1>1, <2>1
      <4> QED BY <4>1, <4>2, DoomedOne
    <3>4. ASSUME NEW q \in Unwanted(c), q # p, store'[MachinePool(q)] # None
          PROVE  q \in f.doomed \/ store'[MachinePool(q)].dying
      <4>1. MachinePool(q) # MachinePool(p)
        BY <3>4 DEF MachinePool
      <4>2. store'[MachinePool(q)] = store[MachinePool(q)]
        BY <3>0, <4>1, WorkerKeysAreKeys DEF Unwanted
      <4> QED BY <2>1, <3>1, <3>3, <3>4, <4>2 DEF InLine, Exists
    <3>5. store'[MachinePool(p)] # None => store'[MachinePool(p)].dying
      BY <3>0
    <3>6. p \notin WantedPools(call[c].v)
      BY <2>1, <3>3 DEF InLine, Unwanted
    <3>7. \A q \in Unwanted(c) : store'[MachinePool(q)] # None =>
            q \in f.doomed \/ store'[MachinePool(q)].dying
      BY <3>4, <3>5
    <3>8. f.doomed \subseteq Unwanted(c)
      BY <3>1, <3>3 DEF InLine
    <3>9. InLine(c)'
      BY <3>1, <3>2, <3>6, <3>7, <3>8 DEF InLine, Unwanted, Exists
    <3> QED BY <3>9 DEF PruneInv, SerialCalls
  <2> QED BY <2>1, <2>2, <2>3
<1>8. ASSUME NEW c \in Calls, DeleteInfra(c)
      PROVE  PruneInv'
  <2> DEFINE f == [call[c] EXCEPT !.infra = None]
             k == OCIMachinePool(call[c].infra)
  <2>1. /\ Running(c) /\ Step(c).do = "prune" /\ call[c].seen = "found" /\ Doom(k)
        /\ (call' = [call EXCEPT ![c] = f] \/ Return(c, FALSE))
    BY <1>8 DEF DeleteInfra, AtStep
  <2>2. CASE Return(c, FALSE)
    BY <1>1, <2>1, <2>2, PruneAdvance
  <2>3. CASE call' = [call EXCEPT ![c] = f]
    <3>1. /\ SameCall(call[c], f) /\ f.doomed = call[c].doomed /\ f.infra = None
          /\ f.seen = call[c].seen /\ f.at = call[c].at
      <4>1. call[c] \in Frames
        BY <1>1, <2>1, RunningStep
      <4>2. SameCall(call[c], f) /\ f.at = call[c].at
        BY <4>1, FrameUpdates
      <4> QED BY <4>1, <4>2, FrameFields
    <3> HIDE DEF f
    <3>2. call'[c] = f /\ call'[c].v = call[c].v /\ Step(c)' = Step(c)
      BY <1>1, <2>3, <3>1 DEF CallOK, SameCall, Step, Plan
    <3>3. InLine(c)
      BY <2>1 DEF PruneInv
    <3>4. \A q \in Pools : store'[MachinePool(q)] = store[MachinePool(q)]
      <4>1. \A q \in Pools : MachinePool(q) # k /\ MachinePool(q) \in Keys
        BY WorkerKeysAreKeys DEF MachinePool, OCIMachinePool
      <4>2. store \in [Keys -> Object \cup {None}]
        BY <1>1 DEF StoreOK
      <4> HIDE DEF k
      <4> QED BY <2>1, <4>1, <4>2 DEF Doom
    <3>5. None \notin WantedPools(call[c].v)
      BY <1>1, <2>1, RunningStep, WantedPoolsType
    <3>6. InLine(c)'
      BY <2>1, <3>1, <3>2, <3>3, <3>4, <3>5 DEF InLine, Unwanted, Exists
    <3> QED BY <3>6 DEF PruneInv, SerialCalls
  <2> QED BY <2>1, <2>2, <2>3
<1>9. ASSUME NEW c \in Calls, \/ Merge(c) \/ CreateObject(c) \/ Conflict(c) \/ AlreadyExists(c)
                              \/ CheckPools(c) \/ NotReady(c) \/ Pruned(c) \/ RequestFails(c)
      PROVE  PruneInv'
  <2>1. Running(c) /\ (Advance(c) \/ Return(c, FALSE))
    BY <1>9 DEF Merge, CreateObject, Conflict, AlreadyExists, CheckPools, NotReady, Pruned,
       RequestFails, AfterWrite, AtStep
  <2> QED BY <1>1, <2>1, PruneAdvance
<1>10. ASSUME NEW p \in Pools, Finalize(p)
       PROVE  PruneInv'
  <2>1. PICK gone \in {{MachinePool(p), OCIMachinePool(p)}, {OCIMachinePool(p)}} :
          call' = call /\ store' = [k \in Keys |-> IF k \in gone THEN None ELSE store[k]]
    BY <1>10 DEF Finalize
  <2>2. \A q \in Pools : store'[MachinePool(q)] \in {store[MachinePool(q)], None}
    BY <2>1, WorkerKeysAreKeys
  <2> QED BY <2>1, <2>2, PruneOutside
<1>11. ASSUME NEW c \in Calls, Start(c)
       PROVE  PruneInv'
  <2>1. \E op \in Ops, v \in Variables : Begin(c, op, v)
    BY <1>11, StartBegins
  <2> QED BY <1>3, <2>1
<1>12. ASSUME NEW c \in Calls, Driver(c)
       PROVE  PruneInv'
  <2>1. CASE Refuse(c)
    BY <1>2, <2>1 DEF Refuse, driver
  <2> QED BY <1>5, <1>6, <1>7, <1>8, <1>9, <1>11, <1>12, <2>1 DEF Driver, Work
<1>13. CASE Crash
  BY <1>13 DEF Crash, PruneInv, Running
<1>14. CASE \/ InfrastructureUp \/ ControlPlaneUp \/ ClusterDisturbed \/ RotateCredential
            \/ \E p \in Pools : PoolUp(p) \/ PoolDown(p) \/ PoolDeleting(p)
  BY <1>2, <1>14 DEF InfrastructureUp, ControlPlaneUp, ClusterDisturbed, RotateCredential, driver,
     PoolUp, PoolDown, PoolDeleting, SetPhase
<1>15. CASE UNCHANGED vars
  BY <1>2, <1>15 DEF vars, driver
<1> QED BY <1>10, <1>12, <1>13, <1>14, <1>15 DEF Next, Controllers, Trouble

-----------------------------------------------------------------------------
(* Every step of Rollout is one of StagedUpdate, or none.                  *)

RefineInv == StayInv /\ PruneInv

LEMMA SameGoal ==
  ASSUME SerialCalls, NEW c \in Calls, call'[c] = call[c]
  PROVE  goal' = goal /\ done' = done
<1>1. Running(c)' <=> Running(c)
  BY DEF Running
<1>2. GoalOf(c)' = GoalOf(c)
  BY DEF GoalOf
<1>3. PutBy(c)' = PutBy(c)
  BY DEF PutBy
<1>4. CASE Running(c)
  BY <1>1, <1>2, <1>3, <1>4, GoalIs
<1>5. CASE ~Running(c)
  BY <1>1, <1>5, GoalIs
<1> QED BY <1>4, <1>5

\* What changes neither the calls nor the store is no step at all.
LEMMA StutterIs ==
  ASSUME SerialCalls, NEW c \in Calls, call'[c] = call[c], outcome' = outcome, store' = store
  PROVE  UNCHANGED Staged!vars
<1>1. goal' = goal /\ done' = done
  BY SameGoal
<1> QED BY <1>1, Quiet DEF Staged!vars

\* A call that only looks around.
LEMMA LookIs ==
  ASSUME CallOK, SerialCalls, NEW c \in Calls, Running(c), store' = store, UNCHANGED caller,
         SameCall(call[c], call'[c]), call'[c].at = call[c].at
  PROVE  UNCHANGED Staged!vars
<1>1. goal' = goal /\ done' = done
  BY FrameGoal
<1> QED BY <1>1, Quiet DEF Staged!vars, caller

\* An error that leaves the store alone.
LEMMA ErrorIs ==
  ASSUME CallOK, CallerOK, SerialCalls, NEW c \in Calls, Running(c), Return(c, FALSE),
         store' = store
  PROVE  Staged!Next
<1>1. Staged!End
  BY FailIs, Quiet DEF Staged!End
<1> QED BY <1>1 DEF Staged!Next

LEMMA PutIs ==
  ASSUME TypeInv, SerialCalls, NEW c \in Calls, Merge(c) \/ CreateObject(c)
  PROVE  Staged!Next
<1> DEFINE k == Step(c).key
<1>1. CallOK /\ CallerOK /\ FreshOK /\ StoreOK
  BY TypeInvParts
<1>2. Running(c) /\ Step(c).do = "put" /\ AfterWrite(c)
  BY DEF Merge, CreateObject, AtStep
<1>3. k \in Keys /\ k \in WantedKeys(call[c].v) /\ Render(k, call[c].v) \in Contents
  BY <1>1, <1>2, RunningStep
<1>4. \E o \in Object : /\ store' = [store EXCEPT ![k] = o] /\ o.content = Render(k, call[c].v)
                        /\ o.dying <=> Exists(k) /\ store[k].dying
  <2>1. CASE Merge(c)
    <3> DEFINE o == [store[k] EXCEPT !.content = Render(k, call[c].v)]
    <3>1. c \in fresh /\ call[c].seen = "found" /\ store' = [store EXCEPT ![k] = o]
      BY <2>1 DEF Merge, AtStep
    <3>2. Exists(k) /\ store[k] \in Object
      BY <1>1, <1>3, <3>1 DEF FreshOK, FreshReads, Exists, StoreOK
    <3>3. o \in Object /\ o.content = Render(k, call[c].v) /\ o.dying = store[k].dying
      BY <1>3, <3>2 DEF Object
    <3> HIDE DEF o, k
    <3> QED BY <3>1, <3>2, <3>3
  <2>2. CASE CreateObject(c)
    <3> DEFINE o == [content |-> Render(k, call[c].v), dying |-> FALSE]
    <3>1. ~Exists(k) /\ store' = [store EXCEPT ![k] = o]
      BY <2>2 DEF CreateObject
    <3>2. o \in Object /\ o.content = Render(k, call[c].v) /\ ~o.dying
      BY <1>3 DEF Object
    <3> HIDE DEF o, k
    <3> QED BY <3>1, <3>2
  <2> QED BY <2>1, <2>2
<1> HIDE DEF k
<1>5. content' = [content EXCEPT ![k] = Render(k, call[c].v)] /\ leaving' = leaving
  BY <1>1, <1>3, <1>4, WriteIs DEF StoreOK
<1>6. /\ goal # None /\ Asked(goal) = WantedKeys(call[c].v)
      /\ Content(goal, k) = Render(k, call[c].v)
      /\ goal = [op |-> call[c].op, v |-> call[c].v]
      /\ done = Behind(call[c].op, call[c].v, call[c].at)
  BY <1>1, <1>2, GoalFacts
<1>7. Before(goal, k) \subseteq done
  <2>1. /\ call[c].v \in Variables /\ call[c].at \in 1 .. Len(Plan(call[c].op, call[c].v))
        /\ Step(c) = Plan(call[c].op, call[c].v)[call[c].at]
    BY <1>1, <1>2, RunningStep DEF Step
  <2>2. CASE Prunes(goal)
    BY <1>2, <1>6, <2>1, <2>2, UpdateOrder DEF k
  <2>3. CASE ~Prunes(goal)
    BY <1>2, <1>6, <2>1, <2>3, CreateOrder DEF k
  <2> QED BY <2>2, <2>3
<1>8. Staged!Continue(done \cup {k}) \/ Staged!Fail \/ Staged!Succeed(done \cup {k})
  BY <1>1, <1>2, AdvanceIs, FailIs DEF AfterWrite, k
<1>9. Staged!Put(k)
  BY <1>3, <1>5, <1>6, <1>7, <1>8 DEF Staged!Put
<1> QED BY <1>3, <1>9 DEF Staged!Next

\* Both deletes of a prune: the object is unwanted, and everything wanted is put.
LEMMA DeleteIs ==
  ASSUME CallOK, CallerOK, StoreOK, SerialCalls, NEW c \in Calls, Running(c), Step(c).do = "prune",
         NEW k \in WorkerKeys \ WantedKeys(call[c].v), Doom(k),
         \/ SameCall(call[c], call'[c]) /\ call'[c].at = call[c].at /\ UNCHANGED caller
         \/ Return(c, FALSE)
  PROVE  Staged!Next \/ UNCHANGED Staged!vars
<1>1. k \in Keys
  BY DEF WorkerKeys, Keys
<1>2. content' = content /\ leaving' = IF Exists(k) THEN leaving \cup {k} ELSE leaving
  BY <1>1, DoomIs DEF StoreOK
<1>3. /\ goal # None /\ Asked(goal) = WantedKeys(call[c].v)
      /\ goal = [op |-> call[c].op, v |-> call[c].v]
      /\ done = Behind(call[c].op, call[c].v, call[c].at)
  BY GoalFacts
<1>4. Prunes(goal) /\ WantedKeys(call[c].v) \subseteq done
  <2>1. /\ call[c].v \in Variables /\ call[c].at \in 1 .. Len(Plan(call[c].op, call[c].v))
        /\ Step(c) = Plan(call[c].op, call[c].v)[call[c].at]
    BY RunningStep DEF Step
  <2>2. Prunes(goal)
    <3> SUFFICES ASSUME ~Prunes(goal) PROVE FALSE
      OBVIOUS
    <3>1. Step(c).do = "put"
      BY <1>3, <2>1, CreateOrder
    <3> QED BY <3>1
  <2> QED BY <1>3, <2>1, <2>2, UpdateOrder
<1>5. Staged!Continue(done) \/ Staged!Fail
  <2>1. CASE Return(c, FALSE)
    BY <2>1, FailIs
  <2>2. CASE SameCall(call[c], call'[c]) /\ call'[c].at = call[c].at /\ UNCHANGED caller
    BY <2>2, FrameGoal DEF Staged!Continue, caller
  <2> QED BY <2>1, <2>2
<1>6. CASE Exists(k)
  <2>1. k \in Staged!Spare
    BY <1>1, <1>3, <1>6, ContentFacts DEF Staged!Spare
  <2>2. Staged!Delete(k)
    BY <1>2, <1>3, <1>4, <1>5, <1>6, <2>1 DEF Staged!Delete
  <2> QED BY <1>1, <2>2 DEF Staged!Next
<1>7. CASE ~Exists(k)
  <2>1. UNCHANGED <<content, leaving>>
    BY <1>2, <1>7
  <2>2. Staged!Fail => Staged!Next
    BY <2>1 DEF Staged!End, Staged!Next
  <2>3. Staged!Continue(done) => UNCHANGED Staged!vars
    BY <2>1 DEF Staged!Continue, Staged!vars
  <2> QED BY <1>5, <2>2, <2>3
<1> QED BY <1>6, <1>7

\* The last step of UpdateCluster: every unwanted pool that is there is leaving.
LEMMA PrunedIs ==
  ASSUME TypeInv, PruneInv, SerialCalls, NEW c \in Calls, Pruned(c)
  PROVE  Staged!Next
<1>1. CallOK /\ CallerOK /\ StoreOK
  BY TypeInvParts
<1>2. /\ Running(c) /\ Step(c).do = "prune" /\ call[c].seen = "found" /\ call[c].doomed = {}
      /\ Advance(c) /\ store' = store
  BY DEF Pruned, AtStep
<1>3. /\ WantedKeys(call[c].v) \subseteq done
      /\ goal' = None /\ done' = {} /\ outcome' = Success(goal)
  BY <1>1, <1>2, AdvanceIs
<1>4. goal # None /\ Asked(goal) = WantedKeys(call[c].v)
  BY <1>1, <1>2, GoalFacts
<1>5. ASSUME NEW p \in Pools, MachinePool(p) \in Staged!Spare
      PROVE  MachinePool(p) \in leaving
  <2>1. MachinePool(p) \in Keys
    BY WorkerKeysAreKeys
  <2>2. MachinePool(p) \notin WantedKeys(call[c].v) /\ content[MachinePool(p)] # None
    BY <1>4, <1>5 DEF Staged!Spare
  <2>3. Exists(MachinePool(p))
    BY <1>1, <2>1, <2>2, ContentFacts
  <2>4. p \notin WantedPools(call[c].v)
    BY <2>2 DEF WantedKeys
  <2>5. store[MachinePool(p)].dying
    BY <1>2, <2>3, <2>4 DEF PruneInv, InLine, Unwanted
  <2> QED BY <1>1, <2>1, <2>3, <2>5, ContentFacts
<1>6. Staged!Succeed(done)
  BY <1>3, <1>4, <1>5 DEF Staged!Succeed
<1>7. Staged!End
  BY <1>2, <1>4, <1>6, Quiet DEF Staged!End
<1> QED BY <1>7 DEF Staged!Next

\* A pool that goes away was being deleted, or depends on one that was.
LEMMA FinalizeIs ==
  ASSUME TypeInv, SerialCalls, NEW c \in Calls, NEW p \in Pools, Finalize(p)
  PROVE  Staged!Next
<1>1. StoreOK
  BY TypeInvParts
<1>2. PICK gone \in {{MachinePool(p), OCIMachinePool(p)}, {OCIMachinePool(p)}} :
        /\ \E k \in gone : Exists(k) /\ store[k].dying
        /\ store' = [k \in Keys |-> IF k \in gone THEN None ELSE store[k]]
        /\ UNCHANGED <<caller, call>>
  BY DEF Finalize
<1>3. gone \subseteq WorkerKeys /\ gone \subseteq Keys
  BY <1>2, WorkerKeysAreKeys
<1>4. goal' = goal /\ done' = done /\ outcome' = outcome
  <2>1. call'[c] = call[c] /\ outcome' = outcome
    BY <1>2 DEF caller
  <2> QED BY <2>1, SameGoal
<1>5. gone \cap leaving # {}
  BY <1>1, <1>2, <1>3, ContentFacts
<1>6. leaving' = leaving \ gone
  BY <1>2 DEF leaving, Exists
<1>7. content' = [k \in Keys |-> IF k \in gone THEN None ELSE content[k]]
  BY <1>2 DEF content, Exists
<1>8. Staged!Vanish(gone)
  BY <1>4, <1>5, <1>6, <1>7 DEF Staged!Vanish
<1> QED BY <1>3, <1>8 DEF Staged!Next

LEMMA StartIs ==
  ASSUME TypeInv, SerialCalls, NEW c \in Calls, Start(c)
  PROVE  Staged!Next
<1>1. CallOK
  BY TypeInvParts
<1>2. PICK op \in Ops, v \in Variables : Begin(c, op, v)
  BY StartBegins
<1> DEFINE f == [op |-> op, v |-> v, at |-> 1, seen |-> "nothing", doomed |-> {}, infra |-> None]
<1>3. /\ ~Running(c) /\ call'[c] = f /\ UNCHANGED caller /\ store' = store
  BY <1>1, <1>2 DEF Begin, CallOK
<1>4. f \in Frames /\ f.op = op /\ f.v = v /\ f.at = 1
  BY DEF Frames
<1> HIDE DEF f
<1>5. Running(c)'
  BY <1>3, <1>4, NoneFacts DEF Running
<1>6. goal = None /\ done = {}
  BY <1>3, GoalIs
<1>7. goal' = [op |-> op, v |-> v] /\ done' = PutBy(c)'
  BY <1>3, <1>4, <1>5, GoalIs DEF GoalOf
<1>8. done' = {}
  BY <1>3, <1>4, <1>7 DEF PutBy
<1>9. goal' \in Goals /\ goal' # None
  <2>1. goal' \in Goals
    BY <1>7 DEF Goals
  <2> QED BY <2>1, NoneIsNoValue
<1>10. Staged!Begin
  BY <1>3, <1>6, <1>8, <1>9, Quiet DEF Staged!Begin, caller
<1> QED BY <1>10 DEF Staged!Next

LEMMA DriverIs ==
  ASSUME RefineInv, SerialCalls, NEW c \in Calls, Driver(c)
  PROVE  Staged!Next \/ UNCHANGED Staged!vars
<1>1. TypeInv /\ CallOK /\ CallerOK /\ StoreOK /\ StillMissing /\ PruneInv
  BY TypeInvParts DEF RefineInv, StayInv
<1>2. CASE Refuse(c)
  <2>1. call' = call /\ store' = store /\ outcome' = "failed"
    BY <1>2 DEF Refuse, driver
  <2>2. ~Running(c) /\ ~Running(c)'
    BY <1>2, <2>1 DEF Refuse, Running
  <2>3. Staged!End
    BY <2>1, <2>2, GoalIs, Quiet DEF Staged!End, Staged!Fail
  <2> QED BY <2>3 DEF Staged!Next
<1>3. CASE Conflict(c) \/ NotReady(c) \/ RequestFails(c)
  <2>1. Running(c) /\ Return(c, FALSE) /\ store' = store
    BY <1>3 DEF Conflict, NotReady, RequestFails, AtStep
  <2> QED BY <1>1, <2>1, ErrorIs
<1>4. CASE AlreadyExists(c)
  BY <1>1, <1>4 DEF AlreadyExists, AtStep, StillMissing, Exists
<1>5. CASE Get(c)
  <2> DEFINE x == IF Exists(Step(c).key) THEN "found" ELSE "missing"
             f == [call[c] EXCEPT !.seen = x]
  <2>1. Running(c) /\ call' = [call EXCEPT ![c] = f] /\ store' = store /\ UNCHANGED caller
    BY <1>5 DEF Get, AtStep
  <2>2. x \in {"nothing", "found", "missing"}
    OBVIOUS
  <2> HIDE DEF x
  <2>3. SameCall(call[c], f) /\ f.at = call[c].at
    BY <1>1, <2>1, <2>2, RunningStep, FrameUpdates
  <2> HIDE DEF f
  <2>4. call'[c] = f
    BY <1>1, <2>1 DEF CallOK
  <2> QED BY <1>1, <2>1, <2>3, <2>4, LookIs
<1>6. CASE CheckCluster(c) \/ CheckPools(c)
  <2>1. Running(c) /\ Step(c).do = "gate" /\ store' = store
    BY <1>6 DEF CheckCluster, CheckPools, AtStep
  <2>2. CASE Advance(c)
    BY <1>1, <2>1, <2>2, AdvanceIs, Quiet DEF Staged!Continue, Staged!vars
  <2>3. CASE call' = [call EXCEPT ![c].seen = "found"] /\ UNCHANGED caller
    <3> DEFINE f == [call[c] EXCEPT !.seen = "found"]
    <3>1. call' = [call EXCEPT ![c] = f]
      BY <2>3
    <3>2. call[c] \in Frames
      BY <1>1, <2>1, RunningStep
    <3>3. SameCall(call[c], f) /\ f.at = call[c].at
      BY <3>2, FrameUpdates
    <3> HIDE DEF f
    <3>4. call'[c] = f
      BY <1>1, <3>1 DEF CallOK
    <3> QED BY <1>1, <2>1, <2>3, <3>3, <3>4, LookIs
  <2> QED BY <1>6, <2>2, <2>3 DEF CheckCluster, CheckPools
<1>7. CASE ListPools(c)
  <2> DEFINE D == ListedPools \ WantedPools(call[c].v)
             f == [call[c] EXCEPT !.seen = "found", !.doomed = D]
  <2>1. Running(c) /\ call' = [call EXCEPT ![c] = f] /\ store' = store /\ UNCHANGED caller
    BY <1>7 DEF ListPools, AtStep
  <2>2. D \in SUBSET Pools
    BY DEF ListedPools
  <2> HIDE DEF D
  <2>3. SameCall(call[c], f) /\ f.at = call[c].at
    BY <1>1, <2>1, <2>2, RunningStep, FrameUpdates
  <2> HIDE DEF f
  <2>4. call'[c] = f
    BY <1>1, <2>1 DEF CallOK
  <2> QED BY <1>1, <2>1, <2>3, <2>4, LookIs
<1>8. ASSUME NEW p \in Pools, DeletePool(c, p)
      PROVE  Staged!Next \/ UNCHANGED Staged!vars
  <2> DEFINE f == [call[c] EXCEPT !.doomed = @ \ {p}, !.infra = p]
  <2>1. /\ Running(c) /\ Step(c).do = "prune" /\ p \in call[c].doomed /\ Doom(MachinePool(p))
        /\ (call' = [call EXCEPT ![c] = f] /\ UNCHANGED caller) \/ Return(c, FALSE)
    BY <1>8 DEF DeletePool, AtStep
  <2>2. call[c] \in Frames
    BY <1>1, <2>1, RunningStep
  <2>3. SameCall(call[c], f) /\ f.at = call[c].at
    BY <2>2, FrameUpdates
  <2> HIDE DEF f
  <2>4. call' = [call EXCEPT ![c] = f] => call'[c] = f
    BY <1>1 DEF CallOK
  <2>5. p \notin WantedPools(call[c].v)
    BY <1>1, <2>1 DEF PruneInv, InLine, Unwanted
  <2>6. MachinePool(p) \in WorkerKeys \ WantedKeys(call[c].v)
    <3>1. \A q : MachinePool(p) # OCIMachinePool(q) /\ (MachinePool(p) = MachinePool(q) => p = q)
      BY DEF MachinePool, OCIMachinePool
    <3>2. MachinePool(p) \notin {PrincipalSecret, Cluster, ClusterIdentity, OCIManagedCluster,
                                 ControlPlane(call[c].v.display)}
      BY DEF MachinePool, PrincipalSecret, Cluster, ClusterIdentity, OCIManagedCluster, ControlPlane
    <3> QED BY <2>5, <3>1, <3>2, WorkerKeysAreKeys DEF WantedKeys
  <2>7. \/ SameCall(call[c], call'[c]) /\ call'[c].at = call[c].at /\ UNCHANGED caller
        \/ Return(c, FALSE)
    BY <2>1, <2>3, <2>4
  <2> QED BY <1>1, <2>1, <2>6, <2>7, DeleteIs
<1>9. CASE DeleteInfra(c)
  <2> DEFINE f == [call[c] EXCEPT !.infra = None]
             p == call[c].infra
  <2>1. /\ Running(c) /\ Step(c).do = "prune" /\ p # None /\ Doom(OCIMachinePool(p))
        /\ (call' = [call EXCEPT ![c] = f] /\ UNCHANGED caller) \/ Return(c, FALSE)
    BY <1>9 DEF DeleteInfra, AtStep
  <2>2. call[c] \in Frames
    BY <1>1, <2>1, RunningStep
  <2>3. SameCall(call[c], f) /\ f.at = call[c].at
    BY <2>2, FrameUpdates
  <2> HIDE DEF f
  <2>4. call' = [call EXCEPT ![c] = f] => call'[c] = f
    BY <1>1 DEF CallOK
  <2>5. p \notin WantedPools(call[c].v) /\ p \in Pools
    BY <1>1, <2>1, <2>2 DEF PruneInv, InLine, Frames
  <2> HIDE DEF p
  <2>6. OCIMachinePool(p) \in WorkerKeys \ WantedKeys(call[c].v)
    <3>1. \A q : OCIMachinePool(p) # MachinePool(q) /\ (OCIMachinePool(p) = OCIMachinePool(q) => p = q)
      BY DEF MachinePool, OCIMachinePool
    <3>2. OCIMachinePool(p) \notin {PrincipalSecret, Cluster, ClusterIdentity, OCIManagedCluster,
                                    ControlPlane(call[c].v.display)}
      BY DEF OCIMachinePool, PrincipalSecret, Cluster, ClusterIdentity, OCIManagedCluster, ControlPlane
    <3> QED BY <2>5, <3>1, <3>2, WorkerKeysAreKeys DEF WantedKeys
  <2>7. \/ SameCall(call[c], call'[c]) /\ call'[c].at = call[c].at /\ UNCHANGED caller
        \/ Return(c, FALSE)
    BY <2>1, <2>3, <2>4
  <2> QED BY <1>1, <2>1, <2>6, <2>7, DeleteIs
<1> QED BY <1>1, <1>2, <1>3, <1>4, <1>5, <1>6, <1>7, <1>8, <1>9, StartIs, PutIs, PrunedIs
        DEF Driver, Work

LEMMA NextIs ==
  ASSUME RefineInv, SerialCalls, NEW c \in Calls, [Next]_vars
  PROVE  Staged!Next \/ UNCHANGED Staged!vars
<1>1. TypeInv
  BY DEF RefineInv, StayInv
<1>2. ASSUME NEW d \in Calls, Driver(d)
      PROVE  Staged!Next \/ UNCHANGED Staged!vars
  BY <1>2, DriverIs
<1>3. CASE Crash
  <2>1. call'[c] = None /\ store' = store /\ outcome' = "failed"
    BY <1>3 DEF Crash
  <2>2. Staged!End
    BY <2>1, GoalIs, Quiet DEF Staged!End, Staged!Fail, Running
  <2> QED BY <2>2 DEF Staged!Next
<1>4. ASSUME NEW p \in Pools, Finalize(p)
      PROVE  Staged!Next
  BY <1>1, <1>4, FinalizeIs
<1>5. CASE \/ InfrastructureUp \/ ControlPlaneUp \/ ClusterDisturbed \/ RotateCredential
           \/ \E p \in Pools : PoolUp(p) \/ PoolDown(p) \/ PoolDeleting(p)
  <2>1. call' = call /\ outcome' = outcome /\ store' = store
    BY <1>5 DEF InfrastructureUp, ControlPlaneUp, ClusterDisturbed, RotateCredential, driver, caller,
       PoolUp, PoolDown, PoolDeleting, SetPhase
  <2> QED BY <2>1, StutterIs
<1>6. CASE UNCHANGED vars
  BY <1>6, StutterIs DEF vars, driver, caller
<1> QED BY <1>2, <1>3, <1>4, <1>5, <1>6 DEF Next, Controllers, Trouble

\* One call at a time, Rollout implements StagedUpdate.
THEOREM Implementation ==
  ASSUME SerialCalls, Calls # {} PROVE Spec => ImplementsStagedUpdate
<1>1. Init => RefineInv
  BY InitType DEF Init, RefineInv, StayInv, PruneInv, StepsStayApplied, StillMissing, Running
<1>2. RefineInv /\ [Next]_vars => RefineInv'
  <2> SUFFICES ASSUME RefineInv, [Next]_vars PROVE RefineInv'
    OBVIOUS
  <2>1. StayInv /\ TypeInv /\ PruneInv
    BY DEF RefineInv, StayInv
  <2> QED BY <2>1, StepType, StayNext, PruneStep DEF RefineInv, StayInv
<1>3. Init => Staged!Init
  BY DEF Init, Staged!Init, goal, done, content, leaving, Running, Exists
<1>4. RefineInv /\ [Next]_vars => [Staged!Next]_Staged!vars
  <2>1. PICK c \in Calls : TRUE
    OBVIOUS
  <2> QED BY <2>1, NextIs
<1> QED BY <1>1, <1>2, <1>3, <1>4, PTL DEF Spec, Staged!Spec, ImplementsStagedUpdate

-----------------------------------------------------------------------------
(* Workers follow their control plane: the order of the plans, with what   *)
(* StayInv says of the objects behind a call.                              *)

\* The pool appears, or its content changes.
PoolWritten(p) ==
  \/ store'[MachinePool(p)] # None /\ ~Exists(MachinePool(p))
  \/ /\ Exists(MachinePool(p)) /\ store'[MachinePool(p)] # None
     /\ store'[MachinePool(p)].content # store[MachinePool(p)].content

\* Only a put of that pool does it.
LEMMA PoolWriters ==
  ASSUME TypeInv, [Next]_vars, NEW p \in Pools, PoolWritten(p)
  PROVE  \E c \in Calls : Running(c) /\ Step(c).do = "put" /\ Step(c).key = MachinePool(p)
<1> DEFINE k == MachinePool(p)
           Put1 == \E c \in Calls : Running(c) /\ Step(c).do = "put" /\ Step(c).key = k
<1>1. CallOK /\ FreshOK /\ StoreOK /\ k \in Keys
  BY TypeInvParts, WorkerKeysAreKeys
<1> HIDE DEF k
<1>2. store'[k] # store[k] /\ store'[k] # None
  BY DEF PoolWritten, Exists, k
<1>3. ASSUME NEW c \in Calls, Merge(c) \/ CreateObject(c)
      PROVE  Put1
  <2>1. Running(c) /\ Step(c).do = "put"
    BY <1>3 DEF Merge, CreateObject, AtStep
  <2>2. \A j \in Keys : j # Step(c).key => store'[j] = store[j]
    BY <1>1, <1>3 DEF Merge, CreateObject, StoreOK
  <2> QED BY <1>1, <1>2, <2>1, <2>2
<1>4. ASSUME NEW j \in Keys, Doom(j)
      PROVE  FALSE
  <2>1. store[k] # None /\ store'[k].content = store[k].content
    BY <1>1, <1>2, <1>4, DoomType
  <2> QED BY <1>2, <2>1 DEF PoolWritten, Exists, k
<1>5. ASSUME NEW q \in Pools, Finalize(q)
      PROVE  FALSE
  BY <1>1, <1>2, <1>5 DEF Finalize
<1>6. ASSUME NEW c \in Calls, Driver(c)
      PROVE  Put1
  <2>1. CASE \/ Start(c) \/ Refuse(c) \/ RequestFails(c) \/ Get(c) \/ Conflict(c) \/ AlreadyExists(c)
             \/ CheckCluster(c) \/ CheckPools(c) \/ NotReady(c) \/ ListPools(c) \/ Pruned(c)
    BY <1>2, <2>1 DEF Start, StartCreate, StartUpdate, StartSetClusterSize, StartSetVersion, Begin,
       Refuse, RequestFails, Get, Conflict, AlreadyExists, CheckCluster, CheckPools, NotReady,
       ListPools, Pruned
  <2>2. ASSUME NEW q \in Pools, DeletePool(c, q) PROVE FALSE
    BY <1>4, <2>2, WorkerKeysAreKeys DEF DeletePool
  <2>3. CASE DeleteInfra(c)
    <3>1. Running(c) /\ call[c].infra # None /\ Doom(OCIMachinePool(call[c].infra))
      BY <2>3 DEF DeleteInfra, AtStep
    <3>2. call[c].infra \in Pools
      BY <1>1, <3>1, RunningStep DEF Frames
    <3> QED BY <1>4, <3>1, <3>2, WorkerKeysAreKeys
  <2> QED BY <1>3, <1>6, <2>1, <2>2, <2>3 DEF Driver, Work
<1>7. CASE \/ InfrastructureUp \/ ControlPlaneUp \/ ClusterDisturbed \/ Crash \/ RotateCredential
           \/ \E q \in Pools : PoolUp(q) \/ PoolDown(q) \/ PoolDeleting(q)
  BY <1>2, <1>7 DEF InfrastructureUp, ControlPlaneUp, ClusterDisturbed, Crash, RotateCredential,
     PoolUp, PoolDown, PoolDeleting, SetPhase
<1>8. CASE UNCHANGED vars
  BY <1>2, <1>8 DEF vars
<1> QED BY <1>5, <1>6, <1>7, <1>8 DEF Next, Controllers, Trouble, k

\* The call that does it has put the control plane it wants before.
LEMMA PlaneBehindWorker ==
  ASSUME TypeInv, [Next]_vars, NEW p \in Pools, PoolWritten(p)
  PROVE  \E c \in Calls :
           /\ Running(c)
           /\ ControlPlane(call[c].v.display)
                \in Behind(call[c].op, call[c].v, call[c].at) \ WorkerKeys
           /\ Render(ControlPlane(call[c].v.display), call[c].v) = [version |-> call[c].v.version]
<1>1. CallOK
  BY TypeInvParts
<1>2. PICK c \in Calls : Running(c) /\ Step(c).do = "put" /\ Step(c).key = MachinePool(p)
  BY PoolWriters
<1> DEFINE op == call[c].op
           v == call[c].v
           cp == ControlPlane(v.display)
<1>3. /\ v \in Variables /\ call[c].at \in 1 .. Len(Plan(op, v))
      /\ Step(c) = Plan(op, v)[call[c].at]
  BY <1>1, <1>2, RunningStep DEF Step
<1>4. Before([op |-> op, v |-> v], MachinePool(p)) \subseteq Behind(op, v, call[c].at)
  <2>1. CASE Prunes([op |-> op, v |-> v])
    BY <1>2, <1>3, <2>1, UpdateOrder
  <2>2. CASE ~Prunes([op |-> op, v |-> v])
    BY <1>2, <1>3, <2>2, CreateOrder
  <2> QED BY <2>1, <2>2
<1>5. cp \in Before([op |-> op, v |-> v], MachinePool(p))
  <2>1. MachinePool(p) # PrincipalSecret /\ MachinePool(p) \in WorkerKeys
    BY SecretIsNoWorker, WorkerKeysAreKeys
  <2> QED BY <2>1 DEF Before
<1>6. cp \notin WorkerKeys
  BY <1>3, WorkerKeyFacts
<1>7. Render(cp, v) = [version |-> v.version]
  BY DEF Render, ControlPlane
<1> QED BY <1>2, <1>4, <1>5, <1>6, <1>7

\* The objects of the cluster that a call has put are there, as it wants them.
LEMMA BehindApplied ==
  ASSUME StayInv, NEW c \in Calls, Running(c),
         NEW k \in Behind(call[c].op, call[c].v, call[c].at), k \notin WorkerKeys
  PROVE  Exists(k) /\ store[k].content = Render(k, call[c].v)
<1>1. PICK i \in 1 .. (call[c].at - 1) : /\ Plan(call[c].op, call[c].v)[i].do = "put"
                                         /\ Plan(call[c].op, call[c].v)[i].key = k
  BY DEF Behind
<1> QED BY <1>1 DEF StayInv, StepsStayApplied

\* With one call at a time, no MachinePool is asked for a version before the
\* control plane it belongs to was.
THEOREM WorkersFollow ==
  ASSUME SerialCalls PROVE Spec => WorkersFollowControlPlane
<1> DEFINE Follow == \A p \in Pools :
       (store'[MachinePool(p)] # None /\ ~Exists(MachinePool(p)))
         \/ (Exists(MachinePool(p)) /\ store'[MachinePool(p)] # None
              /\ store'[MachinePool(p)].content # store[MachinePool(p)].content) =>
       \E c \in Calls :
         /\ Running(c) /\ Exists(ControlPlane(call[c].v.display))
         /\ store[ControlPlane(call[c].v.display)].content.version = call[c].v.version
<1>1. Init => StayInv
  BY InitType DEF Init, StayInv, StepsStayApplied, StillMissing, Running
<1>2. StayInv /\ [Next]_vars => StayInv'
  <2> SUFFICES ASSUME StayInv, [Next]_vars PROVE StayInv'
    OBVIOUS
  <2>1. TypeInv
    BY DEF StayInv
  <2> QED BY <2>1, StepType, StayNext DEF StayInv
<1>3. StayInv /\ [Next]_vars => Follow
  <2> SUFFICES ASSUME StayInv, [Next]_vars, NEW p \in Pools, PoolWritten(p)
               PROVE  \E c \in Calls :
                        /\ Running(c) /\ Exists(ControlPlane(call[c].v.display))
                        /\ store[ControlPlane(call[c].v.display)].content.version = call[c].v.version
    BY DEF PoolWritten
  <2>1. PICK c \in Calls :
          /\ Running(c)
          /\ ControlPlane(call[c].v.display)
               \in Behind(call[c].op, call[c].v, call[c].at) \ WorkerKeys
          /\ Render(ControlPlane(call[c].v.display), call[c].v) = [version |-> call[c].v.version]
    BY PlaneBehindWorker DEF StayInv
  <2> DEFINE cp == ControlPlane(call[c].v.display)
  <2>2. Exists(cp) /\ store[cp].content = Render(cp, call[c].v)
    BY <2>1, BehindApplied
  <2> QED BY <2>1, <2>2
<1> QED BY <1>1, <1>2, <1>3, PTL DEF Spec, WorkersFollowControlPlane
=============================================================================
