----------------------- MODULE RolloutProgress_proofs -----------------------
(***************************************************************************)
(* What holds on the way to a goal and after it, for any calls, options,   *)
(* pools and versions.  That the goal is reached needs fairness and is     *)
(* left to the model checker; that no step leads away from it is proved.   *)
(***************************************************************************)
EXTENDS RolloutProgress, Success_proofs

\* Settling takes nothing away from Rollout: every step is one of its steps, or
\* one of its calls that happens not to fail.
LEMMA WorkIsDriver ==
  ASSUME NEW c \in Calls, Work(c) PROVE Next
BY DEF Next, Driver

LEMMA RetryIsDriver ==
  ASSUME NEW c \in Calls, Retry(c), settled \in Options PROVE Next
<1>1. Start(c)
  BY DEF Retry, Start
<1> QED BY <1>1 DEF Next, Driver

\* The goal is one of the options, and a state to update is kept for it.
GoalInv ==
  /\ TypeInv
  /\ settled \in Options \cup {None}
  /\ settled # None => created /\ info # None

LEMMA PStep ==
  ASSUME settled \in Options \cup {None}, [PNext]_pvars
  PROVE  [Next]_vars
<1>1. CASE \E o \in Options : Settle(o)
  BY <1>1 DEF Settle
<1>2. ASSUME NEW c \in Calls, Retry(c) PROVE Next
  <2>1. settled \in Options
    BY <1>2 DEF Retry
  <2> QED BY <1>2, <2>1, RetryIsDriver
<1>3. ASSUME NEW c \in Calls, Undisturbed(c) PROVE Next
  BY <1>3, WorkIsDriver DEF Undisturbed
<1>4. CASE ControllerStep(Controllers)
  BY <1>4 DEF ControllerStep, Next
<1>5. CASE UNCHANGED pvars
  BY <1>5 DEF pvars
<1> QED BY <1>1, <1>2, <1>3, <1>4, <1>5 DEF PNext

LEMMA GoalChange ==
  ASSUME settled \in Options \cup {None}, [PNext]_pvars
  PROVE  \/ settled' = settled
         \/ settled = None /\ settled' \in Options /\ created /\ info # None /\ UNCHANGED vars
BY DEF PNext, Settle, Retry, Undisturbed, ControllerStep, pvars

\* Once there is a created cluster with a state, there always is.
LEMMA StateStays ==
  ASSUME TypeInv, [Next]_vars, created, info # None
  PROVE  created' /\ info' # None
<1>1. CallOK /\ CallerOK
  BY TypeInvParts
<1>2. info' # None
  <2>1. info' = info \/ \E c \in Calls : Running(c) /\ info' = call[c].v
    BY KeptState
  <2>2. \A c \in Calls : Running(c) => call[c].v # None
    BY <1>1, RunningStep, NoneFacts
  <2> QED BY <2>1, <2>2
<1>3. created'
  <2>1. Outside \/ AllEnd \/ \E c \in Calls : Moves(c)
    BY OverlapCase
  <2>2. CASE Outside \/ AllEnd
    BY <2>2 DEF Outside, AllEnd
  <2>3. ASSUME NEW c \in Calls, Moves(c) PROVE created'
    <3>1. CASE Outside
      BY <3>1 DEF Outside
    <3>2. CASE Starts(c)
      <4>1. UNCHANGED caller
        BY <3>2 DEF Starts, Begin
      <4> QED BY <4>1 DEF caller
    <3>3. CASE Breaks(c) \/ Finishes(c)
      BY <3>3 DEF Breaks, Finishes
    <3>4. CASE Goes(c, 0) \/ Goes(c, 1)
      BY <3>4 DEF Goes, caller
    <3> QED BY <2>3, <3>1, <3>2, <3>3, <3>4 DEF Moves, Cases, Overtaken, Succeeds, Looks, Lists,
              DropsPool, DropsInfra, PutsOn, PassesGate
  <2> QED BY <2>1, <2>2, <2>3
<1> QED BY <1>2, <1>3

LEMMA GoalInit == ASSUME PInit PROVE GoalInv
BY InitType DEF PInit, GoalInv

LEMMA GoalStep ==
  ASSUME GoalInv, [PNext]_pvars
  PROVE  GoalInv'
<1>1. TypeInv'
  BY PStep, StepType DEF GoalInv
<1>2. CASE settled' = settled
  BY <1>1, <1>2, PStep, StateStays DEF GoalInv
<1>3. CASE settled = None /\ settled' \in Options /\ created /\ info # None /\ UNCHANGED vars
  BY <1>1, <1>3 DEF GoalInv, vars, caller
<1> QED BY <1>2, <1>3, GoalChange DEF GoalInv

\* Every behaviour of a caller that retries is one of Rollout, so whatever is
\* proved of Rollout holds for it.
THEOREM RetriesAreRuns == PSpec => Spec
<1>1. PInit => GoalInv /\ Init
  BY GoalInit DEF PInit
<1>2. GoalInv /\ [PNext]_pvars => GoalInv'
  BY GoalStep
<1>3. GoalInv /\ [PNext]_pvars => [Next]_vars
  BY PStep DEF GoalInv
<1> QED BY <1>1, <1>2, <1>3, PTL DEF PSpec, Spec

\* A settled goal can always be asked for again: no failure on the way to it
\* loses the state that Update starts from.
THEOREM CanAlwaysRetry ==
  PSpec => [](settled # None => settled \in Options /\ created /\ info \in Variables)
<1>1. PInit => GoalInv
  BY GoalInit
<1>2. GoalInv /\ [PNext]_pvars => GoalInv'
  BY GoalStep
<1>3. GoalInv => (settled # None => settled \in Options /\ created /\ info \in Variables)
  BY TypeInvParts DEF GoalInv, CallerOK
<1> QED BY <1>1, <1>2, <1>3, PTL DEF PSpec

-----------------------------------------------------------------------------
(* The goal in force.  No call is at work and none starts, and a controller *)
(* finds nothing to do: all that is wanted has the phase, the version and   *)
(* the content it should have, and nothing wanted is being deleted, which   *)
(* is what SuccessMeansKept adds.                                           *)

LEMMA InForceFacts ==
  ASSUME GoalInv, SuccessMeansKept, InForce
  PROVE  /\ Delivered /\ settled # None /\ info \in Variables
         /\ info.version = settled.version
         /\ \A c \in Calls : ~Running(c)
         /\ \A k \in WantedKeys(info) : k \in Keys /\ Exists(k) /\ ~store[k].dying
                                        /\ store[k].content = Render(k, info)
         /\ ListedPools = WantedPools(info) /\ \A p \in ListedPools : phase[p] = "Running"
<1>1. /\ Delivered /\ settled # None /\ info = SetUpdateValues(info, settled, info.cred)
      /\ outcome = "Update" /\ \A c \in Calls : ~Running(c)
      /\ \A k \in WantedKeys(info) : Exists(k) /\ store[k].content = Render(k, info)
      /\ ListedPools = WantedPools(info) /\ \A p \in ListedPools : phase[p] = "Running"
  BY DEF InForce, Delivered
<1>2. info \in Variables
  BY <1>1, TypeInvParts DEF GoalInv, CallerOK
<1>3. info.version = settled.version
  BY <1>1, <1>2 DEF SetUpdateValues, Variables
<1>4. \A k \in WantedKeys(info) : k \in Keys /\ ~store[k].dying
  BY <1>1, <1>2, RenderType DEF SuccessMeansKept
<1> QED BY <1>1, <1>2, <1>3, <1>4

\* Nobody has written, and what runs is the wanted version.
LEMMA InForceUnmoved ==
  ASSUME InForce, UNCHANGED <<info, outcome, call, settled, store, phase>>,
         runs' = runs \/ runs' = settled.version
  PROVE  InForce'
BY DEF InForce, Delivered, Running, Exists, ListedPools

LEMMA InForceControllers ==
  ASSUME GoalInv, SuccessMeansKept, InForce, Controllers, settled' = settled
  PROVE  InForce'
<1>1. CASE InfrastructureUp
  BY <1>1, InForceUnmoved DEF InfrastructureUp, caller
<1>2. CASE ControlPlaneUp
  <2>1. Cluster \in WantedKeys(info) /\ ControlPlane(info.display) \in WantedKeys(info)
    BY DEF WantedKeys
  <2>2. store[Cluster].content = Render(Cluster, info)
    BY <2>1, InForceFacts
  <2>3. store[ControlPlane(info.display)].content = Render(ControlPlane(info.display), info)
    BY <2>1, InForceFacts
  <2>4. /\ Render(Cluster, info) = [controlPlaneRef |-> info.display]
        /\ Render(ControlPlane(info.display), info) = [version |-> info.version]
    BY DEF Render, Cluster, ControlPlane
  <2>5. runs' = settled.version
    BY <1>2, <2>2, <2>3, <2>4, InForceFacts DEF ControlPlaneUp
  <2> QED BY <1>2, <2>5, InForceUnmoved DEF ControlPlaneUp, caller
<1>3. ASSUME NEW p \in Pools, Exists(MachinePool(p))
      PROVE  /\ phase[p] = "Running" /\ ~store[MachinePool(p)].dying
             /\ p \in WantedPools(info)
  <2>1. p \in ListedPools
    BY <1>3 DEF ListedPools
  <2>2. p \in WantedPools(info) /\ phase[p] = "Running"
    BY <2>1, InForceFacts
  <2>3. MachinePool(p) \in WantedKeys(info)
    BY <2>2 DEF WantedKeys
  <2> QED BY <2>2, <2>3, InForceFacts
<1>4. ASSUME NEW p \in Pools PROVE ~PoolUp(p) /\ ~PoolDeleting(p)
  BY <1>3 DEF PoolUp, PoolDeleting, SetPhase
<1>5. ASSUME NEW p \in Pools, Finalize(p) PROVE InForce'
  <2>1. PICK gone \in {{MachinePool(p), OCIMachinePool(p)}, {OCIMachinePool(p)}} :
          /\ \E k \in gone : Exists(k) /\ store[k].dying /\ (MachinePool(p) \in gone => k = MachinePool(p))
          /\ store' = [k \in Keys |-> IF k \in gone THEN None ELSE store[k]]
          /\ phase' = IF MachinePool(p) \in gone THEN [phase EXCEPT ![p] = "Pending"] ELSE phase
          /\ UNCHANGED <<caller, call, runs>>
    BY <1>5 DEF Finalize
  <2>2. MachinePool(p) \notin gone
    BY <1>3, <2>1
  <2>3. gone = {OCIMachinePool(p)} /\ store[OCIMachinePool(p)].dying /\ phase' = phase
    BY <2>1, <2>2
  <2>4. OCIMachinePool(p) \notin WantedKeys(info)
    BY <2>3, InForceFacts
  <2>5. /\ \A k \in WantedKeys(info) : store'[k] = store[k]
        /\ \A q \in Pools : store'[MachinePool(q)] = store[MachinePool(q)]
    <3>1. \A q \in Pools : MachinePool(q) \in Keys /\ MachinePool(q) # OCIMachinePool(p)
      BY WorkerKeysAreKeys DEF MachinePool, OCIMachinePool
    <3> QED BY <2>1, <2>3, <2>4, <3>1, InForceFacts
  <2>6. UNCHANGED <<info, outcome, call, runs, phase>>
    BY <2>1, <2>3 DEF caller
  <2>7. ListedPools' = ListedPools
    BY <2>5 DEF ListedPools, Exists
  <2> QED BY <2>5, <2>6, <2>7 DEF InForce, Delivered, Running, Exists
<1> QED BY <1>1, <1>2, <1>4, <1>5 DEF Controllers

\* A goal that is in force stays in force: the half of Converges that needs no
\* fairness.
THEOREM InForceStays ==
  ASSUME SerialCalls, Calls # {}, ~DeletionLag
  PROVE  PSpec => [](InForce => []InForce)
<1>1. PInit => GoalInv
  BY GoalInit
<1>2. GoalInv /\ [PNext]_pvars => GoalInv'
  BY GoalStep
<1>3. GoalInv /\ SuccessMeansKept /\ InForce /\ [PNext]_pvars => InForce'
  <2> SUFFICES ASSUME GoalInv, SuccessMeansKept, InForce, [PNext]_pvars PROVE InForce'
    OBVIOUS
  <2>1. Delivered /\ settled # None /\ \A c \in Calls : ~Running(c)
    BY InForceFacts
  <2>2. ASSUME NEW c \in Calls PROVE ~Retry(c) /\ ~Undisturbed(c)
    <3>1. ~Work(c)
      BY <2>1 DEF Work, Get, Merge, Conflict, CreateObject, AlreadyExists, CheckCluster, CheckPools,
         NotReady, ListPools, DeletePool, DeleteInfra, Pruned, AtStep
    <3> QED BY <2>1, <3>1 DEF Retry, Undisturbed
  <2>3. CASE ControllerStep(Controllers)
    BY <2>3, InForceControllers DEF ControllerStep
  <2>4. CASE UNCHANGED pvars
    BY <2>4, InForceUnmoved DEF pvars, vars, caller, driver, status
  <2> QED BY <2>1, <2>2, <2>3, <2>4 DEF PNext, Settle
<1>4. Spec => []SuccessMeansKept
  BY SuccessLasts
<1> QED BY <1>1, <1>2, <1>3, <1>4, RetriesAreRuns, PTL DEF PSpec

-----------------------------------------------------------------------------
(* On course for the goal.  A deletion begins at a pool that is in line for *)
(* it, and those were listed as unwanted by the state of a call: for any    *)
(* number of calls, and however late a phase tells of a deletion.           *)

SparesWanted ==
  \A c \in Calls : Running(c) =>
    /\ call[c].doomed \cap WantedPools(call[c].v) = {}
    /\ call[c].infra \notin WantedPools(call[c].v)

LEMMA SparesStep ==
  ASSUME TypeInv, SparesWanted, [Next]_vars
  PROVE  SparesWanted'
<1>1. Outside \/ AllEnd \/ \E c \in Calls : Moves(c)
  BY OverlapCase
<1>2. CASE Outside \/ AllEnd
  BY <1>2 DEF Outside, AllEnd, SparesWanted, Running
<1>3. ASSUME NEW c \in Calls, Moves(c) PROVE SparesWanted'
  <2> DEFINE Spares(f) == f.doomed \cap WantedPools(f.v) = {} /\ f.infra \notin WantedPools(f.v)
  <2>1. SUFFICES ASSUME call'[c] # None, ~Outside PROVE Spares(call'[c])
    <3>1. \A d \in Calls \ {c} : call'[d] = call[d]
      BY <1>3 DEF Moves
    <3>2. CASE Outside
      BY <1>2, <3>2
    <3> QED BY <2>1, <3>1, <3>2 DEF SparesWanted, Running
  <2>2. CASE Starts(c)
    <3>1. PICK op \in Ops, v \in Variables : Begin(c, op, v)
      BY <2>2 DEF Starts
    <3>2. call'[c].v = v /\ call'[c].doomed = {} /\ call'[c].infra = None
      BY <3>1, StartFrame, TypeInvParts
    <3>3. WantedPools(v) \subseteq Pools
      BY PoolNamedType
    <3> QED BY <3>2, <3>3, NoneFacts
  <2>3. CASE Goes(c, 0) \/ Goes(c, 1)
    <3>1. Running(c) /\ call'[c].v = call[c].v /\ Spares(call[c])
      BY <2>3 DEF Goes, SameCall, SparesWanted
    <3>2. CASE Keeps(c)
      BY <3>1, <3>2 DEF Keeps
    <3>3. CASE Lists(c)
      BY <3>1, <3>3 DEF Lists
    <3>4. ASSUME NEW p \in Pools, DropsPool(c, p) PROVE Spares(call'[c])
      <4>1. p \in call[c].doomed /\ call'[c].doomed = call[c].doomed \ {p} /\ call'[c].infra = p
        BY <3>4 DEF DropsPool, DoomsPool
      <4> QED BY <3>1, <4>1
    <3>5. CASE DropsInfra(c)
      <4>1. call'[c].doomed = call[c].doomed /\ call'[c].infra = None
        BY <3>5 DEF DropsInfra
      <4>2. WantedPools(call[c].v) \subseteq Pools
        BY <3>1, RunningStep, TypeInvParts, PoolNamedType
      <4> QED BY <3>1, <4>1, <4>2, NoneFacts
    <3>6. \/ Keeps(c) \/ Lists(c) \/ (\E p \in Pools : DropsPool(c, p)) \/ DropsInfra(c)
          \/ Starts(c)
      BY <1>3, <2>1 DEF Moves, Cases, Overtaken, Looks, PutsOn, PassesGate, Breaks, Succeeds, Finishes
    <3> QED BY <2>2, <3>2, <3>3, <3>4, <3>5, <3>6
  <2> QED BY <1>3, <2>1, <2>2, <2>3 DEF Moves, Cases, Overtaken, Looks, Lists, DropsPool, DropsInfra,
           PutsOn, PassesGate, Breaks, Succeeds, Finishes
<1> QED BY <1>1, <1>2, <1>3

\* An object that is there stays, unless a call dooms it or it was leaving.
LEMMA ThereStays ==
  ASSUME TypeInv, SparesWanted, [Next]_vars, NEW p \in Pools,
         There(MachinePool(p)), There(OCIMachinePool(p)),
         \A c \in Calls : Running(c) => p \in WantedPools(call[c].v)
  PROVE  There(MachinePool(p))' /\ There(OCIMachinePool(p))'
<1> DEFINE Own == {MachinePool(p), OCIMachinePool(p)}
<1>1. /\ StoreOK /\ phase \in [Pools -> Phases]
      /\ \A q \in Pools : MachinePool(q) \in Keys /\ OCIMachinePool(q) \in Keys
  BY TypeInvParts, WorkerKeysAreKeys DEF StatusOK
<1>2. \A k \in Own : k \in Keys /\ Exists(k) /\ k \notin leaving
  BY <1>1 DEF There, leaving
<1>3. \A q \in Pools \ {p} : MachinePool(q) \notin Own /\ OCIMachinePool(q) \notin Own
  BY DEF MachinePool, OCIMachinePool
<1> SUFFICES \A k \in Own : store'[k] # None /\ ~store'[k].dying
  BY DEF There, Exists
<1>4. Outside \/ AllEnd \/ \E c \in Calls : Moves(c)
  BY OverlapCase
<1>5. ASSUME store' = store PROVE \A k \in Own : store'[k] # None /\ ~store'[k].dying
  BY <1>2, <1>5 DEF leaving, Exists
<1>6. ASSUME NEW q \in Pools, NEW gone, Vanishes(q, gone)
      PROVE  \A k \in Own : store'[k] # None /\ ~store'[k].dying
  <2>1. gone \subseteq {MachinePool(q), OCIMachinePool(q)}
    BY <1>6 DEF Vanishes
  <2>2. q # p
    BY <1>2, <1>6 DEF Vanishes
  <2>3. \A k \in Own : store'[k] = store[k]
    BY <1>1, <1>2, <1>3, <1>6, <2>1, <2>2, VanishEffect
  <2> QED BY <1>2, <2>3 DEF leaving, Exists
<1>7. ASSUME NEW q \in Pools \ {p}, Doom(MachinePool(q)) \/ Doom(OCIMachinePool(q))
      PROVE  \A k \in Own : store'[k] # None /\ ~store'[k].dying
  <2>1. \A k \in Own : store'[k] = store[k]
    BY <1>1, <1>2, <1>3, <1>7, DoomedOne
  <2> QED BY <1>2, <2>1 DEF leaving, Exists
<1>8. ASSUME NEW c \in Calls, PutsObject(c)
      PROVE  \A k \in Own : store'[k] # None /\ ~store'[k].dying
  <2>1. \A k \in Own : store'[k] # None
    BY <1>2, <1>8 DEF PutsObject, Written, Exists
  <2>2. \A k \in Own : k \notin leaving'
    BY <1>2, <1>8 DEF PutsObject
  <2> QED BY <1>2, <2>1, <2>2 DEF leaving, Exists
<1>9. ASSUME NEW c \in Calls, Moves(c), ~Outside
      PROVE  \A k \in Own : store'[k] # None /\ ~store'[k].dying
  <2>1. ASSUME NEW q \in Pools, DoomsPool(c, q) PROVE q # p /\ Doom(MachinePool(q))
    BY <2>1 DEF DoomsPool, SparesWanted
  <2>2. CASE DoomsInfra(c)
    <3>1. Running(c) /\ call[c].infra # None /\ call[c].infra # p /\ Doom(OCIMachinePool(call[c].infra))
      BY <2>2 DEF DoomsInfra, SparesWanted
    <3>2. call[c].infra \in Pools
      BY <3>1, RunningStep, TypeInvParts DEF Frames
    <3> QED BY <1>7, <3>1, <3>2
  <2>3. Unmoved \/ PutsObject(c) \/ (\E q \in Pools : DoomsPool(c, q)) \/ DoomsInfra(c)
    BY <1>9 DEF Moves, Cases, Overtaken, Starts, Breaks, Succeeds, Looks, Lists, DropsPool,
       DropsInfra, PutsOn, PassesGate
  <2> QED BY <1>5, <1>7, <1>8, <2>1, <2>2, <2>3 DEF Unmoved
<1>10. CASE Outside
  BY <1>5, <1>6, <1>10 DEF Outside, Health
<1> QED BY <1>4, <1>5, <1>9, <1>10 DEF AllEnd

\* A call goes on for the goal, and a new one is for the goal too.
LEMMA CourseCalls ==
  ASSUME GoalInv, settled # None, [PNext]_pvars, NEW c \in Calls, Running(c)',
         \A d \in Calls : Running(d) =>
           call[d].op = "Update" /\ call[d].v.pools = ParseNodePools(settled.pools)
  PROVE  call'[c].op = "Update" /\ call'[c].v.pools = ParseNodePools(settled.pools)
<1> DEFINE ForGoal(f) == f.op = "Update" /\ f.v.pools = ParseNodePools(settled.pools)
<1>1. TypeInv /\ CallOK /\ settled # None /\ info \in Variables
      /\ \A d \in Calls : Running(d) => ForGoal(call[d])
  BY TypeInvParts DEF GoalInv, CallerOK
<1>2. ASSUME NEW d \in Calls, Retry(d) PROVE ForGoal(call'[c])
  <2> DEFINE v == SetUpdateValues(info, settled, cloudCred)
  <2>1. Begin(d, "Update", v)
    BY <1>2 DEF Retry, StartUpdate
  <2>2. v.pools = ParseNodePools(settled.pools)
    BY <1>1 DEF SetUpdateValues, Variables
  <2> HIDE DEF v
  <2>3. CASE c = d
    BY <1>1, <2>1, <2>2, <2>3, StartFrame
  <2>4. CASE c # d
    <3>1. call'[c] = call[c]
      BY <1>1, <2>1, <2>4 DEF Begin, CallOK
    <3> QED BY <1>1, <3>1 DEF Running
  <2> QED BY <2>3, <2>4
<1>3. ASSUME NEW d \in Calls, Undisturbed(d) PROVE ForGoal(call'[c])
  <2>1. Work(d) /\ Driver(d)
    BY <1>3 DEF Undisturbed, Driver
  <2>2. /\ Cases(d) \/ Overtaken(d)
        /\ \A e \in Calls \ {d} : call'[e] = call[e]
    BY <1>1, <2>1, WorkCase, OthersKeep
  <2>3. Running(d)
    BY <2>1 DEF Work, Get, Merge, Conflict, CreateObject, AlreadyExists, CheckCluster, CheckPools,
       NotReady, ListPools, DeletePool, DeleteInfra, Pruned, AtStep
  <2>4. CASE c # d
    <3>1. call'[c] = call[c]
      BY <2>2, <2>4
    <3> QED BY <1>1, <3>1 DEF Running
  <2>5. CASE c = d
    <3>1. \/ Goes(d, 0) \/ Goes(d, 1) \/ call'[d] = call[d]
      BY <2>2, <2>3, <2>5 DEF Cases, Overtaken, Outside, Starts, Begin, Breaks, Succeeds, Finishes,
         Looks, Lists, DropsPool, DropsInfra, PutsOn, PassesGate, Running
    <3>2. CASE Goes(d, 0) \/ Goes(d, 1)
      BY <1>1, <2>3, <2>5, <3>2 DEF Goes, SameCall
    <3> QED BY <1>1, <2>3, <2>5, <3>1, <3>2
  <2> QED BY <2>4, <2>5
<1>4. CASE ControllerStep(Controllers) \/ UNCHANGED pvars
  <2>1. call' = call
    BY <1>4 DEF ControllerStep, Controllers, InfrastructureUp, ControlPlaneUp, PoolUp, PoolDeleting,
       SetPhase, Finalize, pvars, vars, driver
  <2> QED BY <1>1, <2>1 DEF Running
<1> QED BY <1>1, <1>2, <1>3, <1>4 DEF PNext, Settle

\* While Updates for the goal are the only calls, no step takes a pool the goal
\* keeps, for any number of calls and however late phases tell of deletions.
THEOREM PoolsSurvive == PSpec => GoalPoolsSurvive
<1>1. PInit => GoalInv /\ SparesWanted
  BY GoalInit DEF PInit, Init, SparesWanted, Running
<1>2. GoalInv /\ SparesWanted /\ [PNext]_pvars => GoalInv' /\ SparesWanted'
  BY GoalStep, PStep, SparesStep DEF GoalInv
<1>3. GoalInv /\ SparesWanted /\ [PNext]_pvars => (OnCourse => OnCourse')
  <2> SUFFICES ASSUME GoalInv, SparesWanted, [PNext]_pvars, OnCourse PROVE OnCourse'
    OBVIOUS
  <2>1. settled # None /\ settled' = settled /\ settled \in DriverOptions
    BY GoalChange, OptionsAssumption DEF GoalInv, OnCourse
  <2>2. ASSUME NEW i \in DOMAIN settled.pools, NEW p, p = settled.pools[i].name
        PROVE  There(MachinePool(p))' /\ There(OCIMachinePool(p))'
    <3>1. p \in Pools
      <4>1. settled.pools \in Seq(NodePool)
        BY <2>1 DEF DriverOptions
      <4>2. settled.pools[i] \in NodePool
        BY <2>2, <4>1
      <4> QED BY <2>2, <4>2 DEF NodePool
    <3>2. There(MachinePool(p)) /\ There(OCIMachinePool(p))
      BY <2>2 DEF OnCourse
    <3>3. ASSUME NEW c \in Calls, Running(c) PROVE p \in WantedPools(call[c].v)
      BY <2>2, <3>3 DEF OnCourse, ParseNodePools, WantedPools
    <3>4. TypeInv /\ [Next]_vars
      BY PStep DEF GoalInv
    <3> QED BY <3>1, <3>2, <3>3, <3>4, ThereStays
  <2>3. \A c \in Calls : Running(c)' =>
          call'[c].op = "Update" /\ call'[c].v.pools = ParseNodePools(settled.pools)
    BY CourseCalls DEF OnCourse
  <2> QED BY <2>1, <2>2, <2>3 DEF OnCourse, There, Exists
<1> QED BY <1>1, <1>2, <1>3, PTL DEF PSpec, GoalPoolsSurvive

-----------------------------------------------------------------------------
(* From no pools to some.  The gate in front of the workers asks for a      *)
(* running MachinePool (ready.go), and an Update makes its first MachinePool *)
(* behind that gate: a cluster that has none does not get one.              *)

\* A goal with pools, no MachinePool, and no call past the gate, which is the third
\* step of UpdateCluster.
Stranded ==
  /\ settled # None /\ settled.pools # <<>> /\ ~Delivered
  /\ ListedPools = {}
  /\ \A c \in Calls : Running(c) =>
       /\ call[c].op = "Update" /\ call[c].v.pools = ParseNodePools(settled.pools)
       /\ call[c].at <= 3

\* Up to that gate an Update writes the credential and the control plane.
LEMMA StepsToTheGate ==
  ASSUME TypeInv, NEW c \in Calls, Running(c), call[c].op = "Update", call[c].at <= 3
  PROVE  /\ call[c].at \in 1 .. 3 /\ call[c].at # Len(Plan(call[c].op, call[c].v))
         /\ Step(c).do = "gate" \/ (Step(c).do = "put" /\ call[c].at # 3)
         /\ Step(c).do = "put" => \A p \in Pools : Step(c).key # MachinePool(p)
<1> DEFINE v == call[c].v
<1>1. call[c] \in Frames /\ v \in Variables /\ call[c].at \in 1 .. Len(Plan(call[c].op, v))
  BY RunningStep, TypeInvParts DEF Frames, CallOK
<1>2. Plan(call[c].op, v) = UpdateCluster(v)
  BY DEF Plan
<1>3. /\ Len(UpdateCluster(v)) = Len(Workers(v)) + 9 /\ Len(Workers(v)) \in Nat
      /\ UpdateCluster(v)[1] = Put(PrincipalSecret)
      /\ UpdateCluster(v)[2] = Put(ControlPlane(v.display)) /\ UpdateCluster(v)[3] = Gate
  BY <1>1, UpdateClusterSteps
<1>4. call[c].at \in 1 .. 3 /\ call[c].at # Len(Plan(call[c].op, v))
  BY <1>1, <1>2, <1>3
<1>5. Step(c) = UpdateCluster(v)[call[c].at]
  BY <1>2 DEF Step
<1>6. \/ call[c].at = 3 /\ Step(c) = Gate
      \/ call[c].at # 3 /\ Step(c) \in {Put(PrincipalSecret), Put(ControlPlane(v.display))}
  BY <1>3, <1>4, <1>5
<1> QED BY <1>4, <1>6 DEF Put, Gate, PrincipalSecret, ControlPlane, MachinePool

\* No step makes a MachinePool, ends an Update with success or takes one past the gate.
LEMMA StrandedMove ==
  ASSUME TypeInv, Stranded, [Next]_vars
  PROVE  /\ outcome' = "failed" \/ UNCHANGED <<info, outcome>>
         /\ \A p \in Pools : store'[MachinePool(p)] = None
         /\ \A c \in Calls : Running(c)' => call'[c].at <= 3
<1> DEFINE Made == \E p \in Pools : store'[MachinePool(p)] # None
           Early(c) == Running(c)' => call'[c].at <= 3
<1>1. CallOK /\ \A p \in Pools : MachinePool(p) \in Keys /\ store[MachinePool(p)] = None
  BY TypeInvParts, WorkerKeysAreKeys DEF Stranded, ListedPools, Exists
<1>2. Outside \/ AllEnd \/ \E c \in Calls : Moves(c)
  BY OverlapCase
<1>3. ASSUME store' = store PROVE ~Made
  BY <1>1, <1>3
<1>4. CASE Outside
  <2>1. UNCHANGED <<call, info>> /\ outcome' \in {outcome, "failed"}
    BY <1>4 DEF Outside
  <2>2. ~Made
    BY <1>1, <1>3, <1>4 DEF Outside, Health, Vanishes
  <2> QED BY <2>1, <2>2 DEF Stranded, Running
<1>5. CASE AllEnd
  BY <1>3, <1>5 DEF AllEnd, Running
<1>6. ASSUME NEW c \in Calls, Moves(c), ~Outside
      PROVE  (outcome' = "failed" \/ UNCHANGED <<info, outcome>>) /\ ~Made /\ Early(c)
  <2>1. CASE Starts(c)
    <3>1. PICK op \in Ops, v \in Variables : Begin(c, op, v)
      BY <2>1 DEF Starts
    <3>2. call'[c].at = 1 /\ UNCHANGED <<caller, store>>
      BY <1>1, <3>1, StartFrame
    <3> QED BY <1>3, <3>2 DEF caller
  <2>2. ASSUME Running(c)
        PROVE  /\ call[c].at \in 1 .. 3 /\ call[c].at # Len(Plan(call[c].op, call[c].v))
               /\ Step(c).do = "gate" \/ (Step(c).do = "put" /\ call[c].at # 3)
               /\ Step(c).do = "put" => \A p \in Pools : Step(c).key # MachinePool(p)
               /\ call[c].v.pools # <<>>
    BY <2>2, StepsToTheGate DEF Stranded, ParseNodePools
  <2>3. ASSUME PutsObject(c) PROVE ~Made
    <3>1. \A p \in Pools : Step(c).key # MachinePool(p)
      BY <2>2, <2>3 DEF PutsObject
    <3>2. \A p \in Pools : store'[MachinePool(p)] = store[MachinePool(p)]
      BY <1>1, <2>3, <3>1 DEF PutsObject
    <3> QED BY <1>1, <3>2
  <2>4. ~DoomsInfra(c) /\ \A p \in Pools : ~DoomsPool(c, p)
    BY <2>2 DEF DoomsPool, DoomsInfra
  <2>5. ~Finishes(c)
    BY <2>2 DEF Finishes
  <2>6. ~PassesGate(c)
    <3>1. ~areMachinePoolsReady
      BY DEF Stranded, areMachinePoolsReady
    <3> QED BY <2>2, <3>1 DEF PassesGate, Goes
  <2>7. CASE Breaks(c)
    <3>1. call'[c] = None /\ outcome' = "failed"
      BY <2>7 DEF Breaks
    <3>2. ~Made
      BY <1>3, <2>3, <2>4, <2>7 DEF Breaks, Unmoved
    <3> QED BY <3>1, <3>2 DEF Running
  <2>8. CASE Goes(c, 0) /\ (Unmoved \/ PutsObject(c))
    <3>1. call'[c].at = call[c].at + 0 /\ UNCHANGED caller /\ call[c].at \in 1 .. 3
      BY <2>2, <2>8 DEF Goes
    <3>2. ~Made
      BY <1>3, <2>3, <2>8 DEF Unmoved
    <3> QED BY <3>1, <3>2 DEF caller
  <2>9. CASE Goes(c, 1) /\ Step(c).do = "put" /\ (Unmoved \/ PutsObject(c))
    <3>1. call'[c].at = call[c].at + 1 /\ UNCHANGED caller /\ call[c].at \in 1 .. 2
      BY <2>2, <2>9 DEF Goes
    <3>2. ~Made
      BY <1>3, <2>3, <2>9 DEF Unmoved
    <3> QED BY <3>1, <3>2 DEF caller
  <2>10. \/ Starts(c) \/ Breaks(c) \/ (Goes(c, 0) /\ (Unmoved \/ PutsObject(c)))
         \/ (Goes(c, 1) /\ Step(c).do = "put" /\ (Unmoved \/ PutsObject(c)))
    BY <1>6, <2>4, <2>5, <2>6 DEF Moves, Cases, Overtaken, Succeeds, Looks, Lists, DropsPool,
       DropsInfra, PutsOn, PutsObject
  <2> QED BY <2>1, <2>7, <2>8, <2>9, <2>10
<1>7. ASSUME NEW c \in Calls, Moves(c), ~Outside, NEW d \in Calls PROVE Early(d)
  <2>1. CASE d = c
    BY <1>6, <1>7, <2>1
  <2>2. CASE d # c
    BY <1>7, <2>2 DEF Moves, Stranded, Running
  <2> QED BY <2>1, <2>2
<1> QED BY <1>2, <1>4, <1>5, <1>6, <1>7

\* A goal with pools is never delivered to a cluster that has no MachinePool, however
\* often and by however many calls Update is repeated.
THEOREM NoPoolsNoDelivery == PSpec => [](Stranded => []~Delivered)
<1>1. PInit => GoalInv
  BY GoalInit
<1>2. GoalInv /\ [PNext]_pvars => GoalInv'
  BY GoalStep
<1>3. GoalInv /\ Stranded /\ [PNext]_pvars => Stranded'
  <2> SUFFICES ASSUME GoalInv, Stranded, [PNext]_pvars PROVE Stranded'
    OBVIOUS
  <2>1. settled # None /\ settled' = settled
    BY GoalChange DEF GoalInv, Stranded
  <2>2. /\ outcome' = "failed" \/ UNCHANGED <<info, outcome>>
        /\ \A p \in Pools : store'[MachinePool(p)] = None
        /\ \A c \in Calls : Running(c)' => call'[c].at <= 3
    BY StrandedMove, PStep DEF GoalInv
  <2>3. \A c \in Calls : Running(c)' =>
          call'[c].op = "Update" /\ call'[c].v.pools = ParseNodePools(settled.pools)
    BY <2>1, CourseCalls DEF Stranded
  <2>4. ~Delivered'
    BY <2>1, <2>2 DEF Stranded, Delivered
  <2>5. ListedPools' = {}
    BY <2>2 DEF ListedPools, Exists
  <2> QED BY <2>1, <2>2, <2>3, <2>4, <2>5 DEF Stranded
<1>4. Stranded => ~Delivered
  BY DEF Stranded
<1> QED BY <1>1, <1>2, <1>3, <1>4, PTL DEF PSpec
=============================================================================
