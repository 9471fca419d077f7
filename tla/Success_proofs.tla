--------------------------- MODULE Success_proofs ---------------------------
(***************************************************************************)
(* One call at a time, and with phases that report a deletion from its     *)
(* start: what a rollout reports as a success is in force whole and stays  *)
(* so, and no pool is deleted before everything wanted has been up.  For   *)
(* any pools, versions, options and operations.                            *)
(*                                                                         *)
(* The properties speak of the moment a call returns and of later states;  *)
(* the invariant has to follow the call from its first put.  What it adds  *)
(* to StayInv and PruneInv is which objects can be leaving at all: workers *)
(* only, the MachinePool whenever its OCIManagedMachinePool is, with phase *)
(* Deleting, and none of them wanted by a rollout that is past its first   *)
(* gate.                                                                   *)
(*                                                                         *)
(* Then calls that are cut off, and calls that overlap: whatever step that *)
(* is and whatever they ask for, the Cluster refers to a control plane     *)
(* that exists.  Last, any number of calls that all ask for the same,      *)
(* whose successes are whole again.                                        *)
(***************************************************************************)
EXTENDS StagedUpdate_proofs

\* The operations that put everything their state asks for.
Whole == {"Create", "Update", "SetVersion"}

LeavingInv ==
  /\ leaving \subseteq WorkerKeys
  /\ \A p \in Pools : OCIMachinePool(p) \in leaving => MachinePool(p) \in leaving
  /\ \A p \in Pools : MachinePool(p) \in leaving => phase[p] = "Deleting"
  /\ ~created => leaving = {}

\* Create comes before anything is created, and SetVersion works on the kept state.
OriginInv ==
  \A c \in Calls : Running(c) =>
    /\ call[c].op = "Create" <=> ~created
    /\ call[c].op = "SetVersion" => call[c].v = info

\* A pool in line for deletion has its MachinePool, unless both its objects are
\* gone, and the one whose infrastructure is next is leaving.
DoomedInv ==
  \A c \in Calls : Running(c) =>
    /\ (Step(c).do # "prune" \/ call[c].seen = "nothing") =>
         call[c].doomed = {} /\ call[c].infra = None
    /\ \A p \in Pools : (p \in call[c].doomed \/ p = call[c].infra) /\ Exists(OCIMachinePool(p)) =>
                          Exists(MachinePool(p))
    /\ \A p \in Pools : p = call[c].infra /\ Exists(MachinePool(p)) => MachinePool(p) \in leaving

PastGate(c) == call[c].op \in {"Update", "SetVersion"} /\ call[c].at > 3

\* Past the first gate nothing wanted is leaving, so all that was put is there,
\* and at the prune every wanted pool has been up.
WantedStay(c) == PastGate(c) => \A p \in WantedPools(call[c].v) : MachinePool(p) \notin leaving

PutsStay(c) ==
  call[c].op # "SetClusterSize" => \A k \in Behind(call[c].op, call[c].v, call[c].at) : Exists(k)

WantedUp(c) ==
  Step(c).do = "prune" => \A p \in WantedPools(call[c].v) : phase[p] \in {"Running", "Failed"}

HealthyInv == \A c \in Calls : Running(c) => WantedStay(c) /\ PutsStay(c) /\ WantedUp(c)

\* The state v is in effect: everything it asks for is there and stays.
InEffect(v) ==
  \A k \in WantedKeys(v) : Exists(k) /\ store[k].content = Render(k, v) /\ k \notin leaving

OthersLeave(v) ==
  \A p \in Pools \ WantedPools(v) : Exists(MachinePool(p)) => MachinePool(p) \in leaving

SettledInv ==
  (\A c \in Calls : ~Running(c)) /\ outcome \in Whole =>
    info \in Variables /\ InEffect(info) /\ (outcome # "Create" => OthersLeave(info))

KeepInv ==
  RefineInv /\ LeavingInv /\ OriginInv /\ DoomedInv /\ HealthyInv /\ SettledInv

-----------------------------------------------------------------------------
(* What a step does to the objects and the phases.                         *)

Unmoved == store' = store /\ phase' = phase

\* A pool's phase follows its health, and the deletion once there is one.
Health ==
  /\ store' = store
  /\ \A p \in Pools : \/ phase'[p] = phase[p]
                      \/ phase'[p] \in {"Running", "Failed"} /\ MachinePool(p) \notin leaving
                      \/ phase'[p] = "Deleting" /\ MachinePool(p) \in leaving

PutsObject(c) ==
  LET k == Step(c).key IN
  /\ Running(c) /\ Step(c).do = "put" /\ k \in Keys
  /\ \A j \in Keys \ {k} : store'[j] = store[j]
  /\ Written(k, call[c].v)
  /\ leaving' = leaving
  /\ \A p \in Pools : phase'[p] = phase[p] \/ (MachinePool(p) = k /\ ~Exists(k))

DoomsPool(c, p) ==
  /\ Running(c) /\ Step(c).do = "prune" /\ call[c].seen = "found"
  /\ call[c].infra = None /\ p \in call[c].doomed
  /\ Doom(MachinePool(p))
  /\ phase' = IF Exists(MachinePool(p)) /\ ~DeletionLag
              THEN [phase EXCEPT ![p] = "Deleting"] ELSE phase

DoomsInfra(c) ==
  /\ Running(c) /\ Step(c).do = "prune" /\ call[c].seen = "found"
  /\ call[c].infra # None
  /\ Doom(OCIMachinePool(call[c].infra))
  /\ phase' = phase

\* Objects of pool p vanish, its MachinePool only if it was leaving.
Vanishes(p, gone) ==
  /\ gone \in {{MachinePool(p), OCIMachinePool(p)}, {OCIMachinePool(p)}}
  /\ IF MachinePool(p) \in gone THEN MachinePool(p) \in leaving ELSE OCIMachinePool(p) \in leaving
  /\ store' = [k \in Keys |-> IF k \in gone THEN None ELSE store[k]]
  /\ phase' = IF MachinePool(p) \in gone THEN [phase EXCEPT ![p] = "Pending"] ELSE phase

-----------------------------------------------------------------------------
(* What a step is to the one call there is.                                *)

Outside ==
  /\ call' = call /\ info' = info /\ created' = created /\ outcome' \in {outcome, "failed"}
  /\ Health \/ \E p \in Pools, gone \in SUBSET WorkerKeys : Vanishes(p, gone)

Starts(c) ==
  /\ \E op \in Ops, v \in Variables :
       /\ Begin(c, op, v)
       /\ op = "Create" <=> ~created
       /\ op = "SetVersion" => v = info
       /\ op = "SetClusterSize" => v.display = info.display
  /\ Unmoved

Breaks(c) ==
  /\ call'[c] = None /\ outcome' = "failed" /\ created' = created
  /\ info' = info \/ (Running(c) /\ (call[c].op = "Create" \/ TRUE \in KeepOnError))
  /\ Unmoved \/ PutsObject(c) \/ (\E p \in Pools : DoomsPool(c, p)) \/ DoomsInfra(c)

\* The call stays at its step or goes on to the next one.
Goes(c, n) ==
  /\ Running(c) /\ SameCall(call[c], call'[c]) /\ call'[c].at = call[c].at + n
  /\ n = 1 => call'[c].seen = "nothing"
  /\ UNCHANGED caller

Keeps(c) == call'[c].doomed = call[c].doomed /\ call'[c].infra = call[c].infra

Looks(c) ==
  /\ Goes(c, 0) /\ Keeps(c) /\ Step(c).do # "prune" /\ Unmoved
  /\ call'[c].seen = "missing" => ~Exists(Step(c).key)

Lists(c) ==
  /\ Goes(c, 0) /\ Step(c).do = "prune" /\ call[c].seen = "nothing" /\ Unmoved
  /\ call'[c].seen = "found" /\ call'[c].infra = call[c].infra
  /\ call'[c].doomed = ListedPools \ WantedPools(call[c].v)

DropsPool(c, p) ==
  /\ Goes(c, 0) /\ DoomsPool(c, p) /\ call'[c].seen = "found"
  /\ call'[c].doomed = call[c].doomed \ {p} /\ call'[c].infra = p

DropsInfra(c) ==
  /\ Goes(c, 0) /\ DoomsInfra(c) /\ call'[c].seen = "found"
  /\ call'[c].doomed = call[c].doomed /\ call'[c].infra = None

PutsOn(c) == Goes(c, 1) /\ Keeps(c) /\ PutsObject(c)

PassesGate(c) ==
  /\ Goes(c, 1) /\ Keeps(c) /\ Step(c).do = "gate" /\ Unmoved
  /\ call[c].v.pools = <<>> \/ areMachinePoolsReady

\* The call ends with its last step.
Finishes(c) ==
  /\ Running(c) /\ call'[c] = None /\ call[c].at = Len(Plan(call[c].op, call[c].v))
  /\ outcome' = call[c].op /\ created' = (created \/ call[c].op = "Create")
  /\ call[c].op \in {"Create", "Update"} => info' = call[c].v
  /\ call[c].op \notin {"Create", "Update"} => info' = info

Succeeds(c) ==
  /\ Finishes(c)
  /\ \/ PutsObject(c)
     \/ Step(c).do = "prune" /\ call[c].seen = "found" /\ call[c].doomed = {} /\ Unmoved

\* Another call created the object first, and that counts.
Overtaken(c) ==
  /\ Step(c).do = "put" /\ call[c].seen = "missing" /\ Exists(Step(c).key) /\ Unmoved
  /\ (Goes(c, 1) /\ Keeps(c)) \/ Finishes(c)

Cases(c) ==
  \/ Outside \/ Starts(c) \/ Breaks(c) \/ Succeeds(c)
  \/ Looks(c) \/ Lists(c) \/ (\E p \in Pools : DropsPool(c, p)) \/ DropsInfra(c)
  \/ PutsOn(c) \/ PassesGate(c)

-----------------------------------------------------------------------------
(* Every step is one of these.                                             *)

LEMMA StepOf ==
  ASSUME CallOK, NEW c \in Calls, Running(c)
  PROVE  /\ call[c].v \in Variables /\ call[c].at \in 1 .. Len(Plan(call[c].op, call[c].v))
         /\ Step(c) = Plan(call[c].op, call[c].v)[call[c].at]
BY RunningStep DEF Step

\* Where a call can be when it leaves a step.
LEMMA StepPlaces ==
  ASSUME CallOK, NEW c \in Calls, Running(c)
  PROVE  /\ Step(c).do = "gate" => call[c].at # Len(Plan(call[c].op, call[c].v))
         /\ Step(c).do = "prune" => call[c].at = Len(Plan(call[c].op, call[c].v))
         /\ Step(c).do # "put" => call[c].op \in {"Update", "SetVersion"}
<1> DEFINE g == [op |-> call[c].op, v |-> call[c].v]
<1>1. Prunes(g) <=> call[c].op \in {"Update", "SetVersion"}
  BY DEF Prunes
<1>2. CASE Prunes(g)
  BY <1>1, <1>2, StepOf, UpdateOrder
<1>3. CASE ~Prunes(g)
  BY <1>1, <1>3, StepOf, CreateOrder
<1> QED BY <1>2, <1>3

LEMMA FailCase ==
  ASSUME CallOK, CallerOK, NEW c \in Calls, Running(c), Return(c, FALSE)
  PROVE  /\ call'[c] = None /\ outcome' = "failed" /\ created' = created
         /\ info' = info \/ call[c].op = "Create" \/ TRUE \in KeepOnError
<1>1. call'[c] = None
  BY ReturnType
<1>2. outcome' = "failed"
  BY DEF Return
<1>3. created' = created
  BY Zenon DEF Return, CallerOK
<1>4. info' = info \/ call[c].op = "Create" \/ TRUE \in KeepOnError
  BY DEF Return
<1> QED BY <1>1, <1>2, <1>3, <1>4

LEMMA SuccessCase ==
  ASSUME CallOK, CallerOK, NEW c \in Calls, Running(c), Return(c, TRUE)
  PROVE  /\ call'[c] = None /\ outcome' = call[c].op
         /\ created' = (created \/ call[c].op = "Create")
         /\ call[c].op \in {"Create", "Update"} => info' = call[c].v
         /\ call[c].op \notin {"Create", "Update"} => info' = info
<1>1. call'[c] = None
  BY ReturnType
<1>2. outcome' = call[c].op
  BY DEF Return
<1>3. created' = (created \/ call[c].op = "Create")
  BY Zenon DEF Return, CallerOK
<1>4. call[c].op \in {"Create", "Update"} => info' = call[c].v
  BY DEF Return
<1>5. call[c].op \notin {"Create", "Update"} => info' = info
  BY DEF Return
<1> QED BY <1>1, <1>2, <1>3, <1>4, <1>5

\* The end of a step is the end of the call or the start of the next step.
LEMMA AdvanceCase ==
  ASSUME CallOK, CallerOK, NEW c \in Calls, Running(c), Advance(c)
  PROVE  (Goes(c, 1) /\ Keeps(c)) \/ Finishes(c)
<1> DEFINE n == Len(Plan(call[c].op, call[c].v))
           f == [call[c] EXCEPT !.at = @ + 1, !.seen = "nothing"]
<1>1. CASE call[c].at = n
  <2>1. Return(c, TRUE)
    BY <1>1 DEF Advance
  <2> QED BY <1>1, <2>1, SuccessCase DEF Finishes
<1>2. CASE call[c].at # n
  <2>1. call' = [call EXCEPT ![c] = f] /\ UNCHANGED caller
    BY <1>2 DEF Advance
  <2>2. call[c] \in Frames
    BY RunningStep
  <2>3. SameCall(call[c], f) /\ f.at = call[c].at + 1
    BY <2>2, FrameUpdates
  <2>4. f.doomed = call[c].doomed /\ f.infra = call[c].infra /\ f.seen = "nothing"
    BY <2>2, FrameFields
  <2> HIDE DEF f
  <2>5. call'[c] = f
    BY <2>1 DEF CallOK
  <2> QED BY <2>1, <2>3, <2>4, <2>5 DEF Goes, Keeps
<1> QED BY <1>1, <1>2

LEMMA PutCase ==
  ASSUME TypeInv, NEW c \in Calls, Merge(c) \/ CreateObject(c)
  PROVE  PutsObject(c) /\ AfterWrite(c)
<1> DEFINE k == Step(c).key
<1>1. CallOK /\ FreshOK /\ StoreOK
  BY TypeInvParts
<1>2. Running(c) /\ Step(c).do = "put" /\ AfterWrite(c)
  BY DEF Merge, CreateObject, AtStep
<1>3. k \in Keys /\ Render(k, call[c].v) \in Contents
  BY <1>1, <1>2, RunningStep
<1>4. \E o \in Object : /\ store' = [store EXCEPT ![k] = o] /\ o.content = Render(k, call[c].v)
                        /\ o.dying <=> Exists(k) /\ store[k].dying
  <2>1. CASE Merge(c)
    <3> DEFINE o == [store[k] EXCEPT !.content = Render(k, call[c].v)]
    <3>1. c \in fresh /\ call[c].seen = "found" /\ store' = [store EXCEPT ![k] = o]
      BY <2>1 DEF Merge, AtStep
    <3>2. Exists(k) /\ store[k] \in Object
      BY <1>1, <1>3, <3>1 DEF FreshOK, FreshReads, Exists, StoreOK
    <3>3. o \in Object /\ o.content = Render(k, call[c].v) /\ o.dying = store[k].dying
      BY <1>3, <3>2 DEF Object
    <3> HIDE DEF o, k
    <3> QED BY <3>1, <3>2, <3>3
  <2>2. CASE CreateObject(c)
    <3> DEFINE o == [content |-> Render(k, call[c].v), dying |-> FALSE]
    <3>1. ~Exists(k) /\ store' = [store EXCEPT ![k] = o]
      BY <2>2 DEF CreateObject
    <3>2. o \in Object /\ o.content = Render(k, call[c].v) /\ ~o.dying
      BY <1>3 DEF Object
    <3> HIDE DEF o, k
    <3> QED BY <3>1, <3>2
  <2> QED BY <2>1, <2>2
<1>5. \A p \in Pools : phase'[p] = phase[p] \/ (MachinePool(p) = k /\ ~Exists(k))
  <2>1. CASE Merge(c)
    BY <2>1 DEF Merge, status
  <2>2. CASE CreateObject(c)
    BY <2>2 DEF CreateObject
  <2> QED BY <2>1, <2>2
<1> HIDE DEF k
<1>6. leaving' = leaving
  BY <1>1, <1>3, <1>4, WriteIs DEF StoreOK
<1>7. /\ \A j \in Keys \ {k} : store'[j] = store[j]
      /\ Written(k, call[c].v)
  BY <1>1, <1>3, <1>4, NoneFacts DEF StoreOK, Written
<1> QED BY <1>2, <1>3, <1>5, <1>6, <1>7 DEF PutsObject, k

LEMMA InPlace ==
  ASSUME CallOK, NEW c \in Calls, Running(c), NEW f, SameCall(call[c], f), f.at = call[c].at,
         call' = [call EXCEPT ![c] = f], UNCHANGED caller
  PROVE  Goes(c, 0) /\ call'[c] = f
<1>1. call'[c] = f
  BY DEF CallOK
<1>2. call[c].at + 0 = call[c].at
  BY RunningStep DEF Frames
<1> QED BY <1>1, <1>2 DEF Goes

LEMMA WorkCase ==
  ASSUME TypeInv, NEW c \in Calls, Work(c) \/ RequestFails(c)
  PROVE  Cases(c) \/ Overtaken(c)
<1>1. CallOK /\ CallerOK /\ StoreOK
  BY TypeInvParts
<1>2. Running(c)
  BY DEF Work, RequestFails, Get, Merge, Conflict, CreateObject, AlreadyExists, CheckCluster,
         CheckPools, NotReady, ListPools, DeletePool, DeleteInfra, Pruned, AtStep
<1>3. call[c] \in Frames
  BY <1>1, <1>2, RunningStep
<1>4. CASE Conflict(c) \/ NotReady(c) \/ RequestFails(c)
  <2>1. Return(c, FALSE) /\ Unmoved
    BY <1>4 DEF Conflict, NotReady, RequestFails, Unmoved, status
  <2> QED BY <1>1, <1>2, <2>1, FailCase DEF Cases, Breaks
<1>5. CASE AlreadyExists(c)
  <2>1. /\ Step(c).do = "put" /\ call[c].seen = "missing" /\ Exists(Step(c).key) /\ Unmoved
        /\ Return(c, FALSE) \/ Advance(c)
    BY <1>5 DEF AlreadyExists, AtStep, Unmoved, status
  <2>2. CASE Return(c, FALSE)
    BY <1>1, <1>2, <2>1, <2>2, FailCase DEF Cases, Breaks
  <2>3. CASE Advance(c)
    BY <1>1, <1>2, <2>1, <2>3, AdvanceCase DEF Overtaken
  <2> QED BY <2>1, <2>2, <2>3
<1>6. CASE Merge(c) \/ CreateObject(c)
  <2>1. PutsObject(c) /\ AfterWrite(c)
    BY <1>6, PutCase
  <2>2. CASE Return(c, FALSE)
    BY <1>1, <1>2, <2>1, <2>2, FailCase DEF Cases, Breaks
  <2>3. CASE Advance(c)
    BY <1>1, <1>2, <2>1, <2>3, AdvanceCase DEF Cases, PutsOn, Succeeds, Finishes
  <2> QED BY <2>1, <2>2, <2>3 DEF AfterWrite
<1>7. ASSUME NEW x \in {"found", "missing"}, Step(c).do # "prune", Unmoved, UNCHANGED caller,
             x = "missing" => ~Exists(Step(c).key),
             call' = [call EXCEPT ![c] = [call[c] EXCEPT !.seen = x]]
      PROVE  Cases(c)
  <2> DEFINE f == [call[c] EXCEPT !.seen = x]
  <2>1. SameCall(call[c], f) /\ f.at = call[c].at
    <3>1. x \in {"nothing", "found", "missing"}
      OBVIOUS
    <3> QED BY <1>3, <3>1, FrameUpdates
  <2>2. f.doomed = call[c].doomed /\ f.infra = call[c].infra /\ f.seen = x
    BY <1>3, FrameFields
  <2>3. call' = [call EXCEPT ![c] = f]
    BY <1>7
  <2> HIDE DEF f
  <2>4. Goes(c, 0) /\ call'[c] = f
    BY <1>1, <1>2, <1>7, <2>1, <2>3, InPlace
  <2> QED BY <1>7, <2>2, <2>4 DEF Cases, Looks, Keeps
<1>8. CASE Get(c)
  <2>1. /\ Step(c).do # "prune" /\ Unmoved /\ UNCHANGED caller
        /\ \E x \in {"found", "missing"} :
             /\ call' = [call EXCEPT ![c] = [call[c] EXCEPT !.seen = x]]
             /\ x = "missing" => ~Exists(Step(c).key)
    BY <1>8 DEF Get, AtStep, Unmoved, status
  <2> QED BY <1>7, <2>1
<1>9. ASSUME Step(c).do = "gate", Unmoved, Advance(c),
             call[c].v.pools = <<>> \/ areMachinePoolsReady
      PROVE  Cases(c)
  <2>1. call[c].at # Len(Plan(call[c].op, call[c].v))
    BY <1>1, <1>2, <1>9, StepPlaces
  <2>2. Goes(c, 1) /\ Keeps(c)
    BY <1>1, <1>2, <1>9, <2>1, AdvanceCase DEF Finishes
  <2> QED BY <1>9, <2>2 DEF Cases, PassesGate
<1>10. CASE CheckCluster(c)
  <2>1. Step(c).do = "gate" /\ Unmoved
    BY <1>10 DEF CheckCluster, AtStep, Unmoved, status
  <2>2. \/ call[c].v.pools = <<>> /\ Advance(c)
        \/ call' = [call EXCEPT ![c] = [call[c] EXCEPT !.seen = "found"]] /\ UNCHANGED caller
    BY <1>10 DEF CheckCluster
  <2> QED BY <1>7, <1>9, <2>1, <2>2
<1>11. CASE CheckPools(c)
  BY <1>9, <1>11 DEF CheckPools, AtStep, Unmoved, status
<1>12. CASE ListPools(c)
  <2> DEFINE D == ListedPools \ WantedPools(call[c].v)
             f == [call[c] EXCEPT !.seen = "found", !.doomed = D]
  <2>1. /\ Step(c).do = "prune" /\ call[c].seen = "nothing" /\ Unmoved /\ UNCHANGED caller
        /\ call' = [call EXCEPT ![c] = f]
    BY <1>12 DEF ListPools, AtStep, Unmoved, status
  <2>2. D \in SUBSET Pools
    BY DEF ListedPools
  <2>3. f.doomed = D /\ f.infra = call[c].infra /\ f.seen = "found"
    BY <1>3, FrameFields
  <2>4. D = ListedPools \ WantedPools(call[c].v)
    OBVIOUS
  <2> HIDE DEF D
  <2>5. SameCall(call[c], f) /\ f.at = call[c].at
    BY <1>3, <2>2, FrameUpdates
  <2> HIDE DEF f
  <2>6. Goes(c, 0) /\ call'[c] = f
    BY <1>1, <1>2, <2>1, <2>5, InPlace
  <2> QED BY <2>1, <2>3, <2>4, <2>6 DEF Cases, Lists
<1>13. ASSUME NEW p \in Pools, DeletePool(c, p)
       PROVE  Cases(c)
  <2> DEFINE f == [call[c] EXCEPT !.doomed = @ \ {p}, !.infra = p]
  <2>1. /\ DoomsPool(c, p)
        /\ (call' = [call EXCEPT ![c] = f] /\ UNCHANGED caller) \/ Return(c, FALSE)
    BY <1>2, <1>13 DEF DeletePool, DoomsPool, AtStep
  <2>2. SameCall(call[c], f) /\ f.at = call[c].at
    BY <1>3, FrameUpdates
  <2>3. f.doomed = call[c].doomed \ {p} /\ f.infra = p /\ f.seen = call[c].seen
    BY <1>3, FrameFields
  <2> HIDE DEF f
  <2>4. CASE Return(c, FALSE)
    BY <1>1, <1>2, <2>1, <2>4, FailCase DEF Cases, Breaks
  <2>5. CASE call' = [call EXCEPT ![c] = f] /\ UNCHANGED caller
    <3>1. Goes(c, 0) /\ call'[c] = f
      BY <1>1, <1>2, <2>2, <2>5, InPlace
    <3>2. call[c].seen = "found"
      BY <2>1 DEF DoomsPool
    <3>3. DropsPool(c, p)
      BY <2>1, <2>3, <3>1, <3>2 DEF DropsPool
    <3> QED BY <3>3 DEF Cases
  <2> QED BY <2>1, <2>4, <2>5
<1>14. CASE DeleteInfra(c)
  <2> DEFINE f == [call[c] EXCEPT !.infra = None]
  <2>1. /\ DoomsInfra(c)
        /\ (call' = [call EXCEPT ![c] = f] /\ UNCHANGED caller) \/ Return(c, FALSE)
    BY <1>2, <1>14 DEF DeleteInfra, DoomsInfra, AtStep, status
  <2>2. SameCall(call[c], f) /\ f.at = call[c].at
    BY <1>3, FrameUpdates
  <2>3. f.doomed = call[c].doomed /\ f.infra = None /\ f.seen = call[c].seen
    BY <1>3, FrameFields
  <2> HIDE DEF f
  <2>4. CASE Return(c, FALSE)
    BY <1>1, <1>2, <2>1, <2>4, FailCase DEF Cases, Breaks
  <2>5. CASE call' = [call EXCEPT ![c] = f] /\ UNCHANGED caller
    <3>1. Goes(c, 0) /\ call'[c] = f
      BY <1>1, <1>2, <2>2, <2>5, InPlace
    <3>2. call[c].seen = "found"
      BY <2>1 DEF DoomsInfra
    <3> QED BY <2>1, <2>3, <3>1, <3>2 DEF Cases, DropsInfra
  <2> QED BY <2>1, <2>4, <2>5
<1>15. CASE Pruned(c)
  <2>1. /\ Step(c).do = "prune" /\ call[c].seen = "found" /\ call[c].doomed = {}
        /\ Advance(c) /\ Unmoved
    BY <1>15 DEF Pruned, AtStep, Unmoved, status
  <2>2. ~Goes(c, 1)
    <3>1. call[c].at = Len(Plan(call[c].op, call[c].v))
      BY <1>1, <1>2, <2>1, StepPlaces
    <3>2. Return(c, TRUE)
      BY <2>1, <3>1 DEF Advance
    <3>3. call'[c] = None
      BY <1>1, <1>2, <3>2, SuccessCase
    <3> QED BY <3>3, NoneFacts DEF Goes, SameCall
  <2> QED BY <1>1, <1>2, <2>1, <2>2, AdvanceCase DEF Cases, Succeeds, Finishes
<1> QED BY <1>4, <1>5, <1>6, <1>8, <1>10, <1>11, <1>12, <1>13, <1>14, <1>15 DEF Work

\* Where nobody interferes, what was missing is still missing.
LEMMA WorkAlone ==
  ASSUME RefineInv, NEW c \in Calls, Work(c) \/ RequestFails(c)
  PROVE  Cases(c)
<1>1. TypeInv /\ StillMissing
  BY DEF RefineInv, StayInv
<1>2. Overtaken(c) => Running(c)
  BY DEF Overtaken, Goes, Finishes
<1> QED BY <1>1, <1>2, WorkCase DEF Overtaken, StillMissing, Exists

\* A Create comes first, and a SetVersion takes the kept state as it is.
LEMMA StartCase ==
  ASSUME TypeInv, NEW c \in Calls, Start(c)
  PROVE  Starts(c)
<1>1. CallerOK /\ cloudCred \in Nat
  BY TypeInvParts
<1>2. PICK op \in Ops, v \in Variables : Begin(c, op, v)
  BY StartBegins
<1>3. ASSUME NEW o1, NEW w, Begin(c, o1, w) PROVE call'[c].op = o1 /\ call'[c].v = w
  <2>1. call \in [Calls -> Frames \cup {None}]
    BY TypeInvParts DEF CallOK
  <2> QED BY <1>3, <2>1 DEF Begin
<1>4. Unmoved
  BY <1>2 DEF Begin, Unmoved, status
<1>5. (op = "Create" /\ ~created) \/ (op # "Create" /\ created)
  <2>1. ASSUME NEW o \in Options, StartCreate(c, o) PROVE op = "Create" /\ ~created
    BY <1>2, <1>3, <2>1 DEF StartCreate
  <2>2. ASSUME NEW o \in Options, StartUpdate(c, o) PROVE op # "Create" /\ created
    BY <1>2, <1>3, <2>2 DEF StartUpdate
  <2>3. ASSUME NEW n \in Sizes, StartSetClusterSize(c, n) PROVE op # "Create" /\ created
    BY <1>2, <1>3, <2>3 DEF StartSetClusterSize
  <2>4. CASE StartSetVersion(c)
    BY <1>2, <1>3, <2>4 DEF StartSetVersion
  <2> QED BY <2>1, <2>2, <2>3, <2>4 DEF Start
<1>6. op = "SetVersion" => v = info
  <2>1. ASSUME NEW o \in Options, StartCreate(c, o) PROVE op = "Create"
    BY <1>2, <1>3, <2>1 DEF StartCreate
  <2>2. ASSUME NEW o \in Options, StartUpdate(c, o) PROVE op = "Update"
    BY <1>2, <1>3, <2>2 DEF StartUpdate
  <2>3. ASSUME NEW n \in Sizes, StartSetClusterSize(c, n) PROVE op = "SetClusterSize"
    BY <1>2, <1>3, <2>3 DEF StartSetClusterSize
  <2>4. CASE StartSetVersion(c)
    BY <1>2, <1>3, <2>4 DEF StartSetVersion
  <2> QED BY <2>1, <2>2, <2>3, <2>4 DEF Start
<1>7. op = "Create" <=> ~created
  BY <1>5
<1>8. op = "SetClusterSize" => v.display = info.display
  <2>1. ASSUME NEW o \in Options, StartCreate(c, o) PROVE op = "Create"
    BY <1>2, <1>3, <2>1 DEF StartCreate
  <2>2. ASSUME NEW o \in Options, StartUpdate(c, o) PROVE op = "Update"
    BY <1>2, <1>3, <2>2 DEF StartUpdate
  <2>3. ASSUME NEW n \in Sizes, StartSetClusterSize(c, n) PROVE v.display = info.display
    <3>1. v = WithFirstPoolSize(info, n) /\ info \in Variables
      BY <1>1, <1>2, <1>3, <2>3 DEF StartSetClusterSize, CallerOK
    <3> QED BY <3>1 DEF WithFirstPoolSize, Variables
  <2>4. CASE StartSetVersion(c)
    BY <1>2, <1>3, <2>4 DEF StartSetVersion
  <2> QED BY <2>1, <2>2, <2>3, <2>4 DEF Start
<1> QED BY <1>2, <1>4, <1>6, <1>7, <1>8 DEF Starts

LEMMA FinalizeCase ==
  ASSUME StoreOK, NEW p \in Pools, Finalize(p)
  PROVE  Outside
<1>1. PICK gone \in {{MachinePool(p), OCIMachinePool(p)}, {OCIMachinePool(p)}} :
        /\ \E k \in gone : Exists(k) /\ store[k].dying /\ (MachinePool(p) \in gone => k = MachinePool(p))
        /\ store' = [k \in Keys |-> IF k \in gone THEN None ELSE store[k]]
        /\ phase' = IF MachinePool(p) \in gone THEN [phase EXCEPT ![p] = "Pending"] ELSE phase
        /\ UNCHANGED <<caller, call>>
  BY DEF Finalize
<1>2. PICK k \in gone : Exists(k) /\ store[k].dying /\ (MachinePool(p) \in gone => k = MachinePool(p))
  BY <1>1
<1>3. gone \subseteq WorkerKeys /\ gone \subseteq Keys /\ MachinePool(p) \in Keys /\ OCIMachinePool(p) \in Keys
  BY <1>1, WorkerKeysAreKeys
<1>4. k \in leaving
  BY <1>2, <1>3, ContentFacts
<1>5. IF MachinePool(p) \in gone THEN MachinePool(p) \in leaving ELSE OCIMachinePool(p) \in leaving
  BY <1>1, <1>2, <1>4
<1>6. Vanishes(p, gone)
  BY <1>1, <1>5 DEF Vanishes
<1> QED BY <1>1, <1>3, <1>6 DEF Outside, caller

LEMMA PhaseCase ==
  ASSUME StoreOK, StatusOK, NEW p \in Pools, PoolUp(p) \/ PoolDown(p) \/ PoolDeleting(p)
  PROVE  Outside
<1>1. MachinePool(p) \in Keys /\ phase \in [Pools -> Phases]
  BY WorkerKeysAreKeys DEF StatusOK
<1>2. UNCHANGED <<caller, call, store>>
  BY DEF PoolUp, PoolDown, PoolDeleting, SetPhase
<1>3. \A q \in Pools : q # p => phase'[q] = phase[q]
  BY <1>1 DEF PoolUp, PoolDown, PoolDeleting, SetPhase
<1>4. \/ phase'[p] \in {"Running", "Failed"} /\ MachinePool(p) \notin leaving
      \/ phase'[p] = "Deleting" /\ MachinePool(p) \in leaving
  <2>1. MachinePool(p) \in leaving <=> Exists(MachinePool(p)) /\ store[MachinePool(p)].dying
    BY <1>1, ContentFacts
  <2>2. CASE PoolUp(p)
    BY <1>1, <2>1, <2>2 DEF PoolUp, SetPhase
  <2>3. CASE PoolDown(p)
    BY <1>1, <2>1, <2>3 DEF PoolDown, SetPhase
  <2>4. CASE PoolDeleting(p)
    BY <1>1, <2>1, <2>4 DEF PoolDeleting, SetPhase
  <2> QED BY <2>2, <2>3, <2>4
<1>5. Health
  BY <1>2, <1>3, <1>4 DEF Health
<1> QED BY <1>2, <1>5 DEF Outside, caller

LEMMA NextCase ==
  ASSUME RefineInv, SerialCalls, NEW c \in Calls, [Next]_vars
  PROVE  Cases(c)
<1>1. TypeInv /\ StoreOK /\ StatusOK /\ CallerOK
  BY TypeInvParts DEF RefineInv, StayInv
<1>2. ASSUME UNCHANGED <<call, info, created, store, phase>>, outcome' \in {outcome, "failed"}
      PROVE  Outside
  BY <1>2 DEF Outside, Health
<1>3. ASSUME NEW d \in Calls, Driver(d)
      PROVE  Cases(c)
  <2>1. d = c
    BY DEF SerialCalls
  <2>2. CASE Start(c)
    BY <1>1, <2>2, StartCase DEF Cases
  <2>3. CASE Work(c) \/ RequestFails(c)
    BY <2>3, WorkAlone
  <2>4. CASE Refuse(c)
    BY <1>2, <2>4 DEF Refuse, driver, status, Cases
  <2> QED BY <1>3, <2>1, <2>2, <2>3, <2>4 DEF Driver
<1>4. CASE Crash
  <2>1. call'[c] = None /\ outcome' = "failed" /\ created' = created /\ info' = info /\ Unmoved
    BY <1>4 DEF Crash, Unmoved, status
  <2> QED BY <2>1 DEF Cases, Breaks
<1>5. CASE InfrastructureUp \/ ControlPlaneUp \/ ClusterDisturbed \/ RotateCredential
  BY <1>2, <1>5 DEF InfrastructureUp, ControlPlaneUp, ClusterDisturbed, RotateCredential, caller,
     driver, status, Cases
<1>6. ASSUME NEW p \in Pools, PoolUp(p) \/ PoolDown(p) \/ PoolDeleting(p) \/ Finalize(p)
      PROVE  Cases(c)
  BY <1>1, <1>6, PhaseCase, FinalizeCase DEF Cases
<1>7. CASE UNCHANGED vars
  BY <1>2, <1>7 DEF vars, caller, driver, status, Cases
<1> QED BY <1>3, <1>4, <1>5, <1>6, <1>7 DEF Next, Controllers, Trouble

-----------------------------------------------------------------------------
(* What can be leaving.                                                    *)

LEMMA PoolKeys ==
  /\ \A p, q : MachinePool(p) # OCIMachinePool(q)
  /\ \A p, q : MachinePool(p) = MachinePool(q) => p = q
  /\ \A p, q : OCIMachinePool(p) = OCIMachinePool(q) => p = q
BY DEF MachinePool, OCIMachinePool

\* A rollout's deletes come after a Create that succeeded.
LEMMA PrunesCreated ==
  ASSUME CallOK, OriginInv, NEW c \in Calls, Running(c), Step(c).do = "prune"
  PROVE  created
<1>1. call[c].op \in {"Update", "SetVersion"}
  BY StepPlaces
<1>2. call[c].op # "Create"
  BY <1>1
<1> QED BY <1>2 DEF OriginInv

LEMMA LeavingQuiet ==
  ASSUME LeavingInv, ~created' => ~created, leaving' \subseteq leaving,
         \A p \in Pools : OCIMachinePool(p) \in leaving' /\ MachinePool(p) \in leaving =>
                            MachinePool(p) \in leaving',
         \A p \in Pools : MachinePool(p) \in leaving' =>
                            phase'[p] = phase[p] \/ phase'[p] = "Deleting"
  PROVE  LeavingInv'
BY DEF LeavingInv

LEMMA LeavingDooms ==
  ASSUME LeavingInv, created', NEW k \in WorkerKeys, leaving' \subseteq leaving \cup {k},
         leaving \subseteq leaving',
         \A p \in Pools : k = MachinePool(p) /\ k \in leaving' => phase'[p] = "Deleting",
         \A p \in Pools : k = OCIMachinePool(p) /\ k \in leaving' => MachinePool(p) \in leaving,
         \A p \in Pools : phase'[p] = phase[p] \/ phase'[p] = "Deleting"
  PROVE  LeavingInv'
BY DEF LeavingInv

\* The effects on the objects, one by one.
LEMMA LeavingPuts ==
  ASSUME LeavingInv, ~created' => ~created, NEW c \in Calls, PutsObject(c)
  PROVE  LeavingInv'
<1>1. leaving' = leaving
  BY DEF PutsObject
<1>2. ASSUME NEW p \in Pools, MachinePool(p) \in leaving PROVE phase'[p] = phase[p]
  BY <1>2 DEF PutsObject, leaving
<1> QED BY <1>1, <1>2, LeavingQuiet

LEMMA DoomsPoolEffect ==
  ASSUME TypeInv, NEW c \in Calls, NEW p \in Pools, DoomsPool(c, p)
  PROVE  /\ leaving' = IF Exists(MachinePool(p)) THEN leaving \cup {MachinePool(p)} ELSE leaving
         /\ \A j \in Keys : /\ Exists(j)' <=> Exists(j)
                            /\ Exists(j) => store'[j].content = store[j].content
         /\ \A q \in Pools : q # p => phase'[q] = phase[q]
         /\ phase'[p] = phase[p] \/ phase'[p] = "Deleting"
         /\ (Exists(MachinePool(p)) /\ ~DeletionLag) => phase'[p] = "Deleting"
<1>1. StoreOK /\ MachinePool(p) \in Keys /\ Doom(MachinePool(p)) /\ phase \in [Pools -> Phases]
  BY TypeInvParts, WorkerKeysAreKeys DEF DoomsPool, StatusOK
<1>2. leaving' = IF Exists(MachinePool(p)) THEN leaving \cup {MachinePool(p)} ELSE leaving
  BY <1>1, DoomIs DEF StoreOK
<1>3. \A j \in Keys : /\ Exists(j)' <=> Exists(j)
                      /\ Exists(j) => store'[j].content = store[j].content
  BY <1>1, DoomType DEF Exists
<1>4. /\ \A q \in Pools : q # p => phase'[q] = phase[q]
      /\ phase'[p] = phase[p] \/ phase'[p] = "Deleting"
      /\ (Exists(MachinePool(p)) /\ ~DeletionLag) => phase'[p] = "Deleting"
  BY <1>1 DEF DoomsPool
<1> QED BY <1>2, <1>3, <1>4

LEMMA DoomsInfraEffect ==
  ASSUME TypeInv, NEW c \in Calls, DoomsInfra(c)
  PROVE  LET k == OCIMachinePool(call[c].infra) IN
         /\ call[c].infra \in Pools
         /\ leaving' = IF Exists(k) THEN leaving \cup {k} ELSE leaving
         /\ \A j \in Keys : /\ Exists(j)' <=> Exists(j)
                            /\ Exists(j) => store'[j].content = store[j].content
         /\ phase' = phase
<1> DEFINE k == OCIMachinePool(call[c].infra)
<1>1. StoreOK /\ CallOK /\ Running(c) /\ call[c].infra # None /\ Doom(k) /\ phase' = phase
  BY TypeInvParts DEF DoomsInfra
<1>2. call[c].infra \in Pools
  BY <1>1, RunningStep DEF Frames
<1>3. k \in Keys
  BY <1>2, WorkerKeysAreKeys
<1> HIDE DEF k
<1>4. leaving' = IF Exists(k) THEN leaving \cup {k} ELSE leaving
  BY <1>1, <1>3, DoomIs DEF StoreOK
<1>5. \A j \in Keys : /\ Exists(j)' <=> Exists(j)
                      /\ Exists(j) => store'[j].content = store[j].content
  BY <1>1, <1>3, DoomType DEF Exists
<1> QED BY <1>1, <1>2, <1>4, <1>5 DEF k

LEMMA LeavingDoomsPool ==
  ASSUME TypeInv, LeavingInv, ~DeletionLag, created', NEW c \in Calls, NEW p \in Pools,
         DoomsPool(c, p)
  PROVE  LeavingInv'
<1> DEFINE k == MachinePool(p)
<1>1. /\ leaving' \subseteq leaving \cup {k} /\ leaving \subseteq leaving'
      /\ \A q \in Pools : phase'[q] = phase[q] \/ phase'[q] = "Deleting"
  BY DoomsPoolEffect
<1>2. k \in leaving' => phase'[p] = "Deleting"
  <2>1. Exists(k) => phase'[p] = "Deleting"
    BY DoomsPoolEffect
  <2>2. k \in leaving' => Exists(k)
    BY DoomsPoolEffect DEF leaving
  <2> QED BY <2>1, <2>2
<1>3. k \in WorkerKeys /\ \A q \in Pools : k # OCIMachinePool(q) /\ (k = MachinePool(q) => p = q)
  BY WorkerKeysAreKeys, PoolKeys
<1> HIDE DEF k
<1> QED BY <1>1, <1>2, <1>3, LeavingDooms

LEMMA LeavingDoomsInfra ==
  ASSUME TypeInv, LeavingInv, DoomedInv, created', NEW c \in Calls, DoomsInfra(c)
  PROVE  LeavingInv'
<1> DEFINE p == call[c].infra
           k == OCIMachinePool(p)
<1>1. /\ p \in Pools /\ phase' = phase
      /\ leaving' = IF Exists(k) THEN leaving \cup {k} ELSE leaving
  BY DoomsInfraEffect
<1>2. Running(c)
  BY DEF DoomsInfra
<1>3. k \in leaving' => MachinePool(p) \in leaving
  <2>1. k \in leaving' => Exists(k)
    BY <1>1 DEF leaving
  <2>2. Exists(k) => MachinePool(p) \in leaving
    BY <1>1, <1>2 DEF DoomedInv
  <2> QED BY <2>1, <2>2
<1>4. k \in WorkerKeys /\ \A q \in Pools : k # MachinePool(q) /\ (k = OCIMachinePool(q) => p = q)
  BY <1>1, WorkerKeysAreKeys, PoolKeys
<1> HIDE DEF k, p
<1> QED BY <1>1, <1>3, <1>4, LeavingDooms

LEMMA VanishEffect ==
  ASSUME NEW p \in Pools, NEW gone, Vanishes(p, gone), phase \in [Pools -> Phases]
  PROVE  /\ leaving' = leaving \ gone
         /\ \A j \in Keys \ gone : store'[j] = store[j]
         /\ \A j \in Keys : Exists(j)' => Exists(j)
         /\ \A q \in Pools : phase'[q] = phase[q] \/ (q = p /\ MachinePool(p) \in leaving \cap gone)
<1>1. leaving' = leaving \ gone
  BY DEF Vanishes, leaving, Exists
<1>2. /\ \A j \in Keys \ gone : store'[j] = store[j]
      /\ \A j \in Keys : Exists(j)' => Exists(j)
  BY DEF Vanishes, Exists
<1>3. \A q \in Pools : phase'[q] = phase[q] \/ (q = p /\ MachinePool(p) \in leaving \cap gone)
  <2>1. CASE MachinePool(p) \in gone
    <3>1. MachinePool(p) \in leaving /\ phase' = [phase EXCEPT ![p] = "Pending"]
      BY <2>1 DEF Vanishes
    <3> QED BY <2>1, <3>1
  <2>2. CASE MachinePool(p) \notin gone
    BY <2>2 DEF Vanishes
  <2> QED BY <2>1, <2>2
<1> QED BY <1>1, <1>2, <1>3

LEMMA LeavingVanishes ==
  ASSUME TypeInv, LeavingInv, created' = created, NEW p \in Pools, NEW gone, Vanishes(p, gone)
  PROVE  LeavingInv'
<1>1. phase \in [Pools -> Phases]
  BY TypeInvParts DEF StatusOK
<1>2. leaving' = leaving \ gone
  BY <1>1, VanishEffect
<1>3. ASSUME NEW q \in Pools, OCIMachinePool(q) \in leaving', MachinePool(q) \in leaving
      PROVE  MachinePool(q) \in leaving'
  <2>1. OCIMachinePool(p) \in gone /\ \A k \in gone : k = MachinePool(p) \/ k = OCIMachinePool(p)
    BY DEF Vanishes
  <2>2. MachinePool(q) \notin gone
    BY <1>2, <1>3, <2>1, PoolKeys
  <2> QED BY <1>2, <1>3, <2>2
<1>4. ASSUME NEW q \in Pools, MachinePool(q) \in leaving' PROVE phase'[q] = phase[q]
  BY <1>1, <1>2, <1>4, VanishEffect
<1> QED BY <1>2, <1>3, <1>4, LeavingQuiet

LEMMA LeavingStep ==
  ASSUME KeepInv, ~DeletionLag, NEW c \in Calls, Cases(c)
  PROVE  LeavingInv'
<1>1. TypeInv /\ CallOK /\ CallerOK /\ LeavingInv /\ OriginInv /\ DoomedInv
  BY TypeInvParts DEF KeepInv, RefineInv, StayInv
<1>2. ASSUME Unmoved \/ Health, ~created' => ~created
      PROVE  LeavingInv'
  <2>1. store' = store
    BY <1>2 DEF Unmoved, Health
  <2>2. leaving' = leaving
    BY <2>1, Quiet
  <2>3. \A p \in Pools : MachinePool(p) \in leaving => phase'[p] = phase[p] \/ phase'[p] = "Deleting"
    BY <1>2 DEF Unmoved, Health
  <2> QED BY <1>1, <1>2, <2>2, <2>3, LeavingQuiet
<1>3. ASSUME created' = created,
             PutsObject(c) \/ (\E p \in Pools : DoomsPool(c, p)) \/ DoomsInfra(c)
      PROVE  LeavingInv'
  <2>1. ASSUME (\E p \in Pools : DoomsPool(c, p)) \/ DoomsInfra(c) PROVE created'
    <3>1. Running(c) /\ Step(c).do = "prune"
      BY <2>1 DEF DoomsPool, DoomsInfra
    <3>2. created
      BY <1>1, <3>1, PrunesCreated
    <3> QED BY <1>3, <3>2, Zenon
  <2>2. CASE PutsObject(c)
    BY <1>1, <1>3, <2>2, LeavingPuts
  <2>3. CASE \E p \in Pools : DoomsPool(c, p)
    BY <1>1, <2>1, <2>3, LeavingDoomsPool
  <2>4. CASE DoomsInfra(c)
    BY <1>1, <2>1, <2>4, LeavingDoomsInfra
  <2> QED BY <1>3, <2>2, <2>3, <2>4
<1>4. CASE Outside
  <2>1. CASE Health
    BY <1>2, <1>4, <2>1 DEF Outside
  <2>2. CASE \E p \in Pools, gone \in SUBSET WorkerKeys : Vanishes(p, gone)
    BY <1>1, <1>4, <2>2, LeavingVanishes DEF Outside
  <2> QED BY <1>4, <2>1, <2>2 DEF Outside
<1>5. CASE Starts(c)
  <2>1. created' = created
    BY <1>5 DEF Starts, Begin, caller
  <2> QED BY <1>2, <1>5, <2>1 DEF Starts
<1>6. CASE Breaks(c)
  BY <1>2, <1>3, <1>6 DEF Breaks
<1>7. CASE Succeeds(c)
  <2>1. ~created' => ~created
    BY <1>1, <1>7 DEF Succeeds, Finishes, CallerOK
  <2> QED BY <1>1, <1>2, <1>7, <2>1, LeavingPuts DEF Succeeds, Finishes
<1>8. CASE Looks(c) \/ Lists(c) \/ PassesGate(c)
  BY <1>2, <1>8 DEF Looks, Lists, PassesGate, Goes, caller
<1>9. CASE (\E p \in Pools : DropsPool(c, p)) \/ DropsInfra(c) \/ PutsOn(c)
  BY <1>3, <1>9 DEF DropsPool, DropsInfra, PutsOn, Goes, caller
<1> QED BY <1>4, <1>5, <1>6, <1>7, <1>8, <1>9 DEF Cases

-----------------------------------------------------------------------------
(* Where a call comes from, and who is in line for deletion.               *)

\* A step from which the call goes on.
LEMMA GoesOn ==
  ASSUME NEW c, \/ Looks(c) \/ Lists(c) \/ (\E p \in Pools : DropsPool(c, p)) \/ DropsInfra(c)
                \/ PutsOn(c) \/ PassesGate(c)
  PROVE  Goes(c, 0) \/ Goes(c, 1)
BY DEF Looks, Lists, DropsPool, DropsInfra, PutsOn, PassesGate

LEMMA StartFrame ==
  ASSUME CallOK, NEW c \in Calls, NEW op, NEW v, Begin(c, op, v)
  PROVE  /\ call'[c].op = op /\ call'[c].v = v /\ call'[c].at = 1 /\ call'[c].seen = "nothing"
         /\ call'[c].doomed = {} /\ call'[c].infra = None /\ ~Running(c)
         /\ UNCHANGED <<caller, store>>
<1>1. call'[c] = [op |-> op, v |-> v, at |-> 1, seen |-> "nothing", doomed |-> {}, infra |-> None]
  BY DEF Begin, CallOK
<1>2. ~Running(c) /\ UNCHANGED <<caller, store>>
  BY DEF Begin
<1> QED BY <1>1, <1>2

LEMMA OriginStep ==
  ASSUME RefineInv, OriginInv, SerialCalls, NEW c \in Calls, Cases(c)
  PROVE  OriginInv'
<1>1. CallOK /\ OriginInv
  BY TypeInvParts DEF RefineInv, StayInv
<1> SUFFICES ASSUME Running(c)'
             PROVE  /\ call'[c].op = "Create" <=> ~created'
                    /\ call'[c].op = "SetVersion" => call'[c].v = info'
  BY DEF OriginInv, SerialCalls
<1>2. CASE Outside
  BY <1>1, <1>2 DEF Outside, OriginInv, Running
<1>3. CASE Starts(c)
  <2>1. PICK op \in Ops, v \in Variables :
          Begin(c, op, v) /\ (op = "Create" <=> ~created) /\ (op = "SetVersion" => v = info)
    BY <1>3 DEF Starts
  <2>2. call'[c].op = op /\ call'[c].v = v /\ UNCHANGED caller
    BY <1>1, <2>1, StartFrame
  <2> QED BY <2>1, <2>2 DEF caller
<1>4. CASE Breaks(c) \/ Succeeds(c)
  BY <1>4 DEF Breaks, Succeeds, Finishes, Running
<1>5. CASE Goes(c, 0) \/ Goes(c, 1)
  BY <1>1, <1>5 DEF Goes, SameCall, OriginInv, caller
<1> QED BY <1>2, <1>3, <1>4, <1>5, GoesOn DEF Cases

\* The conjuncts of DoomedInv, for one call.
InLineKept(c) ==
  /\ \A p \in Pools : (p \in call[c].doomed \/ p = call[c].infra) /\ Exists(OCIMachinePool(p)) =>
                        Exists(MachinePool(p))
  /\ \A p \in Pools : p = call[c].infra /\ Exists(MachinePool(p)) => MachinePool(p) \in leaving

NoneInLine(c) == call[c].doomed = {} /\ call[c].infra = None

LEMMA DoomedParts ==
  /\ DoomedInv <=> \A c \in Calls : Running(c) =>
       ((Step(c).do # "prune" \/ call[c].seen = "nothing") => NoneInLine(c)) /\ InLineKept(c)
  /\ DoomedInv' <=> \A c \in Calls : Running(c)' =>
       ((Step(c)'.do # "prune" \/ call'[c].seen = "nothing") => NoneInLine(c)') /\ InLineKept(c)'
BY DEF DoomedInv, NoneInLine, InLineKept

LEMMA NoneKept == ASSUME NEW c, NoneInLine(c) PROVE InLineKept(c)
BY NoneFacts DEF NoneInLine, InLineKept

LEMMA NoneKeptNext == ASSUME NEW c, NoneInLine(c)' PROVE InLineKept(c)'
BY NoneFacts DEF NoneInLine, InLineKept

\* The prune of a call is its last step: a call that goes on was at another one.
LEMMA NotAtPrune ==
  ASSUME CallOK, CallOK', NEW c \in Calls, Goes(c, 1)
  PROVE  Step(c).do # "prune"
<1>1. Running(c) /\ Running(c)'
  BY NoneFacts DEF Goes, SameCall, Running
<1>2. call'[c].at \in 1 .. Len(Plan(call'[c].op, call'[c].v))
  BY <1>1 DEF CallOK, Plan
<1>3. call[c].at \in 1 .. Len(Plan(call[c].op, call[c].v)) /\ call[c].v \in Variables
  BY <1>1, StepOf
<1>4. call'[c].at = call[c].at + 1 /\ call'[c].op = call[c].op /\ call'[c].v = call[c].v
  BY DEF Goes, SameCall
<1>5. Len(Plan(call[c].op, call[c].v)) \in Nat
  BY <1>3, PlanSteps
<1>6. call[c].at # Len(Plan(call[c].op, call[c].v))
  BY <1>2, <1>3, <1>4, <1>5
<1> QED BY <1>1, <1>6, StepPlaces

LEMMA StaysAtStep ==
  ASSUME CallOK, NEW c \in Calls, Goes(c, 0)
  PROVE  Step(c)' = Step(c) /\ call'[c].at = call[c].at
<1>1. call[c].at + 0 = call[c].at
  BY RunningStep DEF Goes, Frames
<1> QED BY <1>1 DEF Goes, SameCall, Step, Plan

LEMMA DoomedStep ==
  ASSUME KeepInv, CallOK', SerialCalls, NEW c \in Calls, Cases(c)
  PROVE  DoomedInv'
<1>1. TypeInv /\ CallOK /\ StoreOK /\ DoomedInv /\ LeavingInv
  BY TypeInvParts DEF KeepInv, RefineInv, StayInv
<1>0. phase \in [Pools -> Phases]
  BY <1>1, TypeInvParts DEF StatusOK
<1> SUFFICES ASSUME Running(c)'
             PROVE  /\ (Step(c)'.do # "prune" \/ call'[c].seen = "nothing") => NoneInLine(c)'
                    /\ InLineKept(c)'
  BY DoomedParts DEF SerialCalls
<1>2. Running(c) => /\ (Step(c).do # "prune" \/ call[c].seen = "nothing") => NoneInLine(c)
                    /\ InLineKept(c)
  BY <1>1, DoomedParts
\* Nothing was in line and nothing is.
<1>3. ASSUME Running(c), Step(c).do # "prune", Keeps(c)
      PROVE  NoneInLine(c)' /\ InLineKept(c)'
  <2>1. NoneInLine(c)'
    BY <1>2, <1>3 DEF NoneInLine, Keeps
  <2> QED BY <2>1, NoneKeptNext
<1>4. CASE Outside
  <2>1. Running(c) /\ call' = call /\ Step(c)' = Step(c)
    BY <1>4 DEF Outside, Running, Step, Plan
  <2>2. InLineKept(c)'
    <3>1. CASE Health
      <4>1. store' = store /\ leaving' = leaving
        BY <3>1, Quiet DEF Health
      <4> QED BY <1>2, <2>1, <4>1 DEF InLineKept, Exists
    <3>2. CASE \E p \in Pools, gone \in SUBSET WorkerKeys : Vanishes(p, gone)
      <4>1. PICK p \in Pools, gone \in SUBSET WorkerKeys : Vanishes(p, gone)
        BY <3>2
      <4>2. /\ leaving' = leaving \ gone
            /\ \A j \in Keys \ gone : store'[j] = store[j]
            /\ \A j \in Keys : Exists(j)' => Exists(j)
        BY <1>0, <4>1, VanishEffect
      <4>3. /\ OCIMachinePool(p) \in gone /\ \A k \in gone : k = MachinePool(p) \/ k = OCIMachinePool(p)
            /\ \A k \in gone : k \in Keys => ~Exists(k)'
        BY <4>1 DEF Vanishes, Exists
      <4>4. ASSUME NEW q \in Pools, (q \in call[c].doomed \/ q = call[c].infra),
                   Exists(OCIMachinePool(q))'
            PROVE  Exists(MachinePool(q))'
        <5>1. OCIMachinePool(q) \notin gone /\ MachinePool(q) \in Keys /\ OCIMachinePool(q) \in Keys
          BY <4>3, <4>4, WorkerKeysAreKeys
        <5>2. MachinePool(q) \notin gone
          BY <4>3, <5>1, PoolKeys
        <5>3. Exists(MachinePool(q))
          BY <1>2, <2>1, <4>2, <4>4, <5>1 DEF InLineKept
        <5> QED BY <4>2, <5>1, <5>2, <5>3 DEF Exists
      <4>5. ASSUME NEW q \in Pools, q = call[c].infra, Exists(MachinePool(q))'
            PROVE  MachinePool(q) \in leaving'
        <5>1. MachinePool(q) \in Keys
          BY WorkerKeysAreKeys
        <5> QED BY <1>2, <2>1, <4>2, <4>3, <4>5, <5>1 DEF InLineKept
      <4> QED BY <2>1, <4>4, <4>5 DEF InLineKept
    <3> QED BY <1>4, <3>1, <3>2 DEF Outside
  <2> QED BY <1>2, <2>1, <2>2 DEF NoneInLine
<1>5. CASE Starts(c)
  <2>1. NoneInLine(c)'
    BY <1>1, <1>5, StartFrame DEF Starts, NoneInLine
  <2> QED BY <2>1, NoneKeptNext
<1>6. CASE Breaks(c) \/ Succeeds(c)
  BY <1>6 DEF Breaks, Succeeds, Finishes, Running
<1>7. CASE Looks(c) \/ PutsOn(c) \/ PassesGate(c)
  <2>1. Running(c) /\ Step(c).do # "prune" /\ Keeps(c)
    BY <1>1, <1>7, NotAtPrune DEF Looks, PutsOn, PassesGate, Goes
  <2> QED BY <1>3, <2>1
<1>8. CASE Lists(c)
  <2>1. /\ Goes(c, 0) /\ Running(c) /\ Step(c).do = "prune" /\ store' = store /\ call'[c].seen = "found"
        /\ call'[c].infra = None /\ call'[c].doomed \subseteq ListedPools
    BY <1>2, <1>8 DEF Lists, Goes, Unmoved, NoneInLine
  <2>2. InLineKept(c)'
    <3>1. \A p \in Pools : p # call'[c].infra /\ (p \in call'[c].doomed => Exists(MachinePool(p))')
      BY <2>1, NoneFacts DEF ListedPools, Exists
    <3> QED BY <3>1 DEF InLineKept
  <2>3. Step(c)'.do = "prune" /\ call'[c].seen # "nothing"
    BY <1>1, <2>1, StaysAtStep
  <2> QED BY <2>2, <2>3
<1>9. ASSUME NEW p \in Pools, DropsPool(c, p)
      PROVE  /\ (Step(c)'.do # "prune" \/ call'[c].seen = "nothing") => NoneInLine(c)'
             /\ InLineKept(c)'
  <2>1. /\ Goes(c, 0) /\ Running(c) /\ Step(c).do = "prune" /\ call'[c].seen = "found"
        /\ p \in call[c].doomed
        /\ call'[c].doomed = call[c].doomed \ {p} /\ call'[c].infra = p /\ DoomsPool(c, p)
    BY <1>9 DEF DropsPool, DoomsPool
  <2>2. /\ leaving' = IF Exists(MachinePool(p)) THEN leaving \cup {MachinePool(p)} ELSE leaving
        /\ \A j \in Keys : Exists(j)' <=> Exists(j)
    BY <1>1, <2>1, DoomsPoolEffect
  <2>3. InLineKept(c)'
    <3>1. ASSUME NEW q \in Pools, q \in call'[c].doomed \/ q = call'[c].infra,
                 Exists(OCIMachinePool(q))'
          PROVE  Exists(MachinePool(q))'
      BY <1>2, <2>1, <2>2, <3>1, WorkerKeysAreKeys DEF InLineKept
    <3>2. Exists(MachinePool(p))' => MachinePool(p) \in leaving'
      BY <2>2, WorkerKeysAreKeys
    <3> QED BY <2>1, <3>1, <3>2 DEF InLineKept
  <2>4. Step(c)'.do = "prune" /\ call'[c].seen # "nothing"
    BY <1>1, <2>1, StaysAtStep
  <2> QED BY <2>3, <2>4
<1>10. CASE DropsInfra(c)
  <2>1. /\ Goes(c, 0) /\ Running(c) /\ Step(c).do = "prune" /\ call'[c].seen = "found"
        /\ call'[c].doomed = call[c].doomed /\ call'[c].infra = None /\ DoomsInfra(c)
    BY <1>10 DEF DropsInfra, DoomsInfra
  <2>2. \A j \in Keys : Exists(j)' <=> Exists(j)
    BY <1>1, <2>1, DoomsInfraEffect
  <2>3. InLineKept(c)'
    <3>1. ASSUME NEW q \in Pools, q \in call'[c].doomed, Exists(OCIMachinePool(q))'
          PROVE  Exists(MachinePool(q))'
      BY <1>2, <2>1, <2>2, <3>1, WorkerKeysAreKeys DEF InLineKept
    <3>2. \A q \in Pools : q # call'[c].infra
      BY <2>1, NoneFacts
    <3> QED BY <3>1, <3>2 DEF InLineKept
  <2>4. Step(c)'.do = "prune" /\ call'[c].seen # "nothing"
    BY <1>1, <2>1, StaysAtStep
  <2> QED BY <2>3, <2>4
<1> QED BY <1>4, <1>5, <1>6, <1>7, <1>8, <1>9, <1>10 DEF Cases

-----------------------------------------------------------------------------
(* What a rollout has put stays, and what it wants is up.                  *)

\* The plan of an Update or SetVersion: no worker before the first gate, and a
\* gate right before the prune.
LEMMA UpdateShape ==
  ASSUME NEW op \in {"Update", "SetVersion"}, NEW v \in Variables
  PROVE  LET plan == Plan(op, v) IN
         /\ Len(plan) \in Nat /\ Len(plan) > 8
         /\ plan[3].do = "gate" /\ plan[Len(plan) - 1].do = "gate"
         /\ \A i \in 1 .. 3 : plan[i].do = "put" => plan[i].key \notin WorkerKeys
<1> DEFINE plan == Plan(op, v)
           n == Len(Workers(v))
<1>1. plan = UpdateCluster(v)
  BY DEF Plan
<1>2. /\ Len(plan) = n + 9 /\ n \in Nat
      /\ plan[1] = Put(PrincipalSecret) /\ plan[2] = Put(ControlPlane(v.display))
      /\ plan[3] = Gate /\ plan[n + 8] = Gate
  BY <1>1, UpdateClusterSteps, Zenon
<1> HIDE DEF plan, n
<1>3. PrincipalSecret \notin WorkerKeys /\ ControlPlane(v.display) \notin WorkerKeys
  BY WorkerKeyFacts
<1>4. Len(plan) \in Nat /\ Len(plan) > 8 /\ Len(plan) - 1 = n + 8
  BY <1>2
<1>5. \A i \in 1 .. 3 : i = 1 \/ i = 2 \/ i = 3
  OBVIOUS
<1>6. \A i \in 1 .. 3 : plan[i].do = "put" => plan[i].key \notin WorkerKeys
  BY <1>2, <1>3, <1>5, StepKinds
<1> QED BY <1>2, <1>4, <1>6, StepKinds DEF plan

LEMMA WantedWorker ==
  ASSUME NEW v \in Variables, NEW k \in WantedKeys(v) \cap WorkerKeys
  PROVE  \E p \in WantedPools(v) : p \in Pools /\ (k = MachinePool(p) \/ k = OCIMachinePool(p))
<1>1. k \notin {PrincipalSecret, Cluster, ClusterIdentity, OCIManagedCluster, ControlPlane(v.display)}
  BY WorkerKeyFacts
<1> QED BY <1>1, WantedPoolsType DEF WantedKeys

\* What is behind a call is wanted, and has no worker before the first gate.
LEMMA BehindFacts ==
  ASSUME CallOK, NEW c \in Calls, Running(c),
         NEW k \in Behind(call[c].op, call[c].v, call[c].at)
  PROVE  /\ k \in WantedKeys(call[c].v) /\ k \in Keys
         /\ (call[c].op \in {"Update", "SetVersion"} /\ k \in WorkerKeys) => PastGate(c)
<1> DEFINE plan == Plan(call[c].op, call[c].v)
<1>1. PICK i \in 1 .. (call[c].at - 1) : plan[i].do = "put" /\ plan[i].key = k
  BY DEF Behind
<1>2. call[c].v \in Variables /\ call[c].at \in 1 .. Len(plan) /\ Len(plan) \in Nat
  BY StepOf, PlanSteps
<1>3. i \in 1 .. Len(plan)
  BY <1>1, <1>2
<1>4. plan[i] \in PlannedSteps(call[c].v)
  BY <1>2, <1>3, PlanSteps
<1>5. k \in WantedKeys(call[c].v) /\ k \in Keys
  <2>1. k \in WantedKeys(call[c].v)
    BY <1>1, <1>4, PutFacts
  <2> QED BY <1>2, <2>1, RenderType
<1>6. ASSUME call[c].op \in {"Update", "SetVersion"}, k \in WorkerKeys
      PROVE  PastGate(c)
  <2>1. i \notin 1 .. 3
    BY <1>1, <1>2, <1>6, UpdateShape
  <2>2. call[c].at > 3
    BY <1>1, <1>2, <2>1
  <2> QED BY <1>6, <2>2 DEF PastGate
<1> QED BY <1>5, <1>6

\* What step the call is at decides what it may do.
LEMMA Effects ==
  ASSUME NEW c, Cases(c), Running(c)
  PROVE  \/ Unmoved \/ Health \/ PutsObject(c) \/ (\E p \in Pools : DoomsPool(c, p)) \/ DoomsInfra(c)
         \/ \E p \in Pools, gone \in SUBSET WorkerKeys : Vanishes(p, gone)
BY DEF Cases, Outside, Starts, Breaks, Succeeds, Finishes, Looks, Lists, DropsPool, DropsInfra, PutsOn, PassesGate

\* No step makes a pool leave that the running call wants.
LEMMA NoNewLeaving ==
  ASSUME KeepInv, NEW c \in Calls, Running(c), Cases(c), NEW p \in WantedPools(call[c].v),
         MachinePool(p) \in leaving'
  PROVE  MachinePool(p) \in leaving
<1>1. TypeInv /\ PruneInv /\ phase \in [Pools -> Phases]
  BY TypeInvParts DEF KeepInv, RefineInv, StayInv, StatusOK
<1>2. CASE Unmoved \/ Health
  BY <1>2, Quiet DEF Unmoved, Health
<1>3. CASE PutsObject(c)
  BY <1>3 DEF PutsObject
<1>4. ASSUME NEW q \in Pools, DoomsPool(c, q) PROVE MachinePool(p) \in leaving
  <2>1. q # p
    BY <1>1, <1>4 DEF DoomsPool, PruneInv, InLine, Unwanted
  <2>2. leaving' \subseteq leaving \cup {MachinePool(q)}
    BY <1>1, <1>4, DoomsPoolEffect
  <2> QED BY <2>1, <2>2, PoolKeys
<1>5. CASE DoomsInfra(c)
  <2>1. leaving' \subseteq leaving \cup {OCIMachinePool(call[c].infra)}
    BY <1>1, <1>5, DoomsInfraEffect
  <2> QED BY <2>1, PoolKeys
<1>6. ASSUME NEW q \in Pools, NEW gone \in SUBSET WorkerKeys, Vanishes(q, gone)
      PROVE  MachinePool(p) \in leaving
  BY <1>1, <1>6, VanishEffect
<1> QED BY <1>2, <1>3, <1>4, <1>5, <1>6, Effects

\* No step takes away an object a whole rollout has put.
LEMMA NothingLost ==
  ASSUME KeepInv, NEW c \in Calls, Running(c), Cases(c), call[c].op # "SetClusterSize",
         NEW k \in Behind(call[c].op, call[c].v, call[c].at)
  PROVE  Exists(k)'
<1>1. TypeInv /\ CallOK /\ LeavingInv /\ OriginInv /\ HealthyInv /\ phase \in [Pools -> Phases]
  BY TypeInvParts DEF KeepInv, RefineInv, StayInv, StatusOK
<1>2. k \in Keys /\ k \in WantedKeys(call[c].v) /\ call[c].v \in Variables /\ call[c].op \in Ops
  BY <1>1, BehindFacts, RunningStep
<1>3. Exists(k)
  BY <1>1 DEF HealthyInv, PutsStay
<1>4. CASE Unmoved \/ Health
  BY <1>3, <1>4 DEF Unmoved, Health, Exists
<1>5. CASE PutsObject(c)
  BY <1>2, <1>3, <1>5 DEF PutsObject, Written, Exists
<1>6. ASSUME NEW p \in Pools, DoomsPool(c, p) PROVE Exists(k)'
  BY <1>1, <1>2, <1>3, <1>6, DoomsPoolEffect
<1>7. CASE DoomsInfra(c)
  BY <1>1, <1>2, <1>3, <1>7, DoomsInfraEffect
<1>8. ASSUME NEW p \in Pools, NEW gone \in SUBSET WorkerKeys, Vanishes(p, gone)
      PROVE  Exists(k)'
  <2>1. MachinePool(p) \in leaving
    BY <1>1, <1>8 DEF Vanishes, LeavingInv
  <2>2. ASSUME k \in gone PROVE FALSE
    <3>1. k \in WorkerKeys /\ (k = MachinePool(p) \/ k = OCIMachinePool(p))
      BY <1>8, <2>2 DEF Vanishes
    <3>2. p \in WantedPools(call[c].v)
      BY <1>2, <3>1, WantedWorker, PoolKeys
    <3>3. CASE call[c].op = "Create"
      BY <1>1, <2>1, <3>3 DEF OriginInv, LeavingInv
    <3>4. CASE call[c].op \in {"Update", "SetVersion"}
      <4>1. PastGate(c)
        BY <1>1, <3>1, <3>4, BehindFacts
      <4> QED BY <1>1, <2>1, <3>2, <4>1 DEF HealthyInv, WantedStay
    <3> QED BY <1>2, <3>3, <3>4, OpsAssumption
  <2>3. store'[k] = store[k]
    BY <1>1, <1>2, <1>8, <2>2, VanishEffect
  <2> QED BY <1>3, <2>3 DEF Exists
<1> QED BY <1>4, <1>5, <1>6, <1>7, <1>8, Effects

\* When the pools are ready none of them is leaving.
LEMMA ReadyPools ==
  ASSUME KeepInv, NEW c \in Calls, Running(c), call[c].v.pools = <<>> \/ areMachinePoolsReady,
         NEW p \in WantedPools(call[c].v)
  PROVE  /\ Exists(MachinePool(p)) => phase[p] = "Running"
         /\ MachinePool(p) \notin leaving
<1>1. CallOK /\ LeavingInv
  BY TypeInvParts DEF KeepInv, RefineInv, StayInv
<1>2. p \in Pools
  BY <1>1, StepOf, WantedPoolsType
<1>3. call[c].v.pools # <<>>
  BY DEF WantedPools
<1>4. Exists(MachinePool(p)) => phase[p] = "Running"
  BY <1>2, <1>3 DEF areMachinePoolsReady, ListedPools
<1>5. MachinePool(p) \in leaving => Exists(MachinePool(p)) /\ phase[p] = "Deleting"
  BY <1>1, <1>2 DEF LeavingInv, leaving
<1> QED BY <1>4, <1>5

\* How a call that runs after the step got there.
LEMMA RunsOn ==
  ASSUME CallOK, NEW c \in Calls, Cases(c), Running(c)'
  PROVE  \/ Running(c) /\ call'[c] = call[c] /\ Outside
         \/ Starts(c)
         \/ Goes(c, 0) /\ call'[c].at = call[c].at
         \/ PutsOn(c) \/ PassesGate(c)
<1>1. CASE Outside
  BY <1>1 DEF Outside, Running
<1>2. CASE Breaks(c) \/ Succeeds(c)
  BY <1>2 DEF Breaks, Succeeds, Finishes, Running
<1>3. CASE Looks(c) \/ Lists(c) \/ (\E p \in Pools : DropsPool(c, p)) \/ DropsInfra(c)
  BY <1>3, StaysAtStep DEF Looks, Lists, DropsPool, DropsInfra
<1> QED BY <1>1, <1>2, <1>3 DEF Cases

LEMMA WantedStayStep ==
  ASSUME KeepInv, NEW c \in Calls, Cases(c), Running(c)'
  PROVE  WantedStay(c)'
<1>1. CallOK /\ HealthyInv
  BY TypeInvParts DEF KeepInv, RefineInv, StayInv
<1> SUFFICES ASSUME PastGate(c)', NEW p \in WantedPools(call'[c].v), MachinePool(p) \in leaving'
             PROVE  FALSE
  BY DEF WantedStay
<1>2. ASSUME Running(c), call'[c].v = call[c].v, PastGate(c) PROVE FALSE
  BY <1>1, <1>2, NoNewLeaving DEF HealthyInv, WantedStay
<1>3. CASE Running(c) /\ call'[c] = call[c] /\ Outside
  BY <1>2, <1>3 DEF PastGate
<1>4. CASE Starts(c)
  BY <1>1, <1>4, StartFrame DEF Starts, PastGate
<1>5. CASE Goes(c, 0) /\ call'[c].at = call[c].at
  BY <1>2, <1>5 DEF Goes, SameCall, PastGate
<1>6. CASE PutsOn(c) \/ PassesGate(c)
  <2>1. /\ Running(c) /\ call'[c].v = call[c].v /\ call'[c].op = call[c].op
        /\ call'[c].at = call[c].at + 1
    BY <1>6 DEF PutsOn, PassesGate, Goes, SameCall
  <2>2. CASE call[c].at > 3
    BY <1>2, <2>1, <2>2 DEF PastGate
  <2>3. CASE call[c].at = 3
    <3>1. Step(c).do = "gate"
      BY <1>1, <2>1, <2>3, StepOf, UpdateShape DEF PastGate
    <3>2. call[c].v.pools = <<>> \/ areMachinePoolsReady
      BY <1>6, <3>1 DEF PutsOn, PutsObject, PassesGate
    <3> QED BY <2>1, <3>2, ReadyPools, NoNewLeaving
  <2>4. call[c].at >= 3
    BY <1>1, <2>1, StepOf, RunningStep DEF PastGate, Frames
  <2> QED BY <1>1, <2>1, <2>2, <2>3, <2>4, RunningStep DEF Frames
<1> QED BY <1>1, <1>3, <1>4, <1>5, <1>6, RunsOn

LEMMA PutsStayStep ==
  ASSUME KeepInv, NEW c \in Calls, Cases(c), Running(c)'
  PROVE  PutsStay(c)'
<1>1. CallOK
  BY TypeInvParts DEF KeepInv, RefineInv, StayInv
<1> SUFFICES ASSUME call'[c].op # "SetClusterSize",
                    NEW k \in Behind(call'[c].op, call'[c].v, call'[c].at)
             PROVE  Exists(k)'
  BY DEF PutsStay, Behind, Plan
<1>2. ASSUME Running(c), call'[c].op = call[c].op,
             k \in Behind(call[c].op, call[c].v, call[c].at)
      PROVE  Exists(k)'
  BY <1>2, NothingLost
<1>3. CASE Running(c) /\ call'[c] = call[c] /\ Outside
  BY <1>2, <1>3
<1>4. CASE Starts(c)
  <2>1. call'[c].at = 1
    BY <1>1, <1>4, StartFrame DEF Starts
  <2> QED BY <2>1 DEF Behind
<1>5. CASE Goes(c, 0) /\ call'[c].at = call[c].at
  BY <1>2, <1>5 DEF Goes, SameCall
<1>6. CASE PutsOn(c) \/ PassesGate(c)
  <2>1. /\ Running(c) /\ call'[c].v = call[c].v /\ call'[c].op = call[c].op
        /\ call'[c].at = call[c].at + 1
    BY <1>6 DEF PutsOn, PassesGate, Goes, SameCall
  <2>2. /\ Step(c).do = "put" =>
             k \in Behind(call[c].op, call[c].v, call[c].at) \cup {Step(c).key}
        /\ Step(c).do # "put" => k \in Behind(call[c].op, call[c].v, call[c].at)
    <3>1. call[c].at \in Nat \ {0}
      BY <1>1, <2>1, RunningStep DEF Frames
    <3>2. Step(c) = Plan(call[c].op, call[c].v)[call[c].at]
      BY DEF Step
    <3> QED BY <2>1, <3>1, <3>2, BehindNext
  <2>3. CASE PutsOn(c)
    <3>1. Step(c).do = "put" /\ store'[Step(c).key] # None
      BY <2>3 DEF PutsOn, PutsObject, Written
    <3>2. CASE k = Step(c).key
      BY <3>1, <3>2 DEF Exists
    <3>3. CASE k \in Behind(call[c].op, call[c].v, call[c].at)
      BY <1>2, <2>1, <3>3
    <3> QED BY <2>2, <3>1, <3>2, <3>3
  <2>4. CASE PassesGate(c)
    BY <1>2, <2>1, <2>2, <2>4 DEF PassesGate
  <2> QED BY <1>6, <2>3, <2>4
<1> QED BY <1>1, <1>3, <1>4, <1>5, <1>6, RunsOn

\* The prune is the last step of an Update or SetVersion, past the first gate.
LEMMA PrunePlace ==
  ASSUME CallOK, NEW c \in Calls, Running(c), Step(c).do = "prune"
  PROVE  /\ PastGate(c) /\ call[c].op \in {"Update", "SetVersion"}
         /\ call[c].at = Len(Plan(call[c].op, call[c].v)) /\ call[c].at > 8
         /\ WantedKeys(call[c].v) \subseteq Behind(call[c].op, call[c].v, call[c].at)
<1>1. /\ call[c].v \in Variables /\ call[c].at \in 1 .. Len(Plan(call[c].op, call[c].v))
      /\ Step(c) = Plan(call[c].op, call[c].v)[call[c].at]
  BY StepOf
<1>2. call[c].op \in {"Update", "SetVersion"} /\ call[c].at = Len(Plan(call[c].op, call[c].v))
  BY StepPlaces
<1>3. call[c].at \in Nat /\ call[c].at > 8
  BY <1>1, <1>2, UpdateShape
<1>4. WantedKeys(call[c].v) \subseteq Behind(call[c].op, call[c].v, call[c].at)
  BY <1>1, <1>2, UpdateOrder DEF Prunes
<1> QED BY <1>2, <1>3, <1>4 DEF PastGate

LEMMA WantedUpStep ==
  ASSUME KeepInv, CallOK', NEW c \in Calls, Cases(c), Running(c)'
  PROVE  WantedUp(c)'
<1>1. /\ TypeInv /\ CallOK /\ HealthyInv /\ LeavingInv /\ PruneInv
      /\ phase \in [Pools -> Phases]
  BY TypeInvParts DEF KeepInv, RefineInv, StayInv, StatusOK
<1> SUFFICES ASSUME Step(c)'.do = "prune", NEW p \in WantedPools(call'[c].v)
             PROVE  phase'[p] \in {"Running", "Failed"}
  BY DEF WantedUp
\* In place: only a pool that is leaving can lose its health.
<1>2. ASSUME Running(c), call'[c].v = call[c].v, Step(c).do = "prune"
      PROVE  phase'[p] \in {"Running", "Failed"}
  <2>1. phase[p] \in {"Running", "Failed"} /\ MachinePool(p) \notin leaving
    BY <1>1, <1>2, PrunePlace DEF HealthyInv, WantedUp, WantedStay
  <2>2. p \in Pools
    BY <1>1, <1>2, StepOf, WantedPoolsType
  <2>3. CASE Unmoved \/ Health
    BY <2>1, <2>2, <2>3 DEF Unmoved, Health
  <2>4. ASSUME NEW q \in Pools, DoomsPool(c, q) PROVE phase'[p] \in {"Running", "Failed"}
    <3>1. q # p
      BY <1>1, <1>2, <2>4 DEF DoomsPool, PruneInv, InLine, Unwanted
    <3> QED BY <1>1, <2>1, <2>2, <2>4, <3>1, DoomsPoolEffect
  <2>5. CASE DoomsInfra(c)
    BY <2>1, <2>5 DEF DoomsInfra
  <2>6. ASSUME NEW q \in Pools, NEW gone \in SUBSET WorkerKeys, Vanishes(q, gone)
        PROVE  phase'[p] \in {"Running", "Failed"}
    BY <1>1, <2>1, <2>2, <2>6, VanishEffect
  <2>7. ~PutsObject(c)
    BY <1>2 DEF PutsObject
  <2> QED BY <1>2, <2>3, <2>4, <2>5, <2>6, <2>7, Effects
<1>3. CASE Running(c) /\ call'[c] = call[c] /\ Outside
  <2>1. Step(c)' = Step(c)
    BY <1>3 DEF Step, Plan
  <2> QED BY <1>2, <1>3, <2>1
<1>4. CASE Starts(c)
  <2>0. PICK op \in Ops, v \in Variables : Begin(c, op, v)
    BY <1>4 DEF Starts
  <2>1. call'[c].at = 1 /\ call'[c].op = op /\ call'[c].v = v
    BY <1>1, <2>0, StartFrame
  <2>2. Step(c)' = Plan(op, v)[1]
    BY <2>1 DEF Step, Plan
  <2>3. Len(Plan(op, v)) \in Nat /\ Len(Plan(op, v)) >= 1
    BY PlanSteps
  <2>4. CASE Prunes([op |-> op, v |-> v])
    <3>1. op \in {"Update", "SetVersion"}
      BY <2>4 DEF Prunes
    <3>2. 1 \in 1 .. Len(Plan(op, v)) /\ Plan(op, v)[1].do = "prune"
      BY <2>2, <2>3
    <3>3. 1 = Len(Plan(op, v))
      BY <2>4, <3>1, <3>2, UpdateOrder
    <3>4. Len(Plan(op, v)) > 8
      BY <3>1, UpdateShape
    <3> DEFINE n == Len(Plan(op, v))
    <3>5. n = 1 /\ n > 8
      BY <3>3, <3>4
    <3> HIDE DEF n
    <3> QED BY <3>5
  <2>5. CASE ~Prunes([op |-> op, v |-> v])
    BY <2>2, <2>3, <2>5, CreateOrder
  <2> QED BY <2>4, <2>5
<1>5. CASE Goes(c, 0) /\ call'[c].at = call[c].at
  <2>1. Running(c) /\ call'[c].v = call[c].v /\ Step(c)' = Step(c)
    BY <1>1, <1>5, StaysAtStep DEF Goes, SameCall
  <2> QED BY <1>2, <2>1
<1>6. CASE PutsOn(c) \/ PassesGate(c)
  <2> DEFINE op == call[c].op
             v == call[c].v
             n == Len(Plan(op, v))
  <2>1. /\ Running(c) /\ call'[c].v = v /\ call'[c].op = op /\ call'[c].at = call[c].at + 1
    BY <1>6 DEF PutsOn, PassesGate, Goes, SameCall
  <2>2. /\ v \in Variables /\ call[c].at \in 1 .. n /\ n \in Nat
        /\ Step(c) = Plan(op, v)[call[c].at]
    BY <1>1, <2>1, StepOf, PlanSteps
  <2>3. call'[c].at \in 1 .. n /\ Step(c)' = Plan(op, v)[call[c].at + 1]
    <3>1. call'[c].at \in 1 .. Len(Plan(call'[c].op, call'[c].v))
      BY DEF CallOK, Plan
    <3> QED BY <2>1, <3>1 DEF Step, Plan
  <2>4. op \in {"Update", "SetVersion"}
    <3>1. CASE ~Prunes([op |-> op, v |-> v])
      BY <2>1, <2>2, <2>3, <3>1, CreateOrder
    <3>2. CASE Prunes([op |-> op, v |-> v])
      BY <3>2 DEF Prunes
    <3> QED BY <3>1, <3>2
  <2>5. call[c].at + 1 = n /\ WantedKeys(v) \subseteq Behind(op, v, call[c].at + 1)
    BY <2>1, <2>2, <2>3, <2>4, UpdateOrder DEF Prunes
  <2>6. call[c].at = n - 1
    BY <2>2, <2>5
  <2>7. Step(c).do = "gate"
    BY <2>2, <2>4, <2>6, UpdateShape
  <2>8. Unmoved /\ (v.pools = <<>> \/ areMachinePoolsReady)
    BY <1>6, <2>7 DEF PutsOn, PutsObject, PassesGate
  <2>9. Behind(op, v, call[c].at + 1) = Behind(op, v, call[c].at)
    <3>1. call[c].at \in Nat \ {0}
      BY <2>2
    <3> QED BY <2>2, <2>7, <3>1, BehindNext
  <2>10. Exists(MachinePool(p))
    <3>1. MachinePool(p) \in WantedKeys(v)
      BY <2>1 DEF WantedKeys
    <3>2. op # "SetClusterSize"
      BY <2>4
    <3> QED BY <1>1, <2>1, <2>5, <2>9, <3>1, <3>2 DEF HealthyInv, PutsStay
  <2>11. phase[p] = "Running"
    BY <2>1, <2>8, <2>10, ReadyPools
  <2> QED BY <2>8, <2>11 DEF Unmoved
<1> QED BY <1>1, <1>3, <1>4, <1>5, <1>6, RunsOn

LEMMA HealthyStep ==
  ASSUME KeepInv, CallOK', SerialCalls, NEW c \in Calls, Cases(c)
  PROVE  HealthyInv'
<1>1. Running(c)' => WantedStay(c)' /\ PutsStay(c)' /\ WantedUp(c)'
  BY WantedStayStep, PutsStayStep, WantedUpStep
<1> QED BY <1>1 DEF HealthyInv, SerialCalls

-----------------------------------------------------------------------------
(* A success is in force.                                                  *)

\* Objects that are not leaving are not taken away while no call runs.
LEMMA SettledOutside ==
  ASSUME KeepInv, SettledInv, \A c \in Calls : ~Running(c), outcome \in Whole, Outside
  PROVE  InEffect(info) /\ InEffect(info)' /\ (outcome # "Create" => OthersLeave(info)')
<1>1. /\ TypeInv /\ LeavingInv /\ phase \in [Pools -> Phases]
      /\ info \in Variables /\ InEffect(info) /\ info' = info
      /\ outcome # "Create" => OthersLeave(info)
  BY TypeInvParts DEF KeepInv, RefineInv, StayInv, StatusOK, SettledInv, Outside
<1>2. CASE Health
  <2>1. store' = store /\ leaving' = leaving
    BY <1>2, Quiet DEF Health
  <2> QED BY <1>1, <2>1 DEF InEffect, OthersLeave, Exists
<1>3. ASSUME NEW p \in Pools, NEW gone \in SUBSET WorkerKeys, Vanishes(p, gone)
      PROVE  InEffect(info)' /\ (outcome # "Create" => OthersLeave(info)')
  <2>1. /\ leaving' = leaving \ gone
        /\ \A j \in Keys \ gone : store'[j] = store[j]
        /\ \A j \in Keys : Exists(j)' => Exists(j)
    BY <1>1, <1>3, VanishEffect
  <2>2. MachinePool(p) \in leaving /\ \A k \in gone : k = MachinePool(p) \/ k = OCIMachinePool(p)
    BY <1>1, <1>3 DEF Vanishes, LeavingInv
  <2>3. ASSUME NEW k \in WantedKeys(info)
        PROVE  k \in Keys /\ k \notin gone
    <3>1. k \in Keys
      BY <1>1, RenderType
    <3>2. ASSUME k \in gone PROVE FALSE
      <4>1. k \in WorkerKeys /\ (k = MachinePool(p) \/ k = OCIMachinePool(p))
        BY <1>3, <2>2, <3>2
      <4>2. p \in WantedPools(info)
        BY <1>1, <4>1, WantedWorker, PoolKeys
      <4>3. MachinePool(p) \in WantedKeys(info)
        BY <4>2 DEF WantedKeys
      <4> QED BY <1>1, <2>2, <4>3 DEF InEffect
    <3> QED BY <3>1, <3>2
  <2>4. InEffect(info)'
    <3>1. ASSUME NEW k \in WantedKeys(info)
          PROVE  store'[k] # None /\ store'[k].content = Render(k, info) /\ k \notin leaving'
      BY <1>1, <2>1, <2>3 DEF InEffect, Exists
    <3> QED BY <1>1, <3>1 DEF InEffect, Exists
  <2>5. ASSUME outcome # "Create" PROVE OthersLeave(info)'
    <3>1. ASSUME NEW q \in Pools \ WantedPools(info), store'[MachinePool(q)] # None
          PROVE  MachinePool(q) \in leaving'
      <4>1. MachinePool(q) \in Keys /\ Exists(MachinePool(q))
        BY <2>1, <3>1, WorkerKeysAreKeys DEF Exists
      <4>2. MachinePool(q) \notin gone
        BY <1>3, <3>1, <4>1 DEF Vanishes
      <4> QED BY <1>1, <2>1, <2>5, <4>1, <4>2 DEF OthersLeave
    <3> QED BY <1>1, <3>1 DEF OthersLeave, Exists
  <2> QED BY <2>4, <2>5
<1> QED BY <1>1, <1>2, <1>3 DEF Outside

\* What a call has put is there as it wants it.
LEMMA PutsApplied ==
  ASSUME KeepInv, NEW c \in Calls, Running(c), call[c].op # "SetClusterSize",
         NEW k \in Behind(call[c].op, call[c].v, call[c].at)
  PROVE  Exists(k) /\ store[k].content = Render(k, call[c].v)
<1>1. HealthyInv /\ StepsStayApplied
  BY DEF KeepInv, RefineInv, StayInv
<1>2. PICK i \in 1 .. (call[c].at - 1) : /\ Plan(call[c].op, call[c].v)[i].do = "put"
                                         /\ Plan(call[c].op, call[c].v)[i].key = k
  BY DEF Behind
<1>3. Exists(k)
  BY <1>1 DEF HealthyInv, PutsStay
<1> QED BY <1>1, <1>2, <1>3 DEF StepsStayApplied

\* At the prune everything the call wants is in force.
LEMMA PruneForce ==
  ASSUME KeepInv, NEW c \in Calls, Running(c), Step(c).do = "prune"
  PROVE  InEffect(call[c].v)
<1>1. CallOK /\ LeavingInv /\ HealthyInv
  BY TypeInvParts DEF KeepInv, RefineInv, StayInv
<1>2. /\ PastGate(c) /\ call[c].op # "SetClusterSize" /\ call[c].v \in Variables
      /\ WantedKeys(call[c].v) \subseteq Behind(call[c].op, call[c].v, call[c].at)
  BY <1>1, PrunePlace, StepOf
<1> SUFFICES ASSUME NEW k \in WantedKeys(call[c].v)
             PROVE  Exists(k) /\ store[k].content = Render(k, call[c].v) /\ k \notin leaving
  BY DEF InEffect
<1>3. Exists(k) /\ store[k].content = Render(k, call[c].v)
  BY <1>2, PutsApplied
<1>4. ASSUME k \in leaving PROVE FALSE
  <2>1. k \in WorkerKeys
    BY <1>1, <1>4 DEF LeavingInv
  <2>2. PICK p \in WantedPools(call[c].v) : p \in Pools /\ (k = MachinePool(p) \/ k = OCIMachinePool(p))
    BY <1>2, <2>1, WantedWorker
  <2>3. MachinePool(p) \in leaving
    BY <1>1, <1>4, <2>2 DEF LeavingInv
  <2> QED BY <1>1, <1>2, <2>3 DEF HealthyInv, WantedStay
<1> QED BY <1>3, <1>4

\* The last put of a Create completes it, and nothing is leaving then.
LEMMA CreateForce ==
  ASSUME KeepInv, NEW c \in Calls, Running(c), call[c].op = "Create", PutsObject(c),
         call[c].at = Len(Plan(call[c].op, call[c].v)), info' = call[c].v
  PROVE  InEffect(info)'
<1>1. CallOK /\ LeavingInv /\ OriginInv
  BY TypeInvParts DEF KeepInv, RefineInv, StayInv
<1>2. /\ call[c].v \in Variables /\ call[c].at \in 1 .. Len(Plan(call[c].op, call[c].v))
      /\ Step(c) = Plan(call[c].op, call[c].v)[call[c].at]
  BY <1>1, StepOf
<1>3. WantedKeys(call[c].v) \subseteq
        Behind(call[c].op, call[c].v, call[c].at) \cup {Step(c).key}
  BY <1>2, CreateOrder DEF Prunes
<1>4. leaving' = {}
  BY <1>1 DEF PutsObject, OriginInv, LeavingInv
<1>5. ASSUME NEW k \in WantedKeys(call[c].v)
      PROVE  store'[k] # None /\ store'[k].content = Render(k, call[c].v)
  <2>1. CASE k = Step(c).key
    BY <2>1 DEF PutsObject, Written
  <2>2. CASE k # Step(c).key
    <3>1. Exists(k) /\ store[k].content = Render(k, call[c].v)
      BY <1>3, <1>5, <2>2, PutsApplied
    <3>2. k \in Keys
      BY <1>2, RenderType
    <3> QED BY <2>2, <3>1, <3>2 DEF PutsObject, Exists
  <2> QED BY <2>1, <2>2
<1> QED BY <1>4, <1>5 DEF InEffect, Exists

LEMMA SettledStep ==
  ASSUME KeepInv, SerialCalls, NEW c \in Calls, Cases(c)
  PROVE  SettledInv'
<1>1. TypeInv /\ CallOK /\ OriginInv /\ PruneInv /\ SettledInv /\ StoreOK
  BY TypeInvParts DEF KeepInv, RefineInv, StayInv
<1> SUFFICES ASSUME ~Running(c)', outcome' \in Whole
             PROVE  info' \in Variables /\ InEffect(info)' /\ (outcome' # "Create" => OthersLeave(info)')
  BY DEF SettledInv, Whole
<1>2. CASE Outside
  <2>1. outcome' = outcome /\ info' = info
    BY <1>2 DEF Outside, Whole
  <2>2. \A d \in Calls : ~Running(d)
    BY <1>2 DEF Outside, Running, SerialCalls
  <2>3. info \in Variables
    BY <1>1, <2>1, <2>2 DEF SettledInv
  <2> QED BY <1>1, <1>2, <2>1, <2>2, <2>3, SettledOutside
<1>3. CASE Starts(c)
  <2>1. PICK op \in Ops, v \in Variables : Begin(c, op, v)
    BY <1>3 DEF Starts
  <2>2. call'[c] = [op |-> op, v |-> v, at |-> 1, seen |-> "nothing", doomed |-> {}, infra |-> None]
    BY <1>1, <2>1 DEF Begin, CallOK
  <2>3. call'[c] \in Frames
    BY <2>2 DEF Frames
  <2> QED BY <2>3, NoneFacts DEF Running
<1>4. CASE Breaks(c)
  BY <1>4 DEF Breaks, Whole
<1>5. CASE Goes(c, 0) \/ Goes(c, 1)
  BY <1>5, NoneFacts DEF Goes, SameCall, Running
<1>6. CASE Succeeds(c)
  <2>1. /\ Running(c) /\ outcome' = call[c].op /\ call[c].at = Len(Plan(call[c].op, call[c].v))
        /\ call[c].op \in Whole /\ call[c].v \in Variables
    BY <1>1, <1>6, StepOf DEF Succeeds, Finishes
  <2>2. info' = call[c].v
    <3>1. CASE call[c].op \in {"Create", "Update"}
      BY <1>6, <3>1 DEF Succeeds, Finishes
    <3>2. CASE call[c].op = "SetVersion"
      BY <1>1, <1>6, <2>1, <3>2 DEF Succeeds, Finishes, OriginInv
    <3> QED BY <2>1, <3>1, <3>2 DEF Whole
  <2>3. CASE PutsObject(c)
    <3>1. call[c].op = "Create"
      <4>1. CASE Prunes([op |-> call[c].op, v |-> call[c].v])
        BY <1>1, <2>1, <2>3, <4>1, StepOf, UpdateOrder DEF PutsObject
      <4>2. CASE ~Prunes([op |-> call[c].op, v |-> call[c].v])
        BY <2>1, <4>2 DEF Prunes, Whole
      <4> QED BY <4>1, <4>2
    <3>2. InEffect(info)'
      BY <2>1, <2>2, <2>3, <3>1, CreateForce
    <3> QED BY <2>1, <2>2, <3>1, <3>2
  <2>4. CASE Step(c).do = "prune" /\ call[c].seen = "found" /\ call[c].doomed = {} /\ Unmoved
    <3>1. store' = store /\ leaving' = leaving
      BY <2>4, Quiet DEF Unmoved
    <3>2. InEffect(call[c].v)
      BY <2>1, <2>4, PruneForce
    <3>3. InEffect(info)'
      BY <2>2, <3>1, <3>2 DEF InEffect, Exists
    <3>4. ASSUME NEW p \in Pools \ WantedPools(call[c].v), Exists(MachinePool(p))
          PROVE  MachinePool(p) \in leaving
      <4>1. store[MachinePool(p)].dying
        BY <1>1, <2>1, <2>4, <3>4 DEF PruneInv, InLine, Unwanted
      <4>2. MachinePool(p) \in Keys
        BY WorkerKeysAreKeys
      <4> QED BY <1>1, <3>4, <4>1, <4>2, ContentFacts
    <3>5. OthersLeave(info)'
      BY <2>2, <3>1, <3>4 DEF OthersLeave, Exists
    <3> QED BY <2>1, <2>2, <3>3, <3>5
  <2> QED BY <1>6, <2>3, <2>4 DEF Succeeds, Finishes
<1> QED BY <1>2, <1>3, <1>4, <1>5, <1>6, GoesOn DEF Cases

-----------------------------------------------------------------------------
(* The theorems.                                                           *)

LEMMA KeepInit == ASSUME Init PROVE KeepInv
<1>1. RefineInv
  BY InitType DEF Init, RefineInv, StayInv, PruneInv, StepsStayApplied, StillMissing, Running
<1>2. leaving = {}
  BY DEF Init, leaving, Exists
<1>3. LeavingInv
  BY <1>2 DEF LeavingInv
<1>4. OriginInv /\ DoomedInv /\ HealthyInv
  BY DEF Init, OriginInv, DoomedInv, HealthyInv, Running
<1>5. SettledInv
  BY DEF Init, SettledInv, Whole
<1> QED BY <1>1, <1>3, <1>4, <1>5 DEF KeepInv

LEMMA KeepStep ==
  ASSUME KeepInv, SerialCalls, Calls # {}, ~DeletionLag, [Next]_vars
  PROVE  KeepInv'
<1>1. RefineInv /\ StayInv /\ TypeInv /\ PruneInv
  BY DEF KeepInv, RefineInv, StayInv
<1>2. TypeInv'
  BY <1>1, StepType
<1>3. RefineInv'
  BY <1>1, <1>2, StayNext, PruneStep DEF RefineInv, StayInv
<1>4. PICK c \in Calls : TRUE
  OBVIOUS
<1>5. Cases(c) /\ CallOK'
  BY <1>1, <1>2, NextCase, TypeInvParts
<1> QED BY <1>3, <1>5, LeavingStep, OriginStep, DoomedStep, HealthyStep, SettledStep DEF KeepInv

\* A rollout that returned success is in force as a whole.
THEOREM SuccessIsWhole ==
  ASSUME SerialCalls, Calls # {}, ~DeletionLag PROVE Spec => []SuccessMeansApplied
<1>1. KeepInv => SuccessMeansApplied
  <2> SUFFICES ASSUME KeepInv, \A c \in Calls : ~Running(c), outcome \in Whole
               PROVE  /\ \A k \in WantedKeys(info) : Exists(k) /\ store[k].content = Render(k, info)
                      /\ outcome # "Create" =>
                           \A p \in ListedPools \ WantedPools(info) : store[MachinePool(p)].dying
    BY DEF SuccessMeansApplied, Whole
  <2>1. InEffect(info) /\ (outcome # "Create" => OthersLeave(info))
    BY DEF KeepInv, SettledInv
  <2>2. ASSUME outcome # "Create", NEW p \in ListedPools \ WantedPools(info)
        PROVE  store[MachinePool(p)].dying
    BY <2>1, <2>2 DEF ListedPools, OthersLeave, leaving
  <2> QED BY <2>1, <2>2 DEF InEffect
<1>2. Init => KeepInv
  BY KeepInit
<1>3. KeepInv /\ [Next]_vars => KeepInv'
  BY KeepStep
<1> QED BY <1>1, <1>2, <1>3, PTL DEF Spec

\* And nothing of it goes away afterwards.
THEOREM SuccessLasts ==
  ASSUME SerialCalls, Calls # {}, ~DeletionLag PROVE Spec => []SuccessMeansKept
<1>1. KeepInv => SuccessMeansKept
  <2> SUFFICES ASSUME KeepInv, \A c \in Calls : ~Running(c), outcome \in Whole,
                      NEW k \in WantedKeys(info), Exists(k)
               PROVE  ~store[k].dying
    BY DEF SuccessMeansKept, Whole
  <2>1. info \in Variables /\ k \notin leaving
    BY DEF KeepInv, SettledInv, InEffect
  <2>2. k \in Keys
    BY <2>1, RenderType
  <2> QED BY <2>1, <2>2 DEF leaving
<1>2. Init => KeepInv
  BY KeepInit
<1>3. KeepInv /\ [Next]_vars => KeepInv'
  BY KeepStep
<1> QED BY <1>1, <1>2, <1>3, PTL DEF Spec

\* No pool is deleted before every pool the rollout wants has been up.
THEOREM ReplacedFirst ==
  ASSUME SerialCalls, Calls # {}, ~DeletionLag PROVE Spec => ReplacementBeforeRemoval
<1> DEFINE Replaced == \A p \in Pools, c \in Calls :
       (/\ Running(c) /\ Step(c).do = "prune"
        /\ Exists(MachinePool(p)) /\ ~store[MachinePool(p)].dying
        /\ store'[MachinePool(p)] # None /\ store'[MachinePool(p)].dying) =>
       \A q \in WantedPools(call[c].v) :
         /\ Exists(MachinePool(q)) /\ phase[q] \in {"Running", "Failed"}
         /\ store[MachinePool(q)].content = Render(MachinePool(q), call[c].v)
<1>1. KeepInv => Replaced
  <2> SUFFICES ASSUME KeepInv, NEW c \in Calls, Running(c), Step(c).do = "prune",
                      NEW q \in WantedPools(call[c].v)
               PROVE  /\ Exists(MachinePool(q)) /\ phase[q] \in {"Running", "Failed"}
                      /\ store[MachinePool(q)].content = Render(MachinePool(q), call[c].v)
    OBVIOUS
  <2>1. MachinePool(q) \in WantedKeys(call[c].v)
    BY DEF WantedKeys
  <2>2. InEffect(call[c].v)
    BY PruneForce
  <2>3. phase[q] \in {"Running", "Failed"}
    BY DEF KeepInv, HealthyInv, WantedUp
  <2> QED BY <2>1, <2>2, <2>3 DEF InEffect
<1>2. Init => KeepInv
  BY KeepInit
<1>3. KeepInv /\ [Next]_vars => KeepInv'
  BY KeepStep
<1> QED BY <1>1, <1>2, <1>3, PTL DEF Spec, ReplacementBeforeRemoval

-----------------------------------------------------------------------------
(***************************************************************************)
(* The Cluster's reference to its control plane, for calls that overlap    *)
(* and may ask for different things, as long as no other call is at work   *)
(* next to a Create.  Neither object is ever deleted, so a call may rely   *)
(* on every one it has left behind, whoever else puts what: an Update has  *)
(* the control plane it wants in place before it puts the Cluster, and     *)
(* SetClusterSize, which puts the Cluster first, wants the one of the kept *)
(* state, which is there as long as no failed Update has left its own.     *)
(***************************************************************************)
CreatesAlone ==
  \A c, d \in Calls : (Running(c) /\ Running(d) /\ call[c].op = "Create") => c = d

Bases == Keys \ WorkerKeys

\* A Create's own Cluster, which nobody else puts.
CreateRefers(c) ==
  call[c].op = "Create" =>
    /\ Cluster \in Behind(call[c].op, call[c].v, call[c].at) =>
         store[Cluster].content.controlPlaneRef = call[c].v.display
    /\ (Step(c).do = "put" /\ Step(c).key = Cluster /\ call[c].seen = "missing") => ~Exists(Cluster)

Grounded(c) ==
  /\ call[c].op = "Create" <=> ~created
  /\ \A k \in Behind(call[c].op, call[c].v, call[c].at) : k \in Bases => Exists(k)
  /\ call[c].op = "SetClusterSize" => Exists(ControlPlane(call[c].v.display))
  /\ CreateRefers(c)

KeptPlane == info # None /\ Exists(ControlPlane(info.display))

ReferenceInv ==
  /\ TypeInv /\ ControlPlaneRefResolves
  /\ \A c \in Calls : Running(c) => Grounded(c)
  /\ (created /\ TRUE \notin KeepOnError) => KeptPlane

AllEnd ==
  /\ \A c \in Calls : call'[c] = None
  /\ outcome' = "failed" /\ UNCHANGED <<info, created, store>>

\* One call takes a step, and the others do not.
Moves(c) == (Cases(c) \/ Overtaken(c)) /\ \A d \in Calls \ {c} : call'[d] = call[d]

LEMMA OthersKeep ==
  ASSUME TypeInv, NEW c \in Calls, Driver(c)
  PROVE  \A d \in Calls \ {c} : call'[d] = call[d]
<1>1. CallOK /\ CallerOK
  BY TypeInvParts
<1>2. ASSUME Running(c), Return(c, FALSE) \/ Advance(c)
      PROVE  \A d \in Calls \ {c} : call'[d] = call[d]
  BY <1>1, <1>2, ReturnType, AdvanceType
<1>3. ASSUME NEW f, call' = [call EXCEPT ![c] = f]
      PROVE  \A d \in Calls \ {c} : call'[d] = call[d]
  BY <1>1, <1>3 DEF CallOK
<1>4. CASE Start(c)
  <2>1. PICK op \in Ops, v \in Variables : Begin(c, op, v)
    BY <1>4, StartBegins
  <2> QED BY <1>3, <2>1 DEF Begin
<1>5. CASE Refuse(c)
  BY <1>5 DEF Refuse, driver
<1>6. CASE Get(c) \/ ListPools(c)
  BY <1>3, <1>6 DEF Get, ListPools
<1>7. CASE RequestFails(c) \/ Conflict(c) \/ NotReady(c) \/ AlreadyExists(c)
  BY <1>2, <1>7 DEF RequestFails, Conflict, NotReady, AlreadyExists, AtStep
<1>8. CASE Merge(c) \/ CreateObject(c)
  BY <1>2, <1>8 DEF Merge, CreateObject, AfterWrite, AtStep
<1>9. CASE CheckCluster(c) \/ CheckPools(c) \/ Pruned(c)
  BY <1>2, <1>3, <1>9 DEF CheckCluster, CheckPools, Pruned, AtStep
<1>10. CASE (\E p \in Pools : DeletePool(c, p)) \/ DeleteInfra(c)
  BY <1>2, <1>3, <1>10 DEF DeletePool, DeleteInfra, AtStep
<1> QED BY <1>4, <1>5, <1>6, <1>7, <1>8, <1>9, <1>10 DEF Driver, Work

LEMMA OverlapCase ==
  ASSUME TypeInv, [Next]_vars
  PROVE  Outside \/ AllEnd \/ \E c \in Calls : Moves(c)
<1>1. StoreOK /\ StatusOK
  BY TypeInvParts
<1>2. ASSUME UNCHANGED <<call, info, created, store, phase>>, outcome' \in {outcome, "failed"}
      PROVE  Outside
  BY <1>2 DEF Outside, Health
<1>3. ASSUME NEW c \in Calls, Driver(c)
      PROVE  Outside \/ Moves(c)
  <2>1. CASE Start(c)
    BY <1>3, <2>1, StartCase, OthersKeep DEF Moves, Cases
  <2>2. CASE Work(c) \/ RequestFails(c)
    BY <1>3, <2>2, WorkCase, OthersKeep DEF Moves
  <2>3. CASE Refuse(c)
    BY <1>2, <2>3 DEF Refuse, driver, status
  <2> QED BY <1>3, <2>1, <2>2, <2>3 DEF Driver
<1>4. CASE Crash
  BY <1>4 DEF Crash, AllEnd
<1>5. CASE InfrastructureUp \/ ControlPlaneUp \/ ClusterDisturbed \/ RotateCredential
  BY <1>2, <1>5 DEF InfrastructureUp, ControlPlaneUp, ClusterDisturbed, RotateCredential, caller,
     driver, status
<1>6. ASSUME NEW p \in Pools, PoolUp(p) \/ PoolDown(p) \/ PoolDeleting(p) \/ Finalize(p)
      PROVE  Outside
  BY <1>1, <1>6, PhaseCase, FinalizeCase
<1>7. CASE UNCHANGED vars
  BY <1>2, <1>7 DEF vars, caller, driver, status
<1> QED BY <1>3, <1>4, <1>5, <1>6, <1>7 DEF Next, Controllers, Trouble

-----------------------------------------------------------------------------
(* The objects of no pool are written by puts only.                        *)

LEMMA BaseOutside ==
  ASSUME TypeInv, Outside \/ AllEnd, NEW k \in Bases
  PROVE  store'[k] = store[k]
<1>1. phase \in [Pools -> Phases]
  BY TypeInvParts DEF StatusOK
<1>2. ASSUME NEW p \in Pools, NEW gone \in SUBSET WorkerKeys, Vanishes(p, gone)
      PROVE  store'[k] = store[k]
  BY <1>1, <1>2, VanishEffect DEF Bases
<1> QED BY <1>2 DEF Outside, Health, AllEnd

LEMMA BaseEffect ==
  ASSUME TypeInv, NEW c \in Calls, Moves(c), NEW k \in Bases
  PROVE  store'[k] = store[k] \/ (PutsObject(c) /\ k = Step(c).key)
<1>1. StoreOK
  BY TypeInvParts
<1>2. CASE Unmoved \/ Outside
  BY <1>2, BaseOutside DEF Unmoved
<1>3. CASE PutsObject(c)
  BY <1>3 DEF PutsObject, Bases
<1>4. ASSUME NEW p \in Pools, DoomsPool(c, p) PROVE store'[k] = store[k]
  <2>1. Doom(MachinePool(p)) /\ MachinePool(p) \in Keys /\ k # MachinePool(p)
    BY <1>4, WorkerKeysAreKeys DEF DoomsPool, Bases
  <2> QED BY <1>1, <2>1, DoomedOne DEF Bases
<1>5. CASE DoomsInfra(c)
  <2> DEFINE j == OCIMachinePool(call[c].infra)
  <2>1. Doom(j)
    BY <1>5 DEF DoomsInfra
  <2>2. j \in Keys /\ k # j
    BY <1>5, DoomsInfraEffect, WorkerKeysAreKeys DEF Bases
  <2> HIDE DEF j
  <2> QED BY <1>1, <2>1, <2>2, DoomedOne DEF Bases
<1> QED BY <1>2, <1>3, <1>4, <1>5 DEF Moves, Cases, Overtaken, Starts, Breaks, Succeeds, Looks, Lists,
     DropsPool, DropsInfra, PutsOn, PassesGate

LEMMA BaseStays ==
  ASSUME TypeInv, NEW k \in Bases, Exists(k), Outside \/ AllEnd \/ \E c \in Calls : Moves(c)
  PROVE  Exists(k)'
<1>1. CASE store'[k] = store[k]
  BY <1>1 DEF Exists
<1>2. ASSUME NEW c, PutsObject(c), k = Step(c).key PROVE Exists(k)'
  BY <1>2 DEF PutsObject, Written, Exists
<1> QED BY <1>1, <1>2, BaseEffect, BaseOutside

LEMMA BaseKinds ==
  ASSUME NEW d \in Displays
  PROVE  Cluster \in Bases /\ ControlPlane(d) \in Bases
BY DEF Cluster, ControlPlane, MachinePool, OCIMachinePool, Keys, WorkerKeys, Bases

LEMMA BaseWanted ==
  ASSUME NEW v \in Variables
  PROVE  /\ Cluster \in WantedKeys(v) /\ Cluster \in Bases
         /\ ControlPlane(v.display) \in WantedKeys(v) /\ ControlPlane(v.display) \in Bases
<1>1. v.display \in Displays
  BY DEF Variables
<1> QED BY <1>1, BaseKinds DEF WantedKeys

LEMMA ReferenceOf ==
  ASSUME NEW v PROVE Render(Cluster, v).controlPlaneRef = v.display
<1>1. Cluster[1] = "Cluster"
  BY DEF Cluster
<1> QED BY <1>1 DEF Render

\* What holds of an existing Cluster's reference.
LEMMA ReferenceType ==
  ASSUME TypeInv, Exists(Cluster)
  PROVE  store[Cluster].content.controlPlaneRef \in Displays
<1>1. Cluster \in Keys
  BY DEF Keys
<1>2. PICK v \in Variables : RenderedFrom(Cluster, store[Cluster].content, v)
  BY <1>1, TypeInvParts DEF StoreOK, Exists
<1>3. store[Cluster].content.controlPlaneRef = v.display
  BY <1>2, ReferenceOf DEF RenderedFrom
<1> QED BY <1>3 DEF Variables

-----------------------------------------------------------------------------
(* A call and what it leaves behind.                                       *)

\* The call has done what its step is for.
StepDone(c) ==
  /\ Running(c)
  /\ \/ PutsObject(c)
     \/ Unmoved /\ (Step(c).do = "put" => call[c].seen = "missing" /\ Exists(Step(c).key))

LEMMA DoneSteps ==
  ASSUME NEW c, PutsOn(c) \/ PassesGate(c) \/ Succeeds(c) \/ Overtaken(c)
  PROVE  StepDone(c)
<1>1. Running(c)
  BY DEF PutsOn, PassesGate, Succeeds, Finishes, Overtaken, Goes
<1> QED BY <1>1 DEF PutsOn, PassesGate, Succeeds, Overtaken, StepDone

\* What the call has put by the end of the step.
PutSoFar(c) ==
  Behind(call[c].op, call[c].v, call[c].at)
    \cup (IF Step(c).do = "put" THEN {Step(c).key} ELSE {})

LEMMA PutsThere ==
  ASSUME ReferenceInv, NEW c \in Calls, Moves(c), StepDone(c), NEW k \in PutSoFar(c), k \in Bases
  PROVE  /\ store'[k] # None
         /\ (call[c].op = "Create" /\ k = Cluster) =>
              store'[Cluster].content.controlPlaneRef = call[c].v.display
<1>1. TypeInv /\ Grounded(c)
  BY DEF ReferenceInv, StepDone
<1>2. CASE PutsObject(c) /\ k = Step(c).key
  BY <1>2, ReferenceOf DEF PutsObject, Written
<1>3. CASE store'[k] = store[k]
  <2>1. CASE k \in Behind(call[c].op, call[c].v, call[c].at)
    BY <1>1, <1>3, <2>1 DEF Grounded, CreateRefers, Exists
  <2>2. CASE Step(c).do = "put" /\ k = Step(c).key
    <3>1. CASE PutsObject(c)
      BY <1>2, <2>2, <3>1
    <3>2. CASE call[c].seen = "missing" /\ Exists(k)
      BY <1>1, <1>3, <2>2, <3>2 DEF Grounded, CreateRefers, Exists
    <3> QED BY <2>2, <3>1, <3>2 DEF StepDone
  <2> QED BY <2>1, <2>2 DEF PutSoFar
<1> QED BY <1>1, <1>2, <1>3, BaseEffect

\* With the last step of a whole plan, everything wanted is among it.
LEMMA AllSoFar ==
  ASSUME CallOK, NEW c \in Calls, Running(c), call[c].at = Len(Plan(call[c].op, call[c].v))
  PROVE  WantedKeys(call[c].v) \subseteq PutSoFar(c)
<1> DEFINE g == [op |-> call[c].op, v |-> call[c].v]
<1>1. /\ call[c].v \in Variables /\ call[c].at \in 1 .. Len(Plan(call[c].op, call[c].v))
      /\ Step(c) = Plan(call[c].op, call[c].v)[call[c].at]
  BY StepOf
<1>2. CASE Prunes(g)
  <2>1. Step(c).do \in {"put", "gate", "prune"}
    BY RunningStep, StepKinds DEF PlannedSteps
  <2>2. Step(c).do = "prune"
    BY <1>1, <1>2, <2>1, UpdateOrder
  <2> QED BY <1>1, <1>2, <2>2, UpdateOrder DEF PutSoFar
<1>3. CASE ~Prunes(g)
  BY <1>1, <1>3, CreateOrder DEF PutSoFar
<1> QED BY <1>2, <1>3

LEMMA FinishHasBase ==
  ASSUME ReferenceInv, NEW c \in Calls, Moves(c), StepDone(c), Finishes(c)
  PROVE  /\ store'[Cluster] # None /\ store'[ControlPlane(call[c].v.display)] # None
         /\ call[c].op = "Create" => store'[Cluster].content.controlPlaneRef = call[c].v.display
<1>1. CallOK /\ Running(c)
  BY TypeInvParts DEF ReferenceInv, Finishes
<1>2. call[c].v \in Variables
  BY <1>1, StepOf
<1>3. WantedKeys(call[c].v) \subseteq PutSoFar(c)
  BY <1>1, AllSoFar DEF Finishes
<1> QED BY <1>2, <1>3, BaseWanted, PutsThere

\* A call that puts the Cluster has the control plane it refers to in place.
LEMMA PlaneBeforeCluster ==
  ASSUME ReferenceInv, NEW c \in Calls, PutsObject(c), Step(c).key = Cluster, created
  PROVE  Exists(ControlPlane(call[c].v.display))
<1>1. CallOK /\ Running(c) /\ Step(c).do = "put" /\ Grounded(c)
  BY TypeInvParts DEF ReferenceInv, PutsObject
<1>2. call[c].v \in Variables /\ call[c].at \in 1 .. Len(Plan(call[c].op, call[c].v))
      /\ Step(c) = Plan(call[c].op, call[c].v)[call[c].at] /\ call[c].op \in Ops
  BY <1>1, StepOf, RunningStep
<1>3. call[c].v.display \in Displays
  BY <1>2 DEF Variables
<1>4. CASE call[c].op \in {"Create", "SetClusterSize"}
  BY <1>1, <1>4 DEF Grounded
<1>5. CASE call[c].op \in {"Update", "SetVersion"}
  <2> DEFINE g == [op |-> call[c].op, v |-> call[c].v]
             k == ControlPlane(call[c].v.display)
  <2>1. Prunes(g) /\ g.v = call[c].v
    BY <1>5 DEF Prunes
  <2>2. Before(g, Cluster) \subseteq Behind(call[c].op, call[c].v, call[c].at)
    BY <1>1, <1>2, <2>1, UpdateOrder
  <2>3. Cluster # PrincipalSecret /\ Cluster # k /\ Cluster \notin WorkerKeys
    BY <1>3, BaseKinds DEF Cluster, PrincipalSecret, ControlPlane, Bases
  <2>4. k \in Before(g, Cluster)
    BY <2>1, <2>3 DEF Before
  <2> QED BY <1>1, <1>3, <2>2, <2>4, BaseKinds DEF Grounded
<1> QED BY <1>2, <1>4, <1>5, OpsAssumption

\* Whoever steps, a Cluster that refers to a control plane goes on doing so.
LEMMA ReferenceStays ==
  ASSUME ReferenceInv, created, Outside \/ AllEnd \/ \E c \in Calls : Moves(c)
  PROVE  /\ store'[Cluster] # None
         /\ store'[ControlPlane(store'[Cluster].content.controlPlaneRef)] # None
<1> DEFINE r == store[Cluster].content.controlPlaneRef
<1>1. TypeInv /\ Exists(Cluster) /\ Exists(ControlPlane(r))
  BY DEF ReferenceInv, ControlPlaneRefResolves
<1>2. r \in Displays
  BY <1>1, ReferenceType
<1>3. Cluster \in Bases /\ ControlPlane(r) \in Bases
  BY <1>2, BaseKinds
<1>4. store'[Cluster] # None /\ store'[ControlPlane(r)] # None
  BY <1>1, <1>3, BaseStays DEF Exists
<1>5. ASSUME NEW c \in Calls, Moves(c), PutsObject(c), Cluster = Step(c).key
      PROVE  store'[ControlPlane(store'[Cluster].content.controlPlaneRef)] # None
  <2> DEFINE e == call[c].v.display
  <2>1. Exists(ControlPlane(e)) /\ call[c].v \in Variables
    BY <1>1, <1>5, PlaneBeforeCluster, StepOf, TypeInvParts DEF PutsObject
  <2>2. e \in Displays
    BY <2>1 DEF Variables
  <2>3. store'[ControlPlane(e)] # None
    BY <1>1, <1>5, <2>1, <2>2, BaseStays, BaseKinds DEF Exists
  <2>4. store'[Cluster].content.controlPlaneRef = e
    BY <1>5, ReferenceOf DEF PutsObject, Written
  <2> QED BY <2>3, <2>4
<1>6. CASE store'[Cluster] = store[Cluster]
  BY <1>4, <1>6
<1> QED BY <1>1, <1>3, <1>4, <1>5, <1>6, BaseEffect, BaseOutside

-----------------------------------------------------------------------------
(* The steps.                                                              *)

\* A Create that is at work is the only call, and puts in every step.
LEMMA CreatePuts ==
  ASSUME CallOK, NEW c \in Calls, Running(c), call[c].op = "Create"
  PROVE  Step(c).do = "put"
<1>1. /\ call[c].v \in Variables /\ call[c].at \in 1 .. Len(Plan(call[c].op, call[c].v))
      /\ Step(c) = Plan(call[c].op, call[c].v)[call[c].at]
  BY StepOf
<1>2. ~Prunes([op |-> call[c].op, v |-> call[c].v])
  BY DEF Prunes
<1> QED BY <1>1, <1>2, CreateOrder

\* A call that ends with its last step does nothing else.
LEMMA NotMore ==
  ASSUME CallOK, NEW c \in Calls, Finishes(c)
  PROVE  ~Outside /\ ~Starts(c) /\ ~Breaks(c) /\ ~Goes(c, 0) /\ ~Goes(c, 1)
<1>1. Running(c) /\ call'[c] = None /\ outcome' = call[c].op /\ call[c].op # "failed"
  BY RunningStep, OpsAssumption DEF Finishes
<1>2. ASSUME Starts(c) PROVE FALSE
  BY <1>1, <1>2 DEF Starts, Begin
<1>3. ASSUME Outside PROVE FALSE
  BY <1>1, <1>3 DEF Outside, Running
<1>4. ASSUME Goes(c, 0) \/ Goes(c, 1) PROVE FALSE
  BY <1>1, <1>4, NoneFacts DEF Goes, SameCall
<1>5. ~Breaks(c)
  BY <1>1 DEF Breaks
<1> QED BY <1>2, <1>3, <1>4, <1>5

LEMMA CreatedStep ==
  ASSUME ReferenceInv, Outside \/ AllEnd \/ \E c \in Calls : Moves(c)
  PROVE  \/ created' = created
         \/ \E c \in Calls : /\ Moves(c) /\ StepDone(c) /\ Finishes(c)
                             /\ call[c].op = "Create" /\ ~created /\ created'
<1>1. CASE Outside \/ AllEnd
  BY <1>1 DEF Outside, AllEnd
<1>2. ASSUME NEW c \in Calls, Moves(c), ~Finishes(c)
      PROVE  created' = created
  BY <1>2 DEF Moves, Cases, Outside, Starts, Begin, Breaks, Succeeds, Overtaken, Looks, Lists, DropsPool,
     DropsInfra, PutsOn, PassesGate, Goes, caller
<1>3. ASSUME NEW c \in Calls, Moves(c), Finishes(c)
      PROVE  StepDone(c) /\ (created' = created \/ (call[c].op = "Create" /\ ~created /\ created'))
  <2>1. Running(c) /\ call'[c] = None /\ created' = (created \/ call[c].op = "Create")
    BY <1>3 DEF Finishes
  <2>2. created \in BOOLEAN
    BY TypeInvParts DEF ReferenceInv, CallerOK
  <2>3. created' = created \/ (call[c].op = "Create" /\ ~created /\ created')
    BY <2>1, <2>2
  <2>4. ~Outside /\ ~Starts(c) /\ ~Breaks(c) /\ ~Goes(c, 0) /\ ~Goes(c, 1)
    BY <1>3, NotMore, TypeInvParts DEF ReferenceInv
  <2>5. Succeeds(c) \/ Overtaken(c)
    BY <1>3, <2>4, GoesOn DEF Moves, Cases
  <2> QED BY <2>3, <2>5, DoneSteps
<1> QED BY <1>1, <1>2, <1>3

\* A call that does not step stays grounded.
LEMMA GroundedStays ==
  ASSUME ReferenceInv, CreatesAlone, Outside \/ AllEnd \/ \E c \in Calls : Moves(c),
         NEW d \in Calls, Running(d), call'[d] = call[d],
         call[d].op = "Create" => store'[Cluster] = store[Cluster]
  PROVE  Grounded(d)'
<1>1. TypeInv /\ CallOK /\ Grounded(d) /\ call[d].v \in Variables
  BY StepOf, TypeInvParts DEF ReferenceInv
<1>2. call[d].v.display \in Displays
  BY <1>1 DEF Variables
<1>3. created' = created
  <2>1. ASSUME NEW c \in Calls, Finishes(c), call[c].op = "Create" PROVE FALSE
    BY <2>1 DEF CreatesAlone, Finishes, Running
  <2> QED BY <2>1, CreatedStep
<1>4. \A k \in Bases : Exists(k) => Exists(k)'
  BY <1>1, BaseStays
<1>5. CreateRefers(d)'
  BY <1>1 DEF Grounded, CreateRefers, Exists, Behind, Step
<1>6. \A k \in Behind(call'[d].op, call'[d].v, call'[d].at) : k \in Bases => store'[k] # None
  BY <1>1, <1>4 DEF Grounded, Exists
<1>7. call[d].op = "SetClusterSize" => Exists(ControlPlane(call[d].v.display))
  BY <1>1 DEF Grounded
<1>8. call'[d].op = "SetClusterSize" => store'[ControlPlane(call'[d].v.display)] # None
  BY <1>2, <1>4, <1>7, BaseKinds DEF Exists
<1>9. call'[d].op = "Create" <=> ~created'
  BY <1>1, <1>3, Zenon DEF Grounded
<1> QED BY <1>5, <1>6, <1>8, <1>9 DEF Grounded, Exists

\* A call starts with nothing behind it; a SetClusterSize has the kept state's
\* control plane to go by.
LEMMA GroundedStart ==
  ASSUME ReferenceInv, NEW c \in Calls, Starts(c),
         TRUE \notin KeepOnError \/ "SetClusterSize" \notin Ops
  PROVE  Grounded(c)'
<1>1. CallOK
  BY TypeInvParts DEF ReferenceInv
<1>2. PICK op \in Ops, v \in Variables :
        /\ Begin(c, op, v) /\ (op = "Create" <=> ~created)
        /\ op = "SetClusterSize" => v.display = info.display
  BY DEF Starts
<1>3. /\ call'[c].op = op /\ call'[c].v = v /\ call'[c].at = 1 /\ call'[c].seen = "nothing"
      /\ created' = created /\ store' = store
  BY <1>1, <1>2, StartFrame DEF caller
<1>4. Behind(call'[c].op, call'[c].v, call'[c].at) = {}
  BY <1>3 DEF Behind
<1>5. CreateRefers(c)'
  BY <1>3, <1>4 DEF CreateRefers
<1>6. op = "SetClusterSize" => Exists(ControlPlane(v.display))'
  BY <1>2, <1>3 DEF ReferenceInv, KeptPlane, Exists
<1> QED BY <1>2, <1>3, <1>4, <1>5, <1>6 DEF Grounded

LEMMA GroundedMoves ==
  ASSUME ReferenceInv, CreatesAlone, NEW c \in Calls, Moves(c), Running(c)',
         TRUE \notin KeepOnError \/ "SetClusterSize" \notin Ops
  PROVE  Grounded(c)'
<1>1. TypeInv /\ CallOK
  BY TypeInvParts DEF ReferenceInv
<1>2. \A k \in Bases : Exists(k) => Exists(k)'
  BY <1>1, BaseStays
<1>3. CASE Outside
  <2>1. call' = call /\ Running(c)
    BY <1>3 DEF Outside, Running
  <2>2. PICK d \in Displays : d = call[c].v.display
    BY <1>1, <2>1, StepOf DEF Variables
  <2> QED BY <1>1, <1>3, <2>1, <2>2, GroundedStays, BaseOutside, BaseKinds
<1>4. CASE Starts(c)
  BY <1>4, GroundedStart
<1>5. ASSUME Goes(c, 0) \/ Goes(c, 1)
      PROVE  /\ Running(c) /\ Grounded(c) /\ call[c].v \in Variables /\ call[c].v.display \in Displays
             /\ call'[c].op = call[c].op /\ call'[c].v = call[c].v
             /\ call'[c].op = "Create" <=> ~created'
             /\ call'[c].op = "SetClusterSize" => store'[ControlPlane(call'[c].v.display)] # None
  <2>1. /\ Running(c) /\ Grounded(c) /\ call[c].v \in Variables
        /\ call'[c].op = call[c].op /\ call'[c].v = call[c].v /\ created' = created
    BY <1>1, <1>5, StepOf DEF Goes, SameCall, ReferenceInv, caller
  <2>2. call[c].v.display \in Displays
    BY <2>1 DEF Variables
  <2>3. call[c].op = "SetClusterSize" => Exists(ControlPlane(call[c].v.display))
    BY <2>1 DEF Grounded
  <2>4. call'[c].op = "SetClusterSize" => store'[ControlPlane(call'[c].v.display)] # None
    BY <1>2, <2>1, <2>2, <2>3, BaseKinds DEF Exists
  <2>5. call'[c].op = "Create" <=> ~created'
    BY <2>1, Zenon DEF Grounded
  <2> QED BY <2>1, <2>2, <2>4, <2>5
<1>6. CASE Looks(c) \/ Lists(c) \/ (\E p \in Pools : DropsPool(c, p)) \/ DropsInfra(c)
  <2>1. Goes(c, 0)
    BY <1>6 DEF Looks, Lists, DropsPool, DropsInfra
  <2>2. call'[c].at = call[c].at
    BY <1>1, <2>1, StepOf DEF Goes
  <2>3. Behind(call'[c].op, call'[c].v, call'[c].at) = Behind(call[c].op, call[c].v, call[c].at)
        /\ Step(c)' = Step(c)
    BY <1>5, <2>1, <2>2 DEF Step
  <2>4. \A k \in Behind(call'[c].op, call'[c].v, call'[c].at) : k \in Bases => store'[k] # None
    BY <1>2, <1>5, <2>1, <2>3 DEF Grounded, Exists
  <2>5. CreateRefers(c)'
    <3> SUFFICES ASSUME call[c].op = "Create" PROVE CreateRefers(c)'
      BY <1>5, <2>1 DEF CreateRefers
    <3>1. Step(c).do = "put"
      BY <1>1, <1>5, <2>1, CreatePuts
    <3>2. Looks(c)
      BY <1>6, <3>1 DEF Lists, DropsPool, DropsInfra, DoomsPool, DoomsInfra
    <3>3. store' = store /\ (call'[c].seen = "missing" => ~Exists(Step(c).key))
      BY <3>2 DEF Looks, Unmoved
    <3> QED BY <1>5, <2>1, <2>3, <3>3 DEF Grounded, CreateRefers, Exists
  <2> QED BY <1>5, <2>1, <2>4, <2>5 DEF Grounded, Exists
<1>7. CASE Goes(c, 1) /\ (PutsOn(c) \/ PassesGate(c) \/ Overtaken(c))
  <2>1. StepDone(c)
    BY <1>7, DoneSteps
  <2>2. /\ call'[c].at = call[c].at + 1 /\ call'[c].seen = "nothing" /\ call[c].at \in Nat \ {0}
        /\ Step(c) = Plan(call[c].op, call[c].v)[call[c].at]
    BY <1>1, <1>5, <1>7, StepOf, RunningStep DEF Goes, Frames
  <2>3. Behind(call'[c].op, call'[c].v, call'[c].at) = PutSoFar(c)
    <3>1. call'[c].op = call[c].op /\ call'[c].v = call[c].v
      BY <1>5, <1>7
    <3>2. Behind(call[c].op, call[c].v, call[c].at + 1) = PutSoFar(c)
      BY <2>2, BehindNext DEF PutSoFar
    <3> QED BY <2>2, <3>1, <3>2
  <2>4. \A k \in PutSoFar(c) : k \in Bases => store'[k] # None
    BY <2>1, PutsThere
  <2>5. \A k \in Behind(call'[c].op, call'[c].v, call'[c].at) : k \in Bases => store'[k] # None
    BY <2>3, <2>4 DEF Exists
  <2>6. CreateRefers(c)'
    <3>1. (call[c].op = "Create" /\ Cluster \in PutSoFar(c)) =>
             store'[Cluster].content.controlPlaneRef = call[c].v.display
      BY <1>5, <1>7, <2>1, PutsThere, BaseKinds
    <3>2. call'[c].seen # "missing"
      BY <2>2
    <3> QED BY <1>5, <1>7, <2>3, <3>1, <3>2 DEF CreateRefers
  <2> QED BY <1>5, <1>7, <2>5, <2>6 DEF Grounded, Exists
<1>8. ~Breaks(c) /\ ~Finishes(c)
  BY DEF Breaks, Finishes, Running
<1>9. (PutsOn(c) \/ PassesGate(c) \/ Overtaken(c)) => Goes(c, 1)
  BY <1>8 DEF PutsOn, PassesGate, Overtaken
<1> QED BY <1>3, <1>4, <1>6, <1>7, <1>8, <1>9 DEF Moves, Cases, Succeeds

\* The kept state's control plane is there, if failed Updates are dropped.
LEMMA KeptPlaneStep ==
  ASSUME ReferenceInv, TRUE \notin KeepOnError, Outside \/ AllEnd \/ \E c \in Calls : Moves(c),
         created'
  PROVE  KeptPlane'
<1>1. TypeInv /\ CallOK /\ CallerOK
  BY TypeInvParts DEF ReferenceInv
<1>2. ASSUME created, info' = info PROVE KeptPlane'
  <2>1. info # None /\ info \in Variables /\ Exists(ControlPlane(info.display))
    BY <1>1, <1>2 DEF ReferenceInv, KeptPlane, CallerOK
  <2>2. info.display \in Displays
    BY <2>1 DEF Variables
  <2> QED BY <1>1, <1>2, <2>1, <2>2, BaseStays, BaseKinds DEF KeptPlane
<1>3. CASE Outside \/ AllEnd
  BY <1>2, <1>3 DEF Outside, AllEnd
<1>4. ASSUME NEW c \in Calls, Moves(c) PROVE KeptPlane'
  <2>1. CASE Finishes(c)
    <3>1. Running(c) /\ Grounded(c) /\ call[c].v \in Variables
      BY <1>1, <2>1, StepOf DEF Finishes, ReferenceInv
    <3>2. StepDone(c)
      <4>1. ~Outside /\ ~Starts(c) /\ ~Breaks(c) /\ ~Goes(c, 0) /\ ~Goes(c, 1)
        BY <1>1, <2>1, NotMore
      <4> QED BY <1>4, <4>1, GoesOn, DoneSteps DEF Moves, Cases
    <3>3. CASE call[c].op \in {"Create", "Update"}
      <4>1. info' = call[c].v /\ store'[ControlPlane(call[c].v.display)] # None
        BY <1>4, <2>1, <3>2, <3>3, FinishHasBase DEF Finishes
      <4> QED BY <3>1, <4>1, NoneFacts DEF KeptPlane, Exists
    <3>4. CASE call[c].op \notin {"Create", "Update"}
      BY <1>2, <2>1, <3>1, <3>4 DEF Finishes, Grounded
    <3> QED BY <3>3, <3>4
  <2>2. CASE Starts(c)
    BY <1>2, <2>2 DEF Starts, Begin, caller
  <2>3. CASE Breaks(c)
    <3>1. created /\ (info' = info \/ (Running(c) /\ call[c].op = "Create"))
      BY <2>3 DEF Breaks
    <3> QED BY <1>2, <3>1 DEF ReferenceInv, Grounded
  <2>4. CASE Goes(c, 0) \/ Goes(c, 1)
    BY <1>2, <2>4 DEF Goes, caller
  <2> QED BY <1>3, <1>4, <2>1, <2>2, <2>3, <2>4, GoesOn DEF Moves, Cases, Succeeds, Overtaken
<1> QED BY <1>3, <1>4

LEMMA ReferenceStep ==
  ASSUME ReferenceInv, CreatesAlone, TRUE \notin KeepOnError \/ "SetClusterSize" \notin Ops,
         [Next]_vars
  PROVE  ReferenceInv'
<1>1. TypeInv /\ TypeInv' /\ CallOK
  BY StepType, TypeInvParts DEF ReferenceInv
<1>2. Outside \/ AllEnd \/ \E c \in Calls : Moves(c)
  BY <1>1, OverlapCase
<1>3. ASSUME NEW d \in Calls, Running(d)' PROVE Grounded(d)'
  <2>1. ASSUME Running(d), call'[d] = call[d], call[d].op = "Create" => store'[Cluster] = store[Cluster]
        PROVE  Grounded(d)'
    BY <1>2, <2>1, GroundedStays
  <2>2. CASE Outside
    <3>1. Running(d) /\ call'[d] = call[d]
      BY <1>3, <2>2 DEF Outside, Running
    <3>2. call[d].v.display \in Displays
      BY <1>1, <3>1, StepOf DEF Variables
    <3> QED BY <1>1, <2>1, <2>2, <3>1, <3>2, BaseOutside, BaseKinds
  <2>3. CASE AllEnd
    BY <1>3, <2>3 DEF AllEnd, Running
  <2>4. ASSUME NEW c \in Calls, Moves(c), c # d PROVE Grounded(d)'
    <3>1. Running(d) /\ call'[d] = call[d]
      BY <1>3, <2>4 DEF Moves, Running
    <3>2. call[d].v.display \in Displays
      BY <1>1, <3>1, StepOf DEF Variables
    <3>3. call[d].op = "Create" => ~PutsObject(c)
      BY <2>4, <3>1 DEF CreatesAlone, PutsObject
    <3> QED BY <1>1, <2>1, <2>4, <3>1, <3>2, <3>3, BaseEffect, BaseKinds
  <2>5. CASE Moves(d)
    BY <1>3, <2>5, GroundedMoves
  <2> QED BY <1>2, <2>2, <2>3, <2>4, <2>5
<1>4. ControlPlaneRefResolves'
  <2>1. CASE created
    BY <1>2, <2>1, ReferenceStays DEF ControlPlaneRefResolves, Exists
  <2>2. ASSUME NEW c \in Calls, Moves(c), StepDone(c), Finishes(c), call[c].op = "Create"
        PROVE  ControlPlaneRefResolves'
    BY <2>2, FinishHasBase DEF ControlPlaneRefResolves, Exists
  <2>3. CASE ~created /\ ~created'
    BY <2>3 DEF ControlPlaneRefResolves
  <2> QED BY <1>2, <2>1, <2>2, <2>3, CreatedStep
<1>5. (created' /\ TRUE \notin KeepOnError) => KeptPlane'
  BY <1>2, KeptPlaneStep
<1> QED BY <1>1, <1>3, <1>4, <1>5 DEF ReferenceInv

\* Whatever step a call that changes the display name is cut off at, and whatever
\* calls overlap, the Cluster refers to a control plane that exists: as long as no
\* other call is at work next to a Create, and failed Updates are dropped or
\* nobody calls SetClusterSize after one.
THEOREM ReferenceResolves ==
  ASSUME TRUE \notin KeepOnError \/ "SetClusterSize" \notin Ops
  PROVE  Spec /\ []CreatesAlone => []ControlPlaneRefResolves
<1>1. Init => ReferenceInv
  <2> SUFFICES ASSUME Init PROVE ReferenceInv
    OBVIOUS
  <2> QED BY InitType DEF Init, ReferenceInv, ControlPlaneRefResolves, Running
<1>2. ReferenceInv /\ CreatesAlone /\ [Next]_vars => ReferenceInv'
  BY ReferenceStep
<1>3. ReferenceInv => ControlPlaneRefResolves
  BY DEF ReferenceInv
<1> QED BY <1>1, <1>2, <1>3, PTL DEF Spec

\* So it does for one call at a time.
COROLLARY ReferenceResolvesInTurn ==
  ASSUME SerialCalls, TRUE \notin KeepOnError \/ "SetClusterSize" \notin Ops
  PROVE  Spec => []ControlPlaneRefResolves
<1>1. CreatesAlone
  BY DEF CreatesAlone, SerialCalls
<1>2. []CreatesAlone
  BY <1>1, PTL
<1> QED BY <1>2, ReferenceResolves, PTL

-----------------------------------------------------------------------------
(* Calls that overlap and ask for the same: a caller that gave up on a     *)
(* call and sends it again while the first is still at work, any number of *)
(* times.  No deletion is ever begun, so nothing is lost, and whichever    *)
(* call puts an object puts what all of them want.                         *)

\* The object of key k, if there is one, is what v asks for.
InstalledAs(k, v) ==
  Exists(k) => k \in WantedKeys(v) /\ store[k].content = Render(k, v) /\ k \notin leaving

WholeAs(v) == info = v /\ \A k \in WantedKeys(v) : Exists(k)

\* The call is about v, has nothing to delete, and what it has put is there.
AgreeingCall(c, v) ==
  /\ call[c].v = v /\ call[c].doomed = {} /\ call[c].infra = None
  /\ call[c].op \in Whole /\ (call[c].op = "SetVersion" => info = v)
  /\ \A k \in Behind(call[c].op, v, call[c].at) : Exists(k)

RetryInv(v) ==
  /\ TypeInv /\ cloudCred = 0 /\ info \in {None, v}
  /\ \A k \in Keys : InstalledAs(k, v)
  /\ \A c \in Calls : Running(c) => AgreeingCall(c, v)
  /\ outcome \in Whole => WholeAs(v)

\* What the call does to the objects, and that it leaves its step behind.
Stores(c) == store' = store \/ PutsObject(c)

Completes(c) == Stores(c) /\ (Step(c).do = "put" => store'[Step(c).key] # None)

Joins(c, v) ==
  /\ store' = store /\ UNCHANGED caller
  /\ \E op \in Whole : /\ op = "SetVersion" => info = v
                       /\ call'[c] = [op |-> op, v |-> v, at |-> 1, seen |-> "nothing",
                                      doomed |-> {}, infra |-> None]

GivesUp(c, v) ==
  /\ Running(c) /\ call'[c] = None /\ outcome' = "failed" /\ info' \in {info, v}
  /\ Stores(c)

Ends(c, v) ==
  /\ Running(c) /\ call'[c] = None /\ call[c].at = Len(Plan(call[c].op, v)) /\ Completes(c)
  /\ outcome' = call[c].op
  /\ info' = IF call[c].op \in {"Create", "Update"} THEN v ELSE info

AgreeingStep(c, v) ==
  /\ \A d \in Calls \ {c} : call'[d] = call[d]
  /\ \/ Joins(c, v) \/ GivesUp(c, v) \/ Ends(c, v)
     \/ Goes(c, 0) /\ Keeps(c) /\ store' = store
     \/ Goes(c, 1) /\ Keeps(c) /\ Completes(c)

StandsBy ==
  call' = call /\ info' = info /\ store' = store /\ outcome' \in {outcome, "failed"}

LEMMA NothingLeaves ==
  ASSUME NEW v, RetryInv(v), NEW k \in Keys
  PROVE  k \notin leaving
BY DEF RetryInv, InstalledAs, leaving

LEMMA NothingDoomed ==
  ASSUME NEW v \in Variables, RetryInv(v)
  PROVE  ListedPools \ WantedPools(v) = {}
<1> SUFFICES ASSUME NEW p \in ListedPools PROVE p \in WantedPools(v)
  OBVIOUS
<1>1. p \in Pools /\ Exists(MachinePool(p)) /\ MachinePool(p) \in Keys /\ MachinePool(p) \in WorkerKeys
  BY WorkerKeysAreKeys DEF ListedPools
<1>2. MachinePool(p) \in WantedKeys(v) \cap WorkerKeys
  BY <1>1 DEF RetryInv, InstalledAs
<1> QED BY <1>2, WantedWorker, PoolKeys

LEMMA AgreeingWork ==
  ASSUME NEW v \in Variables, RetryInv(v), NEW c \in Calls, Work(c) \/ RequestFails(c)
  PROVE  AgreeingStep(c, v)
<1>1. TypeInv /\ CallOK /\ CallerOK /\ StoreOK
  BY TypeInvParts DEF RetryInv
<1>2. Running(c) /\ AgreeingCall(c, v)
  BY DEF Work, RequestFails, Get, Merge, Conflict, CreateObject, AlreadyExists, CheckCluster,
         CheckPools, NotReady, ListPools, DeletePool, DeleteInfra, Pruned, AtStep, RetryInv
<1>3. call[c] \in Frames /\ call[c].v = v
  BY <1>1, <1>2, RunningStep DEF AgreeingCall
<1>4. ASSUME Return(c, FALSE), Stores(c)
      PROVE  AgreeingStep(c, v)
  <2>1. /\ call'[c] = None /\ outcome' = "failed"
        /\ \A d \in Calls \ {c} : call'[d] = call[d]
    BY <1>1, <1>2, <1>4, FailCase, ReturnType
  <2>2. info' \in {info, v}
    BY <1>3, <1>4 DEF Return
  <2> QED BY <1>2, <1>4, <2>1, <2>2 DEF AgreeingStep, GivesUp
<1>5. ASSUME Advance(c), Completes(c)
      PROVE  AgreeingStep(c, v)
  <2>1. \A d \in Calls \ {c} : call'[d] = call[d]
    BY <1>1, <1>2, <1>5, AdvanceType
  <2>2. CASE Goes(c, 1) /\ Keeps(c)
    BY <1>5, <2>1, <2>2 DEF AgreeingStep
  <2>3. CASE ~(Goes(c, 1) /\ Keeps(c))
    <3>1. /\ call[c].at = Len(Plan(call[c].op, v))
          /\ call'[c] = None /\ outcome' = call[c].op
          /\ call[c].op \in {"Create", "Update"} => info' = v
          /\ call[c].op \notin {"Create", "Update"} => info' = info
      BY <1>1, <1>2, <1>3, <1>5, <2>3, AdvanceCase DEF Finishes
    <3> QED BY <1>2, <1>5, <2>1, <3>1 DEF AgreeingStep, Ends
  <2> QED BY <2>2, <2>3
<1>6. CASE Conflict(c) \/ NotReady(c) \/ RequestFails(c)
  BY <1>4, <1>6 DEF Conflict, NotReady, RequestFails, Stores
<1>7. CASE AlreadyExists(c)
  <2>1. store' = store /\ Exists(Step(c).key) /\ (Return(c, FALSE) \/ Advance(c))
    BY <1>7 DEF AlreadyExists
  <2> QED BY <1>4, <1>5, <2>1 DEF Completes, Stores, Exists
<1>8. CASE Merge(c) \/ CreateObject(c)
  <2>1. PutsObject(c) /\ AfterWrite(c)
    BY <1>1, <1>8, PutCase
  <2>2. Completes(c)
    BY <2>1 DEF Completes, Stores, PutsObject, Written
  <2> QED BY <1>4, <1>5, <2>1, <2>2 DEF AfterWrite, Completes
<1>9. ASSUME NEW x \in {"found", "missing"}, store' = store, UNCHANGED caller,
             call' = [call EXCEPT ![c] = [call[c] EXCEPT !.seen = x]]
      PROVE  AgreeingStep(c, v)
  <2> DEFINE f == [call[c] EXCEPT !.seen = x]
  <2>1. SameCall(call[c], f) /\ f.at = call[c].at
    <3>1. x \in {"nothing", "found", "missing"}
      OBVIOUS
    <3> QED BY <1>3, <3>1, FrameUpdates
  <2>2. f.doomed = call[c].doomed /\ f.infra = call[c].infra
    BY <1>3, FrameFields
  <2>3. call' = [call EXCEPT ![c] = f]
    BY <1>9
  <2> HIDE DEF f
  <2>4. Goes(c, 0) /\ call'[c] = f
    BY <1>1, <1>2, <1>9, <2>1, <2>3, InPlace
  <2>5. \A d \in Calls \ {c} : call'[d] = call[d]
    BY <1>1, <2>3 DEF CallOK
  <2> QED BY <1>9, <2>2, <2>4, <2>5 DEF AgreeingStep, Keeps
<1>10. CASE Get(c)
  <2>1. /\ store' = store /\ UNCHANGED caller
        /\ \E x \in {"found", "missing"} : call' = [call EXCEPT ![c] = [call[c] EXCEPT !.seen = x]]
    BY <1>10 DEF Get
  <2> QED BY <1>9, <2>1
<1>11. CASE CheckCluster(c) \/ CheckPools(c) \/ Pruned(c)
  <2>1. store' = store /\ Step(c).do # "put"
    BY <1>11 DEF CheckCluster, CheckPools, Pruned, AtStep
  <2>2. \/ Advance(c)
        \/ call' = [call EXCEPT ![c] = [call[c] EXCEPT !.seen = "found"]] /\ UNCHANGED caller
    BY <1>11 DEF CheckCluster, CheckPools, Pruned
  <2> QED BY <1>5, <1>9, <2>1, <2>2 DEF Completes, Stores
<1>12. CASE ListPools(c)
  <2> DEFINE D == ListedPools \ WantedPools(call[c].v)
             f == [call[c] EXCEPT !.seen = "found", !.doomed = D]
  <2>1. store' = store /\ UNCHANGED caller /\ call' = [call EXCEPT ![c] = f]
    BY <1>12 DEF ListPools
  <2>2. D = {}
    BY <1>3, NothingDoomed
  <2> HIDE DEF D
  <2>3. D \in SUBSET Pools
    BY <2>2
  <2>4. f.doomed = D /\ f.infra = call[c].infra
    BY <1>3, FrameFields
  <2>5. SameCall(call[c], f) /\ f.at = call[c].at
    BY <1>3, <2>3, FrameUpdates
  <2> HIDE DEF f
  <2>6. Goes(c, 0) /\ call'[c] = f
    BY <1>1, <1>2, <2>1, <2>5, InPlace
  <2>7. \A d \in Calls \ {c} : call'[d] = call[d]
    BY <1>1, <2>1 DEF CallOK
  <2>8. Keeps(c)
    BY <1>2, <2>2, <2>4, <2>6 DEF Keeps, AgreeingCall
  <2> QED BY <2>1, <2>6, <2>7, <2>8 DEF AgreeingStep
<1>13. CASE (\E p \in Pools : DeletePool(c, p)) \/ DeleteInfra(c)
  BY <1>2, <1>13 DEF DeletePool, DeleteInfra, AgreeingCall
<1> QED BY <1>6, <1>7, <1>8, <1>10, <1>11, <1>12, <1>13 DEF Work

\* An Update with the options that made the state leaves it as it is.
LEMMA SameOptions ==
  ASSUME NEW o, NEW n, NewFromOptions(o, n) \in Variables
  PROVE  SetUpdateValues(NewFromOptions(o, n), o, n) = NewFromOptions(o, n)
<1> DEFINE v == NewFromOptions(o, n)
<1>1. v.version = o.version /\ v.display = o.display /\ v.raw = o.pools /\ v.pools = o.pools /\ v.cred = n
  BY DEF NewFromOptions, ParseNodePools
<1> HIDE DEF v
<1>2. [v EXCEPT !.version = o.version, !.display = o.display, !.raw = o.pools,
                !.pools = o.pools, !.cred = n] = v
  <2>1. v \in Variables
    BY DEF v
  <2> QED BY <1>1, <2>1 DEF Variables
<1>3. SetUpdateValues(v, o, n) = v
  BY <1>2 DEF SetUpdateValues, ParseNodePools
<1> QED BY <1>3 DEF v

\* The one state every call carries.
LEMMA JoinCase ==
  ASSUME NEW o \in Options, Options = {o}, "SetClusterSize" \notin Ops,
         NewFromOptions(o, 0) \in Variables, RetryInv(NewFromOptions(o, 0)),
         NEW c \in Calls, Start(c)
  PROVE  AgreeingStep(c, NewFromOptions(o, 0))
<1> DEFINE v == NewFromOptions(o, 0)
<1>1. TypeInv /\ CallOK /\ CallerOK /\ cloudCred = 0 /\ info \in {None, v}
  BY TypeInvParts DEF RetryInv
<1>2. ASSUME NEW op \in Whole, Begin(c, op, v), op = "SetVersion" => info = v
      PROVE  AgreeingStep(c, v)
  <2> DEFINE f == [op |-> op, v |-> v, at |-> 1, seen |-> "nothing",
                   doomed |-> {}, infra |-> None]
  <2>1. call' = [call EXCEPT ![c] = f] /\ store' = store /\ UNCHANGED caller
    BY <1>2 DEF Begin
  <2>2. call'[c] = f /\ \A d \in Calls \ {c} : call'[d] = call[d]
    BY <1>1, <2>1 DEF CallOK
  <2> QED BY <1>2, <2>1, <2>2 DEF AgreeingStep, Joins
<1>3. ASSUME StartCreate(c, o) PROVE AgreeingStep(c, v)
  <2>1. Begin(c, "Create", v) /\ "Create" \in Whole
    BY <1>1, <1>3 DEF StartCreate, Whole
  <2> QED BY <1>2, <2>1
<1>4. ASSUME StartUpdate(c, o) PROVE AgreeingStep(c, v)
  <2>1. info = v /\ Begin(c, "Update", SetUpdateValues(info, o, 0)) /\ "Update" \in Whole
    BY <1>1, <1>4 DEF StartUpdate, Whole
  <2>2. SetUpdateValues(v, o, 0) = v
    BY SameOptions
  <2> HIDE DEF v
  <2> QED BY <1>2, <2>1, <2>2
<1>5. ASSUME StartSetVersion(c) PROVE AgreeingStep(c, v)
  <2>1. info = v /\ Begin(c, "SetVersion", v) /\ "SetVersion" \in Whole
    BY <1>1, <1>5 DEF StartSetVersion, Whole
  <2> QED BY <1>2, <2>1
<1>6. ASSUME NEW n \in Sizes PROVE ~StartSetClusterSize(c, n)
  BY DEF StartSetClusterSize, Begin
<1> QED BY <1>3, <1>4, <1>5, <1>6 DEF Start

LEMMA RetryCase ==
  ASSUME NEW o \in Options, Options = {o}, "SetClusterSize" \notin Ops, MaxRotations = 0,
         NewFromOptions(o, 0) \in Variables, RetryInv(NewFromOptions(o, 0)), [Next]_vars
  PROVE  \/ StandsBy \/ AllEnd
         \/ \E c \in Calls : AgreeingStep(c, NewFromOptions(o, 0))
<1>1. ASSUME NEW c \in Calls, Driver(c)
      PROVE  StandsBy \/ AgreeingStep(c, NewFromOptions(o, 0))
  <2>1. CASE Refuse(c)
    BY <2>1 DEF Refuse, driver, StandsBy
  <2> QED BY <1>1, <2>1, JoinCase, AgreeingWork DEF Driver
<1>2. CASE Crash
  BY <1>2 DEF Crash, AllEnd
<1>3. CASE InfrastructureUp \/ ControlPlaneUp \/ ClusterDisturbed
  BY <1>3 DEF InfrastructureUp, ControlPlaneUp, ClusterDisturbed, caller, StandsBy
<1>4. ASSUME NEW p \in Pools, PoolUp(p) \/ PoolDown(p) \/ PoolDeleting(p)
      PROVE  StandsBy
  BY <1>4 DEF PoolUp, PoolDown, PoolDeleting, SetPhase, caller, StandsBy
<1>5. ASSUME NEW p \in Pools PROVE ~Finalize(p)
  <2>1. MachinePool(p) \in Keys /\ OCIMachinePool(p) \in Keys
    BY WorkerKeysAreKeys
  <2>2. \A k \in Keys : Exists(k) => ~store[k].dying
    BY NothingLeaves DEF leaving
  <2> QED BY <2>1, <2>2 DEF Finalize
<1>6. ~RotateCredential
  BY DEF RetryInv, RotateCredential
<1>7. CASE UNCHANGED vars
  BY <1>7 DEF vars, caller, driver, StandsBy
<1> QED BY <1>1, <1>2, <1>3, <1>4, <1>5, <1>6, <1>7 DEF Next, Controllers, Trouble

\* What the calls put adds up, and nothing of it is taken away.
LEMMA Adds ==
  ASSUME NEW v \in Variables, RetryInv(v), NEW c \in Calls, Running(c), Stores(c), StoreOK'
  PROVE  \A k \in Keys : (Exists(k) => store'[k] # None) /\ InstalledAs(k, v)'
<1>1. call[c].v = v /\ CallOK
  BY TypeInvParts DEF RetryInv, AgreeingCall
<1>2. CASE store' = store
  <2>1. leaving' = leaving
    BY <1>2, Quiet
  <2> QED BY <1>2, <2>1 DEF RetryInv, InstalledAs, Exists
<1>3. CASE PutsObject(c)
  <2> DEFINE j == Step(c).key
  <2>1. /\ j \in WantedKeys(v) /\ leaving' = leaving
        /\ \A k \in Keys \ {j} : store'[k] = store[k]
        /\ store'[j] # None /\ store'[j].content = Render(j, v)
    BY <1>1, <1>3, RunningStep DEF PutsObject, Written
  <2> HIDE DEF j
  <2> QED BY <2>1, NothingLeaves DEF RetryInv, InstalledAs, Exists
<1> QED BY <1>2, <1>3 DEF Stores

LEMMA Stands ==
  ASSUME NEW v, RetryInv(v), TypeInv', store' = store, info' = info, cloudCred' = cloudCred,
         outcome' \in {outcome, "failed"}, \A c \in Calls : call'[c] \in {call[c], None}
  PROVE  RetryInv(v)'
<1>1. leaving' = leaving
  BY Quiet
<1>2. \A k \in Keys : InstalledAs(k, v)'
  BY <1>1 DEF RetryInv, InstalledAs, Exists
<1>3. \A c \in Calls : Running(c)' => AgreeingCall(c, v)'
  BY DEF RetryInv, AgreeingCall, Running, Exists, Behind
<1>4. outcome' \in Whole => WholeAs(v)'
  BY DEF RetryInv, WholeAs, Whole, Exists
<1> QED BY <1>2, <1>3, <1>4 DEF RetryInv

\* What is behind a call is there, and at the end of its plan that is everything.
LEMMA BehindAll ==
  ASSUME NEW v \in Variables, RetryInv(v), NEW c \in Calls, Running(c), Completes(c), StoreOK',
         call[c].at = Len(Plan(call[c].op, v))
  PROVE  \A k \in WantedKeys(v) : store'[k] # None
<1> DEFINE g == [op |-> call[c].op, v |-> v]
<1>1. CallOK /\ AgreeingCall(c, v)
  BY TypeInvParts DEF RetryInv
<1>2. /\ call[c].at \in 1 .. Len(Plan(call[c].op, v))
      /\ Step(c) = Plan(call[c].op, v)[call[c].at]
  BY <1>1, StepOf DEF AgreeingCall
<1>3. \A k \in Behind(call[c].op, v, call[c].at) : k \in Keys /\ store'[k] # None
  <2>1. \A k \in Keys : Exists(k) => store'[k] # None
    BY Adds DEF Completes
  <2>2. \A k \in Behind(call[c].op, v, call[c].at) : k \in Keys /\ Exists(k)
    BY <1>1, BehindFacts DEF AgreeingCall
  <2> QED BY <2>1, <2>2
<1>4. WantedKeys(v) \subseteq Behind(call[c].op, v, call[c].at)
                               \cup (IF Step(c).do = "put" THEN {Step(c).key} ELSE {})
  <2>1. CASE Prunes(g)
    <3>1. Step(c).do \in {"put", "gate", "prune"}
      BY <1>1, RunningStep, StepKinds DEF PlannedSteps
    <3>2. Step(c).do = "prune"
      BY <1>2, <2>1, <3>1, UpdateOrder
    <3> QED BY <1>2, <2>1, <3>2, UpdateOrder
  <2>2. CASE ~Prunes(g)
    BY <1>2, <2>2, CreateOrder
  <2> QED BY <2>1, <2>2
<1> QED BY <1>3, <1>4 DEF Completes

LEMMA AgreeingKeeps ==
  ASSUME NEW v \in Variables, RetryInv(v), TypeInv', NEW c \in Calls, AgreeingStep(c, v),
         cloudCred' = cloudCred
  PROVE  RetryInv(v)'
<1>1. CallOK /\ StoreOK' /\ CallerOK
  BY TypeInvParts DEF RetryInv
<1>2. /\ ~Running(c) => store' = store
      /\ Running(c) => Stores(c)
  BY NoneFacts DEF AgreeingStep, Joins, GivesUp, Ends, Completes, Stores, Goes
<1>3. \A k \in Keys : (Exists(k) => store'[k] # None) /\ InstalledAs(k, v)'
  <2>1. CASE Running(c)
    BY <1>1, <1>2, <2>1, Adds
  <2>2. CASE ~Running(c)
    BY <1>2, <2>2, Quiet DEF RetryInv, InstalledAs, Exists
  <2> QED BY <2>1, <2>2
<1>4. info' \in {info, v}
  BY DEF AgreeingStep, Joins, GivesUp, Ends, Goes, caller
<1>5. ASSUME NEW d \in Calls, Running(d), AgreeingCall(d, v),
             NEW k \in Behind(call[d].op, v, call[d].at)
      PROVE  k \in Keys /\ store'[k] # None
  <2>1. k \in Keys /\ Exists(k)
    BY <1>1, <1>5, BehindFacts DEF AgreeingCall
  <2> QED BY <1>3, <2>1
<1>6. ASSUME NEW d \in Calls, d # c, Running(d)'
      PROVE  AgreeingCall(d, v)'
  <2>1. call'[d] = call[d]
    BY <1>6 DEF AgreeingStep
  <2>2. Running(d) /\ AgreeingCall(d, v)
    BY <1>6, <2>1 DEF Running, RetryInv
  <2>3. \A k \in Behind(call'[d].op, v, call'[d].at) : store'[k] # None
    BY <1>5, <2>1, <2>2
  <2> QED BY <1>4, <2>1, <2>2, <2>3 DEF AgreeingCall, Exists
<1>7. ASSUME Running(c)'
      PROVE  AgreeingCall(c, v)'
  <2>1. CASE Joins(c, v)
    <3>1. PICK op \in Whole : /\ op = "SetVersion" => info = v
                              /\ call'[c] = [op |-> op, v |-> v, at |-> 1, seen |-> "nothing",
                                             doomed |-> {}, infra |-> None]
      BY <2>1 DEF Joins
    <3>2. Behind(call'[c].op, v, call'[c].at) = {}
      BY <3>1 DEF Behind
    <3> QED BY <1>4, <3>1, <3>2 DEF AgreeingCall
  <2>2. CASE Goes(c, 0) /\ Keeps(c) /\ store' = store
    <3>1. Running(c) /\ AgreeingCall(c, v) /\ call[c] \in Frames
      BY <1>1, <2>2, RunningStep DEF Goes, RetryInv
    <3>2. call'[c].op = call[c].op /\ call'[c].v = v /\ call'[c].at = call[c].at
      BY <2>2, <3>1 DEF Goes, SameCall, AgreeingCall, Frames
    <3>3. \A k \in Behind(call'[c].op, v, call'[c].at) : store'[k] # None
      BY <1>5, <3>1, <3>2
    <3> QED BY <1>4, <2>2, <3>1, <3>2, <3>3 DEF AgreeingCall, Keeps, Exists
  <2>3. CASE Goes(c, 1) /\ Keeps(c) /\ Completes(c)
    <3>1. Running(c) /\ AgreeingCall(c, v) /\ call[c] \in Frames
      BY <1>1, <2>3, RunningStep DEF Goes, RetryInv
    <3>2. /\ call'[c].op = call[c].op /\ call'[c].v = v /\ call'[c].at = call[c].at + 1
          /\ call[c].at \in Nat \ {0} /\ Step(c) = Plan(call[c].op, v)[call[c].at]
      BY <1>1, <2>3, <3>1, StepOf DEF Goes, SameCall, AgreeingCall, Frames
    <3>3. \A k \in Behind(call'[c].op, v, call'[c].at) :
            k \in Behind(call[c].op, v, call[c].at) \/ (Step(c).do = "put" /\ k = Step(c).key)
      BY <3>2, BehindNext
    <3>4. \A k \in Behind(call'[c].op, v, call'[c].at) : store'[k] # None
      BY <1>5, <2>3, <3>1, <3>3 DEF Completes
    <3> QED BY <1>4, <2>3, <3>1, <3>2, <3>4 DEF AgreeingCall, Keeps, Exists
  <2> QED BY <1>7, <2>1, <2>2, <2>3 DEF AgreeingStep, GivesUp, Ends, Running
<1>8. ASSUME outcome' \in Whole
      PROVE  WholeAs(v)'
  <2>1. CASE Ends(c, v)
    <3>1. \A k \in WantedKeys(v) : store'[k] # None
      BY <1>1, <2>1, BehindAll DEF Ends
    <3>2. call[c].op \in Whole /\ (call[c].op = "SetVersion" => info = v)
      BY <2>1 DEF Ends, RetryInv, AgreeingCall
    <3>3. info' = v
      BY <2>1, <3>2 DEF Ends, Whole
    <3> QED BY <3>1, <3>3 DEF WholeAs, Exists
  <2>2. CASE outcome' = outcome
    <3>1. info = v /\ \A k \in WantedKeys(v) : Exists(k)
      BY <1>8, <2>2 DEF RetryInv, WholeAs
    <3>2. \A k \in WantedKeys(v) : k \in Keys
      BY RenderType
    <3> QED BY <1>3, <1>4, <3>1, <3>2 DEF WholeAs, Exists
  <2> QED BY <1>8, <2>1, <2>2 DEF AgreeingStep, Joins, GivesUp, Goes, caller, Whole
<1>9. \A d \in Calls : Running(d)' => AgreeingCall(d, v)'
  BY <1>6, <1>7
<1>10. info' \in {None, v} /\ cloudCred' = 0
  BY <1>4 DEF RetryInv
<1> QED BY <1>3, <1>8, <1>9, <1>10 DEF RetryInv

LEMMA RetryStep ==
  ASSUME NEW o \in Options, Options = {o}, "SetClusterSize" \notin Ops, MaxRotations = 0,
         NewFromOptions(o, 0) \in Variables, RetryInv(NewFromOptions(o, 0)), [Next]_vars
  PROVE  RetryInv(NewFromOptions(o, 0))'
<1> DEFINE v == NewFromOptions(o, 0)
<1>1. TypeInv' /\ cloudCred' = cloudCred
  <2>1. TypeInv /\ cloudCred = 0
    BY DEF RetryInv
  <2>2. ~RotateCredential
    BY <2>1 DEF RotateCredential
  <2>3. cloudCred' = cloudCred
    BY <2>2 DEF Next, Driver, Start, StartCreate, StartUpdate, StartSetClusterSize, StartSetVersion,
       Begin, Refuse, RequestFails, Work, Get, Merge, Conflict, CreateObject, AlreadyExists,
       CheckCluster, CheckPools, NotReady, ListPools, DeletePool, DeleteInfra, Pruned, Controllers,
       InfrastructureUp, ControlPlaneUp, Trouble, ClusterDisturbed, Crash, PoolUp, PoolDown,
       PoolDeleting, SetPhase, Finalize, vars
  <2> QED BY <2>1, <2>3, StepType
<1>2. \/ StandsBy \/ AllEnd \/ \E c \in Calls : AgreeingStep(c, v)
  BY RetryCase
<1> HIDE DEF v
<1>3. CASE StandsBy
  BY <1>1, <1>3, Stands DEF StandsBy, v
<1>4. CASE AllEnd
  BY <1>1, <1>4, Stands DEF AllEnd, v
<1>5. ASSUME NEW c \in Calls, AgreeingStep(c, v) PROVE RetryInv(v)'
  BY <1>1, <1>5, AgreeingKeeps DEF v
<1> QED BY <1>2, <1>3, <1>4, <1>5 DEF v

\* What the calls put is there, and the workers come after the control plane.
LEMMA RetryPuts ==
  ASSUME NEW v \in Variables, RetryInv(v), NEW c \in Calls, Running(c),
         NEW k \in Behind(call[c].op, call[c].v, call[c].at)
  PROVE  Exists(k) /\ store[k].content = Render(k, call[c].v)
<1>1. CallOK /\ AgreeingCall(c, v)
  BY TypeInvParts DEF RetryInv
<1>2. k \in Keys /\ Exists(k) /\ call[c].v = v
  BY <1>1, BehindFacts DEF AgreeingCall
<1> QED BY <1>2 DEF RetryInv, InstalledAs

LEMMA RetrySettles ==
  ASSUME NEW v \in Variables, RetryInv(v), outcome \in Whole
  PROVE  /\ \A k \in WantedKeys(info) :
              Exists(k) /\ store[k].content = Render(k, info) /\ ~store[k].dying
         /\ ListedPools \ WantedPools(info) = {}
<1>1. info = v /\ \A k \in WantedKeys(v) : Exists(k)
  BY DEF RetryInv, WholeAs
<1>2. \A k \in WantedKeys(v) : k \in Keys
  BY RenderType
<1>3. \A k \in WantedKeys(v) : store[k].content = Render(k, v) /\ ~store[k].dying
  BY <1>1, <1>2, NothingLeaves DEF RetryInv, InstalledAs, leaving
<1> QED BY <1>1, <1>3, NothingDoomed

\* Overlapping calls that ask for the same, a caller's first call and the ones it
\* sends again while that is still at work, however many of them fail or are cut
\* off and whatever phases are reported for pools: what each has put stays as it
\* put it, the workers follow the control plane, and once none is at work, a
\* success that was reported last is in force and nothing of it is leaving.
THEOREM RetriesAreWhole ==
  ASSUME NEW o, Options = {o}, "SetClusterSize" \notin Ops, MaxRotations = 0
  PROVE  Spec => /\ []StepsStayApplied /\ WorkersFollowControlPlane
                 /\ []SuccessMeansApplied /\ []SuccessMeansKept
<1> DEFINE v == NewFromOptions(o, 0)
           Follow == \A p \in Pools :
             (store'[MachinePool(p)] # None /\ ~Exists(MachinePool(p)))
               \/ (Exists(MachinePool(p)) /\ store'[MachinePool(p)] # None
                    /\ store'[MachinePool(p)].content # store[MachinePool(p)].content) =>
             \E c \in Calls :
               /\ Running(c) /\ Exists(ControlPlane(call[c].v.display))
               /\ store[ControlPlane(call[c].v.display)].content.version = call[c].v.version
<1>1. o \in Options /\ v \in Variables
  <2>1. o \in DriverOptions
    BY OptionsAssumption
  <2> QED BY <2>1 DEF DriverOptions, NewFromOptions, ParseNodePools, Variables
<1>2. Init => RetryInv(v)
  <2> SUFFICES ASSUME Init PROVE RetryInv(v)
    OBVIOUS
  <2>1. TypeInv
    BY InitType
  <2> QED BY <2>1 DEF Init, RetryInv, InstalledAs, Exists, Running, Whole
<1>3. RetryInv(v) /\ [Next]_vars => RetryInv(v)'
  BY <1>1, RetryStep
<1> HIDE DEF v
<1>4. RetryInv(v) => StepsStayApplied
  BY <1>1, RetryPuts DEF StepsStayApplied, Behind
<1>5. RetryInv(v) /\ [Next]_vars => Follow
  <2> SUFFICES ASSUME RetryInv(v), [Next]_vars, NEW p \in Pools, PoolWritten(p)
               PROVE  \E c \in Calls :
                        /\ Running(c) /\ Exists(ControlPlane(call[c].v.display))
                        /\ store[ControlPlane(call[c].v.display)].content.version = call[c].v.version
    BY DEF PoolWritten
  <2>1. PICK c \in Calls :
          /\ Running(c)
          /\ ControlPlane(call[c].v.display) \in Behind(call[c].op, call[c].v, call[c].at)
          /\ Render(ControlPlane(call[c].v.display), call[c].v) = [version |-> call[c].v.version]
    BY PlaneBehindWorker DEF RetryInv
  <2> QED BY <1>1, <2>1, RetryPuts
<1>6. RetryInv(v) => SuccessMeansApplied /\ SuccessMeansKept
  BY <1>1, RetrySettles DEF SuccessMeansApplied, SuccessMeansKept, Whole
<1> QED BY <1>2, <1>3, <1>4, <1>5, <1>6, PTL DEF Spec, WorkersFollowControlPlane
=============================================================================
