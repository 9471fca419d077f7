------------------------------ MODULE Rollout ------------------------------
(***************************************************************************)
(* The driver's Create, Update, SetClusterSize and SetVersion calls, one   *)
(* action per request they send to the admin cluster's API server, next to *)
(* the CAPI controllers that act on the same objects, the user who rotates *)
(* the cloud credential, and the caller that keeps the returned state.     *)
(*                                                                         *)
(* The plugin has no lock (main.go serves every RPC on its own goroutine), *)
(* so Calls may hold several calls in progress.  Any request may fail, may *)
(* be applied with its answer lost, and the process may be killed.         *)
(***************************************************************************)
EXTENDS ClusterObjects

CONSTANTS
  Calls,          \* slots for calls in progress at the same time
  Ops,            \* the driver operations the caller uses
  Options,        \* the driver options users pass
  GatedVersions,  \* versions for which isClusterReady asks for controlPlaneReady
  KeepOnError,    \* may the caller keep the info of an Update that failed?
  DeletionLag,    \* is a pool's phase reported late after its deletion?
  MaxRotations    \* bound: how often the cloud credential is rotated

ASSUME OpsAssumption == Ops \subseteq {"Create", "Update", "SetClusterSize", "SetVersion"}
ASSUME OptionsAssumption ==
  /\ Options \subseteq DriverOptions
  /\ \A o \in Options : \A i, j \in DOMAIN o.pools :
       o.pools[i].name = o.pools[j].name => i = j
ASSUME GatedAssumption == GatedVersions \subseteq Versions
ASSUME FlagAssumption == KeepOnError \subseteq BOOLEAN /\ DeletionLag \in BOOLEAN
ASSUME RotationAssumption == MaxRotations \in Nat

VARIABLES
  info,       \* the Variables the caller keeps in ClusterInfo.Metadata, or None
  outcome,    \* how the caller's last finished call ended: "none", "failed" or its op
  created,    \* has a Create succeeded?
  cloudCred,  \* the user's current OCI credential (rotations are numbered)
  call,       \* what each slot is executing, or None
  fresh,      \* calls whose last read object has not changed since
  store,      \* the objects in the API server
  infraReady, \* Cluster status: infrastructureReady and phase Provisioned
  cpReady,    \* Cluster status: controlPlaneReady
  runs,       \* the version the control plane really runs, or None
  phase       \* status.phase of each MachinePool

driver == <<call, fresh>>
caller == <<info, outcome, created>>
status == <<infraReady, cpReady, runs, phase>>
vars == <<caller, cloudCred, driver, store, status>>

Phases == {"Pending", "Running", "Failed", "Deleting"}

\* A call in progress: its state v, the index at of its current step, what it
\* has seen in that step, and in a prune the pools still to delete (doomed) and
\* the pool whose OCIManagedMachinePool is to be deleted next (infra).
Frames == [op : Ops, v : Variables, at : Nat,
           seen : {"nothing", "found", "missing"},
           doomed : SUBSET Pools, infra : Pools \cup {None}]

Object == [content : Contents, dying : BOOLEAN]

\* What a call is after, as module StagedUpdate sees it.
Goals == [op : Ops, v : Variables]

ASSUME NoneIsNoValue ==
  None \notin Frames \cup Object \cup Variables \cup Pools \cup Contents \cup Goals

Plan(op, v) == IF op \in {"Update", "SetVersion"}
               THEN UpdateCluster(v) ELSE CreateOrUpdateAllObjects(v)

Running(c) == call[c] # None
Step(c)    == Plan(call[c].op, call[c].v)[call[c].at]
Exists(k)  == store[k] # None

Init ==
  /\ info = None /\ outcome = "none" /\ created = FALSE
  /\ cloudCred = 0
  /\ call = [c \in Calls |-> None] /\ fresh = {}
  /\ store = [k \in Keys |-> None]
  /\ infraReady = FALSE /\ cpReady = FALSE /\ runs = None
  /\ phase = [p \in Pools |-> "Pending"]

-----------------------------------------------------------------------------
(* Starting and ending a call.                                             *)

Begin(c, op, v) ==
  /\ op \in Ops /\ ~Running(c)
  /\ call' = [call EXCEPT ![c] = [op |-> op, v |-> v, at |-> 1, seen |-> "nothing",
                                  doomed |-> {}, infra |-> None]]
  /\ UNCHANGED <<caller, cloudCred, fresh, store, status>>

\* Create: the state comes from the options and the current credential.
StartCreate(c, o) == ~created /\ Begin(c, "Create", NewFromOptions(o, cloudCred))

\* Update: the stored state with the new options; the credential is read again.
StartUpdate(c, o) ==
  created /\ info # None /\ Begin(c, "Update", SetUpdateValues(info, o, cloudCred))

\* SetClusterSize: the stored state, credential included, with one new size.
StartSetClusterSize(c, n) ==
  created /\ info # None /\ Begin(c, "SetClusterSize", WithFirstPoolSize(info, n))

\* SetVersion: the stored state as it is; the requested version is not used.
StartSetVersion(c) == created /\ info # None /\ Begin(c, "SetVersion", info)

\* A call refused before its first write: options or stored state that do not
\* parse, a cloud credential, image or subnet lookup that fails.
Refuse(c) ==
  /\ ~Running(c) /\ outcome # "failed"
  /\ outcome' = "failed"
  /\ UNCHANGED <<info, created, cloudCred, driver, store, status>>

\* The caller's side of a return.  Create hands its state back even with an
\* error, Update's info may be kept or dropped on an error, and SetClusterSize
\* and SetVersion return nothing but the error.
Return(c, ok) ==
  /\ call' = [call EXCEPT ![c] = None]
  /\ outcome' = IF ok THEN call[c].op ELSE "failed"
  /\ created' = (created \/ (ok /\ call[c].op = "Create"))
  /\ \/ /\ call[c].op = "Create" \/ (call[c].op = "Update" /\ (ok \/ TRUE \in KeepOnError))
        /\ info' = call[c].v
     \/ /\ call[c].op # "Create" /\ (call[c].op = "Update" => ~ok /\ FALSE \in KeepOnError)
        /\ info' = info

\* Variant: the loop over the steps runs once too often.
AdvancePastEnd(c) ==
  IF call[c].at > Len(Plan(call[c].op, call[c].v))
  THEN Return(c, TRUE)
  ELSE /\ call' = [call EXCEPT ![c].at = @ + 1, ![c].seen = "nothing"]
       /\ UNCHANGED caller

\* Move to the next step; the call returns success after its last one.
Advance(c) ==
  IF call[c].at = Len(Plan(call[c].op, call[c].v))
  THEN Return(c, TRUE)
  ELSE /\ call' = [call EXCEPT ![c].at = @ + 1, ![c].seen = "nothing"]
       /\ UNCHANGED caller

\* A request that fails ends the whole call with its error.
RequestFails(c) ==
  /\ Running(c) /\ Return(c, FALSE)
  /\ fresh' = fresh \ {c}
  /\ UNCHANGED <<cloudCred, store, status>>

\* The plugin process is killed by its parent: every call ends, none returns.
Crash ==
  /\ \E c \in Calls : Running(c)
  /\ call' = [c \in Calls |-> None] /\ fresh' = {}
  /\ outcome' = "failed"
  /\ UNCHANGED <<info, created, cloudCred, store, status>>

-----------------------------------------------------------------------------
(* Put one object: createOrUpdateCAPISecret and cruObject.                 *)

AtStep(c, do, seen) == Running(c) /\ Step(c).do = do /\ call[c].seen = seen

\* Every write to object k, status included, makes earlier reads of k stale.
StillFresh(k) == {d \in fresh : Step(d).key # k}

Get(c) ==
  /\ AtStep(c, "put", "nothing")
  /\ call' = [call EXCEPT ![c].seen = IF Exists(Step(c).key) THEN "found" ELSE "missing"]
  /\ fresh' = fresh \cup {c}
  /\ UNCHANGED <<caller, cloudCred, store, status>>

\* The call goes on after a write, or the answer is lost and the call fails.
AfterWrite(c) == Advance(c) \/ Return(c, FALSE)

\* Variant: version is a locked field, so a merge leaves the control plane alone.
MergeVersionLocked(c) ==
  LET k == Step(c).key IN
  /\ AtStep(c, "put", "found") /\ c \in fresh
  /\ store' = IF k[1] = "OCIManagedControlPlane" THEN store
              ELSE [store EXCEPT ![k].content = Render(k, call[c].v)]
  /\ fresh' = StillFresh(k) \ {c}
  /\ AfterWrite(c)
  /\ UNCHANGED <<cloudCred, status>>

\* Variant: replicas is a locked field, so a merge leaves the size of a pool alone.
MergeReplicasLocked(c) ==
  LET k == Step(c).key IN
  /\ AtStep(c, "put", "found") /\ c \in fresh
  /\ store' = IF k[1] = "MachinePool" THEN store
              ELSE [store EXCEPT ![k].content = Render(k, call[c].v)]
  /\ fresh' = StillFresh(k) \ {c}
  /\ AfterWrite(c)
  /\ UNCHANGED <<cloudCred, status>>

\* Update of the merged object, accepted only on top of what was read.
Merge(c) ==
  LET k == Step(c).key IN
  /\ AtStep(c, "put", "found") /\ c \in fresh
  /\ store' = [store EXCEPT ![k].content = Render(k, call[c].v)]
  /\ fresh' = StillFresh(k) \ {c}
  /\ AfterWrite(c)
  /\ UNCHANGED <<cloudCred, status>>

\* The object changed or went away since it was read: the Update is refused.
Conflict(c) ==
  /\ AtStep(c, "put", "found") /\ c \notin fresh
  /\ Return(c, FALSE)
  /\ UNCHANGED <<cloudCred, fresh, store, status>>

\* Create of an absent object.
CreateObject(c) ==
  LET k == Step(c).key IN
  /\ AtStep(c, "put", "missing") /\ ~Exists(k)
  /\ store' = [store EXCEPT ![k] = [content |-> Render(k, call[c].v), dying |-> FALSE]]
  /\ fresh' = StillFresh(k) \ {c}
  /\ phase' = [p \in Pools |-> IF k = MachinePool(p) THEN "Pending" ELSE phase[p]]
  /\ AfterWrite(c)
  /\ UNCHANGED <<cloudCred, infraReady, cpReady, runs>>

\* Variant: the loop over the objects ends with the first one that exists already.
AlreadyExistsEndsCall(c) ==
  /\ AtStep(c, "put", "missing") /\ Exists(Step(c).key)
  /\ Return(c, Step(c).key # PrincipalSecret)
  /\ fresh' = fresh \ {c}
  /\ UNCHANGED <<cloudCred, store, status>>

\* createIfNotExists: somebody else created it, which counts as success and
\* leaves the object as it is.  The secret's Create has no such exception.
AlreadyExists(c) ==
  /\ AtStep(c, "put", "missing") /\ Exists(Step(c).key)
  /\ IF Step(c).key = PrincipalSecret THEN Return(c, FALSE) ELSE Advance(c)
  /\ fresh' = fresh \ {c}
  /\ UNCHANGED <<cloudCred, store, status>>

-----------------------------------------------------------------------------
(* IsCAPIClusterReady: one read of the Cluster, one list of the pools.     *)

isClusterReady(v) == infraReady /\ (v.version \in GatedVersions => cpReady)

ListedPools == {p \in Pools : Exists(MachinePool(p))}

\* Variant: one running pool is enough.
anyMachinePoolReady == \E p \in ListedPools : phase[p] = "Running"

\* Variant: a pool that is being deleted is not waited for.
deletingMachinePoolsReady ==
  ListedPools # {} /\ \A p \in ListedPools : phase[p] \in {"Running", "Deleting"}

areMachinePoolsReady == ListedPools # {} /\ \A p \in ListedPools : phase[p] = "Running"

\* With no wanted pool the list is skipped.
CheckCluster(c) ==
  /\ AtStep(c, "gate", "nothing")
  /\ Exists(Cluster) /\ isClusterReady(call[c].v)
  /\ IF call[c].v.pools = <<>>
     THEN Advance(c)
     ELSE call' = [call EXCEPT ![c].seen = "found"] /\ UNCHANGED caller
  /\ UNCHANGED <<cloudCred, fresh, store, status>>

CheckPools(c) ==
  /\ AtStep(c, "gate", "found") /\ areMachinePoolsReady
  /\ Advance(c)
  /\ UNCHANGED <<cloudCred, fresh, store, status>>

\* "Waiting for cluster to be ready" and its variants are errors of the call.
NotReady(c) ==
  /\ \/ AtStep(c, "gate", "nothing") /\ ~(Exists(Cluster) /\ isClusterReady(call[c].v))
     \/ AtStep(c, "gate", "found") /\ ~areMachinePoolsReady
  /\ Return(c, FALSE)
  /\ UNCHANGED <<cloudCred, fresh, store, status>>

-----------------------------------------------------------------------------
(* DeleteHangingResources: list once, then delete pool by pool.            *)

\* Variant: a wanted pool counts as hanging too.
ListPoolsUnfiltered(c) ==
  /\ AtStep(c, "prune", "nothing")
  /\ call' = [call EXCEPT ![c].seen = "found", ![c].doomed = ListedPools]
  /\ UNCHANGED <<caller, cloudCred, fresh, store, status>>

ListPools(c) ==
  /\ AtStep(c, "prune", "nothing")
  /\ call' = [call EXCEPT ![c].seen = "found",
                          ![c].doomed = ListedPools \ WantedPools(call[c].v)]
  /\ UNCHANGED <<caller, cloudCred, fresh, store, status>>

\* A delete only starts the deletion; a missing object is not an error.
Doom(k) == store' = [store EXCEPT ![k] = IF @ = None THEN None ELSE [@ EXCEPT !.dying = TRUE]]

DeletePool(c, p) ==
  /\ AtStep(c, "prune", "found") /\ call[c].infra = None /\ p \in call[c].doomed
  /\ Doom(MachinePool(p))
  /\ fresh' = StillFresh(MachinePool(p))
  /\ phase' = IF Exists(MachinePool(p)) /\ ~DeletionLag
              THEN [phase EXCEPT ![p] = "Deleting"] ELSE phase
  /\ \/ /\ call' = [call EXCEPT ![c].doomed = @ \ {p}, ![c].infra = p]
        /\ UNCHANGED caller
     \/ Return(c, FALSE)
  /\ UNCHANGED <<cloudCred, infraReady, cpReady, runs>>

DeleteInfra(c) ==
  /\ AtStep(c, "prune", "found") /\ call[c].infra # None
  /\ Doom(OCIMachinePool(call[c].infra))
  /\ fresh' = StillFresh(OCIMachinePool(call[c].infra))
  /\ \/ call' = [call EXCEPT ![c].infra = None] /\ UNCHANGED caller
     \/ Return(c, FALSE)
  /\ UNCHANGED <<cloudCred, status>>

Pruned(c) ==
  /\ AtStep(c, "prune", "found") /\ call[c].infra = None /\ call[c].doomed = {}
  /\ Advance(c)
  /\ UNCHANGED <<cloudCred, fresh, store, status>>

-----------------------------------------------------------------------------
(* The CAPI controllers (external).  A status write touches its object.    *)

InfrastructureUp ==
  /\ ~infraReady /\ Exists(Cluster) /\ Exists(OCIManagedCluster) /\ Exists(PrincipalSecret)
  /\ infraReady' = TRUE
  /\ fresh' = StillFresh(Cluster)
  /\ UNCHANGED <<caller, cloudCred, call, store, cpReady, runs, phase>>

\* The control plane the Cluster refers to is brought to its version.
ControlPlaneUp ==
  /\ infraReady /\ Exists(Cluster)
  /\ LET k == ControlPlane(store[Cluster].content.controlPlaneRef) IN
       /\ Exists(k) /\ ~(cpReady /\ runs = store[k].content.version)
       /\ runs' = store[k].content.version
       /\ fresh' = {d \in fresh : Step(d).key \notin {Cluster, k}}
  /\ cpReady' = TRUE
  /\ UNCHANGED <<caller, cloudCred, call, store, infraReady, phase>>

ClusterDisturbed ==
  /\ \/ infraReady /\ infraReady' = FALSE /\ cpReady' = cpReady
     \/ cpReady /\ cpReady' = FALSE /\ infraReady' = infraReady
  /\ fresh' = StillFresh(Cluster)
  /\ UNCHANGED <<caller, cloudCred, call, store, runs, phase>>

SetPhase(p, from, to) ==
  /\ phase[p] \in from /\ phase' = [phase EXCEPT ![p] = to]
  /\ fresh' = StillFresh(MachinePool(p))
  /\ UNCHANGED <<caller, cloudCred, call, store, infraReady, cpReady, runs>>

PoolUp(p) ==
  /\ infraReady /\ Exists(OCIMachinePool(p)) /\ Exists(MachinePool(p))
  /\ ~store[MachinePool(p)].dying
  /\ SetPhase(p, {"Pending", "Failed"}, "Running")

PoolDown(p) ==
  Exists(MachinePool(p)) /\ ~store[MachinePool(p)].dying /\ SetPhase(p, {"Running"}, "Failed")

PoolDeleting(p) ==
  Exists(MachinePool(p)) /\ store[MachinePool(p)].dying
    /\ SetPhase(p, {"Pending", "Running", "Failed"}, "Deleting")

\* The finalizers run: a dying MachinePool goes together with its infrastructure,
\* a dying OCIManagedMachinePool may go on its own.
Finalize(p) ==
  \E gone \in {{MachinePool(p), OCIMachinePool(p)}, {OCIMachinePool(p)}} :
    /\ \E k \in gone : /\ Exists(k) /\ store[k].dying
                       /\ MachinePool(p) \in gone => k = MachinePool(p)
    /\ store' = [k \in Keys |-> IF k \in gone THEN None ELSE store[k]]
    /\ phase' = IF MachinePool(p) \in gone THEN [phase EXCEPT ![p] = "Pending"] ELSE phase
    /\ fresh' = {d \in fresh : Step(d).key \notin gone}
    /\ UNCHANGED <<caller, cloudCred, call, infraReady, cpReady, runs>>

RotateCredential ==
  /\ cloudCred < MaxRotations /\ cloudCred' = cloudCred + 1
  /\ UNCHANGED <<caller, driver, store, status>>

-----------------------------------------------------------------------------
Start(c) ==
  \/ \E o \in Options : StartCreate(c, o) \/ StartUpdate(c, o)
  \/ \E n \in Sizes : StartSetClusterSize(c, n)
  \/ StartSetVersion(c)

\* What a call does when nothing goes wrong.
Work(c) ==
  \/ Get(c) \/ Merge(c) \/ Conflict(c) \/ CreateObject(c) \/ AlreadyExists(c)
  \/ CheckCluster(c) \/ CheckPools(c) \/ NotReady(c)
  \/ ListPools(c) \/ (\E p \in Pools : DeletePool(c, p)) \/ DeleteInfra(c) \/ Pruned(c)

Driver(c) == Start(c) \/ Work(c) \/ Refuse(c) \/ RequestFails(c)

Controllers ==
  \/ InfrastructureUp \/ ControlPlaneUp
  \/ \E p \in Pools : PoolUp(p) \/ PoolDeleting(p) \/ Finalize(p)

Trouble == ClusterDisturbed \/ Crash \/ (\E p \in Pools : PoolDown(p))

Next == (\E c \in Calls : Driver(c)) \/ Controllers \/ Trouble \/ RotateCredential

Spec == Init /\ [][Next]_vars

-----------------------------------------------------------------------------
(* A rollout as module StagedUpdate sees it.                               *)

GoalOf(c) == [op |-> call[c].op, v |-> call[c].v]

\* What the steps behind the call have put.
PutBy(c) ==
  LET plan == Plan(call[c].op, call[c].v) IN
  {plan[i].key : i \in {j \in 1 .. (call[c].at - 1) : plan[j].do = "put"}}

Asked(g) == WantedKeys(g.v)

Content(g, k) == Render(k, g.v)

Prunes(g) == g.op \in {"Update", "SetVersion"}

Success(g) == g.op

\* The credential comes first, the control plane before the workers, and in
\* UpdateCluster the workers before the rest.
Before(g, k) ==
  LET base == {PrincipalSecret, ControlPlane(g.v.display)} IN
  IF k = PrincipalSecret THEN {}
  ELSE IF k \in WorkerKeys THEN base
  ELSE IF Prunes(g) /\ k # ControlPlane(g.v.display) THEN base \cup (Asked(g) \cap WorkerKeys)
  ELSE {PrincipalSecret}

goal == IF \E c \in Calls : Running(c) THEN GoalOf(CHOOSE c \in Calls : Running(c)) ELSE None

done == UNION {PutBy(c) : c \in {d \in Calls : Running(d)}}

content == [k \in Keys |-> IF Exists(k) THEN store[k].content ELSE None]

leaving == {k \in Keys : Exists(k) /\ store[k].dying}

Staged == INSTANCE StagedUpdate WITH
            Objects <- Keys, Deletable <- WorkerKeys,
            Listed <- {MachinePool(p) : p \in Pools}, Nothing <- None

-----------------------------------------------------------------------------
(* Properties.                                                             *)

\* Every variable keeps its type: a frame points into its plan, objects hold what
\* a template can render, and only a running call has a fresh read.
CallerOK ==
  info \in Variables \cup {None} /\ outcome \in {"none", "failed"} \cup Ops /\ created \in BOOLEAN

CallOK ==
  /\ call \in [Calls -> Frames \cup {None}]
  /\ \A c \in Calls : Running(c) => call[c].at \in 1 .. Len(Plan(call[c].op, call[c].v))

TypeOK ==
  /\ CallerOK /\ CallOK /\ cloudCred \in Nat
  /\ fresh \in SUBSET Calls /\ \A c \in fresh : Running(c)
  /\ store \in [Keys -> Object \cup {None}]
  /\ infraReady \in BOOLEAN /\ cpReady \in BOOLEAN /\ runs \in Versions \cup {None}
  /\ phase \in [Pools -> Phases]

\* The caller issues one call at a time.
SerialCalls == \A c, d \in Calls : c = d

\* Whatever an unfinished rollout has already put is still in the API server as
\* it was rendered from the call's state, through controller writes, lost
\* answers and earlier failed calls; only a pool that was being deleted when it
\* was merged can be gone.
StepsStayApplied ==
  \A c \in Calls : Running(c) =>
    \A i \in 1 .. (call[c].at - 1) :
      LET s == Plan(call[c].op, call[c].v)[i] IN
      s.do = "put" => IF Exists(s.key) THEN store[s.key].content = Render(s.key, call[c].v)
                                       ELSE s.key \in WorkerKeys

\* A rollout that returned success is in force, whole: every object the kept
\* state asks for exists with the values of that state, and after an Update or
\* a SetVersion every other pool is on its way out.
SuccessMeansApplied ==
  ((\A c \in Calls : ~Running(c)) /\ outcome \in {"Create", "Update", "SetVersion"}) =>
    /\ \A k \in WantedKeys(info) : Exists(k) /\ store[k].content = Render(k, info)
    /\ outcome # "Create" =>
         \A p \in ListedPools \ WantedPools(info) : store[MachinePool(p)].dying

\* Nor does any of it go away afterwards: a rollout that met a wanted pool still
\* being deleted from an earlier one does not report success, as long as a pool's
\* phase says so from the moment the deletion starts.
SuccessMeansKept ==
  ((\A c \in Calls : ~Running(c)) /\ outcome \in {"Create", "Update", "SetVersion"}) =>
    \A k \in WantedKeys(info) : Exists(k) => ~store[k].dying

\* Once created, the Cluster refers to a control plane object that exists, also
\* while an Update that changes the display name, and with it the name of that
\* object, is cut off at any step.  For callers that drop the info of an Update
\* that failed: with it, a SetVersion or SetClusterSize before the next Update
\* puts the Cluster's reference first.
ControlPlaneRefResolves ==
  created => Exists(Cluster) /\ Exists(ControlPlane(store[Cluster].content.controlPlaneRef))

\* Workers are never asked for a version before their control plane was: a
\* MachinePool's content changes only while the writing call's version is
\* already the specified version of the control plane it wants.
WorkersFollowControlPlane ==
  [][\A p \in Pools :
       (store'[MachinePool(p)] # None /\ ~Exists(MachinePool(p)))
         \/ (Exists(MachinePool(p)) /\ store'[MachinePool(p)] # None
              /\ store'[MachinePool(p)].content # store[MachinePool(p)].content) =>
       \E c \in Calls :
         /\ Running(c) /\ Exists(ControlPlane(call[c].v.display))
         /\ store[ControlPlane(call[c].v.display)].content.version = call[c].v.version]_vars

\* A pool is deleted only after its replacement: when the deletion of one
\* begins, every pool the call wants exists as the call rendered it and has
\* been Running at some time since it was created.
ReplacementBeforeRemoval ==
  [][\A p \in Pools, c \in Calls :
       (/\ Running(c) /\ Step(c).do = "prune"
        /\ Exists(MachinePool(p)) /\ ~store[MachinePool(p)].dying
        /\ store'[MachinePool(p)] # None /\ store'[MachinePool(p)].dying) =>
       \A q \in WantedPools(call[c].v) :
         /\ Exists(MachinePool(q)) /\ phase[q] \in {"Running", "Failed"}
         /\ store[MachinePool(q)].content = Render(MachinePool(q), call[c].v)]_vars

\* One call after the other, a rollout does to the objects of the cluster what
\* StagedUpdate says: every object is put as wanted and in the order of
\* UpdateCluster's comment, no other object changes, pools are deleted only after
\* everything wanted is in place, and success is reported only then, whatever
\* requests fail, are lost or are cut off by a crash on the way.
ImplementsStagedUpdate == Staged!Spec

\* "update the control plane, and then wait for the control plane to be ready"
\* (update.go): an Update never writes to the workers while a control plane is up
\* that runs another version than the Update's.
WorkersWaitForControlPlane ==
  [][\A c \in Calls :
       (/\ Running(c) /\ call[c].op = "Update" /\ Step(c).do = "put"
        /\ Step(c).key \in WorkerKeys /\ store' # store) =>
         runs \in {None, call[c].v.version}]_vars

\* "This keeps the cloud credential up-to-date" (update.go): a Create or an Update
\* never sets the principal secret back to an older credential than it holds,
\* whatever calls failed before.  Only SetClusterSize and SetVersion, which write
\* the credential of the stored state, can.
OnlyStoredStateSetsCredentialBack ==
  [][(/\ Exists(PrincipalSecret)
      /\ store'[PrincipalSecret].content.cred < store[PrincipalSecret].content.cred) =>
     \E c \in Calls : Running(c) /\ call[c].op \in {"SetClusterSize", "SetVersion"}]_vars
=============================================================================
