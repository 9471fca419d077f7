# A TLA+ model of the OKE CAPI kontainer-engine driver

`kontainer-engine-driver-oke-capi` is a plugin process that Rancher's
kontainer-engine starts and calls over gRPC. It turns driver calls (Create,
Update, SetClusterSize, SetVersion, PostCheck, Remove) into requests to the
Kubernetes API server of an admin cluster, where Cluster API (CAPI) controllers
and the Verrazzano fleet operator act on the objects it writes. The driver keeps
nothing between two calls: its state, the `Variables`, travels as JSON in the
`ClusterInfo` the caller hands in and gets back.

So the hard part is not in any single function. It is in many small requests to
a shared store, each of which may fail or be applied with its answer lost, in
controllers that change the same objects meanwhile, and in a caller that repeats
calls until they succeed. That is what these modules model.

## 1. Inventory

| Component | State | Operations | Modelled in |
|---|---|---|---|
| Driver operations, `pkg/oke_driver.go` | none of its own; `ClusterInfo.Metadata` of the caller | Create, Update, SetClusterSize, SetVersion, PostCheck, Remove; getters, ETCD stubs | `Rollout`, `VerrazzanoAddon`, `Connection`, `DynamicValues` |
| Cluster rollout, `pkg/capi/{capi,update,ready,merge}.go` | the objects in the admin cluster | CreateOrUpdateAllObjects, UpdateCluster, IsCAPIClusterReady, DeleteHangingResources, mergeMaps | `ClusterObjects`, `Rollout`, `RolloutProgress`, `ObjectPaths`; promised in `StagedUpdate` |
| Removal, `pkg/capi/capi.go` | Cluster, namespace | DeleteCluster | `VerrazzanoAddon` |
| Verrazzano add-on, `pkg/capi/verrazzano.go` | VerrazzanoFleet, VerrazzanoManagedCluster, pull secret | UpdateVerrazzano, DeleteVerrazzanoResources, Create/DeleteImagePullSecrets | `VerrazzanoAddon`; the fleet's content in `DynamicValues` |
| Stored variables, `pkg/variables` | `Variables` | NewFromOptions, SetUpdateValues, SetDynamicValues, ParseNodePools, NodeCount | `ClusterObjects`, `VerrazzanoAddon`, `DynamicValues` |
| Templates, `pkg/capi/object`, `pkg/templates` | none | LoadTextTemplate, CreateObjects, UpdateObjects, NestedField | `ClusterObjects`, `DynamicValues`, `ObjectPaths` |
| Provisioning log, `pkg/provisioning` | ConfigMap `provisioning-log` | write, createLog, appendLog, ClusterStatus | `ProvisioningLog`; promised in `AtomicLog` |
| Service account token, `oke_driver.go` | objects on the managed cluster, the token in `ClusterInfo` | generateServiceAccountToken | `Connection` |
| Client cache, `pkg/k8s` | two package variables | InjectedInterface, InjectedDynamic | `Connection` |
| OCI lookups, `pkg/oci` | none | GetImageIdByName, GetSubnetById, SubnetAccess | `DynamicValues` |
| Version defaults, `pkg/version` | none | LoadDefaults | `DynamicValues` |
| Plugin process, `main.go` | none | one goroutine per call; killed by its parent | `Rollout`, `Connection` (slots `Calls`, actions `Crash`, `Killed`) |

How they interact: an operation loads the `Variables`, changes them, renders each
template with them and puts the results one by one (get, then create or merge and
update). UpdateCluster stops at gates that read the status which the controllers
write. PostCheck and Remove end with an error as long as something is still being
deleted, and rely on being called again. All calls write messages to one log
ConfigMap per cluster. There is no lock and no transaction anywhere: the only
protection is the resource version of the API server.

What makes each part correct:

- **Rollout**: what a call has put stays put; a success means the whole state is
  in force and stays there; workers are not asked for a version before their control
  plane, nor the Cluster for a control plane that is not there; a pool is removed
  only after its replacement; an outdated credential does not come back; retries
  converge.
- **Add-on and removal**: an uninstall that reports success is complete; the
  Cluster outlives the Verrazzano on it; the fleet never comes to refer to a
  missing pull secret; flags never ask for two opposite things; repeated calls
  finish.
- **Connection**: a PostCheck that succeeds hands over a token that works; every
  PostCheck builds on what cut-off ones left; the unlocked cache is harmless once
  filled.
- **Looked-up values**: what is stored fits the request it was stored for; a running
  cluster keeps its network; merges lose nothing of others and deliver the rest;
  the wanted Verrazzano version arrives.
- **Log**: concurrent writers neither overwrite nor repeat each other's messages;
  the field `last` is the end of the log; the length is bounded.

`PROJECT.json` lists the hazards, each at its line.

## 2. The modules

    ClusterObjects         pure: variables, object keys, Render, the two plans
      Rollout              the calls that roll objects out, one action per request
        MCRollout, MCRolloutOps, MCRolloutRetry
        StagedUpdate       (INSTANCE) what one call after the other promises
        RolloutProgress    retries after a goal is settled, with fairness
          MCRolloutProgress
        Rollout_proofs     what plans and Render return, types, what stays
          StagedUpdate_proofs
            Success_proofs
              RolloutProgress_proofs
    VerrazzanoAddon        the add-on steps of PostCheck, and Remove
      MCVerrazzanoAddon, VerrazzanoAddon_proofs
    Connection             how PostCheck connects: client cache, kubeconfig, token
      MCConnection, Connection_proofs
    ObjectPaths            pure: objects by their leaves, mergeMaps, NestedField
      DynamicValues        what Create and Update look up, and where it ends up
        MCDynamicValues
          ObjectMerge      (INSTANCE) pure: mergeMaps as the code recurses
        DynamicValues_proofs
    LogText                pure: the text of the log
      AtomicLog            what the log promises
      ProvisioningLog      the log ConfigMap and its writers
        MCProvisioningLog, ProvisioningLog_proofs

### ClusterObjects

`Variables` keeps the fields an operation can change and a property tells apart:
the Kubernetes version, the display name, the raw and the parsed node pools, and
the number of the OCI credential. An object is named by its kind and its name.
`Render(k, v)` is the part of object `k` that its template takes from `v`. All
fields it keeps are unconditional in their templates, so a merge
(`mergeMaps`) leaves exactly these values: `Merge` in `Rollout` may overwrite the
content. Fields under a template condition (`ocpus`, `sshPublicKey` and the like),
where a merge would keep old values, are left out here; `DynamicValues` has the
`networkSpec` and the conditional parts of the fleet, with the merge itself.

`CreateOrUpdateAllObjects(v)` and `UpdateCluster(v)` are the two procedures as
sequences of steps `put`, `gate` and `prune`, in the order of the object lists in
`objects.go` and of the statements in `update.go`. A template with a list renders
one object per pool, all MachinePools before all OCIManagedMachinePools.

### Rollout

| State | Code |
|---|---|
| `info`, `outcome`, `created` | the caller: stored state, how its last call ended, whether a Create succeeded |
| `call[c]`, `fresh` | a call in progress: its state, its position, what it has read; whether that read is still current (resource version) |
| `store` | objects in the API server, with their deletion mark |
| `infraReady`, `cpReady`, `runs`, `phase` | the status the gates read, and the version the control plane really runs |
| `cloudCred` | the user's cloud credential |

A put is two requests: `Get`, then one of `Merge`, `Conflict`, `CreateObject`,
`AlreadyExists`. `AfterWrite` lets the answer of an applied write be lost.
A gate is `CheckCluster` and `CheckPools`, which read at different moments, or
`NotReady`. The prune lists once (`ListPools`) and then deletes pool by pool,
infrastructure after machine pool. `RequestFails` ends a call at any point;
`Crash` ends all of them without a return. `Refuse` is a call that fails before its
first write. The controllers set statuses, report failing pools, and finish
deletions at any time.

What the caller does is read off the driver interface: Create returns its state
even with an error; Update returns the info, with the new state in it, also on an
error, and the caller may keep it or not (`KeepOnError`); SetClusterSize and
SetVersion return an error only, so what they store in their copy is lost. The
model takes it that the caller keeps the info of a call that succeeded.

External assumptions, all about CAPI, none about the driver: a MachinePool
becomes Running only when its OCIManagedMachinePool exists; a deleted MachinePool
takes its infrastructure object with it; the label by which the gate lists the
pools (`ready.go:74-76`; the template does not set it) is put on by CAPI's
admission; a deletion that was asked for shows in `status.phase` at once, unless
`DeletionLag` is set, in which case it shows some time later or never.

### StagedUpdate

What a caller may rely on, without requests, reads, gates and finalizers: a goal is
taken up, its objects are put in an order (`Before`), spare pools are deleted only
when everything asked for is there, success is reported only then, and a call may
fail at any moment. `Rollout` maps to it by `goal` (operation and state of the
running call), `done` (the objects its steps behind have put), `content` and
`leaving` (what is stored, and which of it has a deletion mark). Reads, gates and the
controllers' statuses are stutters; a lost answer is a put that fails. Before is as
strong as the plans allow: credential first, control plane before any worker, and in
UpdateCluster all workers before the remaining objects.

### RolloutProgress

`Rollout` with all its failures until the user settles on a goal; then no more
failures, and the caller repeats Update until it succeeds.

### VerrazzanoAddon

One `pc` per request of PostCheck and Remove. Create and Update appear by the
flags they store. The connection to the managed cluster (kubeconfig, service
account, token, extra YAML documents) is the single step `Connect`, since none of
its effects is visible to the others; module `Connection` opens it up. The model's `outcome` records only calls
that ended; a crash looks like a failed call. Keeping the namespace and its
contents until the Cluster is gone, and removing both in `DeleteNamespace`,
matches a namespace deletion as the driver sees it. The fleet operator registers
the cluster (`RegisterVMC`) as long as a fleet is installed and not being deleted.

### Connection

PostCheck up to the point where it is connected, with overlapping calls (a caller
that gave up on a slow one sends the next).

| State | Code |
|---|---|
| `client` | `kubernetesInterface`, `dynamicInterface`: nil, torn between two writes, whole |
| `call[c]` | a PostCheck: its stage, its copy of the token, how far it is with making a client, what it read in the token secret |
| `token`, `outcome` | `ServiceAccountToken` of the info the caller keeps; how its last PostCheck ended |
| `ready`, `kubeconfig` | what the gate answers; the secret with the kubeconfig |
| `account`, `secret`, `bound` | service account, token secret and role binding in the managed cluster |

The check, the fill and the use of a cached client are not synchronised. A Go
interface variable is two words, so a reader may find the type written and the value
not yet: it gets past the nil check and panics at its first use, which kills the
plugin (`Panic`). That is the outcome of the data race the build can produce.
`TokensOnError` lists what an error may leave in the info: `generateServiceAccountToken`
returns "" with every error, and line 451 assigns it before the error is looked at.
`ReadSecret` reads whatever is there after ten seconds; the binding is made before the
token is looked for, so a late token fails a PostCheck with all objects in place.

### ObjectPaths, ObjectMerge and DynamicValues

`mergeMaps`, the merge of rendered objects into stored ones with its locked fields, is
there twice. `ObjectMerge` has it as merge.go writes it: nested maps that end in leaves,
a list being a leaf, and a recursion into them. `ObjectPaths` has what that recursion
comes to: an object is the function from the paths of its leaves to what they hold, and
a merge says which leaves of the two objects stay. That form needs no recursion, so the
provers can reason about it, and it is the one `DynamicValues` uses. `MergeAgrees` in
`MCDynamicValues` compares the two, so that neither is taken on trust. What the paths
cannot tell apart is an empty map and no map. The driver's templates render one empty map,
`allowedNamespaces` of the OCIClusterIdentity, an object that is not among those merged here.

`DynamicValues` runs the lookups of SetDynamicValues in their order
(`SetupOCIAuth`, `setImageId`, `addSubnetForRole` per role, `SetDockerConfigJson`,
`setVerrazzanoTag`), once for a Create and twice for an Update, which looks
everything up for the options and again for the stored state. The images, subnets and
versions may change between any two lookups. A state is stored only after the last
one. It then puts the OCIManagedCluster and, in PostCheck, the VerrazzanoFleet, each
rendered from the state and merged into what is there; `SetNestedField` is the
updater that sets the version. Tags are numbered in the order of strings. The rest of
the rollout is in `Rollout`; here it succeeds or fails. Removing a fleet is in
`VerrazzanoAddon`; here a fleet that is no longer wanted may be gone (`FleetGone`).

### LogText, AtomicLog and ProvisioningLog

`AtomicLog` is the log as its readers see it: whole messages added one at a time,
none twice in a row. `ProvisioningLog` implements it with a read, an append in memory
and a write back, and without a lock.

The text is a sequence of cells so that a trim can cut messages apart. `Get` reads
the ConfigMap into the writer's memory, the other actions write it back or give up.
Two messages that differ in the timestamp only are one message, as in
`areEquivalentMessages`.

## 3. What the runs check

| Run | Instance | Shows |
|---|---|---|
| `rollout` | one call at a time; 2 pools, 2 versions, one of them gated on `controlPlaneReady`; first pool, replaced pool, upgrade with a pool pinned to the old version; Create, Update, SetVersion; failed info kept or dropped | `StepsStayApplied`, `SuccessMeansApplied`, `SuccessMeansKept`, `WorkersFollowControlPlane`, `ReplacementBeforeRemoval` |
| `rollout_ops` | all four operations, 1 pool of 2 sizes, an empty pool list with another display name, one credential rotation, late deletion phases; failed info dropped | `StepsStayApplied`, `ControlPlaneRefResolves`, `OnlyStoredStateSetsCredentialBack`, `ImplementsStagedUpdate` |
| `rollout_retry` | two overlapping calls with the same request | `SuccessMeansApplied` with conflicts and AlreadyExists |
| `rollout_progress` | 2 pools, 2 versions, retried Updates | `GoalPoolsSurvive`, `Converges` |
| `addon` | one PostCheck or Remove at a time, five options | `FlagsCoherent`, `UninstallIsComplete`, `SecretBeforeReference`, `VerrazzanoGoneBeforeCluster`, `RemoveCompletes`, `UninstallCompletes` |
| `connection` | two overlapping PostChecks, two pieces of trouble (failed requests, kills, panics, outages) | `ConnectedMeansUsable`, `CacheSettles`, `StaysConnected` |
| `dynamic_values` | one image, one subnet shared by the roles, two version mappings; requests with and without pull secret, registry and Verrazzano, one malformed and one with a bare credential id; one piece of trouble (a change of the world or a failed request) | `SubnetsKeepRoles`, `ReferenceAsAsked`, `FleetAsStored`, `MergeAgrees`, `NetworkIsFixed`, `ForeignFieldsStay`, `VersionArrives` |
| `provisioning_log` | 2 writers, messages of 1, 2 and 3 cells, trim from 4 cells on | `LastIsTail`, `NoRepeats`, `LengthBounded`, `NothingOverwritten`, `ImplementsAtomicLog` |

Each of `rollout`, `addon`, `connection`, `dynamic_values` and `provisioning_log` also
checks its module's `TypeOK`. Every definition marked "Variant" in a module is a
plausible mistake in the definition after it; `PROJECT.json` pairs it with the
property it breaks.

What the newer properties say where the code is easy to misjudge:

- `SuccessMeansKept`: a pool that was removed and is wanted again while its finalizers
  run is merged as if it were there, and goes away afterwards. Only the gate, which
  waits for *every* listed pool, keeps that rollout from reporting success; a gate
  that skipped pools in deletion would look reasonable and lose a pool silently. It
  rests on the phase "Deleting" showing at once (`DeletionLag = FALSE`).
- `ControlPlaneRefResolves`: the display name names the control plane object. An
  Update with another display name puts the new control plane before it moves the
  Cluster's reference. The run drops the info of a failed Update; a caller that keeps
  it and goes on with SetClusterSize puts the Cluster first, and the reference dangles
  until the control plane follows.
- `GoalPoolsSurvive`: the safety side of `Converges`. Once only Updates for the goal are
  at work, no pool the goal keeps is doomed or finalized, though the prune deletes the
  others by a list taken earlier, and finalizers of earlier deletions still run.
- `StaysConnected`, `ConnectedMeansUsable`: together they cover the retry of a
  PostCheck that was cut off anywhere in the managed cluster.
- `CacheSettles`: the race in the client cache ends with the first call that gets past
  its clients. Before that, a panic is possible, and the model has it.
- `NetworkIsFixed`: each Update looks the subnets up anew and renders them; only the
  locked field keeps a running cluster's network as it was created.
- `MergeAgrees`: which leaves survive a merge depends on what is a map where in *both*
  objects: a locked key counts only where the recursion gets to, and a leaf rendered in
  place of a map takes all of it away.
- `VersionArrives`: the version is set by the merge path only. A fleet just created has
  none; the next PostCheck brings it.

Four runs end in a counterexample, each against a sentence of the source:

- `stale_control_plane`: update.go:17 says that the control plane is updated and
  then waited for. The gate reads a status that no controller has refreshed since
  the new version was written, and for most versions does not read
  `controlPlaneReady` at all. The run ends with an
  Update to the second version that writes to its workers while the control plane is
  up and still runs the first. (What does hold is the weaker `WorkersFollowControlPlane`.)
- `livelock`: update.go:18 has the workers updated and waited for. The gate *before*
  the workers already asks every listed MachinePool to run. An Update that adds a
  pool and fails after its MachinePool and before its OCIManagedMachinePool leaves
  a pool that cannot run, and all retries stop at that gate. `Converges` states
  what retries do achieve: every goal that adds no pool, from complete pools. The
  run has no options without pools; that an Update from no pools to some never gets
  past the same gate (`ready.go:84`) is proved instead, as `NoPoolsNoDelivery`.
- `lost_uninstall`: variables.go:227 says that Verrazzano is uninstalled if the new
  state has none. A second such Update before the PostCheck clears the flag.
- `log_trim`: logger.go:167 says "Trim to last message". The trim removes a fixed
  number of bytes, the last message among them.

### Bounds and why they suffice

- *Two pools, two versions*: replacement needs an old and a new pool; the order
  of versions needs two. Nothing compares more than two of either.
- *One call at a time* in most runs: this is how the caller works, and the
  properties about order are meant for it. `rollout_retry` has two. Different
  requests at the same time are not covered (see section 6).
- *One rotation, one or two sizes*: enough for "older" and "different".
- *Failures are not bounded* in `Rollout`, `RolloutProgress` and `VerrazzanoAddon`: any
  number of lost answers, crashes, disturbed clusters and failing pools.
- *`MaxTrouble`* bounds them in the two modules with liveness under continuing calls:
  2 in `connection` (a failure, then another one in the repair), 1 in
  `dynamic_values` (a change between two lookups or a failed request; the third and
  later changes would meet states of the same kind). The theorems about `Connection`
  hold for any bound.
- *A Verrazzano resource is never empty in `dynamic_values`.* `UpdateVerrazzano` passes
  over an empty one (verrazzano.go:27); `addon` has such an option, and the theorems about
  `DynamicValues` hold with one. A further option would double the states of the run.
- *One subnet for several roles*: the roles' entries can only be confused when they
  share a subnet.
- *Small objects in `MergeAgrees`*: all nested maps with two keys, up to three levels deep
  against two levels and the other way round, with no key locked or one. A step of the
  recursion sees one key in two maps; three levels have a lock below a recursion, and
  both objects can end before the other does. The objects the calls really put are
  compared too.
- *Four cells, messages up to three*: a trim can cut inside a message, at its
  end, or take everything. The sequence is bounded by `LengthBounded` itself, so
  the run is exhaustive for its messages.
- No symmetry sets are used: each run is small enough without.

### Fairness

`RolloutProgress.PSpec`, from the moment a goal is settled: weak fairness of the
call's own steps (a goroutine is scheduled), of the caller's retry (kontainer-engine
reconciles until success), and of each controller action (controllers are
level-triggered). Nothing is assumed about the time before. `VerrazzanoAddon.FairSpec`:
a call that runs ends (weak); the caller repeats PostCheck and Remove; a request
repeated forever succeeds at some time (strong, because failures disable the step
in between); finalizers run; a cluster that goes down comes up again, and some of
the repeated PostChecks find it up. `Connection.FairSpec`: the caller repeats PostCheck
and each call's steps go on (weak); the token controller, CAPI's kubeconfig and the
recovery of the cluster come at some time (weak). `DynamicValues.FairSpec`: a call goes
on (weak), and the caller runs PostCheck again and again (strong, because Updates in
between take the only slot). None assumes that the user ever does anything: Settle,
AskRemoval, StartCreate and StartUpdate have no fairness. Deadlock is checked in every
safety run; it is off in `addon` (a removed cluster is the end) and in the
runs of `RolloutProgress` (once the goal is delivered nothing is left to do).

## 4. What is proved

Proofs are in the `_proofs` modules and hold for every value of the constants that
satisfies the `ASSUME`s of the base module.

| Theorem | Argument |
|---|---|
| `Rollout_proofs!Typing` | `TypeOK` alone is not inductive: `Render` looks up a pool by name, so a step may only name pools of the call's state (`Rendered`), and a conflict-free write must meet the object it has read (`FreshReads`). `TypeInv` adds both. The module begins with the lemmas on what plans, `Render` and `PoolNamed` return. |
| `Rollout_proofs!WhatIsPutStays` | `StayInv` adds to the property that a read "missing" is still missing (`StillMissing`), which needs that only one call writes. Hence the premise `SerialCalls`. |
| `Rollout_proofs!CredentialMovesForward` | `CredInv`: the secret, the stored state and every call carry credentials no newer than the user's, and a running Create or Update carries one at least as new as the secret's. |
| `VerrazzanoAddon_proofs!Typing`, `FlagsStayCoherent` | one invariant of the flags of the stored state and of all calls |
| `VerrazzanoAddon_proofs!UninstallReallyCompletes`, `ClusterOutlivesVerrazzano` | `CallInv` says per stage what a call has established (past "uninstall": no fleet; and since nothing registers the cluster without a fleet, no registration), `AddonInv` joins it with the outcome |
| `VerrazzanoAddon_proofs!SecretComesFirst`, `UninstallTakesFleet` | for any number of overlapping PostChecks and Removes. `OverlapInv`: all of them work on the one stored state, whose flags agree (`FlagInv`), so none undoes what another has behind it: a call about to put the fleet has its secret unless Remove took the namespace away, after which no fleet can be put; and where the state asks for an uninstall, nobody puts a fleet back (`Relied`). |
| `StagedUpdate_proofs!Implementation` | a refinement, step by step: each request maps to a `Put`, a `Delete`, an `End` or a stutter. Beyond `StayInv` it needs the shape of the plans (`UpdateOrder`, `CreateOrder`: who is behind whom) and the bookkeeping of a prune (what is neither doomed nor marked yet). For any pools, versions, options and operations, with one call at a time. |
| `StagedUpdate_proofs!WorkersFollow` | from `StayInv`: the control plane is behind every worker in both plans, and what is behind is still as it was rendered |
| `Success_proofs!SuccessIsWhole`, `SuccessLasts`, `ReplacedFirst` | The properties speak of the end of a call, so `KeepInv` follows the call from its first put. Beyond the invariants of `WhatIsPutStays` and of the refinement it says what can be leaving at all (`LeavingInv`: workers only, the MachinePool whenever its OCIManagedMachinePool is, with phase Deleting), which pools wait for their delete (`DoomedInv`), that past the first gate nothing wanted is leaving and at the prune every wanted pool has been up (`HealthyInv`), and what is in force once the call has ended (`SettledInv`). Premises: `SerialCalls`, and `~DeletionLag`: a pool whose deletion has begun reports it in its phase, which is what the gate reads. |
| `Success_proofs!ReferenceResolves`, `ReferenceResolvesInTurn` | for any number of overlapping calls with different requests. `ReferenceInv`: no object but workers is ever deleted, so every control plane that a call has behind it stays, whoever else puts what (`Grounded`); an Update puts the Cluster after its own control plane (`UpdateOrder`), and a SetClusterSize, which puts the Cluster first, wants the control plane of the kept state (`KeptPlane`). Two premises, each with a counterexample without it: `CreatesAlone`, nothing else runs next to a Create, which puts the Cluster before the control plane; and `TRUE \notin KeepOnError` or no SetClusterSize, as explained in section 3. The corollary is for one call at a time, where the first premise always holds. |
| `Success_proofs!RetriesAreWhole` | Any number of calls at a time, all with the same request: `StepsStayApplied`, `WorkersFollowControlPlane`, `SuccessMeansApplied` and `SuccessMeansKept`, all of which need `SerialCalls` when requests differ. `RetryInv`: every stored object, every call and the kept state are those of one `Variables`, so no listed pool is unwanted, nothing is ever deleted, and what one call has behind it no other takes away (`Adds`, `BehindAll`). Premises, the instance `rollout_retry` for any values: one set of options, no rotation of the credential, no SetClusterSize. No premise on `DeletionLag` or `KeepOnError`. |
| `RolloutProgress_proofs!RetriesAreRuns`, `CanAlwaysRetry` | `PSpec` implements `Spec`: a retry is a Start, an undisturbed step is one of Rollout's, settling is a stutter. So every theorem about `Rollout` holds for a caller that retries. `GoalInv`: a settled goal is one of the options, and the created cluster keeps a state to update. |
| `RolloutProgress_proofs!InForceStays` | `InForce` alone is not inductive: a wanted pool that is being deleted would be finalized. `SuccessIsWhole`'s companion `SuccessLasts` rules that out, hence its premises `SerialCalls` and `~DeletionLag`. Then no call may start, and each controller finds what it would set already set. |
| `RolloutProgress_proofs!PoolsSurvive` | `SparesWanted`: what a call has listed for deletion, and the pool whose infrastructure is next, are not among the pools its state asks for; an Update for the goal asks for the goal's pools. For any number of calls, and without a premise on `DeletionLag`. |
| `RolloutProgress_proofs!NoPoolsNoDelivery` | a goal with pools over a cluster without a MachinePool is never delivered, however often Updates for it are retried or overlap. `Stranded` is inductive: every call is on its way to the gate ahead of the workers (`StepsToTheGate`), what it puts before that is the credential and the control plane, and the gate asks for a listed pool that runs (`StrandedMove`). TLC confirms on a small instance that `Stranded` is reached; with an empty pool list, `rollout_progress` itself would be too large. |
| `DynamicValues_proofs!MergeKeepsTrees`, `UnrenderedStays`, `LockedFieldStays` | about `mergeMaps` for any two objects and any locked keys. The last needs its premise that no leaf is rendered in place of a map on the way to the field: such a leaf replaces the map with the locked field in it. |
| `DynamicValues_proofs!Typing`, `SubnetsKept`, `ReferencesAsked` | `Looked` says what a call has at each lookup, `Resolved` that a stored state, and one that is past its lookups, is complete (`Complete`: every role with a subnet is listed once and in order) and fits its request (`Coherent`: the registry's text and the flag that asks for a pull secret). An Update looks up twice, so the lookups of the second round start from a complete state and have to leave one. |
| `DynamicValues_proofs!NetworkFixed` | `OnlyNetwork`: the OCIManagedCluster, as far as it is modelled, has the list of subnets below `networkSpec` and no other leaf, so the merge gets to the lock; then `LockedFieldStays` for each put |
| `DynamicValues_proofs!FleetStored`, `ForeignFieldsKept` | `Checks`: a PostCheck works on the state that is stored and asks for an install; `FleetOK`: the fleet is an object, and at, above and below a controller's field there is nothing but what it wrote (`OnlyReport`); `AsStored`: after a PostCheck that succeeded the fleet has all of the kept state but the version, if that state names a resource (`NoResource`). No premise on the calls: `DynamicValues` has one at a time. |
| `Connection_proofs!Typing`, `Settling`, `Usability` | `CacheSettles` needs that a call which made a client and has not stored it yet leaves a whole one whole; `ConnectedMeansUsable` needs that each stage has the objects of the stages before it (`Made`) and that nothing takes them away. For any number of overlapping PostChecks. |
| `ProvisioningLog_proofs!Typing`, `LastStaysTail`, `LengthStaysBounded`, `WritesAccumulate`, `NothingRepeats`, `Implementation` | `TypeOK` says that a fresh read is a copy of the ConfigMap; each theorem then follows one step at a time, for any writers, messages and limits |

`WhatIsPutStays`, `CredentialMovesForward`, `WorkersFollow`,
`StagedUpdate_proofs!Implementation`, `SuccessIsWhole`, `SuccessLasts`, `ReplacedFirst`,
`InForceStays`, `UninstallReallyCompletes` and `ClusterOutlivesVerrazzano` are for callers
that issue one call at a time, the assumption of the runs that check them. They need it.
Of the rollout, two Updates with different pools delete each other's pools. Of the add-on,
with two PostChecks at once: one deletes the registration, the operator registers
the cluster again while the fleet is still there, the other call marks the fleet for
deletion and it goes; the first then finds no fleet, and ends its uninstall with the
registration left behind. Two calls at a time in TLC show this for `UninstallIsComplete`
and `VerrazzanoGoneBeforeCluster`; the fleet itself is gone in any case
(`UninstallTakesFleet`).

Assumptions on constants that these proofs use, each checked by TLC in the run that
extends the module: `OptionsAssumption` of `Rollout` (a pool's name is listed once), and in
`DynamicValues` `OptionsAssumption` (a user's Verrazzano resource is an object whose leaves
are below `spec.verrazzano`, where the template puts it) and `MappingsAssumption` (tags are
numbered from 1, 0 being none). `Keys` in `DynamicValues_proofs` lists the keys of the templates
next to `STRING`, of which they are members: the provers do not know that a string belongs
to `STRING`.

Only model-checked: `MergeAgrees`, since the provers cannot unfold a recursive operator;
`Converges`, `RemoveCompletes`, `UninstallCompletes`, `StaysConnected` and `VersionArrives`,
which rest on fairness and are beyond them. Of `Converges` the part without fairness is
proved: what is in force stays (`InForceStays`), and the way there loses nothing of the
goal (`PoolsSurvive`).

## 5. How to run

    tlc -workers 2 -config MCRollout.cfg MCRollout
    tlc -workers 2 -config StaleControlPlane.cfg MCRollout
    tlapm Rollout_proofs.tla

`PROJECT.json` names the module and configuration of every run. The largest takes
about two minutes.

## 6. What is not modelled

- Flag descriptions, capabilities and ETCD stubs are static; the getters change nothing.
- `SetQuickCreateVCNInfo` has no caller, `CreateOrUpdateResult` no reader, `gvr.go` is a
  table of names.
- Extra YAML documents on the managed cluster: objects and names are the user's, and the
  driver's part is the same `createOrUpdateObjects` that `Rollout` models.
- The endpoint, certificate and node count that PostCheck copies into the info.
- The text of messages, and which of them `ClusterStatus` chooses.
- The networkSpec of a quick-created VCN (constant text of a template), shapes and SSH keys.
- Overlapping calls with *different* requests can undo each other (two Updates may
  delete each other's pools, and the older credential may win). The code has nothing that
  orders them; it is listed as a hazard. No run has such calls. What is proved of them is
  what every step keeps: `Typing`, `ReferenceResolves` and, for Updates that agree on the
  pools, `PoolsSurvive`.
- `Rollout`, `VerrazzanoAddon`, `Connection` and `DynamicValues` are separate
  specifications over the same stored state. Each has the part of that state which its
  properties need, and Create and Update are in each of them by what they leave in it.

Still worth doing: a composition of `Rollout` with `VerrazzanoAddon` in which one Update
changes pools and flags together.
