--------------------------- MODULE VerrazzanoAddon ---------------------------
(***************************************************************************)
(* PostCheck and Remove: how the driver installs Verrazzano on a cluster,  *)
(* takes it off again and finally deletes the cluster.  The flags that     *)
(* steer these calls are computed by Create and Update, which appear here  *)
(* only by what they store; their rollout of objects is module Rollout.    *)
(*                                                                         *)
(* A deletion is never finished by the call that asks for it: the calls    *)
(* report an error, and the caller repeats them until nothing is left.     *)
(***************************************************************************)
CONSTANTS
  Calls,       \* slots for PostCheck and Remove calls in progress
  Options,     \* the Verrazzano options users pass
  KeepOnError, \* may the caller keep the info of an Update that failed?
  None         \* no stored state, no object, no call

\* install is InstallVerrazzano, resource says that VerrazzanoResource is not
\* empty, create is CreateImagePullSecrets.
DriverOptions == [install : BOOLEAN, resource : BOOLEAN, create : BOOLEAN]

\* The stored flags; delete is DeleteImagePullSecrets.
Flags == [install : BOOLEAN, uninstall : BOOLEAN, resource : BOOLEAN,
          create : BOOLEAN, delete : BOOLEAN]

ASSUME OptionsAssumption == Options \subseteq DriverOptions
ASSUME KeepAssumption == KeepOnError \subseteq BOOLEAN

VARIABLES
  info,       \* the flags the caller keeps, or None
  outcome,    \* how the caller's last finished call ended
  removing,   \* the user has asked for the cluster to be removed
  call,       \* the PostCheck or Remove each slot is executing, or None
  fleet,      \* the VerrazzanoFleet: None or [refs, dying]
  vmc,        \* does the VerrazzanoManagedCluster exist?
  pullSecret, \* does the secret verrazzano-container-registry exist?
  cluster,    \* the CAPI Cluster: "absent", "present" or "deleting"
  namespace,  \* does the cluster's namespace exist?
  ready       \* would IsCAPIClusterReady succeed?

caller == <<info, outcome, removing>>
objects == <<fleet, vmc, pullSecret, cluster, namespace>>
vars == <<caller, call, objects, ready>>

Stages == {"ready", "connect", "secret", "fleet", "vmc", "uninstall", "cleanup",
           "cluster", "namespace"}

Frames == [op : {"PostCheck", "Remove"}, v : Flags, pc : Stages]

Fleets == [refs : BOOLEAN, dying : BOOLEAN]

ASSUME NoneAssumption == None \notin Flags \cup Frames \cup Fleets

Running(c) == call[c] # None
Idle == \A c \in Calls : ~Running(c)
At(c, pc) == Running(c) /\ call[c].pc = pc

Init ==
  /\ info = None /\ outcome = "none" /\ removing = FALSE
  /\ call = [c \in Calls |-> None]
  /\ fleet = None /\ vmc = FALSE /\ pullSecret = FALSE
  /\ cluster = "absent" /\ namespace = TRUE /\ ready = FALSE

-----------------------------------------------------------------------------
(* Create and Update, seen from here.                                      *)

NewFromOptions(o) ==
  [install |-> o.install, uninstall |-> FALSE, resource |-> o.resource,
   create |-> o.create, delete |-> FALSE]

\* Variant: the flags of an unfinished uninstall are not recomputed but added to.
SetUpdateValuesSticky(v, o) ==
  [install |-> o.install, uninstall |-> v.uninstall \/ (v.install /\ ~o.install),
   resource |-> o.resource,
   create |-> o.create, delete |-> v.delete \/ (v.create /\ ~o.create)]

SetUpdateValues(v, o) ==
  [install |-> o.install, uninstall |-> v.install /\ ~o.install,
   resource |-> o.resource,
   create |-> o.create, delete |-> v.create /\ ~o.create]

Ended(how) == outcome' = how /\ UNCHANGED <<removing, call>>

\* Create fails before it has a state, fails with its state returned, or succeeds.
Create(o) ==
  /\ Idle /\ ~removing /\ outcome \in {"none", "failed"} /\ cluster = "absent"
  /\ \/ info' = info /\ cluster' = cluster /\ Ended("failed")
     \/ /\ info' = NewFromOptions(o)
        /\ \/ cluster' = "present" /\ Ended("Create")
           \/ cluster' \in {"absent", "present"} /\ Ended("failed")
  /\ UNCHANGED <<fleet, vmc, pullSecret, namespace, ready>>

Update(o) ==
  /\ Idle /\ ~removing /\ info # None /\ cluster = "present"
  /\ \/ info' = SetUpdateValues(info, o) /\ Ended("Update")
     \/ /\ \/ info' = info
           \/ TRUE \in KeepOnError /\ info' = SetUpdateValues(info, o)
        /\ Ended("failed")
  /\ UNCHANGED <<objects, ready>>

AskRemoval == ~removing /\ removing' = TRUE /\ UNCHANGED <<info, outcome, call, objects, ready>>

-----------------------------------------------------------------------------
(* The steps of PostCheck and Remove, one request each.                    *)

\* Variant: only a state with Verrazzano has something to delete.
DeletesInstalledOnly(v) == v.install

\* DeleteVerrazzanoResources does nothing for any other state.
DeletesVerrazzano(v) == v.uninstall \/ v.install

StartPostCheck(c) ==
  /\ ~Running(c) /\ ~removing /\ info # None
  /\ call' = [call EXCEPT ![c] = [op |-> "PostCheck", v |-> info, pc |-> "ready"]]
  /\ UNCHANGED <<caller, objects, ready>>

\* Without stored state loadVariables fails, so Remove never gets to a step.
StartRemove(c) ==
  /\ ~Running(c) /\ removing /\ info # None /\ outcome # "Remove"
  /\ call' = [call EXCEPT ![c] =
       [op |-> "Remove", v |-> info,
        pc |-> IF DeletesVerrazzano(info) THEN "vmc" ELSE "cluster"]]
  /\ UNCHANGED <<caller, objects, ready>>

RemoveWithoutState ==
  /\ removing /\ info = None /\ outcome # "failed" /\ outcome' = "failed"
  /\ UNCHANGED <<info, removing, call, objects, ready>>

Goto(c, pc) == call' = [call EXCEPT ![c].pc = pc] /\ UNCHANGED caller

Return(c, ok) ==
  /\ call' = [call EXCEPT ![c] = None]
  /\ outcome' = IF ok THEN call[c].op ELSE "failed"
  /\ UNCHANGED <<info, removing>>

\* Any request may fail, and so may the unmodelled ones before it; a crash of
\* the plugin looks the same to the caller.
RequestFails(c) == Running(c) /\ Return(c, FALSE) /\ UNCHANGED <<objects, ready>>

\* IsCAPIClusterReady.
CheckReady(c) ==
  /\ At(c, "ready")
  /\ IF ready THEN Goto(c, "connect") ELSE Return(c, FALSE)
  /\ UNCHANGED <<objects, ready>>

\* Variant: the fleet is put before the secret it refers to.
ConnectFleetFirst(c) ==
  /\ At(c, "connect")
  /\ Goto(c, IF call[c].v.install THEN "fleet"
             ELSE IF DeletesVerrazzano(call[c].v) THEN "vmc" ELSE "cleanup")
  /\ UNCHANGED <<objects, ready>>

\* The managed cluster's kubeconfig, service account token and extra YAML.
Connect(c) ==
  /\ At(c, "connect")
  /\ Goto(c, IF call[c].v.install THEN "secret"
             ELSE IF DeletesVerrazzano(call[c].v) THEN "vmc" ELSE "cleanup")
  /\ UNCHANGED <<objects, ready>>

\* After a write the call goes on, or fails because the answer was lost.
Then(c, pc) == Goto(c, pc) \/ Return(c, FALSE)

CreateImagePullSecrets(c) ==
  /\ At(c, "secret") /\ namespace
  /\ pullSecret' = (pullSecret \/ call[c].v.create)
  /\ Then(c, "fleet")
  /\ UNCHANGED <<fleet, vmc, cluster, namespace, ready>>

\* The template refers to the pull secret when there is one to refer to, and a
\* merge never takes the reference away from an existing fleet.
UpdateVerrazzano(c) ==
  /\ At(c, "fleet") /\ namespace
  /\ fleet' = IF ~call[c].v.resource THEN fleet
              ELSE IF fleet = None THEN [refs |-> call[c].v.create, dying |-> FALSE]
              ELSE [fleet EXCEPT !.refs = @ \/ call[c].v.create]
  /\ Then(c, "cleanup")
  /\ UNCHANGED <<vmc, pullSecret, cluster, namespace, ready>>

deleteVMC(c) ==
  /\ At(c, "vmc") /\ vmc' = FALSE
  /\ Then(c, "uninstall")
  /\ UNCHANGED <<fleet, pullSecret, cluster, namespace, ready>>

\* Variant: an uninstall ends the PostCheck early, with no step left to end it.
AfterUninstallStops(op) == IF op = "PostCheck" THEN "done" ELSE "cluster"

AfterUninstall(op) == IF op = "PostCheck" THEN "cleanup" ELSE "cluster"

\* Variant: a delete that was accepted counts as done.
deleteVZWithoutWaiting(c) ==
  /\ At(c, "uninstall")
  /\ fleet' = IF fleet = None THEN None ELSE [fleet EXCEPT !.dying = TRUE]
  /\ Then(c, AfterUninstall(call[c].op))
  /\ UNCHANGED <<vmc, pullSecret, cluster, namespace, ready>>

\* Only a delete that finds no fleet lets the call go on.
deleteVZ(c) ==
  /\ At(c, "uninstall")
  /\ IF fleet = None
     THEN fleet' = fleet /\ Goto(c, AfterUninstall(call[c].op))
     ELSE fleet' = [fleet EXCEPT !.dying = TRUE] /\ Return(c, FALSE)
  /\ UNCHANGED <<vmc, pullSecret, cluster, namespace, ready>>

DeleteImagePullSecrets(c) ==
  /\ At(c, "cleanup")
  /\ pullSecret' = (pullSecret /\ ~call[c].v.delete)
  /\ Return(c, TRUE) \/ Return(c, FALSE)
  /\ UNCHANGED <<fleet, vmc, cluster, namespace, ready>>

\* Variant: an absent Cluster is an error like any other.
DeleteClusterNotFoundFails(c) ==
  /\ At(c, "cluster") /\ Return(c, FALSE)
  /\ cluster' = IF cluster = "absent" THEN cluster ELSE "deleting"
  /\ ready' = (ready /\ cluster = "absent")
  /\ UNCHANGED <<fleet, vmc, pullSecret, namespace>>

\* DeleteCluster: reports an error as long as there is a Cluster.
DeleteCluster(c) ==
  /\ At(c, "cluster")
  /\ IF cluster = "absent"
     THEN cluster' = cluster /\ ready' = ready /\ Goto(c, "namespace")
     ELSE cluster' = "deleting" /\ ready' = FALSE /\ Return(c, FALSE)
  /\ UNCHANGED <<fleet, vmc, pullSecret, namespace>>

\* With the namespace goes everything in it; the VMC lives in verrazzano-mc.
DeleteNamespace(c) ==
  /\ At(c, "namespace")
  /\ namespace' = FALSE /\ fleet' = None /\ pullSecret' = FALSE
  /\ Return(c, TRUE) \/ Return(c, FALSE)
  /\ UNCHANGED <<vmc, cluster, ready>>

-----------------------------------------------------------------------------
(* Controllers (external): the fleet operator registers the managed        *)
(* cluster while a fleet is installed, and finalizers finish deletions.    *)

RegisterVMC ==
  /\ fleet # None /\ ~fleet.dying /\ ~vmc /\ vmc' = TRUE
  /\ UNCHANGED <<caller, call, fleet, pullSecret, cluster, namespace, ready>>

FleetGone ==
  /\ fleet # None /\ fleet.dying /\ fleet' = None
  /\ UNCHANGED <<caller, call, vmc, pullSecret, cluster, namespace, ready>>

ClusterGone ==
  /\ cluster = "deleting" /\ cluster' = "absent"
  /\ UNCHANGED <<caller, call, fleet, vmc, pullSecret, namespace, ready>>

ClusterUp ==
  /\ cluster = "present" /\ ~ready /\ ready' = TRUE
  /\ UNCHANGED <<caller, call, objects>>

ClusterDown ==
  /\ ready /\ ready' = FALSE
  /\ UNCHANGED <<caller, call, objects>>

-----------------------------------------------------------------------------
Work(c) ==
  \/ CheckReady(c) \/ Connect(c) \/ CreateImagePullSecrets(c) \/ UpdateVerrazzano(c)
  \/ deleteVMC(c) \/ deleteVZ(c) \/ DeleteImagePullSecrets(c)
  \/ DeleteCluster(c) \/ DeleteNamespace(c)

Next ==
  \/ \E o \in Options : Create(o) \/ Update(o)
  \/ AskRemoval \/ RemoveWithoutState
  \/ \E c \in Calls : StartPostCheck(c) \/ StartRemove(c) \/ RequestFails(c) \/ Work(c)
  \/ RegisterVMC \/ FleetGone \/ ClusterGone \/ ClusterUp \/ ClusterDown

Spec == Init /\ [][Next]_vars

\* A call always ends.  The caller repeats a Remove, and a PostCheck, that has not succeeded; a
\* request sent again and again is answered at last (hence strong fairness: the
\* failures in between disable the step); finalizers run; and a cluster that goes
\* down comes up again, so that some of the repeated PostChecks find it ready.
FairSpec ==
  /\ Spec
  /\ \A c \in Calls :
       /\ WF_vars(Work(c) \/ RequestFails(c))
       /\ WF_vars(StartRemove(c)) /\ SF_vars(StartPostCheck(c) /\ ready)
       /\ SF_vars(CheckReady(c) /\ ready) /\ SF_vars(Connect(c))
       /\ SF_vars(deleteVMC(c) /\ call'[c] # None) /\ SF_vars(deleteVZ(c))
       /\ SF_vars(DeleteCluster(c)) /\ SF_vars(DeleteNamespace(c) /\ outcome' = "Remove")
  /\ WF_vars(FleetGone) /\ WF_vars(ClusterGone)
  /\ SF_vars(ClusterUp)

-----------------------------------------------------------------------------
(* Properties.                                                             *)

\* Types, and flags that never ask for two opposite things at once.
TypeOK ==
  /\ info \in Flags \cup {None} /\ removing \in BOOLEAN
  /\ outcome \in {"none", "failed", "Create", "Update", "PostCheck", "Remove"}
  /\ call \in [Calls -> Frames \cup {None}]
  /\ fleet \in Fleets \cup {None} /\ vmc \in BOOLEAN /\ pullSecret \in BOOLEAN
  /\ cluster \in {"absent", "present", "deleting"}
  /\ namespace \in BOOLEAN /\ ready \in BOOLEAN

\* The caller issues one PostCheck or Remove at a time.
SerialCalls == \A c, d \in Calls : c = d

\* SetUpdateValues: no stored state, and no call in progress, asks to install and
\* to uninstall at once, or to create and to delete the pull secret at once.
Coherent(v) == ~(v.install /\ v.uninstall) /\ ~(v.create /\ v.delete)

FlagsCoherent ==
  /\ info # None => Coherent(info)
  /\ \A c \in Calls : Running(c) => Coherent(call[c].v)

\* A PostCheck that was to uninstall Verrazzano succeeds only when the fleet and
\* its registration are both gone, although the operator may register the cluster
\* again between the two deletions.
UninstallIsComplete ==
  (Idle /\ outcome = "PostCheck" /\ info.uninstall) => fleet = None /\ ~vmc

\* A fleet never comes to refer to a pull secret that is not there.
SecretBeforeReference ==
  [][(fleet' # None /\ fleet'.refs /\ (fleet # None => ~fleet.refs)) => pullSecret]_vars

\* Remove begins to delete the Cluster only when the Verrazzano that the stored
\* state knows of has left it and is no longer registered.
VerrazzanoGoneBeforeCluster ==
  [][\A c \in Calls :
       (At(c, "cluster") /\ cluster = "present" /\ cluster' = "deleting"
          /\ DeletesVerrazzano(call[c].v)) => fleet = None /\ ~vmc]_vars

\* A repeated Remove of a cluster with stored state ends in success: no Cluster,
\* no namespace, no fleet.
RemoveCompletes ==
  (removing /\ info # None) ~> [](outcome = "Remove" /\ cluster = "absent" /\ ~namespace
                                    /\ fleet = None)

\* A stored request to uninstall is carried out by repeated PostChecks, unless an
\* Update replaces it.
UninstallCompletes ==
  (info # None /\ info.uninstall) ~> (fleet = None \/ ~info.uninstall)

\* "Uninstall Verrazzano if the new state has no Verrazzano" (variables.go): when
\* a PostCheck of a state without Verrazzano has succeeded, no fleet is installed.
NoVerrazzanoMeansNoFleet ==
  (Idle /\ outcome = "PostCheck" /\ ~info.install) => fleet = None
=============================================================================
