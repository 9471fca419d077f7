--------------------------- MODULE ClusterObjects ---------------------------
(***************************************************************************)
(* The Kubernetes objects that make up one CAPI cluster, how the driver's  *)
(* templates render them from its Variables, and the order in which the    *)
(* driver's two rollout procedures visit them.  Nothing here has state.    *)
(*                                                                         *)
(* A field is kept only if some call of the driver can change it: the      *)
(* Kubernetes version, the display name (which names the control plane     *)
(* object), the node pools and the OCI credential.  The networking fields  *)
(* are written once by Create and never touched by SetUpdateValues.        *)
(***************************************************************************)
EXTENDS Naturals, Sequences

CONSTANTS
  Pools,      \* names of node pools
  Versions,   \* Kubernetes versions
  Displays,   \* display names of the cluster
  Sizes,      \* replica counts of a node pool
  None        \* "no value": an unset version, an absent object, no stored state

ASSUME SizesAssumption == Sizes \subseteq Nat
ASSUME NoneAssumption == None \notin Versions

-----------------------------------------------------------------------------
(* Variables, reduced to what Create and Update may change.                *)

NodePool == [name : Pools, replicas : Sizes, version : Versions \cup {None}]

\* raw is RawNodePools, pools is NodePools: SetClusterSize changes only the
\* latter, and NodeCount recomputes it from the former.
Variables == [version : Versions, display : Displays, raw : Seq(NodePool),
              pools : Seq(NodePool), cred : Nat]

\* What a user passes: the driver options of Create and Update.
DriverOptions == [version : Versions, display : Displays, pools : Seq(NodePool)]

\* ParseNodePools: raw and parsed pools carry the same values.
ParseNodePools(raw) == raw

NewFromOptions(o, cred) ==
  [version |-> o.version, display |-> o.display,
   raw |-> o.pools, pools |-> ParseNodePools(o.pools), cred |-> cred]

\* Variant: an Update that changes no option skips the dynamic values, and the
\* credential with them.
SetUpdateValuesLazyAuth(v, o, cred) ==
  IF NewFromOptions(o, v.cred) = v THEN v ELSE NewFromOptions(o, cred)

SetUpdateValues(v, o, cred) ==
  [v EXCEPT !.version = o.version, !.display = o.display, !.raw = o.pools,
            !.pools = ParseNodePools(o.pools), !.cred = cred]

\* SetClusterSize: the first parsed pool gets the new size, the raw ones stay.
WithFirstPoolSize(v, n) ==
  IF v.pools = <<>> THEN v ELSE [v EXCEPT !.pools[1].replicas = n]

WantedPools(v) == {v.pools[i].name : i \in DOMAIN v.pools}

-----------------------------------------------------------------------------
(* Objects.  A key is a kind and a name; kinds with one object per cluster *)
(* are named None.                                                         *)

PrincipalSecret   == <<"Secret", None>>
Cluster           == <<"Cluster", None>>
ClusterIdentity   == <<"OCIClusterIdentity", None>>
OCIManagedCluster == <<"OCIManagedCluster", None>>
ControlPlane(d)   == <<"OCIManagedControlPlane", d>>
MachinePool(p)    == <<"MachinePool", p>>
OCIMachinePool(p) == <<"OCIManagedMachinePool", p>>

Keys == {PrincipalSecret, Cluster, ClusterIdentity, OCIManagedCluster}
          \cup {ControlPlane(d) : d \in Displays}
          \cup {MachinePool(p) : p \in Pools}
          \cup {OCIMachinePool(p) : p \in Pools}

WorkerKeys == {MachinePool(p) : p \in Pools} \cup {OCIMachinePool(p) : p \in Pools}

PoolNamed(v, p) == v.pools[CHOOSE i \in DOMAIN v.pools : v.pools[i].name = p]

\* {{if .Version}}{{.Version}}{{else}}{{$.KubernetesVersion}}{{end}}
PoolVersion(v, p) ==
  IF PoolNamed(v, p).version = None THEN v.version ELSE PoolNamed(v, p).version

\* The content the template of object k takes from v.  Every field of it is in
\* the template unconditionally, so merging it into an existing object leaves
\* exactly these values.
Render(k, v) ==
  CASE k[1] = "Secret"                 -> [cred |-> v.cred]
    [] k[1] = "Cluster"                -> [controlPlaneRef |-> v.display]
    [] k[1] = "OCIManagedControlPlane" -> [version |-> v.version]
    [] k[1] = "MachinePool"            -> [replicas |-> PoolNamed(v, k[2]).replicas,
                                           version |-> PoolVersion(v, k[2])]
    [] k[1] = "OCIManagedMachinePool"  -> [version |-> PoolVersion(v, k[2])]
    [] k[1] \in {"OCIClusterIdentity", "OCIManagedCluster"} -> [fixed |-> TRUE]

Contents == [cred : Nat] \cup [controlPlaneRef : Displays] \cup [version : Versions]
              \cup [replicas : Sizes, version : Versions] \cup [fixed : {TRUE}]

-----------------------------------------------------------------------------
(* A rollout is a list of steps: put one object (get it, then create or    *)
(* merge it), gate on the cluster being ready, prune the unwanted pools.   *)

Put(k) == [do |-> "put", key |-> k]
Gate   == [do |-> "gate", key |-> None]
Prune  == [do |-> "prune", key |-> None]

Steps == {Put(k) : k \in Keys} \cup {Gate, Prune}

PutAll(ks) == [i \in DOMAIN ks |-> Put(ks[i])]

CapiObjects == <<Cluster, ClusterIdentity, OCIManagedCluster>>

\* Variant: the OCIManagedMachinePools are forgotten.
WorkersWithoutInfra(v) == [i \in DOMAIN v.pools |-> MachinePool(v.pools[i].name)]

\* All MachinePools first, then all OCIManagedMachinePools.
Workers(v) == [i \in DOMAIN v.pools |-> MachinePool(v.pools[i].name)]
                \o [i \in DOMAIN v.pools |-> OCIMachinePool(v.pools[i].name)]

CreateOrUpdateAllObjects(v) ==
  <<Put(PrincipalSecret)>>
    \o PutAll(CapiObjects) \o PutAll(<<ControlPlane(v.display)>>) \o PutAll(Workers(v))

\* Variant: the workers are rolled out before the control plane.
UpdateClusterWorkersFirst(v) ==
  <<Put(PrincipalSecret)>> \o PutAll(Workers(v)) \o <<Gate>>
    \o PutAll(<<ControlPlane(v.display)>>) \o <<Gate>> \o PutAll(CapiObjects) \o <<Gate, Prune>>

\* Variant: the pools that are no longer wanted are not deleted.
UpdateClusterUnpruned(v) ==
  <<Put(PrincipalSecret)>>
    \o PutAll(<<ControlPlane(v.display)>>) \o <<Gate>>
    \o PutAll(Workers(v)) \o <<Gate>> \o PutAll(CapiObjects) \o <<Gate>>

\* Variant: the unwanted pools are deleted before the rest of the objects is put.
UpdateClusterPrunesEarly(v) ==
  <<Put(PrincipalSecret)>>
    \o PutAll(<<ControlPlane(v.display)>>) \o <<Gate>>
    \o PutAll(Workers(v)) \o <<Gate, Prune>>
    \o PutAll(CapiObjects) \o <<Gate>>

\* Variant: the Cluster is put before the control plane it refers to.
UpdateClusterClusterFirst(v) ==
  <<Put(PrincipalSecret)>>
    \o PutAll(CapiObjects) \o <<Gate>>
    \o PutAll(<<ControlPlane(v.display)>>) \o <<Gate>>
    \o PutAll(Workers(v)) \o <<Gate, Prune>>

UpdateCluster(v) ==
  <<Put(PrincipalSecret)>>
    \o PutAll(<<ControlPlane(v.display)>>) \o <<Gate>>
    \o PutAll(Workers(v)) \o <<Gate>>
    \o PutAll(CapiObjects) \o <<Gate, Prune>>

\* Every object the state v asks for.
WantedKeys(v) == {PrincipalSecret, Cluster, ClusterIdentity, OCIManagedCluster,
                  ControlPlane(v.display)}
                   \cup {MachinePool(p) : p \in WantedPools(v)}
                   \cup {OCIMachinePool(p) : p \in WantedPools(v)}
=============================================================================
