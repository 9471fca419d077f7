--------------------------- MODULE Rollout_proofs ---------------------------
(***************************************************************************)
(* Safety of module Rollout for any calls, options, versions and pools:    *)
(* type correctness, and for one call at a time that what a rollout has    *)
(* put stays as it was put.                                                *)
(***************************************************************************)
EXTENDS Rollout, SequenceTheorems, TLAPS

(***************************************************************************)
(* The objects of a cluster and the plans that visit them, for any names,  *)
(* versions and pool lists.                                                *)
(***************************************************************************)

\* The steps a plan for the state v may contain.
PlannedSteps(v) == {Put(k) : k \in WantedKeys(v)} \cup {Gate, Prune}

\* The entry the templates read for a wanted pool is one of the pool list.
LEMMA PoolNamedType ==
  ASSUME NEW v \in Variables, NEW p \in WantedPools(v)
  PROVE  PoolNamed(v, p) \in NodePool /\ p \in Pools
<1>1. v.pools \in Seq(NodePool)
  BY DEF Variables
<1>2. PICK i \in DOMAIN v.pools : v.pools[i].name = p
  BY DEF WantedPools
<1>3. \A j \in DOMAIN v.pools : v.pools[j] \in NodePool
  BY <1>1
<1> QED BY <1>2, <1>3 DEF PoolNamed, NodePool

\* What a state asks for is an object of the cluster, rendered to its type.
LEMMA RenderType ==
  ASSUME NEW v \in Variables, NEW k \in WantedKeys(v)
  PROVE  k \in Keys /\ Render(k, v) \in Contents
<1>0. v.version \in Versions /\ v.display \in Displays /\ v.cred \in Nat
  BY DEF Variables
<1>1. CASE k = PrincipalSecret
  <2>1. k \in Keys
    BY <1>1 DEF Keys
  <2>2. k[1] = "Secret"
    BY <1>1 DEF PrincipalSecret
  <2>3. Render(k, v) = [cred |-> v.cred]
    BY <2>2 DEF Render
  <2> QED BY <1>0, <2>1, <2>3 DEF Contents
<1>2. CASE k = Cluster
  <2>1. k \in Keys
    BY <1>2 DEF Keys
  <2>2. k[1] = "Cluster"
    BY <1>2 DEF Cluster
  <2>3. Render(k, v) = [controlPlaneRef |-> v.display]
    BY <2>2 DEF Render
  <2> QED BY <1>0, <2>1, <2>3 DEF Contents
<1>3. CASE k = ClusterIdentity \/ k = OCIManagedCluster
  <2>1. k \in Keys
    BY <1>3 DEF Keys
  <2>2. k[1] = "OCIClusterIdentity" \/ k[1] = "OCIManagedCluster"
    BY <1>3 DEF ClusterIdentity, OCIManagedCluster
  <2>3. Render(k, v) = [fixed |-> TRUE]
    BY <2>2 DEF Render
  <2> QED BY <2>1, <2>3 DEF Contents
<1>4. CASE k = ControlPlane(v.display)
  <2>1. k \in Keys
    BY <1>0, <1>4 DEF Keys
  <2>2. k[1] = "OCIManagedControlPlane"
    BY <1>4 DEF ControlPlane
  <2>3. Render(k, v) = [version |-> v.version]
    BY <2>2 DEF Render
  <2> QED BY <1>0, <2>1, <2>3 DEF Contents
<1>5. ASSUME NEW p \in WantedPools(v), k = MachinePool(p) \/ k = OCIMachinePool(p)
      PROVE  k \in Keys /\ Render(k, v) \in Contents
  <2>1. PoolNamed(v, p) \in NodePool /\ p \in Pools
    BY PoolNamedType
  <2>2. PoolVersion(v, p) \in Versions /\ PoolNamed(v, p).replicas \in Sizes
    BY <1>0, <2>1 DEF PoolVersion, NodePool
  <2>3. k \in Keys
    BY <1>5, <2>1 DEF Keys
  <2>4. CASE k = MachinePool(p)
    <3>1. k[1] = "MachinePool" /\ k[2] = p
      BY <2>4 DEF MachinePool
    <3>2. Render(k, v) = [replicas |-> PoolNamed(v, p).replicas, version |-> PoolVersion(v, p)]
      BY <3>1 DEF Render
    <3>3. Render(k, v) \in [replicas : Sizes, version : Versions]
      BY <2>2, <3>2
    <3> QED BY <2>3, <3>3 DEF Contents
  <2>5. CASE k = OCIMachinePool(p)
    <3>1. k[1] = "OCIManagedMachinePool" /\ k[2] = p
      BY <2>5 DEF OCIMachinePool
    <3>2. Render(k, v) = [version |-> PoolVersion(v, p)]
      BY <3>1 DEF Render
    <3> QED BY <2>2, <2>3, <3>2 DEF Contents
  <2> QED BY <1>5, <2>4, <2>5
<1> QED BY <1>1, <1>2, <1>3, <1>4, <1>5 DEF WantedKeys

\* Putting a list of keys takes as many steps, in the order of the list.
LEMMA PutAllType ==
  ASSUME NEW K, NEW S, NEW ks \in Seq(K), \A k \in K : Put(k) \in S
  PROVE  /\ PutAll(ks) \in Seq(S)
         /\ Len(PutAll(ks)) = Len(ks)
         /\ \A i \in 1 .. Len(ks) : PutAll(ks)[i] = Put(ks[i])
<1>1. DOMAIN ks = 1 .. Len(ks) /\ Len(ks) \in Nat /\ \A i \in 1 .. Len(ks) : ks[i] \in K
  OBVIOUS
<1>2. PutAll(ks) = [i \in 1 .. Len(ks) |-> Put(ks[i])]
  BY <1>1 DEF PutAll
<1>3. \A i \in 1 .. Len(ks) : Put(ks[i]) \in S
  BY <1>1
<1> HIDE DEF Put
<1>4. PutAll(ks) \in [1 .. Len(ks) -> S]
  BY <1>2, <1>3
<1>5. PutAll(ks) \in Seq(S) /\ Len(PutAll(ks)) = Len(ks)
  BY <1>1, <1>2, <1>4
<1> QED BY <1>2, <1>5

\* The worker objects are the wanted pools, twice.
LEMMA WorkersType ==
  ASSUME NEW v \in Variables
  PROVE  /\ Workers(v) \in Seq(WantedKeys(v))
         /\ Len(Workers(v)) = 2 * Len(v.pools) /\ Len(v.pools) \in Nat
         /\ \A i \in 1 .. Len(v.pools) :
              /\ Workers(v)[i] = MachinePool(v.pools[i].name)
              /\ Workers(v)[Len(v.pools) + i] = OCIMachinePool(v.pools[i].name)
<1> DEFINE n == Len(v.pools)
           mps == [i \in 1 .. n |-> MachinePool(v.pools[i].name)]
           omps == [i \in 1 .. n |-> OCIMachinePool(v.pools[i].name)]
<1>1. n \in Nat /\ DOMAIN v.pools = 1 .. n
  BY DEF Variables
<1>2. \A i \in 1 .. n : v.pools[i].name \in WantedPools(v)
  BY <1>1 DEF WantedPools
<1>3. mps \in Seq(WantedKeys(v)) /\ omps \in Seq(WantedKeys(v)) /\ Len(mps) = n /\ Len(omps) = n
  BY <1>1, <1>2 DEF WantedKeys
<1>4. Workers(v) = mps \o omps
  BY <1>1 DEF Workers
<1> HIDE DEF mps, omps, n
<1>5. /\ mps \o omps \in Seq(WantedKeys(v)) /\ Len(mps \o omps) = n + n
      /\ \A i \in 1 .. n : (mps \o omps)[i] = mps[i] /\ (mps \o omps)[n + i] = omps[i]
  <2>1. /\ mps \o omps \in Seq(WantedKeys(v)) /\ Len(mps \o omps) = n + n
        /\ \A i \in 1 .. n + n :
             (mps \o omps)[i] = IF i <= n THEN mps[i] ELSE omps[i - n]
    <3>1. /\ mps \o omps \in Seq(WantedKeys(v)) /\ Len(mps \o omps) = Len(mps) + Len(omps)
          /\ \A i \in 1 .. Len(mps) + Len(omps) :
               (mps \o omps)[i] = IF i <= Len(mps) THEN mps[i] ELSE omps[i - Len(mps)]
      BY <1>3, ConcatProperties, Zenon
    <3> QED BY <1>3, <3>1, Zenon
  <2>2. ASSUME NEW i \in 1 .. n
        PROVE  (mps \o omps)[i] = mps[i] /\ (mps \o omps)[n + i] = omps[i]
    <3>1. i \in 1 .. n + n /\ n + i \in 1 .. n + n /\ i <= n /\ ~(n + i <= n) /\ (n + i) - n = i
      BY <1>1
    <3> QED BY <2>1, <3>1
  <2> QED BY <2>1, <2>2
<1>6. \A i \in 1 .. n : mps[i] = MachinePool(v.pools[i].name)
                     /\ omps[i] = OCIMachinePool(v.pools[i].name)
  BY DEF mps, omps
<1>7. n + n = 2 * n
  BY <1>1
<1> QED BY <1>1, <1>4, <1>5, <1>6, <1>7 DEF n

\* Both plans are non-empty sequences of steps on objects the state asks for,
\* and begin with the principal secret.
LEMMA PlanType ==
  ASSUME NEW v \in Variables
  PROVE  /\ UpdateCluster(v) \in Seq(PlannedSteps(v)) /\ Len(UpdateCluster(v)) >= 1
         /\ CreateOrUpdateAllObjects(v) \in Seq(PlannedSteps(v))
         /\ Len(CreateOrUpdateAllObjects(v)) >= 1
<1> DEFINE S == PlannedSteps(v)
           a == <<Put(PrincipalSecret)>>
           b == PutAll(CapiObjects)
           d == PutAll(<<ControlPlane(v.display)>>)
           e == PutAll(Workers(v))
           f == <<Gate>>
           g == <<Gate, Prune>>
<1>1. a \in Seq(S) /\ f \in Seq(S) /\ g \in Seq(S) /\ Len(a) >= 1
  BY DEF PlannedSteps, WantedKeys
<1>2. b \in Seq(S) /\ d \in Seq(S)
  <2>1. CapiObjects \in Seq(WantedKeys(v)) /\ <<ControlPlane(v.display)>> \in Seq(WantedKeys(v))
    BY DEF CapiObjects, WantedKeys
  <2> QED BY <2>1, PutAllType DEF PlannedSteps
<1>3. e \in Seq(S)
  BY WorkersType, PutAllType DEF PlannedSteps
<1> HIDE DEF S, a, b, d, e, f, g
<1>4. \A s, t \in Seq(S) :
        Len(s) >= 1 => s \o t \in Seq(S) /\ Len(s \o t) >= 1
  <2>1. ASSUME NEW s \in Seq(S), NEW t \in Seq(S), Len(s) >= 1
        PROVE  s \o t \in Seq(S) /\ Len(s \o t) >= 1
    <3>1. s \o t \in Seq(S) /\ Len(s \o t) = Len(s) + Len(t)
      BY ConcatProperties
    <3>2. Len(s) \in Nat /\ Len(t) \in Nat
      BY LenProperties
    <3> QED BY <2>1, <3>1, <3>2
  <2> QED BY <2>1
<1>5. CreateOrUpdateAllObjects(v) = a \o b \o d \o e
  BY DEF CreateOrUpdateAllObjects, a, b, d, e
<1>6. UpdateCluster(v) = a \o d \o f \o e \o f \o b \o g
  BY DEF UpdateCluster, a, b, d, e, f, g
<1>7. a \o b \o d \o e \in Seq(S) /\ Len(a \o b \o d \o e) >= 1
  <2>1. a \o b \in Seq(S) /\ Len(a \o b) >= 1
    BY <1>1, <1>2, <1>4
  <2>2. a \o b \o d \in Seq(S) /\ Len(a \o b \o d) >= 1
    BY <1>2, <1>4, <2>1
  <2> QED BY <1>3, <1>4, <2>2
<1>8. a \o d \o f \o e \o f \o b \o g \in Seq(S) /\ Len(a \o d \o f \o e \o f \o b \o g) >= 1
  <2>1. a \o d \in Seq(S) /\ Len(a \o d) >= 1
    BY <1>1, <1>2, <1>4
  <2>2. a \o d \o f \in Seq(S) /\ Len(a \o d \o f) >= 1
    BY <1>1, <1>4, <2>1
  <2>3. a \o d \o f \o e \in Seq(S) /\ Len(a \o d \o f \o e) >= 1
    BY <1>3, <1>4, <2>2
  <2>4. a \o d \o f \o e \o f \in Seq(S) /\ Len(a \o d \o f \o e \o f) >= 1
    BY <1>1, <1>4, <2>3
  <2>5. a \o d \o f \o e \o f \o b \in Seq(S) /\ Len(a \o d \o f \o e \o f \o b) >= 1
    BY <1>2, <1>4, <2>4
  <2> QED BY <1>1, <1>4, <2>5
<1> QED BY <1>5, <1>6, <1>7, <1>8 DEF S

-----------------------------------------------------------------------------
(* The plans, step by step.                                                *)

\* What stands where in the concatenation of two sequences.
Cat(s, t) == s \o t

Joined(s, t, u) ==
  /\ Len(u) = Len(s) + Len(t)
  /\ \A i \in 1 .. Len(s) : u[i] = s[i]
  /\ \A i \in 1 .. Len(t) : u[Len(s) + i] = t[i]

LEMMA CatAt ==
  ASSUME NEW S, NEW s \in Seq(S), NEW t \in Seq(S)
  PROVE  Cat(s, t) \in Seq(S) /\ Joined(s, t, Cat(s, t))
<1>1. /\ Cat(s, t) \in Seq(S) /\ Len(Cat(s, t)) = Len(s) + Len(t)
      /\ \A i \in 1 .. Len(s) + Len(t) :
           Cat(s, t)[i] = IF i <= Len(s) THEN s[i] ELSE t[i - Len(s)]
  BY ConcatProperties, Zenon DEF Cat
<1>2. Len(s) \in Nat /\ Len(t) \in Nat
  BY LenProperties
<1>3. ASSUME NEW i \in 1 .. Len(s)
      PROVE  Cat(s, t)[i] = s[i]
  <2>1. i \in 1 .. Len(s) + Len(t) /\ i <= Len(s)
    BY <1>2
  <2> QED BY <1>1, <2>1
<1>4. ASSUME NEW i \in 1 .. Len(t)
      PROVE  Cat(s, t)[Len(s) + i] = t[i]
  <2>1. /\ Len(s) + i \in 1 .. Len(s) + Len(t) /\ ~(Len(s) + i <= Len(s))
        /\ (Len(s) + i) - Len(s) = i
    BY <1>2
  <2> QED BY <1>1, <2>1
<1> QED BY <1>1, <1>3, <1>4 DEF Joined

\* Putting the workers, the control plane and the remaining objects.
LEMMA PutLists ==
  ASSUME NEW v \in Variables
  PROVE  /\ PutAll(Workers(v)) \in Seq(PlannedSteps(v))
         /\ Len(PutAll(Workers(v))) = Len(Workers(v)) /\ Len(Workers(v)) \in Nat
         /\ \A i \in 1 .. Len(Workers(v)) : PutAll(Workers(v))[i] = Put(Workers(v)[i])
         /\ PutAll(CapiObjects) \in Seq(PlannedSteps(v)) /\ Len(PutAll(CapiObjects)) = 3
         /\ \A i \in 1 .. 3 : PutAll(CapiObjects)[i] = Put(CapiObjects[i])
         /\ PutAll(<<ControlPlane(v.display)>>) = <<Put(ControlPlane(v.display))>>
<1>1. CapiObjects \in Seq(WantedKeys(v)) /\ Len(CapiObjects) = 3
  BY DEF CapiObjects, WantedKeys
<1>2. <<ControlPlane(v.display)>> \in Seq(WantedKeys(v))
  BY DEF WantedKeys
<1>3. \A k \in WantedKeys(v) : Put(k) \in PlannedSteps(v)
  BY DEF PlannedSteps
<1>4. Workers(v) \in Seq(WantedKeys(v)) /\ Len(Workers(v)) \in Nat
  BY WorkersType
<1>5. /\ PutAll(Workers(v)) \in Seq(PlannedSteps(v)) /\ Len(PutAll(Workers(v))) = Len(Workers(v))
      /\ \A i \in 1 .. Len(Workers(v)) : PutAll(Workers(v))[i] = Put(Workers(v)[i])
  BY <1>3, <1>4, PutAllType
<1>6. /\ PutAll(CapiObjects) \in Seq(PlannedSteps(v)) /\ Len(PutAll(CapiObjects)) = 3
      /\ \A i \in 1 .. 3 : PutAll(CapiObjects)[i] = Put(CapiObjects[i])
  BY <1>1, <1>3, PutAllType
<1>7. PutAll(<<ControlPlane(v.display)>>) = <<Put(ControlPlane(v.display))>>
  BY DEF PutAll
<1> QED BY <1>4, <1>5, <1>6, <1>7

\* UpdateCluster: secret, control plane, gate, workers, gate, the rest, gate, prune.
LEMMA UpdateClusterSteps ==
  ASSUME NEW v \in Variables
  PROVE  LET plan == UpdateCluster(v) n == Len(Workers(v)) IN
         /\ Len(plan) = n + 9 /\ n \in Nat
         /\ plan[1] = Put(PrincipalSecret) /\ plan[2] = Put(ControlPlane(v.display))
         /\ plan[3] = Gate
         /\ \A i \in 1 .. n : plan[3 + i] = Put(Workers(v)[i])
         /\ plan[n + 4] = Gate
         /\ \A i \in 1 .. 3 : plan[n + 4 + i] = Put(CapiObjects[i])
         /\ plan[n + 8] = Gate /\ plan[n + 9] = Prune
<1> DEFINE S == PlannedSteps(v)
           n == Len(Workers(v))
           a == <<Put(PrincipalSecret)>>
           b == PutAll(CapiObjects)
           d == <<Put(ControlPlane(v.display))>>
           e == PutAll(Workers(v))
           f == <<Gate>>
           g == <<Gate, Prune>>
           p2 == Cat(a, d)
           p3 == Cat(p2, f)
           p4 == Cat(p3, e)
           p5 == Cat(p4, f)
           p6 == Cat(p5, b)
           p7 == Cat(p6, g)
<1>1. /\ a \in Seq(S) /\ d \in Seq(S) /\ f \in Seq(S) /\ g \in Seq(S)
      /\ Len(a) = 1 /\ a[1] = Put(PrincipalSecret)
      /\ Len(d) = 1 /\ d[1] = Put(ControlPlane(v.display))
      /\ Len(f) = 1 /\ f[1] = Gate
      /\ Len(g) = 2 /\ g[1] = Gate /\ g[2] = Prune
  BY DEF PlannedSteps, WantedKeys
<1>2. /\ e \in Seq(S) /\ Len(e) = n /\ n \in Nat /\ b \in Seq(S) /\ Len(b) = 3
      /\ \A i \in 1 .. n : e[i] = Put(Workers(v)[i])
      /\ \A i \in 1 .. 3 : b[i] = Put(CapiObjects[i])
  BY PutLists
<1>3. UpdateCluster(v) = p7
  BY PutLists DEF UpdateCluster, Cat
<1> HIDE DEF S, n, a, b, d, e, f, g
<1> HIDE DEF p2, p3, p4, p5, p6, p7
<1>4. /\ p2 \in Seq(S) /\ Len(p2) = 2
      /\ p2[1] = Put(PrincipalSecret) /\ p2[2] = Put(ControlPlane(v.display))
  <2>1. p2 \in Seq(S) /\ Joined(a, d, p2)
    BY <1>1, CatAt, Zenon DEF p2
  <2> QED BY <1>1, <2>1 DEF Joined
<1>5. /\ p3 \in Seq(S) /\ Len(p3) = 3 /\ p3[3] = Gate
      /\ \A i \in 1 .. 2 : p3[i] = p2[i]
  <2>1. p3 \in Seq(S) /\ Joined(p2, f, p3)
    BY <1>1, <1>4, CatAt, Zenon DEF p3
  <2> QED BY <1>1, <1>4, <2>1 DEF Joined
<1>6. /\ p4 \in Seq(S) /\ Len(p4) = n + 3
      /\ \A i \in 1 .. 3 : p4[i] = p3[i]
      /\ \A i \in 1 .. n : p4[3 + i] = e[i]
  <2>1. p4 \in Seq(S) /\ Joined(p3, e, p4)
    BY <1>2, <1>5, CatAt, Zenon DEF p4
  <2> QED BY <1>2, <1>5, <2>1 DEF Joined
<1>7. /\ p5 \in Seq(S) /\ Len(p5) = n + 4 /\ p5[n + 4] = Gate
      /\ \A i \in 1 .. n + 3 : p5[i] = p4[i]
  <2>1. p5 \in Seq(S) /\ Joined(p4, f, p5)
    BY <1>1, <1>2, <1>6, CatAt, Zenon DEF p5
  <2> QED BY <1>1, <1>2, <1>6, <2>1 DEF Joined
<1>8. /\ p6 \in Seq(S) /\ Len(p6) = n + 7
      /\ \A i \in 1 .. n + 4 : p6[i] = p5[i]
      /\ \A i \in 1 .. 3 : p6[n + 4 + i] = b[i]
  <2>1. p6 \in Seq(S) /\ Joined(p5, b, p6)
    BY <1>2, <1>7, CatAt, Zenon DEF p6
  <2> QED BY <1>2, <1>7, <2>1 DEF Joined
<1>9. /\ Len(p7) = n + 9 /\ p7[n + 8] = Gate /\ p7[n + 9] = Prune
      /\ \A i \in 1 .. n + 7 : p7[i] = p6[i]
  <2>1. p7 \in Seq(S) /\ Joined(p6, g, p7)
    BY <1>1, <1>2, <1>8, CatAt, Zenon DEF p7
  <2> QED BY <1>1, <1>2, <1>8, <2>1 DEF Joined
<1>10. p7[1] = Put(PrincipalSecret) /\ p7[2] = Put(ControlPlane(v.display)) /\ p7[3] = Gate
  <2>1. ASSUME NEW i \in 1 .. 3
        PROVE  p7[i] = p3[i]
    <3>1. i \in 1 .. n + 7 /\ i \in 1 .. n + 4 /\ i \in 1 .. n + 3
      BY <1>2
    <3> QED BY <1>6, <1>7, <1>8, <1>9, <3>1
  <2> QED BY <1>4, <1>5, <2>1
<1>11. ASSUME NEW i \in 1 .. n
       PROVE  p7[3 + i] = Put(Workers(v)[i])
  <2>1. 3 + i \in 1 .. n + 7 /\ 3 + i \in 1 .. n + 4 /\ 3 + i \in 1 .. n + 3
    BY <1>2
  <2> QED BY <1>2, <1>6, <1>7, <1>8, <1>9, <2>1
<1>12. p7[n + 4] = Gate
  <2>1. n + 4 \in 1 .. n + 7 /\ n + 4 \in 1 .. n + 4
    BY <1>2
  <2> QED BY <1>7, <1>8, <1>9, <2>1
<1>13. ASSUME NEW i \in 1 .. 3
       PROVE  p7[n + 4 + i] = Put(CapiObjects[i])
  <2>1. n + 4 + i \in 1 .. n + 7
    BY <1>2
  <2> QED BY <1>2, <1>8, <1>9, <2>1
<1> QED BY <1>2, <1>3, <1>9, <1>10, <1>11, <1>12, <1>13 DEF n

\* CreateOrUpdateAllObjects: secret, CAPI objects, control plane, workers.
LEMMA CreateAllSteps ==
  ASSUME NEW v \in Variables
  PROVE  LET plan == CreateOrUpdateAllObjects(v) n == Len(Workers(v)) IN
         /\ Len(plan) = n + 5 /\ n \in Nat
         /\ plan[1] = Put(PrincipalSecret)
         /\ \A i \in 1 .. 3 : plan[1 + i] = Put(CapiObjects[i])
         /\ plan[5] = Put(ControlPlane(v.display))
         /\ \A i \in 1 .. n : plan[5 + i] = Put(Workers(v)[i])
<1> DEFINE S == PlannedSteps(v)
           n == Len(Workers(v))
           a == <<Put(PrincipalSecret)>>
           b == PutAll(CapiObjects)
           d == <<Put(ControlPlane(v.display))>>
           e == PutAll(Workers(v))
           p2 == Cat(a, b)
           p3 == Cat(p2, d)
           p4 == Cat(p3, e)
<1>1. /\ a \in Seq(S) /\ d \in Seq(S)
      /\ Len(a) = 1 /\ a[1] = Put(PrincipalSecret)
      /\ Len(d) = 1 /\ d[1] = Put(ControlPlane(v.display))
  BY DEF PlannedSteps, WantedKeys
<1>2. /\ e \in Seq(S) /\ Len(e) = n /\ n \in Nat /\ b \in Seq(S) /\ Len(b) = 3
      /\ \A i \in 1 .. n : e[i] = Put(Workers(v)[i])
      /\ \A i \in 1 .. 3 : b[i] = Put(CapiObjects[i])
  BY PutLists
<1>3. CreateOrUpdateAllObjects(v) = p4
  BY PutLists DEF CreateOrUpdateAllObjects, Cat
<1> HIDE DEF S, n, a, b, d, e
<1> HIDE DEF p2, p3, p4
<1>4. /\ p2 \in Seq(S) /\ Len(p2) = 4 /\ p2[1] = Put(PrincipalSecret)
      /\ \A i \in 1 .. 3 : p2[1 + i] = b[i]
  <2>1. p2 \in Seq(S) /\ Joined(a, b, p2)
    BY <1>1, <1>2, CatAt, Zenon DEF p2
  <2> QED BY <1>1, <1>2, <2>1 DEF Joined
<1>5. /\ p3 \in Seq(S) /\ Len(p3) = 5 /\ p3[5] = Put(ControlPlane(v.display))
      /\ \A i \in 1 .. 4 : p3[i] = p2[i]
  <2>1. p3 \in Seq(S) /\ Joined(p2, d, p3)
    BY <1>1, <1>4, CatAt, Zenon DEF p3
  <2> QED BY <1>1, <1>4, <2>1 DEF Joined
<1>6. /\ Len(p4) = n + 5 /\ \A i \in 1 .. 5 : p4[i] = p3[i]
      /\ \A i \in 1 .. n : p4[5 + i] = e[i]
  <2>1. p4 \in Seq(S) /\ Joined(p3, e, p4)
    BY <1>2, <1>5, CatAt, Zenon DEF p4
  <2> QED BY <1>2, <1>5, <2>1 DEF Joined
<1>7. ASSUME NEW i \in 1 .. 3
      PROVE  p4[1 + i] = Put(CapiObjects[i])
  BY <1>2, <1>4, <1>5, <1>6
<1> QED BY <1>2, <1>3, <1>4, <1>5, <1>6, <1>7 DEF n

-----------------------------------------------------------------------------
(***************************************************************************)
(* TypeOK is not inductive: a merge writes into the object it read, so the *)
(* object has to be there.  It is, because the API server takes an Update  *)
(* only on top of a fresh read, and removing an object makes every read of *)
(* it stale.  And the version the control plane comes to run is taken from *)
(* an object of its kind, so every object has to be what its template      *)
(* rendered from some state.                                               *)
(***************************************************************************)
FreshReads ==
  \A c \in fresh : /\ Running(c) /\ Step(c).do = "put"
                   /\ call[c].seen = "found" => Exists(Step(c).key)

RenderedFrom(k, x, v) == k \in WantedKeys(v) /\ x = Render(k, v)

Rendered ==
  \A k \in Keys : store[k] # None => \E v \in Variables : RenderedFrom(k, store[k].content, v)

TypeInv == TypeOK /\ FreshReads /\ Rendered

\* Its parts.
FreshOK == fresh \in SUBSET Calls /\ FreshReads

StoreOK ==
  /\ store \in [Keys -> Object \cup {None}]
  /\ \A k \in Keys : store[k] # None => \E v \in Variables : RenderedFrom(k, store[k].content, v)

StatusOK == /\ infraReady \in BOOLEAN /\ cpReady \in BOOLEAN /\ runs \in Versions \cup {None}
            /\ phase \in [Pools -> Phases]

LEMMA TypeInvParts ==
  /\ TypeInv <=> CallerOK /\ CallOK /\ cloudCred \in Nat /\ FreshOK /\ StoreOK /\ StatusOK
  /\ TypeInv' <=>
       CallerOK' /\ CallOK' /\ cloudCred' \in Nat /\ FreshOK' /\ StoreOK' /\ StatusOK'
BY DEF TypeInv, TypeOK, FreshOK, FreshReads, Rendered, StoreOK, StatusOK

LEMMA NoneFacts ==
  /\ \A f \in Frames : f # None
  /\ \A o \in Object : o # None
  /\ \A v \in Variables : v # None
  /\ \A p \in Pools : p # None
BY NoneIsNoValue

\* Every step of a plan puts an object the call's state asks for, gates or prunes.
LEMMA PlanSteps ==
  ASSUME NEW op, NEW v \in Variables
  PROVE  /\ Plan(op, v) \in Seq(PlannedSteps(v))
         /\ Len(Plan(op, v)) \in Nat /\ Len(Plan(op, v)) >= 1
         /\ \A i \in 1 .. Len(Plan(op, v)) : Plan(op, v)[i] \in PlannedSteps(v)
<1>1. Plan(op, v) \in Seq(PlannedSteps(v)) /\ Len(Plan(op, v)) >= 1
  BY PlanType DEF Plan
<1> QED BY <1>1, LenProperties

LEMMA PutFacts ==
  ASSUME NEW v, NEW s \in PlannedSteps(v), s.do = "put"
  PROVE  s.key \in WantedKeys(v) /\ s = Put(s.key)
<1>1. s # Gate /\ s # Prune
  BY DEF Gate, Prune
<1>2. PICK k \in WantedKeys(v) : s = Put(k)
  BY <1>1 DEF PlannedSteps
<1>3. s.key = k
  BY <1>2 DEF Put
<1> QED BY <1>2, <1>3

\* A running call has a frame, and its current step is one of its plan.
LEMMA RunningStep ==
  ASSUME CallOK, NEW c \in Calls, Running(c)
  PROVE  /\ call[c] \in Frames /\ call[c].v \in Variables /\ call[c].op \in Ops
         /\ call[c].at \in 1 .. Len(Plan(call[c].op, call[c].v))
         /\ Step(c) \in PlannedSteps(call[c].v)
         /\ Step(c).do = "put" => /\ Step(c).key \in WantedKeys(call[c].v)
                                  /\ Step(c).key \in Keys
                                  /\ Render(Step(c).key, call[c].v) \in Contents
<1>1. call[c] \in Frames
  BY DEF CallOK, Running
<1>2. call[c].v \in Variables /\ call[c].op \in Ops
  BY <1>1 DEF Frames
<1>3. call[c].at \in 1 .. Len(Plan(call[c].op, call[c].v))
  BY DEF CallOK
<1>4. Step(c) \in PlannedSteps(call[c].v)
  BY <1>2, <1>3, PlanSteps DEF Step
<1>5. ASSUME Step(c).do = "put"
      PROVE  /\ Step(c).key \in WantedKeys(call[c].v) /\ Step(c).key \in Keys
             /\ Render(Step(c).key, call[c].v) \in Contents
  <2>1. Step(c).key \in WantedKeys(call[c].v)
    BY <1>4, <1>5, PutFacts
  <2> QED BY <1>2, <2>1, RenderType
<1> QED BY <1>1, <1>2, <1>3, <1>4, <1>5

-----------------------------------------------------------------------------
(* How a step changes the frame of one call.                               *)

\* A well-formed frame may replace another one, or start a call.
LEMMA FrameType ==
  ASSUME CallOK, NEW c \in Calls, NEW f \in Frames,
         f.at \in 1 .. Len(Plan(f.op, f.v)), call' = [call EXCEPT ![c] = f]
  PROVE  CallOK' /\ Running(c)' /\ call'[c] = f /\ \A d \in Calls \ {c} : call'[d] = call[d]
<1>1. call \in [Calls -> Frames \cup {None}]
  BY DEF CallOK
<1>2. call'[c] = f /\ \A d \in Calls \ {c} : call'[d] = call[d]
  BY <1>1
<1>3. call' \in [Calls -> Frames \cup {None}]
  BY <1>1
<1>4. Running(c)'
  BY <1>2, NoneFacts DEF Running
<1>5. \A d \in Calls : Running(d)' => call'[d].at \in 1 .. Len(Plan(call'[d].op, call'[d].v))
  BY <1>2 DEF CallOK, Running
<1> QED BY <1>2, <1>3, <1>4, <1>5 DEF CallOK, Plan

\* The record updates the actions make keep a frame well formed.
SameCall(f, g) == g \in Frames /\ g.op = f.op /\ g.v = f.v

LEMMA FrameUpdates ==
  ASSUME NEW f \in Frames
  PROVE  /\ \A s \in {"nothing", "found", "missing"} :
              LET g == [f EXCEPT !.seen = s] IN SameCall(f, g) /\ g.at = f.at /\ g.seen = s
         /\ LET g == [f EXCEPT !.at = @ + 1, !.seen = "nothing"] IN
            SameCall(f, g) /\ g.at = f.at + 1 /\ g.seen = "nothing"
         /\ \A D \in SUBSET Pools :
              LET g == [f EXCEPT !.seen = "found", !.doomed = D] IN
              SameCall(f, g) /\ g.at = f.at
         /\ \A p \in Pools :
              LET g == [f EXCEPT !.doomed = @ \ {p}, !.infra = p] IN
              SameCall(f, g) /\ g.at = f.at
         /\ LET g == [f EXCEPT !.infra = None] IN SameCall(f, g) /\ g.at = f.at
<1>1. \A s \in {"nothing", "found", "missing"} :
        LET g == [f EXCEPT !.seen = s] IN SameCall(f, g) /\ g.at = f.at /\ g.seen = s
  BY DEF Frames, SameCall
<1>2. LET g == [f EXCEPT !.at = @ + 1, !.seen = "nothing"] IN
      SameCall(f, g) /\ g.at = f.at + 1 /\ g.seen = "nothing"
  <2> DEFINE n == f.at + 1
  <2>1. n \in Nat
    BY DEF Frames
  <2> HIDE DEF n
  <2>2. LET g == [f EXCEPT !.at = n, !.seen = "nothing"] IN
        SameCall(f, g) /\ g.at = n /\ g.seen = "nothing"
    BY <2>1 DEF Frames, SameCall
  <2> QED BY <2>2 DEF n
<1>3. \A D \in SUBSET Pools :
        LET g == [f EXCEPT !.seen = "found", !.doomed = D] IN SameCall(f, g) /\ g.at = f.at
  BY DEF Frames, SameCall
<1>4. \A p \in Pools :
        LET g == [f EXCEPT !.doomed = @ \ {p}, !.infra = p] IN SameCall(f, g) /\ g.at = f.at
  BY DEF Frames, SameCall
<1>5. LET g == [f EXCEPT !.infra = None] IN SameCall(f, g) /\ g.at = f.at
  BY DEF Frames, SameCall
<1> QED BY <1>1, <1>2, <1>3, <1>4, <1>5

\* A return ends the call and leaves the others alone.
LEMMA ReturnType ==
  ASSUME CallOK, CallerOK, NEW c \in Calls, Running(c), NEW ok \in BOOLEAN, Return(c, ok)
  PROVE  /\ CallOK' /\ CallerOK' /\ call'[c] = None
         /\ \A d \in Calls \ {c} : call'[d] = call[d]
<1>1. call \in [Calls -> Frames \cup {None}] /\ call' = [call EXCEPT ![c] = None]
  BY DEF CallOK, Return
<1>2. call'[c] = None /\ \A d \in Calls \ {c} : call'[d] = call[d]
  BY <1>1
<1>3. call' \in [Calls -> Frames \cup {None}]
  BY <1>1
<1>4. \A d \in Calls : Running(d)' => call'[d].at \in 1 .. Len(Plan(call'[d].op, call'[d].v))
  BY <1>2 DEF CallOK, Running
<1>5. info' = call[c].v \/ info' = info
  BY DEF Return
<1>6. call[c].v \in Variables /\ call[c].op \in Ops
  BY RunningStep
<1>7. outcome' \in {"none", "failed"} \cup Ops /\ created' \in BOOLEAN
  BY <1>6 DEF Return, CallerOK
<1> QED BY <1>2, <1>3, <1>4, <1>5, <1>6, <1>7 DEF CallOK, CallerOK, Plan

\* After a step a call is at the next one, or has returned.
LEMMA AdvanceType ==
  ASSUME CallOK, CallerOK, NEW c \in Calls, Running(c), Advance(c)
  PROVE  /\ CallOK' /\ CallerOK'
         /\ \A d \in Calls \ {c} : call'[d] = call[d]
         /\ \/ call'[c] = None
            \/ /\ call'[c] = [call[c] EXCEPT !.at = @ + 1, !.seen = "nothing"]
               /\ call[c].at < Len(Plan(call[c].op, call[c].v))
<1> DEFINE f == [call[c] EXCEPT !.at = @ + 1, !.seen = "nothing"]
           n == Len(Plan(call[c].op, call[c].v))
<1>1. CASE call[c].at = n
  BY <1>1, ReturnType DEF Advance
<1>2. CASE call[c].at # n
  <2>1. call[c] \in Frames /\ call[c].at \in 1 .. n /\ n \in Nat
    BY RunningStep, PlanSteps
  <2>2. call[c].at < n /\ call[c].at + 1 \in 1 .. n
    BY <1>2, <2>1
  <2>3. f \in Frames /\ f.at = call[c].at + 1 /\ f.op = call[c].op /\ f.v = call[c].v
    BY <2>1, FrameUpdates DEF SameCall
  <2>4. call' = [call EXCEPT ![c] = f] /\ UNCHANGED caller
    BY <1>2, <2>1 DEF Advance, CallOK
  <2>5. CallOK' /\ call'[c] = f /\ \A d \in Calls \ {c} : call'[d] = call[d]
    BY <2>2, <2>3, <2>4, FrameType
  <2>6. CallerOK'
    BY <2>4 DEF caller, CallerOK
  <2> QED BY <2>2, <2>5, <2>6
<1> QED BY <1>1, <1>2

-----------------------------------------------------------------------------
(* What a step does to the parts.                                          *)

\* A step of call c, or one that leaves every call alone (c outside Calls), keeps
\* the other calls' reads fresh as long as it removes none of their objects.
LEMMA FreshType ==
  ASSUME FreshOK, NEW c, \A d \in Calls \ {c} : call'[d] = call[d],
         fresh' \subseteq fresh \ {c},
         \A d \in fresh' : store[Step(d).key] # None => store'[Step(d).key] # None
  PROVE  FreshOK'
<1>1. fresh' \in SUBSET Calls
  BY DEF FreshOK
<1> SUFFICES ASSUME NEW d \in fresh'
             PROVE  /\ Running(d)' /\ Step(d)'.do = "put"
                    /\ call'[d].seen = "found" => Exists(Step(d).key)'
  BY <1>1 DEF FreshOK, FreshReads
<1>2. d \in fresh /\ d \in Calls \ {c} /\ call'[d] = call[d]
  BY <1>1
<1>3. Step(d)' = Step(d)
  BY <1>2 DEF Step, Plan
<1>4. Running(d) /\ Step(d).do = "put" /\ (call[d].seen = "found" => Exists(Step(d).key))
  BY <1>2 DEF FreshOK, FreshReads
<1> QED BY <1>2, <1>3, <1>4 DEF Running, Exists

LEMMA ObjectType ==
  ASSUME NEW x \in Contents, NEW o \in Object
  PROVE  /\ [content |-> x, dying |-> FALSE] \in Object
         /\ [o EXCEPT !.content = x] \in Object /\ [o EXCEPT !.content = x].content = x
         /\ [o EXCEPT !.dying = TRUE] \in Object /\ [o EXCEPT !.dying = TRUE].content = o.content
BY DEF Object

\* Writing one object leaves the others alone and removes none.
LEMMA WriteType ==
  ASSUME StoreOK, NEW k \in Keys, NEW o \in Object, store' = [store EXCEPT ![k] = o],
         \E v \in Variables : RenderedFrom(k, o.content, v)
  PROVE  /\ StoreOK' /\ store'[k] = o
         /\ \A j \in Keys \ {k} : store'[j] = store[j]
         /\ \A j \in Keys : store[j] # None => store'[j] # None
BY NoneFacts DEF StoreOK

\* So does marking it for deletion, which keeps its content.
LEMMA DoomType ==
  ASSUME StoreOK, NEW k \in Keys, Doom(k)
  PROVE  /\ StoreOK'
         /\ \A j \in Keys : /\ store[j] # None <=> store'[j] # None
                            /\ store[j] # None => store'[j].content = store[j].content
<1>1. CASE store[k] = None
  <2>1. store' = [store EXCEPT ![k] = None]
    BY <1>1 DEF Doom, StoreOK
  <2> QED BY <1>1, <2>1 DEF StoreOK
<1>2. CASE store[k] # None
  <2> DEFINE o == [store[k] EXCEPT !.dying = TRUE]
  <2>1. store[k] \in Object
    BY <1>2 DEF StoreOK
  <2>2. o \in Object /\ o.content = store[k].content
    BY <2>1 DEF Object
  <2>3. store' = [store EXCEPT ![k] = o]
    BY <1>2 DEF Doom, StoreOK
  <2>2a. \E v \in Variables : RenderedFrom(k, o.content, v)
    BY <1>2, <2>2 DEF StoreOK
  <2> HIDE DEF o
  <2>4. /\ StoreOK' /\ store'[k] = o
        /\ \A j \in Keys \ {k} : store'[j] = store[j]
    BY <2>2, <2>2a, <2>3, WriteType
  <2>5. o # None
    BY <2>2, NoneFacts
  <2> QED BY <1>2, <2>2, <2>4, <2>5
<1> QED BY <1>1, <1>2

LEMMA WorkerKeysAreKeys ==
  ASSUME NEW p \in Pools
  PROVE  /\ MachinePool(p) \in Keys /\ OCIMachinePool(p) \in Keys
         /\ MachinePool(p) \in WorkerKeys /\ OCIMachinePool(p) \in WorkerKeys
BY DEF Keys, WorkerKeys

LEMMA FreshKeys ==
  ASSUME CallOK, FreshOK
  PROVE  \A d \in fresh : d \in Calls /\ Running(d) /\ Step(d).key \in Keys
BY RunningStep DEF FreshOK, FreshReads

LEMMA AfterWriteType ==
  ASSUME CallOK, CallerOK, NEW c \in Calls, Running(c), AfterWrite(c)
  PROVE  CallOK' /\ CallerOK' /\ \A d \in Calls \ {c} : call'[d] = call[d]
BY AdvanceType, ReturnType DEF AfterWrite

-----------------------------------------------------------------------------
(* TypeInv is preserved, action by action.                                 *)

LEMMA BeginType ==
  ASSUME TypeInv, NEW c \in Calls, NEW op, NEW v \in Variables, Begin(c, op, v)
  PROVE  TypeInv'
<1> DEFINE f == [op |-> op, v |-> v, at |-> 1, seen |-> "nothing", doomed |-> {}, infra |-> None]
<1>1. CallerOK /\ CallOK /\ cloudCred \in Nat /\ FreshOK /\ StoreOK /\ StatusOK
  BY TypeInvParts
<1>2. f \in Frames /\ f.op = op /\ f.v = v /\ f.at = 1
  BY DEF Begin, Frames
<1>3. f.at \in 1 .. Len(Plan(f.op, f.v))
  BY <1>2, PlanSteps
<1>4. ~Running(c) /\ call' = [call EXCEPT ![c] = f]
  BY DEF Begin
<1> HIDE DEF f
<1>5. CallOK' /\ \A d \in Calls \ {c} : call'[d] = call[d]
  BY <1>1, <1>2, <1>3, <1>4, FrameType
<1>6. UNCHANGED <<caller, cloudCred, fresh, store, status>>
  BY DEF Begin
<1>7. c \notin fresh
  BY <1>1, <1>4 DEF FreshOK, FreshReads
<1>8. FreshOK'
  BY <1>1, <1>5, <1>6, <1>7, FreshType
<1>9. CallerOK' /\ cloudCred' \in Nat /\ StoreOK' /\ StatusOK'
  BY <1>1, <1>6 DEF caller, status, CallerOK, StoreOK, StatusOK
<1> QED BY <1>5, <1>8, <1>9, TypeInvParts

LEMMA BeginOp ==
  ASSUME NEW c, NEW op, NEW v, Begin(c, op, v) PROVE op \in Ops
BY DEF Begin

\* A call starts with a state of the right type.
LEMMA StartBegins ==
  ASSUME TypeInv, NEW c \in Calls, Start(c)
  PROVE  \E op \in Ops, v \in Variables : Begin(c, op, v)
<1>1. CallerOK /\ cloudCred \in Nat
  BY TypeInvParts
<1>2. ASSUME NEW o \in Options
      PROVE  o \in DriverOptions /\ o.version \in Versions /\ o.display \in Displays
             /\ o.pools \in Seq(NodePool)
  <2>1. o \in DriverOptions
    BY <1>2, OptionsAssumption
  <2> QED BY <2>1 DEF DriverOptions
<1>3. ASSUME NEW o \in Options, StartCreate(c, o)
      PROVE  \E op \in Ops, v \in Variables : Begin(c, op, v)
  <2>1. NewFromOptions(o, cloudCred) \in Variables
    BY <1>1, <1>2 DEF NewFromOptions, ParseNodePools, Variables
  <2> QED BY <1>3, <2>1, BeginOp DEF StartCreate
<1>4. ASSUME NEW o \in Options, StartUpdate(c, o)
      PROVE  \E op \in Ops, v \in Variables : Begin(c, op, v)
  <2>1. info \in Variables
    BY <1>1, <1>4 DEF CallerOK, StartUpdate
  <2>2. SetUpdateValues(info, o, cloudCred) \in Variables
    BY <1>1, <1>2, <2>1 DEF SetUpdateValues, ParseNodePools, Variables
  <2> QED BY <1>4, <2>2, BeginOp DEF StartUpdate
<1>5. ASSUME NEW n \in Sizes, StartSetClusterSize(c, n)
      PROVE  \E op \in Ops, v \in Variables : Begin(c, op, v)
  <2>1. info \in Variables
    BY <1>1, <1>5 DEF CallerOK, StartSetClusterSize
  <2>2. WithFirstPoolSize(info, n) \in Variables
    <3>1. CASE info.pools = <<>>
      BY <2>1, <3>1 DEF WithFirstPoolSize
    <3>2. CASE info.pools # <<>>
      <4> DEFINE q == [info.pools[1] EXCEPT !.replicas = n]
                 ps == [info.pools EXCEPT ![1] = q]
      <4>1. info.pools \in Seq(NodePool) /\ Len(info.pools) \in Nat /\ 1 \in 1 .. Len(info.pools)
        BY <2>1, <3>2 DEF Variables
      <4>2. info.pools[1] \in NodePool
        BY <4>1
      <4>3. q \in NodePool
        BY <1>5, <4>2 DEF NodePool
      <4>4. WithFirstPoolSize(info, n) = [info EXCEPT !.pools = ps]
        BY <3>2 DEF WithFirstPoolSize
      <4> HIDE DEF q
      <4>5. ps \in Seq(NodePool)
        BY <4>1, <4>3
      <4> HIDE DEF ps
      <4> QED BY <2>1, <4>4, <4>5 DEF Variables
    <3> QED BY <3>1, <3>2
  <2> QED BY <1>5, <2>2, BeginOp DEF StartSetClusterSize
<1>6. ASSUME StartSetVersion(c)
      PROVE  \E op \in Ops, v \in Variables : Begin(c, op, v)
  <2>1. info \in Variables
    BY <1>1, <1>6 DEF CallerOK, StartSetVersion
  <2> QED BY <1>6, <2>1, BeginOp DEF StartSetVersion
<1> QED BY <1>3, <1>4, <1>5, <1>6 DEF Start

LEMMA StartType ==
  ASSUME TypeInv, NEW c \in Calls, Start(c)
  PROVE  TypeInv'
BY StartBegins, BeginType

\* Moves that only look at objects: the store and the status stay.
LEMMA QuietType ==
  ASSUME TypeInv, NEW c \in Calls, CallOK', CallerOK',
         \A d \in Calls \ {c} : call'[d] = call[d],
         fresh' \subseteq fresh \ {c}, UNCHANGED <<cloudCred, store, status>>
  PROVE  TypeInv'
<1>1. CallOK /\ FreshOK /\ cloudCred \in Nat /\ StoreOK /\ StatusOK
  BY TypeInvParts
<1>2. FreshOK'
  BY <1>1, FreshType
<1>3. cloudCred' \in Nat /\ StoreOK' /\ StatusOK'
  BY <1>1 DEF status, StoreOK, StatusOK
<1> QED BY <1>2, <1>3, TypeInvParts

\* A call that is not in a put step has no fresh read.
LEMMA NotFresh ==
  ASSUME FreshOK, NEW c \in Calls, Running(c) => Step(c).do # "put"
  PROVE  fresh \subseteq fresh \ {c}
BY DEF FreshOK, FreshReads

LEMMA GetType ==
  ASSUME TypeInv, NEW c \in Calls, Get(c)
  PROVE  TypeInv'
<1> DEFINE s == IF Exists(Step(c).key) THEN "found" ELSE "missing"
           f == [call[c] EXCEPT !.seen = s]
<1>1. CallerOK /\ CallOK /\ cloudCred \in Nat /\ FreshOK /\ StoreOK /\ StatusOK
  BY TypeInvParts
<1>2. Running(c) /\ Step(c).do = "put" /\ call' = [call EXCEPT ![c] = f]
  BY DEF Get, AtStep
<1>3. s \in {"nothing", "found", "missing"}
  OBVIOUS
<1>4. call[c] \in Frames /\ call[c].at \in 1 .. Len(Plan(call[c].op, call[c].v))
  BY <1>1, <1>2, RunningStep
<1> HIDE DEF s
<1>5. SameCall(call[c], f) /\ f.at = call[c].at /\ f.seen = s
  BY <1>3, <1>4, FrameUpdates
<1> HIDE DEF f
<1>6. CallOK' /\ Running(c)' /\ call'[c] = f /\ \A d \in Calls \ {c} : call'[d] = call[d]
  BY <1>1, <1>2, <1>4, <1>5, FrameType DEF SameCall
<1>7. Step(c)' = Step(c)
  BY <1>5, <1>6 DEF Step, Plan, SameCall
<1>8. fresh' = fresh \cup {c} /\ UNCHANGED <<caller, cloudCred, store, status>>
  BY DEF Get
<1>9. FreshOK'
  <2>1. fresh' \in SUBSET Calls
    BY <1>1, <1>8 DEF FreshOK
  <2>2. ASSUME NEW d \in fresh, d # c
        PROVE  /\ Running(d)' /\ Step(d)'.do = "put"
               /\ call'[d].seen = "found" => Exists(Step(d).key)'
    <3>1. call'[d] = call[d]
      BY <1>1, <1>6, <2>2 DEF FreshOK
    <3>2. Step(d)' = Step(d) /\ (Running(d) => Running(d)')
      BY <3>1 DEF Step, Plan, Running
    <3> QED BY <1>1, <1>8, <3>1, <3>2 DEF FreshOK, FreshReads, Exists
  <2>3. call'[c].seen = "found" => Exists(Step(c).key)'
    BY <1>5, <1>6, <1>7, <1>8 DEF s, Exists
  <2> QED BY <1>2, <1>6, <1>7, <1>8, <2>1, <2>2, <2>3 DEF FreshOK, FreshReads
<1>10. CallerOK' /\ cloudCred' \in Nat /\ StoreOK' /\ StatusOK'
  BY <1>1, <1>8 DEF caller, status, CallerOK, StoreOK, StatusOK
<1> QED BY <1>6, <1>9, <1>10, TypeInvParts

LEMMA MergeType ==
  ASSUME TypeInv, NEW c \in Calls, Merge(c)
  PROVE  TypeInv'
<1> DEFINE k == Step(c).key
           o == [store[k] EXCEPT !.content = Render(k, call[c].v)]
<1>1. CallerOK /\ CallOK /\ cloudCred \in Nat /\ FreshOK /\ StoreOK /\ StatusOK
  BY TypeInvParts
<1>2. /\ Running(c) /\ Step(c).do = "put" /\ call[c].seen = "found" /\ c \in fresh
      /\ store' = [store EXCEPT ![k] = o] /\ fresh' = StillFresh(k) \ {c}
      /\ AfterWrite(c) /\ UNCHANGED <<cloudCred, status>>
  BY DEF Merge, AtStep
<1>3. k \in Keys /\ Render(k, call[c].v) \in Contents
  BY <1>1, <1>2, RunningStep
<1>4. store[k] \in Object
  BY <1>1, <1>2, <1>3 DEF FreshOK, FreshReads, Exists, StoreOK
<1>5. o \in Object
  BY <1>3, <1>4, ObjectType
<1>5a. \E v \in Variables : RenderedFrom(k, o.content, v)
  BY <1>1, <1>2, <1>3, <1>4, ObjectType, RunningStep DEF RenderedFrom
<1> HIDE DEF k, o
<1>6. StoreOK' /\ \A j \in Keys : store[j] # None => store'[j] # None
  BY <1>1, <1>2, <1>3, <1>5, <1>5a, WriteType
<1>7. CallOK' /\ CallerOK' /\ \A d \in Calls \ {c} : call'[d] = call[d]
  BY <1>1, <1>2, AfterWriteType
<1>8. fresh' \subseteq fresh \ {c}
  BY <1>2 DEF StillFresh
<1>9. FreshOK'
  BY <1>1, <1>6, <1>7, <1>8, FreshKeys, FreshType
<1>10. cloudCred' \in Nat /\ StatusOK'
  BY <1>1, <1>2 DEF status, StatusOK
<1> QED BY <1>6, <1>7, <1>9, <1>10, TypeInvParts

LEMMA CreateObjectType ==
  ASSUME TypeInv, NEW c \in Calls, CreateObject(c)
  PROVE  TypeInv'
<1> DEFINE k == Step(c).key
           o == [content |-> Render(k, call[c].v), dying |-> FALSE]
<1>1. CallerOK /\ CallOK /\ cloudCred \in Nat /\ FreshOK /\ StoreOK /\ StatusOK
  BY TypeInvParts
<1>2. /\ Running(c) /\ Step(c).do = "put"
      /\ store' = [store EXCEPT ![k] = o] /\ fresh' = StillFresh(k) \ {c}
      /\ phase' = [p \in Pools |-> IF k = MachinePool(p) THEN "Pending" ELSE phase[p]]
      /\ AfterWrite(c) /\ UNCHANGED <<cloudCred, infraReady, cpReady, runs>>
  BY DEF CreateObject, AtStep
<1>3. k \in Keys /\ Render(k, call[c].v) \in Contents
  BY <1>1, <1>2, RunningStep
<1>4. o \in Object
  BY <1>3 DEF Object
<1>4a. \E v \in Variables : RenderedFrom(k, o.content, v)
  BY <1>1, <1>2, RunningStep DEF RenderedFrom
<1> HIDE DEF k, o
<1>5. StoreOK' /\ \A j \in Keys : store[j] # None => store'[j] # None
  BY <1>1, <1>2, <1>3, <1>4, <1>4a, WriteType
<1>6. CallOK' /\ CallerOK' /\ \A d \in Calls \ {c} : call'[d] = call[d]
  BY <1>1, <1>2, AfterWriteType
<1>7. fresh' \subseteq fresh \ {c}
  BY <1>2 DEF StillFresh
<1>8. FreshOK'
  BY <1>1, <1>5, <1>6, <1>7, FreshKeys, FreshType
<1>9. cloudCred' \in Nat /\ StatusOK'
  <2>1. phase' \in [Pools -> Phases]
    BY <1>1, <1>2 DEF StatusOK, Phases
  <2> QED BY <1>1, <1>2, <2>1 DEF StatusOK
<1> QED BY <1>5, <1>6, <1>8, <1>9, TypeInvParts

\* Ending a call that has written nothing in this step.
LEMMA EndType ==
  ASSUME TypeInv, NEW c \in Calls, Running(c), Advance(c) \/ Return(c, FALSE),
         fresh' \subseteq fresh \ {c}, UNCHANGED <<cloudCred, store, status>>
  PROVE  TypeInv'
<1>1. CallOK /\ CallerOK
  BY TypeInvParts
<1>2. CallOK' /\ CallerOK' /\ \A d \in Calls \ {c} : call'[d] = call[d]
  BY <1>1, AfterWriteType DEF AfterWrite
<1> QED BY <1>2, QuietType

\* Updating the frame of a call in a gate or a prune.
LEMMA FrameMoveType ==
  ASSUME TypeInv, NEW c \in Calls, Running(c), Step(c).do # "put",
         NEW f, SameCall(call[c], f), f.at = call[c].at, call' = [call EXCEPT ![c] = f],
         UNCHANGED caller
  PROVE  CallOK' /\ CallerOK' /\ \A d \in Calls \ {c} : call'[d] = call[d]
<1>1. CallOK /\ CallerOK
  BY TypeInvParts
<1>2. f \in Frames /\ f.at \in 1 .. Len(Plan(f.op, f.v))
  BY <1>1, RunningStep DEF SameCall
<1>3. CallOK' /\ \A d \in Calls \ {c} : call'[d] = call[d]
  BY <1>1, <1>2, FrameType
<1> QED BY <1>1, <1>3 DEF caller, CallerOK

LEMMA GateType ==
  ASSUME TypeInv, NEW c \in Calls, CheckCluster(c) \/ CheckPools(c) \/ NotReady(c)
  PROVE  TypeInv'
<1>1. /\ Running(c) /\ Step(c).do = "gate" /\ UNCHANGED <<cloudCred, fresh, store, status>>
  BY DEF CheckCluster, CheckPools, NotReady, AtStep
<1>2. fresh' \subseteq fresh \ {c}
  BY <1>1, NotFresh, TypeInvParts
<1>3. CASE Advance(c) \/ Return(c, FALSE)
  BY <1>1, <1>2, <1>3, EndType
<1>4. CASE call' = [call EXCEPT ![c].seen = "found"] /\ UNCHANGED caller
  <2> DEFINE f == [call[c] EXCEPT !.seen = "found"]
  <2>1. SameCall(call[c], f) /\ f.at = call[c].at
    BY <1>1, RunningStep, TypeInvParts, FrameUpdates
  <2>2. call' = [call EXCEPT ![c] = f]
    BY <1>4
  <2> HIDE DEF f
  <2>3. CallOK' /\ CallerOK' /\ \A d \in Calls \ {c} : call'[d] = call[d]
    BY <1>1, <1>4, <2>1, <2>2, FrameMoveType
  <2> QED BY <1>1, <1>2, <2>3, QuietType
<1> QED BY <1>3, <1>4 DEF CheckCluster, CheckPools, NotReady

LEMMA ListPoolsType ==
  ASSUME TypeInv, NEW c \in Calls, ListPools(c)
  PROVE  TypeInv'
<1> DEFINE D == ListedPools \ WantedPools(call[c].v)
           f == [call[c] EXCEPT !.seen = "found", !.doomed = D]
<1>1. /\ Running(c) /\ Step(c).do = "prune" /\ UNCHANGED <<caller, cloudCred, fresh, store, status>>
      /\ call' = [call EXCEPT ![c] = f]
  BY DEF ListPools, AtStep
<1>2. fresh' \subseteq fresh \ {c}
  BY <1>1, NotFresh, TypeInvParts
<1>3. D \in SUBSET Pools
  BY DEF ListedPools
<1> HIDE DEF D
<1>4. SameCall(call[c], f) /\ f.at = call[c].at
  BY <1>1, <1>3, RunningStep, TypeInvParts, FrameUpdates
<1> HIDE DEF f
<1>5. CallOK' /\ CallerOK' /\ \A d \in Calls \ {c} : call'[d] = call[d]
  BY <1>1, <1>4, FrameMoveType
<1> QED BY <1>1, <1>2, <1>5, QuietType

LEMMA DeletePoolType ==
  ASSUME TypeInv, NEW c \in Calls, NEW p \in Pools, DeletePool(c, p)
  PROVE  TypeInv'
<1> DEFINE f == [call[c] EXCEPT !.doomed = @ \ {p}, !.infra = p]
<1>1. CallerOK /\ CallOK /\ cloudCred \in Nat /\ FreshOK /\ StoreOK /\ StatusOK
  BY TypeInvParts
<1>2. /\ Running(c) /\ Step(c).do = "prune" /\ Doom(MachinePool(p))
      /\ fresh' = StillFresh(MachinePool(p)) /\ UNCHANGED <<cloudCred, infraReady, cpReady, runs>>
      /\ phase' = phase \/ phase' = [phase EXCEPT ![p] = "Deleting"]
      /\ (call' = [call EXCEPT ![c] = f] /\ UNCHANGED caller) \/ Return(c, FALSE)
  BY DEF DeletePool, AtStep
<1>3. SameCall(call[c], f) /\ f.at = call[c].at
  BY <1>1, <1>2, RunningStep, FrameUpdates
<1> HIDE DEF f
<1>4. CallOK' /\ CallerOK' /\ \A d \in Calls \ {c} : call'[d] = call[d]
  BY <1>1, <1>2, <1>3, FrameMoveType, ReturnType
<1>5. StoreOK' /\ \A j \in Keys : store[j] # None => store'[j] # None
  BY <1>1, <1>2, DoomType, WorkerKeysAreKeys
<1>6. fresh' \subseteq fresh \ {c}
  BY <1>1, <1>2, NotFresh DEF StillFresh
<1>7. FreshOK'
  BY <1>1, <1>4, <1>5, <1>6, FreshKeys, FreshType
<1>8. cloudCred' \in Nat /\ StatusOK'
  BY <1>1, <1>2 DEF StatusOK, Phases
<1> QED BY <1>4, <1>5, <1>7, <1>8, TypeInvParts

LEMMA DeleteInfraType ==
  ASSUME TypeInv, NEW c \in Calls, DeleteInfra(c)
  PROVE  TypeInv'
<1> DEFINE f == [call[c] EXCEPT !.infra = None]
           k == OCIMachinePool(call[c].infra)
<1>1. CallerOK /\ CallOK /\ cloudCred \in Nat /\ FreshOK /\ StoreOK /\ StatusOK
  BY TypeInvParts
<1>2. /\ Running(c) /\ Step(c).do = "prune" /\ call[c].infra # None /\ Doom(k)
      /\ fresh' = StillFresh(k) /\ UNCHANGED <<cloudCred, status>>
      /\ (call' = [call EXCEPT ![c] = f] /\ UNCHANGED caller) \/ Return(c, FALSE)
  BY DEF DeleteInfra, AtStep
<1>3. call[c] \in Frames
  BY <1>1, <1>2, RunningStep
<1>4. k \in Keys
  BY <1>2, <1>3, WorkerKeysAreKeys DEF Frames
<1>5. SameCall(call[c], f) /\ f.at = call[c].at
  BY <1>3, FrameUpdates
<1> HIDE DEF f, k
<1>6. CallOK' /\ CallerOK' /\ \A d \in Calls \ {c} : call'[d] = call[d]
  BY <1>1, <1>2, <1>5, FrameMoveType, ReturnType
<1>7. StoreOK' /\ \A j \in Keys : store[j] # None => store'[j] # None
  BY <1>1, <1>2, <1>4, DoomType
<1>8. fresh' \subseteq fresh \ {c}
  BY <1>1, <1>2, NotFresh DEF StillFresh
<1>9. FreshOK'
  BY <1>1, <1>6, <1>7, <1>8, FreshKeys, FreshType
<1>10. cloudCred' \in Nat /\ StatusOK'
  BY <1>1, <1>2 DEF status, StatusOK
<1> QED BY <1>6, <1>7, <1>9, <1>10, TypeInvParts

\* Everything one call can do.
LEMMA DriverType ==
  ASSUME TypeInv, NEW c \in Calls, Driver(c)
  PROVE  TypeInv'
<1>1. CallerOK /\ CallOK /\ cloudCred \in Nat /\ FreshOK /\ StoreOK /\ StatusOK
  BY TypeInvParts
<1>2. CASE Start(c)
  BY <1>2, StartType
<1>3. CASE Work(c)
  <2>1. CASE Get(c) BY <2>1, GetType
  <2>2. CASE Merge(c) BY <2>2, MergeType
  <2>3. CASE CreateObject(c) BY <2>3, CreateObjectType
  <2>4. CASE Conflict(c)
    BY <1>1, <2>4, EndType DEF Conflict, AtStep, FreshOK
  <2>5. CASE AlreadyExists(c)
    BY <2>5, EndType DEF AlreadyExists, AtStep
  <2>6. CASE CheckCluster(c) \/ CheckPools(c) \/ NotReady(c) BY <2>6, GateType
  <2>7. CASE ListPools(c) BY <2>7, ListPoolsType
  <2>8. CASE \E p \in Pools : DeletePool(c, p) BY <2>8, DeletePoolType
  <2>9. CASE DeleteInfra(c) BY <2>9, DeleteInfraType
  <2>10. CASE Pruned(c)
    <3>1. Running(c) /\ Step(c).do = "prune" /\ Advance(c) /\ UNCHANGED <<cloudCred, fresh, store, status>>
      BY <2>10 DEF Pruned, AtStep
    <3>2. fresh' \subseteq fresh \ {c}
      BY <1>1, <3>1, NotFresh
    <3> QED BY <3>1, <3>2, EndType
  <2> QED BY <1>3, <2>1, <2>2, <2>3, <2>4, <2>5, <2>6, <2>7, <2>8, <2>9, <2>10 DEF Work
<1>4. CASE Refuse(c)
  <2>1. UNCHANGED <<info, created, cloudCred, call, fresh, store, status>> /\ outcome' = "failed"
    BY <1>4 DEF Refuse, driver
  <2>2. CallerOK' /\ CallOK'
    BY <1>1, <2>1 DEF CallerOK, CallOK, Running, Plan
  <2>3. FreshOK'
    BY <1>1, <2>1 DEF FreshOK, FreshReads, Running, Step, Plan, Exists
  <2> QED BY <1>1, <2>1, <2>2, <2>3, TypeInvParts DEF status, StoreOK, StatusOK
<1>5. CASE RequestFails(c)
  BY <1>5, EndType DEF RequestFails
<1> QED BY <1>2, <1>3, <1>4, <1>5 DEF Driver

\* What leaves the calls and the caller alone keeps TypeInv if it removes no
\* object without making the reads of it stale.
LEMMA OutsideType ==
  ASSUME TypeInv, UNCHANGED <<caller, call>>, cloudCred' \in Nat, StoreOK', StatusOK',
         fresh' \subseteq fresh,
         \A d \in fresh' : store[Step(d).key] # None => store'[Step(d).key] # None
  PROVE  TypeInv'
<1>1. CallerOK /\ CallOK /\ FreshOK
  BY TypeInvParts
<1>2. CallerOK' /\ CallOK'
  BY <1>1 DEF caller, CallerOK, CallOK, Running, Plan
<1>3. FreshOK'
  BY <1>1 DEF FreshOK, FreshReads, Running, Step, Plan, Exists
<1> QED BY <1>2, <1>3, TypeInvParts

LEMMA ControllersType ==
  ASSUME TypeInv, Controllers \/ ClusterDisturbed \/ \E p \in Pools : PoolDown(p)
  PROVE  TypeInv'
<1>1. CallerOK /\ CallOK /\ cloudCred \in Nat /\ FreshOK /\ StoreOK /\ StatusOK
  BY TypeInvParts
<1>2. CASE InfrastructureUp
  BY <1>1, <1>2, OutsideType DEF InfrastructureUp, StillFresh, StoreOK, StatusOK
<1>3. CASE ClusterDisturbed
  BY <1>1, <1>3, OutsideType DEF ClusterDisturbed, StillFresh, StoreOK, StatusOK
<1>4. CASE ControlPlaneUp
  <2> DEFINE k == ControlPlane(store[Cluster].content.controlPlaneRef)
  <2>1. /\ Exists(k) /\ runs' = store[k].content.version /\ cpReady' = TRUE /\ fresh' \subseteq fresh
        /\ UNCHANGED <<caller, cloudCred, call, store, infraReady, phase>> /\ Exists(Cluster)
    BY <1>4 DEF ControlPlaneUp
  <2>2. runs' \in Versions
    <3>1. PICK v \in Variables : RenderedFrom(Cluster, store[Cluster].content, v)
      BY <1>1, <2>1 DEF StoreOK, Exists, Keys
    <3>2. k = ControlPlane(v.display)
      BY <3>1 DEF RenderedFrom, Render, Cluster
    <3>3. k \in Keys /\ k[1] = "OCIManagedControlPlane"
      BY <3>2 DEF Keys, ControlPlane, Variables
    <3> HIDE DEF k
    <3>4. PICK w \in Variables : RenderedFrom(k, store[k].content, w)
      BY <1>1, <2>1, <3>3 DEF StoreOK, Exists
    <3>5. store[k].content = [version |-> w.version]
      BY <3>3, <3>4 DEF RenderedFrom, Render
    <3> QED BY <2>1, <3>5 DEF Variables
  <2> QED BY <1>1, <2>1, <2>2, OutsideType DEF StoreOK, StatusOK
<1>5. ASSUME NEW p \in Pools, NEW from, NEW to \in Phases, SetPhase(p, from, to)
      PROVE  TypeInv'
  BY <1>1, <1>5, OutsideType DEF SetPhase, StillFresh, StoreOK, StatusOK
<1>6. ASSUME NEW p \in Pools, PoolUp(p) \/ PoolDown(p) \/ PoolDeleting(p)
      PROVE  TypeInv'
  BY <1>5, <1>6 DEF PoolUp, PoolDown, PoolDeleting, Phases
<1>7. ASSUME NEW p \in Pools, Finalize(p)
      PROVE  TypeInv'
  <2>1. PICK gone \in {{MachinePool(p), OCIMachinePool(p)}, {OCIMachinePool(p)}} :
          /\ store' = [k \in Keys |-> IF k \in gone THEN None ELSE store[k]]
          /\ phase' = IF MachinePool(p) \in gone THEN [phase EXCEPT ![p] = "Pending"] ELSE phase
          /\ fresh' = {d \in fresh : Step(d).key \notin gone}
          /\ UNCHANGED <<caller, cloudCred, call, infraReady, cpReady, runs>>
    BY <1>7 DEF Finalize
  <2>2. StoreOK'
    BY <1>1, <2>1 DEF StoreOK
  <2>3. StatusOK'
    BY <1>1, <2>1 DEF StatusOK, Phases
  <2>4. \A d \in fresh' : store'[Step(d).key] = store[Step(d).key]
    BY <1>1, <2>1, FreshKeys
  <2> QED BY <1>1, <2>1, <2>2, <2>3, <2>4, OutsideType
<1> QED BY <1>2, <1>3, <1>4, <1>6, <1>7 DEF Controllers

LEMMA InitType == ASSUME Init PROVE TypeInv
BY DEF Init, TypeInv, TypeOK, CallerOK, CallOK, FreshReads, Rendered, Phases, Running

LEMMA StepType ==
  ASSUME TypeInv, [Next]_vars
  PROVE  TypeInv'
<1>1. CallerOK /\ CallOK /\ cloudCred \in Nat /\ FreshOK /\ StoreOK /\ StatusOK
  BY TypeInvParts
<1>2. CASE UNCHANGED vars
  BY <1>1, <1>2, OutsideType DEF vars, caller, driver, status, StoreOK, StatusOK
<1>3. ASSUME NEW c \in Calls, Driver(c)
      PROVE  TypeInv'
  BY <1>3, DriverType
<1>4. CASE Crash
  <2>1. /\ call' = [c \in Calls |-> None] /\ fresh' = {} /\ outcome' = "failed"
        /\ UNCHANGED <<info, created, cloudCred, store, status>>
    BY <1>4 DEF Crash
  <2>2. CallOK' /\ CallerOK' /\ FreshOK'
    BY <1>1, <2>1 DEF CallOK, CallerOK, FreshOK, FreshReads, Running
  <2> QED BY <1>1, <2>1, <2>2, TypeInvParts DEF status, StoreOK, StatusOK
<1>5. CASE RotateCredential
  BY <1>1, <1>5, OutsideType DEF RotateCredential, driver, status, StoreOK, StatusOK
<1> QED BY <1>2, <1>3, <1>4, <1>5, ControllersType DEF Next, Trouble

\* Every variable keeps its type in every behaviour of the driver, the
\* controllers and the caller, however many calls overlap.
THEOREM Typing == Spec => []TypeOK
<1>1. Init => TypeInv
  BY InitType
<1>2. TypeInv /\ [Next]_vars => TypeInv'
  BY StepType
<1>3. TypeInv => TypeOK
  BY DEF TypeInv
<1> QED BY <1>1, <1>2, <1>3, PTL DEF Spec

-----------------------------------------------------------------------------
(***************************************************************************)
(* One call at a time: what a rollout has put stays as it was put.  The    *)
(* strengthening says that nothing else creates objects: what a call has   *)
(* found missing is still missing, so it never takes the "already exists"  *)
(* way out, which would leave another state's object in place.             *)
(***************************************************************************)
StillMissing ==
  \A c \in Calls :
    (Running(c) /\ Step(c).do = "put" /\ call[c].seen = "missing") => store[Step(c).key] = None

StayInv == TypeInv /\ StepsStayApplied /\ StillMissing

\* Object k keeps its content, or is a worker object that goes away.
Kept(k) ==
  \/ store[k] # None /\ store'[k] # None /\ store'[k].content = store[k].content
  \/ store'[k] = None /\ (store[k] = None \/ k \in WorkerKeys)

\* Object k is now as the state v renders it.
Written(k, v) == store'[k] # None /\ store'[k].content = Render(k, v)

\* The earlier steps of a plan, and their keys.
LEMMA EarlierSteps ==
  ASSUME CallOK, NEW c \in Calls, Running(c), NEW i \in 1 .. call[c].at
  PROVE  LET s == Plan(call[c].op, call[c].v)[i] IN s.do = "put" => s.key \in Keys
<1>1. call[c].v \in Variables /\ i \in 1 .. Len(Plan(call[c].op, call[c].v))
  BY RunningStep, PlanSteps
<1>2. Plan(call[c].op, call[c].v)[i] \in PlannedSteps(call[c].v)
  BY <1>1, PlanSteps
<1> QED BY <1>1, <1>2, PutFacts, RenderType

LEMMA StayStep ==
  ASSUME CallOK, StepsStayApplied, SerialCalls, NEW c \in Calls, Running(c),
         \A k \in Keys : Kept(k) \/ Written(k, call[c].v),
         \/ call'[c] = None
         \/ SameCall(call[c], call'[c]) /\ call'[c].at = call[c].at
         \/ /\ SameCall(call[c], call'[c]) /\ call'[c].at = call[c].at + 1
            /\ Step(c).do = "put" => Written(Step(c).key, call[c].v)
  PROVE  StepsStayApplied'
<1> SUFFICES ASSUME NEW d \in Calls, Running(d)', NEW i \in 1 .. (call'[d].at - 1),
                    Plan(call'[d].op, call'[d].v)[i].do = "put"
             PROVE  LET s == Plan(call'[d].op, call'[d].v)[i] IN
                    IF store'[s.key] # None
                    THEN store'[s.key].content = Render(s.key, call'[d].v) ELSE s.key \in WorkerKeys
  BY DEF StepsStayApplied, Plan, Exists
<1> DEFINE s == Plan(call[c].op, call[c].v)[i]
<1>1. d = c
  BY DEF SerialCalls
<1>2. call'[c] # None /\ call'[c].op = call[c].op /\ call'[c].v = call[c].v
  BY <1>1 DEF Running, SameCall
<1>3. call[c].at \in Nat /\ call'[c].at \in Nat
  BY <1>2, RunningStep DEF Frames, SameCall
<1>4. i \in 1 .. call[c].at /\ s.do = "put"
  BY <1>1, <1>2, <1>3
<1>5. s.key \in Keys
  BY <1>4, EarlierSteps
<1>6. CASE i = call[c].at
  <2>1. s = Step(c)
    BY <1>6 DEF Step
  <2>2. call'[c].at = call[c].at + 1
    BY <1>1, <1>2, <1>3, <1>6
  <2>3. Written(s.key, call[c].v)
    BY <1>2, <1>3, <1>4, <2>1, <2>2
  <2> QED BY <1>1, <1>2, <2>3 DEF Written
<1>7. CASE i # call[c].at
  <2>1. i \in 1 .. (call[c].at - 1)
    BY <1>3, <1>4, <1>7
  <2>2. IF store[s.key] # None
        THEN store[s.key].content = Render(s.key, call[c].v) ELSE s.key \in WorkerKeys
    BY <1>4, <2>1 DEF StepsStayApplied, Exists
  <2>3. Kept(s.key) \/ Written(s.key, call[c].v)
    BY <1>5
  <2> QED BY <1>1, <1>2, <2>2, <2>3 DEF Kept, Written
<1> QED BY <1>6, <1>7

\* Steps of anyone but the calls.
LEMMA StayOutside ==
  ASSUME StayInv, call' = call, \A k \in Keys : Kept(k)
  PROVE  StepsStayApplied' /\ StillMissing'
<1>1. CallOK
  BY TypeInvParts DEF StayInv
<1>2. ASSUME NEW c \in Calls, Running(c), NEW i \in 1 .. (call[c].at - 1),
             Plan(call[c].op, call[c].v)[i].do = "put"
      PROVE  LET s == Plan(call[c].op, call[c].v)[i] IN
             IF store'[s.key] # None
             THEN store'[s.key].content = Render(s.key, call[c].v) ELSE s.key \in WorkerKeys
  <2> DEFINE s == Plan(call[c].op, call[c].v)[i]
  <2>1. i \in 1 .. call[c].at
    BY <1>1, <1>2, RunningStep DEF Frames
  <2>2. s.key \in Keys
    BY <1>1, <1>2, <2>1, EarlierSteps
  <2>3. IF store[s.key] # None
        THEN store[s.key].content = Render(s.key, call[c].v) ELSE s.key \in WorkerKeys
    BY <1>2 DEF StayInv, StepsStayApplied, Exists
  <2> QED BY <2>2, <2>3 DEF Kept
<1>3. StepsStayApplied'
  BY <1>2 DEF StepsStayApplied, Running, Plan, Exists
<1>4. StillMissing'
  BY <1>1, RunningStep DEF StayInv, StillMissing, Running, Step, Plan, Kept
<1> QED BY <1>3, <1>4

\* The frame a call that goes on has.
LEMMA MoveOn ==
  ASSUME CallOK, CallerOK, NEW c \in Calls, Running(c), Advance(c) \/ Return(c, FALSE)
  PROVE  \/ call'[c] = None
         \/ /\ SameCall(call[c], call'[c]) /\ call'[c].at = call[c].at + 1
            /\ call'[c].seen = "nothing"
<1>1. CASE Return(c, FALSE)
  BY <1>1, ReturnType
<1>2. CASE Advance(c)
  <2> DEFINE g == [call[c] EXCEPT !.at = @ + 1, !.seen = "nothing"]
  <2>1. call'[c] = None \/ call'[c] = g
    BY <1>2, AdvanceType
  <2>2. SameCall(call[c], g) /\ g.at = call[c].at + 1 /\ g.seen = "nothing"
    BY RunningStep, FrameUpdates
  <2> QED BY <2>1, <2>2
<1> QED BY <1>1, <1>2

\* A call that goes on has looked at nothing yet.
LEMMA MissingAfter ==
  ASSUME SerialCalls, NEW c \in Calls,
         call'[c] = None \/ call'[c].seen # "missing" \/ Step(c)'.do # "put"
  PROVE  StillMissing'
<1> SUFFICES ASSUME NEW d \in Calls
             PROVE  (Running(d)' /\ Step(d)'.do = "put" /\ call'[d].seen = "missing")
                       => store'[Step(d)'.key] = None
  BY DEF StillMissing
<1>1. d = c
  BY DEF SerialCalls
<1> QED BY <1>1 DEF Running

LEMMA StayDriver ==
  ASSUME StayInv, SerialCalls, NEW c \in Calls, Work(c) \/ RequestFails(c)
  PROVE  StepsStayApplied' /\ StillMissing'
<1>1. CallOK /\ CallerOK /\ FreshOK /\ StoreOK /\ StepsStayApplied /\ StillMissing
  BY TypeInvParts DEF StayInv
<1>2. Running(c)
  BY DEF Work, RequestFails, Get, Merge, Conflict, CreateObject, AlreadyExists, CheckCluster,
         CheckPools, NotReady, ListPools, DeletePool, DeleteInfra, Pruned, AtStep
<1>3. call[c] \in Frames /\ (Step(c).do = "put" => Step(c).key \in Keys)
  BY <1>1, <1>2, RunningStep
<1>4. ASSUME store' = store, Step(c).do # "put", Advance(c) \/ Return(c, FALSE)
      PROVE  StepsStayApplied' /\ StillMissing'
  <2>1. \A k \in Keys : Kept(k)
    BY <1>4 DEF Kept
  <2>2. \/ call'[c] = None
        \/ /\ SameCall(call[c], call'[c]) /\ call'[c].at = call[c].at + 1
           /\ call'[c].seen = "nothing"
    BY <1>1, <1>2, <1>4, MoveOn
  <2>3. StepsStayApplied'
    BY <1>1, <1>2, <1>4, <2>1, <2>2, StayStep
  <2>4. StillMissing'
    BY <2>2, MissingAfter
  <2> QED BY <2>3, <2>4
<1>5. ASSUME store' = store, Return(c, FALSE)
      PROVE  StepsStayApplied' /\ StillMissing'
  <2>1. \A k \in Keys : Kept(k)
    BY <1>5 DEF Kept
  <2>2. call'[c] = None
    BY <1>1, <1>2, <1>5, ReturnType
  <2> QED BY <1>1, <1>2, <2>1, <2>2, StayStep, MissingAfter
\* A frame move of a step that puts nothing.
<1>6. ASSUME \A k \in Keys : Kept(k), Step(c).do # "put",
             NEW f, SameCall(call[c], f), f.at = call[c].at, call' = [call EXCEPT ![c] = f]
      PROVE  StepsStayApplied' /\ StillMissing'
  <2>1. call'[c] = f
    BY <1>1, <1>6 DEF CallOK
  <2>2. Step(c)'.do # "put"
    BY <1>6, <2>1 DEF Step, Plan, SameCall
  <2>3. StepsStayApplied'
    BY <1>1, <1>2, <1>6, <2>1, StayStep
  <2> QED BY <2>2, <2>3, MissingAfter
<1>7. CASE Get(c)
  <2> DEFINE x == IF Exists(Step(c).key) THEN "found" ELSE "missing"
             f == [call[c] EXCEPT !.seen = x]
  <2>1. Step(c).do = "put" /\ call' = [call EXCEPT ![c] = f] /\ store' = store
    BY <1>7 DEF Get, AtStep
  <2>2. x \in {"nothing", "found", "missing"}
    OBVIOUS
  <2>3. x = "missing" => store[Step(c).key] = None
    BY DEF Exists
  <2> HIDE DEF x
  <2>4. SameCall(call[c], f) /\ f.at = call[c].at /\ f.seen = x
    BY <1>3, <2>2, FrameUpdates
  <2> HIDE DEF f
  <2>5. call'[c] = f /\ Step(c)' = Step(c)
    BY <1>1, <2>1, <2>4 DEF CallOK, Step, Plan, SameCall
  <2>6. StepsStayApplied'
    BY <1>1, <1>2, <2>1, <2>4, <2>5, StayStep DEF Kept
  <2>7. StillMissing'
    BY <2>1, <2>3, <2>4, <2>5 DEF StillMissing, SerialCalls
  <2> QED BY <2>6, <2>7
<1>8. ASSUME Step(c).do = "put", AfterWrite(c), NEW o \in Object,
             o.content = Render(Step(c).key, call[c].v),
             store' = [store EXCEPT ![Step(c).key] = o]
      PROVE  StepsStayApplied' /\ StillMissing'
  <2>1. Written(Step(c).key, call[c].v) /\ \A k \in Keys : k # Step(c).key => store'[k] = store[k]
    BY <1>1, <1>3, <1>8, NoneFacts DEF StoreOK, Written
  <2>2. \A k \in Keys : Kept(k) \/ Written(k, call[c].v)
    BY <2>1 DEF Kept
  <2>3. \/ call'[c] = None
        \/ /\ SameCall(call[c], call'[c]) /\ call'[c].at = call[c].at + 1
           /\ call'[c].seen = "nothing"
    BY <1>1, <1>2, <1>8, MoveOn DEF AfterWrite
  <2>4. StepsStayApplied'
    BY <1>1, <1>2, <2>1, <2>2, <2>3, StayStep
  <2>5. StillMissing'
    BY <2>3, MissingAfter
  <2> QED BY <2>4, <2>5
<1>9. CASE Merge(c)
  <2>1. /\ Step(c).do = "put" /\ AfterWrite(c) /\ call[c].seen = "found" /\ c \in fresh
        /\ store' = [store EXCEPT ![Step(c).key] =
                        [store[Step(c).key] EXCEPT !.content = Render(Step(c).key, call[c].v)]]
    BY <1>9 DEF Merge, AtStep
  <2>2. store[Step(c).key] \in Object
    BY <1>1, <1>3, <2>1 DEF FreshOK, FreshReads, Exists, StoreOK
  <2>3. Render(Step(c).key, call[c].v) \in Contents
    BY <1>1, <1>2, <2>1, RunningStep
  <2> QED BY <1>8, <2>1, <2>2, <2>3, ObjectType
<1>10. CASE CreateObject(c)
  <2> DEFINE o == [content |-> Render(Step(c).key, call[c].v), dying |-> FALSE]
  <2>1. Step(c).do = "put" /\ AfterWrite(c) /\ store' = [store EXCEPT ![Step(c).key] = o]
    BY <1>10 DEF CreateObject, AtStep
  <2>2. Render(Step(c).key, call[c].v) \in Contents
    BY <1>1, <1>2, <2>1, RunningStep
  <2>3. o \in Object /\ o.content = Render(Step(c).key, call[c].v)
    BY <2>2 DEF Object
  <2> HIDE DEF o
  <2> QED BY <1>8, <2>1, <2>3
<1>11. CASE AlreadyExists(c)
  BY <1>1, <1>11 DEF AlreadyExists, AtStep, StillMissing, Exists
<1>12. CASE Conflict(c) \/ NotReady(c) \/ RequestFails(c)
  BY <1>5, <1>12 DEF Conflict, NotReady, RequestFails
<1>13. CASE CheckCluster(c) \/ CheckPools(c) \/ Pruned(c)
  <2>1. Step(c).do # "put" /\ store' = store
    BY <1>13 DEF CheckCluster, CheckPools, Pruned, AtStep
  <2>2. Advance(c) \/ call' = [call EXCEPT ![c] = [call[c] EXCEPT !.seen = "found"]]
    BY <1>13 DEF CheckCluster, CheckPools, Pruned
  <2> DEFINE f == [call[c] EXCEPT !.seen = "found"]
  <2>3. SameCall(call[c], f) /\ f.at = call[c].at
    BY <1>2, <1>3, <1>1, RunningStep, FrameUpdates
  <2> HIDE DEF f
  <2> QED BY <1>4, <1>6, <2>1, <2>2, <2>3 DEF Kept, f
<1>14. CASE ListPools(c)
  <2> DEFINE D == ListedPools \ WantedPools(call[c].v)
             f == [call[c] EXCEPT !.seen = "found", !.doomed = D]
  <2>1. Step(c).do # "put" /\ store' = store /\ call' = [call EXCEPT ![c] = f]
    BY <1>14 DEF ListPools, AtStep
  <2>2. D \in SUBSET Pools
    BY DEF ListedPools
  <2> HIDE DEF D
  <2>3. SameCall(call[c], f) /\ f.at = call[c].at
    BY <1>1, <1>2, <2>2, RunningStep, FrameUpdates
  <2> HIDE DEF f
  <2> QED BY <1>6, <2>1, <2>3 DEF Kept
<1>15. ASSUME NEW k \in Keys, Doom(k)
       PROVE  \A j \in Keys : Kept(j)
  BY <1>1, <1>15, DoomType DEF Kept
<1>16. ASSUME NEW p \in Pools, DeletePool(c, p)
       PROVE  StepsStayApplied' /\ StillMissing'
  <2> DEFINE f == [call[c] EXCEPT !.doomed = @ \ {p}, !.infra = p]
  <2>1. /\ Step(c).do # "put" /\ Doom(MachinePool(p))
        /\ call' = [call EXCEPT ![c] = f] \/ Return(c, FALSE)
    BY <1>16 DEF DeletePool, AtStep
  <2>2. SameCall(call[c], f) /\ f.at = call[c].at
    BY <1>1, <1>2, RunningStep, FrameUpdates
  <2> HIDE DEF f
  <2>3. \A j \in Keys : Kept(j)
    BY <1>15, <2>1, WorkerKeysAreKeys
  <2>4. CASE Return(c, FALSE)
    BY <1>1, <1>2, <2>3, <2>4, ReturnType, StayStep, MissingAfter
  <2> QED BY <1>6, <2>1, <2>2, <2>3, <2>4
<1>17. CASE DeleteInfra(c)
  <2> DEFINE f == [call[c] EXCEPT !.infra = None]
  <2>1. /\ Step(c).do # "put" /\ call[c].infra # None /\ Doom(OCIMachinePool(call[c].infra))
        /\ call' = [call EXCEPT ![c] = f] \/ Return(c, FALSE)
    BY <1>17 DEF DeleteInfra, AtStep
  <2>2. SameCall(call[c], f) /\ f.at = call[c].at /\ call[c].infra \in Pools \cup {None}
    BY <1>1, <1>2, RunningStep, FrameUpdates DEF Frames
  <2> HIDE DEF f
  <2>3. \A j \in Keys : Kept(j)
    BY <1>15, <2>1, <2>2, WorkerKeysAreKeys
  <2>4. CASE Return(c, FALSE)
    BY <1>1, <1>2, <2>3, <2>4, ReturnType, StayStep, MissingAfter
  <2> QED BY <1>6, <2>1, <2>2, <2>3, <2>4
<1> QED BY <1>7, <1>9, <1>10, <1>11, <1>12, <1>13, <1>14, <1>16, <1>17 DEF Work

LEMMA StayStart ==
  ASSUME StayInv, SerialCalls, NEW c \in Calls, Start(c)
  PROVE  StepsStayApplied' /\ StillMissing'
<1>1. call \in [Calls -> Frames \cup {None}]
  BY DEF StayInv, TypeInv, TypeOK, CallOK
<1>2. call'[c].at = 1 /\ call'[c].seen = "nothing"
  <2>1. ASSUME NEW op, NEW v, Begin(c, op, v)
        PROVE  call'[c].at = 1 /\ call'[c].seen = "nothing"
    BY <1>1, <2>1 DEF Begin
  <2> QED BY <2>1 DEF Start, StartCreate, StartUpdate, StartSetClusterSize, StartSetVersion
<1>3. StepsStayApplied'
  <2> SUFFICES ASSUME NEW d \in Calls, NEW i \in 1 .. (call'[d].at - 1)
               PROVE  FALSE
    BY DEF StepsStayApplied
  <2>1. d = c
    BY DEF SerialCalls
  <2> QED BY <1>2, <2>1
<1>4. StillMissing'
  BY <1>2, MissingAfter
<1> QED BY <1>3, <1>4

LEMMA StayNext ==
  ASSUME StayInv, SerialCalls, [Next]_vars
  PROVE  StepsStayApplied' /\ StillMissing'
<1>1. CASE UNCHANGED vars
  BY <1>1, StayOutside DEF vars, driver, Kept
<1>2. ASSUME NEW c \in Calls, Driver(c)
      PROVE  StepsStayApplied' /\ StillMissing'
  <2>1. CASE Refuse(c)
    BY <2>1, StayOutside DEF Refuse, driver, Kept
  <2> QED BY <1>2, <2>1, StayStart, StayDriver DEF Driver
<1>3. CASE RotateCredential
  BY <1>3, StayOutside DEF RotateCredential, driver, Kept
<1>4. CASE Crash
  <2>1. \A c \in Calls : ~Running(c)'
    BY <1>4 DEF Crash, Running
  <2> QED BY <2>1 DEF StepsStayApplied, StillMissing
<1>5. CASE InfrastructureUp \/ ControlPlaneUp \/ ClusterDisturbed
  BY <1>5, StayOutside DEF InfrastructureUp, ControlPlaneUp, ClusterDisturbed, Kept
<1>6. ASSUME NEW p \in Pools, PoolUp(p) \/ PoolDown(p) \/ PoolDeleting(p)
      PROVE  StepsStayApplied' /\ StillMissing'
  BY <1>6, StayOutside DEF PoolUp, PoolDown, PoolDeleting, SetPhase, Kept
<1>7. ASSUME NEW p \in Pools, Finalize(p)
      PROVE  StepsStayApplied' /\ StillMissing'
  <2>1. PICK gone \in {{MachinePool(p), OCIMachinePool(p)}, {OCIMachinePool(p)}} :
          call' = call /\ store' = [k \in Keys |-> IF k \in gone THEN None ELSE store[k]]
    BY <1>7 DEF Finalize
  <2>2. \A k \in Keys : Kept(k)
    BY <2>1, WorkerKeysAreKeys DEF Kept
  <2> QED BY <2>1, <2>2, StayOutside
<1> QED BY <1>1, <1>2, <1>3, <1>4, <1>5, <1>6, <1>7 DEF Next, Controllers, Trouble

\* With one call at a time, every object an unfinished rollout has put is as the
\* rollout rendered it, and only a worker object can have gone since.
THEOREM WhatIsPutStays == Spec => [](SerialCalls => StepsStayApplied)
<1> DEFINE I == TypeInv /\ (SerialCalls => StayInv)
<1>1. Init => I
  BY InitType DEF Init, StayInv, StepsStayApplied, StillMissing, Running
<1>2. I /\ [Next]_vars => I'
  <2> SUFFICES ASSUME I, [Next]_vars PROVE I'
    OBVIOUS
  <2>1. TypeInv'
    BY StepType
  <2>2. SerialCalls => StepsStayApplied' /\ StillMissing'
    BY StayNext
  <2> QED BY <2>1, <2>2 DEF StayInv, SerialCalls
<1>3. I => (SerialCalls => StepsStayApplied)
  BY DEF StayInv
<1> QED BY <1>1, <1>2, <1>3, PTL DEF Spec

-----------------------------------------------------------------------------
(***************************************************************************)
(* The credential.  Three facts carry the argument: who writes the secret, *)
(* where the state of a call comes from, and where the kept state comes    *)
(* from.  The invariant orders the four copies of the credential.          *)
(***************************************************************************)
SecretCred == store[PrincipalSecret].content.cred

FromUser == {"Create", "Update"}

CredInv ==
  /\ store[PrincipalSecret] # None => SecretCred <= cloudCred
  /\ info # None => info.cred <= cloudCred
  /\ \A c \in Calls : Running(c) =>
       /\ call[c].v.cred <= cloudCred
       /\ (call[c].op \in FromUser /\ store[PrincipalSecret] # None) => SecretCred <= call[c].v.cred

LEMMA SecretType ==
  ASSUME TypeInv, store[PrincipalSecret] # None
  PROVE  SecretCred \in Nat
<1>1. PrincipalSecret \in Keys
  BY DEF Keys
<1>2. PICK v \in Variables : RenderedFrom(PrincipalSecret, store[PrincipalSecret].content, v)
  BY <1>1 DEF TypeInv, Rendered
<1>3. PrincipalSecret[1] = "Secret"
  BY DEF PrincipalSecret
<1>4. store[PrincipalSecret].content = [cred |-> v.cred]
  BY <1>2, <1>3 DEF RenderedFrom, Render
<1> QED BY <1>4 DEF SecretCred, Variables

LEMMA SecretIsNoWorker ==
  ASSUME NEW p
  PROVE  MachinePool(p) # PrincipalSecret /\ OCIMachinePool(p) # PrincipalSecret
BY DEF MachinePool, OCIMachinePool, PrincipalSecret

\* Only a running call writes the secret, and it writes its own credential.
LEMMA SecretWrites ==
  ASSUME TypeInv, [Next]_vars
  PROVE  \/ store'[PrincipalSecret] = store[PrincipalSecret]
         \/ \E c \in Calls : /\ Running(c) /\ store'[PrincipalSecret] # None
                             /\ store'[PrincipalSecret].content.cred = call[c].v.cred
<1> DEFINE Same == store'[PrincipalSecret] = store[PrincipalSecret]
           By(c) == /\ Running(c) /\ store'[PrincipalSecret] # None
                    /\ store'[PrincipalSecret].content.cred = call[c].v.cred
<1>1. CallOK /\ FreshOK /\ StoreOK /\ PrincipalSecret \in Keys
  BY TypeInvParts DEF Keys
<1>2. CASE store' = store
  BY <1>2
<1>3. ASSUME NEW k, k # PrincipalSecret, Doom(k)
      PROVE  Same
  BY <1>1, <1>3 DEF Doom, StoreOK
<1>4. ASSUME NEW c \in Calls, NEW o \in Object, Running(c), Step(c).do = "put",
             o.content = Render(Step(c).key, call[c].v), store' = [store EXCEPT ![Step(c).key] = o]
      PROVE  Same \/ By(c)
  <2>1. CASE Step(c).key # PrincipalSecret
    BY <1>1, <1>4, <2>1 DEF StoreOK
  <2>2. CASE Step(c).key = PrincipalSecret
    <3>1. store'[PrincipalSecret] = o
      BY <1>1, <1>4, <2>2 DEF StoreOK
    <3>2. PrincipalSecret[1] = "Secret"
      BY DEF PrincipalSecret
    <3>3. o.content = [cred |-> call[c].v.cred]
      BY <1>4, <2>2, <3>2 DEF Render
    <3> QED BY <1>4, <3>1, <3>3, NoneFacts
  <2> QED BY <2>1, <2>2
<1>5. ASSUME NEW c \in Calls, Merge(c) \/ CreateObject(c)
      PROVE  Same \/ By(c)
  <2>1. Running(c) /\ Step(c).do = "put"
    BY <1>5 DEF Merge, CreateObject, AtStep
  <2>2. Step(c).key \in Keys /\ Render(Step(c).key, call[c].v) \in Contents
    BY <1>1, <2>1, RunningStep
  <2>3. CASE Merge(c)
    <3>1. /\ c \in fresh /\ call[c].seen = "found"
          /\ store' = [store EXCEPT ![Step(c).key] =
                          [store[Step(c).key] EXCEPT !.content = Render(Step(c).key, call[c].v)]]
      BY <2>3 DEF Merge, AtStep
    <3>2. store[Step(c).key] \in Object
      BY <1>1, <2>2, <3>1 DEF FreshOK, FreshReads, Exists, StoreOK
    <3> QED BY <1>4, <2>1, <2>2, <3>1, <3>2, ObjectType
  <2>4. CASE CreateObject(c)
    <3> DEFINE o == [content |-> Render(Step(c).key, call[c].v), dying |-> FALSE]
    <3>1. store' = [store EXCEPT ![Step(c).key] = o]
      BY <2>4 DEF CreateObject
    <3>2. o \in Object /\ o.content = Render(Step(c).key, call[c].v)
      BY <2>2 DEF Object
    <3> HIDE DEF o
    <3> QED BY <1>4, <2>1, <3>1, <3>2
  <2> QED BY <1>5, <2>3, <2>4
<1>6. ASSUME NEW p \in Pools, Finalize(p)
      PROVE  Same
  BY <1>1, <1>6, SecretIsNoWorker DEF Finalize
<1>7. ASSUME NEW c \in Calls, Driver(c)
      PROVE  Same \/ \E d \in Calls : By(d)
  <2>1. CASE \/ Start(c) \/ Refuse(c) \/ RequestFails(c) \/ Get(c) \/ Conflict(c) \/ AlreadyExists(c)
             \/ CheckCluster(c) \/ CheckPools(c) \/ NotReady(c) \/ ListPools(c) \/ Pruned(c)
    BY <1>2, <2>1 DEF Start, StartCreate, StartUpdate, StartSetClusterSize, StartSetVersion, Begin,
       Refuse, RequestFails, Get, Conflict, AlreadyExists, CheckCluster, CheckPools, NotReady,
       ListPools, Pruned
  <2>2. CASE (\E p \in Pools : DeletePool(c, p)) \/ DeleteInfra(c)
    BY <1>3, <2>2, SecretIsNoWorker DEF DeletePool, DeleteInfra
  <2> QED BY <1>5, <1>7, <2>1, <2>2 DEF Driver, Work
<1>8. ASSUME NEW p \in Pools, PoolUp(p) \/ PoolDeleting(p) \/ PoolDown(p)
      PROVE  Same
  BY <1>8 DEF PoolUp, PoolDeleting, PoolDown, SetPhase
<1>9. CASE InfrastructureUp \/ ControlPlaneUp \/ ClusterDisturbed \/ Crash \/ RotateCredential
  BY <1>2, <1>9 DEF InfrastructureUp, ControlPlaneUp, ClusterDisturbed, Crash, RotateCredential
<1>10. CASE UNCHANGED vars
  BY <1>2, <1>10 DEF vars
<1> QED BY <1>6, <1>7, <1>8, <1>9, <1>10 DEF Next, Controllers, Trouble

\* A call goes on with its state, or starts: with the user's credential when it
\* takes options, with the kept state's otherwise.
SameState(c) == Running(c) /\ call'[c].op = call[c].op /\ call'[c].v = call[c].v

Started(c) ==
  \/ call'[c].v.cred = cloudCred
  \/ call'[c].op \notin FromUser /\ info # None /\ call'[c].v.cred = info.cred

LEMMA CallMoves ==
  ASSUME TypeInv, [Next]_vars
  PROVE  \A c \in Calls : Running(c)' => SameState(c) \/ Started(c)
<1>1. CallerOK /\ CallOK /\ cloudCred \in Nat
  BY TypeInvParts
<1> DEFINE Moves == \A c \in Calls : Running(c)' => SameState(c) \/ Started(c)
<1>2. ASSUME call' = call \/ \A c \in Calls : call'[c] = None
      PROVE  Moves
  BY <1>2 DEF Running, SameState
<1>3. ASSUME NEW c \in Calls, \A d \in Calls \ {c} : call'[d] = call[d],
             call'[c] # None => SameState(c) \/ Started(c)
      PROVE  Moves
  BY <1>3 DEF Running, SameState
<1>4. ASSUME NEW c \in Calls, Running(c), Advance(c) \/ Return(c, FALSE)
      PROVE  Moves
  <2>1. call'[c] = None \/ SameCall(call[c], call'[c])
    BY <1>1, <1>4, MoveOn
  <2>2. \A d \in Calls \ {c} : call'[d] = call[d]
    BY <1>1, <1>4, AfterWriteType DEF AfterWrite
  <2> QED BY <1>3, <1>4, <2>1, <2>2 DEF SameCall, SameState
<1>5. ASSUME NEW c \in Calls, Running(c), NEW f, SameCall(call[c], f),
             call' = [call EXCEPT ![c] = f]
      PROVE  Moves
  <2>1. call'[c] = f /\ \A d \in Calls \ {c} : call'[d] = call[d]
    BY <1>1, <1>5 DEF CallOK
  <2> QED BY <1>3, <1>5, <2>1 DEF SameCall, SameState
<1>6. ASSUME NEW c \in Calls, NEW op, NEW v, Begin(c, op, v),
             v.cred = cloudCred \/ (op \notin FromUser /\ info # None /\ v.cred = info.cred)
      PROVE  Moves
  <2>1. /\ call'[c].op = op /\ call'[c].v = v
        /\ \A d \in Calls \ {c} : call'[d] = call[d]
    BY <1>1, <1>6 DEF Begin, CallOK
  <2> QED BY <1>3, <1>6, <2>1 DEF Started
<1>7. ASSUME NEW c \in Calls, Start(c)
      PROVE  Moves
  <2>1. ASSUME NEW o \in Options, StartCreate(c, o) PROVE Moves
    <3>1. NewFromOptions(o, cloudCred).cred = cloudCred
      BY DEF NewFromOptions
    <3> QED BY <1>6, <2>1, <3>1 DEF StartCreate
  <2>2. ASSUME NEW o \in Options, StartUpdate(c, o) PROVE Moves
    <3>1. info \in Variables
      BY <1>1, <2>2 DEF StartUpdate, CallerOK
    <3>2. SetUpdateValues(info, o, cloudCred).cred = cloudCred
      BY <3>1 DEF SetUpdateValues, Variables
    <3> QED BY <1>6, <2>2, <3>2 DEF StartUpdate
  <2>3. ASSUME NEW n \in Sizes, StartSetClusterSize(c, n) PROVE Moves
    <3>1. info \in Variables /\ info # None
      BY <1>1, <2>3 DEF StartSetClusterSize, CallerOK
    <3>2. WithFirstPoolSize(info, n).cred = info.cred
      BY <3>1 DEF WithFirstPoolSize, Variables
    <3> QED BY <1>6, <2>3, <3>1, <3>2 DEF StartSetClusterSize, FromUser
  <2>4. CASE StartSetVersion(c)
    BY <1>6, <2>4 DEF StartSetVersion, FromUser
  <2> QED BY <1>7, <2>1, <2>2, <2>3, <2>4 DEF Start
<1>8. ASSUME NEW c \in Calls, Work(c) \/ RequestFails(c)
      PROVE  Moves
  <2>1. Running(c)
    BY <1>8 DEF Work, RequestFails, Get, Merge, Conflict, CreateObject, AlreadyExists, CheckCluster,
           CheckPools, NotReady, ListPools, DeletePool, DeleteInfra, Pruned, AtStep
  <2>2. call[c] \in Frames
    BY <1>1, <2>1, RunningStep
  <2>3. CASE Get(c)
    <3> DEFINE x == IF Exists(Step(c).key) THEN "found" ELSE "missing"
    <3>1. x \in {"nothing", "found", "missing"} /\ call' = [call EXCEPT ![c] = [call[c] EXCEPT !.seen = x]]
      BY <2>3 DEF Get
    <3> HIDE DEF x
    <3>2. SameCall(call[c], [call[c] EXCEPT !.seen = x])
      BY <2>2, <3>1, FrameUpdates
    <3> QED BY <1>5, <2>1, <3>1, <3>2
  <2>4. CASE CheckCluster(c)
    <3>1. Advance(c) \/ call' = [call EXCEPT ![c] = [call[c] EXCEPT !.seen = "found"]]
      BY <2>4 DEF CheckCluster
    <3>2. SameCall(call[c], [call[c] EXCEPT !.seen = "found"])
      BY <2>2, FrameUpdates
    <3> QED BY <1>4, <1>5, <2>1, <3>1, <3>2
  <2>5. CASE ListPools(c)
    <3> DEFINE D == ListedPools \ WantedPools(call[c].v)
    <3>1. D \in SUBSET Pools /\ call' = [call EXCEPT ![c] = [call[c] EXCEPT !.seen = "found", !.doomed = D]]
      BY <2>5 DEF ListPools, ListedPools
    <3> HIDE DEF D
    <3>2. SameCall(call[c], [call[c] EXCEPT !.seen = "found", !.doomed = D])
      BY <2>2, <3>1, FrameUpdates
    <3> QED BY <1>5, <2>1, <3>1, <3>2
  <2>6. ASSUME NEW p \in Pools, DeletePool(c, p) PROVE Moves
    <3> DEFINE f == [call[c] EXCEPT !.doomed = @ \ {p}, !.infra = p]
    <3>1. call' = [call EXCEPT ![c] = f] \/ Return(c, FALSE)
      BY <2>6 DEF DeletePool
    <3>2. SameCall(call[c], f)
      BY <2>2, FrameUpdates
    <3> HIDE DEF f
    <3> QED BY <1>4, <1>5, <2>1, <3>1, <3>2
  <2>7. CASE DeleteInfra(c)
    <3>1. call' = [call EXCEPT ![c] = [call[c] EXCEPT !.infra = None]] \/ Return(c, FALSE)
      BY <2>7 DEF DeleteInfra
    <3>2. SameCall(call[c], [call[c] EXCEPT !.infra = None])
      BY <2>2, FrameUpdates
    <3> QED BY <1>4, <1>5, <2>1, <3>1, <3>2
  <2>8. CASE Merge(c) \/ CreateObject(c)
    BY <1>4, <2>1, <2>8 DEF Merge, CreateObject, AfterWrite
  <2>9. CASE \/ Conflict(c) \/ AlreadyExists(c) \/ CheckPools(c) \/ NotReady(c) \/ Pruned(c)
             \/ RequestFails(c)
    BY <1>4, <2>1, <2>9 DEF Conflict, AlreadyExists, CheckPools, NotReady, Pruned, RequestFails
  <2> QED BY <1>8, <2>3, <2>4, <2>5, <2>6, <2>7, <2>8, <2>9 DEF Work
<1>9. ASSUME NEW c \in Calls, Driver(c)
      PROVE  Moves
  BY <1>2, <1>7, <1>8, <1>9 DEF Driver, Refuse, driver
<1>10. CASE Crash
  BY <1>2, <1>10 DEF Crash
<1>11. CASE Controllers \/ ClusterDisturbed \/ (\E p \in Pools : PoolDown(p)) \/ RotateCredential
  BY <1>2, <1>11 DEF Controllers, InfrastructureUp, ControlPlaneUp, ClusterDisturbed, PoolUp,
     PoolDown, PoolDeleting, SetPhase, Finalize, RotateCredential, driver
<1>12. CASE UNCHANGED vars
  BY <1>2, <1>12 DEF vars, driver
<1> QED BY <1>9, <1>10, <1>11, <1>12 DEF Next, Trouble

\* The kept state is replaced only by the state of a call that returns.
LEMMA KeptState ==
  ASSUME TypeInv, [Next]_vars
  PROVE  /\ info' = info \/ \E c \in Calls : Running(c) /\ info' = call[c].v
         /\ cloudCred' = cloudCred \/ cloudCred' = cloudCred + 1
<1> DEFINE Kept1 == info' = info \/ \E c \in Calls : Running(c) /\ info' = call[c].v
<1>1. ASSUME NEW c \in Calls, Running(c), Advance(c) \/ Return(c, FALSE)
      PROVE  Kept1
  <2>1. Return(c, TRUE) \/ Return(c, FALSE) \/ UNCHANGED caller
    BY <1>1 DEF Advance
  <2> QED BY <1>1, <2>1 DEF Return, caller
<1>2. ASSUME NEW c \in Calls, Driver(c)
      PROVE  Kept1 /\ cloudCred' = cloudCred
  <2>1. CASE Start(c) \/ Refuse(c) \/ Get(c) \/ ListPools(c)
    BY <2>1 DEF Start, StartCreate, StartUpdate, StartSetClusterSize, StartSetVersion, Begin, caller,
       Refuse, Get, ListPools
  <2>2. CASE CheckCluster(c) \/ CheckPools(c) \/ NotReady(c) \/ Pruned(c) \/ Conflict(c)
             \/ AlreadyExists(c) \/ Merge(c) \/ CreateObject(c) \/ RequestFails(c)
    BY <1>1, <2>2 DEF CheckCluster, CheckPools, NotReady, Pruned, Conflict, AlreadyExists, Merge,
       CreateObject, RequestFails, AfterWrite, AtStep, caller
  <2>3. CASE (\E p \in Pools : DeletePool(c, p)) \/ DeleteInfra(c)
    BY <1>1, <2>3 DEF DeletePool, DeleteInfra, AtStep, caller
  <2> QED BY <1>2, <2>1, <2>2, <2>3 DEF Driver, Work
<1>3. CASE \/ Controllers \/ ClusterDisturbed \/ (\E p \in Pools : PoolDown(p)) \/ Crash
           \/ RotateCredential
  BY <1>3 DEF Controllers, InfrastructureUp, ControlPlaneUp, ClusterDisturbed, PoolUp, PoolDown,
     PoolDeleting, SetPhase, Finalize, Crash, RotateCredential, caller
<1>4. CASE UNCHANGED vars
  BY <1>4 DEF vars, caller
<1> QED BY <1>2, <1>3, <1>4 DEF Next, Trouble

\* The types that comparisons of credentials need.
LEMMA CredTypes ==
  ASSUME TypeInv
  PROVE  /\ cloudCred \in Nat
         /\ store[PrincipalSecret] # None => SecretCred \in Nat
         /\ info # None => info.cred \in Nat
         /\ \A c \in Calls : Running(c) => call[c].v.cred \in Nat
<1>1. CallOK /\ CallerOK /\ cloudCred \in Nat
  BY TypeInvParts
<1>2. \A c \in Calls : Running(c) => call[c].v \in Variables
  BY <1>1, RunningStep
<1> QED BY <1>1, <1>2, SecretType DEF CallerOK, Variables

LEMMA CredStep ==
  ASSUME TypeInv, CredInv, SerialCalls, [Next]_vars
  PROVE  CredInv'
<1>1. TypeInv'
  BY StepType
<1>2. /\ cloudCred \in Nat /\ cloudCred' \in Nat /\ cloudCred <= cloudCred'
      /\ info' = info \/ \E c \in Calls : Running(c) /\ info' = call[c].v
  BY KeptState, CredTypes
<1>3. \/ store'[PrincipalSecret] = store[PrincipalSecret]
      \/ \E c \in Calls : /\ Running(c) /\ store'[PrincipalSecret] # None
                          /\ store'[PrincipalSecret].content.cred = call[c].v.cred
  BY SecretWrites
<1>4. store'[PrincipalSecret] # None => SecretCred' \in Nat /\ SecretCred' <= cloudCred
  BY <1>3, CredTypes DEF CredInv, SecretCred
<1>5. store'[PrincipalSecret] # None => SecretCred' <= cloudCred'
  BY <1>2, <1>4
<1>6. info' # None => info'.cred \in Nat /\ info'.cred <= cloudCred
  BY <1>2, CredTypes DEF CredInv
<1>7. info' # None => info'.cred <= cloudCred'
  BY <1>2, <1>6
<1>8. ASSUME NEW c \in Calls, Running(c)'
      PROVE  /\ call'[c].v.cred <= cloudCred'
             /\ (call'[c].op \in FromUser /\ store'[PrincipalSecret] # None)
                   => SecretCred' <= call'[c].v.cred
  <2>1. SameState(c) \/ Started(c)
    BY <1>8, CallMoves
  <2>2. CASE SameState(c)
    <3>1. call[c].v.cred \in Nat /\ call[c].v.cred <= cloudCred
      BY <2>2, CredTypes DEF SameState, CredInv
    <3>2. (call[c].op \in FromUser /\ store'[PrincipalSecret] # None) => SecretCred' <= call[c].v.cred
      BY <1>3, <2>2, <3>1 DEF SameState, CredInv, SecretCred, SerialCalls
    <3> QED BY <1>2, <2>2, <3>1, <3>2 DEF SameState
  <2>3. CASE Started(c)
    <3>1. CASE call'[c].v.cred = cloudCred
      BY <1>2, <1>4, <3>1
    <3>2. CASE call'[c].op \notin FromUser /\ info # None /\ call'[c].v.cred = info.cred
      <4>1. info.cred \in Nat /\ info.cred <= cloudCred
        BY <3>2, CredTypes DEF CredInv
      <4> QED BY <1>2, <3>2, <4>1
    <3> QED BY <2>3, <3>1, <3>2 DEF Started
  <2> QED BY <2>1, <2>2, <2>3
<1> QED BY <1>5, <1>7, <1>8 DEF CredInv

\* With one call at a time, only a SetClusterSize or a SetVersion ever sets the
\* principal secret back to an older credential.
THEOREM CredentialMovesForward ==
  ASSUME SerialCalls PROVE Spec => OnlyStoredStateSetsCredentialBack
<1> DEFINE I == TypeInv /\ CredInv
           Forward == (/\ Exists(PrincipalSecret)
                       /\ store'[PrincipalSecret].content.cred < store[PrincipalSecret].content.cred) =>
                      \E c \in Calls : Running(c) /\ call[c].op \in {"SetClusterSize", "SetVersion"}
<1>1. Init => I
  <2>1. Init => CredInv
    <3>1. PrincipalSecret \in Keys
      BY DEF Keys
    <3> QED BY <3>1 DEF Init, CredInv, Running
  <2> QED BY <2>1, InitType
<1>2. I /\ [Next]_vars => I'
  BY StepType, CredStep
<1>3. I /\ [Next]_vars => Forward
  <2> SUFFICES ASSUME I, [Next]_vars, Exists(PrincipalSecret),
                      store'[PrincipalSecret].content.cred < store[PrincipalSecret].content.cred
               PROVE  \E c \in Calls : Running(c) /\ call[c].op \in {"SetClusterSize", "SetVersion"}
    OBVIOUS
  <2>1. SecretCred \in Nat
    BY CredTypes DEF Exists
  <2>2. PICK c \in Calls : Running(c) /\ store'[PrincipalSecret].content.cred = call[c].v.cred
    BY <2>1, SecretWrites DEF SecretCred
  <2>3. call[c].v.cred \in Nat /\ call[c].op \in Ops
    BY <2>2, CredTypes, TypeInvParts, RunningStep
  <2>4. call[c].op \notin FromUser
    BY <2>1, <2>2, <2>3 DEF CredInv, SecretCred, Exists
  <2> QED BY <2>2, <2>3, <2>4, OpsAssumption DEF FromUser
<1> QED BY <1>1, <1>2, <1>3, PTL DEF Spec, OnlyStoredStateSetsCredentialBack
=============================================================================
