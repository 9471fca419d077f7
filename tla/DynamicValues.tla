---------------------------- MODULE DynamicValues ----------------------------
(***************************************************************************)
(* The values Create and Update look up before they store a state - the    *)
(* OCI credential, the node image, the subnets, the docker configuration   *)
(* and the Verrazzano tag (variables.go, oci.go, mapping.go) - and the two *)
(* objects they end up in: the OCIManagedCluster, whose networkSpec is     *)
(* locked, and the VerrazzanoFleet, which PostCheck puts.  One call at a   *)
(* time; what is looked up may change between any two requests.            *)
(***************************************************************************)
EXTENDS Naturals, ObjectPaths

CONSTANTS
  Options,      \* the options users pass to Create and Update
  Images,       \* display names of node images
  SubnetIds,    \* OCIDs of subnets
  SubnetFlags,  \* what OCI may say of a subnet: [publicIp, ingress], or NotFound
  Mappings,     \* the verrazzano-versions there may be: functions from tags to versions
  CloudSecrets, \* the secrets with OCI credentials: [name, namespace]
  KeepOnError,  \* may the caller keep the info of a call that failed?
  None,         \* no state, no call, no object
  NotFound,     \* OCI does not know the subnet
  MaxTrouble    \* bound: how many changes of the world and failed requests there are

\* The order in which setSubnets looks the roles up.
Roles == <<"service-lb", "worker", "control-plane-endpoint", "pod">>
RoleNames == {Roles[k] : k \in DOMAIN Roles}

\* An option is [cred, wellFormed, image, networking, registry, complete,
\* create, install, version, resource]: cred is CloudCredentialId cut at its
\* colon, wellFormed says that RawNodePools parse, networking is the subnet of
\* each role ("" for none), registry is PrivateRegistry cut at its slashes (<<>>
\* for none), complete says that user name, password and email are there, and
\* resource is the VerrazzanoResource at its place in the fleet, without leaves
\* when it is "".
ASSUME OptionsAssumption ==
  \A o \in Options :
    /\ {o.wellFormed, o.complete, o.create, o.install} \subseteq BOOLEAN
    /\ o.image \in Images /\ o.networking \in [RoleNames -> SubnetIds \cup {""}]
    /\ o.registry \in Seq(STRING \ {""})
    /\ \A p \in DOMAIN o.resource : p \in Seq(STRING) /\ IsPrefix(<<"spec", "verrazzano">>, p)

\* Tags are numbered in the order of strings.
ASSUME MappingsAssumption == \A m \in Mappings : DOMAIN m \subseteq Nat \ {0}

ASSUME KeepAssumption == KeepOnError \subseteq BOOLEAN
ASSUME TroubleAssumption == MaxTrouble \in Nat

VARIABLES
  info,       \* the state the caller keeps, or None
  outcome,    \* how the caller's last call ended
  created,    \* has a Create succeeded?
  call,       \* the call in progress, or None
  images,     \* the id OCI lists for an image name, 0 when it lists none
  subnets,    \* what OCI says of each subnet
  mapping,    \* verrazzano-versions of the config map verrazzano-meta
  ociCluster, \* the OCIManagedCluster, or None
  fleet,      \* the VerrazzanoFleet, or None
  trouble     \* how much trouble there has been

caller == <<info, outcome, created>>
lookups == <<images, subnets, mapping>>
objects == <<ociCluster, fleet>>
vars == <<caller, call, lookups, objects, trouble>>

Init ==
  /\ info = None /\ outcome = "none" /\ created = FALSE /\ call = None
  /\ images = [i \in Images |-> 1] /\ subnets \in [SubnetIds -> SubnetFlags]
  /\ mapping \in Mappings
  /\ ociCluster = None /\ fleet = None /\ trouble = 0

-----------------------------------------------------------------------------
(* Variables.                                                              *)

NewFromOptions(o) ==
  [asked |-> o, networking |-> o.networking, cred |-> o.cred,
   actual |-> 0, listed |-> <<>>, docker |-> "", tag |-> 0]

\* The credential and the networking are not among the values an Update changes.
SetUpdateValues(v, new) == [v EXCEPT !.asked = new.asked]

\* A credential id without a colon.
cloudCredentialNameAndNamespace(cred) ==
  IF Len(cred) = 1 THEN [name |-> "cattle-global-data", namespace |-> cred[1]]
  ELSE [name |-> cred[2], namespace |-> cred[1]]

SubnetAccess(s) ==
  IF s.publicIp = "allowed" /\ s.ingress = "allowed" THEN "public" ELSE "private"

\* Variant: the subnet found for an earlier role serves the next one as it is.
CachedSubnet(v, role) ==
  LET id == v.networking[role]
      Hits == {i \in DOMAIN v.listed : v.listed[i].id = id}
  IN  IF Hits # {} THEN v.listed[CHOOSE i \in Hits : TRUE]
      ELSE [id |-> id, role |-> role, type |-> SubnetAccess(subnets[id])]

\* Nothing is ever put in the subnetCache: each role has its own lookup.
SubnetForRole(v, role) ==
  LET id == v.networking[role]
  IN  [id |-> id, role |-> role, type |-> SubnetAccess(subnets[id])]

\* Variant: the docker configuration outlives the wish for a secret.
KeepDockerConfigJson(v) ==
  IF v.asked.create THEN v.asked.registry[1] ELSE v.docker

\* The registry's host; "" without an image pull secret.
DockerConfigJson(v) == IF v.asked.create THEN v.asked.registry[1] ELSE ""

MissingField(v) == v.asked.create /\ (v.asked.registry = <<>> \/ ~v.asked.complete)

\* sort.Strings, and the first.
getVerrazzanoTag == CHOOSE t \in DOMAIN mapping : \A u \in DOMAIN mapping : t <= u

-----------------------------------------------------------------------------
(* Templates and merges.                                                   *)

OCIManagedCluster(v) == Field(<<"spec", "networkSpec", "subnets">>, v.listed)

VersionPath    == <<"spec", "verrazzano", "spec", "version">>
SecretPath     == <<"spec", "imagePullSecrets">>
TagPath        == <<"spec", "image", "tag">>
RepositoryPath == <<"spec", "image", "repository">>

\* What the template leaves out without a private registry, or a secret for it,
\* is not there to be merged.
VerrazzanoFleet(v) ==
  LET registry == IF v.asked.registry = <<>> THEN {} ELSE {TagPath, RepositoryPath}
      secret   == IF v.asked.registry = <<>> \/ v.docker = "" THEN {} ELSE {SecretPath}
  IN  [p \in DOMAIN v.asked.resource \cup registry \cup secret |->
         IF p = TagPath THEN v.tag
         ELSE IF p = RepositoryPath THEN v.asked.registry
         ELSE IF p = SecretPath THEN "verrazzano-container-registry"
         ELSE v.asked.resource[p]]

\* Variant: no field is locked.
nothingLocked(kind) == {}

LockedFields(kind) == IF kind = "OCIManagedCluster" THEN {"networkSpec"} ELSE {}

\* The get, merge and update of cruObject in one step: an update on top of
\* anything but the object that was read is refused.
cruObject(kind, existing, u) ==
  IF existing = None THEN u ELSE mergeMaps(existing, u, LockedFields(kind))

\* Variant: an existing fleet gets the version and nothing else.
versionOnly(v) ==
  IF fleet = None THEN VerrazzanoFleet(v)
  ELSE SetNestedField(fleet, v.asked.version, VersionPath)

\* Variant: without the updater.
withoutUpdater(v) == cruObject("VerrazzanoFleet", fleet, VerrazzanoFleet(v))

\* The version is set in a fleet that was there, not in one that is created.
createOrUpdateVerrazzano(v) ==
  IF fleet = None THEN VerrazzanoFleet(v)
  ELSE SetNestedField(cruObject("VerrazzanoFleet", fleet, VerrazzanoFleet(v)),
                      v.asked.version, VersionPath)

-----------------------------------------------------------------------------
(* Calls.  next is the role setSubnets is at, old the stored state an      *)
(* Update has yet to bring up to date.                                     *)

At(stage) == call # None /\ call.at = stage

Begin(op, old, v) ==
  call' = [op |-> op, at |-> "auth", old |-> old, v |-> v, next |-> 1]

Goto(stage) == call' = [call EXCEPT !.at = stage] /\ UNCHANGED caller

\* storeVariables comes with the step to "put"; before, and in a PostCheck, the
\* state the caller has is left alone.  Create hands its state back also with an
\* error, an Update's may be kept or dropped then.
Return(ok) ==
  /\ call' = None
  /\ outcome' = IF ok THEN call.op ELSE "failed"
  /\ created' = (created \/ (ok /\ call.op = "Create"))
  /\ \/ /\ call.at = "put" /\ (ok \/ call.op = "Create" \/ TRUE \in KeepOnError)
        /\ info' = call.v
     \/ /\ call.at = "put" => ~ok /\ call.op = "Update" /\ FALSE \in KeepOnError
        /\ info' = info

\* ParseNodePools is the first thing Create and Update do.
Start(op, old, o) ==
  /\ call = None
  /\ \/ o.wellFormed /\ Begin(op, old, NewFromOptions(o)) /\ UNCHANGED outcome
     \/ ~o.wellFormed /\ call' = None /\ outcome' = "failed"
  /\ UNCHANGED <<info, created, lookups, objects, trouble>>

StartCreate(o) == ~created /\ Start("Create", None, o)

StartUpdate(o) == created /\ info # None /\ Start("Update", info, o)

StartPostCheck ==
  /\ call = None /\ created /\ info # None /\ info.asked.install
  /\ call' = [op |-> "PostCheck", at |-> "fleet", old |-> None, v |-> info, next |-> 1]
  /\ UNCHANGED <<caller, lookups, objects, trouble>>

SetupOCIAuth ==
  /\ At("auth")
  /\ IF cloudCredentialNameAndNamespace(call.v.cred) \in CloudSecrets
     THEN Goto("image") ELSE Return(FALSE)
  /\ UNCHANGED <<lookups, objects, trouble>>

\* Variant: an image that is not listed is no image.
setImageIdUnchecked ==
  /\ At("image")
  /\ call' = [call EXCEPT !.at = "subnets", !.next = 1, !.v.listed = <<>>,
                          !.v.actual = images[call.v.asked.image]]
  /\ UNCHANGED <<caller, lookups, objects, trouble>>

setImageId ==
  /\ At("image")
  /\ IF images[call.v.asked.image] # 0
     THEN /\ call' = [call EXCEPT !.at = "subnets", !.next = 1, !.v.listed = <<>>,
                                  !.v.actual = images[call.v.asked.image]]
          /\ UNCHANGED caller
     ELSE Return(FALSE)
  /\ UNCHANGED <<lookups, objects, trouble>>

\* One role of setSubnets; a role without a subnet is passed over.
addSubnetForRole ==
  /\ At("subnets") /\ call.next <= Len(Roles)
  /\ LET role == Roles[call.next]
         id   == call.v.networking[role]
     IN  IF id # "" /\ subnets[id] = NotFound THEN Return(FALSE)
         ELSE /\ call' = [call EXCEPT !.next = @ + 1,
                                      !.v.listed = IF id = "" THEN @
                                                   ELSE Append(@, SubnetForRole(call.v, role))]
              /\ UNCHANGED caller
  /\ UNCHANGED <<lookups, objects, trouble>>

SetDockerConfigJson ==
  /\ At("subnets") /\ call.next > Len(Roles)
  /\ IF MissingField(call.v) THEN Return(FALSE)
     ELSE /\ call' = [call EXCEPT !.at = "tag", !.v.docker = DockerConfigJson(call.v)]
          /\ UNCHANGED caller
  /\ UNCHANGED <<lookups, objects, trouble>>

\* An Update has looked everything up for the options alone, and starts over
\* with the stored state brought up to date.
setVerrazzanoTag ==
  /\ At("tag")
  /\ IF DOMAIN mapping = {} THEN Return(FALSE)
     ELSE LET v == [call.v EXCEPT !.tag = getVerrazzanoTag]
          IN  /\ IF call.old # None THEN Begin("Update", None, SetUpdateValues(call.old, v))
                 ELSE call' = [call EXCEPT !.at = "put", !.v = v]
              /\ UNCHANGED caller
  /\ UNCHANGED <<lookups, objects, trouble>>

\* The rest of the rollout succeeds, or it fails behind this object.
PutOCIManagedCluster ==
  /\ At("put")
  /\ ociCluster' = cruObject("OCIManagedCluster", ociCluster, OCIManagedCluster(call.v))
  /\ Return(TRUE) \/ Return(FALSE)
  /\ UNCHANGED <<lookups, fleet, trouble>>

NoResource(v) == DOMAIN v.asked.resource = {}

\* An install without a VerrazzanoResource is passed over in silence.  Otherwise
\* writing the log message that follows may fail the call.
UpdateVerrazzano ==
  /\ At("fleet")
  /\ IF NoResource(call.v) THEN Return(TRUE) /\ UNCHANGED fleet
     ELSE /\ fleet' = createOrUpdateVerrazzano(call.v)
          /\ Return(TRUE) \/ Return(FALSE)
  /\ UNCHANGED <<lookups, ociCluster, trouble>>

Trouble == trouble < MaxTrouble /\ trouble' = trouble + 1

RequestFails == call # None /\ Return(FALSE) /\ Trouble /\ UNCHANGED <<lookups, objects>>

-----------------------------------------------------------------------------
(* The world (external).                                                   *)

ImagesChange ==
  /\ \E i \in Images : images' = [images EXCEPT ![i] = IF @ = 0 THEN 1 ELSE 0]
  /\ Trouble /\ UNCHANGED <<caller, call, subnets, mapping, objects>>

SubnetChanges ==
  /\ \E s \in SubnetIds, f \in SubnetFlags :
       subnets[s] # f /\ subnets' = [subnets EXCEPT ![s] = f]
  /\ Trouble /\ UNCHANGED <<caller, call, images, mapping, objects>>

VerrazzanoUpgraded ==
  /\ mapping' \in Mappings \ {mapping}
  /\ Trouble /\ UNCHANGED <<caller, call, images, subnets, objects>>

StatusPath     == <<"status">>
ComponentsPath == <<"spec", "verrazzano", "spec", "components">>

\* Controllers report in the status, and complete the Verrazzano resource where
\* the user left it open.
FleetReconciled ==
  /\ fleet # None
  /\ LET reported == SetNestedField(fleet, "up", StatusPath)
     IN  fleet' = IF \A p \in DOMAIN fleet : Apart(p, ComponentsPath)
                  THEN SetNestedField(reported, "defaults", ComponentsPath) ELSE reported
  /\ UNCHANGED <<caller, call, lookups, ociCluster, trouble>>

\* An uninstall has run to its end (module VerrazzanoAddon).
FleetGone ==
  /\ call = None /\ info # None /\ ~info.asked.install /\ fleet # None /\ fleet' = None
  /\ UNCHANGED <<caller, call, lookups, ociCluster, trouble>>

-----------------------------------------------------------------------------
Work ==
  \/ SetupOCIAuth \/ setImageId \/ addSubnetForRole \/ SetDockerConfigJson \/ setVerrazzanoTag
  \/ PutOCIManagedCluster \/ UpdateVerrazzano

Next ==
  \/ \E o \in Options : StartCreate(o) \/ StartUpdate(o)
  \/ StartPostCheck \/ Work \/ RequestFails
  \/ ImagesChange \/ SubnetChanges \/ VerrazzanoUpgraded \/ FleetReconciled \/ FleetGone

Spec == Init /\ [][Next]_vars

\* A call goes on, and the caller runs a PostCheck again and again, however many
\* Updates it sends in between.
FairSpec == Spec /\ WF_vars(Work) /\ SF_vars(StartPostCheck)

-----------------------------------------------------------------------------
(* Properties.                                                             *)

Listings == [id : SubnetIds, role : RoleNames, type : {"public", "private"}]

Hosts == {o.registry[1] : o \in {x \in Options : x.registry # <<>>}}

States ==
  [asked : Options, networking : {o.networking : o \in Options}, cred : {o.cred : o \in Options},
   actual : {0, 1}, listed : Seq(Listings), docker : Hosts \cup {""}, tag : Nat]

Stages == {"auth", "image", "subnets", "tag", "put", "fleet"}

Frames ==
  [op : {"Create", "Update", "PostCheck"}, at : Stages, old : States \cup {None},
   v : States, next : 1 .. Len(Roles) + 1]

\* A stored state, or None; whatever is stored has an image and a tag.
TypeOK ==
  /\ info \in States \cup {None} /\ (info # None => info.actual = 1 /\ info.tag # 0)
  /\ outcome \in {"none", "failed", "Create", "Update", "PostCheck"}
  /\ created \in BOOLEAN /\ call \in Frames \cup {None}
  /\ images \in [Images -> {0, 1}] /\ subnets \in [SubnetIds -> SubnetFlags]
  /\ mapping \in Mappings /\ trouble \in 0 .. MaxTrouble

\* Is the i-th entry that of the k-th role?
Lists(v, i, k) ==
  v.listed[i].role = Roles[k] /\ v.listed[i].id = v.networking[Roles[k]]

HasSubnet(v, k) == v.networking[Roles[k]] # ""

\* The first n roles, those with a subnet, are listed with that subnet, each once
\* and in order, and nothing else is.
ListsRoles(v, n) ==
  /\ \A k \in 1 .. n : HasSubnet(v, k) => \E i \in DOMAIN v.listed : Lists(v, i, k)
  /\ \A i \in DOMAIN v.listed : \E k \in 1 .. n : Lists(v, i, k) /\ HasSubnet(v, k)
  /\ \A i, j \in DOMAIN v.listed, k, l \in 1 .. n :
       i < j /\ Lists(v, i, k) /\ Lists(v, j, l) => k < l

\* Every role with a subnet is listed once, under its own name and in order, also
\* when roles share a subnet, a lookup failed halfway or an Update repeated them.
SubnetsKeepRoles == info # None => ListsRoles(info, Len(Roles))

\* The fleet template refers to the image pull secret exactly for a state that
\* makes PostCheck create it (module VerrazzanoAddon relies on this), whatever
\* earlier states asked for.
ReferenceAsAsked ==
  info # None => (HasField(VerrazzanoFleet(info), SecretPath) <=> info.asked.create)

\* The networkSpec an OCIManagedCluster was created with is never changed, although
\* every Update looks the subnets up again and renders what it found.
NetworkIsFixed ==
  [][ociCluster # None => NestedField(ociCluster', <<"spec", "networkSpec">>)
                            = NestedField(ociCluster, <<"spec", "networkSpec">>)]_vars

\* What controllers write and no user's resource speaks of.
ForeignPaths ==
  {path \in {StatusPath, ComponentsPath} :
     \A o \in Options : \A p \in DOMAIN o.resource : Apart(p, path)}

\* What the controllers wrote into the fleet survives every PostCheck's merge.
ForeignFieldsStay ==
  [][\A path \in ForeignPaths :
       (fleet # None /\ fleet' # None /\ HasField(fleet, path)) =>
         NestedField(fleet', path) = NestedField(fleet, path)]_vars

Holds(o, p, x) == p \in DOMAIN o /\ o[p] = x

\* Does an object have every field of a state's Verrazzano resource but the version,
\* which has its own, and the repository and tag of its private registry?
StoredIn(o, v) ==
  /\ \A p \in DOMAIN v.asked.resource : Apart(p, VersionPath) => Holds(o, p, v.asked.resource[p])
  /\ v.asked.registry # <<>> =>
       Holds(o, TagPath, v.tag) /\ Holds(o, RepositoryPath, v.asked.registry)

\* After a PostCheck the fleet has what the stored state says of it, whatever earlier
\* states and the controllers put there, unless that state names no resource.
FleetAsStored ==
  (outcome = "PostCheck" /\ call = None /\ ~NoResource(info)) => StoredIn(fleet, info)

\* A fleet is created without the version the user asked for.  While a Verrazzano
\* resource stays wanted, PostChecks bring the version to the fleet again and
\* again, however often Updates change it.
VersionArrives ==
  <>[](created /\ info # None /\ info.asked.install /\ ~NoResource(info)) =>
    []<>(fleet # None /\ Holds(fleet, VersionPath, info.asked.version))
=============================================================================
