-------------------------- MODULE MCDynamicValues --------------------------
(* DynamicValues with three requests, a subnet shared by its roles and one  *)
(* piece of trouble.                                                        *)
EXTENDS DynamicValues

CONSTANTS none, unknown

MCImages == {"image"}
MCSubnetIds == {"a"}

\* OCI may leave a flag out; a subnet may be unknown.
MCSubnetFlags == {[publicIp |-> "allowed", ingress |-> "allowed"],
                  [publicIp |-> "unset", ingress |-> "allowed"], unknown}

\* Tags in the order of strings.
MCMappings == {[t \in {1, 2} |-> "v1"], [t \in {2} |-> "v2"]}

MCCloudSecrets == {[name |-> "cc", namespace |-> "ns"]}

Networking(lb, worker) ==
  [r \in {Roles[i] : i \in DOMAIN Roles} |->
     CASE r = "service-lb" -> lb [] r = "worker" -> worker [] r = "pod" -> "" [] OTHER -> "a"]

Resource(p) == Field(<<"spec", "verrazzano", "spec", "profile">>, p)

Opt(cred, ok, net, registry, create, install, version) ==
  [cred |-> cred, wellFormed |-> ok, image |-> "image", networking |-> net,
   registry |-> registry, complete |-> ok, create |-> create, install |-> install,
   version |-> version, resource |-> Resource(version)]

\* With a pull secret and a subnet for two roles; later without; without
\* Verrazzano; and two that are refused.
MCOptions ==
  {Opt(<<"ns", "cc">>, TRUE, Networking("a", "a"), <<"host", "path">>, TRUE, TRUE, "v1"),
   Opt(<<"ns", "cc">>, TRUE, Networking("", "a"), <<"host">>, FALSE, TRUE, "v2"),
   Opt(<<"ns", "cc">>, TRUE, Networking("", "a"), <<>>, FALSE, FALSE, "v1"),
   Opt(<<"cc">>, TRUE, Networking("", "a"), <<>>, FALSE, FALSE, "v1"),
   Opt(<<"ns", "cc">>, FALSE, Networking("", "a"), <<>>, FALSE, FALSE, "v1")}

Nested == INSTANCE ObjectMerge

Small(depth, x) == Nested!Objects(depth, {"a", "b"}, x)

Recursively(o1, o2, locked) == Nested!Flatten(Nested!mergeUnstructured(o1, o2, locked))

AgreeOn(base, merge) ==
  \A locked \in {{}, {"b"}}, o1 \in base, o2 \in merge :
    mergeMaps(Nested!Flatten(o1), Nested!Flatten(o2), locked) = Recursively(o1, o2, locked)

\* All nested maps with two keys, one of them locked or not, one map up to three
\* deep and the other up to two.
SmallObjectsAgree == AgreeOn(Small(3, 1), Small(2, 2)) /\ AgreeOn(Small(2, 1), Small(3, 2))

AgreeOnPut(kind, existing, u) ==
  existing # None =>
    cruObject(kind, existing, u)
      = Recursively(Nested!Nest(existing), Nested!Nest(u), LockedFields(kind))

\* The merge by paths, which the model runs and the proofs reason about, does what
\* the recursion of merge.go does: on small objects, and on those the calls put.
MergeAgrees ==
  /\ SmallObjectsAgree
  /\ At("put") => AgreeOnPut("OCIManagedCluster", ociCluster, OCIManagedCluster(call.v))
  /\ At("fleet") => AgreeOnPut("VerrazzanoFleet", fleet, VerrazzanoFleet(call.v))
=============================================================================
