----------------------------- MODULE ObjectMerge -----------------------------
(***************************************************************************)
(* Kubernetes objects as nested maps, merged as capi/merge.go does it.  A  *)
(* value is a map or a leaf.                                               *)
(***************************************************************************)
EXTENDS Naturals, FiniteSets, Sequences

Leaf(x)  == [leaf |-> x]
Map(f)   == [fields |-> f]
IsMap(x) == "fields" \in DOMAIN x

RECURSIVE mergeMaps(_, _, _)

isRecursiveMerge(k, m1, v2) == k \in DOMAIN m1 /\ IsMap(m1[k]) /\ IsMap(v2)

\* Keys of m2 replace those of m1, or are merged when both are maps; locked keys
\* of m2 are skipped, at every depth.
mergeMaps(m1, m2, locked) ==
  [k \in DOMAIN m1 \cup (DOMAIN m2 \ locked) |->
     IF k \notin DOMAIN m2 \ locked THEN m1[k]
     ELSE IF isRecursiveMerge(k, m1, m2[k])
          THEN Map(mergeMaps(m1[k].fields, m2[k].fields, locked))
          ELSE m2[k]]

mergeUnstructured(base, merge, locked) == Map(mergeMaps(base.fields, merge.fields, locked))

RECURSIVE Paths(_)

\* The paths of an object's leaves.
Paths(o) ==
  IF IsMap(o) THEN UNION {{<<k>> \o p : p \in Paths(o.fields[k])} : k \in DOMAIN o.fields}
  ELSE {<<>>}

RECURSIVE ValueAt(_, _)

ValueAt(o, p) == IF p = <<>> THEN o.leaf ELSE ValueAt(o.fields[Head(p)], Tail(p))

\* An object in the form of module ObjectPaths.
Flatten(o) == [p \in Paths(o) |-> ValueAt(o, p)]

RECURSIVE Nest(_)

\* And back.
Nest(o) ==
  IF DOMAIN o = {<<>>} THEN Leaf(o[<<>>])
  ELSE Map([k \in {Head(p) : p \in DOMAIN o} |->
              Nest([p \in {Tail(q) : q \in {q \in DOMAIN o : Head(q) = k}} |-> o[<<k>> \o p]])])

RECURSIVE Objects(_, _, _)

\* The maps of a depth with some of the keys, a leaf x or a smaller map under each.
Objects(depth, keys, x) ==
  LET Under == {Leaf(x)} \cup (IF depth = 1 THEN {} ELSE Objects(depth - 1, keys, x))
  IN  UNION {{Map(f) : f \in [some -> Under]} : some \in SUBSET keys \ {{}}}
=============================================================================
