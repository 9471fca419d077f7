----------------------------- MODULE ObjectPaths -----------------------------
(***************************************************************************)
(* Kubernetes objects by the paths of their leaves, and how the driver     *)
(* merges what it renders into what the API server has (capi/merge.go).    *)
(* An object is a function from paths, sequences of keys, to what the      *)
(* leaves at their ends hold; lists are leaves, as they are to the merge.  *)
(* A map is where paths go on, so that a map without entries is no map     *)
(* here.  Module ObjectMerge has the merge as the code recurses; a run     *)
(* compares the two, and this form can be reasoned about for all objects.  *)
(***************************************************************************)
EXTENDS SequencesExt

IsMap(o, path) == \E p \in DOMAIN o : IsStrictPrefix(path, p)

Apart(p, q) == ~IsPrefix(p, q) /\ ~IsPrefix(q, p)

isRecursiveMerge(path, o1, o2) == IsMap(o1, path) /\ IsMap(o2, path)

\* Variant: only the keys of the object itself are locked.
SkippedOnTop(p, o1, o2, locked) == p[1] \in locked

\* Is the leaf at p under a locked key that the merge gets to?  What replaces
\* something other than a map is taken as it is, with its locked keys.
Skipped(p, o1, o2, locked) ==
  \E i \in DOMAIN p : /\ p[i] \in locked
                      /\ \A j \in 1 .. i - 1 : isRecursiveMerge(SubSeq(p, 1, j), o1, o2)

\* Variant: what is under a key is replaced as a whole.
KeptByKey(o1, new) == {p \in DOMAIN o1 : \A q \in new : p[1] # q[1]}

\* A leaf goes when one of o2 takes its place, the place of a map it is in, or
\* needs a map where it is.
Kept(o1, new) == {p \in DOMAIN o1 : \A q \in new : Apart(p, q)}

\* Leaves of o2 replace those of o1; locked keys of o2 are skipped, at every depth.
mergeMaps(o1, o2, locked) ==
  LET new == {p \in DOMAIN o2 : ~Skipped(p, o1, o2, locked)}
  IN  [p \in new \cup Kept(o1, new) |-> IF p \in new THEN o2[p] ELSE o1[p]]

\* What an object has at the end of a path; nothing is the error of the code.
NestedField(o, path) == [p \in {q \in DOMAIN o : IsPrefix(path, q)} |-> o[p]]

HasField(o, path) == DOMAIN NestedField(o, path) # {}

Field(path, x) == [p \in {path} |-> x]

\* unstructured.SetNestedField: maps on the way are made where there are none.
SetNestedField(o, x, path) == mergeMaps(o, Field(path, x), {})
=============================================================================
