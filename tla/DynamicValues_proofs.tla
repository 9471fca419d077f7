------------------------ MODULE DynamicValues_proofs ------------------------
(***************************************************************************)
(* What the driver's merge does to any two objects, and what holds of the  *)
(* values that Create and Update look up and of the objects they end up    *)
(* in, for any options, subnets, images and versions.                      *)
(***************************************************************************)
EXTENDS DynamicValues, SequenceTheorems, WellFoundedInduction, TLAPS

\* The keys of objects are strings; those of the templates are named, because the
\* provers do not know that a string belongs to STRING.
Keys ==
  STRING \cup {"spec", "status", "networkSpec", "subnets", "verrazzano", "version",
               "components", "imagePullSecrets", "image", "tag", "repository"}

Paths == Seq(Keys)

-----------------------------------------------------------------------------
(* Prefixes.                                                               *)

LEMMA PrefixByElements ==
  ASSUME NEW s \in Paths, NEW t \in Paths
  PROVE  IsPrefix(s, t) <=> Len(s) <= Len(t) /\ \A i \in 1 .. Len(s) : s[i] = t[i]
<1>1. Len(s) \in Nat /\ Len(t) \in Nat
  BY DEF Paths
<1>2. ASSUME Len(s) <= Len(t)
      PROVE  (SubSeq(s, 1, Len(s)) = SubSeq(t, 1, Len(s)))
               <=> \A i \in 1 .. Len(s) : s[i] = t[i]
  <2>1. \A i \in 1 .. Len(s) : s[i] \in Keys /\ t[i] \in Keys
    BY <1>1, <1>2 DEF Paths
  <2>2. /\ SubSeq(s, 1, Len(s)) \in Paths /\ Len(SubSeq(s, 1, Len(s))) = Len(s)
        /\ \A i \in 1 .. Len(s) : SubSeq(s, 1, Len(s))[i] = s[i]
    BY <1>1, <2>1, SubSeqProperties DEF Paths
  <2>3. /\ SubSeq(t, 1, Len(s)) \in Paths /\ Len(SubSeq(t, 1, Len(s))) = Len(s)
        /\ \A i \in 1 .. Len(s) : SubSeq(t, 1, Len(s))[i] = t[i]
    BY <1>1, <2>1, SubSeqProperties DEF Paths
  <2>4. ASSUME \A i \in 1 .. Len(s) : s[i] = t[i]
        PROVE  SubSeq(s, 1, Len(s)) = SubSeq(t, 1, Len(s))
    BY <2>2, <2>3, <2>4, SeqEqual DEF Paths
  <2>5. ASSUME SubSeq(s, 1, Len(s)) = SubSeq(t, 1, Len(s)), NEW i \in 1 .. Len(s)
        PROVE  s[i] = t[i]
    BY <2>2, <2>3, <2>5
  <2>6. QED
    BY <2>4, <2>5
<1>3. QED
  BY <1>2 DEF IsPrefix

LEMMA PrefixReflexive ==
  ASSUME NEW s \in Paths
  PROVE  IsPrefix(s, s)
  BY PrefixByElements DEF Paths

LEMMA PrefixTransitive ==
  ASSUME NEW s \in Paths, NEW t \in Paths, NEW u \in Paths, IsPrefix(s, t), IsPrefix(t, u)
  PROVE  IsPrefix(s, u)
<1>1. /\ Len(s) \in Nat /\ Len(t) \in Nat /\ Len(u) \in Nat
      /\ Len(s) <= Len(t) /\ Len(t) <= Len(u)
      /\ \A i \in 1 .. Len(s) : s[i] = t[i]
      /\ \A i \in 1 .. Len(t) : t[i] = u[i]
  BY PrefixByElements DEF Paths
<1>2. Len(s) <= Len(u) /\ \A i \in 1 .. Len(s) : s[i] = u[i]
  BY <1>1
<1>3. QED
  BY <1>2, PrefixByElements

\* Two prefixes of one path are not apart.
LEMMA PrefixesMeet ==
  ASSUME NEW s \in Paths, NEW t \in Paths, NEW u \in Paths, IsPrefix(s, u), IsPrefix(t, u)
  PROVE  IsPrefix(s, t) \/ IsPrefix(t, s)
<1>1. /\ Len(s) \in Nat /\ Len(t) \in Nat /\ Len(u) \in Nat
      /\ Len(s) <= Len(u) /\ Len(t) <= Len(u)
      /\ \A i \in 1 .. Len(s) : s[i] = u[i]
      /\ \A i \in 1 .. Len(t) : t[i] = u[i]
  BY PrefixByElements DEF Paths
<1>2. CASE Len(s) <= Len(t)
  <2>1. \A i \in 1 .. Len(s) : s[i] = t[i]
    BY <1>1, <1>2
  <2>2. QED
    BY <1>2, <2>1, PrefixByElements
<1>3. CASE Len(t) <= Len(s)
  <2>1. \A i \in 1 .. Len(t) : t[i] = s[i]
    BY <1>1, <1>3
  <2>2. QED
    BY <1>3, <2>1, PrefixByElements
<1>4. QED
  BY <1>1, <1>2, <1>3

\* What is below a path is apart from whatever the path is apart from.
LEMMA BelowApart ==
  ASSUME NEW path \in Paths, NEW p \in Paths, NEW q \in Paths,
         IsPrefix(path, p), Apart(path, q)
  PROVE  Apart(p, q)
<1>1. ASSUME IsPrefix(p, q) PROVE FALSE
  BY <1>1, PrefixTransitive DEF Apart
<1>2. ASSUME IsPrefix(q, p) PROVE FALSE
  BY <1>2, PrefixesMeet DEF Apart
<1>3. QED
  BY <1>1, <1>2 DEF Apart

LEMMA ApartSymmetric ==
  ASSUME NEW p, NEW q
  PROVE  Apart(p, q) <=> Apart(q, p)
  BY DEF Apart

\* Paths that differ in a key are apart.
LEMMA KeysApart ==
  ASSUME NEW p \in Paths, NEW q \in Paths, NEW i \in Nat,
         1 <= i, i <= Len(p), i <= Len(q), p[i] # q[i]
  PROVE  Apart(p, q)
<1>1. Len(p) \in Nat /\ Len(q) \in Nat
  BY DEF Paths
<1>2. i \in 1 .. Len(p) /\ i \in 1 .. Len(q)
  BY <1>1
<1>3. QED
  BY <1>2, PrefixByElements DEF Apart

-----------------------------------------------------------------------------
(* The merge of any two objects.                                           *)

IsObject(o) == DOMAIN o \subseteq Paths

\* No leaf lies on the way to another one.
IsTree(o) == IsObject(o) /\ \A p, q \in DOMAIN o : IsPrefix(p, q) => p = q

Taken(o1, o2, locked) == {p \in DOMAIN o2 : ~Skipped(p, o1, o2, locked)}

LEMMA MergeDomain ==
  ASSUME NEW o1, NEW o2, NEW locked
  PROVE  DOMAIN mergeMaps(o1, o2, locked)
           = Taken(o1, o2, locked) \cup Kept(o1, Taken(o1, o2, locked))
  BY DEF mergeMaps, Taken

LEMMA MergeTaken ==
  ASSUME NEW o1, NEW o2, NEW locked, NEW p \in Taken(o1, o2, locked)
  PROVE  mergeMaps(o1, o2, locked)[p] = o2[p]
  BY DEF mergeMaps, Taken

LEMMA MergeKept ==
  ASSUME NEW o1, NEW o2, NEW locked,
         NEW p \in Kept(o1, Taken(o1, o2, locked)), p \notin Taken(o1, o2, locked)
  PROVE  mergeMaps(o1, o2, locked)[p] = o1[p]
  BY DEF mergeMaps, Taken

LEMMA MergeIsObject ==
  ASSUME NEW o1, NEW o2, NEW locked, IsObject(o1), IsObject(o2)
  PROVE  IsObject(mergeMaps(o1, o2, locked))
<1> DEFINE new == Taken(o1, o2, locked)
<1>1. DOMAIN mergeMaps(o1, o2, locked) = new \cup Kept(o1, new)
  BY MergeDomain
<1>2. new \subseteq DOMAIN o2 /\ Kept(o1, new) \subseteq DOMAIN o1
  BY DEF Taken, Kept
<1> HIDE DEF new
<1>3. QED
  BY <1>1, <1>2 DEF IsObject

\* A merge of objects is an object again: no leaf of mergeMaps' result is where
\* a map has to be for another one, whatever is locked.
THEOREM MergeKeepsTrees ==
  ASSUME NEW o1, NEW o2, NEW locked, IsTree(o1), IsTree(o2)
  PROVE  IsTree(mergeMaps(o1, o2, locked))
<1> DEFINE new == Taken(o1, o2, locked)
           old == Kept(o1, new)
<1>1. /\ new \subseteq DOMAIN o2 /\ old \subseteq DOMAIN o1
      /\ \A p \in old, q \in new : Apart(p, q)
  BY DEF Taken, Kept
<1>2. ASSUME NEW p \in new \cup old, NEW q \in new \cup old, IsPrefix(p, q)
      PROVE  p = q
  <2>1. CASE p \in new /\ q \in new
    BY <1>1, <1>2, <2>1 DEF IsTree
  <2>2. CASE p \in old /\ q \in old
    BY <1>1, <1>2, <2>2 DEF IsTree
  <2>3. CASE p \in old /\ q \in new
    BY <1>1, <1>2, <2>3 DEF Apart
  <2>4. CASE p \in new /\ q \in old
    BY <1>1, <1>2, <2>4 DEF Apart
  <2>5. QED
    BY <1>2, <2>1, <2>2, <2>3, <2>4
<1>3. IsObject(mergeMaps(o1, o2, locked))
  BY MergeIsObject DEF IsTree
<1>4. DOMAIN mergeMaps(o1, o2, locked) = new \cup old
  BY MergeDomain
<1> HIDE DEF new, old
<1>5. QED
  BY <1>2, <1>3, <1>4 DEF IsTree

\* What is below a path that all leaves taken are apart from stays.
LEMMA ApartStays ==
  ASSUME NEW o1, NEW o2, NEW locked, IsObject(o1), IsObject(o2), NEW path \in Paths,
         \A q \in Taken(o1, o2, locked) : Apart(path, q)
  PROVE  NestedField(mergeMaps(o1, o2, locked), path) = NestedField(o1, path)
<1> DEFINE new == Taken(o1, o2, locked)
           m   == mergeMaps(o1, o2, locked)
<1>1. DOMAIN m = new \cup Kept(o1, new)
  BY MergeDomain
<1>2. ASSUME NEW p \in DOMAIN o1, IsPrefix(path, p)
      PROVE  p \in DOMAIN m /\ m[p] = o1[p]
  <2>1. p \in Paths /\ \A q \in new : q \in Paths
    BY DEF IsObject, Taken
  <2>2. \A q \in new : Apart(p, q)
    BY <1>2, <2>1, BelowApart
  <2>3. p \in Kept(o1, new)
    BY <2>2 DEF Kept
  <2>4. p \notin new
    BY <2>1, <2>2, PrefixReflexive DEF Apart
  <2>5. m[p] = o1[p]
    BY <2>3, <2>4, MergeKept
  <2>6. QED
    BY <2>3, <2>5, <1>1
<1>3. ASSUME NEW p \in DOMAIN m, IsPrefix(path, p)
      PROVE  p \in DOMAIN o1
  <2>1. p \notin new
    BY <1>3 DEF Apart
  <2>2. p \in Kept(o1, new)
    BY <1>3, <2>1, <1>1
  <2>3. QED
    BY <2>2 DEF Kept
<1> HIDE DEF m, new
<1>4. {p \in DOMAIN m : IsPrefix(path, p)} = {p \in DOMAIN o1 : IsPrefix(path, p)}
  BY <1>2, <1>3
<1>5. NestedField(m, path) = NestedField(o1, path)
  BY <1>2, <1>4 DEF NestedField
<1>6. QED
  BY <1>5 DEF m

\* mergeMaps leaves what is rendered nowhere near a path as it is there.
THEOREM UnrenderedStays ==
  ASSUME NEW o1, NEW o2, NEW locked, IsObject(o1), IsObject(o2), NEW path \in Paths,
         \A q \in DOMAIN o2 : Apart(path, q)
  PROVE  NestedField(mergeMaps(o1, o2, locked), path) = NestedField(o1, path)
  BY ApartStays DEF Taken

\* A locked field stays as it is, or missing, at any depth the merge recurses to,
\* unless a leaf is rendered in place of a map on the way to it.
THEOREM LockedFieldStays ==
  ASSUME NEW o1, NEW o2, NEW locked, IsObject(o1), IsObject(o2),
         NEW path \in Paths, path # <<>>, path[Len(path)] \in locked,
         \A j \in 1 .. Len(path) - 1 : IsMap(o1, SubSeq(path, 1, j)),
         \A q \in DOMAIN o2 : ~IsStrictPrefix(q, path)
  PROVE  NestedField(mergeMaps(o1, o2, locked), path) = NestedField(o1, path)
<1>1. Len(path) \in Nat /\ Len(path) > 0
  BY DEF Paths
<1>2. ASSUME NEW q \in DOMAIN o2, IsPrefix(path, q)
      PROVE  Skipped(q, o1, o2, locked)
  <2>1. /\ q \in Paths /\ Len(q) \in Nat /\ Len(path) <= Len(q)
        /\ \A i \in 1 .. Len(path) : path[i] = q[i]
    BY <1>2, PrefixByElements DEF IsObject, Paths
  <2>2. q[Len(path)] \in locked /\ Len(path) \in DOMAIN q
    BY <1>1, <2>1 DEF Paths
  <2>3. ASSUME NEW j \in 1 .. Len(path) - 1
        PROVE  isRecursiveMerge(SubSeq(q, 1, j), o1, o2)
    <3>1. /\ SubSeq(q, 1, j) \in Paths /\ Len(SubSeq(q, 1, j)) = j
          /\ \A i \in 1 .. j : SubSeq(q, 1, j)[i] = q[i]
      <4>1. \A i \in 1 .. j : q[i] \in Keys
        BY <1>1, <2>1 DEF Paths
      <4>2. QED
        BY <4>1, SubSeqProperties DEF Paths
    <3>2. /\ SubSeq(path, 1, j) \in Paths /\ Len(SubSeq(path, 1, j)) = j
          /\ \A i \in 1 .. j : SubSeq(path, 1, j)[i] = path[i]
      <4>1. \A i \in 1 .. j : path[i] \in Keys
        BY <1>1 DEF Paths
      <4>2. QED
        BY <4>1, SubSeqProperties DEF Paths
    <3>3. SubSeq(q, 1, j) = SubSeq(path, 1, j)
      <4>1. \A i \in 1 .. j : SubSeq(q, 1, j)[i] = SubSeq(path, 1, j)[i]
        BY <1>1, <2>1, <3>1, <3>2
      <4>2. QED
        BY <3>1, <3>2, <4>1, SeqEqual DEF Paths
    <3>4. IsPrefix(SubSeq(q, 1, j), q)
      <4>1. j <= Len(q) /\ \A i \in 1 .. j : SubSeq(q, 1, j)[i] = q[i]
        BY <1>1, <2>1, <3>1
      <4>2. QED
        BY <2>1, <3>1, <4>1, PrefixByElements
    <3>5. SubSeq(q, 1, j) # q
      BY <1>1, <2>1, <3>1
    <3>6. IsMap(o2, SubSeq(q, 1, j))
      BY <3>4, <3>5 DEF IsMap, IsStrictPrefix
    <3>7. QED
      BY <3>3, <3>6 DEF isRecursiveMerge
  <2>4. QED
    BY <2>2, <2>3 DEF Skipped
<1>3. ASSUME NEW q \in Taken(o1, o2, locked)
      PROVE  Apart(path, q)
  <2>1. q \in DOMAIN o2 /\ ~IsPrefix(path, q)
    BY <1>2 DEF Taken
  <2>2. ~IsPrefix(q, path)
    BY <2>1, PrefixReflexive DEF IsStrictPrefix, IsObject
  <2>3. QED
    BY <2>1, <2>2 DEF Apart
<1>4. QED
  BY <1>3, ApartStays

\* Without locked keys everything rendered arrives.
LEMMA RenderedArrives ==
  ASSUME NEW o1, NEW o2, NEW p \in DOMAIN o2
  PROVE  Holds(mergeMaps(o1, o2, {}), p, o2[p])
<1> DEFINE new == Taken(o1, o2, {})
           m   == mergeMaps(o1, o2, {})
<1>1. DOMAIN m = new \cup Kept(o1, new)
  BY MergeDomain
<1>2. p \in new
  BY DEF Taken, Skipped
<1>3. m[p] = o2[p]
  BY <1>2, MergeTaken
<1> HIDE DEF m, new
<1>4. Holds(m, p, o2[p])
  BY <1>1, <1>2, <1>3 DEF Holds
<1>5. QED
  BY <1>4 DEF m

\* And what is held somewhere apart from all of it still is.
LEMMA ApartHolds ==
  ASSUME NEW o1, NEW o2, IsObject(o1), IsObject(o2), NEW p \in DOMAIN o1,
         \A q \in DOMAIN o2 : Apart(p, q)
  PROVE  Holds(mergeMaps(o1, o2, {}), p, o1[p])
<1> DEFINE new == Taken(o1, o2, {})
           m   == mergeMaps(o1, o2, {})
<1>1. DOMAIN m = new \cup Kept(o1, new)
  BY MergeDomain
<1>2. p \in Kept(o1, new) /\ p \notin new
  BY PrefixReflexive DEF IsObject, Kept, Taken, Apart
<1>3. m[p] = o1[p]
  BY <1>2, MergeKept
<1> HIDE DEF m, new
<1>4. Holds(m, p, o1[p])
  BY <1>1, <1>2, <1>3 DEF Holds
<1>5. QED
  BY <1>4 DEF m

LEMMA SetIsObject ==
  ASSUME NEW o, NEW x, NEW path \in Paths, IsObject(o)
  PROVE  IsObject(SetNestedField(o, x, path))
<1>1. DOMAIN Field(path, x) = {path}
  BY DEF Field
<1>2. QED
  BY <1>1, MergeIsObject DEF IsObject, SetNestedField

LEMMA SetHolds ==
  ASSUME NEW o, NEW x, NEW path
  PROVE  Holds(SetNestedField(o, x, path), path, x)
<1>1. DOMAIN Field(path, x) = {path} /\ Field(path, x)[path] = x
  BY DEF Field
<1>2. QED
  BY <1>1, RenderedArrives DEF SetNestedField

LEMMA SetLeavesApart ==
  ASSUME NEW o, NEW x, NEW path \in Paths, IsObject(o), NEW p \in DOMAIN o, Apart(p, path)
  PROVE  Holds(SetNestedField(o, x, path), p, o[p])
<1>1. DOMAIN Field(path, x) = {path}
  BY DEF Field
<1>2. QED
  BY <1>1, ApartHolds DEF SetNestedField, IsObject

LEMMA SetStays ==
  ASSUME NEW o, NEW x, NEW path \in Paths, IsObject(o), NEW p \in Paths, Apart(p, path)
  PROVE  NestedField(SetNestedField(o, x, path), p) = NestedField(o, p)
<1>1. DOMAIN Field(path, x) = {path}
  BY DEF Field
<1>2. QED
  BY <1>1, UnrenderedStays DEF SetNestedField, IsObject

-----------------------------------------------------------------------------
(* The type invariant: a call has an image once it is past the image, and  *)
(* a tag when it is about to put.                                          *)

Looked ==
  call # None =>
    /\ call.at \in {"subnets", "tag", "put"} => call.v.actual = 1
    /\ call.at = "put" => call.v.tag # 0

TypeInv == TypeOK /\ Looked

\* What setSubnets, SetDockerConfigJson and the step to "put" need of a state.
LEMMA StateFields ==
  ASSUME NEW v \in States
  PROVE  /\ v.asked \in Options /\ v.actual \in {0, 1} /\ v.listed \in Seq(Listings)
         /\ v.docker \in Hosts \cup {""} /\ v.tag \in Nat
         /\ v.networking \in [RoleNames -> SubnetIds \cup {""}]
<1>1. PICK o \in Options : v.networking = o.networking
  BY DEF States
<1>2. QED
  BY <1>1, OptionsAssumption DEF States

LEMMA FrameFields ==
  ASSUME NEW c \in Frames
  PROVE  /\ c.op \in {"Create", "Update", "PostCheck"} /\ c.at \in Stages
         /\ c.old \in States \cup {None} /\ c.v \in States /\ c.next \in 1 .. 5
  BY DEF Frames, Roles

Ops  == {"Create", "Update", "PostCheck"}
Olds == States \cup {None}

LEMMA FrameSet == Frames = [op : Ops, at : Stages, old : Olds, v : States, next : 1 .. 5]
<1>1. Len(Roles) + 1 = 5
  BY DEF Roles
<1>2. QED
  BY <1>1 DEF Frames, Ops, Olds

LEMMA NewState ==
  ASSUME NEW o \in Options
  PROVE  NewFromOptions(o) \in States
<1>1. <<>> \in Seq(Listings)
  OBVIOUS
<1>2. o.networking \in {x.networking : x \in Options} /\ o.cred \in {x.cred : x \in Options}
  OBVIOUS
<1> DEFINE nets == {x.networking : x \in Options}
           creds == {x.cred : x \in Options}
           net == o.networking
           cred == o.cred
           none == <<>>
           dockers == Hosts \cup {""}
<1>3. net \in nets /\ cred \in creds /\ none \in Seq(Listings) /\ "" \in dockers
  BY <1>1, <1>2
<1>4. States = [asked : Options, networking : nets, cred : creds, actual : {0, 1},
                listed : Seq(Listings), docker : dockers, tag : Nat]
  BY DEF States
<1>5. NewFromOptions(o) = [asked |-> o, networking |-> net, cred |-> cred,
                           actual |-> 0, listed |-> none, docker |-> "", tag |-> 0]
  BY DEF NewFromOptions
<1> HIDE DEF nets, creds, net, cred, none, dockers
<1>6. [asked |-> o, networking |-> net, cred |-> cred,
       actual |-> 0, listed |-> none, docker |-> "", tag |-> 0]
        \in [asked : Options, networking : nets, cred : creds, actual : {0, 1},
             listed : Seq(Listings), docker : dockers, tag : Nat]
  BY <1>3
<1>7. QED
  BY <1>4, <1>5, <1>6, Zenon

\* A chosen image, a longer list, a docker configuration, a tag and new options
\* leave a state one.
LEMMA ChangedStates ==
  ASSUME NEW v \in States
  PROVE  /\ \A x \in {0, 1}, l \in Seq(Listings) :
              [v EXCEPT !.listed = l, !.actual = x] \in States
         /\ \A l \in Seq(Listings) : [v EXCEPT !.listed = l] \in States
         /\ \A d \in Hosts \cup {""} : [v EXCEPT !.docker = d] \in States
         /\ \A t \in Nat : [v EXCEPT !.tag = t] \in States
         /\ \A o \in Options : [v EXCEPT !.asked = o] \in States
  BY DEF States

LEMMA CallInProgress ==
  ASSUME TypeOK, call # None
  PROVE  call \in Frames
  BY DEF TypeOK

\* The string order of tags has a first one among those on offer.
LEMMA FirstTag ==
  ASSUME mapping \in Mappings, DOMAIN mapping # {}
  PROVE  getVerrazzanoTag \in DOMAIN mapping /\ getVerrazzanoTag \in Nat \ {0}
<1>1. DOMAIN mapping \subseteq Nat
  BY MappingsAssumption
<1>2. PICK t \in DOMAIN mapping : \A u \in DOMAIN mapping : <<u, t>> \notin OpToRel(<, Nat)
  BY <1>1, WFMin, NatLessThanWellFounded
<1>3. ASSUME NEW u \in DOMAIN mapping
      PROVE  t <= u
  <2>1. t \in Nat /\ u \in Nat
    BY <1>1
  <2>2. ~(u < t)
    BY <1>2, <2>1 DEF OpToRel
  <2>3. QED
    BY <2>1, <2>2
<1>4. \E x \in DOMAIN mapping : \A u \in DOMAIN mapping : x <= u
  BY <1>3
<1>5. getVerrazzanoTag \in DOMAIN mapping
  BY <1>4 DEF getVerrazzanoTag
<1>6. QED
  BY <1>5, MappingsAssumption

\* The error MissingField keeps DockerConfigJson from a registry without a host.
LEMMA DockerIsHost ==
  ASSUME NEW v \in States, ~MissingField(v)
  PROVE  /\ DockerConfigJson(v) \in Hosts \cup {""}
         /\ v.asked.create <=> (v.asked.registry # <<>> /\ DockerConfigJson(v) # "")
<1> DEFINE r == v.asked.registry
<1>1. v.asked \in Options /\ r \in Seq(STRING \ {""}) /\ v.asked.create \in BOOLEAN
  BY StateFields, OptionsAssumption
<1>2. CASE v.asked.create
  <2>1. r # <<>>
    BY <1>2 DEF MissingField
  <2>2. r[1] \in Hosts
    BY <1>1, <2>1 DEF Hosts
  <2>3. r[1] # ""
    <3> HIDE DEF r
    <3>1. Len(r) \in Nat \ {0}
      BY <1>1, <2>1, EmptySeq
    <3>2. r[1] \in STRING \ {""}
      <4> DEFINE S == STRING \ {""}
      <4>1. r \in Seq(S)
        BY <1>1
      <4>2. 1 \in 1 .. Len(r)
        BY <3>1
      <4> HIDE DEF S
      <4>3. r[1] \in S
        BY <4>1, <4>2, ElementOfSeq
      <4>4. QED
        BY <4>3 DEF S
    <3>3. QED
      BY <3>2
  <2>4. QED
    BY <1>2, <2>1, <2>2, <2>3 DEF DockerConfigJson
<1>3. CASE ~v.asked.create
  <2>1. DockerConfigJson(v) = ""
    BY <1>3 DEF DockerConfigJson
  <2>2. DockerConfigJson(v) \in Hosts \cup {""}
    BY <2>1
  <2>3. QED
    BY <1>3, <2>1, <2>2, Zenon
<1>4. QED
  BY <1>2, <1>3

LEMMA ReturnTyped ==
  ASSUME TypeInv, call # None, NEW ok \in BOOLEAN, Return(ok)
  PROVE  /\ info' \in States \cup {None} /\ (info' # None => info'.actual = 1 /\ info'.tag # 0)
         /\ outcome' \in {"none", "failed", "Create", "Update", "PostCheck"}
         /\ created' \in BOOLEAN /\ call' = None
<1>1. call \in Frames
  BY CallInProgress DEF TypeInv
<1>2. call.op \in {"Create", "Update", "PostCheck"} /\ call.v \in States
  BY <1>1, FrameFields
<1>3. call' = None /\ outcome' \in {"failed", call.op}
  BY DEF Return
<1>4. created' \in BOOLEAN
  BY DEF Return, TypeInv, TypeOK
<1>5. CASE info' = info
  BY <1>2, <1>3, <1>4, <1>5 DEF TypeInv, TypeOK
<1>6. CASE call.at = "put" /\ info' = call.v
  BY <1>2, <1>3, <1>4, <1>6 DEF TypeInv, Looked
<1>7. QED
  BY <1>5, <1>6 DEF Return

\* After a Return, and with the world as it was, the type invariant holds again.
LEMMA ReturnKeepsTypes ==
  ASSUME TypeInv, call # None, NEW ok \in BOOLEAN, Return(ok),
         images' \in [Images -> {0, 1}], subnets' \in [SubnetIds -> SubnetFlags],
         mapping' \in Mappings, trouble' \in 0 .. MaxTrouble
  PROVE  TypeInv'
  BY ReturnTyped DEF TypeInv, TypeOK, Looked

\* A call that goes on in a frame of its own.
LEMMA GoingOnKeepsTypes ==
  ASSUME TypeInv, NEW f \in Frames, call' = f, UNCHANGED caller,
         f.at \in {"subnets", "tag", "put"} => f.v.actual = 1, f.at = "put" => f.v.tag # 0,
         images' \in [Images -> {0, 1}], subnets' \in [SubnetIds -> SubnetFlags],
         mapping' \in Mappings, trouble' \in 0 .. MaxTrouble
  PROVE  TypeInv'
  BY DEF TypeInv, TypeOK, Looked, caller

LEMMA WorldUnchanged ==
  ASSUME TypeInv, UNCHANGED lookups, UNCHANGED trouble
  PROVE  /\ images' \in [Images -> {0, 1}] /\ subnets' \in [SubnetIds -> SubnetFlags]
         /\ mapping' \in Mappings /\ trouble' \in 0 .. MaxTrouble
  BY DEF TypeInv, TypeOK, lookups

LEMMA GotoKeepsTypes ==
  ASSUME TypeInv, call # None, NEW stage \in {"image"}, Goto(stage),
         UNCHANGED lookups, UNCHANGED trouble
  PROVE  TypeInv'
<1>1. call \in Frames
  BY CallInProgress DEF TypeInv
<1>2. [call EXCEPT !.at = stage] \in Frames /\ [call EXCEPT !.at = stage].at = "image"
  BY <1>1 DEF Frames, Stages
<1>3. QED
  BY <1>2, WorldUnchanged, GoingOnKeepsTypes DEF Goto

LEMMA BeginKeepsTypes ==
  ASSUME TypeInv, NEW op \in {"Create", "Update"}, NEW old \in States \cup {None},
         NEW v \in States, Begin(op, old, v), UNCHANGED caller, UNCHANGED lookups,
         UNCHANGED trouble
  PROVE  TypeInv'
<1> DEFINE f == [op |-> op, at |-> "auth", old |-> old, v |-> v, next |-> 1]
<1>1. f \in Frames /\ f.at = "auth"
  BY DEF Frames, Stages, Roles
<1>2. call' = f
  BY DEF Begin
<1> HIDE DEF f
<1>3. QED
  BY <1>1, <1>2, WorldUnchanged, GoingOnKeepsTypes

\* The caller's and the world's steps leave the call alone.
LEMMA CallUntouched ==
  ASSUME TypeInv, UNCHANGED <<caller, call>>,
         images' \in [Images -> {0, 1}], subnets' \in [SubnetIds -> SubnetFlags],
         mapping' \in Mappings, trouble' \in 0 .. MaxTrouble
  PROVE  TypeInv'
  BY DEF TypeInv, TypeOK, Looked, caller

LEMMA TroubleTyped ==
  ASSUME TypeInv, Trouble
  PROVE  trouble' \in 0 .. MaxTrouble
  BY TroubleAssumption DEF TypeInv, TypeOK, Trouble

LEMMA StartKeepsTypes ==
  ASSUME TypeInv, NEW op \in {"Create", "Update"}, NEW old \in States \cup {None},
         NEW o \in Options, Start(op, old, o)
  PROVE  TypeInv'
<1>1. UNCHANGED <<info, created, lookups, objects, trouble>>
  BY DEF Start
<1>2. CASE Begin(op, old, NewFromOptions(o)) /\ UNCHANGED outcome
  BY <1>1, <1>2, NewState, BeginKeepsTypes DEF caller
<1>3. CASE call' = None /\ outcome' = "failed"
  BY <1>1, <1>3 DEF TypeInv, TypeOK, Looked, lookups
<1>4. QED
  BY <1>2, <1>3 DEF Start

LEMMA StartPostCheckKeepsTypes ==
  ASSUME TypeInv, StartPostCheck
  PROVE  TypeInv'
<1> DEFINE f == [op |-> "PostCheck", at |-> "fleet", old |-> None, v |-> info, next |-> 1]
<1>1. info \in States
  BY DEF StartPostCheck, TypeInv, TypeOK
<1>2. f \in Frames /\ f.at = "fleet"
  BY <1>1 DEF Frames, Stages, Roles
<1>3. call' = f /\ UNCHANGED <<caller, lookups, trouble>>
  BY DEF StartPostCheck
<1> HIDE DEF f
<1>4. QED
  BY <1>2, <1>3, WorldUnchanged, GoingOnKeepsTypes

LEMMA SetupKeepsTypes ==
  ASSUME TypeInv, SetupOCIAuth
  PROVE  TypeInv'
<1>1. call # None /\ UNCHANGED <<lookups, trouble>>
  BY DEF SetupOCIAuth, At
<1>2. CASE Goto("image")
  BY <1>1, <1>2, GotoKeepsTypes
<1>3. CASE Return(FALSE)
  BY <1>1, <1>3, ReturnKeepsTypes, WorldUnchanged
<1>4. QED
  BY <1>2, <1>3 DEF SetupOCIAuth

LEMMA SetImageKeepsTypes ==
  ASSUME TypeInv, setImageId
  PROVE  TypeInv'
<1>1. call # None /\ UNCHANGED <<lookups, trouble>> /\ call \in Frames
  BY CallInProgress DEF setImageId, At, TypeInv
<1>2. CASE Return(FALSE)
  BY <1>1, <1>2, ReturnKeepsTypes, WorldUnchanged
<1>3. CASE images[call.v.asked.image] # 0 /\ ~Return(FALSE)
  <2> DEFINE x == images[call.v.asked.image]
             v == [call.v EXCEPT !.listed = <<>>, !.actual = x]
             f == [call EXCEPT !.at = "subnets", !.next = 1, !.v = v]
  <2>1. call.v \in States /\ call.v.asked \in Options
    BY <1>1, FrameFields, StateFields
  <2>2. call.v.asked.image \in Images
    BY <2>1, OptionsAssumption
  <2>3. x = 1
    BY <1>3, <2>2 DEF TypeInv, TypeOK
  <2>4. <<>> \in Seq(Listings)
    OBVIOUS
  <2>5. v \in States /\ v.actual = 1
    BY <2>1, <2>3, <2>4, ChangedStates DEF States
  <2>6. call' = f /\ UNCHANGED caller
    BY <1>1, <1>3, <2>1 DEF setImageId, Frames, States
  <2> HIDE DEF v
  <2>7. f \in Frames /\ f.at = "subnets" /\ f.v = v
    <3>1. "subnets" \in Stages /\ 1 \in 1 .. 5
      BY DEF Stages
    <3>2. call \in Frames /\ v \in States
      BY <1>1, <2>5
    <3>3. QED
      BY <3>1, <3>2, FrameSet
  <2> HIDE DEF f
  <2>8. QED
    BY <1>1, <2>5, <2>6, <2>7, WorldUnchanged, GoingOnKeepsTypes
<1>4. QED
  BY <1>2, <1>3 DEF setImageId

LEMMA RoleOf ==
  ASSUME NEW k \in 1 .. 4
  PROVE  Roles[k] \in RoleNames
<1>1. DOMAIN Roles = 1 .. 4
  BY DEF Roles
<1>2. QED
  BY <1>1 DEF RoleNames

\* The subnet found for a role that has one.
LEMMA SubnetTyped ==
  ASSUME NEW v \in States, NEW k \in 1 .. 4, v.networking[Roles[k]] # ""
  PROVE  SubnetForRole(v, Roles[k]) \in Listings
<1>1. v.networking[Roles[k]] \in SubnetIds /\ Roles[k] \in RoleNames
  BY StateFields, RoleOf
<1>2. SubnetAccess(subnets[v.networking[Roles[k]]]) \in {"public", "private"}
  BY DEF SubnetAccess
<1>3. QED
  BY <1>1, <1>2 DEF SubnetForRole, Listings

\* What addSubnetForRole does when it goes on.
LEMMA SubnetStep ==
  ASSUME TypeInv, addSubnetForRole, ~Return(FALSE)
  PROVE  \E l \in Seq(Listings) :
           LET r == Roles[call.next]
           IN  /\ l = IF call.v.networking[r] = "" THEN call.v.listed
                      ELSE Append(call.v.listed, SubnetForRole(call.v, r))
               /\ call' = [call EXCEPT !.next = call.next + 1,
                                       !.v = [call.v EXCEPT !.listed = l]]
               /\ UNCHANGED caller
<1> DEFINE r == Roles[call.next]
           l == IF call.v.networking[r] = "" THEN call.v.listed
                ELSE Append(call.v.listed, SubnetForRole(call.v, r))
<1>1. call \in Frames /\ call.next <= Len(Roles)
  BY CallInProgress DEF addSubnetForRole, At, TypeInv
<1>2. call.next \in 1 .. 4 /\ call.v \in States
  <2>1. Len(Roles) = 4
    BY DEF Roles
  <2>2. QED
    BY <1>1, <2>1, FrameFields
<1>3. call.v.listed \in Seq(Listings)
  BY <1>2, StateFields
<1>4. l \in Seq(Listings)
  BY <1>2, <1>3, SubnetTyped, AppendProperties
<1>5. /\ call' = [call EXCEPT !.next = call.next + 1, !.v.listed = l]
      /\ UNCHANGED caller
  BY DEF addSubnetForRole
<1>6. [call EXCEPT !.next = call.next + 1, !.v.listed = l]
        = [call EXCEPT !.next = call.next + 1, !.v = [call.v EXCEPT !.listed = l]]
  <2> HIDE DEF l
  <2>1. QED
    BY <1>1, FrameSet
<1>7. QED
  BY <1>4, <1>5, <1>6

LEMMA AddSubnetKeepsTypes ==
  ASSUME TypeInv, addSubnetForRole
  PROVE  TypeInv'
<1>1. call # None /\ UNCHANGED <<lookups, trouble>> /\ call \in Frames /\ call.at = "subnets"
  BY CallInProgress DEF addSubnetForRole, At, TypeInv
<1>2. CASE Return(FALSE)
  BY <1>1, <1>2, ReturnKeepsTypes, WorldUnchanged
<1>3. CASE ~Return(FALSE)
  <2>1. PICK l \in Seq(Listings) :
          /\ call' = [call EXCEPT !.next = call.next + 1, !.v = [call.v EXCEPT !.listed = l]]
          /\ UNCHANGED caller
    BY <1>3, SubnetStep
  <2> DEFINE v == [call.v EXCEPT !.listed = l]
             f == [call EXCEPT !.next = call.next + 1, !.v = v]
  <2>2. call.v \in States /\ call.v.actual = 1
    BY <1>1, FrameFields DEF TypeInv, Looked
  <2>3. v \in States /\ v.actual = 1
    BY <2>2, ChangedStates DEF States
  <2>4. call.next + 1 \in 1 .. 5
    <3>1. Len(Roles) = 4 /\ call.next <= Len(Roles)
      BY DEF Roles, addSubnetForRole
    <3>2. QED
      BY <1>1, <3>1, FrameFields
  <2>5. call' = f
    BY <2>1
  <2> HIDE DEF v
  <2>6. f \in Frames /\ f.at = "subnets" /\ f.v = v
    BY <1>1, <2>3, <2>4, FrameSet
  <2> HIDE DEF f
  <2>7. QED
    BY <1>1, <2>1, <2>3, <2>5, <2>6, WorldUnchanged, GoingOnKeepsTypes
<1>4. QED
  BY <1>2, <1>3

LEMMA DockerKeepsTypes ==
  ASSUME TypeInv, SetDockerConfigJson
  PROVE  TypeInv'
<1>1. call # None /\ UNCHANGED <<lookups, trouble>> /\ call \in Frames /\ call.at = "subnets"
  BY CallInProgress DEF SetDockerConfigJson, At, TypeInv
<1>2. CASE Return(FALSE)
  BY <1>1, <1>2, ReturnKeepsTypes, WorldUnchanged
<1>3. CASE ~MissingField(call.v) /\ ~Return(FALSE)
  <2> DEFINE v == [call.v EXCEPT !.docker = DockerConfigJson(call.v)]
             f == [call EXCEPT !.at = "tag", !.v = v]
  <2>1. call.v \in States /\ call.v.actual = 1
    BY <1>1, FrameFields DEF TypeInv, Looked
  <2>2. DockerConfigJson(call.v) \in Hosts \cup {""}
    BY <1>3, <2>1, DockerIsHost
  <2>3. v \in States /\ v.actual = 1
    BY <2>1, <2>2, ChangedStates DEF States
  <2>4. call' = f /\ UNCHANGED caller
    BY <1>1, <1>3, FrameSet DEF SetDockerConfigJson
  <2> HIDE DEF v
  <2>5. f \in Frames /\ f.at = "tag" /\ f.v = v
    <3>1. "tag" \in Stages
      BY DEF Stages
    <3>2. QED
      BY <1>1, <2>3, <3>1, FrameSet
  <2> HIDE DEF f
  <2>6. QED
    BY <1>1, <2>3, <2>4, <2>5, WorldUnchanged, GoingOnKeepsTypes
<1>4. QED
  BY <1>2, <1>3 DEF SetDockerConfigJson

LEMMA TagKeepsTypes ==
  ASSUME TypeInv, setVerrazzanoTag
  PROVE  TypeInv'
<1>1. call # None /\ UNCHANGED <<lookups, trouble>> /\ call \in Frames /\ call.at = "tag"
  BY CallInProgress DEF setVerrazzanoTag, At, TypeInv
<1>2. CASE Return(FALSE)
  BY <1>1, <1>2, ReturnKeepsTypes, WorldUnchanged
<1>3. CASE DOMAIN mapping # {} /\ ~Return(FALSE)
  <2> DEFINE v == [call.v EXCEPT !.tag = getVerrazzanoTag]
             f == [call EXCEPT !.at = "put", !.v = v]
  <2>1. call.v \in States /\ call.v.actual = 1
    BY <1>1, FrameFields DEF TypeInv, Looked
  <2>2. getVerrazzanoTag \in Nat \ {0}
    BY <1>3, FirstTag DEF TypeInv, TypeOK
  <2>3. v \in States /\ v.actual = 1 /\ v.tag # 0
    BY <2>1, <2>2, ChangedStates DEF States
  <2>4. UNCHANGED caller
    BY <1>3 DEF setVerrazzanoTag
  <2>5. CASE call.old # None
    <3> DEFINE w == SetUpdateValues(call.old, v)
    <3>1. Begin("Update", None, w)
      BY <1>3, <2>5 DEF setVerrazzanoTag
    <3>2. call.old \in States
      BY <1>1, <2>5, FrameFields
    <3>3. v.asked \in Options
      BY <2>3, StateFields
    <3>4. w \in States
      BY <3>2, <3>3, ChangedStates DEF SetUpdateValues
    <3> HIDE DEF w
    <3>5. QED
      BY <1>1, <2>4, <3>1, <3>4, BeginKeepsTypes
  <2>6. CASE call.old = None
    <3>1. call' = f
      BY <1>3, <2>6 DEF setVerrazzanoTag
    <3> HIDE DEF v
    <3>2. f \in Frames /\ f.at = "put" /\ f.v = v
      <4>1. "put" \in Stages
        BY DEF Stages
      <4>2. QED
        BY <1>1, <2>3, <4>1, FrameSet
    <3> HIDE DEF f
    <3>3. QED
      BY <1>1, <2>3, <2>4, <3>1, <3>2, WorldUnchanged, GoingOnKeepsTypes
  <2>7. QED
    BY <2>5, <2>6
<1>4. QED
  BY <1>2, <1>3 DEF setVerrazzanoTag

LEMMA PutsKeepTypes ==
  ASSUME TypeInv, PutOCIManagedCluster \/ UpdateVerrazzano
  PROVE  TypeInv'
<1>1. call # None /\ UNCHANGED <<lookups, trouble>> /\ \E ok \in BOOLEAN : Return(ok)
  BY DEF PutOCIManagedCluster, UpdateVerrazzano, At
<1>2. QED
  BY <1>1, ReturnKeepsTypes, WorldUnchanged

LEMMA RequestFailsKeepsTypes ==
  ASSUME TypeInv, RequestFails
  PROVE  TypeInv'
<1>1. call # None /\ Return(FALSE) /\ Trouble /\ UNCHANGED lookups
  BY DEF RequestFails
<1>2. /\ images' \in [Images -> {0, 1}] /\ subnets' \in [SubnetIds -> SubnetFlags]
      /\ mapping' \in Mappings
  BY <1>1 DEF TypeInv, TypeOK, lookups
<1>3. QED
  BY <1>1, <1>2, TroubleTyped, ReturnKeepsTypes

LEMMA WorldKeepsTypes ==
  ASSUME TypeInv,
         \/ ImagesChange \/ SubnetChanges \/ VerrazzanoUpgraded
         \/ FleetReconciled \/ FleetGone \/ UNCHANGED vars
  PROVE  TypeInv'
<1>1. CASE ImagesChange
  <2>1. images' \in [Images -> {0, 1}]
    BY <1>1 DEF ImagesChange, TypeInv, TypeOK
  <2>2. Trouble /\ UNCHANGED <<caller, call, subnets, mapping>>
    BY <1>1 DEF ImagesChange
  <2>3. subnets' \in [SubnetIds -> SubnetFlags] /\ mapping' \in Mappings
    BY <2>2 DEF TypeInv, TypeOK
  <2>4. QED
    BY <2>1, <2>2, <2>3, TroubleTyped, CallUntouched
<1>2. CASE SubnetChanges
  <2>1. subnets' \in [SubnetIds -> SubnetFlags]
    BY <1>2 DEF SubnetChanges, TypeInv, TypeOK
  <2>2. Trouble /\ UNCHANGED <<caller, call, images, mapping>>
    BY <1>2 DEF SubnetChanges
  <2>3. images' \in [Images -> {0, 1}] /\ mapping' \in Mappings
    BY <2>2 DEF TypeInv, TypeOK
  <2>4. QED
    BY <2>1, <2>2, <2>3, TroubleTyped, CallUntouched
<1>3. CASE VerrazzanoUpgraded
  <2>1. mapping' \in Mappings /\ Trouble /\ UNCHANGED <<caller, call, images, subnets>>
    BY <1>3 DEF VerrazzanoUpgraded
  <2>2. images' \in [Images -> {0, 1}] /\ subnets' \in [SubnetIds -> SubnetFlags]
    BY <2>1 DEF TypeInv, TypeOK
  <2>3. QED
    BY <2>1, <2>2, TroubleTyped, CallUntouched
<1>4. CASE FleetReconciled \/ FleetGone \/ UNCHANGED vars
  <2>1. UNCHANGED <<caller, call>> /\ UNCHANGED lookups /\ UNCHANGED trouble
    BY <1>4 DEF FleetReconciled, FleetGone, vars
  <2>2. QED
    BY <2>1, WorldUnchanged, CallUntouched
<1>5. QED
  BY <1>1, <1>2, <1>3, <1>4

LEMMA TypesInitially == Init => TypeInv
<1> SUFFICES ASSUME Init PROVE TypeInv
  OBVIOUS
<1>1. 0 \in 0 .. MaxTrouble
  BY TroubleAssumption
<1>2. [i \in Images |-> 1] \in [Images -> {0, 1}]
  OBVIOUS
<1>3. QED
  BY <1>1, <1>2 DEF Init, TypeInv, TypeOK, Looked

LEMMA TypesStep == TypeInv /\ [Next]_vars => TypeInv'
<1> SUFFICES ASSUME TypeInv, [Next]_vars PROVE TypeInv'
  OBVIOUS
<1>1. ASSUME NEW o \in Options, StartCreate(o) \/ StartUpdate(o)
      PROVE  TypeInv'
  <2>1. CASE StartCreate(o)
    BY <2>1, StartKeepsTypes DEF StartCreate
  <2>2. CASE StartUpdate(o)
    <3>1. info \in States /\ Start("Update", info, o)
      BY <2>2 DEF StartUpdate, TypeInv, TypeOK
    <3>2. QED
      BY <3>1, StartKeepsTypes
  <2>3. QED
    BY <1>1, <2>1, <2>2
<1>2. CASE StartPostCheck
  BY <1>2, StartPostCheckKeepsTypes
<1>3. CASE Work
  BY <1>3, SetupKeepsTypes, SetImageKeepsTypes, AddSubnetKeepsTypes, DockerKeepsTypes,
     TagKeepsTypes, PutsKeepTypes DEF Work
<1>4. CASE RequestFails
  BY <1>4, RequestFailsKeepsTypes
<1>5. CASE \/ ImagesChange \/ SubnetChanges \/ VerrazzanoUpgraded
           \/ FleetReconciled \/ FleetGone \/ UNCHANGED vars
  BY <1>5, WorldKeepsTypes
<1>6. QED
  BY <1>1, <1>2, <1>3, <1>4, <1>5 DEF Next

LEMMA Types == Spec => []TypeInv
  BY TypesInitially, TypesStep, PTL DEF Spec

\* The caller's state, the call and the world have their types; what is stored has
\* an image that was found and a tag, whatever failed or changed before.
THEOREM Typing == Spec => []TypeOK
<1>1. TypeInv => TypeOK
  BY DEF TypeInv
<1>2. QED
  BY <1>1, Types, PTL

-----------------------------------------------------------------------------
(* The subnets and the docker configuration: a call has listed the roles   *)
(* it is past, and its docker configuration goes with its options once it  *)
(* has been set, even in an Update that started from an older state.       *)

Coherent(v) == v.docker = DockerConfigJson(v) /\ ~MissingField(v)

Complete(v) == ListsRoles(v, 4) /\ Coherent(v)

Resolved ==
  /\ info # None => Complete(info)
  /\ call # None =>
       /\ call.at = "subnets" => ListsRoles(call.v, call.next - 1)
       /\ call.at \in {"tag", "put"} => Complete(call.v)

ResolvedInv == TypeInv /\ Resolved

LEMMA SameLists ==
  ASSUME NEW v, NEW w, NEW n \in Nat, ListsRoles(v, n),
         w.listed = v.listed, w.networking = v.networking
  PROVE  ListsRoles(w, n)
<1>1. \A i, k : Lists(w, i, k) <=> Lists(v, i, k)
  BY DEF Lists
<1>2. \A k : HasSubnet(w, k) <=> HasSubnet(v, k)
  BY DEF HasSubnet
<1>3. DOMAIN w.listed = DOMAIN v.listed
  OBVIOUS
<1>4. QED
  BY <1>1, <1>2, <1>3 DEF ListsRoles

LEMMA NothingListed ==
  ASSUME NEW v, v.listed = <<>>
  PROVE  ListsRoles(v, 0)
<1>1. DOMAIN v.listed = {}
  OBVIOUS
<1>2. 1 .. 0 = {}
  OBVIOUS
<1>3. QED
  BY <1>1, <1>2 DEF ListsRoles

LEMMA RolesDiffer ==
  ASSUME NEW v, NEW i, NEW k \in 1 .. 4, NEW l \in 1 .. 4, Lists(v, i, k), Lists(v, i, l)
  PROVE  k = l
<1>1. Roles[k] = Roles[l]
  BY DEF Lists
<1>2. QED
  BY <1>1 DEF Roles

LEMMA RoleBounds ==
  ASSUME NEW n \in 1 .. 4
  PROVE  /\ n - 1 \in Nat /\ n \in Nat
         /\ \A k \in 1 .. n : k \in 1 .. 4 /\ (k = n \/ k \in 1 .. n - 1)
         /\ \A k \in 1 .. n - 1 : k \in 1 .. n /\ k \in 1 .. 4 /\ k < n
  OBVIOUS

\* A role without a subnet is passed over.
LEMMA ListsRoleWithout ==
  ASSUME NEW v \in States, NEW n \in 1 .. 4, ListsRoles(v, n - 1), ~HasSubnet(v, n)
  PROVE  ListsRoles(v, n)
<1> DEFINE D == DOMAIN v.listed
<1>1. /\ \A k \in 1 .. n - 1 : HasSubnet(v, k) => \E i \in D : Lists(v, i, k)
      /\ \A i \in D : \E k \in 1 .. n - 1 : Lists(v, i, k) /\ HasSubnet(v, k)
      /\ \A i, j \in D, k, l \in 1 .. n - 1 :
           i < j /\ Lists(v, i, k) /\ Lists(v, j, l) => k < l
  BY DEF ListsRoles
<1> HIDE DEF D
<1>2. ASSUME NEW i \in D, NEW k \in 1 .. n, Lists(v, i, k)
      PROVE  k \in 1 .. n - 1
  <2>1. PICK m \in 1 .. n - 1 : Lists(v, i, m)
    BY <1>1
  <2>2. k = m
    BY <1>2, <2>1, RoleBounds, RolesDiffer
  <2>3. QED
    BY <2>2
<1>3. ASSUME NEW k \in 1 .. n, HasSubnet(v, k) PROVE \E i \in D : Lists(v, i, k)
  BY <1>1, <1>3, RoleBounds
<1>4. ASSUME NEW i \in D PROVE \E k \in 1 .. n : Lists(v, i, k) /\ HasSubnet(v, k)
  BY <1>1, RoleBounds
<1>5. ASSUME NEW i \in D, NEW j \in D, NEW k \in 1 .. n, NEW l \in 1 .. n,
             i < j, Lists(v, i, k), Lists(v, j, l)
      PROVE  k < l
  <2>1. k \in 1 .. n - 1 /\ l \in 1 .. n - 1
    BY <1>2, <1>5
  <2>2. QED
    BY <1>1, <1>5, <2>1
<1>6. QED
  BY <1>3, <1>4, <1>5 DEF ListsRoles, D

\* A role with a subnet comes to the end of the list.
LEMMA ListsRoleWith ==
  ASSUME NEW v \in States, NEW n \in 1 .. 4, ListsRoles(v, n - 1), HasSubnet(v, n),
         NEW x \in Listings, x.role = Roles[n], x.id = v.networking[Roles[n]],
         NEW w, w.networking = v.networking, w.listed = Append(v.listed, x)
  PROVE  ListsRoles(w, n)
<1> DEFINE D == DOMAIN v.listed
           E == DOMAIN w.listed
           top == Len(v.listed) + 1
<1>1. /\ \A k \in 1 .. n - 1 : HasSubnet(v, k) => \E i \in D : Lists(v, i, k)
      /\ \A i \in D : \E k \in 1 .. n - 1 : Lists(v, i, k) /\ HasSubnet(v, k)
      /\ \A i, j \in D, k, l \in 1 .. n - 1 :
           i < j /\ Lists(v, i, k) /\ Lists(v, j, l) => k < l
  BY DEF ListsRoles
<1>2. v.listed \in Seq(Listings)
  BY StateFields
<1>3. /\ Len(v.listed) \in Nat /\ D = 1 .. Len(v.listed) /\ E = 1 .. top
      /\ \A i \in D : w.listed[i] = v.listed[i]
      /\ w.listed[top] = x
  BY <1>2
<1>4. \A i \in D : \A k : Lists(w, i, k) <=> Lists(v, i, k)
  BY <1>3 DEF Lists
<1>5. Lists(w, top, n)
  BY <1>3 DEF Lists
<1>6. \A k : HasSubnet(w, k) <=> HasSubnet(v, k)
  BY DEF HasSubnet
<1>7. /\ top \in E /\ \A i \in D : i \in E /\ i < top
      /\ \A i \in E : i \in D \/ i = top
      /\ \A i, j \in E : i < j => i \in D
  BY <1>3
<1> HIDE DEF D, E, top
<1>8. ASSUME NEW i \in D, NEW k \in 1 .. n, Lists(v, i, k)
      PROVE  k \in 1 .. n - 1
  <2>1. PICK m \in 1 .. n - 1 : Lists(v, i, m)
    BY <1>1
  <2>2. k = m
    BY <1>8, <2>1, RoleBounds, RolesDiffer
  <2>3. QED
    BY <2>2
<1>9. ASSUME NEW k \in 1 .. n, HasSubnet(w, k) PROVE \E i \in E : Lists(w, i, k)
  <2>1. CASE k = n
    BY <1>5, <1>7, <2>1
  <2>2. CASE k \in 1 .. n - 1
    BY <1>1, <1>4, <1>6, <1>7, <1>9, <2>2
  <2>3. QED
    BY <2>1, <2>2, RoleBounds
<1>10. ASSUME NEW i \in E PROVE \E k \in 1 .. n : Lists(w, i, k) /\ HasSubnet(w, k)
  <2>1. CASE i \in D
    <3>1. PICK k \in 1 .. n - 1 : Lists(v, i, k) /\ HasSubnet(v, k)
      BY <1>1, <2>1
    <3>2. k \in 1 .. n /\ Lists(w, i, k) /\ HasSubnet(w, k)
      BY <1>4, <1>6, <2>1, <3>1, RoleBounds
    <3>3. QED
      BY <3>2
  <2>2. CASE i = top
    BY <1>5, <1>6, <2>2
  <2>3. QED
    BY <1>7, <2>1, <2>2
<1>11. ASSUME NEW i \in E, NEW j \in E, NEW k \in 1 .. n, NEW l \in 1 .. n,
              i < j, Lists(w, i, k), Lists(w, j, l)
       PROVE  k < l
  <2>1. i \in D /\ Lists(v, i, k)
    BY <1>4, <1>7, <1>11
  <2>2. k \in 1 .. n - 1
    BY <1>8, <2>1
  <2>3. CASE j \in D
    <3>1. Lists(v, j, l)
      BY <1>4, <1>11, <2>3
    <3>2. l \in 1 .. n - 1
      BY <1>8, <2>3, <3>1
    <3>3. QED
      BY <1>1, <1>11, <2>1, <2>2, <2>3, <3>1, <3>2
  <2>4. CASE j = top
    <3>1. l = n
      BY <1>5, <1>11, <2>4, RoleBounds, RolesDiffer
    <3>2. QED
      BY <2>2, <3>1, RoleBounds
  <2>5. QED
    BY <1>7, <2>3, <2>4
<1>12. QED
  BY <1>9, <1>10, <1>11 DEF ListsRoles, E

LEMMA PrimedResolved ==
  /\ Complete(info)' <=> Complete(info')
  /\ Complete(call.v)' <=> Complete(call'.v)
  /\ ListsRoles(call.v, call.next - 1)' <=> ListsRoles(call'.v, call'.next - 1)
  BY DEF Complete, ListsRoles, Lists, HasSubnet, Coherent, DockerConfigJson, MissingField

LEMMA ReturnKeepsResolved ==
  ASSUME ResolvedInv, call # None, NEW ok \in BOOLEAN, Return(ok)
  PROVE  Resolved'
<1>1. call' = None /\ (info' = info \/ (call.at = "put" /\ info' = call.v))
  BY DEF Return
<1>2. info' # None => Complete(info')
  BY <1>1 DEF ResolvedInv, Resolved
<1>3. QED
  BY <1>1, <1>2, PrimedResolved DEF Resolved

\* A call that goes on in a frame of its own.
LEMMA GoingOnKeepsResolved ==
  ASSUME ResolvedInv, NEW f, call' = f, UNCHANGED caller,
         f.at = "subnets" => ListsRoles(f.v, f.next - 1),
         f.at \in {"tag", "put"} => Complete(f.v)
  PROVE  Resolved'
<1>1. info' = info
  BY DEF caller
<1>2. info # None => Complete(info)
  BY DEF ResolvedInv, Resolved
<1>3. QED
  BY <1>1, <1>2, PrimedResolved DEF Resolved

LEMMA UntouchedKeepsResolved ==
  ASSUME ResolvedInv, UNCHANGED <<caller, call>>
  PROVE  Resolved'
  BY PrimedResolved DEF ResolvedInv, Resolved, caller

LEMMA BeginKeepsResolved ==
  ASSUME ResolvedInv, NEW op, NEW old, NEW v, Begin(op, old, v), UNCHANGED caller
  PROVE  Resolved'
<1>1. call'.at = "auth"
  BY DEF Begin
<1>2. QED
  BY <1>1, GoingOnKeepsResolved

LEMMA StartKeepsResolved ==
  ASSUME ResolvedInv, NEW op, NEW old, NEW o, Start(op, old, o)
  PROVE  Resolved'
<1>1. info' = info /\ created' = created
  BY DEF Start
<1>2. CASE Begin(op, old, NewFromOptions(o)) /\ UNCHANGED outcome
  BY <1>1, <1>2, BeginKeepsResolved DEF caller
<1>3. CASE call' = None
  <2>1. info # None => Complete(info)
    BY DEF ResolvedInv, Resolved
  <2>2. QED
    BY <1>1, <1>3, <2>1, PrimedResolved DEF Resolved
<1>4. QED
  BY <1>2, <1>3 DEF Start

LEMMA StartPostCheckKeepsResolved ==
  ASSUME ResolvedInv, StartPostCheck
  PROVE  Resolved'
<1>1. call'.at = "fleet" /\ UNCHANGED caller
  BY DEF StartPostCheck
<1>2. QED
  BY <1>1, GoingOnKeepsResolved

LEMMA SetupKeepsResolved ==
  ASSUME ResolvedInv, SetupOCIAuth
  PROVE  Resolved'
<1>1. call # None /\ call \in Frames
  BY CallInProgress DEF SetupOCIAuth, At, ResolvedInv, TypeInv
<1>2. CASE Return(FALSE)
  BY <1>1, <1>2, ReturnKeepsResolved
<1>3. CASE Goto("image")
  <2>1. call'.at = "image" /\ UNCHANGED caller
    BY <1>1, <1>3, FrameSet DEF Goto
  <2>2. QED
    BY <2>1, GoingOnKeepsResolved
<1>4. QED
  BY <1>2, <1>3 DEF SetupOCIAuth

LEMMA SetImageKeepsResolved ==
  ASSUME ResolvedInv, setImageId
  PROVE  Resolved'
<1>1. call # None /\ call \in Frames /\ call.v \in States
  BY CallInProgress, FrameFields DEF setImageId, At, ResolvedInv, TypeInv
<1>2. CASE Return(FALSE)
  BY <1>1, <1>2, ReturnKeepsResolved
<1>3. CASE ~Return(FALSE)
  <2> DEFINE x == images[call.v.asked.image]
             v == [call.v EXCEPT !.listed = <<>>, !.actual = x]
             f == [call EXCEPT !.at = "subnets", !.next = 1, !.v = v]
  <2>1. call' = f /\ UNCHANGED caller
    BY <1>1, <1>3 DEF setImageId, Frames, States
  <2>2. v.listed = <<>>
    BY <1>1 DEF States
  <2> HIDE DEF v
  <2>3. f.at = "subnets" /\ f.next = 1 /\ f.v = v
    BY <1>1, FrameSet
  <2> HIDE DEF f
  <2>4. ListsRoles(f.v, f.next - 1)
    BY <2>2, <2>3, NothingListed
  <2>5. QED
    BY <2>1, <2>3, <2>4, GoingOnKeepsResolved
<1>4. QED
  BY <1>2, <1>3

LEMMA AddSubnetKeepsResolved ==
  ASSUME ResolvedInv, addSubnetForRole
  PROVE  Resolved'
<1>1. call # None /\ call \in Frames /\ call.at = "subnets" /\ call.next <= 4
  <2>1. Len(Roles) = 4
    BY DEF Roles
  <2>2. QED
    BY <2>1, CallInProgress DEF addSubnetForRole, At, ResolvedInv, TypeInv
<1>2. CASE Return(FALSE)
  BY <1>1, <1>2, ReturnKeepsResolved
<1>3. CASE ~Return(FALSE)
  <2> DEFINE n == call.next
             r == Roles[n]
  <2>1. PICK l \in Seq(Listings) :
          /\ l = IF call.v.networking[r] = "" THEN call.v.listed
                 ELSE Append(call.v.listed, SubnetForRole(call.v, r))
          /\ call' = [call EXCEPT !.next = n + 1, !.v = [call.v EXCEPT !.listed = l]]
          /\ UNCHANGED caller
    BY <1>3, SubnetStep DEF ResolvedInv
  <2> DEFINE v == [call.v EXCEPT !.listed = l]
             f == [call EXCEPT !.next = n + 1, !.v = v]
  <2>2. call.v \in States /\ n \in 1 .. 4 /\ ListsRoles(call.v, n - 1)
    BY <1>1, FrameFields DEF ResolvedInv, Resolved
  <2>3. v.listed = l /\ v.networking = call.v.networking
    BY <2>2 DEF States
  <2>4. ListsRoles(v, n)
    <3>1. CASE ~HasSubnet(call.v, n)
      <4>1. l = call.v.listed
        BY <2>1, <3>1 DEF HasSubnet
      <4>2. QED
        <5>1. ListsRoles(call.v, n)
          BY <2>2, <3>1, ListsRoleWithout
        <5>2. v.listed = call.v.listed /\ v.networking = call.v.networking
          BY <2>3, <4>1
        <5>3. n \in Nat
          BY <2>2
        <5> HIDE DEF v
        <5>4. QED
          BY <5>1, <5>2, <5>3, SameLists
    <3>2. CASE HasSubnet(call.v, n)
      <4> DEFINE x == SubnetForRole(call.v, r)
      <4>1. l = Append(call.v.listed, x)
        BY <2>1, <3>2 DEF HasSubnet
      <4>2. x \in Listings
        BY <2>2, <3>2, SubnetTyped DEF HasSubnet
      <4>3. x.role = Roles[n] /\ x.id = call.v.networking[Roles[n]]
        BY DEF SubnetForRole
      <4> HIDE DEF x, v
      <4>4. QED
        BY <2>2, <2>3, <3>2, <4>1, <4>2, <4>3, ListsRoleWith
    <3>3. QED
      BY <3>1, <3>2
  <2>5. call' = f
    BY <2>1
  <2> HIDE DEF v
  <2>6. f.at = "subnets" /\ f.next - 1 = n /\ f.v = v
    BY <1>1, <2>2, FrameSet
  <2> HIDE DEF f, n
  <2>7. QED
    BY <2>1, <2>4, <2>5, <2>6, GoingOnKeepsResolved
<1>4. QED
  BY <1>2, <1>3

LEMMA DockerKeepsResolved ==
  ASSUME ResolvedInv, SetDockerConfigJson
  PROVE  Resolved'
<1>1. call # None /\ call \in Frames /\ call.at = "subnets" /\ call.next = 5
  <2>1. Len(Roles) = 4
    BY DEF Roles
  <2>2. call # None /\ call \in Frames /\ call.at = "subnets"
    BY CallInProgress DEF SetDockerConfigJson, At, ResolvedInv, TypeInv
  <2>3. QED
    BY <2>1, <2>2, FrameFields DEF SetDockerConfigJson
<1>2. CASE Return(FALSE)
  BY <1>1, <1>2, ReturnKeepsResolved
<1>3. CASE ~MissingField(call.v) /\ ~Return(FALSE)
  <2> DEFINE v == [call.v EXCEPT !.docker = DockerConfigJson(call.v)]
             f == [call EXCEPT !.at = "tag", !.v = v]
  <2>1. call.v \in States /\ ListsRoles(call.v, 4)
    BY <1>1, FrameFields DEF ResolvedInv, Resolved
  <2>2. /\ v.listed = call.v.listed /\ v.networking = call.v.networking
        /\ v.asked = call.v.asked /\ v.docker = DockerConfigJson(call.v)
    BY <2>1 DEF States
  <2>3. call' = f /\ UNCHANGED caller
    BY <1>1, <1>3, FrameSet DEF SetDockerConfigJson
  <2> HIDE DEF v
  <2>4. ListsRoles(v, 4)
    BY <2>1, <2>2, SameLists
  <2>5. Coherent(v)
    BY <1>3, <2>2 DEF Coherent, DockerConfigJson, MissingField
  <2>6. f.at = "tag" /\ f.v = v
    BY <1>1, FrameSet
  <2> HIDE DEF f
  <2>7. QED
    BY <2>3, <2>4, <2>5, <2>6, GoingOnKeepsResolved DEF Complete
<1>4. QED
  BY <1>2, <1>3 DEF SetDockerConfigJson

LEMMA TagKeepsResolved ==
  ASSUME ResolvedInv, setVerrazzanoTag
  PROVE  Resolved'
<1>1. call # None /\ call \in Frames /\ call.at = "tag"
  BY CallInProgress DEF setVerrazzanoTag, At, ResolvedInv, TypeInv
<1>2. CASE Return(FALSE)
  BY <1>1, <1>2, ReturnKeepsResolved
<1>3. CASE ~Return(FALSE)
  <2> DEFINE v == [call.v EXCEPT !.tag = getVerrazzanoTag]
             f == [call EXCEPT !.at = "put", !.v = v]
  <2>1. UNCHANGED caller
    BY <1>3 DEF setVerrazzanoTag
  <2>2. CASE call.old # None
    BY <1>3, <2>1, <2>2, BeginKeepsResolved DEF setVerrazzanoTag
  <2>3. CASE call.old = None
    <3>1. call' = f
      BY <1>3, <2>3 DEF setVerrazzanoTag
    <3>2. call.v \in States /\ Complete(call.v)
      BY <1>1, FrameFields DEF ResolvedInv, Resolved
    <3>3. /\ v.listed = call.v.listed /\ v.networking = call.v.networking
          /\ v.asked = call.v.asked /\ v.docker = call.v.docker
      BY <3>2 DEF States
    <3> HIDE DEF v
    <3>4. ListsRoles(v, 4)
      BY <3>2, <3>3, SameLists DEF Complete
    <3>5. Coherent(v)
      BY <3>2, <3>3 DEF Complete, Coherent, DockerConfigJson, MissingField
    <3>6. f.at = "put" /\ f.v = v
      BY <1>1, FrameSet
    <3> HIDE DEF f
    <3>7. QED
      BY <2>1, <3>1, <3>4, <3>5, <3>6, GoingOnKeepsResolved DEF Complete
  <2>4. QED
    BY <2>2, <2>3
<1>4. QED
  BY <1>2, <1>3

LEMMA ResolvedInitially == Init => ResolvedInv
  BY TypesInitially DEF Init, ResolvedInv, Resolved

LEMMA ResolvedStep == ResolvedInv /\ [Next]_vars => ResolvedInv'
<1> SUFFICES ASSUME ResolvedInv, [Next]_vars PROVE Resolved'
  BY TypesStep DEF ResolvedInv
<1>1. ASSUME NEW o \in Options, StartCreate(o) \/ StartUpdate(o)
      PROVE  Resolved'
  BY <1>1, StartKeepsResolved DEF StartCreate, StartUpdate
<1>2. CASE StartPostCheck
  BY <1>2, StartPostCheckKeepsResolved
<1>3. CASE PutOCIManagedCluster \/ UpdateVerrazzano \/ RequestFails
  <2>1. call # None /\ \E ok \in BOOLEAN : Return(ok)
    BY <1>3 DEF PutOCIManagedCluster, UpdateVerrazzano, RequestFails, At
  <2>2. QED
    BY <2>1, ReturnKeepsResolved
<1>4. CASE Work
  BY <1>3, <1>4, SetupKeepsResolved, SetImageKeepsResolved, AddSubnetKeepsResolved,
     DockerKeepsResolved, TagKeepsResolved DEF Work
<1>5. CASE \/ ImagesChange \/ SubnetChanges \/ VerrazzanoUpgraded
           \/ FleetReconciled \/ FleetGone \/ UNCHANGED vars
  <2>1. UNCHANGED <<caller, call>>
    BY <1>5 DEF ImagesChange, SubnetChanges, VerrazzanoUpgraded, FleetReconciled,
       FleetGone, vars
  <2>2. QED
    BY <2>1, UntouchedKeepsResolved
<1>6. QED
  BY <1>1, <1>2, <1>3, <1>4, <1>5 DEF Next

LEMMA AlwaysResolved == Spec => []ResolvedInv
  BY ResolvedInitially, ResolvedStep, PTL DEF Spec

\* What Create and Update store lists every role that has a subnet, once, under its
\* own name and in the order of setSubnets, and nothing else.
THEOREM SubnetsKept == Spec => []SubnetsKeepRoles
<1>1. Len(Roles) = 4
  BY DEF Roles
<1>2. ResolvedInv => SubnetsKeepRoles
  BY <1>1 DEF ResolvedInv, Resolved, Complete, SubnetsKeepRoles
<1>3. QED
  BY <1>2, AlwaysResolved, PTL

-----------------------------------------------------------------------------
(* The paths of the fleet.                                                 *)

LEMMA NamedPaths ==
  /\ VersionPath \in Paths /\ SecretPath \in Paths /\ TagPath \in Paths
  /\ RepositoryPath \in Paths /\ StatusPath \in Paths /\ ComponentsPath \in Paths
<1>1. \A a, b, c, d \in Keys :
        <<a>> \in Paths /\ <<a, b>> \in Paths /\ <<a, b, c>> \in Paths /\ <<a, b, c, d>> \in Paths
  BY DEF Paths
<1>2. /\ "spec" \in Keys /\ "status" \in Keys /\ "verrazzano" \in Keys /\ "version" \in Keys
      /\ "components" \in Keys /\ "imagePullSecrets" \in Keys /\ "image" \in Keys
      /\ "tag" \in Keys /\ "repository" \in Keys
  BY DEF Keys
<1>3. QED
  BY <1>1, <1>2 DEF VersionPath, SecretPath, TagPath, RepositoryPath, StatusPath,
     ComponentsPath

\* A user's resource lies below spec.verrazzano.
IsResourcePath(p) ==
  p \in Paths /\ 2 <= Len(p) /\ p[1] = "spec" /\ p[2] = "verrazzano"

LEMMA ResourcePaths ==
  ASSUME NEW o \in Options, NEW p \in DOMAIN o.resource
  PROVE  IsResourcePath(p)
<1> DEFINE top == <<"spec", "verrazzano">>
<1>1. p \in Seq(STRING) /\ IsPrefix(top, p)
  BY OptionsAssumption
<1>2. STRING \subseteq Keys
  BY DEF Keys
<1>3. p \in Paths
  BY <1>1, <1>2, SeqMonotonic DEF Paths
<1>4. top \in Paths
  <2>1. "spec" \in Keys /\ "verrazzano" \in Keys
    BY DEF Keys
  <2>2. QED
    BY <2>1 DEF Paths
<1>5. Len(top) = 2 /\ top[1] = "spec" /\ top[2] = "verrazzano"
  OBVIOUS
<1> HIDE DEF top
<1>6. Len(top) <= Len(p) /\ \A i \in 1 .. Len(top) : top[i] = p[i]
  BY <1>1, <1>3, <1>4, PrefixByElements
<1>7. top[1] = p[1] /\ top[2] = p[2]
  BY <1>5, <1>6
<1>8. QED
  BY <1>3, <1>5, <1>6, <1>7 DEF IsResourcePath

LEMMA FirstKeyApart ==
  ASSUME NEW p \in Paths, NEW q \in Paths, 1 <= Len(p), 1 <= Len(q), p[1] # q[1]
  PROVE  Apart(p, q)
  BY KeysApart

LEMMA SecondKeyApart ==
  ASSUME NEW p \in Paths, NEW q \in Paths, 2 <= Len(p), 2 <= Len(q), p[2] # q[2]
  PROVE  Apart(p, q)
  BY KeysApart

LEMMA ThirdKeyApart ==
  ASSUME NEW p \in Paths, NEW q \in Paths, 3 <= Len(p), 3 <= Len(q), p[3] # q[3]
  PROVE  Apart(p, q)
  BY KeysApart

\* Where the paths of the model differ.
LEMMA PathsApart ==
  /\ Apart(TagPath, RepositoryPath) /\ Apart(TagPath, SecretPath)
  /\ Apart(RepositoryPath, SecretPath)
  /\ \A p : IsResourcePath(p) => /\ Apart(p, TagPath) /\ Apart(p, RepositoryPath)
                                 /\ Apart(p, SecretPath) /\ Apart(p, StatusPath)
  /\ \A p \in {VersionPath, ComponentsPath} : IsResourcePath(p)
  /\ \A p \in {TagPath, RepositoryPath, SecretPath} : Apart(p, StatusPath)
  /\ Apart(VersionPath, ComponentsPath)
<1>1. /\ Len(TagPath) = 3 /\ TagPath[1] = "spec" /\ TagPath[2] = "image" /\ TagPath[3] = "tag"
      /\ Len(RepositoryPath) = 3 /\ RepositoryPath[1] = "spec"
      /\ RepositoryPath[2] = "image" /\ RepositoryPath[3] = "repository"
      /\ Len(SecretPath) = 2 /\ SecretPath[1] = "spec" /\ SecretPath[2] = "imagePullSecrets"
      /\ Len(StatusPath) = 1 /\ StatusPath[1] = "status"
  BY DEF TagPath, RepositoryPath, SecretPath, StatusPath
<1>2. /\ Len(VersionPath) = 4 /\ VersionPath[1] = "spec" /\ VersionPath[2] = "verrazzano"
      /\ VersionPath[4] = "version"
      /\ Len(ComponentsPath) = 4 /\ ComponentsPath[1] = "spec"
      /\ ComponentsPath[2] = "verrazzano" /\ ComponentsPath[4] = "components"
  BY DEF VersionPath, ComponentsPath
<1>3. /\ Apart(TagPath, RepositoryPath) /\ Apart(TagPath, SecretPath)
      /\ Apart(RepositoryPath, SecretPath)
  <2>1. Apart(TagPath, RepositoryPath)
    BY <1>1, NamedPaths, ThirdKeyApart
  <2>2. Apart(TagPath, SecretPath)
    <3>1. TagPath[2] # SecretPath[2] /\ 2 <= Len(TagPath) /\ 2 <= Len(SecretPath)
      BY <1>1
    <3>2. QED
      BY <3>1, NamedPaths, SecondKeyApart
  <2>3. Apart(RepositoryPath, SecretPath)
    <3>1. /\ RepositoryPath[2] # SecretPath[2]
          /\ 2 <= Len(RepositoryPath) /\ 2 <= Len(SecretPath)
      BY <1>1
    <3>2. QED
      BY <3>1, NamedPaths, SecondKeyApart
  <2>4. QED
    BY <2>1, <2>2, <2>3
<1>4. ASSUME NEW p, IsResourcePath(p)
      PROVE  /\ Apart(p, TagPath) /\ Apart(p, RepositoryPath)
             /\ Apart(p, SecretPath) /\ Apart(p, StatusPath)
  <2>1. p \in Paths /\ Len(p) \in Nat /\ 2 <= Len(p) /\ p[1] = "spec" /\ p[2] = "verrazzano"
    BY <1>4 DEF IsResourcePath, Paths
  <2>2. Apart(p, TagPath)
    BY <1>1, <2>1, NamedPaths, SecondKeyApart
  <2>3. Apart(p, RepositoryPath)
    BY <1>1, <2>1, NamedPaths, SecondKeyApart
  <2>4. Apart(p, SecretPath)
    <3>1. p[2] # SecretPath[2] /\ 2 <= Len(SecretPath)
      BY <1>1, <2>1
    <3>2. QED
      BY <2>1, <3>1, NamedPaths, SecondKeyApart
  <2>5. Apart(p, StatusPath)
    BY <1>1, <2>1, NamedPaths, FirstKeyApart
  <2>6. QED
    BY <2>2, <2>3, <2>4, <2>5
<1>5. \A p \in {VersionPath, ComponentsPath} : IsResourcePath(p)
  BY <1>2, NamedPaths DEF IsResourcePath
<1>6. \A p \in {TagPath, RepositoryPath, SecretPath} : Apart(p, StatusPath)
  BY <1>1, NamedPaths, KeysApart
<1>7. Apart(VersionPath, ComponentsPath)
  BY <1>2, NamedPaths, KeysApart
<1>8. QED
  BY <1>3, <1>4, <1>5, <1>6, <1>7

\* What the template renders, and where.
LEMMA Rendered ==
  ASSUME NEW v \in States
  PROVE  /\ DOMAIN VerrazzanoFleet(v)
              = DOMAIN v.asked.resource
                  \cup (IF v.asked.registry = <<>> THEN {} ELSE {TagPath, RepositoryPath})
                  \cup (IF v.asked.registry = <<>> \/ v.docker = "" THEN {} ELSE {SecretPath})
         /\ IsObject(VerrazzanoFleet(v))
         /\ \A p \in DOMAIN v.asked.resource :
              IsResourcePath(p) /\ Holds(VerrazzanoFleet(v), p, v.asked.resource[p])
         /\ v.asked.registry # <<>> =>
              /\ Holds(VerrazzanoFleet(v), TagPath, v.tag)
              /\ Holds(VerrazzanoFleet(v), RepositoryPath, v.asked.registry)
<1>1. v.asked \in Options
  BY StateFields
<1>2. \A p \in DOMAIN v.asked.resource : IsResourcePath(p)
  BY <1>1, ResourcePaths
<1>3. DOMAIN VerrazzanoFleet(v)
        = DOMAIN v.asked.resource
            \cup (IF v.asked.registry = <<>> THEN {} ELSE {TagPath, RepositoryPath})
            \cup (IF v.asked.registry = <<>> \/ v.docker = "" THEN {} ELSE {SecretPath})
  BY DEF VerrazzanoFleet
<1>4. IsObject(VerrazzanoFleet(v))
  BY <1>2, <1>3, NamedPaths DEF IsObject, IsResourcePath
<1>5. TagPath # RepositoryPath
  BY NamedPaths, PathsApart, PrefixReflexive DEF Apart
<1>6. ASSUME NEW p \in DOMAIN v.asked.resource
      PROVE  p # TagPath /\ p # RepositoryPath /\ p # SecretPath
  BY <1>2, NamedPaths, PathsApart, PrefixReflexive DEF Apart, IsResourcePath
<1>7. \A p \in DOMAIN v.asked.resource :
        Holds(VerrazzanoFleet(v), p, v.asked.resource[p])
  BY <1>6 DEF VerrazzanoFleet, Holds
<1>8. v.asked.registry # <<>> =>
        /\ Holds(VerrazzanoFleet(v), TagPath, v.tag)
        /\ Holds(VerrazzanoFleet(v), RepositoryPath, v.asked.registry)
  BY <1>5 DEF VerrazzanoFleet, Holds
<1>9. QED
  BY <1>2, <1>3, <1>4, <1>7, <1>8

LEMMA RenderedPaths ==
  ASSUME NEW v \in States, NEW p \in DOMAIN VerrazzanoFleet(v)
  PROVE  \/ p \in {TagPath, RepositoryPath, SecretPath}
         \/ p \in DOMAIN v.asked.resource /\ IsResourcePath(p)
<1>1. p \in {TagPath, RepositoryPath, SecretPath} \/ p \in DOMAIN v.asked.resource
  BY DEF VerrazzanoFleet
<1>2. QED
  BY <1>1, Rendered

\* The fleet the template renders for a stored state refers to an image pull secret
\* exactly when the options ask for one to be made, whatever earlier states asked.
THEOREM ReferencesAsked == Spec => []ReferenceAsAsked
<1>1. ASSUME ResolvedInv, info # None
      PROVE  HasField(VerrazzanoFleet(info), SecretPath) <=> info.asked.create
  <2>1. info \in States /\ Coherent(info)
    BY <1>1 DEF ResolvedInv, Resolved, Complete, TypeInv, TypeOK
  <2>2. info.asked.create <=> (info.asked.registry # <<>> /\ info.docker # "")
    BY <2>1, DockerIsHost DEF Coherent
  <2>3. SecretPath \in DOMAIN VerrazzanoFleet(info)
          => HasField(VerrazzanoFleet(info), SecretPath)
    BY NamedPaths, PrefixReflexive DEF HasField, NestedField
  <2>4. ASSUME NEW p \in DOMAIN VerrazzanoFleet(info), IsPrefix(SecretPath, p)
        PROVE  p = SecretPath
    <3>1. p \in {TagPath, RepositoryPath, SecretPath} \/ IsResourcePath(p)
      BY <2>1, RenderedPaths
    <3>2. ~Apart(p, SecretPath)
      BY <2>4 DEF Apart
    <3>3. QED
      BY <3>1, <3>2, PathsApart
  <2>5. HasField(VerrazzanoFleet(info), SecretPath)
          => SecretPath \in DOMAIN VerrazzanoFleet(info)
    BY <2>4 DEF HasField, NestedField
  <2>6. SecretPath \in DOMAIN VerrazzanoFleet(info)
          <=> (info.asked.registry # <<>> /\ info.docker # "")
    <3>1. SecretPath \notin DOMAIN info.asked.resource
      BY <2>1, Rendered, NamedPaths, PathsApart, PrefixReflexive DEF Apart
    <3>2. SecretPath # TagPath /\ SecretPath # RepositoryPath
      BY NamedPaths, PathsApart, PrefixReflexive DEF Apart
    <3>3. QED
      BY <2>1, <3>1, <3>2, Rendered
  <2>7. QED
    BY <2>2, <2>3, <2>5, <2>6
<1>2. ResolvedInv => ReferenceAsAsked
  BY <1>1 DEF ReferenceAsAsked
<1>3. QED
  BY <1>2, AlwaysResolved, PTL

-----------------------------------------------------------------------------
(* The locked network.  There is nothing but its subnets to an             *)
(* OCIManagedCluster of the model, so that the lock decides each merge.    *)

SubnetsPath == <<"spec", "networkSpec", "subnets">>
NetworkPath == <<"spec", "networkSpec">>

OnlyNetwork == ociCluster # None => DOMAIN ociCluster = {SubnetsPath}

LEMMA NetworkPaths ==
  /\ SubnetsPath \in Paths /\ NetworkPath \in Paths /\ NetworkPath # <<>>
  /\ Len(SubnetsPath) = 3 /\ Len(NetworkPath) = 2 /\ NetworkPath[2] = "networkSpec"
  /\ IsPrefix(NetworkPath, SubnetsPath) /\ ~IsStrictPrefix(SubnetsPath, NetworkPath)
  /\ IsStrictPrefix(SubSeq(NetworkPath, 1, 1), SubnetsPath)
<1>1. "spec" \in Keys /\ "networkSpec" \in Keys /\ "subnets" \in Keys
  BY DEF Keys
<1>2. /\ SubnetsPath \in Paths /\ NetworkPath \in Paths
      /\ Len(SubnetsPath) = 3 /\ Len(NetworkPath) = 2 /\ NetworkPath[2] = "networkSpec"
      /\ SubnetsPath[1] = "spec" /\ SubnetsPath[2] = "networkSpec" /\ NetworkPath[1] = "spec"
  BY <1>1 DEF SubnetsPath, NetworkPath, Paths
<1>3. IsPrefix(NetworkPath, SubnetsPath) /\ ~IsStrictPrefix(SubnetsPath, NetworkPath)
  <2>1. \A i \in 1 .. 2 : NetworkPath[i] = SubnetsPath[i]
    <3>1. \A i \in 1 .. 2 : i = 1 \/ i = 2
      OBVIOUS
    <3>2. QED
      BY <1>2, <3>1
  <2>2. IsPrefix(NetworkPath, SubnetsPath)
    <3>1. IsPrefix(NetworkPath, SubnetsPath) <=>
            /\ Len(NetworkPath) <= Len(SubnetsPath)
            /\ \A i \in 1 .. Len(NetworkPath) : NetworkPath[i] = SubnetsPath[i]
      BY <1>2, PrefixByElements
    <3>2. QED
      BY <1>2, <2>1, <3>1
  <2>3. ~IsPrefix(SubnetsPath, NetworkPath)
    <3>1. ~(Len(SubnetsPath) <= Len(NetworkPath))
      BY <1>2
    <3>2. QED
      BY <1>2, <3>1, PrefixByElements
  <2>4. QED
    BY <2>2, <2>3 DEF IsStrictPrefix
<1> DEFINE s == SubSeq(NetworkPath, 1, 1)
<1>4. s \in Paths /\ Len(s) = 1 /\ s[1] = "spec"
  <2>1. \A i \in 1 .. 1 : NetworkPath[i] \in Keys
    BY <1>1, <1>2
  <2>2. s \in Paths /\ Len(s) = 1 /\ \A i \in 1 .. 1 : s[i] = NetworkPath[i]
    BY <2>1, SubSeqProperties DEF Paths
  <2>3. QED
    BY <1>2, <2>2
<1> HIDE DEF s
<1>5. IsPrefix(s, SubnetsPath) /\ s # SubnetsPath
  BY <1>2, <1>4, PrefixByElements
<1>6. IsStrictPrefix(SubSeq(NetworkPath, 1, 1), SubnetsPath)
  BY <1>5 DEF IsStrictPrefix, s
<1>7. QED
  BY <1>2, <1>3, <1>6

\* What a put makes of the cluster that is there.
LEMMA NetworkMerge ==
  ASSUME ociCluster # None, DOMAIN ociCluster = {SubnetsPath}, NEW v
  PROVE  LET m == cruObject("OCIManagedCluster", ociCluster, OCIManagedCluster(v))
         IN  /\ DOMAIN m = {SubnetsPath}
             /\ NestedField(m, NetworkPath) = NestedField(ociCluster, NetworkPath)
<1> DEFINE u == OCIManagedCluster(v)
           locked == {"networkSpec"}
           m == mergeMaps(ociCluster, u, locked)
<1>1. cruObject("OCIManagedCluster", ociCluster, OCIManagedCluster(v)) = m
  BY DEF cruObject, LockedFields
<1>2. DOMAIN u = {SubnetsPath}
  BY DEF OCIManagedCluster, Field, SubnetsPath
<1>3. IsObject(ociCluster) /\ IsObject(u)
  BY <1>2, NetworkPaths DEF IsObject
<1>4. \A j \in 1 .. Len(NetworkPath) - 1 : IsMap(ociCluster, SubSeq(NetworkPath, 1, j))
  BY NetworkPaths DEF IsMap
<1>5. \A q \in DOMAIN u : ~IsStrictPrefix(q, NetworkPath)
  BY <1>2, NetworkPaths
<1>6. NetworkPath[Len(NetworkPath)] \in locked
  BY NetworkPaths
<1> HIDE DEF u, locked
<1>7. DOMAIN m \subseteq {SubnetsPath}
  <2> DEFINE new == Taken(ociCluster, u, locked)
  <2>1. DOMAIN m = new \cup Kept(ociCluster, new)
    BY MergeDomain
  <2>2. new \subseteq DOMAIN u /\ Kept(ociCluster, new) \subseteq DOMAIN ociCluster
    BY DEF Taken, Kept
  <2> HIDE DEF new, m
  <2>3. QED
    BY <1>2, <2>1, <2>2
<1>8. NestedField(m, NetworkPath) = NestedField(ociCluster, NetworkPath)
  BY <1>3, <1>4, <1>5, <1>6, NetworkPaths, LockedFieldStays
<1> HIDE DEF m
<1>9. DOMAIN NestedField(ociCluster, NetworkPath) = {SubnetsPath}
  BY NetworkPaths DEF NestedField
<1>10. SubnetsPath \in DOMAIN m
  BY <1>8, <1>9 DEF NestedField
<1>11. QED
  BY <1>1, <1>7, <1>8, <1>10

LEMMA NetworkStep ==
  ASSUME OnlyNetwork, [Next]_vars
  PROVE  /\ OnlyNetwork'
         /\ ociCluster # None => NestedField(ociCluster', NetworkPath)
                                   = NestedField(ociCluster, NetworkPath)
<1>1. CASE PutOCIManagedCluster
  <2>1. ociCluster' = cruObject("OCIManagedCluster", ociCluster, OCIManagedCluster(call.v))
    BY <1>1 DEF PutOCIManagedCluster
  <2>2. CASE ociCluster = None
    <3>1. DOMAIN ociCluster' = {SubnetsPath}
      BY <2>1, <2>2 DEF cruObject, OCIManagedCluster, Field, SubnetsPath
    <3>2. QED
      BY <2>2, <3>1 DEF OnlyNetwork
  <2>3. CASE ociCluster # None
    BY <2>1, <2>3, NetworkMerge DEF OnlyNetwork
  <2>4. QED
    BY <2>2, <2>3
<1>2. CASE ~PutOCIManagedCluster
  <2>1. UNCHANGED ociCluster
    <3>1. ASSUME NEW o \in Options, StartCreate(o) \/ StartUpdate(o)
          PROVE  UNCHANGED ociCluster
      BY <3>1 DEF StartCreate, StartUpdate, Start, objects
    <3>2. CASE Work
      BY <1>2, <3>2 DEF Work, SetupOCIAuth, setImageId, addSubnetForRole,
         SetDockerConfigJson, setVerrazzanoTag, UpdateVerrazzano, objects
    <3>3. CASE StartPostCheck \/ RequestFails \/ FleetReconciled \/ FleetGone
      BY <3>3 DEF StartPostCheck, RequestFails, FleetReconciled, FleetGone, objects
    <3>4. CASE ImagesChange \/ SubnetChanges \/ VerrazzanoUpgraded \/ UNCHANGED vars
      BY <3>4 DEF ImagesChange, SubnetChanges, VerrazzanoUpgraded, vars, objects
    <3>5. QED
      BY <3>1, <3>2, <3>3, <3>4 DEF Next
  <2>2. QED
    BY <2>1 DEF OnlyNetwork
<1>3. QED
  BY <1>1, <1>2

\* The network an OCIManagedCluster was created with is the one it keeps, whatever
\* the lookups of later calls find: networkSpec is locked in every merge.
THEOREM NetworkFixed == Spec => NetworkIsFixed
<1>1. Init => OnlyNetwork
  BY DEF Init, OnlyNetwork
<1>2. OnlyNetwork /\ [Next]_vars => OnlyNetwork'
  BY NetworkStep
<1>3. OnlyNetwork /\ [Next]_vars
        => [ociCluster # None => NestedField(ociCluster', <<"spec", "networkSpec">>)
                                   = NestedField(ociCluster, <<"spec", "networkSpec">>)]_vars
  BY NetworkStep DEF NetworkPath
<1>4. QED
  BY <1>1, <1>2, <1>3, PTL DEF Spec, NetworkIsFixed

-----------------------------------------------------------------------------
(* PostChecks: their state is the stored one until they return.            *)

Checks ==
  call # None =>
    /\ call.at = "fleet" <=> call.op = "PostCheck"
    /\ call.op = "PostCheck" => call.v = info /\ info # None /\ info.asked.install

ChecksInv == TypeInv /\ Checks

\* A call of Create or Update that goes on is still one.
LEMMA GoingOnKeepsChecks ==
  ASSUME ChecksInv, NEW f, call' = f, f.at # "fleet", f.op # "PostCheck"
  PROVE  Checks'
  BY DEF Checks

LEMMA WorkKeepsChecks ==
  ASSUME ChecksInv, Work
  PROVE  Checks'
<1>1. call # None /\ call \in Frames
  BY CallInProgress DEF Work, SetupOCIAuth, setImageId, addSubnetForRole, SetDockerConfigJson,
     setVerrazzanoTag, PutOCIManagedCluster, UpdateVerrazzano, At, ChecksInv, TypeInv
<1>2. ASSUME NEW ok \in BOOLEAN, Return(ok) PROVE Checks'
  BY <1>2 DEF Return, Checks
<1>3. CASE SetupOCIAuth
  <2>1. CASE Goto("image")
    <3>1. call.op # "PostCheck"
      BY <1>3 DEF SetupOCIAuth, At, ChecksInv, Checks
    <3>2. call'.at = "image" /\ call'.op = call.op
      BY <1>1, <2>1, FrameSet DEF Goto
    <3>3. QED
      BY <3>1, <3>2, GoingOnKeepsChecks
  <2>2. QED
    BY <1>2, <1>3, <2>1 DEF SetupOCIAuth
<1>4. CASE setImageId
  <2>1. CASE ~Return(FALSE)
    <3>1. call.op # "PostCheck"
      BY <1>4 DEF setImageId, At, ChecksInv, Checks
    <3>2. call'.at = "subnets" /\ call'.op = call.op
      BY <1>1, <1>4, <2>1, FrameSet DEF setImageId
    <3>3. QED
      BY <3>1, <3>2, GoingOnKeepsChecks
  <2>2. QED
    BY <1>2, <2>1
<1>5. CASE addSubnetForRole
  <2>1. CASE ~Return(FALSE)
    <3>1. call.op # "PostCheck" /\ call.at = "subnets"
      BY <1>5 DEF addSubnetForRole, At, ChecksInv, Checks
    <3>2. PICK l : call' = [call EXCEPT !.next = call.next + 1,
                                        !.v = [call.v EXCEPT !.listed = l]]
      BY <1>5, <2>1, SubnetStep DEF ChecksInv
    <3>3. call'.at = "subnets" /\ call'.op = call.op
      BY <1>1, <3>1, <3>2, FrameSet
    <3>4. QED
      BY <3>1, <3>3, GoingOnKeepsChecks
  <2>2. QED
    BY <1>2, <2>1
<1>6. CASE SetDockerConfigJson
  <2>1. CASE ~Return(FALSE)
    <3>1. call.op # "PostCheck"
      BY <1>6 DEF SetDockerConfigJson, At, ChecksInv, Checks
    <3>2. call'.at = "tag" /\ call'.op = call.op
      BY <1>1, <1>6, <2>1, FrameSet DEF SetDockerConfigJson
    <3>3. QED
      BY <3>1, <3>2, GoingOnKeepsChecks
  <2>2. QED
    BY <1>2, <2>1
<1>7. CASE setVerrazzanoTag
  <2>1. CASE ~Return(FALSE)
    <3> DEFINE v == [call.v EXCEPT !.tag = getVerrazzanoTag]
    <3>1. call.op # "PostCheck"
      BY <1>7 DEF setVerrazzanoTag, At, ChecksInv, Checks
    <3>2. \/ Begin("Update", None, SetUpdateValues(call.old, v))
          \/ call' = [call EXCEPT !.at = "put", !.v = v]
      BY <1>7, <2>1 DEF setVerrazzanoTag
    <3> HIDE DEF v
    <3>3. CASE Begin("Update", None, SetUpdateValues(call.old, v))
      <4>1. call'.at = "auth" /\ call'.op = "Update"
        BY <3>3 DEF Begin
      <4>2. QED
        BY <4>1, GoingOnKeepsChecks
    <3>4. CASE call' = [call EXCEPT !.at = "put", !.v = v]
      <4>1. call'.at = "put" /\ call'.op = call.op
        BY <1>1, <3>4, FrameSet
      <4>2. QED
        BY <3>1, <4>1, GoingOnKeepsChecks
    <3>5. QED
      BY <3>2, <3>3, <3>4
  <2>2. QED
    BY <1>2, <2>1
<1>8. CASE PutOCIManagedCluster \/ UpdateVerrazzano
  BY <1>2, <1>8 DEF PutOCIManagedCluster, UpdateVerrazzano
<1>9. QED
  BY <1>3, <1>4, <1>5, <1>6, <1>7, <1>8 DEF Work

LEMMA ChecksStep == ChecksInv /\ [Next]_vars => ChecksInv'
<1> SUFFICES ASSUME ChecksInv, [Next]_vars PROVE Checks'
  BY TypesStep DEF ChecksInv
<1>1. ASSUME NEW o \in Options, StartCreate(o) \/ StartUpdate(o)
      PROVE  Checks'
  <2>1. PICK op \in {"Create", "Update"} : \E old : Start(op, old, o)
    BY <1>1 DEF StartCreate, StartUpdate
  <2> PICK old : Start(op, old, o)
    BY <2>1
  <2>2. CASE Begin(op, old, NewFromOptions(o))
    <3>1. call'.at = "auth" /\ call'.op = op
      BY <2>2 DEF Begin
    <3>2. QED
      BY <3>1, GoingOnKeepsChecks
  <2>3. CASE call' = None
    BY <2>3 DEF Checks
  <2>4. QED
    BY <2>2, <2>3 DEF Start
<1>2. CASE StartPostCheck
  <2>1. /\ call'.at = "fleet" /\ call'.op = "PostCheck" /\ call'.v = info
        /\ info # None /\ info.asked.install /\ info' = info
    BY <1>2 DEF StartPostCheck, caller
  <2>2. QED
    BY <2>1 DEF Checks
<1>3. CASE Work
  BY <1>3, WorkKeepsChecks
<1>4. CASE RequestFails
  BY <1>4 DEF RequestFails, Return, Checks
<1>5. CASE \/ ImagesChange \/ SubnetChanges \/ VerrazzanoUpgraded
           \/ FleetReconciled \/ FleetGone \/ UNCHANGED vars
  <2>1. UNCHANGED <<caller, call>>
    BY <1>5 DEF ImagesChange, SubnetChanges, VerrazzanoUpgraded, FleetReconciled,
       FleetGone, vars
  <2>2. QED
    BY <2>1 DEF ChecksInv, Checks, caller
<1>6. QED
  BY <1>1, <1>2, <1>3, <1>4, <1>5 DEF Next

-----------------------------------------------------------------------------
(* The fleet.  Its foreign fields hold what the controllers write and      *)
(* nothing else, and after a PostCheck it has what the stored state says.  *)

Written(path) == IF path = StatusPath THEN "up" ELSE "defaults"

OnlyReport(o) ==
  \A path \in ForeignPaths : \A p \in DOMAIN o :
    ~Apart(p, path) => p = path /\ o[p] = Written(path)

FleetOK == fleet # None => IsObject(fleet) /\ OnlyReport(fleet)

AsStored == outcome = "PostCheck" =>
  info # None /\ info.asked.install /\ (~NoResource(info) => StoredIn(fleet, info))

FleetInv == ChecksInv /\ FleetOK /\ AsStored

LEMMA ForeignPath ==
  ASSUME NEW path \in ForeignPaths
  PROVE  path \in {StatusPath, ComponentsPath} /\ path \in Paths
  BY NamedPaths DEF ForeignPaths

LEMMA ReportsApart ==
  Apart(StatusPath, ComponentsPath) /\ Apart(ComponentsPath, StatusPath)
  /\ Apart(StatusPath, VersionPath) /\ Apart(ComponentsPath, VersionPath)
<1>1. Apart(ComponentsPath, StatusPath) /\ Apart(VersionPath, StatusPath)
  BY PathsApart
<1>2. Apart(VersionPath, ComponentsPath)
  BY PathsApart
<1>3. QED
  BY <1>1, <1>2, ApartSymmetric

\* No state renders a leaf near a foreign path.
LEMMA RenderedIsNotForeign ==
  ASSUME NEW v \in States, NEW p \in DOMAIN VerrazzanoFleet(v), NEW path \in ForeignPaths
  PROVE  Apart(p, path) /\ Apart(path, p)
<1>1. v.asked \in Options /\ path \in {StatusPath, ComponentsPath}
  BY StateFields, ForeignPath
<1>2. CASE p \in DOMAIN v.asked.resource
  BY <1>1, <1>2, ApartSymmetric DEF ForeignPaths
<1>3. CASE p \in {TagPath, RepositoryPath, SecretPath}
  <2>1. Apart(p, StatusPath)
    BY <1>3, PathsApart
  <2>2. Apart(ComponentsPath, p)
    BY <1>3, PathsApart
  <2>3. QED
    BY <1>1, <2>1, <2>2, ApartSymmetric
<1>4. QED
  BY <1>2, <1>3, RenderedPaths

LEMMA RenderedReports ==
  ASSUME NEW v \in States
  PROVE  OnlyReport(VerrazzanoFleet(v))
  BY RenderedIsNotForeign DEF OnlyReport

LEMMA VersionReports ==
  ASSUME NEW x
  PROVE  OnlyReport(Field(VersionPath, x))
<1>1. DOMAIN Field(VersionPath, x) = {VersionPath}
  BY DEF Field
<1>2. \A path \in ForeignPaths : Apart(VersionPath, path)
  BY ForeignPath, ReportsApart, ApartSymmetric
<1>3. QED
  BY <1>1, <1>2 DEF OnlyReport

\* What the controllers write at a path of theirs.
LEMMA WrittenReports ==
  ASSUME NEW path \in {StatusPath, ComponentsPath}
  PROVE  OnlyReport(Field(path, Written(path)))
<1>1. DOMAIN Field(path, Written(path)) = {path}
  BY DEF Field
<1>2. Field(path, Written(path))[path] = Written(path)
  BY DEF Field
<1>3. ASSUME NEW q \in ForeignPaths, ~Apart(path, q)
      PROVE  path = q
  BY <1>3, ForeignPath, ReportsApart
<1>4. QED
  BY <1>1, <1>2, <1>3 DEF OnlyReport

LEMMA MergeReports ==
  ASSUME NEW o1, NEW o2, OnlyReport(o1), OnlyReport(o2)
  PROVE  OnlyReport(mergeMaps(o1, o2, {}))
<1> DEFINE new == Taken(o1, o2, {})
           m   == mergeMaps(o1, o2, {})
<1>1. DOMAIN m = new \cup Kept(o1, new)
  BY MergeDomain
<1>2. \A p \in new : m[p] = o2[p]
  BY MergeTaken
<1>3. \A p \in Kept(o1, new) : p \notin new => m[p] = o1[p]
  BY MergeKept
<1>4. new \subseteq DOMAIN o2 /\ Kept(o1, new) \subseteq DOMAIN o1
  BY DEF Taken, Kept
<1> HIDE DEF new, m
<1>5. ASSUME NEW path \in ForeignPaths, NEW p \in DOMAIN m, ~Apart(p, path)
      PROVE  p = path /\ m[p] = Written(path)
  <2>1. CASE p \in new
    BY <1>2, <1>4, <1>5, <2>1 DEF OnlyReport
  <2>2. CASE p \notin new
    BY <1>1, <1>3, <1>4, <1>5, <2>2 DEF OnlyReport
  <2>3. QED
    BY <2>1, <2>2
<1>6. OnlyReport(m)
  BY <1>5 DEF OnlyReport
<1>7. QED
  BY <1>6 DEF m

\* A foreign field is a leaf with what was written there.
LEMMA ReportedField ==
  ASSUME NEW o, IsObject(o), OnlyReport(o), NEW path \in ForeignPaths
  PROVE  /\ HasField(o, path) => path \in DOMAIN o
         /\ path \in DOMAIN o => NestedField(o, path) = Field(path, Written(path))
<1>1. path \in Paths
  BY ForeignPath
<1>2. ASSUME NEW p \in DOMAIN o, IsPrefix(path, p)
      PROVE  p = path
  BY <1>2 DEF OnlyReport, Apart
<1>3. HasField(o, path) => path \in DOMAIN o
  BY <1>2 DEF HasField, NestedField
<1>4. ASSUME path \in DOMAIN o
      PROVE  NestedField(o, path) = Field(path, Written(path))
  <2>1. IsPrefix(path, path)
    BY <1>1, PrefixReflexive
  <2>2. {p \in DOMAIN o : IsPrefix(path, p)} = {path}
    BY <1>2, <1>4, <2>1
  <2>3. o[path] = Written(path)
    BY <1>4, <2>1 DEF OnlyReport, Apart
  <2>4. QED
    BY <2>2, <2>3 DEF NestedField, Field
<1>5. QED
  BY <1>3, <1>4

-----------------------------------------------------------------------------
(* The put of a PostCheck.                                                 *)

LEMMA Updated ==
  ASSUME FleetOK, NEW v \in States
  PROVE  /\ IsObject(createOrUpdateVerrazzano(v))
         /\ OnlyReport(createOrUpdateVerrazzano(v))
<1> DEFINE u == VerrazzanoFleet(v)
           m == mergeMaps(fleet, u, {})
<1>1. IsObject(u) /\ OnlyReport(u)
  BY Rendered, RenderedReports
<1>2. CASE fleet = None
  BY <1>1, <1>2 DEF createOrUpdateVerrazzano
<1>3. CASE fleet # None
  <2>1. createOrUpdateVerrazzano(v) = SetNestedField(m, v.asked.version, VersionPath)
    <3>1. LockedFields("VerrazzanoFleet") = {}
      BY DEF LockedFields
    <3>2. QED
      BY <1>3, <3>1 DEF createOrUpdateVerrazzano, cruObject
  <2> HIDE DEF u
  <2>2. IsObject(m) /\ OnlyReport(m)
    BY <1>1, <1>3, MergeIsObject, MergeReports DEF FleetOK
  <2> HIDE DEF m
  <2>3. IsObject(SetNestedField(m, v.asked.version, VersionPath))
    BY <2>2, NamedPaths, SetIsObject
  <2>4. OnlyReport(SetNestedField(m, v.asked.version, VersionPath))
    BY <2>2, VersionReports, MergeReports DEF SetNestedField
  <2>5. QED
    BY <2>1, <2>3, <2>4
<1>4. QED
  BY <1>2, <1>3

\* Foreign fields that were there still are.
LEMMA UpdatedKeeps ==
  ASSUME FleetOK, NEW v \in States, fleet # None, NEW path \in ForeignPaths,
         path \in DOMAIN fleet
  PROVE  path \in DOMAIN createOrUpdateVerrazzano(v)
<1> DEFINE u == VerrazzanoFleet(v)
           m == mergeMaps(fleet, u, {})
<1>1. IsObject(u) /\ \A q \in DOMAIN u : Apart(path, q)
  BY Rendered, RenderedIsNotForeign
<1>2. createOrUpdateVerrazzano(v) = SetNestedField(m, v.asked.version, VersionPath)
  <2>1. LockedFields("VerrazzanoFleet") = {}
    BY DEF LockedFields
  <2>2. QED
    BY <2>1 DEF createOrUpdateVerrazzano, cruObject
<1> HIDE DEF u
<1>3. path \in DOMAIN m /\ IsObject(m)
  BY <1>1, ApartHolds, MergeIsObject DEF FleetOK, Holds
<1> HIDE DEF m
<1>4. Apart(path, VersionPath)
  BY ForeignPath, ReportsApart
<1>5. QED
  BY <1>2, <1>3, <1>4, NamedPaths, SetLeavesApart DEF Holds

LEMMA UpdatedStores ==
  ASSUME FleetOK, NEW v \in States
  PROVE  StoredIn(createOrUpdateVerrazzano(v), v)
<1> DEFINE u == VerrazzanoFleet(v)
           m == mergeMaps(fleet, u, {})
<1>1. /\ IsObject(u)
      /\ \A p \in DOMAIN v.asked.resource : IsResourcePath(p) /\ Holds(u, p, v.asked.resource[p])
      /\ v.asked.registry # <<>> =>
           Holds(u, TagPath, v.tag) /\ Holds(u, RepositoryPath, v.asked.registry)
  BY Rendered
<1>2. CASE fleet = None
  BY <1>1, <1>2 DEF createOrUpdateVerrazzano, StoredIn
<1>3. CASE fleet # None
  <2>1. createOrUpdateVerrazzano(v) = SetNestedField(m, v.asked.version, VersionPath)
    <3>1. LockedFields("VerrazzanoFleet") = {}
      BY DEF LockedFields
    <3>2. QED
      BY <1>3, <3>1 DEF createOrUpdateVerrazzano, cruObject
  <2> HIDE DEF u
  <2>2. IsObject(m)
    BY <1>1, <1>3, MergeIsObject DEF FleetOK
  <2>3. \A p \in DOMAIN u : Holds(m, p, u[p])
    BY RenderedArrives
  <2> HIDE DEF m
  <2>4. ASSUME NEW p, NEW x, Holds(u, p, x), Apart(p, VersionPath)
        PROVE  Holds(createOrUpdateVerrazzano(v), p, x)
    <3>1. p \in DOMAIN m /\ m[p] = x
      BY <2>3, <2>4 DEF Holds
    <3>2. Holds(SetNestedField(m, v.asked.version, VersionPath), p, m[p])
      BY <2>2, <2>4, <3>1, NamedPaths, SetLeavesApart
    <3>3. QED
      BY <2>1, <3>1, <3>2
  <2>5. Apart(TagPath, VersionPath) /\ Apart(RepositoryPath, VersionPath)
    BY PathsApart, ApartSymmetric
  <2>6. QED
    BY <1>1, <2>4, <2>5 DEF StoredIn
<1>4. QED
  BY <1>2, <1>3

-----------------------------------------------------------------------------
(* What the controllers do, and the steps.                                 *)

\* The fleet after they have reported, and after they have completed it.
Reported == SetNestedField(fleet, "up", StatusPath)

LEMMA Reconciled ==
  ASSUME FleetReconciled
  PROVE  /\ fleet # None
         /\ \/ fleet' = Reported /\ \E p \in DOMAIN fleet : ~Apart(p, ComponentsPath)
            \/ /\ fleet' = SetNestedField(Reported, "defaults", ComponentsPath)
               /\ \A p \in DOMAIN fleet : Apart(p, ComponentsPath)
  BY DEF FleetReconciled, Reported

LEMMA ReconciledReports ==
  ASSUME FleetOK, fleet # None
  PROVE  /\ IsObject(Reported) /\ OnlyReport(Reported)
         /\ IsObject(SetNestedField(Reported, "defaults", ComponentsPath))
         /\ OnlyReport(SetNestedField(Reported, "defaults", ComponentsPath))
<1>1. StatusPath # ComponentsPath
  BY ReportsApart, NamedPaths, PrefixReflexive DEF Apart
<1>2. OnlyReport(Field(StatusPath, "up")) /\ OnlyReport(Field(ComponentsPath, "defaults"))
  <2>1. Written(StatusPath) = "up" /\ Written(ComponentsPath) = "defaults"
    BY <1>1 DEF Written
  <2>2. OnlyReport(Field(StatusPath, Written(StatusPath)))
    BY WrittenReports
  <2>3. OnlyReport(Field(ComponentsPath, Written(ComponentsPath)))
    BY WrittenReports
  <2>4. QED
    BY <2>1, <2>2, <2>3
<1>3. IsObject(Reported) /\ OnlyReport(Reported)
  <2>1. IsObject(Reported)
    BY NamedPaths, SetIsObject DEF FleetOK, Reported
  <2>2. OnlyReport(Reported)
    BY <1>2, MergeReports DEF FleetOK, Reported, SetNestedField
  <2>3. QED
    BY <2>1, <2>2
<1>4. IsObject(SetNestedField(Reported, "defaults", ComponentsPath))
  BY <1>3, NamedPaths, SetIsObject
<1>5. OnlyReport(SetNestedField(Reported, "defaults", ComponentsPath))
  BY <1>2, <1>3, MergeReports DEF SetNestedField
<1>6. QED
  BY <1>3, <1>4, <1>5

\* The controllers leave alone what is apart from their status: they complete only
\* what is not there.
LEMMA ReconciledHolds ==
  ASSUME FleetOK, FleetReconciled, NEW p \in DOMAIN fleet, Apart(p, StatusPath)
  PROVE  Holds(fleet', p, fleet[p])
<1>1. fleet # None /\ IsObject(fleet) /\ IsObject(Reported)
  BY Reconciled, ReconciledReports DEF FleetOK
<1>2. Holds(Reported, p, fleet[p])
  BY <1>1, NamedPaths, SetLeavesApart DEF Reported
<1>3. CASE fleet' = Reported
  BY <1>2, <1>3
<1>4. CASE /\ fleet' = SetNestedField(Reported, "defaults", ComponentsPath)
           /\ \A q \in DOMAIN fleet : Apart(q, ComponentsPath)
  <2>1. p \in DOMAIN Reported /\ Reported[p] = fleet[p]
    BY <1>2 DEF Holds
  <2>2. Holds(SetNestedField(Reported, "defaults", ComponentsPath), p, Reported[p])
    BY <1>1, <1>4, <2>1, NamedPaths, SetLeavesApart
  <2>3. QED
    BY <1>4, <2>1, <2>2
<1>5. QED
  BY <1>3, <1>4, Reconciled

\* The status stays there when it is set again.
LEMMA ReconciledKeeps ==
  ASSUME FleetOK, FleetReconciled, NEW path \in ForeignPaths, path \in DOMAIN fleet
  PROVE  path \in DOMAIN fleet'
<1>1. fleet # None /\ IsObject(Reported)
  BY Reconciled, ReconciledReports
<1>2. CASE path = ComponentsPath
  BY <1>2, ReconciledHolds, ReportsApart DEF Holds
<1>3. CASE path = StatusPath
  <2>1. path \in DOMAIN Reported
    BY <1>3, SetHolds DEF Reported, Holds
  <2>2. path \in DOMAIN SetNestedField(Reported, "defaults", ComponentsPath)
    BY <1>1, <1>3, <2>1, NamedPaths, ReportsApart, SetLeavesApart DEF Holds
  <2>3. QED
    BY <2>1, <2>2, Reconciled
<1>4. QED
  BY <1>2, <1>3, ForeignPath

LEMMA ReconciledStored ==
  ASSUME TypeOK, FleetOK, FleetReconciled, info # None, StoredIn(fleet, info)
  PROVE  StoredIn(fleet', info)
<1>1. info \in States
  BY DEF TypeOK
<1>2. ASSUME NEW p, NEW x, Holds(fleet, p, x), Apart(p, StatusPath)
      PROVE  Holds(fleet', p, x)
  BY <1>2, ReconciledHolds DEF Holds
<1>3. \A p \in DOMAIN info.asked.resource : Apart(p, StatusPath)
  BY <1>1, Rendered, PathsApart
<1>4. Apart(TagPath, StatusPath) /\ Apart(RepositoryPath, StatusPath)
  BY PathsApart
<1>5. QED
  BY <1>2, <1>3, <1>4 DEF StoredIn

\* What a call returns, if it is not a PostCheck.
LEMMA ReturnIsNoPostCheck ==
  ASSUME ChecksInv, call # None, call.at # "fleet", NEW ok \in BOOLEAN, Return(ok)
  PROVE  outcome' # "PostCheck"
<1>1. call.op # "PostCheck"
  BY DEF ChecksInv, Checks
<1>2. QED
  BY <1>1 DEF Return

\* Every step but the put, the controllers and a finished uninstall leaves the fleet.
LEMMA FleetSteps ==
  ASSUME [Next]_vars
  PROVE  UpdateVerrazzano \/ FleetReconciled \/ FleetGone \/ UNCHANGED fleet
<1>1. ASSUME NEW o \in Options, StartCreate(o) \/ StartUpdate(o)
      PROVE  UNCHANGED fleet
  BY <1>1 DEF StartCreate, StartUpdate, Start, objects
<1>2. CASE Work
  BY <1>2 DEF Work, SetupOCIAuth, setImageId, addSubnetForRole, SetDockerConfigJson,
     setVerrazzanoTag, PutOCIManagedCluster, objects
<1>3. CASE StartPostCheck \/ RequestFails
  BY <1>3 DEF StartPostCheck, RequestFails, objects
<1>4. CASE ImagesChange \/ SubnetChanges \/ VerrazzanoUpgraded \/ UNCHANGED vars
  BY <1>4 DEF ImagesChange, SubnetChanges, VerrazzanoUpgraded, vars, objects
<1>5. QED
  BY <1>1, <1>2, <1>3, <1>4 DEF Next

LEMMA PostCheckPut ==
  ASSUME FleetInv, UpdateVerrazzano
  PROVE  /\ call.v \in States
         /\ fleet' = IF NoResource(call.v) THEN fleet ELSE createOrUpdateVerrazzano(call.v)
         /\ info # None /\ info' = info /\ call.v = info /\ info.asked.install
<1>1. /\ call # None /\ call.at = "fleet"
      /\ fleet' = IF NoResource(call.v) THEN fleet ELSE createOrUpdateVerrazzano(call.v)
  BY DEF UpdateVerrazzano, At
<1>2. call.op = "PostCheck" /\ call.v = info /\ info # None /\ info.asked.install
  BY <1>1 DEF FleetInv, ChecksInv, Checks
<1>3. call \in Frames
  BY <1>1, CallInProgress DEF FleetInv, ChecksInv, TypeInv
<1>4. call.v \in States
  BY <1>3, FrameFields
<1>5. info' = info
  BY <1>1, <1>2 DEF UpdateVerrazzano, Return
<1>6. QED
  BY <1>1, <1>2, <1>4, <1>5

LEMMA FleetOKStep ==
  ASSUME FleetInv, [Next]_vars
  PROVE  FleetOK'
<1>1. CASE UpdateVerrazzano
  <2>1. CASE NoResource(call.v)
    BY <1>1, <2>1, PostCheckPut DEF FleetInv, FleetOK
  <2>2. CASE ~NoResource(call.v)
    <3>1. IsObject(fleet') /\ OnlyReport(fleet')
      BY <1>1, <2>2, PostCheckPut, Updated DEF FleetInv
    <3>2. QED
      BY <3>1 DEF FleetOK
  <2>3. QED
    BY <2>1, <2>2
<1>2. CASE FleetReconciled
  <2>1. IsObject(fleet') /\ OnlyReport(fleet')
    BY <1>2, Reconciled, ReconciledReports DEF FleetInv
  <2>2. QED
    BY <2>1 DEF FleetOK
<1>3. CASE FleetGone \/ UNCHANGED fleet
  BY <1>3 DEF FleetGone, FleetInv, FleetOK
<1>4. QED
  BY <1>1, <1>2, <1>3, FleetSteps

LEMMA AsStoredStep ==
  ASSUME FleetInv, [Next]_vars
  PROVE  AsStored'
<1>1. CASE UpdateVerrazzano
  <2>1. ~NoResource(info) => StoredIn(fleet', info)
    BY <1>1, PostCheckPut, UpdatedStores DEF FleetInv
  <2>2. QED
    BY <1>1, <2>1, PostCheckPut DEF AsStored, NoResource
<1>2. CASE FleetReconciled
  <2>1. UNCHANGED <<info, outcome>>
    BY <1>2 DEF FleetReconciled, caller
  <2>2. ASSUME outcome = "PostCheck"
        PROVE  /\ info # None /\ info.asked.install
               /\ ~NoResource(info) => StoredIn(fleet', info)
    BY <1>2, <2>2, ReconciledStored DEF FleetInv, ChecksInv, TypeInv, AsStored
  <2>3. QED
    BY <2>1, <2>2 DEF AsStored, NoResource
<1>3. CASE FleetGone
  BY <1>3 DEF FleetGone, FleetInv, AsStored, caller
<1>4. CASE UNCHANGED <<info, outcome, fleet>>
  BY <1>4 DEF FleetInv, AsStored, NoResource
<1>5. CASE outcome' # "PostCheck"
  BY <1>5 DEF AsStored
<1>6. ASSUME NEW o \in Options, StartCreate(o) \/ StartUpdate(o)
      PROVE  UNCHANGED <<info, outcome, fleet>> \/ outcome' # "PostCheck"
  BY <1>6 DEF StartCreate, StartUpdate, Start, objects
<1>7. CASE Work /\ ~UpdateVerrazzano
  <2>1. call # None /\ call.at # "fleet" /\ UNCHANGED fleet
    BY <1>7 DEF Work, SetupOCIAuth, setImageId, addSubnetForRole, SetDockerConfigJson,
       setVerrazzanoTag, PutOCIManagedCluster, At, objects
  <2>2. UNCHANGED caller \/ Return(FALSE) \/ Return(TRUE)
    BY <1>7 DEF Work, SetupOCIAuth, setImageId, addSubnetForRole, SetDockerConfigJson,
       setVerrazzanoTag, PutOCIManagedCluster, Goto
  <2>3. QED
    BY <1>4, <1>5, <2>1, <2>2, ReturnIsNoPostCheck DEF FleetInv, caller
<1>8. CASE RequestFails
  BY <1>5, <1>8 DEF RequestFails, Return
<1>9. CASE \/ StartPostCheck \/ ImagesChange \/ SubnetChanges \/ VerrazzanoUpgraded
           \/ UNCHANGED vars
  BY <1>4, <1>9 DEF StartPostCheck, ImagesChange, SubnetChanges, VerrazzanoUpgraded, vars,
     caller, objects
<1>10. QED
  BY <1>1, <1>2, <1>3, <1>4, <1>5, <1>6, <1>7, <1>8, <1>9 DEF Next

LEMMA FleetInitially == Init => FleetInv
  BY TypesInitially DEF Init, FleetInv, ChecksInv, Checks, FleetOK, AsStored

LEMMA FleetStep == FleetInv /\ [Next]_vars => FleetInv'
  BY ChecksStep, FleetOKStep, AsStoredStep DEF FleetInv

\* Once a PostCheck has succeeded, the fleet has every field of the stored state but
\* the version, if that state names a resource, whatever earlier states and the controllers put there.
THEOREM FleetStored == Spec => []FleetAsStored
<1>1. FleetInv => FleetAsStored
  BY DEF FleetInv, AsStored, FleetAsStored
<1>2. QED
  BY <1>1, FleetInitially, FleetStep, PTL DEF Spec

\* No PostCheck, and no controller, changes what the controllers wrote into the fleet
\* where no user's resource has a field.
THEOREM ForeignFieldsKept == Spec => ForeignFieldsStay
<1>1. ASSUME FleetInv, [Next]_vars, NEW path \in ForeignPaths,
             fleet # None, fleet' # None, HasField(fleet, path)
      PROVE  NestedField(fleet', path) = NestedField(fleet, path)
  <2>1. IsObject(fleet) /\ OnlyReport(fleet) /\ IsObject(fleet') /\ OnlyReport(fleet')
    BY <1>1, FleetOKStep DEF FleetInv, FleetOK
  <2>2. path \in DOMAIN fleet
    BY <1>1, <2>1, ReportedField
  <2>3. path \in DOMAIN fleet'
    <3>1. CASE UpdateVerrazzano
      BY <1>1, <2>2, <3>1, PostCheckPut, UpdatedKeeps DEF FleetInv
    <3>2. CASE FleetReconciled
      BY <1>1, <2>2, <3>2, ReconciledKeeps DEF FleetInv
    <3>3. QED
      BY <1>1, <2>2, <3>1, <3>2, FleetSteps DEF FleetGone
  <2>4. QED
    BY <2>1, <2>2, <2>3, ReportedField
<1>2. FleetInv /\ [Next]_vars
        => [\A path \in ForeignPaths :
              (fleet # None /\ fleet' # None /\ HasField(fleet, path)) =>
                NestedField(fleet', path) = NestedField(fleet, path)]_vars
  BY <1>1
<1>3. QED
  BY <1>2, FleetInitially, FleetStep, PTL DEF Spec, ForeignFieldsStay

=============================================================================
