---------------------------- MODULE StagedUpdate ----------------------------
(***************************************************************************)
(* What one driver call after the other promises to do to the objects of a *)
(* cluster, whatever requests that takes: it puts the objects its goal     *)
(* asks for, each only after the objects that must be there before, then   *)
(* takes away the pools nobody asks for, and reports success only when all *)
(* of that is done.  It may fail at any moment and leave the rest undone.  *)
(* Nobody else changes an object, except that what is being deleted goes   *)
(* away.                                                                   *)
(***************************************************************************)
CONSTANTS
  Objects,       \* everything a cluster may consist of
  Deletable,     \* the objects a call may delete
  Listed,        \* those of them that a call looks for
  Goals,         \* what a call may be after
  Nothing,       \* no goal, no object
  Asked(_),      \* the objects a goal asks for
  Content(_, _), \* what a goal wants an object to be
  Before(_, _),  \* the objects a goal has put before an object
  Prunes(_),     \* does a goal want all other pools deleted?
  Success(_)     \* how a call with that goal reports success

VARIABLES
  goal,    \* the goal of the call in progress, or Nothing
  done,    \* the objects that call has put
  content, \* the content of every object, or Nothing
  leaving, \* the objects being deleted
  outcome  \* how the last call ended

vars == <<goal, done, content, leaving, outcome>>

Init ==
  /\ goal = Nothing /\ done = {} /\ outcome = "none"
  /\ content = [k \in Objects |-> Nothing] /\ leaving = {}

Begin ==
  /\ goal = Nothing /\ goal' # Nothing /\ goal' \in Goals
  /\ UNCHANGED <<done, content, leaving, outcome>>

Continue(d) == goal' = goal /\ done' = d /\ outcome' = outcome

Fail == goal' = Nothing /\ done' = {} /\ outcome' = "failed"

Spare == {k \in Deletable \ Asked(goal) : content[k] # Nothing}

Succeed(d) ==
  /\ Asked(goal) \subseteq d
  /\ Prunes(goal) => Spare \cap Listed \subseteq leaving
  /\ goal' = Nothing /\ done' = {} /\ outcome' = Success(goal)

\* The object becomes what the goal wants, whatever it was before.
Put(k) ==
  /\ goal # Nothing /\ k \in Asked(goal) /\ Before(goal, k) \subseteq done
  /\ content' = [content EXCEPT ![k] = Content(goal, k)]
  /\ UNCHANGED leaving
  /\ Continue(done \cup {k}) \/ Fail \/ Succeed(done \cup {k})

\* Nothing is deleted before everything asked for has been put.
Delete(k) ==
  /\ goal # Nothing /\ Prunes(goal) /\ Asked(goal) \subseteq done
  /\ k \in Spare /\ leaving' = leaving \cup {k}
  /\ UNCHANGED content
  /\ Continue(done) \/ Fail

End ==
  /\ Fail \/ (goal # Nothing /\ Succeed(done))
  /\ UNCHANGED <<content, leaving>>

\* Deletions are finished by controllers, which may take an object's dependents
\* with it.
Vanish(ks) ==
  /\ UNCHANGED <<goal, done, outcome>>
  /\ ks \cap leaving # {}
  /\ leaving' = leaving \ ks
  /\ content' = [k \in Objects |-> IF k \in ks THEN Nothing ELSE content[k]]

Next ==
  \/ Begin \/ End
  \/ \E k \in Objects : Put(k) \/ Delete(k)
  \/ \E ks \in SUBSET Deletable : Vanish(ks)

Spec == Init /\ [][Next]_vars
=============================================================================
