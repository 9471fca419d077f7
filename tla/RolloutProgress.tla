--------------------------- MODULE RolloutProgress ---------------------------
(***************************************************************************)
(* What a caller that retries Update can count on.  The system of Rollout  *)
(* runs, with every failure it allows, until the user settles on a goal;   *)
(* from then on nothing fails any more, the caller repeats Update with the *)
(* goal until one succeeds, and the controllers do their work.             *)
(***************************************************************************)
EXTENDS Rollout

VARIABLE settled   \* the options settled on, or None

pvars == <<vars, settled>>

PInit == Init /\ settled = None

Settle(o) == settled = None /\ created /\ info # None /\ settled' = o /\ UNCHANGED vars

\* An Update with the goal has succeeded and was the last call to end.
Delivered ==
  settled # None /\ outcome = "Update" /\ info = SetUpdateValues(info, settled, info.cred)

Retry(c) ==
  /\ settled # None /\ ~Delivered
  /\ StartUpdate(c, settled)
  /\ UNCHANGED settled

\* A call's own steps, none of which fails except at a gate or by a conflict
\* with a status the controllers wrote.
Undisturbed(c) ==
  /\ settled # None
  /\ Work(c) /\ ~(/\ call'[c] = None /\ outcome' = "failed"
                  /\ ~NotReady(c) /\ ~Conflict(c))
  /\ UNCHANGED settled

ControllerStep(A) == A /\ settled # None /\ UNCHANGED settled

PNext ==
  \/ settled = None /\ Next /\ UNCHANGED settled
  \/ \E o \in Options : Settle(o)
  \/ \E c \in Calls : Retry(c) \/ Undisturbed(c)
  \/ ControllerStep(Controllers)

\* The driver's goroutine runs whenever it can, the caller retries a failed
\* Update, and every controller keeps reconciling.  Nothing is assumed of the
\* time before the goal is settled, nor that the user ever settles.
PSpec ==
  /\ PInit /\ [][PNext]_pvars
  /\ \A c \in Calls : WF_pvars(Retry(c)) /\ WF_pvars(Undisturbed(c))
  /\ WF_pvars(ControllerStep(InfrastructureUp))
  /\ WF_pvars(ControllerStep(ControlPlaneUp))
  /\ \A p \in Pools : /\ WF_pvars(ControllerStep(PoolUp(p)))
                      /\ WF_pvars(ControllerStep(PoolDeleting(p)))
                      /\ WF_pvars(ControllerStep(Finalize(p)))

-----------------------------------------------------------------------------
\* The goal is in force: delivered, applied, running, and nothing else is left.
InForce ==
  /\ Delivered /\ \A c \in Calls : ~Running(c)
  /\ \A k \in WantedKeys(info) : Exists(k) /\ store[k].content = Render(k, info)
  /\ runs = settled.version
  /\ ListedPools = WantedPools(info) /\ \A p \in ListedPools : phase[p] = "Running"

\* The goal keeps or drops pools that are complete, and adds none.
OnlyCompletePools ==
  /\ ListedPools # {}
  /\ \A p \in ListedPools : Exists(OCIMachinePool(p))
  /\ \A i \in DOMAIN settled.pools :
       LET k == MachinePool(settled.pools[i].name) IN Exists(k) /\ ~store[k].dying

\* Whatever happened before, retried Updates bring a cluster whose pools are
\* complete to any goal that adds no pool, and it stays there.
Converges ==
  ((settled # None) /\ OnlyCompletePools /\ (\A c \in Calls : ~Running(c))) ~> []InForce

\* Between the goal and its success nothing of it is lost: while only Updates for
\* the goal are at work and its pools are there, whole, no step begins the
\* deletion of one of them or takes it away, whatever else is being deleted.
There(k) == Exists(k) /\ ~store[k].dying

OnCourse ==
  /\ settled # None
  /\ \A i \in DOMAIN settled.pools : LET p == settled.pools[i].name IN
       There(MachinePool(p)) /\ There(OCIMachinePool(p))
  /\ \A c \in Calls : Running(c) =>
       call[c].op = "Update" /\ call[c].v.pools = ParseNodePools(settled.pools)

GoalPoolsSurvive == [][OnCourse => OnCourse']_pvars

\* "update the worker nodes, and then wait for the worker nodes to be ready"
\* (update.go): every goal is delivered by retried Updates in the end, one that
\* adds a pool included.
UpdateIsDelivered == (settled # None) ~> Delivered
=============================================================================
