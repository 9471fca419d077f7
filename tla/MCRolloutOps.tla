---------------------------- MODULE MCRolloutOps ----------------------------
(* Rollout with all four operations, a rotated credential and a pool whose  *)
(* deletion shows late: one pool, two display names, one call at a time.    *)
EXTENDS Rollout

CONSTANTS c1, p1, v1, d1, d2, none

MCCalls == {c1}
MCPools == {p1}
MCVersions == {v1}
MCDisplays == {d1, d2}
MCSizes == {1, 2}

Pool(p) == [name |-> p, replicas |-> 1, version |-> none]

\* One pool; and no pool and another display name, which makes an Update put a
\* second control plane object.
MCOptions == {[version |-> v1, display |-> d1, pools |-> <<Pool(p1)>>],
              [version |-> v1, display |-> d2, pools |-> <<>>]}
=============================================================================
