--------------------------- MODULE MCRolloutRetry ---------------------------
(* Rollout with two calls at a time that carry the same request: a caller   *)
(* that gave up on a slow call and sends it again.                          *)
EXTENDS Rollout

CONSTANTS c1, c2, p1, v1, d1, none

MCCalls == {c1, c2}
MCPools == {p1}
MCVersions == {v1}
MCDisplays == {d1}
MCSizes == {1}

MCOptions == {[version |-> v1, display |-> d1,
               pools |-> <<[name |-> p1, replicas |-> 1, version |-> none]>>]}
=============================================================================
