-------------------------- MODULE MCRolloutProgress --------------------------
(* Retried Updates with two pools and two versions, one call at a time.    *)
EXTENDS RolloutProgress

CONSTANTS c1, p1, p2, v1, v2, d1, none

MCCalls == {c1}
MCPools == {p1, p2}
MCVersions == {v1, v2}
MCDisplays == {d1}
MCSizes == {1}

Pool(p) == [name |-> p, replicas |-> 1, version |-> none]
Opts(v, ps) == [version |-> v, display |-> d1, pools |-> ps]

\* Both pools on the old version, one of them on the new one.
MCOptions == {Opts(v1, <<Pool(p1), Pool(p2)>>), Opts(v2, <<Pool(p2)>>)}
=============================================================================
