----------------------------- MODULE MCRollout -----------------------------
(* Rollout with one call at a time, two pools and two versions.            *)
EXTENDS Rollout

CONSTANTS c1, p1, p2, v1, v2, d1, none

MCCalls == {c1}
MCPools == {p1, p2}
MCVersions == {v1, v2}
MCDisplays == {d1}
MCSizes == {1}

Pool(p, v) == [name |-> p, replicas |-> 1, version |-> v]
Opts(v, ps) == [version |-> v, display |-> d1, pools |-> ps]

\* The first pool list to start with, a replacement, and a version change with a
\* pool pinned to the old version.
MCOptions == {Opts(v1, <<Pool(p1, none)>>), Opts(v1, <<Pool(p2, none)>>),
              Opts(v2, <<Pool(p1, v1), Pool(p2, none)>>)}
=============================================================================
