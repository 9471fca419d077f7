---------------------------- MODULE MCConnection ----------------------------
(* Connection with two overlapping PostChecks and two pieces of trouble.   *)
EXTENDS Connection

CONSTANTS c1, c2, none

MCCalls == {c1, c2}
=============================================================================
