-------------------------- MODULE MCProvisioningLog --------------------------
(* Two writers, three messages of one to three cells, trimmed from four on. *)
EXTENDS ProvisioningLog

CONSTANTS w1, w2, m1, m2, m3

MCWriters == {w1, w2}
MCMessages == {m1, m2, m3}
MCSize == [m \in MCMessages |-> IF m = m1 THEN 1 ELSE IF m = m2 THEN 2 ELSE 3]
=============================================================================
