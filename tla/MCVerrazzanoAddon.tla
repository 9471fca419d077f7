-------------------------- MODULE MCVerrazzanoAddon --------------------------
(* One cluster, one PostCheck or Remove at a time, every meaningful option. *)
EXTENDS VerrazzanoAddon

CONSTANTS c1

MCCalls == {c1}

Opts(install, create) == [install |-> install, resource |-> TRUE, create |-> create]

\* With and without Verrazzano, with and without a private registry's secret,
\* and Verrazzano with an empty resource.
MCOptions == {Opts(TRUE, TRUE), Opts(TRUE, FALSE), Opts(FALSE, FALSE), Opts(FALSE, TRUE),
              [install |-> TRUE, resource |-> FALSE, create |-> FALSE]}
=============================================================================
