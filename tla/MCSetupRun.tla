------------------------------ MODULE MCSetupRun ------------------------------
(* The boot disk and three targets, so that two attempts can differ, overlap *)
(* or be the same; two attempts between reboots or across one.               *)
EXTENDS SetupRun, TLC

CONSTANTS boot, d1, d2, d3

MCDisk == {boot, d1, d2, d3}

\* The targets play the same part; only safety is checked with this.
Symmetric == Permutations({d1, d2, d3})
==============================================================================
