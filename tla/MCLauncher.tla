------------------------------ MODULE MCLauncher ------------------------------
(* The launcher over one boot, activated any number of times. *)
EXTENDS Launcher
==============================================================================
