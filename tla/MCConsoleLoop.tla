----------------------------- MODULE MCConsoleLoop ----------------------------
(* The two units in turn, over one boot of either kind of entry. *)
EXTENDS ConsoleLoop
==============================================================================
