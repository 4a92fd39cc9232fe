--------------------------- MODULE MCConsoleSession ---------------------------
(* console-session.sh on its own: the units activate it in any order. *)
EXTENDS ConsoleSession
==============================================================================
