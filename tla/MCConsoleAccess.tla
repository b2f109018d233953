--------------------------- MODULE MCConsoleAccess ---------------------------
(* ConsoleAccess for TLC. *)
EXTENDS ConsoleAccess
=============================================================================
