--------------------------- MODULE MCShellSession ---------------------------
(* ShellSession as TLC explores it.  The target generation saturates at a      *)
(* small MaxGeneration, which bounds the state space; the runs that do not ask *)
(* about generations let it saturate at once.                                  *)
EXTENDS ShellSession
=============================================================================
