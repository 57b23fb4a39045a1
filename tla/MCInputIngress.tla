--------------------------- MODULE MCInputIngress ---------------------------
(* Small instances of InputIngress for TLC. *)
EXTENDS InputIngress

CONSTANTS rt, t1, e1

MCTwoThreads == {rt, t1}
MCOneExec == {e1}
=============================================================================
