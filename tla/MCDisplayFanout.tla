--------------------------- MODULE MCDisplayFanout ---------------------------
(* Small instances of DisplayFanout for TLC. *)
EXTENDS DisplayFanout, TLC

CONSTANTS v1, v2, e1, e2

MCViewers == {v1, v2}
MCExecs == {e1, e2}

\* Viewers and executions are compared for equality only.
MCSymmetry == Permutations(MCViewers) \cup Permutations(MCExecs)
=============================================================================
