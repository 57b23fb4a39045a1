----------------------- MODULE MCExecutionLifecycle -----------------------
(* Instances of ExecutionLifecycle for TLC. *)
EXTENDS ExecutionLifecycle

CONSTANT e1

MCOne == {e1}
NoFaults == {}
AllFaults == {"signal", "io"}
=============================================================================
