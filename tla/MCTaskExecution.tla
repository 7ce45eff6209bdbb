-------------------------- MODULE MCTaskExecution --------------------------
(* TaskExecution for TLC: TaskExecution.cfg gives the constants. The tokens *)
(* are not declared symmetric, because the run checks liveness.             *)
EXTENDS TaskExecution
=============================================================================
