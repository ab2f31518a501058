------------------------- MODULE MCExecutionSandbox -------------------------
(* Instances of ExecutionSandbox for TLC; the constants are in the .cfg.    *)
EXTENDS ExecutionSandbox
=============================================================================
