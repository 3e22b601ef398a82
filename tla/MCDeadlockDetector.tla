------------------------ MODULE MCDeadlockDetector -------------------------
(* DeadlockDetector for TLC: every wait graph over a few transactions. *)
EXTENDS DeadlockDetector

============================================================================
