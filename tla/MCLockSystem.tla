---------------------------- MODULE MCLockSystem ----------------------------
(* Instances of LockSystem for TLC. *)
EXTENDS LockSystem

CONSTANTS table, row

(* Two transactions read and write a table and its row, in either order.   *)
HierarchyRequests == (Txns \X {table} \X {"S", "IX"}) \union (Txns \X {row} \X {"X"})

(* 2 writes the row and waits for the table that 1 and 3 read, and both    *)
(* wait for the row.                                                       *)
CrossedRequests ==
    {<<2, row, "X">>, <<2, table, "X">>} \union ({1, 3} \X {table} \X {"S"}) \union ({1, 3} \X {row} \X {"X"})

(* The detector, the timers and all they start leave its other state alone *)
OutsideDetector == UNCHANGED <<triggerVars, detector, call, searchVars>>

(***************************************************************************)
(* Go runs every timer and every goroutine that can run; nothing makes an  *)
(* executor end its transaction or ask for another lock.                   *)
(***************************************************************************)
SysFair ==
    /\ SysSpec
    /\ WF_sysVars(DetectorStep)
    /\ \A t \in Txns :
          /\ WF_sysVars(Trigger(t))
          /\ WF_sysVars(LockReturns(t) /\ OutsideDetector)
          /\ \A id \in 1..MaxCalls :
                /\ WF_sysVars(TimerFires(t, id) /\ OutsideDetector)
                /\ LET r == [victim |-> t, id |-> id]
                   IN  WF_sysVars((ResolveHandled(r) \/ ResolveAbort(r)) /\ OutsideDetector)

(* Every Lock call returns: whoever blocks on its channel gets an answer,  *)
(* granted or aborted, even if no holder ever releases (the 400 ms timer   *)
(* reaches the request whichever of its races it loses).                   *)
EveryLockReturns == \A t \in Txns : pc[t] \in {"enqueued", "blocked"} ~> pc[t] = "running"

============================================================================
