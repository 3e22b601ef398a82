--------------------------- MODULE MCLockManager ---------------------------
(* Instances of LockManager for TLC. *)
EXTENDS LockManager, TLC

CONSTANTS t1, t2, t3, table, row

(* Ids are not compared in LockManager. *)
TxnSymmetry == Permutations(Txns)

(* One table, every mode an executor asks for: upgrades to SIX and X. *)
TableRequests == Txns \X {table} \X {"IS", "IX", "S", "X"}

(***************************************************************************)
(* resolveCycle is called by the detector and by timers.  Victims of the   *)
(* detector include everyone a timer could abort, so the table without     *)
(* timers loses none of its behaviours.                                    *)
(***************************************************************************)
DetectorOnlyNext ==
    \/ \E t \in Txns : ClientStep(t) \/ ArmTimer(t) \/ DetectorPicks(t)
    \/ ResolveStep
    \/ (\A t \in Txns : pc[t] = "done") /\ resolving = {} /\ UNCHANGED vars

DetectorOnly == Init /\ [][DetectorOnlyNext]_vars

============================================================================
