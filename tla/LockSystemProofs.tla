-------------------------- MODULE LockSystemProofs --------------------------
(***************************************************************************)
(* The lock manager together with its deadlock detector is a LockManager:  *)
(* the refinement LockSystem claims, step by step, and what it carries     *)
(* over to the composed system.                                            *)
(***************************************************************************)
EXTENDS LockSystem, LockManagerProofs

(* Initially the table is empty; the detector's state is its own. *)
LEMMA TableInit == SysInit => Init
BY DEF SysInit

(* A new waiter's trigger is ArmTimer to the table; the flag and the       *)
(* signal are the detector's.                                              *)
LEMMA TriggerStep ==
    ASSUME NEW t \in Txns, Trigger(t)
    PROVE  Next
BY DEF Trigger, Next

\* A client's step is the table's own.
LEMMA TableSteps ==
    ASSUME TableStep
    PROVE  Next
BY DEF TableStep, Next

(* Of all the detector does, the table sees one thing: a resolveCycle call *)
(* whose victim is waiting when waitingOn is loaded.                       *)
LEMMA DetectorSteps ==
    ASSUME DetectorStep
    PROVE  Next \/ UNCHANGED vars
<1>1. CASE ReceiveSignal
    BY <1>1 DEF ReceiveSignal
<1>6. CASE TakeSnapshot
    BY <1>6 DEF TakeSnapshot
<1>2. CASE SearchStep
    BY <1>2 DEF SearchStep
<1>3. ASSUME NEW v \in Txns, ResolveCycle(v) PROVE Next \/ UNCHANGED vars
    <2>1. CASE waitingOn[v] # 0
        BY <1>3, <2>1 DEF ResolveCycle, Next
    <2>2. CASE waitingOn[v] = 0
        BY <1>3, <2>2 DEF ResolveCycle
    <2> QED
        BY <2>1, <2>2
<1>4. CASE ResolveReturns
    BY <1>4 DEF ResolveReturns
<1>5. CASE EndCheck
    BY <1>5 DEF EndCheck
<1> QED
    BY <1>1, <1>2, <1>3, <1>4, <1>5, <1>6 DEF DetectorStep

(* Every step of the composed system is a step of the table or leaves it   *)
(* alone.                                                                  *)
LEMMA SysStep == [SysNext]_sysVars => [Next]_vars
<1> SUFFICES ASSUME [SysNext]_sysVars PROVE [Next]_vars
    OBVIOUS
<1>1. ASSUME NEW t \in Txns, Trigger(t) PROVE Next
    BY <1>1, TriggerStep
<1>2. CASE TableStep
    BY <1>2, TableSteps
<1>3. CASE DetectorStep
    BY <1>3, DetectorSteps
<1>4. CASE SysFinished
    BY <1>4 DEF SysFinished, Finished
<1>5. CASE UNCHANGED sysVars
    BY <1>5 DEF sysVars
<1> QED
    BY <1>1, <1>2, <1>3, <1>4, <1>5 DEF SysNext

(* The lock manager with its detector goroutine, its triggers and its      *)
(* snapshots implements LockManager: whatever the search decides, and      *)
(* however stale the snapshot it decides on, its calls are calls the lock  *)
(* table is prepared for.                                                  *)
THEOREM SystemImplementsTable == SysSpec => ImplementsLockManager
BY TableInit, SysStep, PTL DEF SysSpec, ImplementsLockManager, Spec

(* So everything proved of the table holds of the composed system: mutual  *)
(* exclusion, no orphaned waiter, the exactness of the graph the detector  *)
(* takes its snapshots of, and the contexts' view of their locks.          *)
THEOREM SystemSafe ==
    SysSpec => [](HoldersCompatible /\ NoOrphanWaiter /\ WaitersConsistent /\ WaitGraphExact /\ HeldLocksAgree)
BY SystemImplementsTable, MutualExclusion, NoOrphans, QueuesConsistent, WaitGraphCorrect, HeldLocksCorrect, PTL
   DEF ImplementsLockManager

============================================================================
