----------------------------- MODULE LockSystem -----------------------------
(***************************************************************************)
(* The lock manager with its deadlock detector goroutine: LockManager's    *)
(* lock table and clients, and DeadlockDetector's search run on snapshots  *)
(* of the table's wait graph while transactions go on.  It implements      *)
(* LockManager, whose detector may pick any waiting victim.                *)
(***************************************************************************)
EXTENDS LockManager

VARIABLES
    waitStateChanged,  \* the atomic flag: an edge was added since the last check
    signals,           \* 200 us timers and values of detectCh not yet received
    detector,          \* where the detector goroutine is
    call,              \* the resolveCycle call the detector is in, or NoCall
    graph, todo, visited, onStack, stack, cycle, victims

NoCall == [victim |-> 0, id |-> 0]

triggerVars == <<waitStateChanged, signals>>
searchVars == <<graph, todo, visited, onStack, stack, cycle, victims>>
sysVars == <<vars, triggerVars, detector, call, searchVars>>

Detector == INSTANCE DeadlockDetector WITH Tids <- Txns

NoEdges == [u \in Txns |-> {}]

SysInit ==
    /\ Init
    /\ waitStateChanged = FALSE
    /\ signals = 0
    /\ detector = "waiting"
    /\ call = NoCall
    /\ graph = NoEdges /\ todo = NoEdges
    /\ visited = {} /\ onStack = {}
    /\ stack = <<>> /\ cycle = {} /\ victims = <<>>

(* A new waiter raises the flag and starts the 200 us timer (beyond 1000   *)
(* waiters it sends on detectCh itself: the same signal, without a delay). *)
Trigger(t) ==
    /\ ArmTimer(t)
    /\ waitStateChanged' = TRUE
    /\ signals' = signals + 1
    /\ UNCHANGED <<detector, call, searchVars>>

(* Every other step of a transaction, of a timer or of a resolveCycle call *)
TableStep ==
    /\ \/ \E t \in Txns : ClientStep(t)
       \/ TimerStep
       \/ ResolveStep
    /\ UNCHANGED <<triggerVars, detector, call, searchVars>>

(* The keys of each row of the wait graph, copied under graphMu *)
Snapshot == [u \in Txns |-> IF u \in DOMAIN waitGraph THEN {v \in Txns : waitGraph[u][v] > 0} ELSE {}]

(* for _ = range detectCh: the CompareAndSwap of the flag decides.  The    *)
(* flag is down from here on, and the snapshot is still to be taken.       *)
ReceiveSignal ==
    /\ detector = "waiting"
    /\ signals > 0
    /\ signals' = signals - 1
    /\ detector' = IF waitStateChanged THEN "triggered" ELSE "waiting"
    /\ waitStateChanged' = FALSE
    /\ UNCHANGED <<vars, call, searchVars>>

(* runGlobalDeadlockCheck starts *)
TakeSnapshot ==
    /\ detector = "triggered"
    /\ detector' = "checking"
    /\ Detector!Begin(Snapshot) /\ victims' = <<>>
    /\ UNCHANGED <<vars, triggerVars, call>>

SearchStep ==
    /\ detector = "checking"
    /\ (\E v \in Txns : Detector!Search(v)) \/ Detector!Return
    /\ UNCHANGED <<vars, triggerVars, detector, call>>

(* resolveCycle(cycle): the victim waits for something now, or returns at once *)
ResolveCycle_NoNilCheck(v) ==
    /\ detector = "checking" /\ call = NoCall
    /\ Detector!IsVictim(v)
    /\ call' = [victim |-> v, id |-> waitingOn[v]]
    /\ resolving' = resolving \union {[victim |-> v, id |-> waitingOn[v]]}
    /\ UNCHANGED <<tableVars, clientVars, timers, triggerVars, detector, searchVars>>

ResolveCycle(v) ==
    /\ detector = "checking" /\ call = NoCall
    /\ IF waitingOn[v] # 0
       THEN /\ Detector!IsVictim(v)
            /\ DetectorPicks(v)
            /\ call' = [victim |-> v, id |-> waitingOn[v]]
            /\ UNCHANGED searchVars
       ELSE Detector!Resolve(v) /\ UNCHANGED <<vars, call>>
    /\ UNCHANGED <<triggerVars, detector>>

ResolveReturns ==
    /\ call # NoCall
    /\ call \notin resolving
    /\ call' = NoCall
    /\ Detector!Resolve(call.victim)
    /\ UNCHANGED <<vars, triggerVars, detector>>

(* The snapshot is garbage when runGlobalDeadlockCheck returns *)
EndCheck ==
    /\ detector = "checking" /\ Detector!Idle
    /\ detector' = "waiting"
    /\ graph' = NoEdges /\ todo' = NoEdges
    /\ visited' = {} /\ onStack' = {} /\ victims' = <<>>
    /\ UNCHANGED <<vars, triggerVars, call, stack, cycle>>

DetectorStep ==
    \/ ReceiveSignal \/ TakeSnapshot \/ SearchStep
    \/ \E v \in Txns : ResolveCycle(v)
    \/ ResolveReturns \/ EndCheck

SysFinished == Finished /\ signals = 0 /\ detector = "waiting" /\ UNCHANGED sysVars

SysNext == (\E t \in Txns : Trigger(t)) \/ TableStep \/ DetectorStep \/ SysFinished

SysSpec == SysInit /\ [][SysNext]_sysVars

----------------------------------------------------------------------------
(* Properties *)

(* lab3.md:77, "detect deadlocks and return a DeadlockError if one         *)
(* occurs": while transactions wait for each other in a circle, the        *)
(* detector is about to look: a check has been asked for and its signal is *)
(* pending, a check or a resolveCycle is running, or one of the waiters is *)
(* still to raise the flag.  It is false: a check that meets two circles   *)
(* with a common transaction breaks one of them and skips the other, whose *)
(* members it has visited (lock.go:584).                                   *)
NoUnwatchedDeadlock ==
    (\E S \in SUBSET DOMAIN waitGraph : S # {} /\ \A w \in S : \E u \in S : waitGraph[w][u] > 0) =>
        \/ waitStateChanged /\ signals > 0
        \/ detector # "waiting"
        \/ resolving # {}
        \/ \E t \in Txns : pc[t] = "enqueued"

(* The detector's victims are unknown to the table: each of its calls is   *)
(* one LockManager allows, so everything shown of LockManager holds here.  *)
ImplementsLockManager == Spec

============================================================================
