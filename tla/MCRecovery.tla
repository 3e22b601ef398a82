----------------------------- MODULE MCRecovery -----------------------------
(* Instances of Recovery for TLC. *)
EXTENDS Recovery

CONSTANTS p1, s1,
          MaxActive,  \* bound: transactions in progress at the same time
          MaxCheckpointed, \* bound: transactions and changes in a behaviour with a checkpoint
          MaxEvents   \* bound: calls of Begin, changes, vacuums, crashes, and twice the checkpoints

(* States behind a crash that broke what recovery relies on: the           *)
(* properties of recovery say nothing of them.                             *)
Reliable == broken = {}

Bounded ==
    /\ Reliable
    /\ Cardinality(DOMAIN txn) <= MaxActive
    /\ used.txns + used.ops + used.vacuums + 2 * used.checkpoints + used.crashes <= MaxEvents
    /\ used.checkpoints > 0 => used.txns + used.ops <= MaxCheckpointed

(* The goroutine that opens the database: recovery, the rollbacks of the   *)
(* losers, the services.                                                   *)
RestartStep ==
    \/ Recover \/ RecoverFails \/ StartServices
    \/ phase = "undoing" /\ \E t \in DOMAIN txn : TxnStep(t)

(* That goroutine and the log's flusher are scheduled *)
Fair == Spec /\ WF_vars(FlushLog) /\ WF_vars(RestartStep)

(* recovery_manager.go:279: every loser is rolled back, whatever state its *)
(* rollback was in when the process crashed, and Recover returns, but for  *)
(* one case, which the code does not exclude: a rollback's WaitUntilFlushed*)
(* misses the broadcast (double_buffer_log.go:108-113), and no other       *)
(* append comes during restart to cause the next one.                      *)
RestartEnds == phase = "down" ~> phase \in {"running", "failed"} \/ missed # {}

============================================================================
