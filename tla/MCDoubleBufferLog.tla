------------------------- MODULE MCDoubleBufferLog -------------------------
(* Instances of DoubleBufferLog for TLC. *)
EXTENDS DoubleBufferLog, TLC

CONSTANTS c1, c2

(* Goroutines are interchangeable in runs without liveness. *)
ClientSymmetry == Permutations(Clients)

(***************************************************************************)
(* Go runs every goroutine that can run, and the ticker keeps firing once  *)
(* appends pause (MaxCalls bounds them).                                   *)
(***************************************************************************)
Fair ==
    /\ Spec
    /\ WF_vars(FlusherStep)
    /\ WF_vars(CloseReturns)
    /\ \A c \in Clients : WF_vars(Count(c) \/ WaitForSpace(c) \/ AppendRecord(c)) /\ WF_vars(WaitStep(c))

(* An Append that waits for space returns, also when Close is called       *)
(* meanwhile: the full buffer is drained and its waiters are woken,        *)
(* whatever the flusher is doing, as long as it has not stopped.           *)
EveryAppendReturns ==
    \A c \in Clients : pc[c] = "noSpace" /\ flusher # "stopped" ~> pc[c] \in {"appended", "idle"}

(* Close returns: the flusher drains the buffers and stops. *)
EveryCloseReturns == closer = "waiting" ~> closer # "waiting"

(* The two together: no Append and no Close is left waiting for a drain or *)
(* a broadcast that has already happened.                                  *)
AppendAndCloseReturn == EveryAppendReturns /\ EveryCloseReturns

(* A goroutine between the loop test of WaitUntilFlushed and condWait.Wait *)
(* whose record has been flushed and broadcast meanwhile.                  *)
MissesBroadcast(c) == pc[c] = "parking" /\ ~MustWait(mine[c]) /\ flusher # "notify"

(* A WaitUntilFlushed that finds the log open returns, but for one case,   *)
(* which the code does not exclude: the broadcast comes after its test and *)
(* before it is on the condition variable's list (lines 108 to 113).       *)
EveryWaitReturns == \A c \in Clients : pc[c] = "checking" ~> pc[c] = "idle" \/ MissesBroadcast(c)

============================================================================
