------------------------------ MODULE AriesLog ------------------------------
(***************************************************************************)
(* Log records, what they do to a heap page, and what recovery computes    *)
(* from a log: the operators shared by normal processing, rollback and     *)
(* restart (storage/log_record.go, storage/heap_page.go,                   *)
(* transaction/transaction_context.go, recovery/recovery_manager.go).      *)
(*                                                                         *)
(* The LSN of a record is its place in the log, from 1.  0 stands for the  *)
(* start of the log and for a page or frame that has seen no record yet    *)
(* (the code uses 0 for both, and for the first record, which is never     *)
(* that of a change).  Every write writes something new: the contents of a *)
(* tuple are the LSN of the record that wrote it.                          *)
(***************************************************************************)
EXTENDS Integers, Sequences, FiniteSets

CONSTANTS Pages,    \* heap pages
          Slots     \* slots of a page

NoValue == 0        \* contents of a slot that was never written

Rids == Pages \X Slots

(* A slot: its bit in the allocation bitmap, its bit in the deleted        *)
(* bitmap, its tuple.                                                      *)
FreeSlot == [alloc |-> FALSE, del |-> FALSE, val |-> NoValue]
NewPage == [lsn |-> 0, slots |-> [s \in Slots |-> FreeSlot]]

Live(page, s) == page.slots[s].alloc /\ ~page.slots[s].del

(* What a reader finds in a slot *)
Visible(page, s) == IF Live(page, s) THEN page.slots[s].val ELSE NoValue

Largest(S) == CHOOSE x \in S : \A y \in S : y <= x
Smallest(S) == CHOOSE x \in S : \A y \in S : x <= y

----------------------------------------------------------------------------
(* Log records *)

TxnRecord(kind, t) == [kind |-> kind, txn |-> t]
DataRecord(kind, t, r, old, new) == [kind |-> kind, txn |-> t, rid |-> r, old |-> old, new |-> new]
EndCheckpoint(att, dpt) == [kind |-> "EndCheckpoint", att |-> att, dpt |-> dpt]
BeginCheckpoint == [kind |-> "BeginCheckpoint"]

IsCLR(rec) == rec.kind \in {"InsertCLR", "DeleteCLR", "UpdateCLR"}
IsData(rec) == IsCLR(rec) \/ rec.kind \in {"Insert", "Delete", "Update"}
IsTxnEnd(rec) == rec.kind \in {"Commit", "Abort"}
HasTxn(rec) == IsData(rec) \/ IsTxnEnd(rec) \/ rec.kind = "Begin"

ClrOf == [Insert |-> "InsertCLR", Delete |-> "DeleteCLR", Update |-> "UpdateCLR"]

(* The record that compensates rec: an update's before image becomes the   *)
(* after image.                                                            *)
NewCLR(rec) == DataRecord(ClrOf[rec.kind], rec.txn, rec.rid, rec.new, rec.old)

(* What a record does to its slot, the first time and when it is redone.   *)
(* MarkAllocated(rid, true) leaves the deleted bit as it is.               *)
ApplyToSlot(slot, rec) ==
    CASE rec.kind = "Insert"                     -> [slot EXCEPT !.alloc = TRUE, !.val = rec.new]
      [] rec.kind \in {"Update", "UpdateCLR"}    -> [slot EXCEPT !.val = rec.new]
      [] rec.kind \in {"Delete", "InsertCLR"}    -> [slot EXCEPT !.del = TRUE]
      [] rec.kind = "DeleteCLR"                  -> [slot EXCEPT !.del = FALSE]

(* The page after rec; its LSN only grows (MonotonicallyUpdateLSN) *)
ApplyRecord(page, rec, lsn) ==
    [lsn |-> IF lsn > page.lsn THEN lsn ELSE page.lsn,
     slots |-> [page.slots EXCEPT ![rec.rid[2]] = ApplyToSlot(@, rec)]]

(* The frame's recovery LSN: set by the first record that moves the page's *)
(* LSN while it is unset, and never cleared.                               *)
RecLSNAfter(recLSN, page, lsn) == IF lsn > page.lsn /\ recLSN = 0 THEN lsn ELSE recLSN

(* VacuumPage frees the deleted slots that nobody has locked.              *)
(* MarkAllocated(rid, false) clears both bits.                             *)
Vacuumed(page, locked) ==
    [page EXCEPT !.slots =
        [s \in Slots |-> IF page.slots[s].del /\ s \notin locked
                         THEN [page.slots[s] EXCEPT !.alloc = FALSE, !.del = FALSE]
                         ELSE page.slots[s]]]

----------------------------------------------------------------------------
(* Analysis: a scan of log lg from position from to its end *)

Scan(lg, from) == {i \in 1..Len(lg) : from <= i}

EndedIn(lg, from) == {lg[i].txn : i \in {j \in Scan(lg, from) : IsTxnEnd(lg[j])}}

Mentions(rec, t) == \/ rec.kind = "Begin" /\ rec.txn = t
                    \/ rec.kind = "EndCheckpoint" /\ t \in DOMAIN rec.att

StartOf(lg, i, t) == IF lg[i].kind = "Begin" THEN i ELSE lg[i].att[t]

(* The active transactions and where they start: mentioned by a Begin or   *)
(* by a checkpoint, and not seen ending.  A transaction that has been seen *)
(* ending is never added, and its entry is deleted.                        *)
RebuildATT_KeepsEnded(lg, from, txns) ==
    LET active == {t \in txns : \E i \in Scan(lg, from) : Mentions(lg[i], t)}
    IN  [t \in active |-> StartOf(lg, Largest({i \in Scan(lg, from) : Mentions(lg[i], t)}), t)]

RebuildATT(lg, from, txns) ==
    LET active == {t \in txns \ EndedIn(lg, from) : \E i \in Scan(lg, from) : Mentions(lg[i], t)}
    IN  [t \in active |-> StartOf(lg, Largest({i \in Scan(lg, from) : Mentions(lg[i], t)}), t)]

Dirties(rec, p) == \/ IsData(rec) /\ rec.rid[1] = p
                   \/ rec.kind = "EndCheckpoint" /\ p \in DOMAIN rec.dpt

(* The dirty pages and their recovery LSNs: the first mention counts *)
RebuildDPT(lg, from) ==
    [p \in {q \in Pages : \E i \in Scan(lg, from) : Dirties(lg[i], q)} |->
        LET i == Smallest({j \in Scan(lg, from) : Dirties(lg[j], p)})
        IN  IF IsData(lg[i]) THEN i ELSE lg[i].dpt[p]]

(* The largest transaction id the scan meets *)
LargestTxn(lg, from) ==
    Largest({0} \union {lg[i].txn : i \in {j \in Scan(lg, from) : HasTxn(lg[j])}}
                \union UNION {DOMAIN lg[i].att : i \in {j \in Scan(lg, from) : lg[j].kind = "EndCheckpoint"}})

----------------------------------------------------------------------------
(* Redo and the undo buffers *)

SmallestRecLSN(master, dpt) == Smallest({master} \union {dpt[p] : p \in DOMAIN dpt})

NeedsRedo_SkipsFirst(rec, i, p, dpt, page) == IsData(rec) /\ rec.rid[1] = p /\ dpt[p] < i /\ page.lsn < i

NeedsRedo(rec, i, p, dpt, page) == IsData(rec) /\ rec.rid[1] = p /\ dpt[p] <= i /\ page.lsn < i

(* Page and recovery LSN of p after the redo scan; a page that is not in   *)
(* the dirty page table is left alone.                                     *)
Redo(lg, from, dpt, p, page) ==
    LET redone[i \in 0..Len(lg)] ==
            IF i = 0 THEN [page |-> page, recLSN |-> 0]
            ELSE LET f == redone[i - 1]
                 IN  IF from <= i /\ NeedsRedo(lg[i], i, p, dpt, f.page)
                     THEN [page |-> ApplyRecord(f.page, lg[i], i), recLSN |-> RecLSNAfter(f.recLSN, f.page, i)]
                     ELSE f
    IN  IF p \in DOMAIN dpt THEN redone[Len(lg)] ELSE [page |-> page, recLSN |-> 0]

(* Where the scan that fills the undo buffers may start.  The loop over    *)
(* the map compares with the smallest recovery LSN, so of the starts below *)
(* that the last one it happens to visit remains.                          *)
UndoStarts(master, smallestRecLSN, att) ==
    LET early == {att[t] : t \in {u \in DOMAIN att : att[u] < smallestRecLSN}}
    IN  IF early = {} THEN {master} ELSE early

(* BufferRecordForRecovery: a change is pushed, a CLR pops the last one.   *)
(* Popping an empty buffer is an assertion failure, which ends the scan.   *)
Underflow == <<0>>

Buffered_PopsAll(buffer, rec, i) ==
    IF buffer = Underflow \/ (IsCLR(rec) /\ buffer = <<>>) THEN Underflow
    ELSE IF IsCLR(rec) THEN <<>> ELSE Append(buffer, i)

Buffered(buffer, rec, i) ==
    IF buffer = Underflow \/ (IsCLR(rec) /\ buffer = <<>>) THEN Underflow
    ELSE IF IsCLR(rec) THEN SubSeq(buffer, 1, Len(buffer) - 1) ELSE Append(buffer, i)

UndoBuffer(lg, from, t) ==
    LET buffer[i \in 0..Len(lg)] ==
            IF i < from \/ i = 0 THEN <<>>
            ELSE IF IsData(lg[i]) /\ lg[i].txn = t THEN Buffered(buffer[i - 1], lg[i], i) ELSE buffer[i - 1]
    IN  buffer[Len(lg)]

============================================================================
