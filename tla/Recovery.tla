------------------------------ MODULE Recovery ------------------------------
(***************************************************************************)
(* Transactions, buffer pool, page flusher, fuzzy checkpoints, crashes and *)
(* ARIES restart, sharing one log and one set of pages:                    *)
(*   transaction/transaction_manager.go   Begin, Commit, Abort, snapshots  *)
(*   execution/table_heap.go              changes of tuples, vacuum        *)
(*   storage/buffer_pool.go               dirty flags, flush, eviction     *)
(*   recovery/checkpoint_manager.go       Checkpoint                       *)
(*   recovery/recovery_manager.go         Recover                          *)
(* The log manager is the one of Wal: appended records, of which a prefix  *)
(* is on disk; a crash may leave a piece of a record behind that prefix,   *)
(* at which every later reader of the log stops.  What a goroutine does    *)
(* without a latch, a lock or snapshotMu in between is one step; between   *)
(* two steps everyone else may run, and the process may crash.             *)
(*                                                                         *)
(* A page that is not in the pool is kept as a clean frame with the        *)
(* contents of the disk.  Locks are those of strict two-phase locking (see *)
(* LockManager): the slots a transaction has written stay its own until    *)
(* it ends, which the log tells.                                           *)
(***************************************************************************)
EXTENDS AriesLog

CONSTANTS MaxTxns,         \* bound: calls of Begin
          MaxOps,          \* bound: inserts, deletes and updates
          MaxVacuums,      \* bound: calls of VacuumPage
          MaxCheckpoints,  \* bound: checkpoints
          MaxCrashes       \* bound: crashes

ASSUME RecoveryConstants == {MaxTxns, MaxOps, MaxVacuums, MaxCheckpoints, MaxCrashes} \subseteq Nat

VARIABLES
    log, flushed,     \* the log; how many of its records are on disk
    torn,             \* the k such that torn bytes lie behind the k-th record
    missed,           \* transactions whose WaitUntilFlushed slept through its broadcast
    disk, master,     \* pages on disk; contents of the master record file
    mem,              \* pages as the buffer pool shows them
    dirty, recLSN,    \* frames marked dirty; recovery LSN of each frame
    flushing,         \* pages FlushAllPages has chosen and not yet written
    txn,              \* the transactions in progress
    pool, nextTxnID,  \* ids of recycled contexts; the last id handed out
    ckpt,             \* the checkpoint in progress
    phase,            \* "down", "undoing", "running" or "failed"
    broken,           \* history: what recovery relies on and some crash did not find
    used              \* what the bounds count

logVars == <<log, flushed, torn, missed>>
bufferVars == <<mem, dirty, recLSN, flushing>>
vars == <<logVars, disk, master, bufferVars, txn, pool, nextTxnID, ckpt, phase, broken, used>>

NoPage == "none"
NoMaster == -2      \* there is no master record file
EmptyMaster == -1   \* the file has been created and never written

Nobody == [t \in {} |-> 0]
NoCheckpoint == [pc |-> "idle", begin |-> 0, todo |-> {}, dpt |-> Nobody, att |-> Nobody, end |-> 0]

(* An entry of a map is set *)
Put(f, x, v) == [y \in DOMAIN f \union {x} |-> IF y = x THEN v ELSE f[y]]

NewTxn(pc, start, undo) == [pc |-> pc, start |-> start, undo |-> undo, page |-> NoPage, clr |-> 0, end |-> 0]

(* nil is returned for a record that starts at the end of the flushed log  *)
WaitReturns(lsn) == lsn <= flushed + 1

NextLSN == Len(log) + 1

Count(what) == used' = [used EXCEPT ![what] = @ + 1]

(* Slots txn t holds X locks on *)
Holds(t, r) ==
    \E i \in (txn[t].start + 1)..Len(log) : IsData(log[i]) /\ log[i].txn = t /\ log[i].rid = r

Locked(r) == \E t \in DOMAIN txn : Holds(t, r)

LockFree(t, r) == \A u \in DOMAIN txn \ {t} : ~Holds(u, r)

(* Commit and Abort hold snapshotMu from their first line to their last *)
Finishing(t) == txn[t].pc \in {"aborting", "ending"}

Init ==
    /\ log = <<>> /\ flushed = 0 /\ torn = {} /\ missed = {}
    /\ disk = [p \in Pages |-> NewPage] /\ master = NoMaster
    /\ mem = disk
    /\ dirty = {} /\ recLSN = [p \in Pages |-> 0] /\ flushing = {}
    /\ txn = Nobody /\ pool = {} /\ nextTxnID = 0
    /\ ckpt = NoCheckpoint
    /\ phase = "down"
    /\ broken = {}
    /\ used = [txns |-> 0, ops |-> 0, vacuums |-> 0, checkpoints |-> 0, crashes |-> 0]

----------------------------------------------------------------------------
(* Transactions *)

(* Begin takes a recycled context, or a new one with the next id, and logs *)
(* the start; only then does the transaction enter activeTxns.             *)
BeginAppend(t) ==
    /\ phase = "running" /\ used.txns < MaxTxns
    /\ t \in pool \union {nextTxnID + 1}
    /\ pool' = pool \ {t}
    /\ nextTxnID' = IF t \in pool THEN nextTxnID ELSE t
    /\ log' = Append(log, TxnRecord("Begin", t))
    /\ txn' = Put(txn, t, NewTxn("began", NextLSN, <<>>))
    /\ Count("txns")
    /\ UNCHANGED <<flushed, torn, missed, disk, master, bufferVars, ckpt, phase, broken>>

BeginStore(t) ==
    /\ txn[t].pc = "began"
    /\ txn' = [txn EXCEPT ![t].pc = "running"]
    /\ UNCHANGED <<logVars, disk, master, bufferVars, pool, nextTxnID, ckpt, phase, broken, used>>

(* The frame of rec's page after rec, applied under the page's latch *)
ApplyToFrame(rec, lsn) ==
    LET p == rec.rid[1]
    IN  /\ mem' = [mem EXCEPT ![p] = ApplyRecord(@, rec, lsn)]
        /\ recLSN' = [recLSN EXCEPT ![p] = RecLSNAfter(@, mem[p], lsn)]

(* The record is logged, applied and stamped on the page under its latch;  *)
(* the page stays pinned, and is not marked dirty yet.                     *)
Change(t, rec) ==
    /\ phase = "running" /\ used.ops < MaxOps
    /\ txn[t].pc = "running" /\ txn[t].page = NoPage
    /\ LockFree(t, rec.rid)
    /\ log' = Append(log, rec)
    /\ ApplyToFrame(rec, NextLSN)
    /\ txn' = [txn EXCEPT ![t].page = rec.rid[1], ![t].undo = Append(@, NextLSN)]
    /\ Count("ops")
    /\ UNCHANGED <<flushed, torn, missed, disk, master, dirty, flushing, pool, nextTxnID, ckpt, phase, broken>>

SlotOf(r) == mem[r[1]].slots[r[2]]

Insert(t, r) == ~SlotOf(r).alloc /\ Change(t, DataRecord("Insert", t, r, NoValue, NextLSN))

Delete(t, r) == Live(mem[r[1]], r[2]) /\ Change(t, DataRecord("Delete", t, r, NoValue, NoValue))

Update(t, r) == Live(mem[r[1]], r[2]) /\ Change(t, DataRecord("Update", t, r, SlotOf(r).val, NextLSN))

(* UnpinPage(frame, true), at the end of a change and of its undoing *)
Unpin(t) ==
    /\ txn[t].page # NoPage
    /\ dirty' = dirty \union {txn[t].page}
    /\ txn' = [txn EXCEPT ![t].page = NoPage]
    /\ UNCHANGED <<logVars, disk, master, mem, recLSN, flushing, pool, nextTxnID, ckpt, phase, broken, used>>

(* Log the end of t and wait for it to be flushed *)
EndAppend(t, kind) ==
    /\ log' = Append(log, TxnRecord(kind, t))
    /\ txn' = [txn EXCEPT ![t].pc = "ending", ![t].end = NextLSN]
    /\ UNCHANGED <<flushed, torn, missed, disk, master, bufferVars, pool, nextTxnID, ckpt, phase, broken, used>>

CommitAppend(t) == txn[t].pc = "running" /\ txn[t].page = NoPage /\ EndAppend(t, "Commit")

(* The transaction leaves activeTxns, its locks are released and its       *)
(* context is recycled with the next id.                                   *)
Finish_NoNewId(t) ==
    /\ txn[t].pc = "ending" /\ WaitReturns(txn[t].end) /\ t \notin missed
    /\ txn' = [u \in DOMAIN txn \ {t} |-> txn[u]]
    /\ pool' = pool \union {nextTxnID + 1}
    /\ UNCHANGED <<logVars, disk, master, bufferVars, nextTxnID, ckpt, phase, broken, used>>

Finish(t) ==
    /\ txn[t].pc = "ending" /\ WaitReturns(txn[t].end) /\ t \notin missed
    /\ txn' = [u \in DOMAIN txn \ {t} |-> txn[u]]
    /\ nextTxnID' = nextTxnID + 1
    /\ pool' = pool \union {nextTxnID + 1}
    /\ UNCHANGED <<logVars, disk, master, bufferVars, ckpt, phase, broken, used>>

(* Abort, called by the transaction's owner, or by Recover for one loser   *)
(* after the other.                                                        *)
AbortStart_OnlyOwners(t) ==
    /\ txn[t].pc = "running" /\ txn[t].page = NoPage
    /\ txn' = [txn EXCEPT ![t].pc = "aborting"]
    /\ UNCHANGED <<logVars, disk, master, bufferVars, pool, nextTxnID, ckpt, phase, broken, used>>

AbortStart(t) ==
    /\ \/ txn[t].pc = "running" /\ txn[t].page = NoPage
       \/ txn[t].pc = "loser" /\ \A u \in DOMAIN txn : ~Finishing(u)
    /\ txn' = [txn EXCEPT ![t].pc = "aborting"]
    /\ UNCHANGED <<logVars, disk, master, bufferVars, pool, nextTxnID, ckpt, phase, broken, used>>

CanUndo(t) == txn[t].pc = "aborting" /\ txn[t].page = NoPage

(* The compensation record is logged before the page is even fetched *)
UndoAppend(t) ==
    /\ CanUndo(t) /\ txn[t].clr = 0 /\ txn[t].undo # <<>>
    /\ log' = Append(log, NewCLR(log[txn[t].undo[Len(txn[t].undo)]]))
    /\ txn' = [txn EXCEPT ![t].clr = NextLSN, ![t].undo = SubSeq(@, 1, Len(@) - 1)]
    /\ UNCHANGED <<flushed, torn, missed, disk, master, bufferVars, pool, nextTxnID, ckpt, phase, broken, used>>

UndoApply(t) ==
    /\ CanUndo(t) /\ txn[t].clr # 0
    /\ ApplyToFrame(log[txn[t].clr], txn[t].clr)
    /\ txn' = [txn EXCEPT ![t].clr = 0, ![t].page = log[txn[t].clr].rid[1]]
    /\ UNCHANGED <<logVars, disk, master, dirty, flushing, pool, nextTxnID, ckpt, phase, broken, used>>

AbortAppend(t) == CanUndo(t) /\ txn[t].clr = 0 /\ txn[t].undo = <<>> /\ EndAppend(t, "Abort")

(* A process whose restart failed has ended *)
TxnStep(t) ==
    /\ phase # "failed"
    /\ \/ BeginStore(t)
       \/ \E r \in Rids : Insert(t, r) \/ Delete(t, r) \/ Update(t, r)
       \/ Unpin(t)
       \/ CommitAppend(t)
       \/ AbortStart(t) \/ UndoAppend(t) \/ UndoApply(t) \/ AbortAppend(t)
       \/ Finish(t)

----------------------------------------------------------------------------
(* The log, the buffer pool and its flusher *)

(* The log's flusher writes all that has been appended, and broadcasts.    *)
(* Who waits for it and is between the test and the sleep misses that.     *)
FlushLog ==
    /\ phase \in {"running", "undoing"} /\ flushed < Len(log)
    /\ flushed' = Len(log)
    /\ missed' \in SUBSET {t \in DOMAIN txn : txn[t].pc = "ending" /\ (t \in missed \/ ~WaitReturns(txn[t].end))}
    /\ UNCHANGED <<log, torn, disk, master, bufferVars, txn, pool, nextTxnID, ckpt, phase, broken, used>>

(* VacuumPage logs nothing *)
Vacuum(p) ==
    /\ phase = "running" /\ used.vacuums < MaxVacuums
    /\ mem' = [mem EXCEPT ![p] = Vacuumed(@, {s \in Slots : Locked(<<p, s>>)})]
    /\ dirty' = dirty \union {p}
    /\ Count("vacuums")
    /\ UNCHANGED <<logVars, disk, master, recLSN, flushing, txn, pool, nextTxnID, ckpt, phase, broken>>

(* FlushAllPages chooses the dirty pages whose LSN is below FlushedUntil... *)
FlushChoose ==
    /\ phase = "running" /\ flushing = {} /\ flushed > 0
    /\ flushing' = {p \in dirty : mem[p].lsn <= flushed}
    /\ flushing' # {}
    /\ UNCHANGED <<logVars, disk, master, mem, dirty, recLSN, txn, pool, nextTxnID, ckpt, phase, broken, used>>

(* ... and writes each as it is by then *)
FlushWrite(p) ==
    /\ p \in flushing
    /\ disk' = [disk EXCEPT ![p] = mem[p]]
    /\ dirty' = dirty \ {p}
    /\ flushing' = flushing \ {p}
    /\ UNCHANGED <<logVars, master, mem, recLSN, txn, pool, nextTxnID, ckpt, phase, broken, used>>

(* GetPage evicts an unpinned page.  The page comes back in a new frame or *)
(* in a reused one, which keeps the recovery LSN of its former page.       *)
Evict(p) ==
    /\ phase \in {"running", "undoing"}
    /\ p \notin flushing
    /\ \A t \in DOMAIN txn : txn[t].page # p
    /\ p \in dirty => WaitReturns(mem[p].lsn)
    /\ disk' = IF p \in dirty THEN [disk EXCEPT ![p] = mem[p]] ELSE disk
    /\ dirty' = dirty \ {p}
    /\ \E old \in {0} \union {recLSN[q] : q \in Pages} : recLSN' = [recLSN EXCEPT ![p] = old]
    /\ UNCHANGED <<logVars, master, mem, flushing, txn, pool, nextTxnID, ckpt, phase, broken, used>>

----------------------------------------------------------------------------
(* Checkpoint *)

CkptBegin ==
    /\ phase = "running" /\ ckpt.pc = "idle" /\ used.checkpoints < MaxCheckpoints
    /\ master # NoMaster
    /\ log' = Append(log, BeginCheckpoint)
    /\ ckpt' = [NoCheckpoint EXCEPT !.pc = "begun", !.begin = NextLSN, !.todo = Pages]
    /\ Count("checkpoints")
    /\ UNCHANGED <<flushed, torn, missed, disk, master, bufferVars, txn, pool, nextTxnID, phase, broken>>

(* GetDirtyPageTableSnapshot looks at one frame after the other *)
CkptPage(p) ==
    /\ p \in ckpt.todo
    /\ ckpt' = [ckpt EXCEPT !.todo = @ \ {p}, !.dpt = IF p \in dirty THEN Put(@, p, recLSN[p]) ELSE @]
    /\ UNCHANGED <<logVars, disk, master, bufferVars, txn, pool, nextTxnID, phase, broken, used>>

Active == {t \in DOMAIN txn : txn[t].pc # "began"}

(* GetActiveTransactionsSnapshot, while no Commit or Abort is in progress *)
CkptTxns_NoMutex ==
    /\ ckpt.pc = "begun" /\ ckpt.todo = {}
    /\ ckpt' = [ckpt EXCEPT !.pc = "ending", !.att = [t \in Active |-> txn[t].start]]
    /\ UNCHANGED <<logVars, disk, master, bufferVars, txn, pool, nextTxnID, phase, broken, used>>

CkptTxns ==
    /\ ckpt.pc = "begun" /\ ckpt.todo = {}
    /\ \A t \in DOMAIN txn : ~Finishing(t)
    /\ ckpt' = [ckpt EXCEPT !.pc = "ending", !.att = [t \in Active |-> txn[t].start]]
    /\ UNCHANGED <<logVars, disk, master, bufferVars, txn, pool, nextTxnID, phase, broken, used>>

CkptEnd ==
    /\ ckpt.pc = "ending"
    /\ log' = Append(log, EndCheckpoint(ckpt.att, ckpt.dpt))
    /\ ckpt' = [ckpt EXCEPT !.pc = "ended", !.end = NextLSN]
    /\ UNCHANGED <<flushed, torn, missed, disk, master, bufferVars, txn, pool, nextTxnID, phase, broken, used>>

TruncationLSN(c) ==
    Smallest({c.begin} \union {c.att[t] : t \in DOMAIN c.att} \union {c.dpt[p] : p \in DOMAIN c.dpt})

(* Once the checkpoint is on disk, the master record names where to start *)
CkptMaster ==
    /\ ckpt.pc = "ended" /\ WaitReturns(ckpt.end)
    /\ master' = TruncationLSN(ckpt)
    /\ ckpt' = NoCheckpoint
    /\ UNCHANGED <<logVars, disk, bufferVars, txn, pool, nextTxnID, phase, broken, used>>

----------------------------------------------------------------------------
(* What recovery relies on at a crash that leaves the first k records *)

(* No page is ahead of the log *)
WriteAhead(k) == \A p \in Pages : disk[p].lsn <= k

(* What the log up to LSN n says is in slot r *)
Images == {"Insert", "Update", "UpdateCLR"}
Touching(r, n) == {i \in 1..n : IsData(log[i]) /\ log[i].rid = r}
Content(r, n) ==
    LET image == log[Largest({i \in Touching(r, n) : log[i].kind \in Images})].new
    IN  IF Touching(r, n) = {} \/ log[Largest(Touching(r, n))].kind \in {"Delete", "InsertCLR"} THEN NoValue ELSE image

(* A page on disk holds what the log says up to the page's LSN *)
PagesMatchLog ==
    \A p \in Pages, s \in Slots : disk[p].lsn <= Len(log) =>
        Visible(disk[p], s) = Content(<<p, s>>, disk[p].lsn)

(* The transaction of record i has, in the first n records, an end of this *)
(* kind.                                                                   *)
EndsWith(i, kind, n) ==
    LET ends == {j \in i..n : IsTxnEnd(log[j]) /\ log[j].txn = log[i].txn}
    IN  ends # {} /\ log[Smallest(ends)].kind = kind

(* Nothing before the master record's LSN is needed: the changes are on    *)
(* disk, and the transactions have ended.                                  *)
RedoStartsEarly == \A i \in 1..(master - 1) : IsData(log[i]) => i <= disk[log[i].rid[1]].lsn

AnalysisStartsEarly(n) ==
    \A i \in 1..(master - 1) : log[i].kind = "Begin" => EndsWith(i, "Commit", n) \/ EndsWith(i, "Abort", n)

(* No checkpoint record behind it mentions a transaction that ended before *)
(* it: analysis would not see that end.                                    *)
AnalysisSeesEnds(n) ==
    \A i \in 1..n : master <= i /\ log[i].kind = "EndCheckpoint" =>
        \A t \in DOMAIN log[i].att, j \in 1..(master - 1) :
            log[i].att[t] <= j => ~(IsTxnEnd(log[j]) /\ log[j].txn = t)

(* No id is handed out again behind an end of its former owner that        *)
(* analysis meets: it would take the new transaction for ended.            *)
AnalysisTellsApart(n) ==
    \A i, j \in 1..n : master <= j /\ j < i /\ IsTxnEnd(log[j]) /\ log[i].kind = "Begin" => log[i].txn # log[j].txn

(* The log does not tell of vacuumed slots.  Redo of an insertion leaves   *)
(* the deleted bit as it is, so it must find a slot that was never used or *)
(* is free on disk; and the deletion of a slot that is free on disk must   *)
(* not be undone.                                                          *)
VacuumSettled(k) ==
    \A p \in Pages, s \in Slots :
        LET r == <<p, s>>
            slot == disk[p].slots[s]
            last == Largest(Touching(r, k))
        IN  /\ \A i \in Touching(r, k) :
                  log[i].kind = "Insert" /\ disk[p].lsn < i /\ Touching(r, i - 1) # {} =>
                      Largest(Touching(r, i - 1)) <= disk[p].lsn /\ ~slot.del
            /\ ~slot.alloc /\ Touching(r, k) # {} /\ log[last].kind = "Delete" => EndsWith(last, "Commit", k)

(* Where analysis starts: at the master record's LSN, or at the beginning *)
ScanStart == IF master = NoMaster THEN 0 ELSE master

(* No earlier crash has left torn bytes in the middle of what is read *)
WholeLogReadable(k) ==
    \A i \in torn : i < k => i < SmallestRecLSN(ScanStart, RebuildDPT(SubSeq(log, 1, k), ScanStart))

----------------------------------------------------------------------------
(* Crash and restart *)

(* The log on disk ends with its k-th record, or with a piece of the next  *)
Crash ==
    /\ phase \in {"running", "undoing"} /\ used.crashes < MaxCrashes
    /\ \E k \in flushed..Len(log) :
          /\ log' = SubSeq(log, 1, k)
          /\ flushed' = k
          /\ broken' = broken \union
                {f \in {"write ahead", "truncation", "snapshot", "ids", "page order", "vacuum", "torn log"} :
                    \/ f = "write ahead" /\ ~WriteAhead(k)
                    \/ f = "truncation" /\ ~(RedoStartsEarly /\ AnalysisStartsEarly(k))
                    \/ f = "snapshot" /\ ~AnalysisSeesEnds(k)
                    \/ f = "ids" /\ ~AnalysisTellsApart(k)
                    \/ f = "page order" /\ ~PagesMatchLog
                    \/ f = "vacuum" /\ ~VacuumSettled(k)
                    \/ f = "torn log" /\ ~WholeLogReadable(k)}
          /\ torn' \in {torn} \union (IF k < Len(log) THEN {torn \union {k}} ELSE {})
    /\ missed' = {}
    /\ mem' = disk /\ dirty' = {} /\ recLSN' = [p \in Pages |-> 0] /\ flushing' = {}
    /\ txn' = Nobody /\ pool' = {} /\ nextTxnID' = 0
    /\ ckpt' = NoCheckpoint
    /\ phase' = "down"
    /\ Count("crashes")
    /\ UNCHANGED <<disk, master>>

(* A master record file that was never written cannot be read *)
RecoverFails ==
    /\ phase = "down" /\ master = EmptyMaster
    /\ phase' = "failed"
    /\ UNCHANGED <<logVars, disk, master, bufferVars, txn, pool, nextTxnID, ckpt, broken, used>>

Ids == 1..(LargestTxn(log, 0))

(* What an iterator that starts at LSN from reads: it stops for good at    *)
(* the first torn record.  The log is reopened behind it.                  *)
Readable(from) ==
    LET tears == {k \in torn : from <= k} IN IF tears = {} THEN log ELSE SubSeq(log, 1, Smallest(tears))

(* Recover up to the calls of Abort: analysis, redo through the buffer     *)
(* pool, and a new context, which takes an id, for every loser.            *)
Recover ==
    /\ phase = "down" /\ master # EmptyMaster
    /\ \E seen \in {Readable(ScanStart)} :
       \E dpt \in {RebuildDPT(seen, ScanStart)}, att \in {RebuildATT(seen, ScanStart, Ids)} :
       \E smallestRecLSN \in {SmallestRecLSN(ScanStart, dpt)} :
       \E redone \in {[p \in Pages |-> Redo(Readable(smallestRecLSN), smallestRecLSN, dpt, p, disk[p])]} :
          /\ mem' = [p \in Pages |-> redone[p].page]
          /\ recLSN' = [p \in Pages |-> redone[p].recLSN]
          /\ dirty' = {p \in Pages : redone[p].page # disk[p]}
          /\ nextTxnID' = LargestTxn(seen, ScanStart) + 1 + Cardinality(DOMAIN att)
          /\ \E from \in UndoStarts(ScanStart, smallestRecLSN, att) :
             \E undo \in {[t \in DOMAIN att |-> UndoBuffer(Readable(from), from, t)]} :
                /\ txn' = [t \in DOMAIN att |-> NewTxn("loser", att[t], undo[t])]
                /\ phase' = IF \E t \in DOMAIN att : undo[t] = Underflow THEN "failed" ELSE "undoing"
    /\ UNCHANGED <<logVars, disk, master, flushing, pool, ckpt, broken, used>>

(* Recover has returned; opening the checkpoint manager, which the shell   *)
(* always does and some callers never do, creates its file.                *)
StartServices ==
    /\ phase = "undoing" /\ txn = Nobody
    /\ phase' = "running"
    /\ master' \in IF master = NoMaster THEN {NoMaster, EmptyMaster} ELSE {master}
    /\ UNCHANGED <<logVars, disk, bufferVars, txn, pool, nextTxnID, ckpt, broken, used>>

Next ==
    \/ \E t \in pool \union {nextTxnID + 1} : BeginAppend(t)
    \/ \E t \in DOMAIN txn : TxnStep(t)
    \/ FlushLog \/ FlushChoose
    \/ \E p \in Pages : Vacuum(p) \/ FlushWrite(p) \/ Evict(p) \/ CkptPage(p)
    \/ CkptBegin \/ CkptTxns \/ CkptEnd \/ CkptMaster
    \/ Crash \/ RecoverFails \/ Recover \/ StartServices

Spec == Init /\ [][Next]_vars

----------------------------------------------------------------------------
(* Properties *)

Lsns == 0..Len(log)
PageType == [lsn : Nat, slots : [Slots -> [alloc : BOOLEAN, del : BOOLEAN, val : Nat]]]

(* The type of every variable; LSNs held in memory lie inside the log. *)
TypeOK ==
    /\ flushed \in Lsns /\ torn \subseteq 0..flushed /\ missed \subseteq DOMAIN txn
    /\ disk \in [Pages -> PageType] /\ mem \in [Pages -> PageType]
    /\ master \in {NoMaster, EmptyMaster} \union Lsns
    /\ dirty \subseteq Pages /\ flushing \subseteq Pages
    /\ recLSN \in [Pages -> Lsns]
    /\ pool \subseteq 1..nextTxnID /\ DOMAIN txn \subseteq 1..nextTxnID
    /\ \A t \in DOMAIN txn :
          /\ txn[t].pc \in {"began", "running", "aborting", "ending", "loser"}
          /\ {txn[t].start, txn[t].clr, txn[t].end} \subseteq Lsns
          /\ txn[t].page \in Pages \union {NoPage}
          /\ txn[t].undo \in Seq(1..Len(log)) \/ phase = "failed"
    /\ ckpt.pc \in {"idle", "begun", "ending", "ended"} /\ ckpt.begin \in Lsns /\ ckpt.end \in Lsns
    /\ phase \in {"down", "undoing", "running", "failed"}

(* What the committed transactions left in slot r *)
Committed(r) ==
    LET done == {i \in 1..Len(log) : /\ log[i].kind \in {"Insert", "Delete", "Update"}
                                     /\ log[i].rid = r
                                     /\ EndsWith(i, "Commit", Len(log))}
    IN  IF done = {} THEN NoValue ELSE log[Largest(done)].new

(* recovery_manager.go:21, "ensure database consistency and durability in  *)
(* the event of a crash": as long as every crash found what recovery       *)
(* relies on (the log ahead of the pages, pages that match the log, a safe *)
(* truncation LSN, snapshots and ids that analysis can tell apart, vacuums *)
(* that redo cannot meet, no torn record in the middle of the log), a slot *)
(* nobody has locked shows what the last transaction that committed a      *)
(* change of it left there, and nothing of an aborted or lost one: before  *)
(* a crash, after restart, and after a crash during restart.               *)
RecoveredState ==
    phase = "running" /\ broken = {} =>
        \A p \in Pages, s \in Slots : ~Locked(<<p, s>>) => Visible(mem[p], s) = Committed(<<p, s>>)

(* Redo repeats history: after it, and from then on, the pages in memory   *)
(* are what the log says, also for transactions still to be undone; only   *)
(* a compensation that is logged and not yet applied may be missing.       *)
RepeatsHistory ==
    phase \in {"undoing", "running"} /\ broken = {} =>
        \A p \in Pages, s \in Slots :
            \/ Visible(mem[p], s) = Content(<<p, s>>, Len(log))
            \/ \E t \in DOMAIN txn : txn[t].clr # 0 /\ log[txn[t].clr].rid = <<p, s>>

(* transaction_manager.go:37: "no transaction can have its Commit record   *)
(* at LSN < checkpointLSN while still appearing in the snapshot" (nor its  *)
(* Abort record): analysis, which starts no later, would never see it end. *)
NoCommittedInSnapshot ==
    \A i \in 1..Len(log) : log[i].kind = "EndCheckpoint" =>
        LET begin == Largest({j \in 1..i : log[j].kind = "BeginCheckpoint"})
        IN  \A t \in DOMAIN log[i].att :
                ~\E j \in log[i].att[t]..begin : IsTxnEnd(log[j]) /\ log[j].txn = t

(* checkpoint_manager.go:173, "The log manager can safely discard records  *)
(* before this LSN": every change logged before the truncation LSN is on   *)
(* disk, and every transaction that began before it has its end record     *)
(* there.                                                                  *)
TruncationIsSafe == phase = "running" => RedoStartsEarly /\ AnalysisStartsEarly(flushed)

(* lab4.md:10, "survive crashes and correctly recover": of the two ways in *)
(* which a restart can fail, an undo buffer from which more is popped than *)
(* was pushed (transaction_context.go:248) never happens where every crash *)
(* found what recovery relies on.  The other one is left: a master record  *)
(* file that was created and never written (recovery_manager.go:71).       *)
RestartFailsOnlyOnEmptyMaster == phase = "failed" /\ broken = {} => master = EmptyMaster

============================================================================
