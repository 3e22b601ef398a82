---------------------------- MODULE IndexedTable ----------------------------
(***************************************************************************)
(* A table with an in-memory hash index and an in-memory B-tree index on   *)
(* the same column (indexing/), changed and read by concurrent             *)
(* transactions through the insert, delete, update, index lookup and index *)
(* scan executors.  Index entries are added at once and taken back by      *)
(* Abort; removals wait for Commit.  Neither index is logged: a restart    *)
(* rebuilds both from the table.                                           *)
(*                                                                         *)
(* The table is one heap page; a tuple is its key.  One step is one        *)
(* critical section: a tuple operation with the tuple lock it takes, an    *)
(* operation of the B-tree (which has its own lock), and for the hash      *)
(* index the lookup of the bucket in the map and the work under the        *)
(* bucket's mutex, which are two steps.  Lock queues are in LockManager,   *)
(* log records in Recovery: here the log is the set of committed rows.     *)
(***************************************************************************)
EXTENDS Naturals, FiniteSets, Sequences, SequencesExt, Functions

CONSTANTS Txns,       \* transactions
          Rids,       \* slots of the page
          Keys,       \* values of the indexed column
          Buckets,    \* bucket objects of the hash index
          Commands,   \* statements clients may issue
          MaxStmts,   \* bound on the statements issued
          MaxFaults,  \* bound on restarts and failing commits
          None

\* Bucket objects are allocated at need: there is always one that no key and no
\* transaction refers to.
ASSUME TableAssumption ==
    /\ Rids \subseteq Nat /\ Keys \subseteq Nat /\ Buckets \subseteq Nat
    /\ IsFiniteSet(Rids) /\ IsFiniteSet(Txns) /\ IsFiniteSet(Buckets)
    /\ Keys \subseteq Buckets
    /\ Cardinality(Keys) + Cardinality(Txns) <= Cardinality(Buckets)
    /\ Commands \subseteq [kind : {"insert", "select", "delete", "update"},
                           path : {"hash", "btree", "scan"}, key : Keys, new : Keys]
    /\ None \notin Keys \cup Buckets \cup Txns

VARIABLES
    allocated, deleted,   \* the bitmaps of the page: sets of slots
    tuple,      \* the tuples of the slots, each its key
    committed,  \* history: key of the committed tuple of a slot, or None
    xlock,      \* holder of the exclusive lock of a slot
    slock,      \* holders of its shared lock
    btree,      \* entries of the B-tree, pairs <<key, rid>>
    hmap,       \* the hash index's map from keys to buckets
    bucket,     \* the buckets: their rids
    removed     \* buckets whose removed flag is set

\* For every transaction:
VARIABLES
    pc,         \* ready for a statement, in one (scankey, read), in Commit or in Abort
    cmd,        \* its statement
    entries,    \* index entries its statement has found and not yet read
    got,        \* tuples the statement has collected: the key it copied, the rid
    buf,        \* the tuple buffer the executor reads into
    must,       \* history: rows its statement has to find
    gone,       \* history: slots vacuumed while the statement had an entry for them
    work,       \* index operations to do, in order
    cur,        \* bucket the current hash operation has loaded
    abortActions, commitActions,   \* index entries to remove by Abort, by Commit
    undo        \* its log records, for Abort

VARIABLES
    failed,     \* transactions whose last statement has failed
    tainted,    \* history: slots the code has lost track of in the indexes
    stmts, faults   \* statements issued, restarts and failures so far

heapVars == <<allocated, deleted, tuple>>
lockVars == <<xlock, slock>>
hashVars == <<hmap, bucket, removed>>
indexVars == <<btree, hashVars>>
queryVars == <<cmd, entries, got, buf, must, gone>>
opVars == <<work, cur>>
taskVars == <<abortActions, commitActions, undo>>
txnVars == <<pc, queryVars, opVars, taskVars, failed>>
vars == <<heapVars, committed, lockVars, indexVars, txnVars, tainted, stmts, faults>>

Indexes == {"hash", "btree"}
Entry(i, k, r) == [index |-> i, key |-> k, rid |-> r]
NoCmd == [kind |-> "none"]
\* f after t's value has become v.
Set(f, t, v) == [f EXCEPT ![t] = v]

Live(r) == r \in allocated \ deleted

\* A set of entries in the order of the B-tree: by key, then by rid.
Less(a, b) == a[1] < b[1] \/ (a[1] = b[1] /\ a[2] < b[2])
InOrder(S) == [n \in 1..Cardinality(S) |->
    CHOOSE e \in S : Cardinality({d \in S : Less(d, e)}) = n - 1]
RidsOf(es) == [n \in DOMAIN es |-> es[n][2]]

(* Both indexes as rebuildIndexes fills them from the rows a scan returns. *)
RowsOf(k) == {r \in Rids : committed[r] = k}
RebuiltTree == {<<committed[r], r>> : r \in {s \in Rids : committed[s] # None}}
RebuiltMap == [k \in Keys |-> IF RowsOf(k) = {} THEN None ELSE k]
RebuiltBuckets == [b \in Buckets |->
    IF b \in Keys THEN RidsOf(InOrder({b} \X RowsOf(b))) ELSE <<>>]
RebuiltRemoved == {b \in Buckets : b \notin Keys \/ RowsOf(b) = {}}

\* The same value for every transaction: contexts fresh from the pool (Reset clears
\* all of a context).
Each(v) == [t \in Txns |-> v]

\* A database that has just started, with any table.
Init ==
    /\ committed \in [Rids -> Keys \cup {None}]
    /\ allocated = {r \in Rids : committed[r] # None} /\ deleted = {}
    /\ tuple = committed
    /\ xlock = [r \in Rids |-> None]
    /\ slock = [r \in Rids |-> {}]
    /\ btree = RebuiltTree /\ hmap = RebuiltMap /\ bucket = RebuiltBuckets
    /\ removed = RebuiltRemoved
    /\ pc = Each("ready") /\ cmd = Each(NoCmd) /\ entries = Each(<<>>) /\ got = Each(<<>>)
    /\ buf = Each(None) /\ must = Each({}) /\ gone = Each({})
    /\ work = Each(<<>>) /\ cur = Each(None)
    /\ abortActions = Each(<<>>) /\ commitActions = Each(<<>>) /\ undo = Each(<<>>)
    /\ failed = {}
    /\ tainted = {}
    /\ stmts = 0 /\ faults = 0
-----------------------------------------------------------------------------
(* Locks of slots (lock manager, seen through AcquireLock). *)
CanRead(t, r) == xlock[r] \in {None, t}
CanWrite(t, r) == CanRead(t, r) /\ slock[r] \subseteq {t}
Writes(c) == c.kind \in {"delete", "update"}
\* ReadTuple locks for its statement: X for an update or a delete.
CanFetch(t, r) == IF Writes(cmd[t]) THEN CanWrite(t, r) ELSE CanRead(t, r)
LockX(t, r) == xlock' = Set(xlock, r, t)
TakeLock(t, r) ==
    IF Writes(cmd[t])
    THEN LockX(t, r) /\ UNCHANGED slock
    ELSE /\ slock' = IF xlock[r] = t THEN slock ELSE [slock EXCEPT ![r] = @ \cup {t}]
         /\ UNCHANGED xlock
Release(t) ==
    /\ xlock' = [r \in Rids |-> IF xlock[r] = t THEN None ELSE xlock[r]]
    /\ slock' = [r \in Rids |-> slock[r] \ {t}]

(* DeleteEntry with a transaction: the removal becomes a commit task, if the index
   knows the key (hash: it has a bucket) or the entry (B-tree). *)
Known(i, k, r) == IF i = "hash" THEN hmap[k] # None ELSE <<k, r>> \in btree
DeferredOf(i, k, r) == IF Known(i, k, r) THEN <<Entry(i, k, r)>> ELSE <<>>
Deferred(k, r) ==
    IF k = None THEN <<>> ELSE DeferredOf("hash", k, r) \o DeferredOf("btree", k, r)
Ops(op, es) == [n \in DOMAIN es |-> [op |-> op, entry |-> es[n]]]
Inserts(k, r) == Ops("insert", <<Entry("hash", k, r), Entry("btree", k, r)>>)

(* The rows a statement of t over the keys ks has to find: its own, and those that are
   committed, unless the transaction that changed them is about to commit. *)
Sought(c) == IF c.path = "scan" THEN {k \in Keys : k >= c.key} ELSE {c.key}
Committing(r) == xlock[r] # None /\ pc[xlock[r]] = "commit"
MustFind(t, c) ==
    {r \in Rids \ tainted :
        IF xlock[r] = t THEN Live(r) /\ tuple[r] \in Sought(c)
                        ELSE committed[r] \in Sought(c) /\ ~Committing(r)}
-----------------------------------------------------------------------------
(* Statements. *)

Idle(t) == pc[t] = "ready" /\ t \notin failed
Issue(t, c) ==
    /\ Idle(t) /\ stmts < MaxStmts /\ stmts' = stmts + 1
    /\ cmd' = Set(cmd, t, c)

\* InsertTuple: a free slot, its lock, the log record and the tuple; the index entries
\* are then added one by one.  A deleted bit left in the slot stays.
InsertTuple(t, c) ==
    /\ Issue(t, c) /\ c.kind = "insert"
    /\ \E r \in Rids \ allocated :
        /\ CanWrite(t, r)
        /\ LockX(t, r)
        /\ allocated' = allocated \cup {r} /\ tuple' = Set(tuple, r, c.key)
        /\ work' = Set(work, t, Inserts(c.key, r))
        /\ undo' = [undo EXCEPT ![t] = Append(@, [type |-> "insert", rid |-> r, key |-> None])]
    /\ pc' = Set(pc, t, "read")
    /\ UNCHANGED <<deleted, committed, slock, indexVars, entries, got, buf, must, gone, cur,
                   abortActions, commitActions, failed, tainted, faults>>

\* The entries of the B-tree from a key on, in its order, or with that key only.
TreeEntries(c) == InOrder({e \in btree : e[1] \in Sought(c)})

\* ScanKey and Scan of the B-tree: one atomic read of the tree (Scan copies it).
TreeLookup(t, c) ==
    /\ Issue(t, c) /\ c.kind # "insert" /\ c.path # "hash"
    /\ pc' = Set(pc, t, "read")
    /\ must' = Set(must, t, MustFind(t, c))
    /\ entries' = Set(entries, t, TreeEntries(c))
    /\ UNCHANGED <<heapVars, committed, lockVars, indexVars, got, buf, gone, opVars, taskVars,
                   failed, tainted, faults>>

\* ScanKey of the hash index: the bucket is loaded without a lock ...
LoadForScan(t, k) ==
    /\ pc' = Set(pc, t, IF hmap[k] = None THEN "read" ELSE "scankey")
    /\ cur' = Set(cur, t, hmap[k])
HashLookup(t, c) ==
    /\ Issue(t, c) /\ c.kind # "insert" /\ c.path = "hash"
    /\ LoadForScan(t, c.key)
    /\ must' = Set(must, t, MustFind(t, c))
    /\ UNCHANGED <<heapVars, committed, lockVars, indexVars, entries, got, buf, gone, work,
                   taskVars, failed, tainted, faults>>

\* ... and read under its lock, unless it was removed in the meantime: then again.
ScanBucket(t) ==
    /\ pc[t] = "scankey"
    /\ LET k == cmd[t].key
           b == bucket[cur[t]]
       IN  IF cur[t] \in removed
           THEN LoadForScan(t, k) /\ UNCHANGED entries
           ELSE /\ pc' = Set(pc, t, "read") /\ cur' = Set(cur, t, None)
                /\ entries' = Set(entries, t, [n \in DOMAIN b |-> <<k, b[n]>>])
    /\ UNCHANGED <<heapVars, committed, lockVars, indexVars, cmd, got, buf, must, gone, work,
                   taskVars, failed, tainted, stmts, faults>>

Reading(t) == pc[t] = "read" /\ work[t] = <<>>

\* What an executor makes of the tuple an entry leads to.  Only the deleted bit is looked
\* at.  A lookup forgets that an entry was stale, a scan reports it if no entry follows.
Fetched_NoCompare(t, k, r) ==
    /\ failed' = IF r \in deleted /\ cmd[t].path = "scan" THEN failed \cup {t} ELSE failed \ {t}
    /\ buf' = IF r \in deleted THEN buf ELSE Set(buf, t, tuple[r])
    /\ got' = IF r \in deleted THEN got ELSE [got EXCEPT ![t] = Append(@, <<k, r>>)]
Fetched(t, k, r) ==
    /\ failed' = IF r \in deleted /\ cmd[t].path = "scan" THEN failed \cup {t} ELSE failed \ {t}
    /\ buf' = IF r \in deleted THEN buf ELSE Set(buf, t, tuple[r])
    /\ got' = IF r \in deleted \/ tuple[r] # k THEN got
              ELSE [got EXCEPT ![t] = Append(@, <<k, r>>)]

\* ReadTuple of the next entry: lock, then the tuple.
ReadEntry(t) ==
    /\ Reading(t) /\ entries[t] # <<>>
    /\ LET k == Head(entries[t])[1]
           r == Head(entries[t])[2]
       IN  CanFetch(t, r) /\ TakeLock(t, r) /\ Fetched(t, k, r)
    /\ entries' = [entries EXCEPT ![t] = Tail(@)]
    /\ UNCHANGED <<heapVars, committed, indexVars, pc, cmd, must, gone, opVars, taskVars,
                   tainted, stmts, faults>>

\* The lock is refused (deadlock or timeout): no further entry is read, what has been
\* collected is still changed, and the statement fails.
LockFails(t) ==
    /\ Reading(t) /\ entries[t] # <<>>
    /\ ~CanFetch(t, Head(entries[t])[2])
    /\ entries' = Set(entries, t, <<>>)
    /\ failed' = failed \cup {t}
    /\ UNCHANGED <<heapVars, committed, lockVars, indexVars, pc, cmd, got, buf, must, gone,
                   opVars, taskVars, tainted, stmts, faults>>

Changing(t, kind) ==
    Reading(t) /\ entries[t] = <<>> /\ got[t] # <<>> /\ cmd[t].kind = kind

\* A tuple already deleted ends the statement with an error.
AlreadyDeleted(t) ==
    /\ got' = Set(got, t, <<>>) /\ failed' = failed \cup {t}
    /\ UNCHANGED <<deleted, tuple, work, commitActions, undo, tainted>>

\* DeleteTuple and the deferred removal of the entries.  The collected tuples share the
\* child's buffer: the key is that of the last tuple read.
DeleteLive(t, r) ==
    /\ deleted' = deleted \cup {r}
    /\ got' = [got EXCEPT ![t] = Tail(@)]
    /\ undo' = [undo EXCEPT ![t] = Append(@, [type |-> "delete", rid |-> r, key |-> tuple[r]])]
    /\ commitActions' = [commitActions EXCEPT ![t] = @ \o Deferred(buf[t], r)]
    /\ tainted' = IF r \notin allocated \/ buf[t] # tuple[r] THEN tainted \cup {r} ELSE tainted
    /\ UNCHANGED <<tuple, work, failed>>
DeleteOne(t) ==
    /\ Changing(t, "delete")
    /\ LET r == Head(got[t])[2]
       IN  IF r \in deleted THEN AlreadyDeleted(t) ELSE DeleteLive(t, r)
    /\ UNCHANGED <<allocated, committed, lockVars, indexVars, pc, cmd, entries, buf, must, gone,
                   cur, abortActions, stmts, faults>>

\* UpdateTuple; the old entries are removed at commit, the new ones added now.  If the
\* removal of a new entry is already due at commit, the commit will lose it.
UpdateLive(t, r, old, new) ==
    /\ tuple' = Set(tuple, r, new)
    /\ got' = [got EXCEPT ![t] = Tail(@)]
    /\ undo' = [undo EXCEPT ![t] = Append(@, [type |-> "update", rid |-> r, key |-> tuple[r]])]
    /\ commitActions' = IF old = new THEN commitActions
                        ELSE [commitActions EXCEPT ![t] = @ \o Deferred(old, r)]
    /\ work' = IF old = new THEN work ELSE Set(work, t, Inserts(new, r))
    /\ tainted' = IF \/ r \notin allocated
                     \/ old # new /\ \E i \in Indexes : Entry(i, new, r) \in Range(commitActions[t])
                  THEN tainted \cup {r} ELSE tainted
    /\ UNCHANGED <<deleted, failed>>
UpdateOne(t) ==
    /\ Changing(t, "update")
    /\ LET old == Head(got[t])[1]
           r == Head(got[t])[2]
       IN  IF r \in deleted THEN AlreadyDeleted(t) ELSE UpdateLive(t, r, old, cmd[t].new)
    /\ UNCHANGED <<allocated, committed, lockVars, indexVars, pc, cmd, entries, buf, must, gone,
                   cur, abortActions, stmts, faults>>

\* The statement is over; one that failed makes its client abort.
Return(t) ==
    /\ Reading(t) /\ entries[t] = <<>>
    /\ got[t] = <<>> \/ ~Writes(cmd[t])
    /\ pc' = Set(pc, t, "ready") /\ cmd' = Set(cmd, t, NoCmd)
    /\ got' = Set(got, t, <<>>) /\ buf' = Set(buf, t, None)
    /\ must' = Set(must, t, {}) /\ gone' = Set(gone, t, {})
    /\ UNCHANGED <<heapVars, committed, lockVars, indexVars, entries, opVars, taskVars, failed,
                   tainted, stmts, faults>>
-----------------------------------------------------------------------------
(* Work on the indexes. *)

Op(t) == Head(work[t])
OpDone(t) == work' = [work EXCEPT ![t] = Tail(@)] /\ cur' = Set(cur, t, None)
\* InsertEntry with a transaction registers its own undoing.
Inserted(t) ==
    /\ OpDone(t)
    /\ abortActions' = [abortActions EXCEPT ![t] = Append(@, Op(t).entry)]

\* A bucket object that nothing refers to.
Unused(b) == (\A k \in Keys : hmap[k] # b) /\ (\A t \in Txns : cur[t] # b)
NewBucket == CHOOSE b \in Buckets : Unused(b)

\* Load of the bucket, and for an insertion LoadOrStore of a new one.
HashLoad(t) ==
    /\ work[t] # <<>> /\ Op(t).entry.index = "hash" /\ cur[t] = None
    /\ LET k == Op(t).entry.key
       IN  \/ /\ hmap[k] # None
              /\ cur' = Set(cur, t, hmap[k])
              /\ UNCHANGED <<hashVars, work>>
           \/ /\ hmap[k] = None /\ Op(t).op = "insert"
              /\ hmap' = Set(hmap, k, NewBucket)
              /\ bucket' = Set(bucket, NewBucket, <<>>) /\ removed' = removed \ {NewBucket}
              /\ cur' = Set(cur, t, NewBucket)
              /\ UNCHANGED work
           \/ /\ hmap[k] = None /\ Op(t).op = "remove"
              /\ OpDone(t)
              /\ UNCHANGED hashVars
    /\ UNCHANGED <<heapVars, committed, lockVars, btree, pc, queryVars, taskVars, failed,
                   tainted, stmts, faults>>

HashReady(t, op) ==
    /\ work[t] # <<>> /\ Op(t).entry.index = "hash" /\ cur[t] # None
    /\ Op(t).op = op

HashInsert_NoCheck(t) ==
    /\ HashReady(t, "insert")
    /\ bucket' = [bucket EXCEPT ![cur[t]] = Append(@, Op(t).entry.rid)]
    /\ Inserted(t)
    /\ UNCHANGED <<heapVars, committed, lockVars, btree, hmap, removed, pc, queryVars, commitActions, undo,
                   failed, tainted, stmts, faults>>

\* Under the bucket's mutex: add the rid, or start again if the bucket was removed.
HashInsert(t) ==
    /\ HashReady(t, "insert")
    /\ IF cur[t] \in removed
       THEN cur' = Set(cur, t, None) /\ UNCHANGED <<bucket, work, abortActions>>
       ELSE /\ bucket' = [bucket EXCEPT ![cur[t]] = Append(@, Op(t).entry.rid)]
            /\ Inserted(t)
    /\ UNCHANGED <<heapVars, committed, lockVars, btree, hmap, removed, pc, queryVars, commitActions, undo,
                   failed, tainted, stmts, faults>>

\* DeleteEntry's loop over the bucket, i iterations of it: the range expression keeps the
\* old length while the rids shrink, each hit replaced by the last.  An index past the
\* end is a panic (the iteration where it happens, or 0).
SwapRemove(rids, r) ==
    LET loop[i \in 0..Len(rids)] ==
            IF i = 0 THEN [arr |-> rids, len |-> Len(rids), panic |-> 0]
            ELSE LET s == loop[i - 1]
                 IN  IF s.panic # 0 \/ s.arr[i] # r THEN s
                     ELSE IF i > s.len THEN [s EXCEPT !.panic = i]
                     ELSE [s EXCEPT !.arr[i] = s.arr[s.len], !.len = @ - 1]
    IN  loop[Len(rids)]

\* The last rid takes the bucket out of the map, still under its mutex.
HashRemove(t) ==
    /\ HashReady(t, "remove")
    /\ LET b == bucket[cur[t]]
           res == SwapRemove(b, Op(t).entry.rid)
           emptied == res.len < Len(b) /\ res.len = 0
       IN  /\ res.panic = 0
           /\ bucket' = Set(bucket, cur[t], SubSeq(res.arr, 1, res.len))
           /\ removed' = IF emptied THEN removed \cup {cur[t]} ELSE removed
           /\ hmap' = IF emptied THEN Set(hmap, Op(t).entry.key, None) ELSE hmap
    /\ OpDone(t)
    /\ UNCHANGED <<heapVars, committed, lockVars, btree, pc, queryVars, taskVars, failed,
                   tainted, stmts, faults>>

\* Set and Delete of the B-tree: one entry per key and rid.
TreeWork(t) ==
    /\ work[t] # <<>> /\ Op(t).entry.index = "btree"
    /\ LET e == <<Op(t).entry.key, Op(t).entry.rid>>
       IN  IF Op(t).op = "insert"
           THEN btree' = btree \cup {e} /\ Inserted(t)
           ELSE btree' = btree \ {e} /\ OpDone(t) /\ UNCHANGED abortActions
    /\ UNCHANGED <<heapVars, committed, lockVars, hashVars, pc, queryVars, commitActions, undo,
                   failed, tainted, stmts, faults>>
-----------------------------------------------------------------------------
(* Commit and abort. *)

Changed(t) == {undo[t][n].rid : n \in DOMAIN undo[t]}

\* Commit first removes the entries its deletions left ...
Commit(t) ==
    /\ Idle(t)
    /\ undo[t] # <<>> \/ \E r \in Rids : t \in slock[r] \/ xlock[r] = t
    /\ pc' = Set(pc, t, "commit")
    /\ work' = Set(work, t, Ops("remove", commitActions[t]))
    /\ must' = [u \in Txns |-> IF u = t THEN must[u] ELSE must[u] \ Changed(t)]
    /\ UNCHANGED <<heapVars, committed, lockVars, indexVars, cmd, entries, got, buf, gone, cur,
                   taskVars, failed, tainted, stmts, faults>>

CommitReady(t) == pc[t] = "commit" /\ work[t] = <<>>

\* The context goes back to the pool.  No statement is open and no work is left.
Reset(t) ==
    /\ pc' = Set(pc, t, "ready")
    /\ abortActions' = Set(abortActions, t, <<>>) /\ commitActions' = Set(commitActions, t, <<>>)
    /\ undo' = Set(undo, t, <<>>)
    /\ failed' = failed \ {t}
    /\ UNCHANGED <<queryVars, opVars>>

\* ... then logs the commit record, waits for it, and releases the locks.
LogCommit(t) ==
    /\ CommitReady(t)
    /\ committed' = [r \in Rids |-> IF r \notin Changed(t) THEN committed[r]
                                    ELSE IF Live(r) THEN tuple[r] ELSE None]
    /\ Release(t) /\ Reset(t)
    /\ UNCHANGED <<heapVars, indexVars, tainted, stmts, faults>>

Aborting_KeepsEntries(t) == pc' = Set(pc, t, "abort") /\ UNCHANGED work
Aborting(t) ==
    /\ pc' = Set(pc, t, "abort")
    /\ work' = Set(work, t, Ops("remove", Reverse(abortActions[t])))

\* The log refuses the commit record; the removals stay, and the client aborts.
CommitFails(t) ==
    /\ CommitReady(t) /\ faults < MaxFaults /\ faults' = faults + 1
    /\ Aborting(t)
    /\ tainted' = tainted \cup {commitActions[t][n].rid : n \in DOMAIN commitActions[t]}
    /\ UNCHANGED <<heapVars, committed, lockVars, indexVars, queryVars, cur, taskVars, failed, stmts>>

\* Abort takes the added entries back, last first ...
Abort(t) ==
    /\ pc[t] = "ready"
    /\ undo[t] # <<>> \/ t \in failed
    /\ Aborting(t)
    /\ UNCHANGED <<heapVars, committed, lockVars, indexVars, queryVars, cur, taskVars, failed,
                   tainted, stmts, faults>>

\* ... then the changes of the table, last first ...
UndoOne(t) ==
    /\ pc[t] = "abort" /\ work[t] = <<>> /\ undo[t] # <<>>
    /\ LET u == Last(undo[t])
       IN  /\ deleted' = CASE u.type = "insert" -> deleted \cup {u.rid}
                           [] u.type = "delete" -> deleted \ {u.rid}
                           [] u.type = "update" -> deleted
           /\ tuple' = IF u.type = "update" THEN Set(tuple, u.rid, u.key) ELSE tuple
    /\ undo' = [undo EXCEPT ![t] = Front(@)]
    /\ UNCHANGED <<allocated, committed, lockVars, indexVars, pc, queryVars, opVars, abortActions,
                   commitActions, failed, tainted, stmts, faults>>

\* ... and logs its end and releases the locks.
EndAbort(t) ==
    /\ pc[t] = "abort" /\ work[t] = <<>> /\ undo[t] = <<>>
    /\ Release(t) /\ Reset(t)
    /\ UNCHANGED <<heapVars, committed, indexVars, tainted, stmts, faults>>
-----------------------------------------------------------------------------
(* The system. *)

\* VacuumPage frees the deleted slots nobody has locked, whoever still has an entry.
Free(r) == r \in deleted /\ xlock[r] = None /\ slock[r] = {}
Leads(t, r) == pc[t] = "scankey" \/ \E n \in DOMAIN entries[t] : entries[t][n][2] = r
VacuumPage ==
    /\ \E r \in Rids : Free(r)
    /\ allocated' = {r \in allocated : ~Free(r)} /\ deleted' = {r \in deleted : ~Free(r)}
    /\ gone' = [t \in Txns |-> gone[t] \cup {r \in Rids : Free(r) /\ Leads(t, r)}]
    /\ UNCHANGED <<tuple, committed, lockVars, indexVars, pc, cmd, entries, got, buf, must, opVars,
                   taskVars, failed, tainted, stmts, faults>>

\* The process ends and starts again: recovery brings back the committed rows and
\* rebuildIndexes the indexes.  An insertion whose record was lost leaves its slot free.
\* (Redo of an insertion into a slot that was vacuumed and not written since loses the row,
\* recovery_manager.go:219; that is in TableHeap.  The indexes follow the table either way.)
Recover ==
    /\ \E lost \in SUBSET {r \in Rids : xlock[r] # None /\ committed[r] = None} :
        /\ allocated' = {r \in Rids : committed[r] # None \/ r \in allocated \ lost}
        /\ deleted' = {r \in Rids \ lost : /\ committed[r] = None
                                           /\ r \in allocated \/ (r \in deleted /\ xlock[r] = None)}
    /\ tuple' = [r \in Rids |-> IF committed[r] # None THEN committed[r] ELSE tuple[r]]
    /\ xlock' = [r \in Rids |-> None] /\ slock' = [r \in Rids |-> {}]
    /\ btree' = RebuiltTree /\ hmap' = RebuiltMap /\ bucket' = RebuiltBuckets
    /\ removed' = RebuiltRemoved
    /\ pc' = Each("ready") /\ cmd' = Each(NoCmd) /\ entries' = Each(<<>>) /\ got' = Each(<<>>)
    /\ buf' = Each(None) /\ must' = Each({}) /\ gone' = Each({})
    /\ work' = Each(<<>>) /\ cur' = Each(None)
    /\ abortActions' = Each(<<>>) /\ commitActions' = Each(<<>>) /\ undo' = Each(<<>>)
    /\ failed' = {}
    /\ tainted' = deleted' \ allocated'
    /\ UNCHANGED <<committed, stmts>>

Crash ==
    /\ faults < MaxFaults /\ faults' = faults + 1
    /\ \E t \in Txns : undo[t] # <<>>
    /\ Recover

\* A removal that runs past the end of its bucket panics; nothing recovers from it.
HashPanic(t) ==
    /\ HashReady(t, "remove")
    /\ SwapRemove(bucket[cur[t]], Op(t).entry.rid).panic # 0
    /\ Recover
    /\ UNCHANGED faults

Next ==
    \/ \E t \in Txns :
        \/ \E c \in Commands : InsertTuple(t, c) \/ TreeLookup(t, c) \/ HashLookup(t, c)
        \/ ScanBucket(t) \/ ReadEntry(t) \/ LockFails(t)
        \/ DeleteOne(t) \/ UpdateOne(t) \/ Return(t)
        \/ HashLoad(t) \/ HashInsert(t) \/ HashRemove(t) \/ TreeWork(t) \/ HashPanic(t)
        \/ Commit(t) \/ LogCommit(t) \/ CommitFails(t)
        \/ Abort(t) \/ UndoOne(t) \/ EndAbort(t)
    \/ VacuumPage \/ Crash

Spec == Init /\ [][Next]_vars
-----------------------------------------------------------------------------
(* Properties. *)

\* How often an index holds an entry: the hash index through its map, as a lookup would.
Held(i, k, r) ==
    IF i = "btree" THEN IF <<k, r>> \in btree THEN 1 ELSE 0
    ELSE IF hmap[k] = None THEN 0
    ELSE Cardinality({n \in DOMAIN bucket[hmap[k]] : bucket[hmap[k]][n] = r})

\* The indexes agree with the table: every committed row has exactly one entry under its
\* key in every index until the transaction that changes it commits, and a slot that no
\* transaction is changing has no other entry (deferred removal of DeleteEntry, undoing of
\* InsertEntry, the retry on removed buckets, rebuildIndexes).
IndexAgrees ==
    \A r \in Rids \ tainted, k \in Keys, i \in Indexes :
        /\ committed[r] = k /\ ~Committing(r) => Held(i, k, r) = 1
        /\ committed[r] # k /\ xlock[r] = None => Held(i, k, r) = 0

AtEnd(t) == pc[t] = "read" /\ entries[t] = <<>> /\ must[t] # {}

\* When an index lookup or an index scan has read its last entry without an error, it has
\* returned every row it had to find: rows of its own transaction, and committed rows
\* that no other transaction began to commit a change to meanwhile (IndexLookupExecutor and
\* IndexScanExecutor against concurrent inserts, removals of buckets and vacuum).
LookupComplete ==
    \A t \in Txns : AtEnd(t) /\ t \notin failed /\ cmd[t].kind = "select" =>
        must[t] \ tainted \subseteq {got[t][n][2] : n \in DOMAIN got[t]}

\* A collected tuple is a live row with the sought key, committed or the transaction's
\* own, and stays so until the statement is done with it: entries that are stale or not
\* yet committed are filtered out by the tuple lock, the deleted bit and the comparison
\* of keys (ReadTuple and the two index executors).
LookupSound ==
    \A t \in Txns : pc[t] = "read" =>
        \A n \in DOMAIN got[t] :
            LET r == got[t][n][2]
            IN  r \notin tainted \cup gone[t] =>
                    /\ Live(r) /\ tuple[r] = got[t][n][1]
                    /\ xlock[r] = t \/ committed[r] = tuple[r]
                    /\ \A m \in DOMAIN got[t] : got[t][m][2] = r => m = n
=============================================================================
