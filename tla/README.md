# Verification of GoDB

GoDB (`src/GoDB-lab-s26`, Go) is a small relational database: SQL planner and
iterator executors on top of heap tables, a buffer pool, hierarchical two-phase
locking with deadlock detection, a write-ahead log and ARIES recovery. This
directory holds TLA+ models of its concurrent and crash-prone core and of its
query processing, the TLC runs that check them, and TLAPS proofs of what matters most. `PROJECT.json` records
which source lines each definition translates, the runs, the mutants that show
each property can fail, the hazards and the findings.

Contents: 1 inventory, 2 plan, 3 modules and code, 4 runs, 5 bounds and
fairness, 6 proofs, 7 disagreements, 8 what is not modelled.

## 1. Inventory

| Component (source) | State | Operations | Hard because | Correct when |
|---|---|---|---|---|
| Lock manager (`transaction/lock.go`) | lock control blocks (holders, FIFO waiters), transaction control blocks (lock count, waiting-on), wait graph with edge counts, one channel per waiting call, timers | `Lock`, `Unlock`, `resolveCycle`, grant sweep | a request, a release, a detector and any number of timers meet on one queue; registries are read outside the mutex | no two holders conflict, no grantable waiter sleeps, nobody overtakes, the graph has exactly the conflicts, every call is answered once |
| Deadlock detector (same file) | flag, channel of signals, a snapshot, `visited`/`onStack` marks | `detectDeadlock`, `findAnyCycle` | works on a snapshot that is stale when used; marks survive an unwound search | victims are on cycles, a check without victim means no cycle, no deadlock is left without a check to come |
| Transaction context (`transaction_context.go`) | held locks, undo buffer, index tasks, start and last LSN | `AcquireLock` with upgrade, `ReleaseAllLocks`, `Reset` | S and IX are incomparable; contexts are recycled | rights only grow until the end, tuples are released before tables |
| Write-ahead log (`logging/double_buffer_log.go`, `log_file_iterator.go`) | two buffers, next and flushed offset, waiter count, closed flag, request channel, two condition variables, the file | `Append`, `WaitUntilFlushed`, flusher goroutine, `Close`, reopening | atomics read outside the mutexes that protect the waits; crash in the middle of a write | records lie at their LSNs, acknowledged means on disk, everyone is woken, Close drains |
| Log contract (`storage/wal.go`) | the records, their durable prefix, the answers given | append, wait, flush, close, crash | - | what its interface comments promise, where the code keeps it (section 7) |
| Transaction manager (`transaction_manager.go`) | active transactions, context pool, next id, `snapshotMu` | `Begin`, `Commit`, `Abort`, snapshot, restart of a loser | log record and table entry are two steps; a checkpoint reads in between | commits survive crashes, aborts leave nothing, ids are fresh |
| Table heap and heap pages (`execution/table_heap.go`, `storage/heap_page.go`, `bitmap.go`) | number of pages, allocated and deleted bits, tuples, search hint, lazily filled frame fields | insert with growth of the file, delete, update, vacuum, scan | the number of pages is read before the lock; pages are allocated and initialised in two steps; vacuum runs beside transactions | no committed row is lost or overwritten, a scan returns the rows of one moment and ends |
| Buffer pool (`storage/buffer_pool.go`) | frames, dirty flags, recovery LSNs, pin counts, page lock, two lists | `GetPage`, `UnpinPage`, `FlushAllPages`, dirty page snapshot | pages are locked, taken, written, renamed and loaded in separate steps; frames used without pins; dirty flag set after the change | one frame per page, no lost write, never ahead of the log |
| Background flusher, checkpoint manager (`recovery/`) | ticker; begin, page snapshot, transaction snapshot, end record, master record | `Checkpoint`, flush | fuzzy: five steps, everything runs in between | nothing needed is behind the truncation LSN |
| Recovery manager (`recovery/recovery_manager.go`) | active-transaction table, undo buffers, dirty page table, scan position | `Recover`: analysis, redo, undo | any combination of flushed log, written pages and earlier restarts | the state after restart is the committed one, and a restart ends |
| Log records (`storage/log_record.go`) | kinds, images, compensation | constructors, encoding | 16-bit size field | a compensation restores what the record replaced |
| Indexes (`indexing/`), index tasks (`transaction/index_task.go`), recovery without a log (`recovery/no_log_recovery.go`) | hash buckets with a removed flag, a B-tree, the tasks of a transaction | insert, delete, lookup, range scan, rebuild | entries are added at once and removed at commit; a lookup copies entries before it locks rows; none of it is logged | index and table agree, a lookup finds what it must and nothing else |
| Planner (`planner/`), `common/types.go`, `storage/tuple.go` | plan trees, expressions over values with NULL | bind, push predicates down, choose indexes and joins | rewriting must keep the meaning for every join type, NULL and boundary value | the physical plan means what the statement means |
| Executors (`execution/*_executor.go`), shell (`main.go`) | iterators with buffers, heaps, hash tables, blocks | `Init`, `Next`, `Error`; `executeStatement` | block, group and range boundaries; a child that fails looks like one that ends | the answer is the one SQL defines, or an error |
| Catalog (`catalog/`), test log manager | metadata as JSON; a list | sequential | - | - |

Interactions: an executor locks through its context, changes a page under the
page's latch, appends a log record inside that latch, stamps the page with the
LSN, unpins it (which marks it dirty) and remembers the record in its undo
buffer. The flusher and eviction write pages whose LSN the log has flushed. The
checkpoint manager asks the pool for dirty pages and the transaction manager for
active transactions. `Recover` rebuilds contexts from the log and calls the same
`Abort` that clients call.

One remark about `main.go`: `NewGoDB` starts the flusher and the checkpoint
manager and defers their `Stop` in the same function (lines 74 and 79), so both
end when it returns. The models run them as the components' own tests do.

## 2. Plan

1. `LockManager`, `DeadlockDetector`, `LockSystem`, with proofs. Done.
2. `DoubleBufferLog` with its contract `Wal`, with proofs. Done.
3. `AriesLog` and `Recovery`: transactions, flushes, checkpoints, crashes and
   restart. Done; types and snapshots are proved, what restart brings back is left to
   TLC.
4. `BufferPool`: page lock, pins, lists, frame reuse, failed reads and writes.
   Done, with proofs.
5. `TableHeap`: page layout, slot search in bitmaps, growth, vacuum, scans against
   writers, start-up. Done, with proofs.
6. `IndexedTable`: hash and B-tree index with deferred tasks, failing commits and
   rebuilding. Done, with proofs.
7. `Expressions`, `Planner`, `Executors`, `QueryEngine`: a statement from binding to
   its answer, against what SQL says. Done, TLC only.
8. Proofs left: `RecoveredState` and `RepeatsHistory` (section 6).

## 3. Modules and code

A step of a model is what a goroutine does without giving others a chance to
interfere: a critical section of a mutex or latch, one atomic operation, one
channel operation. Function names are the code's. Definitions named
`Operation_Variant` are mutants, used by no specification.

**LockManager** models `lock.go` as the context calls it. `holders`, `waiters`,
`waitingOn`, `lockCount`, `waitGraph`, `waitCh` are the fields of the same name,
`heldLocks` is the context's map, `txnRegistry` and `lockRegistry` are
the control blocks that exist, `timers` the
armed 400 ms timers, `resolving` the calls of `resolveCycle` that have loaded
their victim. `LockNow` and `LockEnqueue` are the two ends of `lock()`;
`ArmTimer` and `LockReturns` what follows outside the mutex; `Unlock` includes
the edge clean-up and the sweep (`WakeUpCompatibleWaiters`); a `resolveCycle`
call is `TimerFires` or `DetectorPicks` (load and nil check) followed by
`ResolveHandled` or `ResolveAbort` (its critical section, which looks again).
`DetectorPicks` may choose any transaction: what follows about the lock table
holds whatever the detector does.

**DeadlockDetector** is one check on a snapshot: the recursion of
`findAnyCycle` as an explicit stack, roots and neighbours in any order (Go map
order). **LockSystem** composes the two with the trigger flag, the signals and
the detector goroutine, which clears the flag (`ReceiveSignal`) and takes the snapshot
of `LockManager`'s graph (`TakeSnapshot`) in two steps, and is
shown to implement `LockManager` (the composed steps are its steps or
stuttering).

**Wal** is what the double-buffered log keeps of the contract of `storage/wal.go`:
records at increasing LSNs, a durable prefix that only grows, `Wait` for a nil answer
of `WaitUntilFlushed` (the records before the given one are durable), `Close`, and a crash that loses any
part of what is not durable. In two places it says less than the comments there, because the code
does less (section 7): the record itself need not be durable when the wait
returns, and `Close` may drop a record that an Append it has overtaken has put into
a buffer. **DoubleBufferLog** is `double_buffer_log.go`: the buffers as byte counts with
their records, `Append` in four steps (closed test, count, wait for space,
copy), `WaitUntilFlushed` in three (test, join the condition variable, sleep),
the flusher in its own six, `Close`, and a crash that keeps any prefix of a
write in progress, torn record included.

**AriesLog** has the data and pure algorithms of logging: pages of slots with
an allocated bit, a deleted bit and a value; the record kinds; `ApplyRecord` (redo),
`NewCLR`; the analysis scan as a fold (`RebuildATT`,
`RebuildDPT`, `Buffered`, `LargestTxn`). A value is the LSN of the record that
wrote it, so every write is told apart. **Recovery** is the state machine:
`BeginAppend`/`BeginStore`, `Change` (log, apply, stamp, under the latch) and
`Unpin` (the dirty flag), `CommitAppend`/`Finish`, `AbortStart`, `UndoAppend`,
`UndoApply`, `AbortAppend`; `FlushLog`; `FlushChoose`/`FlushWrite` for
`FlushAllPages`, `Evict`; the five checkpoint steps; `Crash`, `Recover`,
`RecoverFails`, `StartServices`, `Vacuum`. Abstractions in it:

* the log is that of `Wal`, LSNs count records, and a crash keeps any `k`
  records between `flushed` and the end, and maybe a piece of the next one: `torn` has
  the places where the log was reopened behind such a piece, and `Readable` is what an
  iterator gets to see of it;
* `WaitReturns` is the test of `WaitUntilFlushed`, off by one record as it is; `missed`
  are the transactions whose wait was between that test and its sleep when `FlushLog`
  broadcast: they go on only after a later flush, if there is one;
* the checkpoint manager's empty master record file appears when the services start
  (`StartServices`), or never, as in the tests that restart without one;
* a page not in the pool is a clean frame equal to the disk; a frame that is
  reused keeps an arbitrary old recovery LSN;
* an insert takes any free slot of any page (the code's search picks one);
* a page `FlushAllPages` has chosen is not evicted before it is written
  (`BufferPool` has that race);
* X locks are derived from the log: what a transaction has written is its own;
* an undo buffer that underflows is the failed assertion of `BufferRecordForRecovery`:
  it ends the scan and the restart, and a process whose restart failed does no more;
* analysis, redo and the start of undo are one step (they are single-threaded,
  before any service runs), each rollback runs step by step and may crash.

`broken` is a history variable: the facts recovery relies on which some crash did
not find. They are

* write ahead: no page on disk is ahead of the surviving log (`WriteAhead`);
* page order: a page's contents are those of the log up to its LSN (`PagesMatchLog`);
* truncation: no change and no transaction that matters lies before the master
  record's LSN (`RedoStartsEarly`, `AnalysisStartsEarly`);
* snapshot: no checkpoint that analysis meets names a transaction that ended before the
  scan starts (`AnalysisSeesEnds`);
* ids: no id begins again behind an end of it that analysis meets (`AnalysisTellsApart`);
* vacuum: redo meets no insertion into a slot that was freed without a trace in the log, and
  undo no deletion of one (`VacuumSettled`);
* torn log: no torn record in the part of the log that restart reads (`WholeLogReadable`).

They speak of the disk and the log at the crash, not of what restart does with
them. `RecoveredState` and `RepeatsHistory` say that recovery is right whenever every
crash found these facts. The running system does not always keep them, and section 7 says
how each is lost.

**BufferPool** is one shard of `buffer_pool.go`, with frames apart from pages.
The variables are the fields of `PageFrame` and `BufferPoolShard`; `mine` is the
frame a goroutine has pinned or is replacing. `GetPage` runs in the steps that
others can see: page lock (`LockPage`), `Hit` or `Miss`, `NewFrame` or `Evict`,
write-back, clearing the flag, unlocking the victim, `Retarget`, the read in two
steps (in between the bytes are `Torn`: no latch is held), `Publish`, and the
deferred unlock (`Return`). `WriteBackFails` and `ReadFails` go through
`RollbackEviction`. `UnpinPage` is flag then count; `FlushAllPages` collects under
the mutex, opens the file by the object id it reads then, and writes under the
latch by the page number it reads then. The scan of `findVictim` is one step that finds a
frame with `IsVictim`: an unpin during the scan is as one after it. Which dirty frames have a flushed LSN
is left open, the wait for the log is in `Recovery`, and clients hold one pin at a
time. `mishaps` is a history variable: a read failed, or a flush wrote a frame
that was being reused; contents are promised until then.

**TableHeap** is a table's file. Its constants are the sizes of `heap_page.go`; the
number of slots comes out of `SlotsFor`, the loop of `InitializeHeapPage`, and the
assumptions check the layout for every row size of the real page as well. An
insertion reads the number of pages (`Insert`), takes the table lock
(`InsertLock`), allocates a page if none is left (`Grow`) and takes a slot of the
last page under its latch (`TakeSlot`, with `FindFirstZero` word by word from the
hint); `FetchFails` is the `GetPage` that fails after the allocation. A scan is
`Scan` (number of pages), `ScanLock`, `OpenPage` (spins until the page carries the
magic), `Fill`/`OpenRace` (the fields `AsHeapPage` fills without a lock),
`NextTuple`, `NextPage`, `Close`. `Panic` is an assertion that fails, of the slot search or of
a bitmap read through fields that another thread is filling. `WritePage` puts a page on disk;
`unwritten` are the slots vacuumed since their page was last written. `Restart` is recovery in one
step, followed by the scan of `rebuildIndexes`: a slot that was vacuumed and not written comes
back deleted, and the committed row it has been filled with since is `lost`
(recovery_manager.go:219). History: `exp` the rows at the moment a scan got its lock;
`late` the file grew while it waited for the lock, so its page count is stale
(table_heap.go:375); `torn` it used the fields of a frame while another thread
filled them; `orphans` pages allocated that nobody will initialise (a failed fetch
or a crash in between). `ScanExact` and `ScanEnds` exclude exactly these.

**IndexedTable** is one page of a table under a hash and a B-tree index on one
column. `allocated`, `deleted` and `tuple` are the page, `xlock` and `slock` the tuple
locks, `btree` the items of the tree; of the hash index there are the map (`hmap`), the
bucket objects (`bucket`) and their flag (`removed`). A transaction has the tasks and
log records of its context (`abortActions`, `commitActions`, `undo`), the index
operations it is in the middle of (`work`, with `cur` the bucket it has loaded), and of
its statement the entries not yet read, the tuples collected (`got`) and the buffer they
are read into (`buf`). Bucket objects are numbered, a new one is any that nothing refers
to. A statement is a command of insert, select, delete or update with the
access path that the planner would choose; it collects rows entry by entry
(`TreeLookup` or `HashLookup`/`ScanBucket`, then `ReadEntry`), changes them one by
one (`DeleteOne`, `UpdateOne`) and does its index work one operation at a time
(`TreeWork`; `HashLoad` then `HashInsert` or `HashRemove`, between which a bucket may
be emptied and marked removed). `Commit` runs the deferred removals, `LogCommit` logs;
`CommitFails` is the log refusing the record; `Abort` runs its tasks in reverse, then
`UndoOne` for each row. `Recover` brings back the committed rows and rebuilds
both indexes. History: `committed` the rows a restart would find, `must` the rows a
statement has to find, `gone` the slots vacuumed while it had an entry for them.
`tainted`: the slots of which the code has lost
track, namely those whose key was read through a reused tuple buffer when a DELETE
collected several rows (delete_executor.go:58), those whose key one transaction changed
away and back (the deferred removal then takes the new entry), rows that a vacuum freed
before the statement that had their entry changed them, those of a commit that
failed after its removals had run (transaction_manager.go:92), and freed slots
that still carry a deleted bit after recovery. All other slots are promised.

**Expressions** has values (integers of bounded width, NULL), three-valued
evaluation, and the splitting and merging of predicates. **Planner** turns a
statement (a record, as the parser would hand it over) into a logical plan, pushes
predicates down and picks scans and joins in the order of priority of the rules that
`main.go` registers. **Executors** gives for every physical node the set of streams
(rows, then how the stream ends: finished, failed or panicked) that its executor can
produce, a set because hash and heap order are arbitrary. **QueryEngine** is one
statement's way through the four stages, with a meaning of logical plans written
independently from SQL. Tables hold their rows in any order, a sequential scan may
fail after any row. `Departs` is the disjunction of eleven predicates, each for one way in which the
code is known to leave SQL (section 7); without any one of them TLC finds a
counterexample, and outside them the answer is exact. They are conditions on the statement and its
plan, not on the answer: `OuterJoinLost` and `IndexMisfit` also hold of statements
whose answer happens to be right.

## 4. Runs

Passing runs:

| Run | Instance | What it shows |
|---|---|---|
| lock_table | three transactions, one table, all modes, upgrades, aborts of any waiter at any time | holders compatible, no orphaned waiter, queues and contexts agree, the wait graph has exactly the conflicts, no overtaking, rights only grow |
| detector_search | the search on all 4096 graphs of four transactions | the first victim is on a cycle, no victim means no cycle |
| lock_system | two transactions on a table and its row, timers (stale ones too) and detector goroutine composed, fair | types, implements `LockManager`, every `Lock` returns even if no holder releases |
| log_buffers | two goroutines, three appends, flusher, Close, crash in a write, restart, fair | a gapless file of records at their LSNs, implements `Wal`, the flusher stops only drained, every `Append`, `Close` and, unless it misses its broadcast, `WaitUntilFlushed` returns |
| recovery | up to two transactions in turn on one slot, two changes, a vacuum, a fuzzy checkpoint, flush and eviction, up to two crashes anywhere, also during the restart, with or without a torn record, five of these events together (393,447 states), fair | types; where every crash found what recovery relies on: restart repeats history and undoes exactly the losers, and fails only on an empty master record; no checkpoint lists a transaction that ended before it began; every restart ends unless a rollback misses its broadcast |
| buffer_pool | two goroutines, three pages of two tables, two frames, one change, a failure or a flush | no frame, pin or page lock leaks or is counted wrongly, also after failed reads and writes; users of a page share one frame; only clients change what a page holds |
| indexed_table | two transactions, two slots, two keys, three statements, a restart or failing commit, vacuum (443,642 states) | both indexes agree with the table; a lookup returns all it must and no stale, uncommitted or repeated row |
| table_heap | two transactions, one or three slots a page, two pages, three operations, vacuum, a fault (102,308 states), fair | no row is overwritten, and a committed one is lost only by a restart behind a vacuum that had not reached the disk; a scan returns exactly the rows of the moment it got its lock, every scan ends |
| query_engine | 97 statements, 32 databases with 8 sets of indexes, one failing scan (122,704 states) | pushdown keeps the rows for every join type; the answer is SQL's whatever indexes and joins are chosen |

The runs that end in a violation (section 7) each check one property that a
comment or a document of the repository states:

| Run | Property | Counterexample |
|---|---|---|
| recovery_truncation | `TruncationIsSafe` | a checkpoint runs between a transaction's Begin record and its entry in the table |
| unwatched_deadlock | `NoUnwatchedDeadlock` | of two circles with a common member a check leaves one standing, and no other check is asked for |
| acked_before_flush | `AckedIsDurable` | `WaitUntilFlushed` returns nil while the record is in the front buffer |

## 5. Bounds and fairness

`MaxCalls`, `MaxResolving`, `MaxTxns`, `MaxOps`, `MaxVacuums`, `MaxCheckpoints`,
`MaxCrashes`, `MaxWrites`, `MaxFaults`, `MaxFlushes`, `MaxStmts`, `MaxPages` and
`MaxSlots` count calls or sizes and are tested in guards; `MaxActive`, `MaxCheckpointed` and
`MaxEvents` bound the runs of `Recovery` in a constraint. Three transactions are
what FIFO blocking and upgrades in a crowd need, two calls each make a
hold-and-wait or an upgrade; the composition with the detector runs with two,
which deadlock by upgrading S to SIX, and with three, whose requests are fixed, where two circles
are needed (unwatched_deadlock). In log_buffers a buffer holds one record,
so that with three appends one is being written, one is in the front buffer and
one waits; records of mixed sizes are covered by the proofs, which hold for all.
One page with one slot is enough in `Recovery`, where everything is per page and
per slot except the transaction and checkpoint tables: two transactions in turn
on one slot give slot reuse and, with the losers of a restart, ids that come back. Two crashes reach a crash during the restart after
a crash, and a restart behind a torn record. `MaxEvents = 5` lets any five of begins, changes,
vacuums, crashes and (counted twice) checkpoints happen together, for example a committed and a
lost transaction around two crashes; `MaxCheckpointed = 2` leaves room for a crash
in the behaviours with a checkpoint, a transaction and its change. Two frames for three pages let both goroutines evict at once, also the
page the other one asks for, and one distinguishable change is enough to see it
lost; calls of `GetPage` are not bounded there and deadlock is checked.
In table_heap three slots and words of two bits make the last word of a bitmap partly
used and the search wrap around, one slot a page makes every insertion grow
the file, and three operations are an insertion, a deletion and a scan against each
other. In indexed_table two keys and two slots give a shared bucket, an emptied one and
a reused slot. In query_engine the block of the nested loop join holds two rows, so
that full, partial and last blocks occur, and integers end at 12, so that Increment
meets the largest; contents have NULLs, duplicates and rows out of order.
`CHECK_DEADLOCK FALSE` stands where the bounds let the system come to
its end.

The constraint `Bounded` of the recovery runs stops behind a crash that broke what
recovery relies on (`Reliable`): the properties of restart say nothing of what follows it, and
no state before it, and none between another crash and the end of its restart, is cut away.
`OneDisturbance` (buffer_pool) has a failure or a flush, not both. Symmetry is
used in lock_table and indexed_table, on transactions, and in buffer_pool, on goroutines
and frames, none of which are compared or chosen by order there.

Fairness is weak and per goroutine: Go runs every runnable goroutine and every
expired timer. In `LockSystem` it covers waiters' triggers, timers, the detector,
`resolveCycle` calls and the return of answered calls, not the release of locks.
In `DoubleBufferLog` it covers each goroutine inside a call, the flusher with its
ticker, and Close. In `Recovery` it covers the flusher of the log and the restart
with its rollbacks. In `TableHeap` it covers every thread inside an operation: mutexes
and latches are held for one step, and a lock that is not granted is refused in
the end (`EveryLockReturns` of the lock manager). No client is obliged to start anything, and crashes are
bounded, which is what lets a restart end.

## 6. Proofs

The proofs hold for every value of the constants, bounds included, under the
assumptions named in the modules, which say no more than that sizes and bounds are
natural numbers, sets that are counted are finite, and names are distinct.

* **LockManagerProofs** (assumption `LockConstants`): `TypeCorrect`,
  `MutualExclusion`, `NoOrphans`, `QueuesConsistent`. `HoldersCompatible` is not
  inductive by itself: a grant sweep takes requests from queues, so
  `WaitersConsistent` (queue, waiting-on, request, graph row, channel and
  registry agree) is needed, with `AnswersExpected` (only a caller inside
  `Lock` has an answer to come) and `CallsCounted`. The heart is the lemmas about
  the sweep: it grants the longest prefix whose requests fit all holders so
  far, and stops at a waiter that conflicts, which is `NoOrphanWaiter`.
  Then `HeldLocksCorrect`, `TwoPhaseLocking`,
  `FirstComeFirstServed`, `WaitGraphCorrect`. That holders and `heldLocks` agree
  needs (`LInv`) that a waiter asks for more than it holds, that `lockCount` counts the
  holders' entries, that a registered transaction outside `Lock` holds something and
  one that has ended nothing. `WaitGraphExact` is not inductive: that an edge is
  positive does not say how often it may be decremented. `GraphExact` counts: an edge
  is at least the number of reasons it has (a conflict with a held mode, one with an
  earlier request), and exactly that when its target holds nothing in conflict and may
  still call `Lock`. It is kept request by request and grant by grant.
* **LockSystemProofs**: `SystemImplementsTable`, the refinement
  `ImplementsLockManager` step by step (a trigger, a signal and the search stutter, a
  victim is `DetectorPicks`), and from it `SystemSafe`: all invariants of
  the table hold of the composed system.
* **DeadlockDetectorProofs** (`TidsAreNumbers`): `FirstVictim` and
  `NoVictimNoCycle`. Until the first victim, `onStack` is exactly the calls in
  progress, they form a path, and finished nodes are closed under edges and on
  no cycle. Reachability is defined by closed sets, so that no induction over
  paths is needed. After the first victim the marks are wrong (section 7).
* **DoubleBufferLogProofs** (`LogConstants`): `Offsets`, `FlushedNotAhead`,
  `PriorRecordsDurable` (`AckedAfterPrior`: what `WaitUntilFlushed` does promise), `FlusherStopsDrained`,
  `LogImplementsWal`. The invariant adds
  that the waiter count is the number of calls in progress, that the back buffer is in
  use only while the flusher writes it, and that Close comes after the flusher. For
  the refinement `WInv` adds that a call that waits has its record in the log and
  that a record still in the front buffer when Close returns is dropped, which is `Wal`'s `Close`.
* **BufferPoolProofs** (`PoolAssumption`): `PoolTypes`, `PoolAccounts`, `PagesShared`,
  `ContentsKept`. `PInv` has the two lists and the map (every frame is in one list, being
  replaced or in nobody's hands), what each goroutine owns at each point of `GetPage`,
  the counts (pins, `numBaking`) as cardinalities of sets of goroutines, and exclusion:
  two goroutines never have the lock of one page or replace one frame, so that a victim
  is out of reach until it is written and unlocked. `Synced` adds that a clean frame that
  nobody is about to mark dirty has the bytes of the disk, which eviction relies on.
* **TableHeapProofs** (`HeapAssumption`, `LayoutAssumption`): `TuplesKept` (no row is
  overwritten, and a committed one is in a live slot unless it is `lost`),
  `ScansAreExact`. `LostInv`: lost rows were inserted earlier and are none that
  a transaction in progress has inserted, and a slot that is `unwritten` has been in use on
  an initialised page. `HInv`: rows have unique numbers; a slot is locked exactly by the
  transaction with a change in it; an unlocked slot is live exactly if its row is
  committed; table locks are compatible, so that while somebody scans there is no
  change that is not its own; and what an iterator has returned are the live rows
  of the slots it has passed.
* **IndexedTableProofs** (`TableAssumption`: the constants are of their kind, and there
  are enough bucket objects that one is always unused, as in memory): `TableInvariant`,
  `IndexesAgree`, `LookupsComplete`, `LookupsSound`. None of the three properties is
  inductive: what an index must hold while a transaction runs depends on the tasks it has
  left. `Inv` has nine parts. `TypeOK` and `ControlOK` say what a transaction has at each
  point. `BucketOK`: the map leads to buckets that are not removed, a loaded bucket is
  still its key's unless it was removed, and the bucket a removal has loaded cannot be
  removed before the removal is done, so that the retry in `InsertEntry` and `ScanKey` is enough. `LockOK`: what a transaction
  has changed, collected or still has to do in an index is locked by it. `HeapOK`: an
  unchanged row is the committed one, and the log records of a transaction lead back to
  it. `IndexOK`: an entry is in an index exactly if `Expected`, which is decided by the
  committed row, the holder of the lock and its tasks, and no rid is twice in a bucket.
  `TaskOK`: the entries that were there or were added are exactly those to be removed at
  commit and the current ones, each once; Commit and Abort need it to leave the right
  ones. `GotOK` and `MustOK`: a row to be found is collected or its entry is still to be
  read. The steps are proved once per class (`ReadOnly`, `IndexStep`, `Write`, `Turn`,
  `Ended`, `Started`) by a rely-guarantee argument: `Guarantee` says that a step
  leaves other transactions' contexts and the slots they have locked alone, and
  `OthersInv` that the invariant then carries over to them. Below that are lemmas
  about the operators: `InOrder` lists a set without repetition, `SwapRemove` takes out
  exactly one rid and does not panic when the rid is there once, and a bucket object is
  always free.
* **RecoveryProofs** (`RecoveryConstants`): `RecoveryTypes`, `SnapshotsHaveNoEnded`, for any
  number of checkpoints, vacuums and crashes, torn records included. `TInv` says that LSNs kept in memory, in
  the master record and in checkpoints lie in the log (what a crash cuts off is never
  referred to from disk, as the master record is behind what was flushed), and that an
  undo buffer holds changes of its own transaction, also one that restart has read from
  what an iterator sees of the log; `TornOK` that torn bytes lie behind flushed records. `NInv`: a transaction outside
  Commit and Abort has no end record behind its start, and a snapshot is taken when
  nobody is inside; restart has ended all losers before checkpoints run. The scans of restart
  are recursive functions; they are shown to exist and to be unique, and what is said
  of each of their points is proved by the least counterexample, as the
  library's induction theorems cannot be used.

Left to TLC:

* liveness: `EveryLockReturns`, `AppendAndCloseReturn`, `EveryWaitReturns`, `RestartEnds`, `ScanEnds`;
* `RecoveredState`, `RepeatsHistory` and `RestartFailsOnlyOnEmptyMaster`: ids come back, so what a
  record belongs to is not told by its id alone, and what analysis skips has to be related to the dirty page
  tables, the snapshots and the facts that `broken` records, for every checkpoint in the log;
* `PushdownPreserves` and `AnswerExact` of the query modules, whose plans are trees and
  need RECURSIVE operators.

## 7. Where code and documentation disagree

The three violation runs, with the lines they contradict, are the findings of
`PROJECT.json`:

* Begin logs its record before it enters the transaction into `activeTxns`; a
  checkpoint in between takes a truncation LSN behind that record
  (transaction_manager.go:77), although the checkpoint manager says records before
  it can safely be discarded (checkpoint_manager.go:173).
* A check of the detector never returns to a transaction it has visited (lock.go:584)
  and `onStack` keeps its marks when the search unwinds (lock.go:557), so of two circles with a common
  member one may be left, with no other check to come; `lab3.md:77` asks that a
  deadlock be detected and answered with an error. With two transactions this cannot happen. The
  400 ms timers end such a deadlock as they end any other (`EveryLockReturns`).
* `WaitUntilFlushed` counts a record that starts at the flushed offset as
  flushed (double_buffer_log.go:108), so Commit returns before its record is on disk
  (transaction_manager.go:102), against wal.go:65, `lab4.md:106` and logging_test.go:337. What it does
  guarantee is `AckedAfterPrior`.

The models follow the code in further places where a reader might expect
otherwise, and the properties are stated so as not to claim more than it does:

* the log's flusher raises `flushedLSN` and broadcasts without the mutex of the
  condition variable (double_buffer_log.go:172), so a waiter between its test (108)
  and its sleep (113) misses the wake-up and, without a later flush, sleeps for ever. The rollbacks of
  a restart wait in the same way (transaction_manager.go:208), and nobody else appends then.
  `EveryWaitReturns` and `RestartEnds` name this case and exclude nothing else;
* Commit runs the deferred index removals before the commit record is logged
  (transaction_manager.go:92); the comment above says "after flushed". `IndexAgrees` leaves the
  rows of a Commit in progress out;
* after a crash in the middle of a write the log goes on behind the torn record
  (double_buffer_log.go:51), and the iterator never gets past it (log_file_iterator.go:58-68), so a
  second restart does not see what was logged after the first ("torn log"). `lab4.md` asks
  for an error on a bad checksum; the iterator ends the scan with none;
* vacuum logs nothing, and redo of an insert leaves the deleted bit set
  (recovery_manager.go:219): with a page on disk from before the vacuum, a committed
  tuple in a reused slot is lost (`lost` in `TableHeap`, "vacuum" in `Recovery`); and undoing the
  deletion of a slot that is free on disk finds nothing to bring back;
* FlushAllPages neither pins the frames it has collected nor does eviction take
  the latch: a flush can write a page's bytes over the page that is about to be
  loaded into the frame (buffer_pool.go:238);
* a waiter blocked only by the FIFO rule, behind a compatible waiter, has no
  edge in the wait graph, so a deadlock need not be a cycle and the detector
  does not see it (lock.go:349); the 400 ms timer ends it (`EveryLockReturns`);
* a timer is not stopped when its request is answered and may abort the
  transaction's next one (lock.go:374); lock control blocks are never freed
  (lock.go:624);
* an Append that has passed the closed test and is not yet counted may return
  an LSN for a record that Close drops (double_buffer_log.go:72), although wal.go:76 says that Close
  "ensures any pending buffers are flushed"; it is `Wal`'s `Close`;
* FlushAllPages writes a page as it is when its turn comes, possibly ahead of the
  log (buffer_pool.go:238); a page is marked dirty only when it is unpinned, so
  the dirty page table may miss it (buffer_pool.go:264); a compensation is logged
  outside the latch, so a page may get a later change first
  (transaction_manager.go:148). With the missed transaction above these are "write ahead",
  "truncation" and "page order";
* analysis adds the transactions of every checkpoint end record it meets, also of one
  that is older than the master record's and names a transaction whose end lies before
  the scan (recovery_manager.go:125): that one is undone again ("snapshot");
* when a read fails, the frame enters the pool under a page whose contents it
  does not have, so the next `GetPage` of that page succeeds with other bytes, and
  the page is unlocked twice (buffer_pool.go:172, 384 and 122). After that, `mishaps`,
  only frames and pins are promised;
* ids are counted from the records behind the master record only, so an id can
  come back (recovery_manager.go:155); if analysis meets the end of its first owner, the
  second counts as ended too (recovery_manager.go:99) and is not undone ("ids");
* a master record file that was created and never written makes the restart fail
  (recovery_manager.go:71, action `RecoverFails`), and opening the checkpoint manager
  creates it (checkpoint_manager.go:41): a database that crashes before its first checkpoint is complete
  cannot be opened again. `RestartFailsOnlyOnEmptyMaster` says that this is the only way.

In query processing these are the departures that `Departs` names:

* the physical joins are inner joins, whatever the logical type (join_rules.go:294-390);
  of a condition with an equality of columns the other conjuncts are
  dropped (join_rules.go:61-91); a merge join takes index scans that need not be in
  the order of its keys (join_rules.go:259-317);
* a filter panics on a condition that is NULL (filter_executor.go:45); a block nested
  loop join panics behind a last block that is exactly full
  (block_nested_loop_join_executor.go:93-117, 158-168); top-N panics with limit 0
  (topn_executor.go:119); a join over a filtered or joined right side needs the
  materialize executor, which is unimplemented; Increment panics at the largest
  integer (types.go:265-293);
* COUNT counts the NULL that a group begins with, an aggregate without groups over no rows
  gives no row, and GROUP BY without aggregates gives none (aggregate_executor.go);
  LimitRule drops the offset (physical_plan_rule.go:69-76); VALUES rows of unequal
  length (values_executor.go:43);
* an index scan is not the rows of its condition when that has alternatives
  or a negation (scan_rules.go:81-121, 333-385), a range over several key columns or a hash
  index, or when it runs backward over NULLs or from a key with several entries
  (mem_btree_index.go:141-157, against index.go:61);
* sorts, aggregates, joins and INSERT take a child that fails for one that ends,
  although executor.go:23 has `Error` for it.

Read on the way, in code that the models leave out: the log line of a stale entry
dereferences a transaction that may be nil (index_lookup_executor.go:72);
SaveCatalogState joins the catalog's path and ".tmp" as directory and file
(catalog.go:299), so the write fails; the smallest 64-bit integer reads back
as NULL (types.go:151).

## 8. Not modelled

* The byte layout of log records with its 16-bit size field (log_record.go:120), of
  tuples and of values; strings, LIKE, IS NULL and concatenation in expressions.
* The SQL parser (a library), subqueries and derived tables, USING; the rules and
  executors that `main.go` does not register or that are unimplemented
  (ProjectionPushDownRule, IndexNestedLoopJoinRule, materialize).
* In `QueryEngine` a statement runs alone and outside a transaction, indexes agree with
  their tables (that is `IndexedTable`'s business), and only sequential scans fail.
  An INSERT that selects from its own table is not among the statements.
* The catalog's JSON, command line, CSV loading and printing of the shell, test doubles,
  opening and closing of files, the back-off sleeps of `Lock` (they only delay), logging
  and error texts, and failures of the disk under the log, on which its flusher panics.
