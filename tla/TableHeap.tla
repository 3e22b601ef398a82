----------------------------- MODULE TableHeap -----------------------------
(***************************************************************************)
(* The pages of a table (execution/table_heap.go on storage/heap_page.go   *)
(* and bitmap.go): transactions insert tuples, growing the file when the   *)
(* last page is full, delete tuples, and scan the table with an iterator;  *)
(* VacuumPage frees slots, and after a crash the scan of rebuildIndexes    *)
(* has to end before the database is up.                                   *)
(*                                                                         *)
(* A tuple is the number of its insertion.  One step is one critical       *)
(* section: the page expansion mutex, the page latch (reads of an iterator *)
(* hold it for one call of Next), a table lock.  Sizes are in words of the *)
(* bitmap.  Tuple locks never wait here: a slot is only locked by the      *)
(* transaction that filled or deleted it.                                  *)
(***************************************************************************)
EXTENDS Integers, FiniteSets, FiniteSetsExt, Sequences

CONSTANTS Txns,         \* transactions
          Boot,         \* the thread that rebuilds the indexes at start-up
          PageSize, HeaderSize, WordSize,   \* sizes of a page and its parts
          RowSizes,     \* row sizes of the tables considered
          WordBits,     \* bits of a bitmap word
          MaxSlots,     \* bound on the slots of a page
          MaxPages,     \* bound on the pages of the file
          MaxOps,       \* bound on the operations started
          MaxFaults,    \* bound on failing reads and crashes
          None

ASSUME HeapAssumption ==
    /\ Boot \notin Txns /\ None \notin Txns \cup {Boot}
    /\ {PageSize, HeaderSize, WordSize, WordBits} \cup RowSizes \subseteq Nat \ {0}
    /\ {MaxSlots, MaxPages} \subseteq Nat \ {0}
-----------------------------------------------------------------------------
(* The layout of a page: header, two bitmaps, rows. *)

\* Words of a bitmap for n slots.
Words(n) == (n + WordBits - 1) \div WordBits
BitmapSize(n) == Words(n) * WordSize

\* InitializeHeapPage lowers an optimistic number of slots until the bitmaps fit.
SlotsFor(rowSize) ==
    LET Reduced[n \in Nat] ==
            LET calculated == (PageSize - HeaderSize - 2 * BitmapSize(n)) \div rowSize
            IN  IF calculated >= n \/ calculated <= 0 THEN calculated ELSE Reduced[calculated]
    IN  Reduced[(PageSize - HeaderSize) \div rowSize]

\* The rows AsHeapPage computes offsets for lie inside the page.
ASSUME LayoutAssumption ==
    \A rowSize \in RowSizes :
        LET n == SlotsFor(rowSize)
        IN  n \in 1 .. MaxSlots /\ HeaderSize + 2 * BitmapSize(n) + n * rowSize <= PageSize
-----------------------------------------------------------------------------
VARIABLES
    numSlots,   \* slots of a page of this table
    numPages,   \* pages of the file
    inited,     \* pages that carry the heap page magic
    hint,       \* startHint of a page
    cached,     \* fields of the frame: "no", "yes", or the thread filling them
    slot,       \* the slots: allocated bit, deleted bit and row
    tlock,      \* table lock of a transaction
    xlock,      \* owner of a slot's lock
    th,         \* the threads
    up,         \* whether start-up has ended
    nextRow,    \* number of the next insertion
    unwritten,  \* slots that were vacuumed since their page was last written to disk
    committed,  \* history: rows inserted, not deleted, by committed transactions
    lost,       \* history: rows that a restart has brought back as deleted
    orphans,    \* history: pages allocated that nobody is going to initialise
    ops, faults

diskVars == <<numSlots, numPages, inited, hint, cached, slot, unwritten>>
lockVars == <<tlock, xlock>>
history == <<nextRow, committed, lost, orphans>>
vars == <<diskVars, lockVars, th, up, history, ops, faults>>

Pages == 0 .. MaxPages - 1
Slots == 0 .. MaxSlots - 1
RIDs == Pages \X Slots
Threads == Txns \cup {Boot}
NoRow == 0
Empty == [alloc |-> FALSE, del |-> FALSE, row |-> NoRow]
Live(r) == slot[r].alloc /\ ~slot[r].del
Kept == committed \ lost

\* A thread between two operations; ins and dels are what its transaction has changed.
\*   np, late   pages the iterator will visit; whether the file grew before its lock
\*   res, exp   rows it has returned; history: rows it should return
\*   torn       history: it read the fields of a frame while they were filled
Rest == [pc |-> "rest", page |-> 0, slot |-> -1, count |-> 0, np |-> 0, mode |-> "S", late |-> FALSE,
         res |-> {}, exp |-> {}, torn |-> FALSE, ins |-> {}, dels |-> {}, err |-> FALSE]
Rested(x) == [Rest EXCEPT !.ins = x.ins, !.dels = x.dels, !.err = x.err]

\* A running database: no page yet, or one page with some rows, not used since start-up.
Init ==
    /\ numSlots \in {SlotsFor(s) : s \in RowSizes}
    /\ numPages \in {0, 1}
    /\ inited = 0 .. numPages - 1
    /\ hint = [p \in Pages |-> 0]
    /\ cached = [p \in Pages |-> "no"]
    /\ \E n \in 0 .. IF numPages = 0 THEN 0 ELSE numSlots :
        /\ slot = [r \in RIDs |-> IF r[1] = 0 /\ r[2] < n
                                  THEN [alloc |-> TRUE, del |-> FALSE, row |-> r[2] + 1] ELSE Empty]
        /\ nextRow = n + 1
    /\ committed = {slot[r].row : r \in {q \in RIDs : Live(q)}} /\ lost = {} /\ unwritten = {}
    /\ tlock = [t \in Txns |-> "none"]
    /\ xlock = [r \in RIDs |-> None]
    /\ th = [t \in Threads |-> Rest]
    /\ up = TRUE /\ orphans = {} /\ ops = 0 /\ faults = 0
-----------------------------------------------------------------------------
(* The allocation bitmap. *)

\* FindFirstZero: the words from the hint's word to the end, the first from the hint's bit
\* on; then the words up to the hint's, that one up to its bit.  -1 if all bits are set.
WordFull(used, w) == \A j \in 0 .. WordBits - 1 : w * WordBits + j \in used
ZeroIn(used, w, from, to) ==
    LET zeros == {i \in {w * WordBits + j : j \in from .. to - 1} : i < numSlots /\ i \notin used}
    IN  IF WordFull(used, w) \/ zeros = {} THEN -1 ELSE Min(zeros)
FindFirstZero(used, startHint) ==
    LET start == startHint \div WordBits
        bit == startHint % WordBits
        after == {ZeroIn(used, w, IF w = start THEN bit ELSE 0, WordBits) :
                    w \in start .. Words(numSlots) - 1} \ {-1}
        before == {ZeroIn(used, w, 0, IF w = start THEN bit ELSE WordBits) : w \in 0 .. start} \ {-1}
    IN  IF after # {} THEN Min(after) ELSE IF before # {} THEN Min(before) ELSE -1
-----------------------------------------------------------------------------
(* Table locks. *)
Compatible(a, b) == <<a, b>> \in {<<"IX", "IX">>, <<"S", "S">>} \/ "none" \in {a, b}
\* The mode AcquireLock asks for, given the one held.
Wanted(held, mode) ==
    CASE held = "none" -> mode
      [] held \in {"X", mode} -> held
      [] {held, mode} \in {{"S", "IX"}, {"SIX", "S"}, {"SIX", "IX"}} -> "SIX"
      [] OTHER -> "X"
CanLock(t, mode) ==
    \A u \in Txns \ {t} : Compatible(Wanted(tlock[t], mode), tlock[u])
AcquireLock(t, mode) ==
    /\ CanLock(t, mode)
    /\ tlock' = [tlock EXCEPT ![t] = Wanted(@, mode)]

Start(t) ==
    /\ up /\ t \in Txns /\ th[t].pc = "rest" /\ ~th[t].err
    /\ ops < MaxOps /\ ops' = ops + 1
-----------------------------------------------------------------------------
(* InsertTuple. *)

\* It starts with the last page.
Insert(t) ==
    /\ Start(t)
    /\ th' = [th EXCEPT ![t].pc = "insert", ![t].page = IF numPages = 0 THEN 0 ELSE numPages - 1]
    /\ UNCHANGED <<diskVars, lockVars, up, history, faults>>

InsertLock(t) ==
    /\ th[t].pc = "insert"
    /\ AcquireLock(t, "IX")
    /\ th' = [th EXCEPT ![t].pc = "grow"]
    /\ UNCHANGED <<diskVars, xlock, up, history, ops, faults>>

\* Under the page expansion mutex: one page more if the wanted one does not exist.
Grow(t) ==
    /\ th[t].pc = "grow"
    /\ IF th[t].page = numPages
       THEN /\ th[t].count <= 1 /\ numPages < MaxPages
            /\ numPages' = numPages + 1
            /\ th' = [th EXCEPT ![t].pc = "fetch", ![t].count = @ + 1]
       ELSE /\ th' = [th EXCEPT ![t].pc = "fetch"]
            /\ UNCHANGED numPages
    /\ UNCHANGED <<numSlots, inited, hint, cached, slot, unwritten, lockVars, up, history, ops, faults>>

\* GetPage fails; the statement returns the error.
FetchFails(t) ==
    /\ th[t].pc = "fetch" /\ faults < MaxFaults /\ faults' = faults + 1
    /\ orphans' = IF th[t].page \in inited THEN orphans ELSE orphans \cup {th[t].page}
    /\ th' = [th EXCEPT ![t] = [Rested(@) EXCEPT !.err = TRUE]]
    /\ UNCHANGED <<diskVars, lockVars, up, nextRow, committed, lost, ops>>

\* A thread that fills the fields of a frame holds its latch shared.
Latched(p) == cached[p] \notin {"no", "yes"}

\* Under the page's latch: initialise it, find a free slot, lock it, log and write the
\* tuple; a full page sends the insertion to the next one.
TakeSlot(t) ==
    /\ th[t].pc = "fetch" /\ ~Latched(th[t].page)
    /\ LET p == th[t].page
           i == FindFirstZero({s \in Slots : slot[<<p, s>>].alloc}, hint[p])
           r == <<p, i>>
       IN  /\ inited' = inited \cup {p}
           /\ orphans' = orphans \ {p}
           /\ cached' = [cached EXCEPT ![p] = "yes"]
           /\ hint' = [hint EXCEPT ![p] = (i + 1) % numSlots]
           /\ IF i = -1
              THEN /\ th' = [th EXCEPT ![t].pc = "grow", ![t].page = p + 1]
                   /\ UNCHANGED <<slot, xlock, nextRow>>
              ELSE /\ xlock' = [xlock EXCEPT ![r] = t]
                   /\ slot' = [slot EXCEPT ![r].alloc = TRUE, ![r].row = nextRow]
                   /\ nextRow' = nextRow + 1
                   /\ th' = [th EXCEPT ![t] = [Rested(@) EXCEPT !.ins = th[t].ins \cup {r}]]
    /\ UNCHANGED <<numSlots, numPages, unwritten, tlock, up, committed, lost, ops, faults>>
-----------------------------------------------------------------------------
(* DeleteTuple, the end of a transaction, VacuumPage. *)

DeleteTuple(t) ==
    /\ Start(t)
    /\ \E r \in RIDs :
        /\ Live(r) /\ xlock[r] \in {None, t}
        /\ AcquireLock(t, "IX")
        /\ xlock' = [xlock EXCEPT ![r] = t]
        /\ slot' = [slot EXCEPT ![r].del = TRUE]
        /\ th' = [th EXCEPT ![t].dels = @ \cup {r}]
    /\ UNCHANGED <<numSlots, numPages, inited, hint, cached, unwritten, up, history, faults>>

EndTxn(t) ==
    /\ t \in Txns /\ th[t].pc = "rest" /\ tlock[t] # "none"
    /\ tlock' = [tlock EXCEPT ![t] = "none"]
    /\ xlock' = [r \in RIDs |-> IF xlock[r] = t THEN None ELSE xlock[r]]
    /\ th' = [th EXCEPT ![t] = Rest]
    /\ UNCHANGED <<numSlots, numPages, inited, hint, cached, up, nextRow, lost, orphans, ops, faults>>

RowsOf(S) == {slot[r].row : r \in S}
Commit(t) ==
    /\ EndTxn(t) /\ ~th[t].err
    /\ committed' = (committed \cup RowsOf(th[t].ins)) \ RowsOf(th[t].dels)
    /\ UNCHANGED <<slot, unwritten>>

\* Abort marks what was inserted as deleted and what was deleted as live again; redo of
\* the latter's compensation record clears the deleted bit, whatever the page on disk has.
Abort(t) ==
    /\ EndTxn(t)
    /\ slot' = [r \in RIDs |-> IF r \in th[t].ins \cup th[t].dels
                               THEN [slot[r] EXCEPT !.del = r \in th[t].ins] ELSE slot[r]]
    /\ unwritten' = unwritten \ th[t].dels
    /\ UNCHANGED committed

LockFails_Never(t) == FALSE
\* A lock is refused (deadlock or timeout): the statement fails.
LockFails(t) ==
    /\ \/ th[t].pc = "insert" /\ ~CanLock(t, "IX")
       \/ th[t].pc = "scan" /\ t \in Txns /\ ~CanLock(t, th[t].mode)
    /\ th' = [th EXCEPT ![t] = [Rested(@) EXCEPT !.err = tlock[t] # "none"]]
    /\ UNCHANGED <<diskVars, lockVars, up, history, ops, faults>>

VacuumPage_NoLockCheck(p) ==
    /\ p \in inited /\ ~Latched(p)
    /\ \E r \in RIDs : r[1] = p /\ slot[r].del
    /\ slot' = [r \in RIDs |-> IF r[1] = p /\ slot[r].del THEN [slot[r] EXCEPT !.alloc = FALSE, !.del = FALSE]
                                                           ELSE slot[r]]
    /\ unwritten' = unwritten \cup {r \in RIDs : r[1] = p /\ slot[r].del}
    /\ UNCHANGED <<numSlots, numPages, inited, hint, cached, lockVars, th, up, history, ops, faults>>
\* VacuumPage logs nothing: until the page is written, only the frame knows.
VacuumPage(p) ==
    /\ p \in inited /\ ~Latched(p)
    /\ LET free == {r \in RIDs : r[1] = p /\ slot[r].del /\ xlock[r] = None}
       IN  /\ free # {}
           /\ slot' = [r \in RIDs |-> IF r \in free THEN [slot[r] EXCEPT !.alloc = FALSE, !.del = FALSE]
                                                    ELSE slot[r]]
           /\ unwritten' = unwritten \cup free
    /\ UNCHANGED <<numSlots, numPages, inited, hint, cached, lockVars, th, up, history, ops, faults>>

\* The page is written to disk, by the flusher or by an eviction.
WritePage(p) ==
    /\ \E r \in unwritten : r[1] = p
    /\ unwritten' = {r \in unwritten : r[1] # p}
    /\ UNCHANGED <<numSlots, numPages, inited, hint, cached, slot, lockVars, th, up, history, ops, faults>>
-----------------------------------------------------------------------------
(* The iterator. *)

\* Iterator reads the number of pages before it has the lock; without a page there is
\* nothing to scan, and no lock.
Scan(t, mode) ==
    /\ Start(t) /\ numPages > 0
    /\ th' = [th EXCEPT ![t].pc = "scan", ![t].np = numPages, ![t].mode = mode]
    /\ UNCHANGED <<diskVars, lockVars, up, history, faults>>
ScanNothing(t) ==
    /\ Start(t) /\ numPages = 0
    /\ UNCHANGED <<diskVars, lockVars, th, up, history, faults>>

ScanLock_Early(t) ==
    /\ th[t].pc = "scan" /\ t \in Txns
    /\ th' = [th EXCEPT ![t].pc = "open", ![t].late = numPages # th[t].np,
                        ![t].exp = (Kept \cup RowsOf(th[t].ins)) \ RowsOf(th[t].dels)]
    /\ UNCHANGED <<diskVars, lockVars, up, history, ops, faults>>
\* Pages added while it waited will not be visited.
ScanLock(t) ==
    /\ th[t].pc = "scan" /\ t \in Txns
    /\ AcquireLock(t, th[t].mode)
    /\ th' = [th EXCEPT ![t].pc = "open", ![t].late = numPages # th[t].np,
                        ![t].exp = (Kept \cup RowsOf(th[t].ins)) \ RowsOf(th[t].dels)]
    /\ UNCHANGED <<diskVars, xlock, up, history, ops, faults>>

\* The next page, once it is initialised: until then the iterator spins.  AsHeapPage lets
\* the first caller fill the fields of the frame.
OpenPage(t) ==
    /\ th[t].pc = "open" /\ th[t].page \in inited /\ ~Latched(th[t].page)
    /\ LET p == th[t].page
       IN  IF cached[p] = "yes"
           THEN th' = [th EXCEPT ![t].pc = "next"] /\ UNCHANGED <<cached, hint>>
           ELSE /\ cached' = [cached EXCEPT ![p] = t]
                /\ hint' = [hint EXCEPT ![p] = 0]
                /\ th' = [th EXCEPT ![t].pc = "fill"]
    /\ UNCHANGED <<numSlots, numPages, inited, slot, unwritten, lockVars, up, history, ops, faults>>
Fill(t) ==
    /\ th[t].pc = "fill"
    /\ cached' = [cached EXCEPT ![th[t].page] = "yes"]
    /\ th' = [th EXCEPT ![t].pc = "next"]
    /\ UNCHANGED <<numSlots, numPages, inited, hint, slot, unwritten, lockVars, up, history, ops, faults>>

\* A second caller does not wait for the first: it may find all fields filled, or a page
\* without slots, which Iterator leaves at once, or (Panics) stop at an assertion.
OpenRace(t) ==
    /\ th[t].pc = "open" /\ Latched(th[t].page)
    /\ \E n \in IF th[t].page = 0 THEN {0, numSlots} ELSE {numSlots} :
        th' = [th EXCEPT ![t].pc = "next", ![t].torn = @ \/ n = 0,
                         ![t].slot = IF n = 0 THEN numSlots - 1 ELSE @]
    /\ UNCHANGED <<diskVars, lockVars, up, history, ops, faults>>

\* Next: the next live tuple of the page ...
Ahead(t) == {s \in Slots : s > th[t].slot /\ Live(<<th[t].page, s>>)}
NextTuple(t) ==
    /\ th[t].pc = "next" /\ Ahead(t) # {}
    /\ LET s == Min(Ahead(t))
       IN  th' = [th EXCEPT ![t].slot = s, ![t].res = @ \cup {slot[<<th[t].page, s>>].row}]
    /\ UNCHANGED <<diskVars, lockVars, up, history, ops, faults>>
\* ... or the next page ...
NextPage(t) ==
    /\ th[t].pc = "next" /\ Ahead(t) = {} /\ th[t].page + 1 < th[t].np
    /\ th' = [th EXCEPT ![t].pc = "open", ![t].page = @ + 1, ![t].slot = -1]
    /\ UNCHANGED <<diskVars, lockVars, up, history, ops, faults>>
\* ... or the end; at start-up the database is then up.
ScanEnd(t) == th[t].pc = "next" /\ Ahead(t) = {} /\ th[t].page + 1 >= th[t].np
Close(t) ==
    /\ ScanEnd(t)
    /\ up' = (up \/ t = Boot)
    /\ th' = [th EXCEPT ![t] = Rested(@)]
    /\ UNCHANGED <<diskVars, lockVars, history, ops, faults>>
-----------------------------------------------------------------------------
(* Crashes. *)

\* Recovery brings back the committed rows on their pages; other rows are dead, or lost
\* with their page.  A slot that was vacuumed and not written since comes back with the
\* deleted bit of its former row, which redo of an insertion does not clear: the row it has
\* been filled with is lost, unless a deletion of it, logged and not committed, is undone.
\* Then rebuildIndexes scans the table without a transaction.
Restart ==
    /\ LET keeps == {r \in RIDs : slot[r].alloc /\ slot[r].row \in Kept}
       IN  \E flushed \in SUBSET inited, undone \in SUBSET {r \in keeps \cap unwritten : slot[r].del} :
            LET back == (keeps \ unwritten) \cup undone
            IN  /\ {r[1] : r \in keeps} \subseteq flushed
                /\ inited' = flushed
                /\ orphans' = (0 .. numPages - 1) \ flushed
                /\ slot' = [r \in RIDs |->
                    IF r[1] \notin flushed THEN Empty
                    ELSE IF r \in back THEN [slot[r] EXCEPT !.del = FALSE]
                    ELSE IF r \in unwritten THEN [slot[r] EXCEPT !.alloc = TRUE, !.del = TRUE]
                    ELSE [slot[r] EXCEPT !.del = slot[r].alloc]]
                /\ lost' = lost \cup {slot[r].row : r \in keeps \ back}
    /\ unwritten' = {}
    /\ hint' = [p \in Pages |-> 0]
    /\ cached' = [p \in Pages |-> "no"]
    /\ tlock' = [t \in Txns |-> "none"]
    /\ xlock' = [r \in RIDs |-> None]
    /\ up' = (numPages = 0)
    /\ th' = [t \in Threads |->
                IF t = Boot /\ numPages > 0 THEN [Rest EXCEPT !.pc = "open", !.np = numPages] ELSE Rest]
    /\ UNCHANGED <<numSlots, numPages, nextRow, committed, ops>>
Crash == faults < MaxFaults /\ faults' = faults + 1 /\ Restart

\* Assertions that end the process: "Should allocate at most 1 page", of an insertion that
\* is about to allocate a third; and the range of the bitmap, of an iterator that uses the
\* fields of a frame while another thread fills them.
Panics(t) ==
    \/ th[t].pc = "grow" /\ th[t].page = numPages /\ th[t].count > 1
    \/ th[t].pc = "open" /\ Latched(th[t].page)
Panic(t) == Panics(t) /\ Restart /\ UNCHANGED faults

Step(t) ==
    \/ InsertLock(t) \/ Grow(t) \/ TakeSlot(t) \/ LockFails(t) \/ Panic(t)
    \/ ScanLock(t) \/ OpenPage(t) \/ Fill(t) \/ OpenRace(t)
    \/ NextTuple(t) \/ NextPage(t) \/ Close(t)
Next ==
    \/ \E t \in Threads : Step(t)
    \/ \E t \in Txns :
        \/ Insert(t) \/ DeleteTuple(t) \/ Scan(t, "S") \/ Scan(t, "X") \/ ScanNothing(t)
        \/ FetchFails(t) \/ Commit(t) \/ Abort(t)
    \/ \E p \in Pages : VacuumPage(p) \/ WritePage(p)
    \/ Crash

\* A goroutine in the middle of an operation runs on: the scheduler is fair, mutexes and
\* latches are held for one step, and a lock that is not granted is refused in the end.
Fairness == \A t \in Threads : WF_vars(Step(t))
Spec == Init /\ [][Next]_vars /\ Fairness
-----------------------------------------------------------------------------
(* Properties. *)

Slotted(row) == {r \in RIDs : slot[r].alloc /\ slot[r].row = row}

\* No tuple is overwritten, and none is lost but for one case: a committed row is in exactly
\* one slot of an initialised page, deleted only while a transaction that deleted it holds
\* the slot, unless a crash found it in a slot that had been vacuumed and filled again since
\* its page was last written (recovery_manager.go:219).  A slot an active transaction filled
\* is its own.  (FindFirstZero and MarkAllocated under the latch, the X lock VacuumPage
\* looks for, undo and recovery.)
RowsKept ==
    /\ \A row \in committed \ lost : \E r \in RIDs :
        /\ Slotted(row) = {r} /\ r[1] \in inited /\ r[1] < numPages /\ r[2] < numSlots
        /\ slot[r].del => \E t \in Txns : xlock[r] = t /\ r \in th[t].dels
    /\ \A t \in Txns : \A r \in th[t].ins : slot[r].alloc /\ xlock[r] = t

\* A scan under a table lock that visited all pages returns exactly the rows committed
\* when it got the lock, with its own changes; the scan that rebuilds the indexes returns
\* all committed rows that were not lost (Iterator, Next, the lock modes, AsHeapPage).
ScanExact ==
    \A t \in Threads : ScanEnd(t) /\ ~th[t].late /\ ~th[t].torn =>
        th[t].res = IF t = Boot THEN Kept ELSE th[t].exp

\* A scan ends, the one at start-up included, unless the file has a page that nobody is
\* going to initialise: the iterator spins until the page carries the heap page magic.
ScanEnds ==
    \A t \in Threads : th[t].pc \in {"scan", "open", "fill", "next"} ~> th[t].pc = "rest" \/ orphans # {}
=============================================================================
