-------------------------- MODULE TableHeapProofs --------------------------
(***************************************************************************)
(* Proofs about the pages of a table: no tuple is lost or overwritten      *)
(* (RowsKept), and a scan under a table lock returns exactly the rows that *)
(* were there when it got the lock (ScanExact), for every number of        *)
(* transactions, pages, slots and operations.                              *)
(***************************************************************************)
EXTENDS TableHeap, WellFoundedInduction, TLAPS

-----------------------------------------------------------------------------
(* The inductive invariant. *)

\* Modes of a table lock.
Modes == {"none", "IX", "S", "SIX", "X"}
Writing == {"IX", "SIX", "X"}   \* modes that allow changes
Reading == {"S", "SIX", "X"}    \* modes that allow scans
\* Where a thread can be.
PCs == {"rest", "insert", "grow", "fetch", "scan", "open", "fill", "next"}
\* A slot, and the state of a thread.
SlotType == [alloc : BOOLEAN, del : BOOLEAN, row : Nat]
ThreadType ==
    [pc : PCs, page : Nat, slot : Int, count : Nat, np : Nat, mode : {"S", "X"}, late : BOOLEAN,
     res : SUBSET Nat, exp : SUBSET Nat, torn : BOOLEAN,
     ins : SUBSET RIDs, dels : SUBSET RIDs, err : BOOLEAN]

\* The variables have their types, and the file holds the pages it says.
HeapTypes ==
    /\ numSlots \in 1 .. MaxSlots
    /\ numPages \in 0 .. MaxPages
    /\ inited \subseteq 0 .. numPages - 1
    /\ hint \in [Pages -> Nat]
    /\ slot \in [RIDs -> SlotType]
    /\ nextRow \in Nat \ {0}
    /\ Kept \subseteq 1 .. nextRow - 1
    /\ up \in BOOLEAN
\* So have the locks and the threads.
LockTypes ==
    /\ tlock \in [Txns -> Modes]
    /\ xlock \in [RIDs -> Txns \cup {None}]
    /\ th \in [Threads -> ThreadType]

\* What a slot holds: a row of its own, on an initialised page; a committed row is allocated.
SlotOK(r) ==
    /\ slot[r].row < nextRow
    /\ slot[r].alloc => slot[r].row > 0 /\ r[1] \in inited /\ r[2] < numSlots
    /\ slot[r].del => slot[r].alloc
    /\ slot[r].row \in Kept => slot[r].alloc
\* No row is in two slots.
OneSlotPerRow == \A r, q \in RIDs : slot[r].row = slot[q].row /\ slot[r].row > 0 => r = q
\* Every committed row is in a slot.
CommittedFound == \A c \in Kept : \E r \in RIDs : slot[r].row = c
\* Slots and rows agree.
RowInv == CommittedFound /\ OneSlotPerRow /\ \A r \in RIDs : SlotOK(r)

\* A transaction has the locks of the slots it changed, and changed the slots it has locked.
Changed(t, r) ==
    /\ r \in th[t].ins => xlock[r] = t /\ slot[r].alloc /\ slot[r].row \notin Kept
    /\ r \in th[t].dels => xlock[r] = t /\ slot[r].del
    /\ xlock[r] = t =>
        /\ r \in th[t].ins \cup th[t].dels
        /\ slot[r].del => r \in th[t].dels
        /\ slot[r].row \notin Kept => r \in th[t].ins
        /\ tlock[t] \in Writing
\* A slot without a lock is live exactly if its row is committed.
Settled(r) == xlock[r] = None => (Live(r) <=> slot[r].row \in Kept)
\* Locks and changes agree.
LockInv ==
    /\ \A t \in Txns : \A r \in RIDs : Changed(t, r)
    /\ \A r \in RIDs : Settled(r)

\* Table locks that are held together are compatible.
TablesShared == \A t, u \in Txns : t # u => Compatible(tlock[t], tlock[u])

\* Where a thread is.
Placed(t) ==
    /\ th[t].pc = "rest" => th[t] = Rested(th[t])
    /\ th[t].pc \in {"insert", "grow"} => th[t].page <= numPages
    /\ th[t].pc = "fetch" => th[t].page < numPages
    /\ th[t].pc \in {"grow", "fetch"} => t \in Txns /\ tlock[t] \in Writing
    /\ th[t].pc = "insert" => t \in Txns
    /\ th[t].pc \in {"scan", "open", "fill", "next"} => th[t].page < th[t].np /\ th[t].np <= numPages
    /\ th[t].pc # "rest" /\ ~up => t = Boot
    /\ ~up /\ t \in Txns => tlock[t] = "none"
\* The thread that starts the database changes no tuple.
BootInv == th[Boot].ins = {} /\ th[Boot].dels = {} /\ (up => th[Boot].pc = "rest")
\* So it is for all threads.
ThreadInv == BootInv /\ \A t \in Threads : Placed(t)

\* An iterator has returned the live rows up to its position, out of all it has to return.
Scanning(t) == th[t].pc \in {"open", "fill", "next"}
\* The rows there are, the slots an iterator has passed, and what it has to return.
LiveRows == {slot[r].row : r \in {q \in RIDs : Live(q)}}
Passed(t) == {r \in RIDs : r[1] < th[t].page \/ (r[1] = th[t].page /\ r[2] <= th[t].slot)}
Target(t) == IF t = Boot THEN Kept ELSE th[t].exp
\* An iterator has returned all it has passed; the lock keeps the rows as they are.
ScanOK(t) ==
    /\ th[t].pc = "scan" => 
        /\ t \in Txns /\ th[t].page = 0 /\ th[t].slot = -1 /\ th[t].res = {} /\ ~th[t].torn
    /\ th[t].pc \in {"open", "fill"} => th[t].slot = -1
    /\ Scanning(t) =>
        /\ t \in Txns => tlock[t] \in Reading
        /\ Target(t) = LiveRows
        /\ ~th[t].late => \A r \in RIDs : Live(r) => r[1] < th[t].np
        /\ ~th[t].torn => th[t].res = {slot[r].row : r \in {q \in RIDs : Live(q) /\ q \in Passed(t)}}
\* So it is for all iterators.
ScanInv == \A t \in Threads : ScanOK(t)

\* A vacuumed slot is one that has been in use; rows are lost only after they are committed.
LostInv ==
    /\ lost \subseteq 1 .. nextRow - 1
    /\ \A r \in unwritten : r \in RIDs /\ slot[r].row > 0 /\ r[1] \in inited /\ r[2] < numSlots
    /\ \A t \in Txns : \A r \in th[t].ins : slot[r].row \notin lost

\* The inductive invariant, with LostInv.
HInv == HeapTypes /\ LockTypes /\ RowInv /\ LockInv /\ TablesShared /\ ThreadInv /\ ScanInv
-----------------------------------------------------------------------------
(* Operators. *)

\* The least element of a set of natural numbers is in it.
LEMMA LeastElement ==
    ASSUME NEW S \in SUBSET Nat, S # {}
    PROVE  Min(S) \in S /\ \A y \in S : Min(S) <= y
<1>1. PICK x \in S : \A y \in S : ~ (<<y, x>> \in OpToRel(<, Nat))
    BY WFMin, NatLessThanWellFounded, Zenon
<1>2. \A y \in S : <<y, x>> \in Nat \X Nat /\ <<y, x>>[1] = y /\ <<y, x>>[2] = x
    OBVIOUS
<1>3. \A y \in S : ~ (y < x)
    BY <1>1, <1>2, Zenon DEF OpToRel
<1>4. \A y \in S : x <= y
    BY <1>3
<1> QED
    BY <1>4 DEF Min

\* The parts of a slot's address.
LEMMA AddressParts ==
    ASSUME NEW r \in RIDs
    PROVE  r[1] \in Pages /\ r[2] \in Slots /\ r = <<r[1], r[2]>>
BY DEF RIDs

\* A word of the bitmap yields a clear bit of a slot of the page, or none.
LEMMA ZeroInWord ==
    ASSUME numSlots \in Nat, NEW used, NEW w \in Nat, NEW from \in Nat, NEW to \in Int
    PROVE  ZeroIn(used, w, from, to) = -1
             \/ ZeroIn(used, w, from, to) \in (0 .. numSlots - 1) \ used
<1> DEFINE zeros == {i \in {w * WordBits + j : j \in from .. to - 1} : i < numSlots /\ i \notin used}
<1>1. WordBits \in Nat
    BY HeapAssumption
<1>2. w * WordBits \in Nat
    BY <1>1
<1> HIDE DEF zeros
<1>3. zeros \subseteq (0 .. numSlots - 1) \ used
    BY <1>2 DEF zeros
<1>4. CASE zeros = {}
    BY <1>4 DEF ZeroIn, zeros
<1>5. CASE zeros # {}
  <2>1. Min(zeros) \in zeros
    BY <1>3, <1>5, LeastElement
  <2>2. ZeroIn(used, w, from, to) = -1 \/ ZeroIn(used, w, from, to) = Min(zeros)
    BY DEF ZeroIn, zeros
  <2> QED
    BY <1>3, <2>1, <2>2
<1> QED
    BY <1>4, <1>5

\* FindFirstZero returns a slot of the page that is not in use, or -1.
LEMMA FoundIsFree ==
    ASSUME numSlots \in Nat, NEW used, NEW startHint \in Nat
    PROVE  FindFirstZero(used, startHint) = -1
             \/ FindFirstZero(used, startHint) \in (0 .. numSlots - 1) \ used
<1> DEFINE start == startHint \div WordBits
           bit == startHint % WordBits
           After(w) == ZeroIn(used, w, IF w = start THEN bit ELSE 0, WordBits)
           Before(w) == ZeroIn(used, w, 0, IF w = start THEN bit ELSE WordBits)
           after == {After(w) : w \in start .. Words(numSlots) - 1} \ {-1}
           before == {Before(w) : w \in 0 .. start} \ {-1}
           free == (0 .. numSlots - 1) \ used
<1>1. WordBits \in Nat \ {0}
    BY HeapAssumption
<1>2. start \in Nat /\ bit \in Nat
    BY <1>1
<1> HIDE DEF start, bit
<1>3. Words(numSlots) \in Int
    BY <1>1 DEF Words
<1>4. \A w \in Nat : (IF w = start THEN bit ELSE 0) \in Nat /\ (IF w = start THEN bit ELSE WordBits) \in Int
    BY <1>1, <1>2
<1>5. \A w \in Nat : After(w) = -1 \/ After(w) \in free
    BY <1>1, <1>4, ZeroInWord
<1>6. \A w \in Nat : Before(w) = -1 \/ Before(w) \in free
    BY <1>1, <1>4, ZeroInWord
<1> HIDE DEF After, Before
<1>7. after \subseteq free /\ before \subseteq free
    BY <1>2, <1>3, <1>5, <1>6
<1>8. FindFirstZero(used, startHint) =
        IF after # {} THEN Min(after) ELSE IF before # {} THEN Min(before) ELSE -1
    BY DEF FindFirstZero, start, bit, After, Before
<1> HIDE DEF after, before
<1>9. (after # {} => Min(after) \in after) /\ (before # {} => Min(before) \in before)
    BY <1>7, LeastElement
<1> QED
    BY <1>7, <1>8, <1>9
-----------------------------------------------------------------------------
(* Steps that change no slot. *)

\* A step of thread t that changes no slot, no slot's lock and no list of changes.
QuietStep(t) ==
    /\ UNCHANGED <<numSlots, slot, xlock, Kept, nextRow>>
    /\ inited \subseteq inited' /\ inited' \subseteq 0 .. numPages' - 1
    /\ numPages' \in numPages .. MaxPages
    /\ hint' \in [Pages -> Nat]
    /\ tlock' \in [Txns -> Modes] /\ \A u \in Txns : u # t => tlock'[u] = tlock[u]
    /\ t \in Txns /\ tlock[t] \in Writing => tlock'[t] \in Writing
    /\ th' \in [Threads -> ThreadType] /\ \A u \in Threads : u # t => th'[u] = th[u]
    /\ th'[t].ins = th[t].ins /\ th'[t].dels = th[t].dels
    /\ up' \in BOOLEAN /\ (up => up') /\ (up' => th'[Boot].pc = "rest")

\* The threads' own conditions: what an iterator relies on does not change if the live slots do not.
LEMMA ScanUndisturbed ==
    ASSUME HInv, NEW u \in Threads, th'[u] = th[u], u \in Txns => tlock'[u] = tlock[u],
           Kept' = Kept,
           \A r \in RIDs : (Live(r)' <=> Live(r)) /\ (Live(r) => slot'[r].row = slot[r].row)
    PROVE  ScanOK(u)'
<1>1. ScanOK(u)
    BY DEF HInv, ScanInv
<1>2. LiveRows' = LiveRows
    BY DEF LiveRows
<1>3. Target(u)' = Target(u) /\ Passed(u)' = Passed(u)
    BY DEF Target, Passed
<1> DEFINE P == Passed(u)
           seen == {slot[r].row : r \in {q \in RIDs : Live(q) /\ q \in P}}
           seen1 == {slot'[r].row : r \in {q \in RIDs : Live(q)' /\ q \in P}}
<1>4. seen1 = seen
    <2> HIDE DEF P
    <2> QED
        OBVIOUS
<1> QED
    BY <1>1, <1>2, <1>3, <1>4 DEF ScanOK, Scanning

\* A quiet step keeps the invariant if it keeps what concerns its thread.
LEMMA QuietKeeps ==
    ASSUME HInv, NEW t \in Threads, QuietStep(t), TablesShared', Placed(t)', ScanOK(t)'
    PROVE  HInv'
<1> USE HInv DEF HInv
<1>1. HeapTypes'
    <2>1. numPages' \in 0 .. MaxPages /\ inited' \subseteq 0 .. numPages' - 1
      <3>1. numPages \in 0 .. MaxPages /\ MaxPages \in Nat
        BY HeapAssumption DEF HeapTypes
      <3>2. numPages' \in numPages .. MaxPages /\ inited' \subseteq 0 .. numPages' - 1
        BY DEF QuietStep
      <3>3. numPages' \in 0 .. MaxPages
        BY <3>1, <3>2
      <3> QED
        BY <3>2, <3>3
    <2>2. UNCHANGED <<numSlots, slot, Kept, nextRow>> /\ hint' \in [Pages -> Nat] /\ up' \in BOOLEAN
        BY DEF QuietStep
    <2> QED
        BY <2>1, <2>2, Zenon DEF HeapTypes
<1>2. LockTypes'
    BY DEF LockTypes, QuietStep
<1>3. \A r \in RIDs : SlotOK(r)'
    BY DEF RowInv, SlotOK, QuietStep
<1>4. RowInv'
    BY <1>3 DEF RowInv, CommittedFound, OneSlotPerRow, QuietStep
<1>5. ASSUME NEW u \in Txns PROVE th'[u].ins = th[u].ins /\ th'[u].dels = th[u].dels
                                  /\ (tlock[u] \in Writing => tlock'[u] \in Writing)
    BY <1>5 DEF QuietStep, Threads
<1>6. ASSUME NEW u \in Txns, NEW r \in RIDs PROVE Changed(u, r)'
    BY <1>5 DEF LockInv, Changed, QuietStep
<1>7. LockInv'
    BY <1>6 DEF LockInv, Settled, Live, QuietStep
<1>8. ASSUME NEW u \in Threads PROVE Placed(u)'
    <2>1. CASE u = t
        BY <2>1
    <2>2. CASE u # t
      <3>1. Placed(u)
        BY DEF ThreadInv
      <3>2. th'[u] = th[u] /\ (u \in Txns => tlock'[u] = tlock[u]) /\ (up => up')
        BY <2>2 DEF QuietStep
      <3>3. numPages \in Nat /\ numPages' \in Nat /\ numPages <= numPages' /\ th[u].page \in Nat /\ th[u].np \in Nat
        BY DEF QuietStep, HeapTypes, LockTypes, ThreadType
      <3> QED
        BY <3>1, <3>2, <3>3 DEF Placed
    <2> QED
        BY <2>1, <2>2
<1>9. BootInv'
    BY DEF BootInv, ThreadInv, QuietStep, Threads
<1>10. ASSUME NEW u \in Threads PROVE ScanOK(u)'
    <2>1. CASE u = t
        BY <2>1
    <2>2. CASE u # t
      <3>1. th'[u] = th[u] /\ (u \in Txns => tlock'[u] = tlock[u]) /\ slot' = slot /\ Kept' = Kept
        BY <2>2 DEF QuietStep
      <3> QED
        BY <3>1, ScanUndisturbed DEF Live
    <2> QED
        BY <2>1, <2>2
<1> QED
    BY <1>1, <1>2, <1>4, <1>7, <1>8, <1>9, <1>10 DEF ThreadInv, ScanInv

\* An update of one thread.
LEMMA ThreadUpdate ==
    ASSUME th \in [Threads -> ThreadType], NEW t \in Threads, NEW y \in ThreadType, th' = [th EXCEPT ![t] = y]
    PROVE  /\ th' \in [Threads -> ThreadType] /\ th'[t] = y
           /\ \A u \in Threads : u # t => th'[u] = th[u]
OBVIOUS

\* The fields of a thread that has ended its operation.
LEMMA RestedFields ==
    ASSUME NEW x \in ThreadType
    PROVE  /\ Rested(x) \in ThreadType /\ Rested(Rested(x)) = Rested(x)
           /\ Rested(x).pc = "rest" /\ Rested(x).page = 0 /\ Rested(x).slot = -1
           /\ Rested(x).res = {} /\ Rested(x).torn = FALSE /\ Rested(x).late = FALSE
           /\ Rested(x).ins = x.ins /\ Rested(x).dels = x.dels /\ Rested(x).err = x.err
<1>1. Rest \in ThreadType
    BY DEF Rest, ThreadType, PCs
<1>2. Rest.pc = "rest" /\ Rest.page = 0 /\ Rest.slot = -1 /\ Rest.res = {}
    BY DEF Rest
<1>3. Rest.torn = FALSE /\ Rest.late = FALSE
    BY DEF Rest
<1>4. Rested(x) \in ThreadType
    BY <1>1 DEF Rested, ThreadType
<1>5. Rested(x).ins = x.ins /\ Rested(x).dels = x.dels /\ Rested(x).err = x.err
    BY <1>1 DEF Rested, ThreadType
<1>6. Rested(Rested(x)) = Rested(x)
    BY <1>5, Zenon DEF Rested
<1>7. /\ Rested(x).pc = Rest.pc /\ Rested(x).page = Rest.page /\ Rested(x).slot = Rest.slot
      /\ Rested(x).res = Rest.res /\ Rested(x).torn = Rest.torn /\ Rested(x).late = Rest.late
    BY <1>1 DEF Rested, ThreadType
<1> QED
    BY <1>2, <1>3, <1>4, <1>5, <1>6, <1>7

\* A thread at rest has no position.
LEMMA AtRest ==
    ASSUME HInv, NEW t \in Threads, th[t].pc = "rest"
    PROVE  th[t].page = 0 /\ th[t].slot = -1 /\ th[t].res = {} /\ ~th[t].torn /\ ~th[t].late
<1>1. th[t] \in ThreadType /\ th[t] = Rested(th[t])
    BY DEF HInv, LockTypes, ThreadInv, Placed
<1> QED
    BY <1>1, RestedFields

\* What a step that touches only its thread leaves alone.
OnlyThread == UNCHANGED <<numSlots, numPages, inited, slot, xlock, tlock, Kept, nextRow, up>>

\* A step of one thread that changes only its own position and keeps its list of changes.
LEMMA MoveKeeps ==
    ASSUME HInv, NEW t \in Threads, NEW y \in ThreadType, th' = [th EXCEPT ![t] = y],
           OnlyThread, hint' \in [Pages -> Nat], y.ins = th[t].ins, y.dels = th[t].dels,
           t = Boot /\ up => y.pc = "rest", Placed(t)', ScanOK(t)'
    PROVE  HInv'
<1>1. /\ th' \in [Threads -> ThreadType] /\ th'[t] = y
      /\ \A u \in Threads : u # t => th'[u] = th[u]
    BY ThreadUpdate DEF HInv, LockTypes
<1>2. up' => th'[Boot].pc = "rest"
    BY <1>1 DEF HInv, ThreadInv, BootInv, OnlyThread, Threads
<1>3. inited' \subseteq 0 .. numPages' - 1 /\ numPages' \in numPages .. MaxPages
    BY HeapAssumption DEF HInv, HeapTypes, OnlyThread
<1>4. up' \in BOOLEAN /\ tlock' \in [Txns -> Modes] /\ tlock' = tlock
    BY DEF HInv, HeapTypes, LockTypes, OnlyThread
<1>5. QuietStep(t)
    BY <1>1, <1>2, <1>3, <1>4 DEF QuietStep, OnlyThread
<1>6. TablesShared'
    BY DEF HInv, TablesShared, OnlyThread, Compatible
<1> QED
    BY <1>5, <1>6, QuietKeeps

\* InsertTuple is called: only the thread moves.
LEMMA InsertStep ==
    ASSUME HInv, NEW t \in Txns, Insert(t)
    PROVE  HInv'
<1> DEFINE pg == IF numPages = 0 THEN 0 ELSE numPages - 1
<1>0. t \in Threads /\ t # Boot
    BY HeapAssumption DEF Threads
<1>1. PICK x \in ThreadType : x = th[t]
    BY <1>0 DEF HInv, LockTypes
<1>2. numPages \in Nat /\ pg \in Nat /\ pg <= numPages
    BY DEF HInv, HeapTypes
<1>3. PICK p \in Nat : p = pg /\ p <= numPages
    BY <1>2
<1> DEFINE y == [x EXCEPT !.pc = "insert", !.page = p]
<1>4. y \in ThreadType /\ y.pc = "insert" /\ y.page = p /\ y.ins = x.ins /\ y.dels = x.dels
    BY DEF ThreadType, PCs
<1>5. th' = [th EXCEPT ![t] = y]
    BY <1>0, <1>1, <1>3 DEF Insert, HInv, LockTypes
<1> HIDE DEF y
<1>6. OnlyThread /\ hint' \in [Pages -> Nat] /\ up
    BY DEF Insert, Start, OnlyThread, diskVars, lockVars, history, Kept, HInv, HeapTypes
<1>7. th'[t] = y
    BY <1>0, <1>4, <1>5, ThreadUpdate DEF HInv, LockTypes
<1>8. Placed(t)'
    BY <1>0, <1>3, <1>4, <1>6, <1>7 DEF Placed, OnlyThread
<1>9. ScanOK(t)'
    BY <1>4, <1>7 DEF ScanOK, Scanning
<1> QED
    BY <1>0, <1>1, <1>4, <1>5, <1>6, <1>8, <1>9, MoveKeeps

\* A granted table lock is compatible with the others, and allows what it was asked for.
LEMMA LockGranted ==
    ASSUME HInv, NEW t \in Txns, NEW mode \in {"IX", "S", "X"}, AcquireLock(t, mode)
    PROVE  /\ tlock' \in [Txns -> Modes] /\ \A u \in Txns : u # t => tlock'[u] = tlock[u]
           /\ tlock[t] \in Writing => tlock'[t] \in Writing
           /\ mode = "IX" => tlock'[t] \in Writing
           /\ mode # "IX" => tlock'[t] \in Reading
           /\ TablesShared'
<1>1. tlock \in [Txns -> Modes] /\ TablesShared
    BY DEF HInv, LockTypes
<1>2. PICK held \in Modes : held = tlock[t]
    BY <1>1
<1>3. PICK w : w = Wanted(held, mode)
    OBVIOUS
<1>4. /\ w \in Modes /\ (held \in Writing => w \in Writing)
      /\ (mode = "IX" => w \in Writing) /\ (mode # "IX" => w \in Reading)
    <2>1. held \in {"none", "IX", "S", "SIX", "X"} /\ mode \in {"IX", "S", "X"}
        BY DEF Modes
    <2>2. CASE held = "none"
        BY <2>2, <1>3 DEF Wanted, Writing, Reading, Modes
    <2>3. CASE held \in {"X", mode}
        BY <2>3, <1>3 DEF Wanted, Writing, Reading, Modes
    <2>4. CASE held # "none" /\ held \notin {"X", mode}
      <3>1. w = IF {held, mode} \in {{"S", "IX"}, {"SIX", "S"}, {"SIX", "IX"}} THEN "SIX" ELSE "X"
        BY <2>4, <1>3 DEF Wanted
      <3>2. w \in {"SIX", "X"}
        BY <3>1
      <3> QED
        BY <3>2 DEF Writing, Reading, Modes
    <2> QED
        BY <2>2, <2>3, <2>4
<1>5. tlock' = [tlock EXCEPT ![t] = w] /\ \A u \in Txns \ {t} : Compatible(w, tlock[u])
    BY <1>2, <1>3 DEF AcquireLock, CanLock
<1>6. tlock'[t] = w /\ tlock' \in [Txns -> Modes] /\ \A u \in Txns : u # t => tlock'[u] = tlock[u]
    BY <1>1, <1>4, <1>5
<1>7. ASSUME NEW u \in Txns, NEW v \in Txns, u # v PROVE Compatible(tlock'[u], tlock'[v])
    <2>1. \A a, b : Compatible(a, b) => Compatible(b, a)
        BY DEF Compatible
    <2>2. CASE u # t /\ v # t
        BY <2>2, <1>1, <1>6, <1>7 DEF TablesShared
    <2>3. CASE u = t
        BY <2>3, <1>5, <1>6, <1>7
    <2>4. CASE v = t
        BY <2>1, <2>4, <1>5, <1>6, <1>7
    <2> QED
        BY <2>2, <2>3, <2>4
<1>8. TablesShared'
    BY <1>7 DEF TablesShared
<1> QED
    BY <1>2, <1>4, <1>6, <1>8

\* What is known of a thread in the middle of an operation.
LEMMA ThreadKnown ==
    ASSUME HInv, NEW t \in Threads
    PROVE  th[t] \in ThreadType /\ Placed(t) /\ ScanOK(t) /\ th \in [Threads -> ThreadType]
BY DEF HInv, LockTypes, ThreadInv, ScanInv

\* A step that takes a table lock and touches otherwise only its thread.
LEMMA LockMoveKeeps ==
    ASSUME HInv, NEW t \in Txns, NEW mode \in {"IX", "S", "X"}, AcquireLock(t, mode),
           NEW y \in ThreadType, th' = [th EXCEPT ![t] = y],
           UNCHANGED <<numSlots, numPages, inited, hint, slot, xlock, Kept, nextRow, up>>,
           y.ins = th[t].ins, y.dels = th[t].dels, Placed(t)', ScanOK(t)'
    PROVE  HInv'
<1>0. t \in Threads /\ t # Boot /\ Boot \in Threads
    BY HeapAssumption DEF Threads
<1>1. /\ th' \in [Threads -> ThreadType] /\ th'[t] = y
      /\ \A u \in Threads : u # t => th'[u] = th[u]
    BY <1>0, ThreadUpdate DEF HInv, LockTypes
<1>2. up' => th'[Boot].pc = "rest"
    BY <1>0, <1>1 DEF HInv, ThreadInv, BootInv
<1>3. inited' \subseteq 0 .. numPages' - 1 /\ numPages' \in numPages .. MaxPages
    BY HeapAssumption DEF HInv, HeapTypes
<1>4. up' \in BOOLEAN /\ hint' \in [Pages -> Nat]
    BY DEF HInv, HeapTypes
<1>5. QuietStep(t)
    BY <1>1, <1>2, <1>3, <1>4, LockGranted DEF QuietStep
<1> QED
    BY <1>0, <1>5, LockGranted, QuietKeeps

\* InsertTuple gets its table lock.
LEMMA InsertLockStep ==
    ASSUME HInv, NEW t \in Threads, InsertLock(t)
    PROVE  HInv'
<1>1. PICK x \in ThreadType : x = th[t]
    BY ThreadKnown
<1>2. t \in Txns /\ up /\ x.page <= numPages
    BY <1>1, ThreadKnown, HeapAssumption DEF InsertLock, Placed
<1> DEFINE y == [x EXCEPT !.pc = "grow"]
<1>3. y \in ThreadType /\ y.pc = "grow" /\ y.page = x.page /\ y.ins = x.ins /\ y.dels = x.dels
    BY DEF ThreadType, PCs
<1>4. th' = [th EXCEPT ![t] = y]
    BY <1>1, ThreadKnown DEF InsertLock
<1> HIDE DEF y
<1>5. th'[t] = y
    BY <1>3, <1>4, ThreadUpdate, ThreadKnown
<1>6. UNCHANGED <<numSlots, numPages, inited, hint, slot, xlock, Kept, nextRow, up>> /\ AcquireLock(t, "IX")
    BY DEF InsertLock, diskVars, history, Kept
<1>7. tlock'[t] \in Writing
    BY <1>2, <1>6, LockGranted
<1>8. Placed(t)'
    BY <1>2, <1>3, <1>5, <1>6, <1>7 DEF Placed
<1>9. ScanOK(t)'
    BY <1>3, <1>5 DEF ScanOK, Scanning
<1> QED
    BY <1>1, <1>2, <1>3, <1>4, <1>6, <1>8, <1>9, LockMoveKeeps

\* A page is added to the file.
LEMMA GrowStep ==
    ASSUME HInv, NEW t \in Threads, Grow(t)
    PROVE  HInv'
<1>1. PICK x \in ThreadType : x = th[t]
    BY ThreadKnown
<1>2. x.pc = "grow" /\ t \in Txns /\ t # Boot /\ x.page <= numPages /\ tlock[t] \in Writing
    BY <1>1, ThreadKnown, HeapAssumption DEF Grow, Placed
<1>3. PICK y \in ThreadType : /\ th' = [th EXCEPT ![t] = y]
                              /\ y.pc = "fetch" /\ y.page = x.page /\ y.ins = x.ins /\ y.dels = x.dels
    <2>0. PICK c \in Nat : c = x.count + 1
        BY DEF ThreadType
    <2> DEFINE y1 == [x EXCEPT !.pc = "fetch", !.count = c]
               y2 == [x EXCEPT !.pc = "fetch"]
    <2>1. y1 \in ThreadType /\ y1.pc = "fetch" /\ y1.page = x.page /\ y1.ins = x.ins /\ y1.dels = x.dels
        BY DEF ThreadType, PCs
    <2>2. y2 \in ThreadType /\ y2.pc = "fetch" /\ y2.page = x.page /\ y2.ins = x.ins /\ y2.dels = x.dels
        BY DEF ThreadType, PCs
    <2>3. th' = [th EXCEPT ![t] = y1] \/ th' = [th EXCEPT ![t] = y2]
        BY <1>1, <2>0, ThreadKnown DEF Grow
    <2> HIDE DEF y1, y2
    <2> QED
        BY <2>1, <2>2, <2>3
<1>4. th' \in [Threads -> ThreadType] /\ th'[t] = y /\ \A u \in Threads : u # t => th'[u] = th[u]
    BY <1>3, ThreadUpdate, ThreadKnown
<1>5. UNCHANGED <<numSlots, inited, hint, slot, tlock, xlock, Kept, nextRow, up>>
    BY DEF Grow, lockVars, history, Kept
<1>6. numPages' \in numPages .. MaxPages /\ x.page < numPages' /\ inited' \subseteq 0 .. numPages' - 1
    <2>1. numPages \in 0 .. MaxPages /\ MaxPages \in Nat /\ x.page \in Nat /\ inited \subseteq 0 .. numPages - 1
        BY HeapAssumption DEF HInv, HeapTypes, ThreadType
    <2>2. CASE x.page = numPages
      <3>1. numPages < MaxPages /\ numPages' = numPages + 1
        BY <1>1, <2>2 DEF Grow
      <3> QED
        BY <1>5, <2>1, <2>2, <3>1
    <2>3. CASE x.page # numPages
      <3>1. numPages' = numPages
        BY <1>1, <2>3 DEF Grow
      <3> QED
        BY <1>2, <1>5, <2>1, <2>3, <3>1
    <2> QED
        BY <2>2, <2>3
<1>7. up' => th'[Boot].pc = "rest"
    BY <1>2, <1>4, <1>5 DEF HInv, ThreadInv, BootInv, Threads
<1>8. up' \in BOOLEAN /\ hint' \in [Pages -> Nat] /\ tlock' \in [Txns -> Modes] /\ TablesShared' 
    BY <1>5 DEF HInv, HeapTypes, LockTypes, TablesShared, Compatible
<1>9. QuietStep(t)
    BY <1>1, <1>3, <1>4, <1>5, <1>6, <1>7, <1>8 DEF QuietStep
<1>10. Placed(t)'
    BY <1>1, <1>2, <1>3, <1>4, <1>5, <1>6, ThreadKnown DEF Placed
<1>11. ScanOK(t)'
    BY <1>3, <1>4 DEF ScanOK, Scanning
<1> QED
    BY <1>8, <1>9, <1>10, <1>11, QuietKeeps

\* A thread that ends its operation with an error flag of its own.
LEMMA RestedFailed ==
    ASSUME NEW x \in ThreadType, NEW e \in BOOLEAN
    PROVE  LET y == [Rested(x) EXCEPT !.err = e]
           IN  y \in ThreadType /\ y.pc = "rest" /\ y.ins = x.ins /\ y.dels = x.dels /\ Rested(y) = y
<1> DEFINE y == [Rested(x) EXCEPT !.err = e]
<1>1. Rest \in ThreadType
    BY DEF Rest, ThreadType, PCs
<1>2. PICK rx \in ThreadType : rx = Rested(x) /\ rx.pc = "rest" /\ rx.ins = x.ins /\ rx.dels = x.dels
    BY RestedFields
<1>3. y \in ThreadType /\ y.pc = "rest" /\ y.ins = x.ins /\ y.dels = x.dels /\ y.err = e
    BY <1>2 DEF ThreadType, PCs
<1>4. Rested(y) = [Rest EXCEPT !.ins = x.ins, !.dels = x.dels, !.err = e]
    BY <1>3, Zenon DEF Rested
<1>5. Rested(y) = y
    BY <1>1, <1>4 DEF Rested, ThreadType
<1> QED
    BY <1>3, <1>5

\* A thread that ends its operation with a list of insertions of its own.
LEMMA RestedInserted ==
    ASSUME NEW x \in ThreadType, NEW I \in SUBSET RIDs
    PROVE  LET y == [Rested(x) EXCEPT !.ins = I]
           IN  y \in ThreadType /\ y.pc = "rest" /\ y.ins = I /\ y.dels = x.dels /\ Rested(y) = y
<1> DEFINE y == [Rested(x) EXCEPT !.ins = I]
<1>1. Rest \in ThreadType
    BY DEF Rest, ThreadType, PCs
<1>2. PICK rx \in ThreadType : rx = Rested(x) /\ rx.pc = "rest" /\ rx.dels = x.dels /\ rx.err = x.err
    BY RestedFields
<1>3. y \in ThreadType /\ y.pc = "rest" /\ y.ins = I /\ y.dels = x.dels /\ y.err = x.err
    BY <1>2 DEF ThreadType, PCs
<1>4. Rested(y) = [Rest EXCEPT !.ins = I, !.dels = x.dels, !.err = x.err]
    BY <1>3, Zenon DEF Rested
<1>5. Rested(y) = y
    BY <1>1, <1>4 DEF Rested, ThreadType
<1> QED
    BY <1>3, <1>5

\* A statement that fails.
LEMMA FailKeeps ==
    ASSUME HInv, NEW t \in Threads, NEW e \in BOOLEAN, th' = [th EXCEPT ![t] = [Rested(@) EXCEPT !.err = e]],
           OnlyThread, hint' = hint
    PROVE  HInv'
<1>1. PICK x \in ThreadType : x = th[t]
    BY ThreadKnown
<1> DEFINE y == [Rested(x) EXCEPT !.err = e]
<1>2. y \in ThreadType /\ y.pc = "rest" /\ y.ins = x.ins /\ y.dels = x.dels /\ Rested(y) = y
    BY RestedFailed
<1>3. th' = [th EXCEPT ![t] = y]
    BY <1>1, ThreadKnown
<1> HIDE DEF y
<1>4. th'[t] = y
    BY <1>2, <1>3, ThreadUpdate, ThreadKnown
<1>5. Placed(t)'
    BY <1>2, <1>4, ThreadKnown DEF Placed, OnlyThread
<1>6. ScanOK(t)'
    BY <1>2, <1>4 DEF ScanOK, Scanning
<1>7. hint' \in [Pages -> Nat]
    BY DEF HInv, HeapTypes
<1> QED
    BY <1>1, <1>2, <1>3, <1>5, <1>6, <1>7, MoveKeeps

\* A page cannot be fetched: the operation ends.
LEMMA FetchFailsStep ==
    ASSUME HInv, NEW t \in Txns, FetchFails(t)
    PROVE  HInv'
<1>1. t \in Threads
    BY DEF Threads
<1>2. OnlyThread /\ hint' = hint
    BY DEF FetchFails, OnlyThread, diskVars, lockVars, Kept
<1>3. th' = [th EXCEPT ![t] = [Rested(@) EXCEPT !.err = TRUE]]
    BY DEF FetchFails
<1> QED
    BY <1>1, <1>2, <1>3, FailKeeps

\* A lock is refused: the operation ends.
LEMMA LockFailsStep ==
    ASSUME HInv, NEW t \in Threads, LockFails(t)
    PROVE  HInv'
<1>1. PICK e \in BOOLEAN : e = (tlock[t] # "none")
    OBVIOUS
<1>2. OnlyThread /\ hint' = hint
    BY DEF LockFails, OnlyThread, diskVars, lockVars, history, Kept
<1>3. th' = [th EXCEPT ![t] = [Rested(@) EXCEPT !.err = e]]
    BY <1>1 DEF LockFails
<1> QED
    BY <1>2, <1>3, FailKeeps

\* An iterator is created.
LEMMA ScanStep ==
    ASSUME HInv, NEW t \in Txns, NEW mode \in {"S", "X"}, Scan(t, mode)
    PROVE  HInv'
<1>0. t \in Threads /\ t # Boot
    BY HeapAssumption DEF Threads
<1>1. PICK x \in ThreadType : x = th[t]
    BY <1>0, ThreadKnown
<1>2. x.page = 0 /\ x.slot = -1 /\ x.res = {} /\ ~x.torn
    BY <1>0, <1>1, AtRest DEF Scan, Start
<1>3. numPages \in Nat /\ numPages > 0
    BY DEF HInv, HeapTypes, Scan
<1>4. PICK n \in Nat : n = numPages /\ n > 0
    BY <1>3
<1> DEFINE y == [x EXCEPT !.pc = "scan", !.np = n, !.mode = mode]
<1>5. /\ y \in ThreadType /\ y.pc = "scan" /\ y.page = x.page /\ y.slot = x.slot /\ y.res = x.res
      /\ y.np = n /\ y.torn = x.torn /\ y.ins = x.ins /\ y.dels = x.dels
    BY DEF ThreadType, PCs
<1>6. th' = [th EXCEPT ![t] = y]
    BY <1>0, <1>1, <1>4, ThreadKnown DEF Scan
<1> HIDE DEF y
<1>7. OnlyThread /\ hint' \in [Pages -> Nat] /\ up
    BY DEF Scan, Start, OnlyThread, diskVars, lockVars, history, Kept, HInv, HeapTypes
<1>8. th'[t] = y
    BY <1>0, <1>5, <1>6, ThreadUpdate, ThreadKnown
<1>9. Placed(t)'
    BY <1>0, <1>2, <1>4, <1>5, <1>7, <1>8 DEF Placed, OnlyThread
<1>10. ScanOK(t)'
    BY <1>2, <1>5, <1>8 DEF ScanOK, Scanning
<1> QED
    BY <1>0, <1>1, <1>5, <1>6, <1>7, <1>9, <1>10, MoveKeeps

\* Steps that leave the heap alone.
LEMMA StillStep ==
    ASSUME HInv, UNCHANGED <<numSlots, numPages, inited, hint, slot, tlock, xlock, th, up, Kept, nextRow>>
    PROVE  HInv'
<1> USE DEF HInv
<1>1. HeapTypes' /\ LockTypes'
    BY DEF HeapTypes, LockTypes
<1>2. RowInv' /\ LockInv' /\ TablesShared'
    BY DEF RowInv, CommittedFound, OneSlotPerRow, SlotOK, LockInv, Changed, Settled, Live, TablesShared, Compatible
<1>3. ThreadInv'
    BY DEF ThreadInv, BootInv, Placed
<1>4. ASSUME NEW t \in Threads PROVE ScanOK(t)'
    BY ScanUndisturbed DEF Live
<1> QED
    BY <1>1, <1>2, <1>3, <1>4 DEF ScanInv
-----------------------------------------------------------------------------
(* The iterator. *)

\* A transaction that may scan shuts out those that may change the table.
LEMMA ReadersExclude ==
    ASSUME NEW a \in Reading, NEW b \in Writing
    PROVE  ~Compatible(a, b) /\ ~Compatible(b, a)
BY DEF Reading, Writing, Compatible

\* Without locks of others, the live rows are the committed ones with the changes of t.
LEMMA OwnView ==
    ASSUME HInv, NEW t \in Txns, \A r \in RIDs : xlock[r] \in {None, t}
    PROVE  (Kept \cup RowsOf(th[t].ins)) \ RowsOf(th[t].dels) = LiveRows
<1> DEFINE E == (Kept \cup RowsOf(th[t].ins)) \ RowsOf(th[t].dels)
<1>0. t \in Threads /\ th[t].ins \subseteq RIDs /\ th[t].dels \subseteq RIDs
    BY ThreadKnown DEF Threads, ThreadType
<1>1. \A r \in RIDs : SlotOK(r) /\ Changed(t, r) /\ Settled(r) /\ slot[r] \in SlotType
    BY DEF HInv, RowInv, LockInv, HeapTypes
<1>2. \A r, q \in RIDs : slot[r].row = slot[q].row /\ slot[r].row > 0 => r = q
    BY DEF HInv, RowInv, OneSlotPerRow
<1>3. \A r \in RIDs : Live(r) => slot[r].row \notin RowsOf(th[t].dels)
    <2> SUFFICES ASSUME NEW r \in RIDs, Live(r), NEW q \in th[t].dels, slot[q].row = slot[r].row PROVE FALSE
        BY <1>0 DEF RowsOf
    <2>1. q \in RIDs /\ slot[q].del
        BY <1>0, <1>1 DEF Changed
    <2>2. slot[r].row > 0
        BY <1>1 DEF Live, SlotOK
    <2>3. q = r
        BY <1>2, <2>1, <2>2
    <2> QED
        BY <2>1, <2>3 DEF Live
<1>4. \A r \in RIDs : Live(r) => slot[r].row \in Kept \cup RowsOf(th[t].ins)
    BY <1>1 DEF Changed, Settled, RowsOf
<1>5. ASSUME NEW c \in E PROVE \E r \in RIDs : Live(r) /\ slot[r].row = c
    <2>1. PICK r \in RIDs : slot[r].row = c /\ (c \in Kept \/ r \in th[t].ins)
        BY <1>0, <1>5 DEF RowsOf, HInv, RowInv, CommittedFound
    <2>2. slot[r].alloc
        BY <1>1, <2>1 DEF SlotOK, Changed
    <2>3. r \notin th[t].dels
        BY <1>5, <2>1 DEF RowsOf
    <2>4. CASE xlock[r] = None
        BY <1>1, <2>1, <2>4, HeapAssumption DEF Settled, Changed
    <2>5. CASE xlock[r] = t
        BY <1>1, <2>2, <2>3, <2>1, <2>5 DEF Changed, Live
    <2> QED
        BY <2>4, <2>5
<1> QED
    BY <1>3, <1>4, <1>5 DEF LiveRows

\* A live slot is on a page of the file.
LEMMA LiveOnPages ==
    ASSUME HInv, NEW r \in RIDs, Live(r)
    PROVE  r[1] < numPages
<1>1. r[1] \in inited
    BY DEF HInv, RowInv, SlotOK, Live
<1>2. inited \subseteq 0 .. numPages - 1 /\ numPages \in Nat
    BY DEF HInv, HeapTypes
<1>3. \A p \in inited : p < numPages
    BY <1>2
<1> QED
    BY <1>1, <1>3, Zenon

\* The iterator gets its table lock, and so its target.
LEMMA ScanLockStep ==
    ASSUME HInv, NEW t \in Threads, ScanLock(t)
    PROVE  HInv'
<1>0. t \in Txns /\ t # Boot /\ th[t].pc = "scan"
    BY HeapAssumption DEF ScanLock
<1>1. PICK x \in ThreadType : x = th[t]
    BY ThreadKnown
<1>2. x.page = 0 /\ x.slot = -1 /\ x.res = {} /\ ~x.torn /\ x.mode \in {"S", "X"}
    BY <1>0, <1>1, ThreadKnown DEF ScanOK, ThreadType
<1>3. PICK late \in BOOLEAN : late = (numPages # x.np)
    OBVIOUS
<1>4. RowsOf(x.ins) \subseteq Nat /\ Kept \subseteq Nat
    BY DEF RowsOf, HInv, HeapTypes, SlotType, ThreadType
<1>5. PICK E \in SUBSET Nat : E = (Kept \cup RowsOf(x.ins)) \ RowsOf(x.dels)
    BY <1>4
<1> DEFINE y == [x EXCEPT !.pc = "open", !.late = late, !.exp = E]
<1>6. /\ y \in ThreadType /\ y.pc = "open" /\ y.page = x.page /\ y.slot = x.slot /\ y.res = x.res
      /\ y.torn = x.torn /\ y.ins = x.ins /\ y.dels = x.dels /\ y.late = late /\ y.exp = E /\ y.np = x.np
    BY DEF ThreadType, PCs
<1>7. th' = [th EXCEPT ![t] = y]
    BY <1>1, <1>3, <1>5, ThreadKnown DEF ScanLock
<1> HIDE DEF y
<1>8. UNCHANGED <<numSlots, numPages, inited, hint, slot, xlock, Kept, nextRow, up>>
      /\ AcquireLock(t, x.mode)
    BY <1>1 DEF ScanLock, diskVars, history, Kept
<1>9. th'[t] = y
    BY <1>6, <1>7, ThreadUpdate, ThreadKnown
<1>10. tlock'[t] \in Reading /\ TablesShared' /\ \A u \in Txns : u # t => tlock'[u] = tlock[u]
    BY <1>0, <1>2, <1>8, LockGranted
<1>11. \A u \in Txns : u # t => tlock[u] \notin Writing
    BY <1>0, <1>10, ReadersExclude DEF TablesShared
<1>12. \A r \in RIDs : xlock[r] \in {None, t}
    BY <1>11 DEF HInv, LockTypes, LockInv, Changed
<1>13. E = LiveRows
    BY <1>0, <1>1, <1>5, <1>12, OwnView
<1>14. Target(t)' = LiveRows'
    BY <1>0, <1>6, <1>8, <1>9, <1>13 DEF Target, LiveRows, Live
<1>15. ~th'[t].late => \A r \in RIDs : Live(r)' => r[1] < th'[t].np
    BY <1>3, <1>6, <1>8, <1>9, LiveOnPages DEF Live
<1>16. Passed(t)' = {}
    <2>1. \A r \in RIDs : r[1] \in Nat /\ r[2] \in Nat
        BY AddressParts DEF Pages, Slots
    <2> QED
        BY <1>2, <1>6, <1>9, <2>1 DEF Passed
<1>17. ScanOK(t)'
    BY <1>0, <1>2, <1>6, <1>9, <1>10, <1>14, <1>15, <1>16 DEF ScanOK, Scanning
<1>18. Placed(t)'
    BY <1>0, <1>1, <1>6, <1>8, <1>9, ThreadKnown DEF Placed
<1> QED
    BY <1>0, <1>1, <1>2, <1>6, <1>7, <1>8, <1>17, <1>18, LockMoveKeeps

\* A step of an iterator.
LEMMA IteratorKeeps ==
    ASSUME HInv, NEW t \in Threads, Scanning(t), NEW y \in ThreadType, th' = [th EXCEPT ![t] = y],
           OnlyThread, hint' \in [Pages -> Nat],
           y.ins = th[t].ins, y.dels = th[t].dels, y.exp = th[t].exp, y.late = th[t].late, y.np = th[t].np,
           y.pc \in {"open", "fill", "next"}, y.pc \in {"open", "fill"} => y.slot = -1,
           y.page < y.np,
           ~y.torn => y.res = {slot[r].row : r \in {q \in RIDs :
                                    Live(q) /\ (q[1] < y.page \/ (q[1] = y.page /\ q[2] <= y.slot))}}
    PROVE  HInv'
<1>1. th'[t] = y
    BY ThreadUpdate, ThreadKnown
<1>2. ScanOK(t) /\ Placed(t) /\ th[t].pc \in {"open", "fill", "next"}
    BY ThreadKnown DEF Scanning
<1>3. Placed(t)'
    BY <1>1, <1>2 DEF Placed, OnlyThread
<1>4. t \in Txns => tlock'[t] \in Reading
    BY <1>2 DEF ScanOK, Scanning, OnlyThread
<1>5. Target(t)' = LiveRows'
    BY <1>1, <1>2 DEF ScanOK, Scanning, OnlyThread, Target, LiveRows, Live
<1>6. ~th'[t].late => \A r \in RIDs : Live(r)' => r[1] < th'[t].np
    BY <1>1, <1>2 DEF ScanOK, Scanning, OnlyThread, Live
<1>7. ~th'[t].torn => th'[t].res = {slot'[r].row : r \in {q \in RIDs : Live(q)' /\ q \in Passed(t)'}}
    <2> SUFFICES ASSUME ~y.torn
                 PROVE  y.res = {slot'[r].row : r \in {q \in RIDs : Live(q)' /\ q \in Passed(t)'}}
        BY <1>1
    <2>1. \A q \in RIDs : q \in Passed(t)' <=> (q[1] < y.page \/ (q[1] = y.page /\ q[2] <= y.slot))
        BY <1>1 DEF Passed
    <2>2. \A q \in RIDs : (Live(q)' <=> Live(q)) /\ slot'[q].row = slot[q].row
        BY DEF Live, OnlyThread
    <2> QED
        BY <2>1, <2>2
<1>8. ScanOK(t)'
    BY <1>1, <1>4, <1>5, <1>6, <1>7 DEF ScanOK, Scanning
<1>9. ~(t = Boot /\ up)
    BY <1>2 DEF HInv, ThreadInv, BootInv
<1> QED
    BY <1>3, <1>8, <1>9, MoveKeeps

\* What an iterator has returned, its position spelled out.
LEMMA IteratorKnown ==
    ASSUME HInv, NEW t \in Threads, Scanning(t)
    PROVE  ~th[t].torn => th[t].res = {slot[r].row : r \in {q \in RIDs :
                  Live(q) /\ (q[1] < th[t].page \/ (q[1] = th[t].page /\ q[2] <= th[t].slot))}}
<1>1. ~th[t].torn => th[t].res = {slot[r].row : r \in {q \in RIDs : Live(q) /\ q \in Passed(t)}}
    BY ThreadKnown DEF ScanOK
<1>2. \A q \in RIDs : q \in Passed(t) <=> (q[1] < th[t].page \/ (q[1] = th[t].page /\ q[2] <= th[t].slot))
    BY DEF Passed
<1> QED
    BY <1>1, <1>2

\* An iterator that only goes on with the page it is on.
LEMMA TurnKeeps ==
    ASSUME HInv, NEW t \in Threads, Scanning(t), NEW p \in {"fill", "next"}, p = "fill" => th[t].pc = "open",
           th' = [th EXCEPT ![t].pc = p], OnlyThread, hint' \in [Pages -> Nat]
    PROVE  HInv'
<1>1. PICK x \in ThreadType : x = th[t]
    BY ThreadKnown
<1> DEFINE y == [x EXCEPT !.pc = p]
<1>2. /\ y \in ThreadType /\ y.pc = p /\ y.page = x.page /\ y.slot = x.slot /\ y.res = x.res
      /\ y.torn = x.torn /\ y.ins = x.ins /\ y.dels = x.dels /\ y.late = x.late /\ y.exp = x.exp /\ y.np = x.np
    BY DEF ThreadType, PCs
<1>3. th' = [th EXCEPT ![t] = y]
    BY <1>1, ThreadKnown
<1> HIDE DEF y
<1>4. y.pc \in {"open", "fill"} => y.slot = -1
    BY <1>1, <1>2, ThreadKnown DEF ScanOK
<1>5. ~y.torn => y.res = {slot[r].row : r \in {q \in RIDs :
                                    Live(q) /\ (q[1] < y.page \/ (q[1] = y.page /\ q[2] <= y.slot))}}
    BY <1>1, <1>2, IteratorKnown
<1>6. y.page < y.np
    BY <1>1, <1>2, ThreadKnown DEF Placed, Scanning
<1> QED
    BY <1>1, <1>2, <1>3, <1>4, <1>5, <1>6, IteratorKeeps

\* The iterator asks for the object of its page.
LEMMA OpenPageStep ==
    ASSUME HInv, NEW t \in Threads, OpenPage(t)
    PROVE  HInv'
<1>1. Scanning(t) /\ OnlyThread
    BY DEF OpenPage, Scanning, OnlyThread, lockVars, history, Kept
<1>2. hint' \in [Pages -> Nat]
    BY DEF OpenPage, HInv, HeapTypes
<1>3. th' = [th EXCEPT ![t].pc = "next"] \/ (th' = [th EXCEPT ![t].pc = "fill"] /\ th[t].pc = "open")
    BY DEF OpenPage
<1>4. CASE th' = [th EXCEPT ![t].pc = "next"]
    BY <1>1, <1>2, <1>4, TurnKeeps
<1>5. CASE th' = [th EXCEPT ![t].pc = "fill"] /\ th[t].pc = "open"
    BY <1>1, <1>2, <1>5, TurnKeeps
<1> QED
    BY <1>3, <1>4, <1>5

\* The fields of the page object are filled in.
LEMMA FillStep ==
    ASSUME HInv, NEW t \in Threads, Fill(t)
    PROVE  HInv'
<1>1. Scanning(t) /\ OnlyThread /\ hint' \in [Pages -> Nat] /\ th' = [th EXCEPT ![t].pc = "next"]
    BY DEF Fill, Scanning, OnlyThread, lockVars, history, Kept, HInv, HeapTypes
<1> QED
    BY <1>1, TurnKeeps

\* The iterator does not wait for them, and may skip the page: its scan is torn.
LEMMA OpenRaceStep ==
    ASSUME HInv, NEW t \in Threads, OpenRace(t)
    PROVE  HInv'
<1>1. Scanning(t) /\ OnlyThread /\ hint' \in [Pages -> Nat]
    BY DEF OpenRace, Scanning, OnlyThread, diskVars, lockVars, history, Kept, HInv, HeapTypes
<1>2. PICK x \in ThreadType : x = th[t]
    BY ThreadKnown
<1>3. PICK n \in {0, numSlots} :
        th' = [th EXCEPT ![t].pc = "next", ![t].torn = @ \/ n = 0, ![t].slot = IF n = 0 THEN numSlots - 1 ELSE @]
    BY DEF OpenRace
<1>4. PICK torn \in BOOLEAN : torn = (x.torn \/ n = 0)
    OBVIOUS
<1>5. PICK s \in Int : s = IF n = 0 THEN numSlots - 1 ELSE x.slot
    BY DEF ThreadType, HInv, HeapTypes
<1> DEFINE y == [x EXCEPT !.pc = "next", !.torn = torn, !.slot = s]
<1>6. /\ y \in ThreadType /\ y.pc = "next" /\ y.page = x.page /\ y.slot = s /\ y.res = x.res
      /\ y.torn = torn /\ y.ins = x.ins /\ y.dels = x.dels /\ y.late = x.late /\ y.exp = x.exp /\ y.np = x.np
    BY DEF ThreadType, PCs
<1>7. th' = [th EXCEPT ![t] = y]
    BY <1>2, <1>3, <1>4, <1>5, ThreadKnown
<1> HIDE DEF y
<1>8. ~torn => s = x.slot /\ ~x.torn
    BY <1>4, <1>5
<1>9. ~y.torn => y.res = {slot[r].row : r \in {q \in RIDs :
                                    Live(q) /\ (q[1] < y.page \/ (q[1] = y.page /\ q[2] <= y.slot))}}
    BY <1>1, <1>2, <1>6, <1>8, IteratorKnown
<1>10. y.page < y.np
    BY <1>1, <1>2, <1>6, ThreadKnown DEF Placed, Scanning
<1> QED
    BY <1>1, <1>2, <1>6, <1>7, <1>9, <1>10, IteratorKeeps

\* An iterator is on a page of the file.
LEMMA OnPage ==
    ASSUME HInv, NEW t \in Threads, Scanning(t)
    PROVE  th[t].page \in Pages
<1>1. th[t].page < th[t].np /\ th[t].np <= numPages
    BY ThreadKnown DEF Placed, Scanning
<1>2. th[t].page \in Nat /\ th[t].np \in Nat /\ numPages \in Nat /\ numPages <= MaxPages /\ MaxPages \in Nat
    BY ThreadKnown, HeapAssumption DEF ThreadType, HInv, HeapTypes
<1> QED
    BY <1>1, <1>2 DEF Pages

\* The iterator returns a tuple.
LEMMA NextTupleStep ==
    ASSUME HInv, NEW t \in Threads, NextTuple(t)
    PROVE  HInv'
<1>1. Scanning(t) /\ OnlyThread /\ hint' \in [Pages -> Nat]
    BY DEF NextTuple, Scanning, OnlyThread, diskVars, lockVars, history, Kept, HInv, HeapTypes
<1>2. PICK x \in ThreadType : x = th[t] /\ x.pc = "next"
    BY ThreadKnown DEF NextTuple
<1>3. PICK s : s = Min(Ahead(t))
    OBVIOUS
<1>4. Ahead(t) \subseteq Slots /\ Slots \subseteq Nat /\ Ahead(t) # {}
    <2>1. Ahead(t) # {}
        BY DEF NextTuple
    <2>2. Ahead(t) \subseteq Slots
        BY DEF Ahead
    <2>3. Slots \subseteq Nat
        BY DEF Slots
    <2> QED
        BY <2>1, <2>2, <2>3
<1>5. s \in Ahead(t) /\ \A k \in Ahead(t) : s <= k
    BY <1>3, <1>4, LeastElement
<1>6. s \in Slots /\ s \in Int /\ x.slot \in Int /\ x.slot < s /\ Live(<<x.page, s>>)
    <2>0. s \in Slots /\ s \in Nat
        BY <1>4, <1>5, Zenon
    <2>1. s \in Slots /\ s \in Int
        BY <2>0
    <2>2. x.slot < s /\ Live(<<x.page, s>>)
        BY <1>2, <1>5 DEF Ahead
    <2>3. x.slot \in Int
        BY DEF ThreadType
    <2> QED
        BY <2>1, <2>2, <2>3
<1>7. <<x.page, s>> \in RIDs
    BY <1>1, <1>2, <1>6, OnPage DEF RIDs
<1>8. slot[<<x.page, s>>].row \in Nat
    BY <1>7 DEF HInv, HeapTypes, SlotType
<1>9. PICK res \in SUBSET Nat : res = x.res \cup {slot[<<x.page, s>>].row}
    BY <1>8 DEF ThreadType
<1> DEFINE y == [x EXCEPT !.slot = s, !.res = res]
<1>10. /\ y \in ThreadType /\ y.pc = "next" /\ y.page = x.page /\ y.slot = s /\ y.res = res
      /\ y.torn = x.torn /\ y.ins = x.ins /\ y.dels = x.dels /\ y.late = x.late /\ y.exp = x.exp /\ y.np = x.np
    BY <1>2, <1>6 DEF ThreadType, PCs
<1>11. th' = [th EXCEPT ![t] = y]
    BY <1>2, <1>3, <1>9, ThreadKnown DEF NextTuple
<1> HIDE DEF y
<1>12. \A q \in RIDs : Live(q) =>
        ((q[1] < y.page \/ (q[1] = y.page /\ q[2] <= y.slot))
           <=> ((q[1] < x.page \/ (q[1] = x.page /\ q[2] <= x.slot)) \/ q = <<x.page, s>>))
    <2> SUFFICES ASSUME NEW q \in RIDs, Live(q), q[1] = x.page
                 PROVE  q[2] <= s <=> (q[2] <= x.slot \/ q[2] = s)
        BY <1>6, <1>10, AddressParts
    <2>1. q[2] \in Slots /\ q[2] \in Nat /\ q = <<x.page, q[2]>>
        BY <1>4, AddressParts
    <2>2. q[2] > x.slot => q[2] \in Ahead(t)
        BY <1>2, <2>1 DEF Ahead
    <2> QED
        BY <1>5, <1>6, <2>1, <2>2
<1>13. Live(<<x.page, s>>) /\ <<x.page, s>> \in RIDs
    BY <1>6, <1>7
<1>14. ~y.torn => y.res = {slot[r].row : r \in {q \in RIDs :
                                    Live(q) /\ (q[1] < y.page \/ (q[1] = y.page /\ q[2] <= y.slot))}}
    <2> DEFINE P(q) == q[1] < x.page \/ (q[1] = x.page /\ q[2] <= x.slot)
               Q(q) == q[1] < y.page \/ (q[1] = y.page /\ q[2] <= y.slot)
    <2>1. \A q \in RIDs : Live(q) => (Q(q) <=> (P(q) \/ q = <<x.page, s>>))
        BY <1>12
    <2>2. ~x.torn => x.res = {slot[r].row : r \in {q \in RIDs : Live(q) /\ P(q)}}
        BY <1>1, <1>2, IteratorKnown
    <2> HIDE DEF P, Q
    <2>3. ~x.torn => res = {slot[r].row : r \in {q \in RIDs : Live(q) /\ Q(q)}}
        BY <1>9, <1>13, <2>1, <2>2
    <2> QED
        BY <1>10, <2>3 DEF Q
<1>15. y.page < y.np
    BY <1>1, <1>2, <1>10, ThreadKnown DEF Placed, Scanning
<1> QED
    BY <1>1, <1>2, <1>10, <1>11, <1>14, <1>15, IteratorKeeps

\* The iterator goes on to the next page.
LEMMA NextPageStep ==
    ASSUME HInv, NEW t \in Threads, NextPage(t)
    PROVE  HInv'
<1>1. Scanning(t) /\ OnlyThread /\ hint' \in [Pages -> Nat]
    BY DEF NextPage, Scanning, OnlyThread, diskVars, lockVars, history, Kept, HInv, HeapTypes
<1>2. PICK x \in ThreadType : x = th[t] /\ x.pc = "next"
    BY ThreadKnown DEF NextPage
<1>3. x.page \in Nat /\ x.slot \in Int
    BY DEF ThreadType
<1>4. PICK p \in Nat, m \in Int : p = x.page + 1 /\ m = -1
    BY <1>3
<1> DEFINE y == [x EXCEPT !.pc = "open", !.page = p, !.slot = m]
<1>5. /\ y \in ThreadType /\ y.pc = "open" /\ y.page = p /\ y.slot = -1 /\ y.res = x.res
      /\ y.torn = x.torn /\ y.ins = x.ins /\ y.dels = x.dels /\ y.late = x.late /\ y.exp = x.exp /\ y.np = x.np
    BY <1>4 DEF ThreadType, PCs
<1>6. th' = [th EXCEPT ![t] = y]
    BY <1>2, <1>4, ThreadKnown DEF NextPage
<1> HIDE DEF y
<1>7. \A q \in RIDs : Live(q) =>
        ((q[1] < y.page \/ (q[1] = y.page /\ q[2] <= y.slot))
           <=> (q[1] < x.page \/ (q[1] = x.page /\ q[2] <= x.slot)))
    <2> SUFFICES ASSUME NEW q \in RIDs, Live(q)
                 PROVE  (q[1] < p \/ (q[1] = p /\ q[2] <= -1))
                          <=> (q[1] < x.page \/ (q[1] = x.page /\ q[2] <= x.slot))
        BY <1>5
    <2>1. PICK a \in Nat, b \in Slots : q = <<a, b>> /\ a = q[1] /\ b = q[2]
        BY AddressParts DEF Pages
    <2>2. b \in Nat
        BY DEF Slots
    <2>3. a = x.page => b <= x.slot
        BY <1>2, <1>3, <2>1, <2>2 DEF Ahead, NextPage
    <2> QED
        BY <1>3, <1>4, <2>1, <2>2, <2>3
<1>8. ~y.torn => y.res = {slot[r].row : r \in {q \in RIDs :
                                    Live(q) /\ (q[1] < y.page \/ (q[1] = y.page /\ q[2] <= y.slot))}}
    <2> DEFINE P(q) == q[1] < x.page \/ (q[1] = x.page /\ q[2] <= x.slot)
               Q(q) == q[1] < y.page \/ (q[1] = y.page /\ q[2] <= y.slot)
    <2>1. \A q \in RIDs : Live(q) => (Q(q) <=> P(q))
        BY <1>7
    <2>2. ~x.torn => x.res = {slot[r].row : r \in {q \in RIDs : Live(q) /\ P(q)}}
        BY <1>1, <1>2, IteratorKnown
    <2> HIDE DEF P, Q
    <2>3. ~x.torn => x.res = {slot[r].row : r \in {q \in RIDs : Live(q) /\ Q(q)}}
        BY <2>1, <2>2
    <2> QED
        BY <1>5, <2>3 DEF Q
<1>9. y.page < y.np
    BY <1>2, <1>4, <1>5 DEF NextPage
<1> QED
    BY <1>1, <1>2, <1>5, <1>6, <1>8, <1>9, IteratorKeeps

\* The iterator is at its end.
LEMMA CloseStep ==
    ASSUME HInv, NEW t \in Threads, Close(t)
    PROVE  HInv'
<1>1. PICK x \in ThreadType : x = th[t]
    BY ThreadKnown
<1>2. PICK y \in ThreadType : y = Rested(x) /\ y.pc = "rest" /\ y.ins = x.ins /\ y.dels = x.dels /\ Rested(y) = y
    BY RestedFields
<1>3. th' = [th EXCEPT ![t] = y]
    BY <1>1, <1>2, ThreadKnown DEF Close
<1>4. th' \in [Threads -> ThreadType] /\ th'[t] = y /\ \A u \in Threads : u # t => th'[u] = th[u]
    BY <1>3, ThreadUpdate, ThreadKnown
<1>5. UNCHANGED <<numSlots, numPages, inited, hint, slot, tlock, xlock, Kept, nextRow>>
    BY DEF Close, diskVars, lockVars, history, Kept
<1>6. up' \in BOOLEAN /\ (up => up') /\ (t # Boot => up' = up)
    BY DEF Close, HInv, HeapTypes
<1>7. up' => th'[Boot].pc = "rest"
    BY <1>2, <1>4, <1>6 DEF HInv, ThreadInv, BootInv, Threads
<1>8. inited' \subseteq 0 .. numPages' - 1 /\ numPages' \in numPages .. MaxPages
    BY <1>5, HeapAssumption DEF HInv, HeapTypes
<1>9. hint' \in [Pages -> Nat] /\ tlock' \in [Txns -> Modes] /\ TablesShared'
    BY <1>5 DEF HInv, HeapTypes, LockTypes, TablesShared, Compatible
<1>10. QuietStep(t)
    BY <1>1, <1>2, <1>4, <1>5, <1>6, <1>7, <1>8, <1>9 DEF QuietStep
<1>11. Placed(t)'
    BY <1>2, <1>4, <1>5, <1>6, ThreadKnown DEF Placed
<1>12. ScanOK(t)'
    BY <1>2, <1>4 DEF ScanOK, Scanning
<1> QED
    BY <1>9, <1>10, <1>11, <1>12, QuietKeeps
-----------------------------------------------------------------------------
(* Steps that change slots. *)

\* The live slots and their rows are the same after the step.
SameLive == \A r \in RIDs : (Live(r)' <=> Live(r)) /\ (Live(r) => slot'[r].row = slot[r].row)

\* Nobody scans while a transaction may change the table.
LEMMA NobodyScans ==
    ASSUME HInv, NEW t \in Txns, tlock[t] \in Writing, NEW u \in Threads, u # t
    PROVE  ~Scanning(u)
<1> SUFFICES ASSUME Scanning(u) PROVE FALSE
    OBVIOUS
<1>1. t \in Threads /\ tlock[t] # "none"
    BY DEF Threads, Writing
<1>2. up
    BY <1>1, ThreadKnown DEF Placed
<1>3. u # Boot
    BY <1>2 DEF HInv, ThreadInv, BootInv, Scanning
<1>4. u \in Txns /\ tlock[u] \in Reading
    BY <1>3, ThreadKnown DEF Threads, ScanOK
<1> QED
    BY <1>4, ReadersExclude DEF HInv, TablesShared

\* A step of a transaction that ends in a state of rest, and that no iterator notices.
LEMMA ChangeKeeps ==
    ASSUME HInv, NEW t \in Txns, HeapTypes', LockTypes', RowInv', LockInv', TablesShared',
           \A u \in Threads : u # t => th'[u] = th[u], \A u \in Txns : u # t => tlock'[u] = tlock[u],
           up' = up, numPages' = numPages, Rested(th'[t]) = th'[t], th'[t].pc = "rest",
           ~up => tlock'[t] = "none",
           \A u \in Threads : u # t => ~Scanning(u) \/ (SameLive /\ Kept' = Kept)
    PROVE  HInv'
<1>0. Boot \in Threads /\ Boot # t
    BY HeapAssumption DEF Threads
<1>1. ASSUME NEW u \in Threads PROVE Placed(u)'
    <2>1. CASE u = t
        BY <2>1 DEF Placed
    <2>2. CASE u # t
        BY <2>2, ThreadKnown DEF Placed
    <2> QED
        BY <2>1, <2>2
<1>2. BootInv'
    BY <1>0 DEF BootInv, HInv, ThreadInv
<1>3. ASSUME NEW u \in Threads PROVE ScanOK(u)'
    <2>1. CASE u = t
        BY <2>1 DEF ScanOK, Scanning
    <2>2. CASE u # t /\ ~Scanning(u)
      <3>1. th'[u] = th[u] /\ ScanOK(u)
        BY <2>2, ThreadKnown
      <3> QED
        BY <2>2, <3>1 DEF ScanOK, Scanning
    <2>3. CASE u # t /\ SameLive /\ Kept' = Kept
      <3>1. th'[u] = th[u] /\ (u \in Txns => tlock'[u] = tlock[u])
        BY <2>3
      <3> QED
        BY <2>3, <3>1, ScanUndisturbed DEF SameLive
    <2> QED
        BY <2>1, <2>2, <2>3
<1> QED
    BY <1>1, <1>2, <1>3 DEF HInv, ThreadInv, ScanInv

\* A slot that is not allocated is not locked either.
LEMMA FreeIsUnlocked ==
    ASSUME HInv, NEW r \in RIDs, ~slot[r].alloc
    PROVE  /\ xlock[r] = None /\ slot[r].del = FALSE /\ slot[r].row \notin Kept
           /\ \A t \in Txns : r \notin th[t].ins /\ r \notin th[t].dels
<1>1. SlotOK(r) /\ slot[r] \in SlotType /\ xlock[r] \in Txns \cup {None} /\ \A t \in Txns : Changed(t, r)
    BY DEF HInv, RowInv, LockInv, HeapTypes, LockTypes
<1>2. ~slot[r].del /\ slot[r].row \notin Kept
    BY <1>1 DEF SlotOK
<1>3. \A t \in Txns : r \notin th[t].ins /\ r \notin th[t].dels
    BY <1>1, <1>2 DEF Changed
<1>4. slot[r].del = FALSE
    BY <1>1, <1>2 DEF SlotType
<1> QED
    BY <1>1, <1>2, <1>3, <1>4 DEF Changed

\* A full page sends the insertion to the next one.
LEMMA PageFull ==
    ASSUME HInv, NEW t \in Threads, th[t].pc = "fetch", inited' = inited \cup {th[t].page},
           hint' \in [Pages -> Nat], th' = [th EXCEPT ![t].pc = "grow", ![t].page = th[t].page + 1],
           UNCHANGED <<slot, xlock, nextRow, numSlots, numPages, tlock, up, Kept>>
    PROVE  HInv'
<1>1. PICK x \in ThreadType : x = th[t]
    BY ThreadKnown
<1>2. t \in Txns /\ t # Boot /\ tlock[t] \in Writing /\ x.page < numPages /\ x.page \in Nat
    BY <1>1, ThreadKnown, HeapAssumption DEF Placed, ThreadType
<1>3. PICK p \in Nat : p = x.page + 1
    BY <1>2
<1> DEFINE y == [x EXCEPT !.pc = "grow", !.page = p]
<1>4. y \in ThreadType /\ y.pc = "grow" /\ y.page = p /\ y.ins = x.ins /\ y.dels = x.dels
    BY DEF ThreadType, PCs
<1>5. th' = [th EXCEPT ![t] = y]
    BY <1>1, <1>3, ThreadKnown
<1> HIDE DEF y
<1>6. th' \in [Threads -> ThreadType] /\ th'[t] = y /\ \A u \in Threads : u # t => th'[u] = th[u]
    BY <1>4, <1>5, ThreadUpdate, ThreadKnown
<1>7. numPages \in 0 .. MaxPages /\ MaxPages \in Nat /\ inited \subseteq 0 .. numPages - 1
    BY HeapAssumption DEF HInv, HeapTypes
<1>8. inited' \subseteq 0 .. numPages' - 1 /\ numPages' \in numPages .. MaxPages /\ p <= numPages'
    BY <1>1, <1>2, <1>3, <1>7
<1>9. up' => th'[Boot].pc = "rest"
    BY <1>2, <1>6 DEF HInv, ThreadInv, BootInv, Threads
<1>10. up' \in BOOLEAN /\ tlock' \in [Txns -> Modes] /\ TablesShared'
    BY DEF HInv, HeapTypes, LockTypes, TablesShared, Compatible
<1>11. QuietStep(t)
    BY <1>1, <1>4, <1>6, <1>8, <1>9, <1>10 DEF QuietStep
<1>12. Placed(t)'
    BY <1>1, <1>2, <1>4, <1>6, <1>8, ThreadKnown DEF Placed
<1>13. ScanOK(t)'
    BY <1>4, <1>6 DEF ScanOK, Scanning
<1> QED
    BY <1>10, <1>11, <1>12, <1>13, QuietKeeps

\* A new tuple in a free slot.
LEMMA SlotFilled ==
    ASSUME HInv, NEW t \in Txns, th[t].pc = "fetch", NEW r \in RIDs, ~slot[r].alloc,
           r[1] = th[t].page, r[2] < numSlots,
           inited' = inited \cup {th[t].page}, hint' \in [Pages -> Nat],
           xlock' = [xlock EXCEPT ![r] = t],
           slot' = [slot EXCEPT ![r].alloc = TRUE, ![r].row = nextRow],
           nextRow' = nextRow + 1,
           th' = [th EXCEPT ![t] = [Rested(@) EXCEPT !.ins = th[t].ins \cup {r}]],
           UNCHANGED <<numSlots, numPages, tlock, up, Kept>>
    PROVE  HInv'
<1>0. t \in Threads /\ t # Boot
    BY HeapAssumption DEF Threads
<1>1. PICK x \in ThreadType : x = th[t] /\ x.ins \in SUBSET RIDs
    BY <1>0, ThreadKnown DEF ThreadType
<1>2. PICK I \in SUBSET RIDs : I = x.ins \cup {r}
    BY <1>1
<1> DEFINE y == [Rested(x) EXCEPT !.ins = I]
<1>3. y \in ThreadType /\ y.pc = "rest" /\ y.ins = I /\ y.dels = x.dels /\ Rested(y) = y
    BY RestedInserted
<1>4. th' = [th EXCEPT ![t] = y]
    BY <1>0, <1>1, <1>2, ThreadKnown
<1> HIDE DEF y
<1>5. th' \in [Threads -> ThreadType] /\ th'[t] = y /\ \A u \in Threads : u # t => th'[u] = th[u]
    BY <1>0, <1>3, <1>4, ThreadUpdate, ThreadKnown
<1>6. tlock[t] \in Writing /\ x.page < numPages /\ x.page \in Nat /\ numPages \in Nat
    BY <1>0, <1>1, ThreadKnown DEF Placed, ThreadType, HInv, HeapTypes
<1>7. nextRow \in Nat \ {0} /\ Kept \subseteq 1 .. nextRow - 1 /\ slot \in [RIDs -> SlotType]
    BY DEF HInv, HeapTypes
<1>8. /\ slot' \in [RIDs -> SlotType]
      /\ slot'[r].alloc = TRUE /\ slot'[r].row = nextRow /\ slot'[r].del = slot[r].del
      /\ \A q \in RIDs : q # r => slot'[q] = slot[q]
    BY <1>7 DEF SlotType
<1>9. /\ xlock' \in [RIDs -> Txns \cup {None}] /\ xlock'[r] = t
      /\ \A q \in RIDs : q # r => xlock'[q] = xlock[q]
    BY DEF HInv, LockTypes
<1>10. HeapTypes'
    <2>1. inited' \subseteq 0 .. numPages' - 1
        BY <1>1, <1>6 DEF HInv, HeapTypes
    <2>2. nextRow' \in Nat \ {0} /\ Kept' \subseteq 1 .. nextRow' - 1
        BY <1>7
    <2>3. numSlots' \in 1 .. MaxSlots /\ numPages' \in 0 .. MaxPages /\ up' \in BOOLEAN
        BY DEF HInv, HeapTypes
    <2> QED
        BY <1>8, <2>1, <2>2, <2>3 DEF HeapTypes
<1>11. LockTypes'
    BY <1>5, <1>9 DEF HInv, LockTypes
<1>12. slot[r].del = FALSE /\ slot[r].row \notin Kept /\ xlock[r] = None
       /\ \A u \in Txns : r \notin th[u].ins /\ r \notin th[u].dels
    BY FreeIsUnlocked
<1>13. \A q \in RIDs : SlotOK(q) /\ slot[q].row \in Nat
    BY <1>7 DEF HInv, RowInv, SlotType
<1>14. nextRow \notin Kept /\ \A q \in RIDs : slot[q].row # nextRow
    BY <1>7, <1>13 DEF SlotOK
<1>15. ASSUME NEW q \in RIDs PROVE SlotOK(q)'
    <2>1. CASE q = r
        BY <2>1, <1>1, <1>7, <1>8, <1>12, <1>14 DEF SlotOK
    <2>2. CASE q # r
        BY <2>2, <1>7, <1>8, <1>13 DEF SlotOK
    <2> QED
        BY <2>1, <2>2
<1>16. OneSlotPerRow'
    <2> SUFFICES ASSUME NEW a \in RIDs, NEW b \in RIDs, slot'[a].row = slot'[b].row, slot'[a].row > 0 PROVE a = b
        BY DEF OneSlotPerRow
    <2>1. CASE a = r \/ b = r
        BY <2>1, <1>8, <1>14
    <2>2. CASE a # r /\ b # r
        BY <2>2, <1>8 DEF HInv, RowInv, OneSlotPerRow
    <2> QED
        BY <2>1, <2>2
<1>17. CommittedFound'
    BY <1>8, <1>12 DEF HInv, RowInv, CommittedFound
<1>18. RowInv'
    BY <1>15, <1>16, <1>17 DEF RowInv
<1>19. ASSUME NEW u \in Txns, NEW q \in RIDs PROVE Changed(u, q)'
    <2>1. Changed(u, q) /\ u \in Threads
        BY DEF HInv, LockInv, Threads
    <2>2. CASE q # r /\ u # t
        BY <2>1, <2>2, <1>5, <1>8, <1>9 DEF Changed
    <2>3. CASE q # r /\ u = t
      <3>1. (q \in th'[u].ins <=> q \in th[u].ins) /\ (q \in th'[u].dels <=> q \in th[u].dels)
        <4>1. th'[u].ins = th[u].ins \cup {r} /\ th'[u].dels = th[u].dels
            BY <2>3, <1>1, <1>2, <1>3, <1>5, Zenon
        <4> QED
            BY <2>3, <4>1, Zenon
      <3> QED
        BY <2>1, <2>3, <3>1, <1>8, <1>9 DEF Changed
    <2>4. CASE q = r /\ u # t
        BY <2>1, <2>4, <1>5, <1>8, <1>9, <1>12 DEF Changed
    <2>5. CASE q = r /\ u = t
      <3>1. r \in th'[t].ins /\ r \notin th'[t].dels
        BY <1>1, <1>2, <1>3, <1>5, <1>12
      <3> QED
        BY <2>5, <3>1, <1>6, <1>8, <1>9, <1>12, <1>14 DEF Changed
    <2> QED
        BY <2>2, <2>3, <2>4, <2>5
<1>20. ASSUME NEW q \in RIDs PROVE Settled(q)'
    <2>1. CASE q = r
        BY <2>1, <1>9, HeapAssumption DEF Settled
    <2>2. CASE q # r
        BY <2>2, <1>8, <1>9 DEF HInv, LockInv, Settled, Live
    <2> QED
        BY <2>1, <2>2
<1>21. LockInv'
    BY <1>19, <1>20 DEF LockInv
<1>22. TablesShared'
    BY DEF HInv, TablesShared, Compatible
<1>23. \A u \in Threads : u # t => ~Scanning(u)
    BY <1>6, NobodyScans
<1>24. up
    BY <1>0, <1>6, ThreadKnown DEF Placed, Writing
<1> QED
    BY <1>3, <1>5, <1>10, <1>11, <1>18, <1>21, <1>22, <1>23, <1>24, ChangeKeeps

\* InsertTuple takes a free slot, a new row in a slot nobody has locked.
LEMMA TakeSlotStep ==
    ASSUME HInv, NEW t \in Threads, TakeSlot(t)
    PROVE  HInv'
<1>1. th[t].pc = "fetch" /\ t \in Txns
    BY ThreadKnown DEF TakeSlot, Placed
<1>2. PICK p \in Nat : p = th[t].page /\ p < numPages
    BY <1>1, ThreadKnown DEF Placed, ThreadType
<1>3. numSlots \in 1 .. MaxSlots /\ numPages \in 0 .. MaxPages /\ MaxPages \in Nat /\ MaxSlots \in Nat
      /\ hint \in [Pages -> Nat]
    BY HeapAssumption DEF HInv, HeapTypes
<1>4. p \in Pages /\ hint[p] \in Nat
    BY <1>2, <1>3 DEF Pages
<1> DEFINE used == {s \in Slots : slot[<<p, s>>].alloc}
<1>5. PICK i : i = FindFirstZero(used, hint[p])
    OBVIOUS
<1>6. i = -1 \/ i \in (0 .. numSlots - 1) \ used
    <2>1. numSlots \in Nat
        BY <1>3
    <2> QED
        BY <1>4, <1>5, <2>1, FoundIsFree, Zenon
<1>7. (i + 1) % numSlots \in Nat
    BY <1>3, <1>6
<1>8. /\ inited' = inited \cup {th[t].page} /\ hint' = [hint EXCEPT ![p] = (i + 1) % numSlots]
      /\ UNCHANGED <<numSlots, numPages, tlock, up, Kept>>
    BY <1>2, <1>5 DEF TakeSlot, Kept
<1>9. hint' \in [Pages -> Nat]
    BY <1>3, <1>7, <1>8
<1>10. CASE i = -1
  <2>1. th' = [th EXCEPT ![t].pc = "grow", ![t].page = th[t].page + 1] /\ UNCHANGED <<slot, xlock, nextRow>>
    BY <1>2, <1>5, <1>10 DEF TakeSlot
  <2> QED
    BY <1>1, <1>8, <1>9, <2>1, PageFull
<1>11. CASE i # -1
  <2>1. PICK r : r = <<p, i>>
    OBVIOUS
  <2>2. i \in 0 .. numSlots - 1 /\ i \notin used
    BY <1>6, <1>11
  <2>3. i \in Slots /\ i < numSlots
    BY <1>3, <2>2 DEF Slots
  <2>4. r \in RIDs /\ r[1] = p /\ r[2] = i /\ ~slot[r].alloc
    BY <1>4, <2>1, <2>2, <2>3, SMTT(30) DEF RIDs
  <2>5. /\ xlock' = [xlock EXCEPT ![r] = t]
        /\ slot' = [slot EXCEPT ![r].alloc = TRUE, ![r].row = nextRow]
        /\ nextRow' = nextRow + 1
        /\ th' = [th EXCEPT ![t] = [Rested(@) EXCEPT !.ins = th[t].ins \cup {r}]]
    BY <1>2, <1>5, <1>11, <2>1 DEF TakeSlot
  <2> QED
    BY <1>1, <1>2, <1>8, <1>9, <2>3, <2>4, <2>5, SlotFilled
<1> QED
    BY <1>10, <1>11, SMTT(30)

\* A thread at rest with a list of deletions of its own.
LEMMA RestedDeleted ==
    ASSUME NEW x \in ThreadType, x = Rested(x), NEW D \in SUBSET RIDs
    PROVE  LET y == [x EXCEPT !.dels = D]
           IN  y \in ThreadType /\ y.pc = "rest" /\ y.ins = x.ins /\ y.dels = D /\ Rested(y) = y
<1> DEFINE y == [x EXCEPT !.dels = D]
<1>1. Rest \in ThreadType
    BY DEF Rest, ThreadType, PCs
<1>2. x.pc = "rest"
    BY RestedFields
<1>3. y \in ThreadType /\ y.pc = "rest" /\ y.ins = x.ins /\ y.dels = D /\ y.err = x.err
    BY <1>2 DEF ThreadType, PCs
<1>4. Rested(y) = [Rest EXCEPT !.ins = x.ins, !.dels = D, !.err = x.err]
    BY <1>3, Zenon DEF Rested
<1>5. y = [Rested(x) EXCEPT !.dels = D]
    BY Zenon
<1>6. Rested(y) = y
    <2> HIDE DEF y
    <2> QED
        BY <1>1, <1>4, <1>5 DEF Rested, ThreadType
<1> QED
    BY <1>3, <1>6

\* DeleteTuple marks a live slot it has locked.
LEMMA DeleteTupleStep ==
    ASSUME HInv, NEW t \in Txns, DeleteTuple(t)
    PROVE  HInv'
<1>0. t \in Threads /\ t # Boot
    BY HeapAssumption DEF Threads
<1>1. PICK r \in RIDs :
        /\ Live(r) /\ xlock[r] \in {None, t} /\ AcquireLock(t, "IX")
        /\ xlock' = [xlock EXCEPT ![r] = t]
        /\ slot' = [slot EXCEPT ![r].del = TRUE]
        /\ th' = [th EXCEPT ![t].dels = @ \cup {r}]
    BY DEF DeleteTuple
<1>2. up /\ UNCHANGED <<numSlots, numPages, inited, hint, up, nextRow, Kept>> /\ th[t].pc = "rest"
    BY DEF DeleteTuple, Start, history, Kept
<1>3. PICK x \in ThreadType : x = th[t] /\ x = Rested(x) /\ x.dels \in SUBSET RIDs
    BY <1>0, <1>2, ThreadKnown DEF Placed, ThreadType
<1>4. PICK D \in SUBSET RIDs : D = x.dels \cup {r}
    BY <1>3
<1> DEFINE y == [x EXCEPT !.dels = D]
<1>5. y \in ThreadType /\ y.pc = "rest" /\ y.ins = x.ins /\ y.dels = D /\ Rested(y) = y
    BY <1>3, RestedDeleted
<1>6. th' = [th EXCEPT ![t] = y]
    BY <1>0, <1>1, <1>3, <1>4, ThreadKnown
<1> HIDE DEF y
<1>7. th' \in [Threads -> ThreadType] /\ th'[t] = y /\ \A u \in Threads : u # t => th'[u] = th[u]
    BY <1>0, <1>5, <1>6, ThreadUpdate, ThreadKnown
<1>8. slot \in [RIDs -> SlotType]
    BY DEF HInv, HeapTypes
<1>9. /\ slot' \in [RIDs -> SlotType]
      /\ slot'[r].del = TRUE /\ slot'[r].row = slot[r].row /\ slot'[r].alloc = slot[r].alloc
      /\ \A q \in RIDs : q # r => slot'[q] = slot[q]
    BY <1>1, <1>8 DEF SlotType
<1>10. /\ xlock' \in [RIDs -> Txns \cup {None}] /\ xlock'[r] = t
       /\ \A q \in RIDs : q # r => xlock'[q] = xlock[q]
    BY <1>1 DEF HInv, LockTypes
<1>11. /\ tlock' \in [Txns -> Modes] /\ \A u \in Txns : u # t => tlock'[u] = tlock[u]
       /\ tlock'[t] \in Writing /\ TablesShared'
    BY <1>1, LockGranted
<1>12. HeapTypes'
    BY <1>2, <1>9 DEF HInv, HeapTypes
<1>13. LockTypes'
    BY <1>7, <1>10, <1>11 DEF LockTypes
<1>14. \A q \in RIDs : slot'[q].row = slot[q].row /\ slot'[q].alloc = slot[q].alloc
    BY <1>9
<1>15. ASSUME NEW q \in RIDs PROVE SlotOK(q)'
    <2>1. SlotOK(q)
        BY DEF HInv, RowInv
    <2>2. slot'[q].del => slot'[q].alloc
        BY <1>1, <1>9, <2>1 DEF SlotOK, Live
    <2> QED
        BY <1>2, <1>14, <2>1, <2>2 DEF SlotOK
<1>16. RowInv'
    BY <1>2, <1>14, <1>15 DEF HInv, RowInv, OneSlotPerRow, CommittedFound
<1>17. ASSUME NEW u \in Txns, NEW q \in RIDs PROVE Changed(u, q)'
    <2>1. Changed(u, q) /\ u \in Threads /\ Settled(q)
        BY DEF HInv, LockInv, Threads
    <2>2. CASE q # r /\ u # t
        BY <2>1, <2>2, <1>2, <1>7, <1>9, <1>10, <1>11 DEF Changed
    <2>3. CASE q # r /\ u = t
      <3>1. th'[u].ins = th[u].ins /\ th'[u].dels = th[u].dels \cup {r}
        BY <2>3, <1>3, <1>4, <1>5, <1>7, Zenon
      <3>2. (q \in th'[u].ins <=> q \in th[u].ins) /\ (q \in th'[u].dels <=> q \in th[u].dels)
        BY <2>3, <3>1, Zenon
      <3> QED
        BY <2>1, <2>3, <3>2, <1>2, <1>9, <1>10, <1>11 DEF Changed
    <2>4. CASE q = r /\ u # t
      <3>1. r \notin th[u].ins /\ r \notin th[u].dels
        BY <1>1, <2>1, <2>4, HeapAssumption DEF Changed
      <3> QED
        BY <2>4, <3>1, <1>7, <1>10, <2>1 DEF Changed
    <2>5. CASE q = r /\ u = t
      <3>1. r \in th'[t].dels /\ th'[t].ins = th[t].ins
        BY <1>3, <1>4, <1>5, <1>7
      <3>2. slot[r].row \notin Kept => r \in th[t].ins
        BY <1>1, <2>1, <2>5 DEF Changed, Settled
      <3>3. r \in th[t].ins => slot[r].alloc /\ slot[r].row \notin Kept
        BY <2>1, <2>5 DEF Changed
      <3> QED
        BY <2>5, <3>1, <3>2, <3>3, <1>2, <1>9, <1>10, <1>11 DEF Changed
    <2> QED
        BY <2>2, <2>3, <2>4, <2>5
<1>18. ASSUME NEW q \in RIDs PROVE Settled(q)'
    <2>1. CASE q = r
        BY <2>1, <1>10, HeapAssumption DEF Settled
    <2>2. CASE q # r
        BY <2>2, <1>2, <1>9, <1>10 DEF HInv, LockInv, Settled, Live
    <2> QED
        BY <2>1, <2>2
<1>19. LockInv'
    BY <1>17, <1>18 DEF LockInv
<1>20. ASSUME NEW u \in Threads, u # t, Scanning(u) PROVE FALSE
    <2>1. u # Boot
        BY <1>2, <1>20 DEF HInv, ThreadInv, BootInv, Scanning
    <2>2. u \in Txns /\ tlock[u] \in Reading
        BY <1>20, <2>1, ThreadKnown DEF Threads, ScanOK
    <2>3. Compatible(tlock'[t], tlock'[u]) /\ tlock'[u] = tlock[u]
        BY <1>11, <1>20, <2>2 DEF TablesShared
    <2> QED
        BY <1>11, <2>2, <2>3, ReadersExclude
<1> QED
    BY <1>2, <1>5, <1>7, <1>11, <1>12, <1>13, <1>16, <1>19, <1>20, ChangeKeeps

\* What the end of a transaction does besides its effect on slots and history.
LEMMA EndEffect ==
    ASSUME HInv, NEW t \in Txns, EndTxn(t)
    PROVE  /\ LockTypes' /\ TablesShared'
           /\ tlock'[t] = "none" /\ \A u \in Txns : u # t => tlock'[u] = tlock[u]
           /\ \A r \in RIDs : xlock'[r] = IF xlock[r] = t THEN None ELSE xlock[r]
           /\ \A u \in Threads : u # t => th'[u] = th[u]
           /\ th'[t].ins = {} /\ th'[t].dels = {} /\ th'[t].pc = "rest" /\ Rested(th'[t]) = th'[t]
           /\ UNCHANGED <<numSlots, numPages, inited, hint, up, nextRow>>
<1>0. t \in Threads
    BY DEF Threads
<1>1. Rest \in ThreadType
    BY DEF Rest, ThreadType, PCs
<1>2. Rest.ins = {} /\ Rest.dels = {} /\ Rest.pc = "rest"
    BY DEF Rest
<1>3. Rested(Rest) = Rest
    <2>1. PICK z \in ThreadType : z = Rest
        BY <1>1
    <2>2. [z EXCEPT !.ins = z.ins, !.dels = z.dels, !.err = z.err] = z
        BY DEF ThreadType
    <2> QED
        BY <2>1, <2>2, Zenon DEF Rested
<1>4. th' = [th EXCEPT ![t] = Rest] /\ tlock' = [tlock EXCEPT ![t] = "none"]
      /\ xlock' = [r \in RIDs |-> IF xlock[r] = t THEN None ELSE xlock[r]]
      /\ UNCHANGED <<numSlots, numPages, inited, hint, up, nextRow>>
    BY DEF EndTxn
<1>5. th' \in [Threads -> ThreadType] /\ th'[t] = Rest /\ \A u \in Threads : u # t => th'[u] = th[u]
    BY <1>0, <1>1, <1>4, ThreadUpdate, ThreadKnown
<1>6. tlock' \in [Txns -> Modes] /\ tlock'[t] = "none" /\ \A u \in Txns : u # t => tlock'[u] = tlock[u]
    BY <1>4 DEF HInv, LockTypes, Modes
<1>7. xlock' \in [RIDs -> Txns \cup {None}]
    BY <1>4 DEF HInv, LockTypes
<1>8. TablesShared'
    <2> SUFFICES ASSUME NEW u \in Txns, NEW v \in Txns, u # v PROVE Compatible(tlock'[u], tlock'[v])
        BY DEF TablesShared
    <2>1. CASE u # t /\ v # t
        BY <2>1, <1>6 DEF HInv, TablesShared
    <2>2. CASE u = t \/ v = t
        BY <2>2, <1>6 DEF Compatible
    <2> QED
        BY <2>1, <2>2
<1> QED
    BY <1>2, <1>3, <1>4, <1>5, <1>6, <1>7, <1>8 DEF LockTypes

\* The slots of a transaction's changes are known by their rows.
LEMMA RowsOfChanges ==
    ASSUME HInv, NEW t \in Txns, NEW S \in {th[t].ins, th[t].dels}
    PROVE  /\ S \subseteq RIDs /\ RowsOf(S) \subseteq 1 .. nextRow - 1
           /\ \A r \in RIDs : slot[r].row \in RowsOf(S) <=> r \in S
<1>1. S \subseteq RIDs
    BY ThreadKnown DEF Threads, ThreadType
<1>2. \A r \in RIDs : SlotOK(r) /\ Changed(t, r) /\ slot[r].row \in Nat
    BY DEF HInv, RowInv, LockInv, HeapTypes, SlotType
<1>3. nextRow \in Nat
    BY DEF HInv, HeapTypes
<1>4. \A r \in S : r \in RIDs /\ slot[r].row \in Nat /\ slot[r].row > 0 /\ slot[r].row < nextRow
    <2> SUFFICES ASSUME NEW r \in S PROVE r \in RIDs /\ slot[r].row \in Nat /\ slot[r].row > 0 /\ slot[r].row < nextRow
        OBVIOUS
    <2>1. r \in RIDs /\ SlotOK(r) /\ Changed(t, r) /\ slot[r].row \in Nat
        BY <1>1, <1>2
    <2>2. slot[r].alloc
        BY <2>1 DEF SlotOK, Changed
    <2> QED
        BY <2>1, <2>2 DEF SlotOK
<1>5. RowsOf(S) \subseteq 1 .. nextRow - 1
    BY <1>3, <1>4 DEF RowsOf
<1>6. \A r \in RIDs : slot[r].row \in RowsOf(S) => r \in S
    BY <1>4 DEF RowsOf, HInv, RowInv, OneSlotPerRow
<1>7. \A r \in S : slot[r].row \in RowsOf(S)
    BY DEF RowsOf
<1> QED
    BY <1>1, <1>5, <1>6, <1>7

\* A transaction that was not allowed to change the table has changed nothing.
LEMMA ReadersChangeNothing ==
    ASSUME HInv, NEW t \in Txns, tlock[t] \notin Writing
    PROVE  th[t].ins = {} /\ th[t].dels = {}
<1>1. th[t].ins \subseteq RIDs /\ th[t].dels \subseteq RIDs
    BY ThreadKnown DEF Threads, ThreadType
<1>2. \A r \in RIDs : r \notin th[t].ins /\ r \notin th[t].dels
    BY DEF HInv, LockInv, Changed
<1> QED
    BY <1>1, <1>2

\* Commit: what was inserted is there for good, what was deleted is not.
LEMMA CommitStep ==
    ASSUME HInv, LostInv, NEW t \in Txns, Commit(t)
    PROVE  HInv'
<1>1. EndTxn(t) /\ slot' = slot /\ Kept' = (Kept \cup RowsOf(th[t].ins)) \ RowsOf(th[t].dels)
    <2>1. /\ EndTxn(t) /\ slot' = slot /\ lost' = lost
          /\ committed' = (committed \cup RowsOf(th[t].ins)) \ RowsOf(th[t].dels)
        BY DEF Commit, EndTxn
    <2>2. RowsOf(th[t].ins) \cap lost = {}
        BY DEF RowsOf, LostInv
    <2> QED
        BY <2>1, <2>2 DEF Kept
<1>2. UNCHANGED <<numSlots, numPages, inited, hint, up, nextRow>>
    BY <1>1, EndEffect
<1>3. \A r \in RIDs : slot[r].row \in Kept' <=> ((slot[r].row \in Kept \/ r \in th[t].ins) /\ r \notin th[t].dels)
    <2>1. \A r \in RIDs : (slot[r].row \in RowsOf(th[t].ins) <=> r \in th[t].ins)
                       /\ (slot[r].row \in RowsOf(th[t].dels) <=> r \in th[t].dels)
        BY RowsOfChanges
    <2> QED
        BY <1>1, <2>1
<1>4. Kept' \subseteq 1 .. nextRow - 1 /\ th[t].ins \subseteq RIDs
    BY <1>1, RowsOfChanges DEF HInv, HeapTypes
<1>5. HeapTypes'
    BY <1>1, <1>2, <1>4 DEF HInv, HeapTypes
<1>6. ASSUME NEW r \in RIDs PROVE SlotOK(r)'
    <2>1. SlotOK(r) /\ Changed(t, r)
        BY DEF HInv, RowInv, LockInv
    <2> QED
        BY <1>1, <1>2, <1>3, <2>1 DEF SlotOK, Changed
<1>7. CommittedFound'
    <2> SUFFICES ASSUME NEW c \in Kept' PROVE \E r \in RIDs : slot[r].row = c
        BY <1>1 DEF CommittedFound
    <2>1. c \in Kept \/ c \in RowsOf(th[t].ins)
        BY <1>1
    <2> QED
        BY <1>4, <2>1 DEF RowsOf, HInv, RowInv, CommittedFound
<1>8. RowInv'
    BY <1>1, <1>6, <1>7 DEF HInv, RowInv, OneSlotPerRow
<1>9. ASSUME NEW u \in Txns, NEW r \in RIDs PROVE Changed(u, r)'
    <2>1. Changed(u, r) /\ Changed(t, r) /\ u \in Threads /\ xlock'[r] = IF xlock[r] = t THEN None ELSE xlock[r]
        BY <1>1, EndEffect DEF HInv, LockInv, Threads
    <2>2. CASE u = t
      <3>1. th'[t].ins = {} /\ th'[t].dels = {} /\ xlock'[r] # t
        BY <1>1, <2>1, EndEffect, HeapAssumption
      <3> QED
        BY <2>2, <3>1 DEF Changed
    <2>3. CASE u # t
      <3>1. th'[u] = th[u] /\ tlock'[u] = tlock[u] /\ (xlock'[r] = u <=> xlock[r] = u)
        BY <1>1, <2>1, <2>3, EndEffect, HeapAssumption
      <3>2. xlock[r] = u => r \notin th[t].ins /\ r \notin th[t].dels
        BY <2>1, <2>3 DEF Changed
      <3>3. xlock[r] = u => (slot[r].row \in Kept' <=> slot[r].row \in Kept)
        BY <1>3, <3>2
      <3> QED
        BY <1>1, <2>1, <3>1, <3>3 DEF Changed
    <2> QED
        BY <2>2, <2>3
<1>10. ASSUME NEW r \in RIDs PROVE Settled(r)'
    <2>1. Settled(r) /\ Changed(t, r) /\ SlotOK(r) /\ xlock'[r] = IF xlock[r] = t THEN None ELSE xlock[r]
        BY <1>1, EndEffect DEF HInv, LockInv, RowInv
    <2>2. CASE xlock[r] = t
        BY <1>1, <1>3, <2>1, <2>2 DEF Settled, Changed, Live, SlotOK
    <2>3. CASE xlock[r] # t
      <3>1. r \notin th[t].ins /\ r \notin th[t].dels
        BY <2>1, <2>3 DEF Changed
      <3> QED
        BY <1>1, <1>3, <2>1, <2>3, <3>1 DEF Settled, Live
    <2> QED
        BY <2>2, <2>3
<1>11. LockInv'
    BY <1>9, <1>10 DEF LockInv
<1>12. ASSUME NEW u \in Threads, u # t PROVE ~Scanning(u) \/ (SameLive /\ Kept' = Kept)
    <2>1. CASE tlock[t] \in Writing
        BY <1>12, <2>1, NobodyScans
    <2>2. CASE tlock[t] \notin Writing
      <3>1. RowsOf(th[t].ins) = {} /\ RowsOf(th[t].dels) = {}
        BY <2>2, ReadersChangeNothing DEF RowsOf
      <3> QED
        BY <1>1, <3>1 DEF SameLive, Live
    <2> QED
        BY <2>1, <2>2
<1> QED
    BY <1>1, <1>5, <1>8, <1>11, <1>12, EndEffect, ChangeKeeps

\* Abort undoes the changes in the slots that are locked.
LEMMA AbortStep ==
    ASSUME HInv, NEW t \in Txns, Abort(t)
    PROVE  HInv'
<1>0. Kept' = Kept
    BY DEF Abort, EndTxn, Kept
<1>1. /\ EndTxn(t) /\ Kept' = Kept
      /\ slot' = [r \in RIDs |-> IF r \in th[t].ins \cup th[t].dels
                                 THEN [slot[r] EXCEPT !.del = r \in th[t].ins] ELSE slot[r]]
    BY <1>0 DEF Abort
<1>2. UNCHANGED <<numSlots, numPages, inited, hint, up, nextRow>>
    BY <1>1, EndEffect
<1>3. ASSUME NEW r \in RIDs
      PROVE  /\ slot'[r] \in SlotType /\ slot'[r].alloc = slot[r].alloc /\ slot'[r].row = slot[r].row
             /\ r \in th[t].ins => slot'[r].del
             /\ r \in th[t].dels \ th[t].ins => ~slot'[r].del
             /\ r \notin th[t].ins \cup th[t].dels => slot'[r] = slot[r]
    <2>1. PICK s \in SlotType : s = slot[r]
        BY DEF HInv, HeapTypes
    <2>2. PICK b \in BOOLEAN : b = (r \in th[t].ins)
      <3>1. CASE r \in th[t].ins
        <4>1. TRUE = (r \in th[t].ins)
            BY <3>1
        <4> QED
            BY <4>1
      <3>2. CASE r \notin th[t].ins
        <4>1. FALSE = (r \in th[t].ins)
            BY <3>2
        <4> QED
            BY <4>1
      <3> QED
        BY <3>1, <3>2
    <2>3. [s EXCEPT !.del = b] \in SlotType /\ [s EXCEPT !.del = b].alloc = s.alloc
          /\ [s EXCEPT !.del = b].row = s.row /\ [s EXCEPT !.del = b].del = b
        BY DEF SlotType
    <2>4. slot'[r] = IF r \in th[t].ins \cup th[t].dels THEN [s EXCEPT !.del = b] ELSE s
        BY <1>1, <2>1, <2>2
    <2> QED
        BY <2>1, <2>2, <2>3, <2>4
<1>4. slot' \in [RIDs -> SlotType]
    BY <1>1, <1>3
<1>5. HeapTypes'
    BY <1>1, <1>2, <1>4 DEF HInv, HeapTypes
<1>6. ASSUME NEW r \in RIDs PROVE SlotOK(r)'
    <2>1. SlotOK(r) /\ Changed(t, r)
        BY DEF HInv, RowInv, LockInv
    <2>2. slot'[r].del => slot'[r].alloc
        BY <1>3, <2>1 DEF SlotOK, Changed
    <2> QED
        BY <1>1, <1>2, <1>3, <2>1, <2>2 DEF SlotOK
<1>7. RowInv'
    BY <1>1, <1>3, <1>6 DEF HInv, RowInv, OneSlotPerRow, CommittedFound
<1>8. ASSUME NEW u \in Txns, NEW r \in RIDs PROVE Changed(u, r)'
    <2>1. Changed(u, r) /\ Changed(t, r) /\ u \in Threads /\ xlock'[r] = IF xlock[r] = t THEN None ELSE xlock[r]
        BY <1>1, EndEffect DEF HInv, LockInv, Threads
    <2>2. CASE u = t
      <3>1. th'[t].ins = {} /\ th'[t].dels = {} /\ xlock'[r] # t
        BY <1>1, <2>1, EndEffect, HeapAssumption
      <3> QED
        BY <2>2, <3>1 DEF Changed
    <2>3. CASE u # t
      <3>1. th'[u] = th[u] /\ tlock'[u] = tlock[u] /\ (xlock'[r] = u <=> xlock[r] = u)
        BY <1>1, <2>1, <2>3, EndEffect, HeapAssumption
      <3>2. xlock[r] = u => slot'[r] = slot[r]
        BY <1>3, <2>1, <2>3 DEF Changed
      <3> QED
        BY <1>0, <2>1, <3>1, <3>2 DEF Changed
    <2> QED
        BY <2>2, <2>3
<1>9. ASSUME NEW r \in RIDs PROVE Settled(r)'
    <2>1. Settled(r) /\ Changed(t, r) /\ SlotOK(r) /\ xlock'[r] = IF xlock[r] = t THEN None ELSE xlock[r]
        BY <1>1, EndEffect DEF HInv, LockInv, RowInv
    <2>2. CASE xlock[r] = t
        BY <1>1, <1>3, <2>1, <2>2 DEF Settled, Changed, Live, SlotOK
    <2>3. CASE xlock[r] # t
      <3>1. slot'[r] = slot[r]
        BY <1>3, <2>1, <2>3 DEF Changed
      <3> QED
        BY <1>0, <2>1, <2>3, <3>1 DEF Settled, Live
    <2> QED
        BY <2>2, <2>3
<1>10. LockInv'
    BY <1>8, <1>9 DEF LockInv
<1>11. ASSUME NEW u \in Threads, u # t PROVE ~Scanning(u) \/ (SameLive /\ Kept' = Kept)
    <2>1. CASE tlock[t] \in Writing
        BY <1>11, <2>1, NobodyScans
    <2>2. CASE tlock[t] \notin Writing
      <3>1. \A r \in RIDs : slot'[r] = slot[r]
        BY <1>3, <2>2, ReadersChangeNothing
      <3> QED
        BY <1>1, <3>1 DEF SameLive, Live
    <2> QED
        BY <2>1, <2>2
<1> QED
    BY <1>1, <1>5, <1>7, <1>10, <1>11, EndEffect, ChangeKeeps

\* VacuumPage frees deleted slots that nobody has locked.
LEMMA VacuumPageStep ==
    ASSUME HInv, NEW p \in Pages, VacuumPage(p)
    PROVE  HInv'
<1> DEFINE free == {r \in RIDs : r[1] = p /\ slot[r].del /\ xlock[r] = None}
<1>1. /\ slot' = [r \in RIDs |-> IF r \in free THEN [slot[r] EXCEPT !.alloc = FALSE, !.del = FALSE] ELSE slot[r]]
      /\ UNCHANGED <<numSlots, numPages, inited, hint, tlock, xlock, th, up, nextRow, Kept>>
    BY DEF VacuumPage, lockVars, history, Kept
<1>2. free \subseteq RIDs /\ \A r \in free : slot[r].del /\ xlock[r] = None
    OBVIOUS
<1> HIDE DEF free
<1>3. ASSUME NEW r \in RIDs
      PROVE  /\ slot'[r] \in SlotType /\ slot'[r].row = slot[r].row
             /\ r \in free => slot'[r].alloc = FALSE /\ slot'[r].del = FALSE
             /\ r \notin free => slot'[r] = slot[r]
    <2>1. PICK s \in SlotType : s = slot[r]
        BY DEF HInv, HeapTypes
    <2>2. slot'[r] = IF r \in free THEN [s EXCEPT !.alloc = FALSE, !.del = FALSE] ELSE s
        BY <1>1, <2>1
    <2>3. LET z == [s EXCEPT !.alloc = FALSE, !.del = FALSE]
          IN  z \in SlotType /\ z.row = s.row /\ z.alloc = FALSE /\ z.del = FALSE
        BY DEF SlotType
    <2> QED
        BY <2>1, <2>2, <2>3
<1>4. \A r \in free : ~Live(r) /\ slot[r].row \notin Kept /\ \A t \in Txns : r \notin th[t].ins /\ r \notin th[t].dels
    <2> SUFFICES ASSUME NEW r \in free
                 PROVE  ~Live(r) /\ slot[r].row \notin Kept /\ \A t \in Txns : r \notin th[t].ins /\ r \notin th[t].dels
        OBVIOUS
    <2>1. r \in RIDs /\ Settled(r) /\ \A t \in Txns : Changed(t, r)
        BY <1>2 DEF HInv, LockInv
    <2>2. ~Live(r) /\ slot[r].row \notin Kept
        BY <1>2, <2>1 DEF Settled, Live
    <2> QED
        BY <1>2, <2>1, <2>2, HeapAssumption DEF Changed
<1>5. HeapTypes' /\ LockTypes'
    <2>1. slot' \in [RIDs -> SlotType]
        BY <1>1, <1>3
    <2> QED
        BY <1>1, <2>1 DEF HInv, HeapTypes, LockTypes
<1>6. ASSUME NEW r \in RIDs PROVE SlotOK(r)'
    <2>1. SlotOK(r) /\ UNCHANGED <<numSlots, inited, nextRow, Kept>>
        BY <1>1 DEF HInv, RowInv
    <2>2. CASE r \in free
        BY <1>3, <1>4, <2>1, <2>2 DEF SlotOK
    <2>3. CASE r \notin free
      <3>1. slot'[r] = slot[r]
        BY <1>3, <2>3
      <3> QED
        BY <2>1, <3>1 DEF SlotOK
    <2> QED
        BY <2>2, <2>3
<1>7. RowInv'
    <2>1. Kept' = Kept /\ \A r \in RIDs : slot'[r].row = slot[r].row
        BY <1>1, <1>3
    <2> QED
        BY <1>6, <2>1 DEF HInv, RowInv, OneSlotPerRow, CommittedFound
<1>8. ASSUME NEW t \in Txns, NEW r \in RIDs PROVE Changed(t, r)'
    <2>1. Changed(t, r)
        BY DEF HInv, LockInv
    <2>2. CASE r \in free
      <3>1. xlock'[r] # t /\ r \notin th'[t].ins /\ r \notin th'[t].dels
        BY <1>1, <1>2, <1>4, <2>2, HeapAssumption
      <3> QED
        BY <3>1 DEF Changed
    <2>3. CASE r \notin free
      <3>1. slot'[r] = slot[r] /\ UNCHANGED <<tlock, xlock, th, Kept>>
        BY <1>1, <1>3, <2>3
      <3> QED
        BY <2>1, <3>1 DEF Changed
    <2> QED
        BY <2>2, <2>3
<1>9. \A r \in RIDs : (Live(r)' <=> Live(r)) /\ (Live(r) => slot'[r].row = slot[r].row)
    BY <1>3, <1>4 DEF Live
<1>10. ASSUME NEW r \in RIDs PROVE Settled(r)'
    <2>1. Settled(r) /\ xlock' = xlock /\ Kept' = Kept /\ slot'[r].row = slot[r].row
        BY <1>1, <1>3 DEF HInv, LockInv
    <2> QED
        BY <1>9, <2>1 DEF Settled
<1>11. LockInv'
    BY <1>8, <1>10 DEF LockInv
<1>12. TablesShared' /\ ThreadInv'
    <2>1. UNCHANGED <<tlock, th, up, numPages>>
        BY <1>1
    <2> QED
        BY <2>1 DEF HInv, TablesShared, Compatible, ThreadInv, BootInv, Placed
<1>13. ASSUME NEW t \in Threads PROVE ScanOK(t)'
    <2>1. UNCHANGED <<tlock, th, Kept>>
        BY <1>1
    <2> QED
        BY <1>9, <2>1, ScanUndisturbed
<1> QED
    BY <1>5, <1>7, <1>11, <1>12, <1>13 DEF HInv, ScanInv
-----------------------------------------------------------------------------
(* Crashes. *)

\* The fields of a fresh thread.
LEMMA RestFields ==
    /\ Rest \in ThreadType /\ Rested(Rest) = Rest
    /\ Rest.pc = "rest" /\ Rest.page = 0 /\ Rest.slot = -1 /\ Rest.res = {} /\ Rest.ins = {} /\ Rest.dels = {}
    /\ ~Rest.late /\ ~Rest.torn
<1>1. Rest \in ThreadType
    BY DEF Rest, ThreadType, PCs
<1>2. /\ Rest.pc = "rest" /\ Rest.page = 0 /\ Rest.slot = -1 /\ Rest.res = {} /\ Rest.ins = {} /\ Rest.dels = {}
      /\ ~Rest.late /\ ~Rest.torn
    BY DEF Rest
<1>3. Rested(Rest) = Rest
    <2>1. PICK z \in ThreadType : z = Rest
        BY <1>1
    <2>2. [z EXCEPT !.ins = z.ins, !.dels = z.dels, !.err = z.err] = z
        BY DEF ThreadType
    <2> QED
        BY <2>1, <2>2, Zenon DEF Rested
<1> QED
    BY <1>1, <1>2, <1>3

\* What recovery makes of the slots.
LEMMA SlotsRecovered ==
    ASSUME HInv, LostInv, Restart
    PROVE  /\ numSlots' = numSlots /\ numPages' = numPages /\ nextRow' = nextRow /\ Kept' \subseteq Kept
           /\ inited' \subseteq inited /\ slot' \in [RIDs -> SlotType]
           /\ \A r \in RIDs : slot[r].row \in Kept' =>
                r[1] \in inited' /\ slot'[r].row = slot[r].row /\ slot'[r].alloc /\ ~slot'[r].del
           /\ \A r \in RIDs : slot[r].row \notin Kept' =>
                /\ slot'[r].row \in {0, slot[r].row} /\ slot'[r].row \notin Kept'
                /\ slot'[r].alloc <=> slot'[r].del
                /\ slot'[r].alloc =>
                      slot'[r].row > 0 /\ r[1] \in inited' /\ r[2] < numSlots /\ slot'[r].row = slot[r].row
<1> DEFINE keeps == {r \in RIDs : slot[r].alloc /\ slot[r].row \in Kept}
           Back(U) == (keeps \ unwritten) \cup U
<1>1. PICK flushed \in SUBSET inited, undone \in SUBSET {r \in keeps \cap unwritten : slot[r].del} :
        /\ {r[1] : r \in keeps} \subseteq flushed /\ inited' = flushed
        /\ slot' = [r \in RIDs |->
                IF r[1] \notin flushed THEN Empty
                ELSE IF r \in Back(undone) THEN [slot[r] EXCEPT !.del = FALSE]
                ELSE IF r \in unwritten THEN [slot[r] EXCEPT !.alloc = TRUE, !.del = TRUE]
                ELSE [slot[r] EXCEPT !.del = slot[r].alloc]]
        /\ lost' = lost \cup {slot[r].row : r \in keeps \ Back(undone)}
    BY DEF Restart
<1>2. numSlots' = numSlots /\ numPages' = numPages /\ nextRow' = nextRow /\ committed' = committed
    BY DEF Restart
<1>3. \A r \in RIDs : slot[r] \in SlotType /\ SlotOK(r)
    BY DEF HInv, HeapTypes, RowInv
<1>4. 0 \notin Kept
    BY DEF HInv, HeapTypes
<1>5. Empty \in SlotType /\ Empty.row = 0 /\ Empty.alloc = FALSE /\ Empty.del = FALSE
    BY DEF Empty, SlotType, NoRow
<1>6. PICK back \in SUBSET keeps : back = Back(undone)
    OBVIOUS
<1>7. ASSUME NEW r \in RIDs PROVE r \in keeps <=> slot[r].row \in Kept
    BY <1>3, <1>7 DEF SlotOK
<1>8. Kept' = Kept \ {slot[r].row : r \in keeps \ back}
    BY <1>1, <1>2, <1>6 DEF Kept
<1>9. ASSUME NEW r \in RIDs PROVE slot[r].row \in Kept' <=> r \in back
    <2>1. ASSUME r \in back PROVE slot[r].row \in Kept'
      <3>1. slot[r].row \in Kept /\ slot[r].row > 0
        BY <1>3, <1>6, <2>1 DEF SlotOK
      <3>2. ASSUME NEW q \in keeps \ back PROVE slot[q].row # slot[r].row
        BY <2>1, <3>1, <3>2 DEF HInv, RowInv, OneSlotPerRow
      <3> QED
        BY <1>8, <3>1, <3>2
    <2>2. ASSUME slot[r].row \in Kept' PROVE r \in back
        BY <1>7, <1>8, <2>2
    <2> QED
        BY <2>1, <2>2
<1>10. \A r \in back : r[1] \in flushed /\ slot[r].alloc
    BY <1>1, <1>6
<1>11. \A r \in RIDs : slot'[r] =
                IF r[1] \notin flushed THEN Empty
                ELSE IF r \in back THEN [slot[r] EXCEPT !.del = FALSE]
                ELSE IF r \in unwritten THEN [slot[r] EXCEPT !.alloc = TRUE, !.del = TRUE]
                ELSE [slot[r] EXCEPT !.del = slot[r].alloc]
    BY <1>1, <1>6
<1> HIDE DEF keeps, Back
<1>12. ASSUME NEW r \in RIDs, r \in back
      PROVE  slot'[r] \in SlotType /\ slot'[r].row = slot[r].row /\ slot'[r].alloc /\ ~slot'[r].del
    <2>1. PICK s \in SlotType : s = slot[r] /\ s.alloc
        BY <1>3, <1>10, <1>12
    <2>2. slot'[r] = [s EXCEPT !.del = FALSE]
        BY <1>10, <1>11, <1>12, <2>1
    <2>3. LET z == [s EXCEPT !.del = FALSE] IN z \in SlotType /\ z.row = s.row /\ z.alloc = s.alloc /\ z.del = FALSE
        BY DEF SlotType
    <2> QED
        BY <2>1, <2>2, <2>3
<1>13. ASSUME NEW r \in RIDs, r \notin back
      PROVE  /\ slot'[r] \in SlotType /\ slot'[r].row \in {0, slot[r].row} /\ slot'[r].row \notin Kept'
             /\ slot'[r].alloc <=> slot'[r].del
             /\ slot'[r].alloc =>
                   slot'[r].row > 0 /\ r[1] \in inited' /\ r[2] < numSlots /\ slot'[r].row = slot[r].row
    <2>0. slot[r].row \notin Kept' /\ 0 \notin Kept'
        BY <1>4, <1>8, <1>9, <1>13
    <2>1. CASE r[1] \notin flushed
      <3>1. slot'[r] = Empty
        BY <1>11, <2>1
      <3> QED
        BY <1>5, <2>0, <3>1
    <2>2. CASE r[1] \in flushed /\ r \notin unwritten
      <3>1. PICK s \in SlotType : s = slot[r] /\ (s.alloc => s.row > 0 /\ r[2] < numSlots)
        BY <1>3 DEF SlotOK
      <3>2. slot'[r] = [s EXCEPT !.del = s.alloc]
        BY <1>11, <1>13, <2>2, <3>1
      <3>3. LET z == [s EXCEPT !.del = s.alloc] IN z \in SlotType /\ z.row = s.row /\ z.alloc = s.alloc /\ z.del = s.alloc
        BY DEF SlotType
      <3> QED
        BY <1>1, <2>0, <2>2, <3>1, <3>2, <3>3
    <2>3. CASE r[1] \in flushed /\ r \in unwritten
      <3>1. PICK s \in SlotType : s = slot[r] /\ s.row > 0 /\ r[2] < numSlots
        BY <1>3, <2>3 DEF LostInv
      <3>2. slot'[r] = [s EXCEPT !.alloc = TRUE, !.del = TRUE]
        BY <1>11, <1>13, <2>3, <3>1
      <3>3. LET z == [s EXCEPT !.alloc = TRUE, !.del = TRUE]
            IN  z \in SlotType /\ z.row = s.row /\ z.alloc = TRUE /\ z.del = TRUE
        BY DEF SlotType
      <3> QED
        BY <1>1, <2>0, <2>3, <3>1, <3>2, <3>3
    <2> QED
        BY <2>1, <2>2, <2>3
<1>14. slot' \in [RIDs -> SlotType]
    BY <1>1, <1>12, <1>13
<1> QED
    BY <1>1, <1>2, <1>8, <1>9, <1>10, <1>12, <1>13, <1>14

\* An iterator that has not returned anything yet.
LEMMA NothingPassed ==
    ASSUME NEW t, th'[t].page = 0, th'[t].slot = -1
    PROVE  Passed(t)' = {}
<1>1. \A r \in RIDs : r[1] \in Nat /\ r[2] \in Nat
    BY AddressParts DEF Pages, Slots
<1> QED
    BY <1>1 DEF Passed

\* A crash and the recovery after it.
LEMMA RestartStep ==
    ASSUME HInv, LostInv, Restart
    PROVE  HInv'
<1>1. /\ hint' = [p \in Pages |-> 0] /\ tlock' = [t \in Txns |-> "none"] /\ xlock' = [r \in RIDs |-> None]
      /\ up' = (numPages = 0)
      /\ th' = [t \in Threads |->
                IF t = Boot /\ numPages > 0 THEN [Rest EXCEPT !.pc = "open", !.np = numPages] ELSE Rest]
    BY DEF Restart
<1>2. /\ numSlots' = numSlots /\ numPages' = numPages /\ nextRow' = nextRow /\ Kept' \subseteq Kept
      /\ inited' \subseteq inited /\ slot' \in [RIDs -> SlotType]
    BY SlotsRecovered
<1>3. \A r \in RIDs : slot[r].row \in Kept' =>
                r[1] \in inited' /\ slot'[r].row = slot[r].row /\ slot'[r].alloc /\ ~slot'[r].del
    BY SlotsRecovered
<1>4. \A r \in RIDs : slot[r].row \notin Kept' =>
                /\ slot'[r].row \in {0, slot[r].row} /\ slot'[r].row \notin Kept'
                /\ slot'[r].alloc <=> slot'[r].del
                /\ slot'[r].alloc =>
                      slot'[r].row > 0 /\ r[1] \in inited' /\ r[2] < numSlots /\ slot'[r].row = slot[r].row
    BY SlotsRecovered
<1>5. numPages \in Nat /\ Boot \in Threads /\ Boot \notin Txns
    BY HeapAssumption DEF HInv, HeapTypes, Threads
<1>6. PICK y \in ThreadType : /\ y = [Rest EXCEPT !.pc = "open", !.np = numPages]
                              /\ y.pc = "open" /\ y.np = numPages /\ y.page = 0 /\ y.slot = -1 /\ y.res = {}
                              /\ y.ins = {} /\ y.dels = {} /\ ~y.late /\ ~y.torn
    <2>1. PICK z \in ThreadType : z = Rest /\ z.page = 0 /\ z.slot = -1 /\ z.res = {} /\ z.ins = {} /\ z.dels = {}
                                  /\ ~z.late /\ ~z.torn
        BY RestFields
    <2>2. PICK n \in Nat : n = numPages
        BY <1>5
    <2> DEFINE w == [z EXCEPT !.pc = "open", !.np = n]
    <2>3. /\ w \in ThreadType /\ w.pc = "open" /\ w.np = n /\ w.page = z.page /\ w.slot = z.slot /\ w.res = z.res
          /\ w.ins = z.ins /\ w.dels = z.dels /\ w.late = z.late /\ w.torn = z.torn
        BY DEF ThreadType, PCs
    <2>4. w = [Rest EXCEPT !.pc = "open", !.np = numPages]
        BY <2>1, <2>2
    <2> HIDE DEF w
    <2> QED
        BY <2>1, <2>2, <2>3, <2>4
<1>7. \A t \in Threads : th'[t] = IF t = Boot /\ numPages > 0 THEN y ELSE Rest
    BY <1>1, <1>6
<1>8. th' \in [Threads -> ThreadType]
    BY <1>1, <1>6, RestFields
<1>9. \A t \in Threads : th'[t].ins = {} /\ th'[t].dels = {}
    BY <1>6, <1>7, RestFields
<1>10. HeapTypes'
    <2>1. hint' \in [Pages -> Nat]
        BY <1>1
    <2>2. up' \in BOOLEAN
        BY <1>1
    <2> QED
        BY <1>2, <2>1, <2>2 DEF HInv, HeapTypes
<1>11. LockTypes'
    BY <1>1, <1>8 DEF LockTypes, Modes
<1>12. ASSUME NEW r \in RIDs PROVE SlotOK(r)'
    <2>1. SlotOK(r) /\ nextRow \in Nat \ {0}
        BY DEF HInv, RowInv, HeapTypes
    <2>2. CASE slot[r].row \in Kept'
        BY <1>2, <1>3, <2>1, <2>2 DEF SlotOK
    <2>3. CASE slot[r].row \notin Kept'
        BY <1>2, <1>4, <2>1, <2>3 DEF SlotOK
    <2> QED
        BY <2>2, <2>3
<1>13. OneSlotPerRow'
    <2>1. \A r \in RIDs : slot'[r].row \in {0, slot[r].row}
        BY <1>3, <1>4
    <2> SUFFICES ASSUME NEW r \in RIDs, NEW q \in RIDs, slot'[r].row = slot'[q].row, slot'[r].row > 0 PROVE r = q
        BY DEF OneSlotPerRow
    <2>2. slot'[r].row # 0 /\ slot'[q].row # 0
        OBVIOUS
    <2>3. slot[r].row = slot[q].row /\ slot[r].row > 0
        BY <2>1, <2>2
    <2> QED
        BY <2>3 DEF HInv, RowInv, OneSlotPerRow
<1>14. CommittedFound'
    BY <1>2, <1>3 DEF HInv, RowInv, CommittedFound
<1>15. RowInv'
    BY <1>12, <1>13, <1>14 DEF RowInv
<1>16. ASSUME NEW t \in Txns, NEW r \in RIDs PROVE Changed(t, r)'
    <2>1. xlock'[r] # t /\ t \in Threads
        BY <1>1, HeapAssumption DEF Threads
    <2>2. r \notin th'[t].ins /\ r \notin th'[t].dels
        BY <1>9, <2>1
    <2> QED
        BY <2>1, <2>2 DEF Changed
<1>17. \A r \in RIDs : Live(r)' <=> slot'[r].row \in Kept'
    BY <1>2, <1>3, <1>4 DEF Live
<1>18. LockInv'
    BY <1>16, <1>17 DEF LockInv, Settled
<1>19. TablesShared'
    BY <1>1 DEF TablesShared, Compatible
<1>20. ASSUME NEW t \in Threads PROVE Placed(t)'
    <2>1. CASE t = Boot /\ numPages > 0
      <3>1. th'[t] = y /\ t \notin Txns /\ t = Boot
        BY <1>5, <1>7, <2>1
      <3>2. y.page < y.np /\ y.np <= numPages'
        BY <1>2, <1>5, <1>6, <2>1
      <3> QED
        BY <1>6, <3>1, <3>2 DEF Placed
    <2>2. CASE ~(t = Boot /\ numPages > 0)
      <3>1. th'[t] = Rest /\ (t \in Txns => tlock'[t] = "none")
        BY <1>1, <1>7, <2>2
      <3> QED
        BY <3>1, RestFields DEF Placed
    <2> QED
        BY <2>1, <2>2
<1>21. BootInv'
    <2>0. up' => numPages = 0
        BY <1>1, Zenon
    <2>1. up' => ~(numPages > 0)
        BY <1>5, <2>0
    <2>2. up' => th'[Boot] = Rest
        BY <1>5, <1>7, <2>1
    <2> QED
        BY <1>5, <1>9, <2>2, RestFields DEF BootInv
<1>22. LiveRows' = Kept'
    <2>1. \A c \in Kept' : \E r \in RIDs : slot'[r].row = c
        BY <1>14 DEF CommittedFound
    <2> QED
        BY <1>17, <2>1 DEF LiveRows
<1>23. ASSUME NEW t \in Threads PROVE ScanOK(t)'
    <2>1. CASE t = Boot /\ numPages > 0
      <3>1. th'[t] = y
        BY <1>7, <2>1
      <3>2. Target(t)' = LiveRows'
        BY <1>22, <2>1 DEF Target
      <3>3. \A r \in RIDs : Live(r)' => r[1] < numPages
        <4>1. \A p \in inited' : p < numPages
            BY <1>2, <1>5 DEF HInv, HeapTypes
        <4>2. \A r \in RIDs : Live(r)' => r[1] \in inited'
            BY <1>3, <1>4 DEF Live
        <4> QED
            BY <4>1, <4>2
      <3>4. Passed(t)' = {}
        BY <1>6, <3>1, NothingPassed
      <3> QED
        BY <1>5, <1>6, <2>1, <3>1, <3>2, <3>3, <3>4 DEF ScanOK, Scanning
    <2>2. CASE ~(t = Boot /\ numPages > 0)
      <3>1. th'[t] = Rest
        BY <1>7, <2>2
      <3> QED
        BY <3>1, RestFields DEF ScanOK, Scanning
    <2> QED
        BY <2>1, <2>2
<1> QED
    BY <1>10, <1>11, <1>15, <1>18, <1>19, <1>20, <1>21, <1>23 DEF HInv, ThreadInv, ScanInv
-----------------------------------------------------------------------------
(* The heap at first, and its steps. *)

\* The empty heap satisfies the invariant.
LEMMA HeapInit == Init => HInv
<1> SUFFICES ASSUME Init PROVE HInv
    OBVIOUS
<1>1. PICK n \in Nat : /\ n <= numSlots /\ (numPages = 0 => n = 0) /\ nextRow = n + 1
                       /\ slot = [r \in RIDs |-> IF r[1] = 0 /\ r[2] < n
                                  THEN [alloc |-> TRUE, del |-> FALSE, row |-> r[2] + 1] ELSE Empty]
    <2>1. numSlots \in Nat
        BY LayoutAssumption DEF Init
    <2>2. PICK n \in 0 .. IF numPages = 0 THEN 0 ELSE numSlots :
            /\ slot = [r \in RIDs |-> IF r[1] = 0 /\ r[2] < n
                                  THEN [alloc |-> TRUE, del |-> FALSE, row |-> r[2] + 1] ELSE Empty]
            /\ nextRow = n + 1
        BY DEF Init
    <2>3. n \in Nat /\ n <= numSlots /\ (numPages = 0 => n = 0)
        BY <2>1, <2>2
    <2> QED
        BY <2>2, <2>3
<1>2. numSlots \in 1 .. MaxSlots /\ numPages \in {0, 1} /\ inited = 0 .. numPages - 1
      /\ MaxPages \in Nat \ {0} /\ MaxSlots \in Nat
    BY LayoutAssumption, HeapAssumption DEF Init
<1>3. \A r \in RIDs : r[1] \in Nat /\ r[2] \in Nat /\ r = <<r[1], r[2]>>
    BY AddressParts DEF Pages, Slots
<1>4. Empty \in SlotType /\ Empty.row = 0 /\ Empty.alloc = FALSE /\ Empty.del = FALSE
    BY DEF Empty, SlotType, NoRow
<1>5. ASSUME NEW r \in RIDs
      PROVE  /\ slot[r] \in SlotType /\ ~slot[r].del /\ (Live(r) <=> slot[r].alloc)
             /\ slot[r].alloc => r[1] = 0 /\ r[2] < n /\ slot[r].row = r[2] + 1
             /\ ~slot[r].alloc => slot[r].row = 0
    <2>1. CASE r[1] = 0 /\ r[2] < n
      <3>1. slot[r] = [alloc |-> TRUE, del |-> FALSE, row |-> r[2] + 1] /\ r[2] + 1 \in Nat
        BY <1>1, <1>3, <2>1
      <3>2. slot[r].alloc = TRUE /\ slot[r].del = FALSE /\ slot[r].row = r[2] + 1 /\ slot[r] \in SlotType
        BY <3>1 DEF SlotType
      <3> QED
        BY <2>1, <3>2 DEF Live
    <2>2. CASE ~(r[1] = 0 /\ r[2] < n)
      <3>1. slot[r] = Empty
        BY <1>1, <2>2
      <3> QED
        BY <1>4, <3>1 DEF Live
    <2> QED
        BY <2>1, <2>2
<1>6. slot \in [RIDs -> SlotType]
    BY <1>1, <1>5
<1>7. Kept = {slot[r].row : r \in {q \in RIDs : Live(q)}}
    BY DEF Init, Kept
<1>8. \A r \in RIDs : /\ slot[r].alloc => slot[r].row \in 1 .. nextRow - 1
                      /\ slot[r].row \in Nat /\ slot[r].row < nextRow
    <2>1. n \in Nat /\ nextRow = n + 1
        BY <1>1
    <2> SUFFICES ASSUME NEW r \in RIDs
                 PROVE  /\ slot[r].alloc => slot[r].row \in 1 .. nextRow - 1
                        /\ slot[r].row \in Nat /\ slot[r].row < nextRow
        OBVIOUS
    <2>2. PICK b \in Nat : b = r[2]
        BY <1>3
    <2>3. (slot[r].alloc => b < n /\ slot[r].row = b + 1) /\ (~slot[r].alloc => slot[r].row = 0)
        BY <1>5, <2>2
    <2> QED
        BY <2>1, <2>3
<1>9. Kept \subseteq 1 .. nextRow - 1
    <2>1. \A r \in RIDs : Live(r) => slot[r].row \in 1 .. nextRow - 1
        BY <1>8 DEF Live
    <2> QED
        BY <1>7, <2>1
<1>10. HeapTypes
    <2>1. hint \in [Pages -> Nat] /\ up \in BOOLEAN
        BY DEF Init
    <2>2. numPages \in 0 .. MaxPages
        BY <1>2
    <2>3. nextRow \in Nat \ {0}
        BY <1>1
    <2> QED
        BY <1>2, <1>6, <1>9, <2>1, <2>2, <2>3 DEF HeapTypes
<1>11. th = [t \in Threads |-> Rest] /\ tlock = [t \in Txns |-> "none"] /\ xlock = [r \in RIDs |-> None] /\ up
    BY DEF Init
<1>12. LockTypes
    BY <1>11, RestFields DEF LockTypes, Modes
<1>13. \A r, q \in RIDs : slot[r].row = slot[q].row /\ slot[r].row > 0 => r = q
    <2> SUFFICES ASSUME NEW r \in RIDs, NEW q \in RIDs, slot[r].row = slot[q].row, slot[r].row > 0 PROVE r = q
        OBVIOUS
    <2>1. slot[r].alloc /\ slot[q].alloc
        BY <1>5
    <2>2. r[1] = q[1] /\ r[2] + 1 = q[2] + 1
        BY <1>5, <2>1
    <2> QED
        BY <1>3, <2>2
<1>14. \A r \in RIDs : Live(r) <=> slot[r].row \in Kept
    <2>1. \A r \in RIDs : Live(r) => slot[r].row \in Kept
        BY <1>7
    <2>2. ASSUME NEW r \in RIDs, slot[r].row \in Kept PROVE Live(r)
      <3>1. PICK q \in RIDs : Live(q) /\ slot[q].row = slot[r].row
        BY <1>7, <2>2
      <3>2. slot[q].row > 0
        BY <1>8, <3>1 DEF Live
      <3> QED
        BY <1>13, <3>1, <3>2
    <2> QED
        BY <2>1, <2>2
<1>15. ASSUME NEW r \in RIDs PROVE SlotOK(r)
    <2>1. slot[r].row < nextRow
        BY <1>8
    <2>2. slot[r].alloc => slot[r].row > 0 /\ r[1] \in inited /\ r[2] < numSlots
      <3> SUFFICES ASSUME slot[r].alloc PROVE slot[r].row > 0 /\ r[1] \in inited /\ r[2] < numSlots
        OBVIOUS
      <3>1. r[1] = 0 /\ r[2] < n /\ slot[r].row = r[2] + 1 /\ r[2] \in Nat
        BY <1>3, <1>5
      <3>2. numPages = 1 /\ 0 \in inited
        BY <1>1, <1>2, <3>1
      <3> QED
        BY <1>1, <1>2, <3>1, <3>2
    <2> QED
        BY <1>5, <1>14, <2>1, <2>2 DEF SlotOK
<1>16. RowInv
    BY <1>7, <1>13, <1>15 DEF RowInv, CommittedFound, OneSlotPerRow
<1>17. LockInv
    <2>1. ASSUME NEW t \in Txns, NEW r \in RIDs PROVE Changed(t, r)
      <3>1. xlock[r] # t /\ r \notin th[t].ins /\ r \notin th[t].dels
        BY <1>11, RestFields, HeapAssumption DEF Threads
      <3> QED
        BY <3>1 DEF Changed
    <2> QED
        BY <1>14, <2>1 DEF LockInv, Settled
<1>18. TablesShared
    BY <1>11 DEF TablesShared, Compatible
<1>19. ThreadInv /\ ScanInv
    <2>1. \A t \in Threads : th[t] = Rest
        BY <1>11
    <2>2. ASSUME NEW t \in Threads PROVE Placed(t) /\ ScanOK(t)
        BY <1>11, <2>1, RestFields DEF Placed, ScanOK, Scanning
    <2>3. BootInv
        BY <2>1, RestFields DEF BootInv, Threads
    <2> QED
        BY <2>2, <2>3 DEF ThreadInv, ScanInv
<1> QED
    BY <1>10, <1>12, <1>16, <1>17, <1>18, <1>19 DEF HInv

\* Every step keeps it.
LEMMA HeapNext ==
    ASSUME HInv, LostInv, [Next]_vars
    PROVE  HInv'
<1>1. ASSUME NEW t \in Threads, Step(t) PROVE HInv'
    <2>1. CASE InsertLock(t)
        BY <2>1, InsertLockStep
    <2>2. CASE Grow(t)
        BY <2>2, GrowStep
    <2>3. CASE TakeSlot(t)
        BY <2>3, TakeSlotStep
    <2>4. CASE LockFails(t)
        BY <2>4, LockFailsStep
    <2>5. CASE Panic(t)
        BY <2>5, RestartStep DEF Panic
    <2>6. CASE ScanLock(t)
        BY <2>6, ScanLockStep
    <2>7. CASE OpenPage(t)
        BY <2>7, OpenPageStep
    <2>8. CASE Fill(t)
        BY <2>8, FillStep
    <2>9. CASE OpenRace(t)
        BY <2>9, OpenRaceStep
    <2>10. CASE NextTuple(t)
        BY <2>10, NextTupleStep
    <2>11. CASE NextPage(t)
        BY <2>11, NextPageStep
    <2>12. CASE Close(t)
        BY <2>12, CloseStep
    <2> QED
        BY <1>1, <2>1, <2>2, <2>3, <2>4, <2>5, <2>6, <2>7, <2>8, <2>9, <2>10, <2>11, <2>12 DEF Step
<1>2. ASSUME NEW t \in Txns,
             \/ Insert(t) \/ DeleteTuple(t) \/ Scan(t, "S") \/ Scan(t, "X") \/ ScanNothing(t)
             \/ FetchFails(t) \/ Commit(t) \/ Abort(t)
      PROVE  HInv'
    <2>1. CASE Insert(t)
        BY <2>1, InsertStep
    <2>2. CASE DeleteTuple(t)
        BY <2>2, DeleteTupleStep
    <2>3. CASE Scan(t, "S") \/ Scan(t, "X")
        BY <2>3, ScanStep
    <2>4. CASE ScanNothing(t)
        BY <2>4, StillStep DEF ScanNothing, diskVars, lockVars, history, Kept
    <2>5. CASE FetchFails(t)
        BY <2>5, FetchFailsStep
    <2>6. CASE Commit(t)
        BY <2>6, CommitStep
    <2>7. CASE Abort(t)
        BY <2>7, AbortStep
    <2> QED
        BY <1>2, <2>1, <2>2, <2>3, <2>4, <2>5, <2>6, <2>7
<1>3. ASSUME NEW p \in Pages, VacuumPage(p) \/ WritePage(p) PROVE HInv'
    <2>1. CASE VacuumPage(p)
        BY <2>1, VacuumPageStep
    <2>2. CASE WritePage(p)
        BY <2>2, StillStep DEF WritePage, lockVars, history, Kept
    <2> QED
        BY <1>3, <2>1, <2>2
<1>4. CASE Crash
    BY <1>4, RestartStep DEF Crash
<1>5. CASE UNCHANGED vars
    BY <1>5, StillStep DEF vars, diskVars, lockVars, history, Kept
<1> QED
    BY <1>1, <1>2, <1>3, <1>4, <1>5 DEF Next

-----------------------------------------------------------------------------
(* Vacuumed slots and lost rows. *)

\* It holds at first.
LEMMA LostInit == Init => LostInv
<1> SUFFICES ASSUME Init PROVE LostInv
    OBVIOUS
<1>1. lost = {} /\ unwritten = {} /\ \A t \in Txns : th[t] = Rest
    BY DEF Init, Threads
<1>2. Rest.ins = {}
    BY DEF Rest
<1> QED
    BY <1>1, <1>2 DEF LostInv

\* Steps that fill, vacuum and recover no slot keep it.
LEMMA LostStays ==
    ASSUME LostInv, numSlots' = numSlots, nextRow' = nextRow, lost' = lost, inited \subseteq inited',
           unwritten' \subseteq unwritten, \A r \in RIDs : slot'[r].row = slot[r].row,
           \A t \in Txns : th[t].ins \subseteq RIDs /\ th'[t].ins \subseteq th[t].ins
    PROVE  LostInv'
BY DEF LostInv

\* Nor do steps that touch no slot and change one thread, whose changes stay as they are.
LEMMA LostMove ==
    ASSUME HInv, LostInv, NEW t \in Threads, \A u \in Threads : u # t => th'[u] = th[u], th'[t].ins = th[t].ins,
           UNCHANGED <<numSlots, nextRow, lost, slot, unwritten>>, inited \subseteq inited'
    PROVE  LostInv'
<1>1. \A u \in Txns : th[u].ins \subseteq RIDs /\ th'[u].ins = th[u].ins
    BY DEF HInv, LockTypes, ThreadType, Threads
<1> QED
    BY <1>1, LostStays

\* A slot is filled with a new row.
LEMMA LostTakeSlot ==
    ASSUME HInv, HInv', LostInv, NEW t \in Threads, TakeSlot(t)
    PROVE  LostInv'
<1> DEFINE p == th[t].page
           i == FindFirstZero({s \in Slots : slot[<<p, s>>].alloc}, hint[p])
           r == <<p, i>>
<1>1. /\ inited' = inited \cup {p} /\ UNCHANGED <<numSlots, unwritten, lost>>
      /\ \/ th' = [th EXCEPT ![t].pc = "grow", ![t].page = p + 1] /\ UNCHANGED <<slot, nextRow>>
         \/ /\ slot' = [slot EXCEPT ![r].alloc = TRUE, ![r].row = nextRow]
            /\ nextRow' = nextRow + 1
            /\ th' = [th EXCEPT ![t] = [Rested(@) EXCEPT !.ins = th[t].ins \cup {r}]]
    BY DEF TakeSlot
<1>2. nextRow \in Nat \ {0} /\ slot \in [RIDs -> SlotType] /\ th \in [Threads -> ThreadType]
    BY DEF HInv, HeapTypes, LockTypes
<1>3. \A u \in Txns : u \in Threads /\ th[u].ins \subseteq RIDs /\ th'[u].ins \subseteq RIDs
    BY <1>2 DEF Threads, ThreadType, HInv, LockTypes
<1> HIDE DEF p, i, r
<1>4. CASE th' = [th EXCEPT ![t].pc = "grow", ![t].page = p + 1] /\ UNCHANGED <<slot, nextRow>>
  <2>1. th'[t].ins = th[t].ins /\ \A u \in Threads : u # t => th'[u] = th[u]
    BY <1>2, <1>4 DEF ThreadType
  <2> QED
    BY <1>1, <1>4, <2>1, LostMove
<1>5. CASE /\ slot' = [slot EXCEPT ![r].alloc = TRUE, ![r].row = nextRow]
           /\ nextRow' = nextRow + 1
           /\ th' = [th EXCEPT ![t] = [Rested(@) EXCEPT !.ins = th[t].ins \cup {r}]]
  <2>1. \A q \in RIDs : slot'[q].row = IF q = r THEN nextRow ELSE slot[q].row
    BY <1>2, <1>5 DEF SlotType
  <2>2. nextRow \notin lost /\ lost \subseteq 1 .. nextRow' - 1
    BY <1>2, <1>5 DEF LostInv
  <2>3. \A u \in Txns : th'[u].ins \subseteq th[u].ins \cup {r}
    <3>1. \A u \in Txns : u # t => th'[u] = th[u]
      BY <1>2, <1>3, <1>5
    <3>2. th'[t] = [Rested(th[t]) EXCEPT !.ins = th[t].ins \cup {r}]
      BY <1>2, <1>5
    <3>3. PICK y \in ThreadType : y = Rested(th[t])
      BY <1>2, RestedFields
    <3>4. th'[t].ins = th[t].ins \cup {r}
      BY <3>2, <3>3 DEF ThreadType
    <3> QED
      BY <3>1, <3>4
  <2>4. ASSUME NEW u \in Txns, NEW q \in th'[u].ins PROVE slot'[q].row \notin lost
    <3>1. q \in RIDs /\ (q = r \/ q \in th[u].ins)
      BY <1>3, <2>3
    <3> QED
      BY <2>1, <2>2, <3>1 DEF LostInv
  <2>5. ASSUME NEW q \in unwritten' PROVE q \in RIDs /\ slot'[q].row > 0 /\ q[1] \in inited' /\ q[2] < numSlots'
    <3>1. q \in RIDs /\ slot[q].row > 0 /\ q[1] \in inited /\ q[2] < numSlots
      BY <1>1 DEF LostInv
    <3> QED
      BY <1>1, <1>2, <2>1, <3>1
  <2> QED
    BY <1>1, <2>2, <2>4, <2>5 DEF LostInv
<1> QED
    BY <1>1, <1>4, <1>5

\* A slot that is vacuumed has been in use.
LEMMA LostVacuum ==
    ASSUME HInv, LostInv, NEW p \in Pages, VacuumPage(p)
    PROVE  LostInv'
<1> DEFINE free == {r \in RIDs : r[1] = p /\ slot[r].del /\ xlock[r] = None}
<1>1. /\ slot' = [r \in RIDs |-> IF r \in free THEN [slot[r] EXCEPT !.alloc = FALSE, !.del = FALSE] ELSE slot[r]]
      /\ unwritten' = unwritten \cup free
      /\ UNCHANGED <<numSlots, inited, th, nextRow, lost>>
    BY DEF VacuumPage, history
<1>2. \A r \in free : r \in RIDs /\ slot[r].row > 0 /\ r[1] \in inited /\ r[2] < numSlots
    BY DEF HInv, RowInv, SlotOK
<1> HIDE DEF free
<1>3. \A r \in RIDs : slot'[r].row = slot[r].row
    BY <1>1 DEF HInv, HeapTypes, SlotType
<1>4. \A t \in Txns : th[t].ins \subseteq RIDs
    BY DEF HInv, LockTypes, ThreadType, Threads
<1>5. ASSUME NEW r \in unwritten' PROVE r \in RIDs /\ slot'[r].row > 0 /\ r[1] \in inited' /\ r[2] < numSlots'
    BY <1>1, <1>2, <1>3 DEF LostInv
<1>6. ASSUME NEW t \in Txns, NEW r \in th'[t].ins PROVE slot'[r].row \notin lost'
    <2>1. lost' = lost /\ r \in th[t].ins /\ r \in RIDs
      BY <1>1, <1>4
    <2>2. slot[r].row \notin lost
      BY <2>1 DEF LostInv
    <2> QED
      BY <1>3, <2>1, <2>2
<1>7. lost' \subseteq 1 .. nextRow' - 1
    BY <1>1 DEF LostInv
<1> QED
    BY <1>5, <1>6, <1>7 DEF LostInv

\* A restart loses committed rows only, and finds what the slots hold now.
LEMMA LostRestart ==
    ASSUME HInv, LostInv, Restart
    PROVE  LostInv'
<1>1. lost' \subseteq lost \cup Kept
  <2> DEFINE keeps == {r \in RIDs : slot[r].alloc /\ slot[r].row \in Kept}
  <2>1. PICK back : lost' = lost \cup {slot[r].row : r \in keeps \ back}
    BY DEF Restart
  <2> QED
    BY <2>1
<1>2. unwritten' = {} /\ nextRow' = nextRow
    BY DEF Restart
<1>3. \A t \in Txns : th'[t] = Rest
    BY HeapAssumption DEF Restart, Threads
<1>4. Rest.ins = {}
    BY DEF Rest
<1> QED
    BY <1>1, <1>2, <1>3, <1>4 DEF LostInv, HInv, HeapTypes

\* So does the end of a transaction, which keeps the rows of the slots.
LEMMA LostEnd ==
    ASSUME HInv, LostInv, NEW t \in Txns, EndTxn(t), unwritten' \subseteq unwritten,
           \A r \in RIDs : slot'[r].row = slot[r].row
    PROVE  LostInv'
<1>1. UNCHANGED <<numSlots, inited, nextRow, lost>> /\ th' = [th EXCEPT ![t] = Rest]
    BY DEF EndTxn
<1>2. \A u \in Txns : th[u].ins \subseteq RIDs /\ th'[u] = IF u = t THEN Rest ELSE th[u]
    BY <1>1 DEF HInv, LockTypes, ThreadType, Threads
<1>3. Rest.ins = {}
    BY DEF Rest
<1> QED
    BY <1>1, <1>2, <1>3, LostStays

\* Every step keeps it.
LEMMA LostNext ==
    ASSUME HInv, HInv', LostInv, [Next]_vars
    PROVE  LostInv'
<1>0. th \in [Threads -> ThreadType] /\ slot \in [RIDs -> SlotType] /\ \A u \in Txns : u \in Threads
    BY DEF HInv, LockTypes, HeapTypes, Threads
<1> USE DEF diskVars, lockVars, history
<1>1. ASSUME NEW t \in Threads, Step(t) PROVE LostInv'
    <2>1. CASE TakeSlot(t)
        BY <2>1, LostTakeSlot
    <2>2. CASE Panic(t)
        BY <2>2, LostRestart DEF Panic
    <2>3. CASE LockFails(t) \/ Close(t)
      <3>1. PICK e \in BOOLEAN : e = (tlock[t] # "none")
        OBVIOUS
      <3>2. PICK y \in ThreadType : y = Rested(th[t]) /\ y.ins = th[t].ins
        BY <1>0, RestedFields
      <3>3. \/ th' = [th EXCEPT ![t] = y]
            \/ th' = [th EXCEPT ![t] = [y EXCEPT !.err = e]]
        BY <2>3, <3>1, <3>2 DEF LockFails, Close
      <3>4. th'[t].ins = th[t].ins /\ \A u \in Threads : u # t => th'[u] = th[u]
        BY <1>0, <3>2, <3>3 DEF ThreadType
      <3>5. UNCHANGED <<numSlots, nextRow, lost, slot, unwritten, inited>>
        BY <2>3 DEF LockFails, Close
      <3> QED
        BY <3>4, <3>5, LostMove
    <2>4. CASE \/ InsertLock(t) \/ Grow(t) \/ ScanLock(t) \/ OpenPage(t) \/ Fill(t) \/ OpenRace(t)
               \/ NextTuple(t) \/ NextPage(t)
      <3>1. UNCHANGED <<numSlots, nextRow, lost, slot, unwritten, inited>>
        BY <2>4 DEF InsertLock, Grow, ScanLock, OpenPage, Fill, OpenRace, NextTuple, NextPage
      <3>2. th'[t].ins = th[t].ins /\ \A u \in Threads : u # t => th'[u] = th[u]
        <4>1. CASE InsertLock(t) \/ Grow(t) \/ Fill(t) \/ NextPage(t) \/ OpenPage(t)
          BY <1>0, <4>1 DEF InsertLock, Grow, Fill, NextPage, OpenPage, ThreadType
        <4>2. CASE ScanLock(t)
          BY <1>0, <4>2 DEF ScanLock, ThreadType
        <4>3. CASE OpenRace(t)
          BY <1>0, <4>3 DEF OpenRace, ThreadType
        <4>4. CASE NextTuple(t)
          BY <1>0, <4>4 DEF NextTuple, ThreadType
        <4> QED
          BY <2>4, <4>1, <4>2, <4>3, <4>4
      <3> QED
        BY <3>1, <3>2, LostMove
    <2> QED
        BY <1>1, <2>1, <2>2, <2>3, <2>4 DEF Step
<1>2. ASSUME NEW t \in Txns,
             \/ Insert(t) \/ DeleteTuple(t) \/ Scan(t, "S") \/ Scan(t, "X") \/ ScanNothing(t)
             \/ FetchFails(t) \/ Commit(t) \/ Abort(t)
      PROVE  LostInv'
    <2>1. CASE Insert(t) \/ Scan(t, "S") \/ Scan(t, "X") \/ ScanNothing(t)
      <3>1. UNCHANGED <<numSlots, nextRow, lost, slot, unwritten, inited>>
        BY <2>1 DEF Insert, Scan, ScanNothing
      <3>2. th'[t].ins = th[t].ins /\ \A u \in Threads : u # t => th'[u] = th[u]
        BY <1>0, <2>1 DEF Insert, Scan, ScanNothing, ThreadType
      <3> QED
        BY <1>0, <3>1, <3>2, LostMove
    <2>2. CASE DeleteTuple(t)
      <3>1. PICK r \in RIDs : slot' = [slot EXCEPT ![r].del = TRUE] /\ th' = [th EXCEPT ![t].dels = @ \cup {r}]
        BY <2>2 DEF DeleteTuple
      <3>2. UNCHANGED <<numSlots, nextRow, lost, unwritten, inited>>
        BY <2>2 DEF DeleteTuple
      <3>3. \A q \in RIDs : slot'[q].row = slot[q].row
        BY <1>0, <3>1 DEF SlotType
      <3>4. \A u \in Txns : th[u].ins \subseteq RIDs /\ th'[u].ins = th[u].ins
        BY <1>0, <3>1 DEF ThreadType
      <3> QED
        BY <3>2, <3>3, <3>4, LostStays
    <2>3. CASE FetchFails(t)
      <3>1. PICK y \in ThreadType : y = Rested(th[t]) /\ y.ins = th[t].ins
        BY <1>0, RestedFields
      <3>2. th' = [th EXCEPT ![t] = [y EXCEPT !.err = TRUE]]
        BY <2>3, <3>1 DEF FetchFails
      <3>3. th'[t].ins = th[t].ins /\ \A u \in Threads : u # t => th'[u] = th[u]
        BY <1>0, <3>1, <3>2 DEF ThreadType
      <3>4. UNCHANGED <<numSlots, nextRow, lost, slot, unwritten, inited>>
        BY <2>3 DEF FetchFails
      <3> QED
        BY <1>0, <3>3, <3>4, LostMove
    <2>4. CASE Commit(t)
        BY <2>4, LostEnd DEF Commit
    <2>5. CASE Abort(t)
      <3>1. EndTxn(t) /\ unwritten' \subseteq unwritten
        BY <2>5 DEF Abort
      <3>2. \A r \in RIDs : slot'[r].row = slot[r].row
        BY <1>0, <2>5 DEF Abort, SlotType
      <3> QED
        BY <3>1, <3>2, LostEnd
    <2> QED
        BY <1>2, <2>1, <2>2, <2>3, <2>4, <2>5
<1>3. ASSUME NEW p \in Pages, VacuumPage(p) \/ WritePage(p) PROVE LostInv'
    <2>1. CASE VacuumPage(p)
        BY <2>1, LostVacuum
    <2>2. CASE WritePage(p)
        BY <2>2 DEF WritePage, LostInv
    <2> QED
        BY <1>3, <2>1, <2>2
<1>4. CASE Crash
    BY <1>4, LostRestart DEF Crash
<1>5. CASE UNCHANGED vars
    BY <1>5 DEF vars, LostInv
<1> QED
    BY <1>1, <1>2, <1>3, <1>4, <1>5 DEF Next
-----------------------------------------------------------------------------
(* The theorems. *)

\* The inductive invariant holds in every state: slots, rows, locks and iterators agree.
THEOREM HeapInvariant == Spec => [](HInv /\ LostInv)
<1>1. HInv /\ LostInv /\ [Next]_vars => HInv' /\ LostInv'
  <2> SUFFICES ASSUME HInv, LostInv, [Next]_vars PROVE HInv' /\ LostInv'
    OBVIOUS
  <2>1. HInv'
    BY HeapNext
  <2>2. LostInv'
    BY <2>1, LostNext
  <2> QED
    BY <2>1, <2>2
<1>2. Init => HInv /\ LostInv
    BY HeapInit, LostInit
<1> QED
    BY <1>1, <1>2, PTL DEF Spec

\* It implies that every committed row is in one slot.
LEMMA HeapKeepsRows == HInv => RowsKept
<1> SUFFICES ASSUME HInv PROVE RowsKept
    OBVIOUS
<1>1. ASSUME NEW row \in Kept
      PROVE  \E r \in RIDs :
                /\ Slotted(row) = {r} /\ r[1] \in inited /\ r[1] < numPages /\ r[2] < numSlots
                /\ slot[r].del => \E t \in Txns : xlock[r] = t /\ r \in th[t].dels
    <2>1. PICK r \in RIDs : slot[r].row = row
        BY DEF HInv, RowInv, CommittedFound
    <2>2. SlotOK(r) /\ Settled(r) /\ xlock[r] \in Txns \cup {None}
        BY DEF HInv, RowInv, LockInv, LockTypes
    <2>3. slot[r].alloc /\ slot[r].row > 0 /\ r[1] \in inited /\ r[2] < numSlots
        BY <2>1, <2>2 DEF SlotOK
    <2>4. Slotted(row) = {r}
        BY <2>1, <2>3 DEF Slotted, HInv, RowInv, OneSlotPerRow
    <2>5. r[1] < numPages
        <3>1. \A p \in inited : p < numPages
            BY DEF HInv, HeapTypes
        <3> QED
            BY <2>3, <3>1, Zenon
    <2>6. ASSUME slot[r].del PROVE \E t \in Txns : xlock[r] = t /\ r \in th[t].dels
        <3>1. xlock[r] \in Txns
            BY <2>1, <2>2, <2>6 DEF Settled, Live
        <3>2. Changed(xlock[r], r)
            BY <3>1 DEF HInv, LockInv
        <3> QED
            BY <2>6, <3>1, <3>2 DEF Changed
    <2> QED
        BY <2>3, <2>4, <2>5, <2>6
<1>2. ASSUME NEW t \in Txns, NEW r \in th[t].ins PROVE slot[r].alloc /\ xlock[r] = t
    <2>1. r \in RIDs
        BY ThreadKnown DEF Threads, ThreadType
    <2> QED
        BY <2>1 DEF HInv, LockInv, Changed
<1> QED
    BY <1>1, <1>2 DEF RowsKept, Kept

\* It implies that an iterator at its end has returned what it had to.
LEMMA HeapScansExactly == HInv => ScanExact
<1> SUFFICES ASSUME HInv, NEW t \in Threads, ScanEnd(t), ~th[t].late, ~th[t].torn PROVE th[t].res = Target(t)
    BY DEF ScanExact, Target
<1>1. Scanning(t)
    BY DEF ScanEnd, Scanning
<1>2. Target(t) = LiveRows /\ \A r \in RIDs : Live(r) => r[1] < th[t].np
    BY <1>1, ThreadKnown DEF ScanOK
<1> DEFINE P(q) == q[1] < th[t].page \/ (q[1] = th[t].page /\ q[2] <= th[t].slot)
<1>3. th[t].res = {slot[r].row : r \in {q \in RIDs : Live(q) /\ P(q)}}
    BY <1>1, IteratorKnown
<1>4. ASSUME NEW q \in RIDs, Live(q) PROVE P(q)
    <2>1. PICK a \in Nat, b \in Slots : q = <<a, b>> /\ a = q[1] /\ b = q[2]
        BY AddressParts DEF Pages
    <2>2. b \in Nat
        BY DEF Slots
    <2>3. PICK x \in ThreadType : x = th[t] /\ x.page \in Nat /\ x.np \in Nat /\ x.slot \in Int
        BY ThreadKnown DEF ThreadType
    <2>4. a = x.page => b <= x.slot
        BY <1>4, <2>1, <2>2, <2>3 DEF Ahead, ScanEnd
    <2>5. a < x.np /\ x.page + 1 >= x.np
        BY <1>2, <1>4, <2>1, <2>3 DEF ScanEnd
    <2> QED
        BY <2>1, <2>2, <2>3, <2>4, <2>5
<1> HIDE DEF P
<1> QED
    BY <1>2, <1>3, <1>4 DEF LiveRows

\* No tuple is overwritten, and none is lost but by a crash that finds it in a slot that was
\* vacuumed and filled again since its page was last written: otherwise the allocation
\* bitmap, the slot locks that VacuumPage respects, undo and recovery together keep every
\* committed row in exactly one slot.
THEOREM TuplesKept == Spec => []RowsKept
BY HeapInvariant, HeapKeepsRows, PTL

\* A scan under its table lock returns exactly the rows that were there when it got the lock,
\* and the scan that rebuilds the indexes returns all committed rows that were not lost.
THEOREM ScansAreExact == Spec => []ScanExact
BY HeapInvariant, HeapScansExactly, PTL
=============================================================================
