--------------------------- MODULE RecoveryProofs ---------------------------
(***************************************************************************)
(* Proofs about Recovery, for any pages, slots and bounds:                 *)
(*   RecoveryTypes          LSNs lie in the log, after every crash too     *)
(*   SnapshotsHaveNoEnded   a checkpoint's snapshot names nobody who had   *)
(*                          ended before the checkpoint began              *)
(* The scans of restart are recursive functions of the log.  What is said  *)
(* of every point of a scan is proved by its least counterexample.         *)
(***************************************************************************)
EXTENDS Recovery, FiniteSetTheorems, SequenceTheorems, WellFoundedInduction, TLAPS

-----------------------------------------------------------------------------
(* Operators *)

\* A set of natural numbers that is not empty has a smallest element.
LEMMA SmallestIn ==
    ASSUME NEW S \in SUBSET Nat, S # {}
    PROVE  Smallest(S) \in S /\ \A y \in S : Smallest(S) <= y
<1>1. PICK x \in S : \A y \in S : ~ (<<y, x>> \in OpToRel(<, Nat))
    BY WFMin, NatLessThanWellFounded, Zenon
<1>2. \A y \in S : <<y, x>> \in Nat \X Nat /\ <<y, x>>[1] = y /\ <<y, x>>[2] = x
    OBVIOUS
<1>3. \A y \in S : ~ (y < x)
    BY <1>1, <1>2, Zenon DEF OpToRel
<1>4. \A y \in S : x <= y
    BY <1>3
<1> QED
    BY <1>4 DEF Smallest

\* One that is bounded has a largest.
LEMMA LargestIn ==
    ASSUME NEW b \in Nat, NEW S \in SUBSET (0 .. b), S # {}
    PROVE  Largest(S) \in S /\ \A y \in S : y <= Largest(S)
<1> DEFINE U == {u \in Nat : \A y \in S : y <= u}
           m == Smallest(U)
<1>1. U \in SUBSET Nat /\ b \in U
    OBVIOUS
<1>2. m \in U /\ \A u \in U : m <= u
    BY <1>1, SmallestIn
<1> HIDE DEF m
<1>3. m \in S
    <2> SUFFICES ASSUME m \notin S PROVE FALSE
        OBVIOUS
    <2>1. PICK y \in S : TRUE
        OBVIOUS
    <2>2. m > 0 /\ m - 1 \in U
        BY <1>2, <2>1
    <2> QED
        BY <1>2, <2>2
<1> QED
    BY <1>2, <1>3 DEF Largest

\* One step of the scan that fills an undo buffer.
BufferStep(lg, from, t, f, i) ==
    IF i < from \/ i = 0 THEN <<>>
    ELSE IF IsData(lg[i]) /\ lg[i].txn = t THEN Buffered(f[i - 1], lg[i], i) ELSE f[i - 1]

\* f holds the buffer after each of the first n records.
IsBuffer(lg, from, t, n, f) == f = [i \in 0 .. n |-> BufferStep(lg, from, t, f, i)]

\* The scan is well defined.
LEMMA BufferExists ==
    ASSUME NEW lg, NEW from, NEW t, NEW n \in Nat
    PROVE  \E f : IsBuffer(lg, from, t, n, f)
<1> DEFINE bad == {m \in Nat : ~ \E f : IsBuffer(lg, from, t, m, f)}
<1> SUFFICES ASSUME bad # {} PROVE FALSE
    OBVIOUS
<1> DEFINE m == Smallest(bad)
<1>1. m \in bad /\ \A y \in bad : m <= y
    BY SmallestIn
<1> HIDE DEF m
<1>2. CASE m = 0
    <2> DEFINE f == [i \in 0 .. 0 |-> <<>>]
    <2>1. IsBuffer(lg, from, t, 0, f)
        BY DEF IsBuffer, BufferStep
    <2> QED
        BY <1>1, <1>2, <2>1
<1>3. CASE m # 0
    <2>1. m - 1 \in Nat /\ m - 1 \notin bad
        BY <1>1, <1>3
    <2>2. PICK f : IsBuffer(lg, from, t, m - 1, f)
        BY <2>1
    <2> DEFINE g == [i \in 0 .. m |-> IF i = m THEN BufferStep(lg, from, t, f, m) ELSE f[i]]
    <2>3. \A i \in 0 .. m - 1 : g[i] = f[i] /\ f[i] = BufferStep(lg, from, t, f, i)
        <3>1. \A i \in 0 .. m - 1 : f[i] = BufferStep(lg, from, t, f, i)
            BY <2>2, Zenon DEF IsBuffer
        <3>2. \A i \in 0 .. m - 1 : i \in 0 .. m /\ i # m
            BY <1>1
        <3> QED
            BY <3>1, <3>2
    <2>4. ASSUME NEW i \in 0 .. m PROVE BufferStep(lg, from, t, g, i) = BufferStep(lg, from, t, f, i)
        <3>1. CASE i = 0
            BY <3>1 DEF BufferStep
        <3>2. CASE i # 0
            <4>1. g[i - 1] = f[i - 1]
                BY <1>1, <2>1, <2>3, <3>2
            <4> HIDE DEF g
            <4> QED
                BY <4>1 DEF BufferStep
        <3> QED
            BY <3>1, <3>2
    <2>5. \A i \in 0 .. m : g[i] = BufferStep(lg, from, t, g, i)
        <3>1. g[m] = BufferStep(lg, from, t, f, m) /\ m \in 0 .. m
            BY <1>1
        <3>2. \A i \in 0 .. m : i = m \/ i \in 0 .. m - 1
            BY <1>1
        <3> HIDE DEF g
        <3> QED
            BY <2>3, <2>4, <3>1, <3>2
    <2>6. IsBuffer(lg, from, t, m, g)
        <3>1. g = [i \in 0 .. m |-> g[i]]
            OBVIOUS
        <3> HIDE DEF g
        <3> QED
            BY <2>5, <3>1 DEF IsBuffer
    <2> QED
        BY <1>1, <2>6
<1> QED
    BY <1>2, <1>3

\* The undo buffer is the last one of a scan.
LEMMA UndoBufferIs ==
    ASSUME NEW lg, NEW from, NEW t, Len(lg) \in Nat
    PROVE  \E f : IsBuffer(lg, from, t, Len(lg), f) /\ UndoBuffer(lg, from, t) = f[Len(lg)]
<1> DEFINE b == CHOOSE f : IsBuffer(lg, from, t, Len(lg), f)
<1>1. IsBuffer(lg, from, t, Len(lg), b)
    BY BufferExists
<1>2. UndoBuffer(lg, from, t) = b[Len(lg)]
    BY DEF UndoBuffer, IsBuffer, BufferStep
<1> QED
    BY <1>1, <1>2

-----------------------------------------------------------------------------
(* Records and pages *)

\* Transaction ids start at 1.
TxnIds == Nat \ {0}

\* The functions from some of the elements of D to LSNs: the tables of a checkpoint.
Tables(D) == UNION {[X -> Nat] : X \in SUBSET D}

\* The kinds of records that change a tuple, and that compensate such a change.
Changes == {"Insert", "Delete", "Update"}
CLRs == {"InsertCLR", "DeleteCLR", "UpdateCLR"}

\* The records a log is made of.
TxnRecords == [kind : {"Begin", "Commit", "Abort"}, txn : TxnIds]
DataRecords == [kind : Changes \cup CLRs, txn : TxnIds, rid : Rids, old : Nat, new : Nat]
BeginCheckpoints == [kind : {"BeginCheckpoint"}]
EndCheckpoints == [kind : {"EndCheckpoint"}, att : Tables(TxnIds), dpt : Tables(Pages)]
LogRecord == TxnRecords \cup DataRecords \cup BeginCheckpoints \cup EndCheckpoints

\* What the kind of a record says of its fields.
LEMMA RecordFields ==
    ASSUME NEW rec \in LogRecord
    PROVE  /\ rec.kind \in {"Begin", "Commit", "Abort", "BeginCheckpoint", "EndCheckpoint"} \cup Changes \cup CLRs
           /\ IsData(rec) <=> rec.kind \in Changes \cup CLRs
           /\ IsCLR(rec) <=> rec.kind \in CLRs
           /\ HasTxn(rec) => rec.txn \in TxnIds
           /\ IsData(rec) => /\ rec.rid \in Rids /\ rec.rid[1] \in Pages /\ rec.rid[2] \in Slots
                             /\ rec.old \in Nat /\ rec.new \in Nat
           /\ rec.kind = "EndCheckpoint" => rec.att \in Tables(TxnIds) /\ rec.dpt \in Tables(Pages)
<1>1. CASE rec \in TxnRecords
    BY <1>1 DEF TxnRecords, Changes, CLRs, IsData, IsCLR, HasTxn, IsTxnEnd
<1>2. CASE rec \in DataRecords
    <2>1. rec.rid \in Rids /\ rec.kind \in Changes \cup CLRs /\ rec.txn \in TxnIds /\ rec.old \in Nat /\ rec.new \in Nat
        BY <1>2 DEF DataRecords
    <2>2. rec.rid[1] \in Pages /\ rec.rid[2] \in Slots
        BY <2>1 DEF Rids
    <2> QED
        BY <2>1, <2>2 DEF Changes, CLRs, IsData, IsCLR
<1>3. CASE rec \in BeginCheckpoints
    BY <1>3 DEF BeginCheckpoints, Changes, CLRs, IsData, IsCLR, HasTxn, IsTxnEnd
<1>4. CASE rec \in EndCheckpoints
    BY <1>4 DEF EndCheckpoints, Changes, CLRs, IsData, IsCLR, HasTxn, IsTxnEnd
<1> QED
    BY <1>1, <1>2, <1>3, <1>4 DEF LogRecord

\* The records the code makes.
LEMMA RecordsMade ==
    /\ \A k \in {"Begin", "Commit", "Abort"}, t \in TxnIds : TxnRecord(k, t) \in LogRecord
    /\ \A k \in Changes, t \in TxnIds, r \in Rids, old, new \in Nat : DataRecord(k, t, r, old, new) \in LogRecord
    /\ BeginCheckpoint \in LogRecord
    /\ \A att \in Tables(TxnIds), dpt \in Tables(Pages) : EndCheckpoint(att, dpt) \in LogRecord
    /\ \A rec \in LogRecord : rec.kind \in Changes =>
            NewCLR(rec) \in LogRecord /\ NewCLR(rec).kind \in CLRs /\ NewCLR(rec).txn = rec.txn
<1>1. \A k \in {"Begin", "Commit", "Abort"}, t \in TxnIds : TxnRecord(k, t) \in LogRecord
    BY DEF LogRecord, TxnRecords, TxnRecord
<1>2. \A k \in Changes \cup CLRs, t \in TxnIds, r \in Rids, old, new \in Nat : DataRecord(k, t, r, old, new) \in LogRecord
    BY DEF LogRecord, DataRecords, DataRecord
<1>3. BeginCheckpoint \in LogRecord
    BY DEF LogRecord, BeginCheckpoints, BeginCheckpoint
<1>4. \A att \in Tables(TxnIds), dpt \in Tables(Pages) : EndCheckpoint(att, dpt) \in LogRecord
    BY DEF LogRecord, EndCheckpoints, EndCheckpoint
<1>5. ASSUME NEW rec \in LogRecord, rec.kind \in Changes
      PROVE  NewCLR(rec) \in LogRecord /\ NewCLR(rec).kind \in CLRs /\ NewCLR(rec).txn = rec.txn
    <2>1. ClrOf[rec.kind] \in CLRs
        BY <1>5 DEF ClrOf, Changes, CLRs
    <2>2. rec.txn \in TxnIds /\ rec.rid \in Rids /\ rec.old \in Nat /\ rec.new \in Nat
        BY <1>5, RecordFields DEF HasTxn, IsData
    <2>3. NewCLR(rec) \in LogRecord
        BY <1>2, <2>1, <2>2 DEF NewCLR
    <2>4. NewCLR(rec).kind = ClrOf[rec.kind] /\ NewCLR(rec).txn = rec.txn
        BY DEF NewCLR, DataRecord
    <2> QED
        BY <2>1, <2>3, <2>4
<1> QED
    BY <1>1, <1>2, <1>3, <1>4, <1>5

\* A slot: its two bits and its tuple.
SlotType == [alloc : BOOLEAN, del : BOOLEAN, val : Nat]

\* A record turns a slot into a slot.
LEMMA SlotApplied ==
    ASSUME NEW s \in SlotType, NEW rec \in LogRecord, IsData(rec)
    PROVE  ApplyToSlot(s, rec) \in SlotType
<1>1. rec.kind \in Changes \cup CLRs /\ rec.new \in Nat
    BY RecordFields
<1>2. /\ [s EXCEPT !.alloc = TRUE, !.val = rec.new] \in SlotType
      /\ [s EXCEPT !.val = rec.new] \in SlotType
      /\ [s EXCEPT !.del = TRUE] \in SlotType
      /\ [s EXCEPT !.del = FALSE] \in SlotType
    BY <1>1, Zenon DEF SlotType
<1> QED
    BY <1>1, <1>2 DEF ApplyToSlot, Changes, CLRs

\* ... and a page into a page.
LEMMA PageApplied ==
    ASSUME NEW page \in PageType, NEW rec \in LogRecord, IsData(rec), NEW lsn \in Nat
    PROVE  ApplyRecord(page, rec, lsn) \in PageType
<1>1. page.lsn \in Nat /\ page.slots \in [Slots -> SlotType]
    BY DEF PageType, SlotType
<1>2. rec.rid[2] \in Slots
    BY RecordFields
<1>3. ApplyToSlot(page.slots[rec.rid[2]], rec) \in SlotType
    BY <1>1, <1>2, SlotApplied
<1>4. [page.slots EXCEPT ![rec.rid[2]] = ApplyToSlot(@, rec)] \in [Slots -> SlotType]
    BY <1>1, <1>2, <1>3
<1>5. (IF lsn > page.lsn THEN lsn ELSE page.lsn) \in Nat
    BY <1>1
<1> QED
    BY <1>4, <1>5 DEF ApplyRecord, PageType, SlotType

\* Vacuum frees slots.
LEMMA PageVacuumed ==
    ASSUME NEW page \in PageType, NEW locked
    PROVE  Vacuumed(page, locked) \in PageType
<1>1. page.lsn \in Nat /\ page.slots \in [Slots -> SlotType]
    BY DEF PageType, SlotType
<1>2. \A s \in SlotType : [s EXCEPT !.alloc = FALSE, !.del = FALSE] \in SlotType
    BY Zenon DEF SlotType
<1> DEFINE slots == [s \in Slots |-> IF page.slots[s].del /\ s \notin locked
                         THEN [page.slots[s] EXCEPT !.alloc = FALSE, !.del = FALSE]
                         ELSE page.slots[s]]
<1>3. slots \in [Slots -> SlotType]
    BY <1>1, <1>2
<1>4. Vacuumed(page, locked) = [page EXCEPT !.slots = slots]
    BY DEF Vacuumed
<1> HIDE DEF slots
<1> QED
    BY <1>1, <1>3, <1>4 DEF PageType, SlotType

-----------------------------------------------------------------------------
(* What restart computes *)

\* The buffer holds LSNs of changes of t, none of them past n.
GoodBuffer(lg, t, n, buffer) ==
    /\ buffer \in Seq(1 .. n)
    /\ \A j \in 1 .. Len(buffer) : lg[buffer[j]].kind \in Changes /\ lg[buffer[j]].txn = t

\* Pushing and popping keep a buffer good.
LEMMA GoodPush ==
    ASSUME NEW lg, NEW t, NEW n \in Nat, NEW m \in Nat, n < m, NEW b, GoodBuffer(lg, t, n, b),
           lg[m].kind \in Changes, lg[m].txn = t
    PROVE  GoodBuffer(lg, t, m, Append(b, m))
<1>1. b \in Seq(1 .. n) /\ Len(b) \in Nat /\ \A j \in 1 .. Len(b) : b[j] \in 1 .. n
    BY DEF GoodBuffer
<1>2. b \in Seq(1 .. m) /\ m \in 1 .. m
    <2>1. DOMAIN b = 1 .. Len(b) /\ \A j \in 1 .. Len(b) : b[j] \in 1 .. m
        BY <1>1
    <2>2. b = [j \in 1 .. Len(b) |-> b[j]]
        BY <1>1, <2>1
    <2> QED
        BY <1>1, <2>1, <2>2, IsASeq
<1>3. /\ Append(b, m) \in Seq(1 .. m) /\ Len(Append(b, m)) = Len(b) + 1
      /\ \A j \in 1 .. Len(b) : Append(b, m)[j] = b[j]
      /\ Append(b, m)[Len(b) + 1] = m
    BY <1>2, AppendProperties
<1>4. \A j \in 1 .. Len(b) : lg[b[j]].kind \in Changes /\ lg[b[j]].txn = t
    BY DEF GoodBuffer
<1>5. \A j \in 1 .. Len(b) + 1 : j \in 1 .. Len(b) \/ j = Len(b) + 1
    BY <1>1
<1>6. \A j \in 1 .. Len(b) + 1 : lg[Append(b, m)[j]].kind \in Changes /\ lg[Append(b, m)[j]].txn = t
    BY <1>3, <1>4, <1>5, Zenon
<1> QED
    BY <1>3, <1>6 DEF GoodBuffer

\* ... and so does popping the last entry.
LEMMA GoodPop ==
    ASSUME NEW lg, NEW t, NEW n \in Nat, NEW b, GoodBuffer(lg, t, n, b), b # <<>>
    PROVE  GoodBuffer(lg, t, n, SubSeq(b, 1, Len(b) - 1))
<1>1. b \in Seq(1 .. n) /\ Len(b) \in Nat /\ Len(b) # 0
    BY EmptySeq DEF GoodBuffer
<1> DEFINE c == SubSeq(b, 1, Len(b) - 1)
<1>2. c \in Seq(1 .. n) /\ Len(c) = Len(b) - 1 /\ \A j \in 1 .. Len(b) - 1 : c[j] = b[j]
    <2>1. 1 \in 1 .. Len(b) + 1 /\ Len(b) - 1 \in (1 - 1) .. Len(b)
        BY <1>1
    <2>2. Len(c) = (IF 1 <= Len(b) - 1 THEN (Len(b) - 1) - 1 + 1 ELSE 0) /\ c \in Seq(1 .. n)
          /\ \A j \in 1 .. (Len(b) - 1) - 1 + 1 : c[j] = b[1 + j - 1]
        BY <1>1, <2>1, SubSeqProperties
    <2> HIDE DEF c
    <2>3. Len(c) = Len(b) - 1
        <3>1. \A k \in Nat : k # 0 => (IF 1 <= k - 1 THEN (k - 1) - 1 + 1 ELSE 0) = k - 1
            OBVIOUS
        <3> QED
            BY <1>1, <2>2, <3>1, Zenon
    <2>4. ASSUME NEW j \in 1 .. Len(b) - 1 PROVE c[j] = b[j]
        <3>1. j \in 1 .. (Len(b) - 1) - 1 + 1 /\ 1 + j - 1 = j
            BY <1>1
        <3> QED
            BY <2>2, <3>1
    <2> QED
        BY <2>2, <2>3, <2>4
<1> HIDE DEF c
<1>3. \A j \in 1 .. Len(c) : j \in 1 .. Len(b) /\ c[j] = b[j]
    BY <1>1, <1>2
<1>4. GoodBuffer(lg, t, n, c)
    BY <1>2, <1>3 DEF GoodBuffer
<1> QED
    BY <1>4 DEF c

\* A buffer stays good when the log grows.
LEMMA GoodLater ==
    ASSUME NEW lg, NEW t, NEW n \in Nat, NEW m \in Nat, n <= m, NEW b, GoodBuffer(lg, t, n, b)
    PROVE  GoodBuffer(lg, t, m, b)
<1>1. b \in Seq(1 .. n) /\ Len(b) \in Nat /\ DOMAIN b = 1 .. Len(b) /\ \A j \in 1 .. Len(b) : b[j] \in 1 .. m
    BY DEF GoodBuffer
<1>2. b = [j \in 1 .. Len(b) |-> b[j]]
    BY <1>1
<1>3. b \in Seq(1 .. m)
    BY <1>1, <1>2, IsASeq
<1> QED
    BY <1>3 DEF GoodBuffer

\* At every point of the scan the buffer is good, or an underflow has been found.
LEMMA BuffersGood ==
    ASSUME NEW lg \in Seq(LogRecord), NEW from \in Nat, NEW t, NEW f, IsBuffer(lg, from, t, Len(lg), f)
    PROVE  \A i \in 0 .. Len(lg) : f[i] = Underflow \/ GoodBuffer(lg, t, i, f[i])
<1> DEFINE ok(i) == f[i] = Underflow \/ GoodBuffer(lg, t, i, f[i])
           bad == {i \in 0 .. Len(lg) : ~ ok(i)}
<1> SUFFICES ASSUME bad # {} PROVE FALSE
    OBVIOUS
<1> DEFINE m == Smallest(bad)
<1>1. Len(lg) \in Nat /\ bad \in SUBSET Nat
    OBVIOUS
<1>2. m \in bad /\ \A y \in bad : m <= y
    BY <1>1, SmallestIn
<1> HIDE DEF m
<1>3. f[m] = BufferStep(lg, from, t, f, m) /\ m \in 0 .. Len(lg) /\ ~ ok(m)
    <2>1. m \in 0 .. Len(lg) /\ ~ ok(m)
        BY <1>2
    <2> QED
        BY <2>1, Zenon DEF IsBuffer
<1>4. GoodBuffer(lg, t, m, <<>>)
    BY DEF GoodBuffer
<1>5. m # 0 /\ ~(m < from)
    BY <1>3, <1>4 DEF BufferStep
<1>6. m \in 1 .. Len(lg) /\ m - 1 \in 0 .. Len(lg) /\ m - 1 \in Nat /\ m \in Nat /\ m - 1 < m /\ m - 1 <= m
    BY <1>1, <1>3, <1>5
<1>7. ok(m - 1)
    BY <1>2, <1>6
<1> HIDE DEF bad
<1> DEFINE b == f[m - 1]
<1>8. b # Underflow => GoodBuffer(lg, t, m - 1, b)
    BY <1>7
<1> HIDE DEF b
<1>9. f[m] = IF IsData(lg[m]) /\ lg[m].txn = t THEN Buffered(b, lg[m], m) ELSE b
    BY <1>3, <1>5 DEF BufferStep, b
<1>10. lg[m] \in LogRecord
    BY <1>6
<1>11. CASE ~(IsData(lg[m]) /\ lg[m].txn = t)
    BY <1>3, <1>6, <1>8, <1>9, <1>11, GoodLater
<1>12. CASE IsData(lg[m]) /\ lg[m].txn = t /\ (b = Underflow \/ (IsCLR(lg[m]) /\ b = <<>>))
    BY <1>3, <1>9, <1>12 DEF Buffered
<1>13. CASE IsData(lg[m]) /\ lg[m].txn = t /\ b # Underflow /\ IsCLR(lg[m]) /\ b # <<>>
    <2>1. f[m] = SubSeq(b, 1, Len(b) - 1)
        BY <1>9, <1>13 DEF Buffered
    <2>2. GoodBuffer(lg, t, m - 1, f[m])
        BY <1>6, <1>8, <1>13, <2>1, GoodPop
    <2> QED
        BY <1>3, <1>6, <2>2, GoodLater
<1>14. CASE IsData(lg[m]) /\ lg[m].txn = t /\ b # Underflow /\ ~IsCLR(lg[m])
    <2>1. f[m] = Append(b, m)
        BY <1>9, <1>14 DEF Buffered
    <2>2. lg[m].kind \in Changes
        BY <1>10, <1>14, RecordFields
    <2> QED
        BY <1>3, <1>6, <1>8, <1>14, <2>1, <2>2, GoodPush
<1> QED
    BY <1>11, <1>12, <1>13, <1>14

\* The undo buffer of a loser.
LEMMA UndoBufferGood ==
    ASSUME NEW lg \in Seq(LogRecord), NEW from \in Nat, NEW t
    PROVE  UndoBuffer(lg, from, t) = Underflow \/ GoodBuffer(lg, t, Len(lg), UndoBuffer(lg, from, t))
<1>1. Len(lg) \in Nat
    OBVIOUS
<1>2. PICK f : IsBuffer(lg, from, t, Len(lg), f) /\ UndoBuffer(lg, from, t) = f[Len(lg)]
    BY <1>1, UndoBufferIs
<1> QED
    BY <1>1, <1>2, BuffersGood

\* One step of the redo scan, and the scan.
RedoStep(lg, from, dpt, p, page, f, i) ==
    IF i = 0 THEN [page |-> page, recLSN |-> 0]
    ELSE IF from <= i /\ NeedsRedo(lg[i], i, p, dpt, f[i - 1].page)
         THEN [page |-> ApplyRecord(f[i - 1].page, lg[i], i), recLSN |-> RecLSNAfter(f[i - 1].recLSN, f[i - 1].page, i)]
         ELSE f[i - 1]
IsRedo(lg, from, dpt, p, page, n, f) == f = [i \in 0 .. n |-> RedoStep(lg, from, dpt, p, page, f, i)]

\* The scan is well defined.
LEMMA RedoExists ==
    ASSUME NEW lg, NEW from, NEW dpt, NEW p, NEW page, NEW n \in Nat
    PROVE  \E f : IsRedo(lg, from, dpt, p, page, n, f)
<1> DEFINE step(f, i) == RedoStep(lg, from, dpt, p, page, f, i)
           is(m, f) == IsRedo(lg, from, dpt, p, page, m, f)
           bad == {m \in Nat : ~ \E f : is(m, f)}
<1> SUFFICES ASSUME bad # {} PROVE FALSE
    OBVIOUS
<1> DEFINE m == Smallest(bad)
<1>1. m \in bad /\ \A y \in bad : m <= y
    BY SmallestIn
<1> HIDE DEF m
<1>2. CASE m = 0
    <2> DEFINE f == [i \in 0 .. 0 |-> [page |-> page, recLSN |-> 0]]
    <2>1. is(0, f)
        BY DEF IsRedo, RedoStep
    <2> QED
        BY <1>1, <1>2, <2>1
<1>3. CASE m # 0
    <2>1. m - 1 \in Nat /\ m - 1 \notin bad
        BY <1>1, <1>3
    <2>2. PICK f : is(m - 1, f)
        BY <2>1
    <2> DEFINE g == [i \in 0 .. m |-> IF i = m THEN step(f, m) ELSE f[i]]
    <2>3. \A i \in 0 .. m - 1 : g[i] = f[i] /\ f[i] = step(f, i)
        <3>1. \A i \in 0 .. m - 1 : f[i] = step(f, i)
            BY <2>2, Zenon DEF IsRedo
        <3>2. \A i \in 0 .. m - 1 : i \in 0 .. m /\ i # m
            BY <1>1
        <3> QED
            BY <3>1, <3>2
    <2>4. ASSUME NEW i \in 0 .. m PROVE step(g, i) = step(f, i)
        <3>1. CASE i = 0
            BY <3>1 DEF RedoStep
        <3>2. CASE i # 0
            <4>1. g[i - 1] = f[i - 1]
                BY <1>1, <2>1, <2>3, <3>2
            <4> HIDE DEF g
            <4> QED
                BY <4>1 DEF RedoStep
        <3> QED
            BY <3>1, <3>2
    <2>5. \A i \in 0 .. m : g[i] = step(g, i)
        <3>1. g[m] = step(f, m) /\ m \in 0 .. m
            BY <1>1
        <3>2. \A i \in 0 .. m : i = m \/ i \in 0 .. m - 1
            BY <1>1
        <3> HIDE DEF g
        <3> QED
            BY <2>3, <2>4, <3>1, <3>2
    <2>6. is(m, g)
        <3>1. g = [i \in 0 .. m |-> g[i]]
            OBVIOUS
        <3> HIDE DEF g
        <3> QED
            BY <2>5, <3>1 DEF IsRedo
    <2> QED
        BY <1>1, <2>6
<1> QED
    BY <1>2, <1>3

\* A page and the recovery LSN of its frame, in a log of n records.
FrameType(n) == [page : PageType, recLSN : 0 .. n]

\* Redo leaves a page, with a recovery LSN inside the log.
LEMMA RedoTypes ==
    ASSUME NEW lg \in Seq(LogRecord), NEW from, NEW dpt, NEW p, NEW page \in PageType
    PROVE  Redo(lg, from, dpt, p, page) \in FrameType(Len(lg))
<1> DEFINE start == [page |-> page, recLSN |-> 0]
           f == CHOOSE g : IsRedo(lg, from, dpt, p, page, Len(lg), g)
           n == Len(lg)
<1>1. n \in Nat
    OBVIOUS
<1>2. IsRedo(lg, from, dpt, p, page, n, f)
    BY <1>1, RedoExists
<1>3. Redo(lg, from, dpt, p, page) = IF p \in DOMAIN dpt THEN f[n] ELSE start
    BY DEF Redo, IsRedo, RedoStep
<1> HIDE DEF f
<1>4. start \in FrameType(n)
    BY <1>1 DEF FrameType
<1> DEFINE bad == {i \in 0 .. n : f[i] \notin FrameType(n)}
<1>5. ASSUME bad # {} PROVE FALSE
    <2> DEFINE m == Smallest(bad)
    <2>0. bad \in SUBSET Nat
        BY <1>1
    <2>1. m \in bad /\ \A y \in bad : m <= y
        BY <1>5, <2>0, SmallestIn
    <2> HIDE DEF m
    <2>2. m \in 0 .. n /\ f[m] \notin FrameType(n)
        BY <2>1
    <2>3. f[m] = RedoStep(lg, from, dpt, p, page, f, m)
        BY <1>2, <2>2, Zenon DEF IsRedo
    <2>4. m # 0
        BY <1>4, <2>2, <2>3 DEF RedoStep
    <2>5. m \in 1 .. n /\ m - 1 \in 0 .. n /\ m \in Nat /\ lg[m] \in LogRecord
        BY <1>1, <2>2, <2>4
    <2>6. PICK x \in FrameType(n) : x = f[m - 1]
        BY <1>1, <2>1, <2>5
    <2>7. x.page \in PageType /\ x.recLSN \in 0 .. n
        BY <2>6 DEF FrameType
    <2>8. f[m] = IF from <= m /\ NeedsRedo(lg[m], m, p, dpt, x.page)
                 THEN [page |-> ApplyRecord(x.page, lg[m], m), recLSN |-> RecLSNAfter(x.recLSN, x.page, m)]
                 ELSE x
        BY <2>3, <2>4, <2>6 DEF RedoStep
    <2>9. IsData(lg[m])
        BY <2>2, <2>6, <2>8 DEF NeedsRedo
    <2>10. ApplyRecord(x.page, lg[m], m) \in PageType
        BY <2>5, <2>7, <2>9, PageApplied
    <2>11. RecLSNAfter(x.recLSN, x.page, m) \in 0 .. n
        BY <2>5, <2>7 DEF RecLSNAfter
    <2> QED
        BY <2>2, <2>6, <2>8, <2>10, <2>11 DEF FrameType
<1> QED
    BY <1>1, <1>3, <1>4, <1>5

\* The tables of a checkpoint hold LSNs up to n.
TablesUpTo(att, dpt, n) ==
    /\ \A t \in DOMAIN att : att[t] \in 1 .. n
    /\ \A p \in DOMAIN dpt : dpt[p] \in 0 .. n

\* No record mentions a transaction past b.
IdsUpTo(lg, b) ==
    \A i \in 1 .. Len(lg) : /\ HasTxn(lg[i]) => lg[i].txn <= b
                            /\ lg[i].kind = "EndCheckpoint" => DOMAIN lg[i].att \subseteq 1 .. b

\* What recovery may rely on when it reads a log.
GoodLog(lg) ==
    /\ lg \in Seq(LogRecord)
    /\ \A i \in 1 .. Len(lg) : lg[i].kind = "EndCheckpoint" => TablesUpTo(lg[i].att, lg[i].dpt, i)
    /\ \E b \in Nat : IdsUpTo(lg, b)

\* lg2 starts with lg.
Grown(lg, lg2) == Len(lg) <= Len(lg2) /\ \A i \in 1 .. Len(lg) : lg2[i] = lg[i]

\* What a checkpoint's table is.
LEMMA TablesAre ==
    ASSUME NEW D, NEW f
    PROVE  f \in Tables(D) <=> DOMAIN f \subseteq D /\ f \in [DOMAIN f -> Nat]
BY DEF Tables

\* Appending a record to a log.
LEMMA AppendGood ==
    ASSUME NEW lg, GoodLog(lg), NEW rec \in LogRecord,
           rec.kind = "EndCheckpoint" => /\ TablesUpTo(rec.att, rec.dpt, Len(lg) + 1)
                                         /\ \E b \in Nat : DOMAIN rec.att \subseteq 1 .. b
    PROVE  LET lg2 == Append(lg, rec) IN
           /\ GoodLog(lg2) /\ Grown(lg, lg2) /\ Len(lg) \in Nat
           /\ Len(lg2) = Len(lg) + 1 /\ lg2[Len(lg) + 1] = rec
<1> DEFINE lg2 == Append(lg, rec)
<1>1. lg \in Seq(LogRecord) /\ Len(lg) \in Nat
    BY DEF GoodLog
<1>2. /\ lg2 \in Seq(LogRecord) /\ Len(lg2) = Len(lg) + 1 /\ lg2[Len(lg) + 1] = rec
      /\ \A i \in 1 .. Len(lg) : lg2[i] = lg[i]
    BY <1>1, AppendProperties
<1> HIDE DEF lg2
<1>3. \A i \in 1 .. Len(lg2) : i \in 1 .. Len(lg) \/ i = Len(lg) + 1
    BY <1>1, <1>2
<1>4. ASSUME NEW i \in 1 .. Len(lg2), lg2[i].kind = "EndCheckpoint"
      PROVE  TablesUpTo(lg2[i].att, lg2[i].dpt, i)
    <2>1. CASE i \in 1 .. Len(lg)
        BY <1>2, <1>4, <2>1 DEF GoodLog
    <2>2. CASE i = Len(lg) + 1
        BY <1>2, <1>4, <2>2
    <2> QED
        BY <1>3, <2>1, <2>2
<1>5. \E b \in Nat : IdsUpTo(lg2, b)
    <2>1. PICK b \in Nat : IdsUpTo(lg, b)
        BY DEF GoodLog
    <2>2. PICK c \in Nat : /\ HasTxn(rec) => rec.txn <= c
                           /\ rec.kind = "EndCheckpoint" => DOMAIN rec.att \subseteq 1 .. c
        <3>1. CASE rec.kind = "EndCheckpoint"
            BY <3>1 DEF HasTxn, IsData, IsCLR, IsTxnEnd
        <3>2. CASE rec.kind # "EndCheckpoint" /\ HasTxn(rec)
            <4>1. rec.txn \in Nat /\ rec.txn <= rec.txn
                BY <3>2, RecordFields DEF TxnIds
            <4> QED
                BY <3>2, <4>1
        <3>3. CASE rec.kind # "EndCheckpoint" /\ ~HasTxn(rec)
            BY <3>3
        <3> QED
            BY <3>1, <3>2, <3>3
    <2>3. PICK d \in Nat : b <= d /\ c <= d
        <3>1. b <= b + c /\ c <= b + c /\ b + c \in Nat
            OBVIOUS
        <3> QED
            BY <3>1
    <2>4. ASSUME NEW i \in 1 .. Len(lg2)
          PROVE  /\ HasTxn(lg2[i]) => lg2[i].txn <= d
                 /\ lg2[i].kind = "EndCheckpoint" => DOMAIN lg2[i].att \subseteq 1 .. d
        <3>1. PICK e \in {b, c} : /\ HasTxn(lg2[i]) => lg2[i].txn <= e
                                  /\ lg2[i].kind = "EndCheckpoint" => DOMAIN lg2[i].att \subseteq 1 .. e
            <4>1. CASE i \in 1 .. Len(lg)
                BY <1>2, <2>1, <4>1 DEF IdsUpTo
            <4>2. CASE i = Len(lg) + 1
                BY <1>2, <2>2, <4>2
            <4> QED
                BY <1>3, <4>1, <4>2
        <3>2. e \in Nat /\ e <= d /\ \A x \in Nat : x <= e => x <= d
            BY <2>3
        <3>3. lg2[i] \in LogRecord
            BY <1>2
        <3>4. HasTxn(lg2[i]) => lg2[i].txn \in Nat
            BY <3>3, RecordFields DEF TxnIds
        <3>5. 1 .. e \subseteq 1 .. d
            BY <3>2
        <3> QED
            BY <3>1, <3>2, <3>4, <3>5, Zenon
    <2> QED
        BY <2>4 DEF IdsUpTo
<1>6. Len(lg) <= Len(lg2)
    BY <1>1, <1>2
<1>7. GoodLog(lg2) /\ Grown(lg, lg2)
    BY <1>2, <1>4, <1>5, <1>6 DEF GoodLog, Grown
<1> QED
    BY <1>1, <1>2, <1>7 DEF lg2

\* What a crash leaves of a log.
LEMMA PrefixGood ==
    ASSUME NEW lg, GoodLog(lg), NEW k \in 0 .. Len(lg)
    PROVE  LET lg2 == SubSeq(lg, 1, k) IN
           GoodLog(lg2) /\ Len(lg2) = k /\ \A i \in 1 .. k : i \in 1 .. Len(lg) /\ lg2[i] = lg[i]
<1> DEFINE lg2 == SubSeq(lg, 1, k)
<1>1. lg \in Seq(LogRecord) /\ Len(lg) \in Nat /\ k \in Nat /\ k \in Int /\ 1 \in Int
    BY DEF GoodLog
<1>2. \A i \in 1 .. k : i \in 1 .. Len(lg) /\ lg[i] \in LogRecord
    BY <1>1
<1>3. /\ lg2 \in Seq(LogRecord) /\ Len(lg2) = (IF 1 <= k THEN k - 1 + 1 ELSE 0)
      /\ \A i \in 1 .. k - 1 + 1 : lg2[i] = lg[1 + i - 1]
    BY <1>1, <1>2, SubSeqProperties
<1> HIDE DEF lg2
<1>4. Len(lg2) = k
    BY <1>1, <1>3
<1>5. ASSUME NEW i \in 1 .. k PROVE lg2[i] = lg[i]
    <2>1. i \in 1 .. k - 1 + 1 /\ 1 + i - 1 = i
        BY <1>1
    <2> QED
        BY <1>3, <2>1
<1>6. GoodLog(lg2)
    BY <1>2, <1>3, <1>4, <1>5 DEF GoodLog, IdsUpTo
<1> QED
    BY <1>2, <1>4, <1>5, <1>6 DEF lg2

\* The largest transaction id of a scan is one.
LEMMA LargestTxnIs ==
    ASSUME NEW lg, GoodLog(lg), NEW from
    PROVE  /\ LargestTxn(lg, from) \in Nat
           /\ \A i \in Scan(lg, from) :
                /\ HasTxn(lg[i]) => lg[i].txn <= LargestTxn(lg, from)
                /\ lg[i].kind = "EndCheckpoint" => \A t \in DOMAIN lg[i].att : t <= LargestTxn(lg, from)
<1> DEFINE A == {lg[i].txn : i \in {j \in Scan(lg, from) : HasTxn(lg[j])}}
           B == UNION {DOMAIN lg[i].att : i \in {j \in Scan(lg, from) : lg[j].kind = "EndCheckpoint"}}
           S == {0} \union A \union B
<1>1. PICK b \in Nat : IdsUpTo(lg, b)
    BY DEF GoodLog
<1>2. Scan(lg, from) \subseteq 1 .. Len(lg) /\ \A i \in 1 .. Len(lg) : lg[i] \in LogRecord
    BY DEF Scan, GoodLog
<1>3. A \subseteq 0 .. b
    <2> SUFFICES ASSUME NEW i \in Scan(lg, from), HasTxn(lg[i]) PROVE lg[i].txn \in 0 .. b
        OBVIOUS
    <2>1. lg[i].txn \in Nat
        BY <1>2, RecordFields DEF TxnIds
    <2> QED
        BY <1>1, <1>2, <2>1 DEF IdsUpTo
<1>4. B \subseteq 0 .. b
    <2> SUFFICES ASSUME NEW i \in Scan(lg, from), lg[i].kind = "EndCheckpoint" PROVE DOMAIN lg[i].att \subseteq 0 .. b
        OBVIOUS
    <2>1. 1 .. b \subseteq 0 .. b
        OBVIOUS
    <2> QED
        BY <1>1, <1>2, <2>1, Zenon DEF IdsUpTo
<1>5. S \in SUBSET (0 .. b) /\ S # {}
    BY <1>3, <1>4
<1>6. Largest(S) \in S /\ \A y \in S : y <= Largest(S)
    BY <1>5, LargestIn
<1>7. LargestTxn(lg, from) = Largest(S)
    BY DEF LargestTxn
<1>8. Largest(S) \in Nat
    BY <1>5, <1>6
<1>9. ASSUME NEW i \in Scan(lg, from)
      PROVE  /\ HasTxn(lg[i]) => lg[i].txn \in S
             /\ lg[i].kind = "EndCheckpoint" => \A t \in DOMAIN lg[i].att : t \in S
    OBVIOUS
<1> HIDE DEF S
<1> QED
    BY <1>6, <1>7, <1>8, <1>9

\* The active transactions analysis finds have ids the scan has met, and start in the log.
LEMMA LosersFound ==
    ASSUME NEW lg, GoodLog(lg), NEW from, NEW ids \in SUBSET Nat
    PROVE  LET att == RebuildATT(lg, from, ids) IN
           /\ DOMAIN att \subseteq ids
           /\ \A t \in DOMAIN att : t <= LargestTxn(lg, from) /\ att[t] \in 1 .. Len(lg)
<1> DEFINE att == RebuildATT(lg, from, ids)
           ment(t) == {i \in Scan(lg, from) : Mentions(lg[i], t)}
           active == {t \in ids \ EndedIn(lg, from) : \E i \in Scan(lg, from) : Mentions(lg[i], t)}
<1>1. DOMAIN att = active /\ \A t \in active : att[t] = StartOf(lg, Largest(ment(t)), t)
    BY DEF RebuildATT
<1>2. ASSUME NEW t \in active PROVE t <= LargestTxn(lg, from) /\ att[t] \in 1 .. Len(lg)
    <2>1. Len(lg) \in Nat /\ ment(t) \in SUBSET (0 .. Len(lg)) /\ ment(t) # {}
        BY DEF Scan, GoodLog
    <2> DEFINE i == Largest(ment(t))
    <2>2. i \in ment(t)
        BY <2>1, LargestIn
    <2>3. i \in Scan(lg, from) /\ Mentions(lg[i], t)
        BY <2>2
    <2> HIDE DEF i
    <2>4. i \in 1 .. Len(lg)
        BY <2>3 DEF Scan
    <2>5. att[t] = StartOf(lg, i, t)
        BY <1>1 DEF i
    <2> HIDE DEF att
    <2>6. CASE lg[i].kind = "Begin"
        <3>1. HasTxn(lg[i]) /\ lg[i].txn = t
            BY <2>3, <2>6 DEF HasTxn, Mentions
        <3>2. t <= LargestTxn(lg, from)
            BY <2>3, <3>1, LargestTxnIs
        <3> QED
            BY <2>4, <2>5, <2>6, <3>2 DEF StartOf
    <2>7. CASE lg[i].kind # "Begin"
        <3>1. lg[i].kind = "EndCheckpoint" /\ t \in DOMAIN lg[i].att
            BY <2>3, <2>7 DEF Mentions
        <3>2. t <= LargestTxn(lg, from)
            BY <2>3, <3>1, LargestTxnIs
        <3>3. TablesUpTo(lg[i].att, lg[i].dpt, i)
            BY <2>4, <3>1 DEF GoodLog
        <3>4. lg[i].att[t] \in 1 .. i
            BY <3>1, <3>3 DEF TablesUpTo
        <3>5. lg[i].att[t] \in 1 .. Len(lg)
            BY <2>1, <2>4, <3>4
        <3> QED
            BY <2>5, <2>7, <3>2, <3>5 DEF StartOf
    <2> QED
        BY <2>6, <2>7
<1> HIDE DEF att
<1>3. active \subseteq ids
    OBVIOUS
<1> QED
    BY <1>1, <1>2, <1>3 DEF att

-----------------------------------------------------------------------------
(* The types as an inductive invariant *)

\* The types of a transaction and of a checkpoint in progress.
PCs == {"began", "running", "aborting", "ending", "loser"}
TxnType == [pc : PCs, start : Nat, undo : Seq(Nat), page : Pages \cup {NoPage}, clr : Nat, end : Nat]
CkptType ==
    [pc : {"idle", "begun", "ending", "ended"}, begin : Nat, todo : SUBSET Pages,
     dpt : Tables(Pages), att : Tables(TxnIds), end : Nat]

\* The log, and the master record, which is behind what has been flushed.
LogOK ==
    /\ GoodLog(log) /\ flushed \in 0 .. Len(log)
    /\ master \in {NoMaster, EmptyMaster} \cup 0 .. flushed

\* Pages and frames; recovery LSNs are in the log.
BuffersOK ==
    /\ disk \in [Pages -> PageType] /\ mem \in [Pages -> PageType]
    /\ dirty \subseteq Pages /\ flushing \subseteq Pages
    /\ recLSN \in [Pages -> 0 .. Len(log)]

\* A transaction's LSNs are in the log: that of its start, of the compensation to be
\* applied, of its end, and those of the changes to be undone, which are its own.
TxnTyped(x, lg) ==
    /\ x \in TxnType /\ x.start \in 1 .. Len(lg) /\ x.clr \in 0 .. Len(lg) /\ x.end \in 0 .. Len(lg)
    /\ x.clr # 0 => lg[x.clr].kind \in CLRs
TxnGood(x, t, lg) == TxnTyped(x, lg) /\ GoodBuffer(lg, t, Len(lg), x.undo)
TxnsOK ==
    /\ nextTxnID \in Nat /\ pool \subseteq 1 .. nextTxnID /\ DOMAIN txn \subseteq 1 .. nextTxnID
    /\ txn \in [DOMAIN txn -> TxnType]
    /\ \A t \in DOMAIN txn : TxnTyped(txn[t], log) /\ (phase # "failed" => TxnGood(txn[t], t, log))

\* The checkpoint's tables are up to date with the log.
CkptOK ==
    /\ ckpt \in CkptType /\ ckpt.begin <= Len(log) /\ ckpt.end <= Len(log)
    /\ TablesUpTo(ckpt.att, ckpt.dpt, Len(log)) /\ DOMAIN ckpt.att \subseteq 1 .. nextTxnID
    /\ ckpt.pc = "ended" => ckpt.begin < ckpt.end

\* A process that is down has no transactions, and only a running one takes checkpoints.
PhaseOK ==
    /\ phase \in {"down", "undoing", "running", "failed"}
    /\ phase = "down" => txn = Nobody /\ pool = {}
    /\ phase # "running" => ckpt = NoCheckpoint

\* The inductive invariant behind TypeOK.
TInv == LogOK /\ BuffersOK /\ TxnsOK /\ CkptOK /\ PhaseOK

\* Torn bytes lie behind flushed records, and whoever missed a broadcast is in progress.
TornOK == torn \subseteq 0 .. flushed /\ missed \subseteq DOMAIN txn

\* They imply the types.
LEMMA TypesFollow == TInv /\ TornOK => TypeOK
<1> SUFFICES ASSUME TInv, TornOK PROVE TypeOK
    OBVIOUS
<1>1. Len(log) \in Nat
    BY DEF TInv, LogOK, GoodLog
<1>2. flushed \in Lsns /\ master \in {NoMaster, EmptyMaster} \union Lsns /\ recLSN \in [Pages -> Lsns]
    BY <1>1 DEF TInv, LogOK, BuffersOK, Lsns
<1>3. ASSUME NEW t \in DOMAIN txn
      PROVE  /\ txn[t].pc \in {"began", "running", "aborting", "ending", "loser"}
             /\ {txn[t].start, txn[t].clr, txn[t].end} \subseteq Lsns
             /\ txn[t].page \in Pages \union {NoPage}
             /\ txn[t].undo \in Seq(1..Len(log)) \/ phase = "failed"
    <2>1. TxnTyped(txn[t], log) /\ (phase # "failed" => TxnGood(txn[t], t, log))
        BY DEF TInv, TxnsOK
    <2>2. txn[t].pc \in PCs /\ txn[t].page \in Pages \cup {NoPage}
        BY <2>1 DEF TxnTyped, TxnType
    <2> QED
        BY <1>1, <2>1, <2>2 DEF TxnTyped, TxnGood, GoodBuffer, PCs, Lsns
<1>4. ckpt.pc \in {"idle", "begun", "ending", "ended"} /\ ckpt.begin \in Lsns /\ ckpt.end \in Lsns
    BY <1>1 DEF TInv, CkptOK, CkptType, Lsns
<1> QED
    BY <1>2, <1>3, <1>4 DEF TypeOK, TInv, TornOK, BuffersOK, TxnsOK, PhaseOK

\* The empty checkpoint and the empty log.
LEMMA EmptyTables ==
    /\ NoCheckpoint \in CkptType /\ NoCheckpoint.pc = "idle" /\ NoCheckpoint.begin = 0 /\ NoCheckpoint.end = 0
    /\ NoCheckpoint.todo = {} /\ DOMAIN NoCheckpoint.att = {} /\ DOMAIN NoCheckpoint.dpt = {} 
    /\ DOMAIN Nobody = {} /\ NewPage \in PageType
<1>1. DOMAIN Nobody = {} /\ Nobody \in [DOMAIN Nobody -> Nat]
    BY DEF Nobody
<1>2. Nobody \in Tables(TxnIds) /\ Nobody \in Tables(Pages)
    BY <1>1, TablesAre
<1>3. FreeSlot \in SlotType
    BY Zenon DEF FreeSlot, SlotType, NoValue
<1>4. NewPage \in PageType
    BY <1>3 DEF NewPage, PageType, SlotType
<1> HIDE DEF Nobody
<1> QED
    BY <1>1, <1>2, <1>4 DEF NoCheckpoint, CkptType

\* The empty log satisfies them.
LEMMA TypesInit == Init => TInv /\ TornOK
<1> SUFFICES ASSUME Init PROVE TInv
    BY DEF Init, TornOK
<1>1. log = <<>> /\ flushed = 0 /\ master = NoMaster /\ txn = Nobody /\ pool = {} /\ nextTxnID = 0
      /\ ckpt = NoCheckpoint /\ phase = "down" /\ recLSN = [p \in Pages |-> 0] /\ dirty = {} /\ flushing = {}
      /\ disk = [p \in Pages |-> NewPage] /\ mem = disk
    BY DEF Init
<1>2. log \in Seq(LogRecord) /\ Len(log) = 0
    BY <1>1
<1>3. LogOK
    BY <1>1, <1>2 DEF LogOK, GoodLog, IdsUpTo
<1>4. BuffersOK
    BY <1>1, <1>2, EmptyTables DEF BuffersOK
<1>5. TxnsOK
    BY <1>1, EmptyTables DEF TxnsOK
<1>6. CkptOK
    BY <1>1, <1>2, EmptyTables DEF CkptOK, TablesUpTo
<1> QED
    BY <1>1, <1>3, <1>4, <1>5, <1>6 DEF TInv, PhaseOK

\* What the log has got as a prefix stays as it is.
LEMMA TxnLater ==
    ASSUME NEW lg, NEW lg2, Grown(lg, lg2), Len(lg) \in Nat, Len(lg2) \in Nat, NEW x, NEW t
    PROVE  /\ TxnTyped(x, lg) => TxnTyped(x, lg2)
           /\ TxnGood(x, t, lg) => TxnGood(x, t, lg2)
<1>1. ASSUME TxnTyped(x, lg) PROVE TxnTyped(x, lg2)
    <2>1. x \in TxnType /\ x.start \in 1 .. Len(lg) /\ x.clr \in 0 .. Len(lg) /\ x.end \in 0 .. Len(lg)
        BY <1>1 DEF TxnTyped
    <2>2. x.start \in 1 .. Len(lg2) /\ x.clr \in 0 .. Len(lg2) /\ x.end \in 0 .. Len(lg2)
        BY <2>1 DEF Grown
    <2>3. x.clr # 0 => x.clr \in 1 .. Len(lg)
        BY <2>1
    <2>4. x.clr # 0 => lg2[x.clr].kind \in CLRs
        BY <1>1, <2>3 DEF TxnTyped, Grown
    <2> QED
        BY <2>1, <2>2, <2>4 DEF TxnTyped
<1>2. ASSUME TxnGood(x, t, lg) PROVE TxnGood(x, t, lg2)
    <2>1. GoodBuffer(lg, t, Len(lg), x.undo)
        BY <1>2 DEF TxnGood
    <2>2. \A j \in 1 .. Len(x.undo) : x.undo[j] \in 1 .. Len(lg)
        BY <2>1 DEF GoodBuffer
    <2>3. \A j \in 1 .. Len(x.undo) : lg2[x.undo[j]] = lg[x.undo[j]]
        BY <2>2 DEF Grown
    <2>4. GoodBuffer(lg2, t, Len(lg), x.undo)
        BY <2>1, <2>3 DEF GoodBuffer
    <2>5. GoodBuffer(lg2, t, Len(lg2), x.undo)
        BY <2>4, GoodLater DEF Grown
    <2> QED
        BY <1>1, <1>2, <2>5 DEF TxnGood
<1> QED
    BY <1>1, <1>2

\* A checkpoint's tables stay inside a log that grows.
LEMMA TablesLater ==
    ASSUME NEW n \in Nat, NEW m \in Nat, n <= m, NEW att, NEW dpt, TablesUpTo(att, dpt, n)
    PROVE  TablesUpTo(att, dpt, m)
<1>1. 1 .. n \subseteq 1 .. m /\ 0 .. n \subseteq 0 .. m
    OBVIOUS
<1> QED
    BY <1>1, Zenon DEF TablesUpTo

\* Steps that append a record, and steps that leave the log alone.
LEMMA LogMore ==
    ASSUME TInv, NEW rec \in LogRecord,
           rec.kind = "EndCheckpoint" => /\ TablesUpTo(rec.att, rec.dpt, Len(log) + 1)
                                         /\ \E b \in Nat : DOMAIN rec.att \subseteq 1 .. b,
           log' = Append(log, rec), flushed' = flushed, master' = master
    PROVE  /\ LogOK' /\ Grown(log, log') /\ Len(log) \in Nat /\ Len(log') \in Nat
           /\ Len(log') = Len(log) + 1 /\ log'[Len(log) + 1] = rec
<1>1. GoodLog(log)
    BY DEF TInv, LogOK
<1>2. /\ GoodLog(log') /\ Grown(log, log') /\ Len(log) \in Nat
      /\ Len(log') = Len(log) + 1 /\ log'[Len(log) + 1] = rec
    BY <1>1, AppendGood
<1>3. flushed' \in 0 .. Len(log')
    BY <1>2 DEF TInv, LogOK
<1> QED
    BY <1>2, <1>3 DEF TInv, LogOK

\* The log does not change.
LEMMA LogSame ==
    ASSUME TInv, log' = log
    PROVE  Grown(log, log') /\ Len(log) \in Nat /\ Len(log') \in Nat /\ Len(log') = Len(log)
           /\ (flushed' = flushed /\ master' = master => LogOK')
<1>1. Len(log) \in Nat
    BY DEF TInv, LogOK, GoodLog
<1> QED
    BY <1>1 DEF TInv, LogOK, Grown

\* The other parts, when their variables keep their values and the log only grows.
LEMMA BuffersSame ==
    ASSUME TInv, Grown(log, log'), Len(log) \in Nat, Len(log') \in Nat, UNCHANGED <<disk, bufferVars>>
    PROVE  BuffersOK'
<1>1. Len(log) <= Len(log') /\ recLSN \in [Pages -> 0 .. Len(log)]
    BY DEF Grown, TInv, BuffersOK
<1>2. recLSN \in [Pages -> 0 .. Len(log')]
    BY <1>1
<1> QED
    BY <1>2 DEF TInv, BuffersOK, bufferVars

\* The checkpoint does not change, and the log may grow.
LEMMA CkptSame ==
    ASSUME TInv, Grown(log, log'), Len(log) \in Nat, Len(log') \in Nat,
           nextTxnID' \in Nat, nextTxnID <= nextTxnID', ckpt' = ckpt
    PROVE  CkptOK'
<1>1. Len(log) <= Len(log')
    BY DEF Grown
<1>2. TablesUpTo(ckpt.att, ckpt.dpt, Len(log'))
    BY <1>1, TablesLater DEF TInv, CkptOK
<1>3. ckpt.begin <= Len(log') /\ ckpt.end <= Len(log') /\ ckpt \in CkptType
    BY <1>1 DEF TInv, CkptOK, CkptType
<1>4. 1 .. nextTxnID \subseteq 1 .. nextTxnID'
    BY DEF TInv, TxnsOK
<1>5. DOMAIN ckpt.att \subseteq 1 .. nextTxnID'
    BY <1>4 DEF TInv, CkptOK
<1> QED
    BY <1>2, <1>3, <1>5 DEF TInv, CkptOK

\* The transactions do not change, and the log may grow.
LEMMA TxnsSame ==
    ASSUME TInv, Grown(log, log'), Len(log) \in Nat, Len(log') \in Nat,
           UNCHANGED <<txn, pool, nextTxnID>>, phase = "failed" \/ phase' # "failed" 
    PROVE  phase # "failed" \/ phase' = "failed" => TxnsOK'
<1> SUFFICES ASSUME phase # "failed" \/ phase' = "failed" PROVE TxnsOK'
    OBVIOUS
<1>1. ASSUME NEW t \in DOMAIN txn
      PROVE  TxnTyped(txn[t], log') /\ (phase' # "failed" => TxnGood(txn[t], t, log'))
    BY TxnLater DEF TInv, TxnsOK
<1> QED
    BY <1>1 DEF TInv, TxnsOK

\* Transaction t becomes x.
Becomes(t, x) == txn' = [u \in DOMAIN txn \cup {t} |-> IF u = t THEN x ELSE txn[u]]

\* One transaction changes, and the log may grow.
LEMMA TxnMoves ==
    ASSUME TInv, Grown(log, log'), Len(log) \in Nat, Len(log') \in Nat, phase # "failed",
           nextTxnID' \in Nat, nextTxnID <= nextTxnID', pool' \subseteq 1 .. nextTxnID',
           NEW t \in 1 .. nextTxnID', NEW x, TxnGood(x, t, log'), Becomes(t, x)
    PROVE  TxnsOK'
<1>1. DOMAIN txn' = DOMAIN txn \cup {t} /\ \A u \in DOMAIN txn' : txn'[u] = IF u = t THEN x ELSE txn[u]
    BY DEF Becomes
<1>2. 1 .. nextTxnID \subseteq 1 .. nextTxnID'
    BY DEF TInv, TxnsOK
<1>3. DOMAIN txn' \subseteq 1 .. nextTxnID'
    BY <1>1, <1>2 DEF TInv, TxnsOK
<1>4. ASSUME NEW u \in DOMAIN txn' PROVE TxnGood(txn'[u], u, log') /\ TxnTyped(txn'[u], log') /\ txn'[u] \in TxnType
    <2>1. CASE u = t
        BY <1>1, <2>1 DEF TxnGood, TxnTyped
    <2>2. CASE u # t
        <3>1. u \in DOMAIN txn /\ txn'[u] = txn[u]
            BY <1>1, <2>2
        <3>2. TxnGood(txn[u], u, log)
            BY <3>1 DEF TInv, TxnsOK
        <3> QED
            BY <3>1, <3>2, TxnLater DEF TxnGood, TxnTyped
    <2> QED
        BY <2>1, <2>2
<1>5. txn' \in [DOMAIN txn' -> TxnType]
    <2>1. txn' = [u \in DOMAIN txn' |-> txn'[u]]
        BY DEF Becomes
    <2> QED
        BY <1>4, <2>1
<1> QED
    BY <1>3, <1>4, <1>5 DEF TxnsOK

\* A transaction in progress.
LEMMA TxnKnown ==
    ASSUME TInv, phase # "failed", NEW t \in DOMAIN txn
    PROVE  /\ TxnGood(txn[t], t, log) /\ TxnTyped(txn[t], log) /\ txn[t] \in TxnType
           /\ txn \in [DOMAIN txn -> TxnType]
           /\ t \in 1 .. nextTxnID /\ nextTxnID \in Nat /\ t \in TxnIds /\ pool \subseteq 1 .. nextTxnID
<1>1. t \in 1 .. nextTxnID /\ nextTxnID \in Nat
    BY DEF TInv, TxnsOK
<1> QED
    BY <1>1 DEF TInv, TxnsOK, TxnGood, TxnTyped, TxnIds

\* Begin logs a record and adds a transaction.
LEMMA BeginAppendTypes ==
    ASSUME TInv, NEW t \in pool \union {nextTxnID + 1}, BeginAppend(t)
    PROVE  TInv'
<1>1. /\ phase = "running" /\ phase' = phase
      /\ pool' = pool \ {t} /\ nextTxnID' = IF t \in pool THEN nextTxnID ELSE t
      /\ log' = Append(log, TxnRecord("Begin", t))
      /\ txn' = Put(txn, t, NewTxn("began", Len(log) + 1, <<>>))
      /\ UNCHANGED <<flushed, disk, master, bufferVars, ckpt>>
    BY DEF BeginAppend, NextLSN
<1>2. nextTxnID \in Nat /\ pool \subseteq 1 .. nextTxnID
    BY DEF TInv, TxnsOK
<1>3. t \in TxnIds /\ t \in 1 .. nextTxnID' /\ nextTxnID' \in Nat /\ nextTxnID <= nextTxnID' /\ pool' \subseteq 1 .. nextTxnID'
    <2>1. CASE t \in pool
        BY <1>1, <1>2, <2>1 DEF TxnIds
    <2>2. CASE t \notin pool
        <3>1. t = nextTxnID + 1 /\ nextTxnID' = t
            BY <1>1, <2>2
        <3>2. 1 .. nextTxnID \subseteq 1 .. (nextTxnID + 1)
            BY <1>2
        <3> QED
            BY <1>1, <1>2, <3>1, <3>2 DEF TxnIds
    <2> QED
        BY <2>1, <2>2
<1>4. TxnRecord("Begin", t) \in LogRecord /\ TxnRecord("Begin", t).kind = "Begin"
    BY <1>3, RecordsMade DEF TxnRecord
<1>5. /\ LogOK' /\ Grown(log, log') /\ Len(log) \in Nat /\ Len(log') \in Nat
      /\ Len(log') = Len(log) + 1
    BY <1>1, <1>4, LogMore
<1> DEFINE x == NewTxn("began", Len(log) + 1, <<>>)
<1>6. TxnGood(x, t, log')
    <2>1. x \in TxnType /\ x.undo = <<>> /\ x.start = Len(log) + 1 /\ x.clr = 0 /\ x.end = 0
        BY <1>5 DEF NewTxn, TxnType, PCs
    <2> HIDE DEF x
    <2>2. GoodBuffer(log', t, Len(log'), <<>>)
        BY DEF GoodBuffer
    <2> QED
        BY <1>5, <2>1, <2>2 DEF TxnGood, TxnTyped
<1> HIDE DEF x
<1>7. TxnsOK'
    <2>1. Becomes(t, x)
        BY <1>1 DEF Becomes, Put, x
    <2> QED
        BY <1>1, <1>3, <1>5, <1>6, <2>1, TxnMoves
<1>8. BuffersOK' /\ CkptOK'
    BY <1>1, <1>3, <1>5, BuffersSame, CkptSame
<1> QED
    BY <1>1, <1>5, <1>7, <1>8 DEF TInv, PhaseOK

\* A step of transaction t.
LEMMA TxnStepTypes ==
    ASSUME TInv, phase # "failed", NEW t \in DOMAIN txn, NEW x, Becomes(t, x), TxnGood(x, t, log'),
           Grown(log, log'), Len(log) \in Nat, Len(log') \in Nat, LogOK', BuffersOK',
           UNCHANGED <<pool, nextTxnID, ckpt, phase>>
    PROVE  TInv'
<1>1. t \in 1 .. nextTxnID /\ nextTxnID \in Nat /\ pool \subseteq 1 .. nextTxnID /\ nextTxnID <= nextTxnID
    BY TxnKnown
<1>2. TxnsOK'
    BY <1>1, TxnMoves
<1>3. CkptOK'
    BY <1>1, CkptSame
<1>4. phase # "down"
    BY EmptyTables DEF TInv, PhaseOK
<1>5. PhaseOK'
    BY <1>4 DEF TInv, PhaseOK
<1> QED
    BY <1>2, <1>3, <1>5 DEF TInv

\* A step that changes nothing but t's place in the code.
LEMMA PcStepTypes ==
    ASSUME TInv, phase # "failed", NEW t \in DOMAIN txn, NEW c \in PCs,
           txn' = [txn EXCEPT ![t].pc = c],
           UNCHANGED <<logVars, disk, master, bufferVars, pool, nextTxnID, ckpt, phase>>
    PROVE  TInv'
<1>0. PICK z \in TxnType : z = txn[t]
    BY TxnKnown
<1> DEFINE x == [z EXCEPT !.pc = c]
<1>1. /\ x \in TxnType /\ x.start = z.start /\ x.undo = z.undo /\ x.clr = z.clr /\ x.end = z.end
    BY DEF TxnType
<1>2. Becomes(t, x)
    BY <1>0, TxnKnown DEF Becomes
<1> HIDE DEF x
<1>3. log' = log /\ flushed' = flushed
    BY DEF logVars
<1>4. TxnGood(x, t, log')
    BY <1>0, <1>1, <1>3, TxnKnown DEF TxnGood, TxnTyped
<1>5. Grown(log, log') /\ Len(log) \in Nat /\ Len(log') \in Nat /\ LogOK'
    BY <1>3, LogSame
<1>6. BuffersOK'
    BY <1>5, BuffersSame
<1> QED
    BY <1>2, <1>4, <1>5, <1>6, TxnStepTypes

\* UnpinPage marks a page of the pool dirty.
LEMMA UnpinTypes ==
    ASSUME TInv, phase # "failed", NEW t \in DOMAIN txn, Unpin(t)
    PROVE  TInv'
<1>0. PICK z \in TxnType : z = txn[t]
    BY TxnKnown
<1> DEFINE x == [z EXCEPT !.page = NoPage]
<1>1. /\ x \in TxnType /\ x.start = z.start /\ x.undo = z.undo /\ x.clr = z.clr /\ x.end = z.end
    BY DEF TxnType
<1>2. Becomes(t, x)
    BY <1>0, TxnKnown DEF Becomes, Unpin
<1> HIDE DEF x
<1>3. log' = log /\ flushed' = flushed /\ master' = master /\ UNCHANGED <<pool, nextTxnID, ckpt, phase>>
    BY DEF Unpin, logVars
<1>4. TxnGood(x, t, log')
    BY <1>0, <1>1, <1>3, TxnKnown DEF TxnGood, TxnTyped
<1>5. Grown(log, log') /\ Len(log) \in Nat /\ Len(log') \in Nat /\ LogOK'
    BY <1>3, LogSame
<1>6. z.page \in Pages \cup {NoPage} /\ z.page # NoPage /\ dirty' = dirty \cup {z.page}
    BY <1>0 DEF Unpin, TxnType
<1>7. BuffersOK'
    BY <1>3, <1>6 DEF Unpin, TInv, BuffersOK
<1> QED
    BY <1>2, <1>3, <1>4, <1>5, <1>7, TxnStepTypes

\* A record is applied to its page.
LEMMA ApplyTypes ==
    ASSUME TInv, NEW rec \in LogRecord, IsData(rec), NEW lsn \in 0 .. Len(log'), Len(log) \in Nat, Len(log') \in Nat,
           Len(log) <= Len(log'), ApplyToFrame(rec, lsn), UNCHANGED <<disk, dirty, flushing>>
    PROVE  BuffersOK' /\ rec.rid[1] \in Pages
<1> DEFINE p == rec.rid[1]
<1>1. p \in Pages
    BY RecordFields
<1>2. /\ mem \in [Pages -> PageType] /\ recLSN \in [Pages -> 0 .. Len(log)]
      /\ mem' = [mem EXCEPT ![p] = ApplyRecord(mem[p], rec, lsn)]
      /\ recLSN' = [recLSN EXCEPT ![p] = RecLSNAfter(recLSN[p], mem[p], lsn)]
    BY <1>1 DEF TInv, BuffersOK, ApplyToFrame
<1>3. ApplyRecord(mem[p], rec, lsn) \in PageType
    BY <1>1, <1>2, PageApplied
<1>4. RecLSNAfter(recLSN[p], mem[p], lsn) \in 0 .. Len(log')
    BY <1>1, <1>2 DEF RecLSNAfter
<1>5. recLSN \in [Pages -> 0 .. Len(log')]
    BY <1>2
<1> HIDE DEF p
<1>6. mem' \in [Pages -> PageType] /\ recLSN' \in [Pages -> 0 .. Len(log')]
    BY <1>1, <1>2, <1>3, <1>4, <1>5
<1> QED
    BY <1>1, <1>6 DEF TInv, BuffersOK, p

\* A change is pushed on the undo buffer with the LSN of its record.
LEMMA ChangeTypes ==
    ASSUME TInv, phase # "failed", NEW t \in DOMAIN txn, NEW k \in Changes, NEW r \in Rids,
           NEW old \in Nat, NEW new \in Nat, Change(t, DataRecord(k, t, r, old, new))
    PROVE  TInv'
<1> DEFINE rec == DataRecord(k, t, r, old, new)
<1>1. rec \in LogRecord /\ rec.kind = k /\ rec.txn = t /\ rec.rid = r
    BY TxnKnown, RecordsMade DEF DataRecord
<1>2. IsData(rec) /\ rec.kind # "EndCheckpoint"
    BY <1>1 DEF IsData, Changes
<1>3. /\ log' = Append(log, rec)
      /\ ApplyToFrame(rec, Len(log) + 1)
      /\ txn' = [txn EXCEPT ![t].page = rec.rid[1], ![t].undo = Append(@, Len(log) + 1)]
      /\ UNCHANGED <<flushed, disk, master, dirty, flushing, pool, nextTxnID, ckpt, phase>>
    BY DEF Change, NextLSN
<1> HIDE DEF rec
<1>4. /\ LogOK' /\ Grown(log, log') /\ Len(log) \in Nat /\ Len(log') \in Nat
      /\ Len(log') = Len(log) + 1 /\ log'[Len(log) + 1] = rec
    BY <1>1, <1>2, <1>3, LogMore
<1>5. BuffersOK' /\ rec.rid[1] \in Pages
    BY <1>1, <1>2, <1>3, <1>4, ApplyTypes
<1>6. PICK z \in TxnType : z = txn[t]
    BY TxnKnown
<1> DEFINE u == Append(z.undo, Len(log) + 1)
           x == [z EXCEPT !.page = rec.rid[1], !.undo = u]
<1>7. GoodBuffer(log', t, Len(log'), u)
    <2>1. TxnGood(z, t, log')
        BY <1>4, <1>6, TxnKnown, TxnLater
    <2>2. GoodBuffer(log', t, Len(log), z.undo)
        <3>1. GoodBuffer(log, t, Len(log), z.undo)
            BY <1>6, TxnKnown DEF TxnGood
        <3> QED
            BY <2>1, <3>1 DEF TxnGood, GoodBuffer
    <2> QED
        BY <1>1, <1>4, <2>2, GoodPush
<1>8. u \in Seq(Nat)
    BY <1>4, <1>6 DEF TxnType
<1> HIDE DEF u
<1>9. /\ x \in TxnType /\ x.start = z.start /\ x.undo = u /\ x.clr = z.clr /\ x.end = z.end
    BY <1>5, <1>8 DEF TxnType
<1>10. Becomes(t, x)
    BY <1>3, <1>6, TxnKnown DEF Becomes, u
<1> HIDE DEF x
<1>11. TxnGood(x, t, log')
    <2>1. TxnTyped(z, log')
        BY <1>4, <1>6, TxnKnown, TxnLater
    <2> QED
        BY <1>7, <1>9, <2>1 DEF TxnGood, TxnTyped
<1> QED
    BY <1>3, <1>4, <1>5, <1>10, <1>11, TxnStepTypes

\* The end of a transaction is logged.
LEMMA EndTypes ==
    ASSUME TInv, phase # "failed", NEW t \in DOMAIN txn, NEW k \in {"Commit", "Abort"}, EndAppend(t, k)
    PROVE  TInv'
<1> DEFINE rec == TxnRecord(k, t)
<1>1. rec \in LogRecord /\ rec.kind # "EndCheckpoint"
    BY TxnKnown, RecordsMade DEF TxnRecord
<1>2. /\ log' = Append(log, rec)
      /\ txn' = [txn EXCEPT ![t].pc = "ending", ![t].end = Len(log) + 1]
      /\ UNCHANGED <<flushed, disk, master, bufferVars, pool, nextTxnID, ckpt, phase>>
    BY DEF EndAppend, NextLSN
<1> HIDE DEF rec
<1>3. /\ LogOK' /\ Grown(log, log') /\ Len(log) \in Nat /\ Len(log') \in Nat
      /\ Len(log') = Len(log) + 1
    BY <1>1, <1>2, LogMore
<1>4. PICK z \in TxnType : z = txn[t]
    BY TxnKnown
<1> DEFINE x == [z EXCEPT !.pc = "ending", !.end = Len(log) + 1]
<1>5. /\ x \in TxnType /\ x.start = z.start /\ x.undo = z.undo /\ x.clr = z.clr /\ x.end = Len(log) + 1
    BY <1>3 DEF TxnType, PCs
<1>6. Becomes(t, x)
    BY <1>2, <1>4, TxnKnown DEF Becomes
<1> HIDE DEF x
<1>7. TxnGood(x, t, log')
    <2>1. TxnGood(z, t, log')
        BY <1>3, <1>4, TxnKnown, TxnLater
    <2> QED
        BY <1>3, <1>5, <2>1 DEF TxnGood, TxnTyped
<1>8. BuffersOK'
    BY <1>2, <1>3, BuffersSame
<1> QED
    BY <1>2, <1>3, <1>6, <1>7, <1>8, TxnStepTypes

\* A compensation is logged and the change it undoes popped.
LEMMA UndoAppendTypes ==
    ASSUME TInv, phase # "failed", NEW t \in DOMAIN txn, UndoAppend(t)
    PROVE  TInv'
<1>0. PICK z \in TxnType : z = txn[t]
    BY TxnKnown
<1>1. GoodBuffer(log, t, Len(log), z.undo) /\ z.undo # <<>> /\ Len(log) \in Nat
    BY <1>0, TxnKnown DEF TxnGood, UndoAppend, TInv, LogOK, GoodLog
<1> DEFINE last == z.undo[Len(z.undo)]
           rec == NewCLR(log[last])
           u == SubSeq(z.undo, 1, Len(z.undo) - 1)
           x == [z EXCEPT !.clr = Len(log) + 1, !.undo = u]
<1>2. Len(z.undo) \in 1 .. Len(z.undo) /\ last \in 1 .. Len(log)
    BY <1>1, EmptySeq DEF GoodBuffer
<1>3. log[last].kind \in Changes /\ log[last].txn = t
    BY <1>1, <1>2 DEF GoodBuffer
<1>4. log[last] \in LogRecord
    BY <1>2 DEF TInv, LogOK, GoodLog
<1>5. rec \in LogRecord /\ rec.kind \in CLRs
    BY <1>3, <1>4, RecordsMade
<1>6. /\ log' = Append(log, rec)
      /\ txn' = [txn EXCEPT ![t].clr = Len(log) + 1, ![t].undo = SubSeq(@, 1, Len(@) - 1)]
      /\ UNCHANGED <<flushed, disk, master, bufferVars, pool, nextTxnID, ckpt, phase>>
    BY <1>0 DEF UndoAppend, NextLSN
<1> HIDE DEF rec
<1>7. rec.kind # "EndCheckpoint"
    BY <1>5 DEF CLRs
<1>8. /\ LogOK' /\ Grown(log, log') /\ Len(log) \in Nat /\ Len(log') \in Nat
      /\ Len(log') = Len(log) + 1 /\ log'[Len(log) + 1] = rec
    BY <1>5, <1>6, <1>7, LogMore
<1>9. GoodBuffer(log, t, Len(log), u)
    BY <1>1, GoodPop
<1>10. u \in Seq(1 .. Len(log))
    BY <1>9 DEF GoodBuffer
<1>11. Becomes(t, x)
    BY <1>0, <1>6, TxnKnown DEF Becomes
<1> HIDE DEF u
<1>12. u \in Seq(Nat)
    BY <1>8, <1>10
<1>13. /\ x \in TxnType /\ x.start = z.start /\ x.undo = u /\ x.clr = Len(log) + 1 /\ x.end = z.end
    BY <1>8, <1>12 DEF TxnType
<1> HIDE DEF x
<1>14. TxnGood(x, t, log')
    <2>1. TxnTyped(z, log')
        BY <1>0, <1>8, TxnKnown, TxnLater
    <2>2. GoodBuffer(log', t, Len(log'), u)
        <3> DEFINE y == [z EXCEPT !.undo = u]
        <3>1. y \in TxnType /\ y.start = z.start /\ y.undo = u /\ y.clr = z.clr /\ y.end = z.end
            BY <1>12 DEF TxnType
        <3> HIDE DEF y
        <3>2. TxnGood(y, t, log)
            BY <1>0, <1>9, <3>1, TxnKnown DEF TxnGood, TxnTyped
        <3>3. TxnGood(y, t, log')
            BY <1>8, <3>2, TxnLater
        <3> QED
            BY <3>1, <3>3 DEF TxnGood
    <2> QED
        BY <1>5, <1>8, <1>13, <2>1, <2>2 DEF TxnGood, TxnTyped
<1>15. BuffersOK'
    BY <1>6, <1>8, BuffersSame
<1> QED
    BY <1>6, <1>8, <1>11, <1>14, <1>15, TxnStepTypes

\* The record that is applied is a compensation.
LEMMA UndoApplyTypes ==
    ASSUME TInv, phase # "failed", NEW t \in DOMAIN txn, UndoApply(t)
    PROVE  TInv'
<1>0. PICK z \in TxnType : z = txn[t]
    BY TxnKnown
<1> DEFINE rec == log[z.clr]
           x == [z EXCEPT !.clr = 0, !.page = rec.rid[1]]
<1>1. z.clr # 0 /\ ApplyToFrame(rec, z.clr)
      /\ txn' = [txn EXCEPT ![t].clr = 0, ![t].page = rec.rid[1]]
      /\ log' = log /\ UNCHANGED <<flushed, master, disk, dirty, flushing, pool, nextTxnID, ckpt, phase>>
    BY <1>0 DEF UndoApply, logVars
<1>2. Grown(log, log') /\ Len(log) \in Nat /\ Len(log') \in Nat /\ LogOK' /\ Len(log) <= Len(log')
    BY <1>1, LogSame DEF Grown
<1>3. z.clr \in 1 .. Len(log) /\ rec.kind \in CLRs
    BY <1>0, <1>1, <1>2, TxnKnown DEF TxnTyped
<1>4. rec \in LogRecord /\ z.clr \in 0 .. Len(log')
    BY <1>1, <1>3 DEF TInv, LogOK, GoodLog
<1>5. Becomes(t, x)
    BY <1>0, <1>1, TxnKnown DEF Becomes
<1> HIDE DEF rec
<1>6. IsData(rec)
    BY <1>3 DEF IsData, IsCLR, CLRs
<1>7. BuffersOK' /\ rec.rid[1] \in Pages
    BY <1>1, <1>2, <1>4, <1>6, ApplyTypes
<1>8. /\ x \in TxnType /\ x.start = z.start /\ x.undo = z.undo /\ x.clr = 0 /\ x.end = z.end
    BY <1>7 DEF TxnType
<1> HIDE DEF x
<1>9. TxnGood(x, t, log')
    BY <1>0, <1>1, <1>2, <1>8, TxnKnown DEF TxnGood, TxnTyped
<1> QED
    BY <1>1, <1>2, <1>5, <1>7, <1>9, TxnStepTypes

\* A finished transaction leaves, and its context takes the next id.
LEMMA FinishTypes ==
    ASSUME TInv, phase # "failed", NEW t \in DOMAIN txn, Finish(t)
    PROVE  TInv'
<1>1. /\ txn' = [u \in DOMAIN txn \ {t} |-> txn[u]]
      /\ nextTxnID' = nextTxnID + 1 /\ pool' = pool \union {nextTxnID + 1}
      /\ log' = log /\ UNCHANGED <<flushed, disk, master, bufferVars, ckpt, phase>>
    BY DEF Finish, logVars
<1>2. nextTxnID \in Nat /\ pool \subseteq 1 .. nextTxnID /\ DOMAIN txn \subseteq 1 .. nextTxnID
    BY DEF TInv, TxnsOK
<1>3. 1 .. nextTxnID \subseteq 1 .. nextTxnID' /\ nextTxnID' \in Nat /\ nextTxnID <= nextTxnID'
      /\ nextTxnID + 1 \in 1 .. nextTxnID'
    BY <1>1, <1>2
<1>4. Grown(log, log') /\ Len(log) \in Nat /\ Len(log') \in Nat /\ LogOK'
    BY <1>1, LogSame
<1>5. BuffersOK' /\ CkptOK'
    BY <1>1, <1>3, <1>4, BuffersSame, CkptSame
<1>6. DOMAIN txn' = DOMAIN txn \ {t} /\ \A u \in DOMAIN txn' : txn'[u] = txn[u]
    BY <1>1
<1>7. txn' \in [DOMAIN txn' -> TxnType]
    BY <1>1, <1>6 DEF TInv, TxnsOK
<1>8. TxnsOK'
    <2>1. \A u \in DOMAIN txn : TxnTyped(txn[u], log) /\ TxnGood(txn[u], u, log)
        BY DEF TInv, TxnsOK
    <2>2. DOMAIN txn' \subseteq 1 .. nextTxnID' /\ pool' \subseteq 1 .. nextTxnID'
        BY <1>1, <1>2, <1>3, <1>6
    <2> QED
        BY <1>1, <1>3, <1>6, <1>7, <2>1, <2>2 DEF TxnsOK
<1>9. phase # "down"
    BY EmptyTables DEF TInv, PhaseOK
<1> QED
    BY <1>1, <1>4, <1>5, <1>8, <1>9 DEF TInv, PhaseOK

\* The contents of a slot are a number.
LEMMA SlotVal ==
    ASSUME TInv, NEW r \in Rids
    PROVE  SlotOf(r).val \in Nat
<1>1. r[1] \in Pages /\ r[2] \in Slots
    BY DEF Rids
<1>2. mem[r[1]] \in PageType
    BY <1>1 DEF TInv, BuffersOK
<1>3. mem[r[1]].slots[r[2]] \in SlotType
    BY <1>1, <1>2 DEF PageType, SlotType
<1> QED
    BY <1>3 DEF SlotOf, SlotType

\* Every step of a transaction keeps the types.
LEMMA TxnNextTypes ==
    ASSUME TInv, NEW t \in DOMAIN txn, TxnStep(t)
    PROVE  TInv'
<1>0. phase # "failed"
    BY DEF TxnStep
<1>1. CASE BeginStore(t)
    BY <1>0, <1>1, PcStepTypes DEF BeginStore, PCs
<1>2. ASSUME NEW r \in Rids, Insert(t, r) \/ Delete(t, r) \/ Update(t, r) PROVE TInv'
    <2>1. NextLSN \in Nat /\ NoValue \in Nat
        BY DEF NextLSN, NoValue, TInv, LogOK, GoodLog
    <2>2. SlotOf(r).val \in Nat
        BY SlotVal
    <2>3. "Insert" \in Changes /\ "Delete" \in Changes /\ "Update" \in Changes
        BY DEF Changes
    <2> QED
        BY <1>0, <1>2, <2>1, <2>2, <2>3, ChangeTypes DEF Insert, Delete, Update
<1>3. CASE Unpin(t)
    BY <1>0, <1>3, UnpinTypes
<1>4. CASE CommitAppend(t)
    BY <1>0, <1>4, EndTypes DEF CommitAppend
<1>5. CASE AbortStart(t)
    BY <1>0, <1>5, PcStepTypes DEF AbortStart, PCs
<1>6. CASE UndoAppend(t)
    BY <1>0, <1>6, UndoAppendTypes
<1>7. CASE UndoApply(t)
    BY <1>0, <1>7, UndoApplyTypes
<1>8. CASE AbortAppend(t)
    BY <1>0, <1>8, EndTypes DEF AbortAppend
<1>9. CASE Finish(t)
    BY <1>0, <1>9, FinishTypes
<1> QED
    BY <1>1, <1>2, <1>3, <1>4, <1>5, <1>6, <1>7, <1>8, <1>9 DEF TxnStep

\* A step of the log, the buffer pool or its flusher.
LEMMA BufferStepTypes ==
    ASSUME TInv, log' = log, LogOK', BuffersOK', UNCHANGED <<txn, pool, nextTxnID, ckpt, phase>>
    PROVE  TInv'
<1>1. Grown(log, log') /\ Len(log) \in Nat /\ Len(log') \in Nat
    BY LogSame
<1>2. nextTxnID \in Nat /\ nextTxnID <= nextTxnID
    BY DEF TInv, TxnsOK
<1>3. CkptOK'
    BY <1>1, <1>2, CkptSame
<1>4. TxnsOK'
    BY <1>1, TxnsSame
<1> QED
    BY <1>3, <1>4 DEF TInv, PhaseOK

\* All of the log is on disk.
LEMMA FlushLogTypes ==
    ASSUME TInv, FlushLog
    PROVE  TInv'
<1>1. log' = log /\ flushed' = Len(log) /\ master' = master /\ UNCHANGED <<disk, bufferVars, txn, pool, nextTxnID, ckpt, phase>>
    BY DEF FlushLog
<1>2. Grown(log, log') /\ Len(log) \in Nat /\ Len(log') \in Nat
    BY <1>1, LogSame
<1>3. LogOK'
    BY <1>1, <1>2 DEF TInv, LogOK
<1> QED
    BY <1>1, <1>2, <1>3, BuffersSame, BufferStepTypes

\* Vacuum, a page that is written, a page that is evicted.
LEMMA PageStepTypes ==
    ASSUME TInv, NEW p \in Pages, Vacuum(p) \/ FlushWrite(p) \/ Evict(p)
    PROVE  TInv'
<1>1. log' = log /\ flushed' = flushed /\ master' = master /\ UNCHANGED <<txn, pool, nextTxnID, ckpt, phase>>
    BY DEF Vacuum, FlushWrite, Evict, logVars
<1>2. Len(log') = Len(log) /\ LogOK'
    BY <1>1, LogSame
<1>3. /\ disk \in [Pages -> PageType] /\ mem \in [Pages -> PageType] /\ recLSN \in [Pages -> 0 .. Len(log)]
      /\ dirty \subseteq Pages /\ flushing \subseteq Pages
    BY DEF TInv, BuffersOK
<1>4. CASE Vacuum(p)
    <2> DEFINE locked == {s \in Slots : Locked(<<p, s>>)}
    <2>1. mem' = [mem EXCEPT ![p] = Vacuumed(mem[p], locked)]
        BY <1>3, <1>4 DEF Vacuum
    <2>2. Vacuumed(mem[p], locked) \in PageType
        BY <1>3, PageVacuumed
    <2> HIDE DEF locked
    <2>3. mem' \in [Pages -> PageType]
        BY <1>3, <2>1, <2>2
    <2>4. BuffersOK'
        BY <1>1, <1>3, <1>4, <2>3 DEF Vacuum, BuffersOK
    <2> QED
        BY <1>1, <1>2, <2>4, BufferStepTypes
<1>5. CASE FlushWrite(p)
    BY <1>1, <1>2, <1>3, <1>5, BufferStepTypes DEF FlushWrite, BuffersOK
<1>6. CASE Evict(p)
    <2>1. PICK old \in {0} \union {recLSN[q] : q \in Pages} : recLSN' = [recLSN EXCEPT ![p] = old]
        BY <1>6 DEF Evict
    <2>2. old \in 0 .. Len(log)
        <3>1. Len(log) \in Nat
            BY <1>1, LogSame
        <3> QED
            BY <1>3, <2>1, <3>1
    <2>3. recLSN' \in [Pages -> 0 .. Len(log)]
        BY <1>3, <2>1, <2>2
    <2>4. disk' \in [Pages -> PageType]
        BY <1>3, <1>6 DEF Evict
    <2>5. mem' = mem /\ flushing' = flushing /\ dirty' = dirty \ {p}
        BY <1>6 DEF Evict
    <2>6. BuffersOK'
        BY <1>1, <1>3, <2>3, <2>4, <2>5 DEF BuffersOK
    <2> QED
        BY <1>1, <1>2, <2>6, BufferStepTypes
<1> QED
    BY <1>4, <1>5, <1>6

\* FlushAllPages chooses pages of the pool.
LEMMA FlushChooseTypes ==
    ASSUME TInv, FlushChoose
    PROVE  TInv'
<1>1. log' = log /\ flushed' = flushed /\ master' = master /\ UNCHANGED <<txn, pool, nextTxnID, ckpt, phase>>
    BY DEF FlushChoose, logVars
<1>2. LogOK'
    BY <1>1, LogSame
<1>3. BuffersOK'
    BY <1>1 DEF FlushChoose, TInv, BuffersOK
<1> QED
    BY <1>1, <1>2, <1>3, BufferStepTypes

\* A step of the checkpoint manager.
LEMMA CkptStepTypes ==
    ASSUME TInv, phase = "running", Grown(log, log'), Len(log) \in Nat, Len(log') \in Nat,
           LogOK', CkptOK', UNCHANGED <<disk, bufferVars, txn, pool, nextTxnID, phase>>
    PROVE  TInv'
<1>1. TxnsOK'
    BY TxnsSame
<1>2. BuffersOK'
    BY BuffersSame
<1> QED
    BY <1>1, <1>2 DEF TInv, PhaseOK

\* A checkpoint in progress.
LEMMA CkptKnown ==
    ASSUME TInv
    PROVE  /\ ckpt \in CkptType /\ ckpt.begin \in Nat /\ ckpt.end \in Nat /\ ckpt.todo \subseteq Pages
           /\ ckpt.att \in Tables(TxnIds) /\ ckpt.dpt \in Tables(Pages)
           /\ ckpt.begin <= Len(log) /\ ckpt.end <= Len(log) /\ Len(log) \in Nat
           /\ TablesUpTo(ckpt.att, ckpt.dpt, Len(log)) /\ DOMAIN ckpt.att \subseteq 1 .. nextTxnID
           /\ nextTxnID \in Nat
           /\ ckpt.pc # "idle" \/ ckpt.todo # {} => phase = "running"
<1>1. ckpt \in CkptType /\ Len(log) \in Nat /\ nextTxnID \in Nat
    BY DEF TInv, CkptOK, LogOK, GoodLog, TxnsOK
<1>2. ckpt.pc # "idle" \/ ckpt.todo # {} => phase = "running"
    BY EmptyTables DEF TInv, PhaseOK
<1> QED
    BY <1>1, <1>2 DEF TInv, CkptOK, CkptType

\* The begin of a checkpoint is logged.
LEMMA CkptBeginTypes ==
    ASSUME TInv, CkptBegin
    PROVE  TInv'
<1>1. /\ phase = "running" /\ log' = Append(log, BeginCheckpoint)
      /\ ckpt' = [NoCheckpoint EXCEPT !.pc = "begun", !.begin = Len(log) + 1, !.todo = Pages]
      /\ UNCHANGED <<flushed, disk, master, bufferVars, txn, pool, nextTxnID, phase>>
    BY DEF CkptBegin, NextLSN
<1>2. BeginCheckpoint \in LogRecord /\ BeginCheckpoint.kind # "EndCheckpoint"
    BY RecordsMade DEF BeginCheckpoint
<1>3. LogOK' /\ Grown(log, log') /\ Len(log) \in Nat /\ Len(log') \in Nat /\ Len(log') = Len(log) + 1
    BY <1>1, <1>2, LogMore
<1>4. PICK c \in CkptType : c = NoCheckpoint
    BY EmptyTables
<1> DEFINE d == [c EXCEPT !.pc = "begun", !.begin = Len(log) + 1, !.todo = Pages]
<1>5. d \in CkptType /\ d.pc = "begun" /\ d.begin = Len(log) + 1 /\ d.end = c.end /\ d.att = c.att /\ d.dpt = c.dpt
    BY <1>3 DEF CkptType
<1>6. ckpt' = d
    BY <1>1, <1>4
<1> HIDE DEF d
<1>7. CkptOK'
    BY <1>1, <1>3, <1>4, <1>5, <1>6, EmptyTables DEF CkptOK, TablesUpTo
<1> QED
    BY <1>1, <1>3, <1>7, CkptStepTypes

\* A dirty page's recovery LSN is taken over into the table.
LEMMA CkptPageTypes ==
    ASSUME TInv, NEW p \in Pages, CkptPage(p)
    PROVE  TInv'
<1>0. PICK c \in CkptType : c = ckpt
    BY CkptKnown
<1> DEFINE dpt == IF p \in dirty THEN Put(c.dpt, p, recLSN[p]) ELSE c.dpt
           d == [c EXCEPT !.todo = c.todo \ {p}, !.dpt = dpt]
<1>1. /\ p \in c.todo /\ ckpt' = d
      /\ log' = log /\ UNCHANGED <<flushed, disk, master, bufferVars, txn, pool, nextTxnID, phase>>
    BY <1>0 DEF CkptPage, logVars
<1>2. phase = "running"
    BY <1>0, <1>1, CkptKnown
<1>3. LogOK' /\ Grown(log, log') /\ Len(log) \in Nat /\ Len(log') \in Nat /\ Len(log') = Len(log)
    BY <1>1, LogSame
<1>4. recLSN[p] \in 0 .. Len(log) /\ c.dpt \in Tables(Pages)
    BY <1>0, CkptKnown DEF TInv, BuffersOK
<1>5. dpt \in Tables(Pages) /\ \A q \in DOMAIN dpt : dpt[q] \in 0 .. Len(log)
    <2>1. DOMAIN c.dpt \subseteq Pages /\ c.dpt \in [DOMAIN c.dpt -> Nat]
          /\ \A q \in DOMAIN c.dpt : c.dpt[q] \in 0 .. Len(log)
        BY <1>0, <1>4, CkptKnown, TablesAre DEF TablesUpTo
    <2> DEFINE e == Put(c.dpt, p, recLSN[p])
    <2>2. DOMAIN e = DOMAIN c.dpt \cup {p} /\ \A q \in DOMAIN e : e[q] = IF q = p THEN recLSN[p] ELSE c.dpt[q]
        BY DEF Put
    <2>3. e = [q \in DOMAIN e |-> e[q]]
        BY DEF Put
    <2> HIDE DEF e
    <2>4. \A q \in DOMAIN e : e[q] \in 0 .. Len(log) /\ e[q] \in Nat
        BY <1>3, <1>4, <2>1, <2>2
    <2>5. e \in Tables(Pages)
        BY <2>1, <2>2, <2>3, <2>4, TablesAre
    <2>6. dpt = e \/ dpt = c.dpt
        BY DEF e
    <2> HIDE DEF dpt
    <2> QED
        BY <1>4, <2>1, <2>4, <2>5, <2>6
<1> HIDE DEF dpt
<1>6. d \in CkptType /\ d.pc = c.pc /\ d.begin = c.begin /\ d.end = c.end /\ d.att = c.att /\ d.dpt = dpt
    BY <1>5 DEF CkptType
<1> HIDE DEF d
<1>7. TablesUpTo(d.att, d.dpt, Len(log))
    BY <1>0, <1>5, <1>6, CkptKnown DEF TablesUpTo
<1>8. CkptOK'
    BY <1>0, <1>1, <1>3, <1>6, <1>7 DEF TInv, CkptOK
<1> QED
    BY <1>1, <1>2, <1>3, <1>8, CkptStepTypes

\* The snapshot of the active transactions and their starts.
LEMMA CkptTxnsTypes ==
    ASSUME TInv, CkptTxns
    PROVE  TInv'
<1>0. PICK c \in CkptType : c = ckpt
    BY CkptKnown
<1> DEFINE att == [t \in Active |-> txn[t].start]
           d == [c EXCEPT !.pc = "ending", !.att = att]
<1>1. /\ c.pc = "begun" /\ ckpt' = d
      /\ log' = log /\ UNCHANGED <<flushed, disk, master, bufferVars, txn, pool, nextTxnID, phase>>
    BY <1>0 DEF CkptTxns, logVars
<1>2. phase = "running" /\ phase # "failed"
    BY <1>0, <1>1, CkptKnown
<1>3. LogOK' /\ Grown(log, log') /\ Len(log) \in Nat /\ Len(log') \in Nat /\ Len(log') = Len(log)
    BY <1>1, LogSame
<1>4. \A t \in Active : t \in DOMAIN txn /\ txn[t].start \in 1 .. Len(log) /\ txn[t].start \in Nat /\ t \in 1 .. nextTxnID /\ t \in TxnIds
    BY <1>2, <1>3, TxnKnown DEF Active, TxnTyped
<1>5. DOMAIN att = Active /\ att \in [Active -> Nat] /\ \A t \in Active : att[t] \in 1 .. Len(log)
    BY <1>4
<1>6. att \in Tables(TxnIds) /\ DOMAIN att \subseteq 1 .. nextTxnID
    BY <1>4, <1>5, TablesAre
<1> HIDE DEF att
<1>7. d \in CkptType /\ d.pc = "ending" /\ d.begin = c.begin /\ d.end = c.end /\ d.att = att /\ d.dpt = c.dpt
    BY <1>6 DEF CkptType
<1> HIDE DEF d
<1>8. TablesUpTo(d.att, d.dpt, Len(log))
    BY <1>0, <1>5, <1>7, CkptKnown DEF TablesUpTo
<1>9. CkptOK'
    BY <1>0, <1>1, <1>3, <1>6, <1>7, <1>8 DEF TInv, CkptOK
<1> QED
    BY <1>1, <1>2, <1>3, <1>9, CkptStepTypes

\* The tables are logged.
LEMMA CkptEndTypes ==
    ASSUME TInv, CkptEnd
    PROVE  TInv'
<1>0. PICK c \in CkptType : c = ckpt
    BY CkptKnown
<1> DEFINE rec == EndCheckpoint(c.att, c.dpt)
           d == [c EXCEPT !.pc = "ended", !.end = Len(log) + 1]
<1>1. /\ c.pc = "ending" /\ ckpt' = d /\ log' = Append(log, rec)
      /\ UNCHANGED <<flushed, disk, master, bufferVars, txn, pool, nextTxnID, phase>>
    BY <1>0 DEF CkptEnd, NextLSN
<1>2. phase = "running" /\ Len(log) \in Nat
    BY <1>0, <1>1, CkptKnown
<1>3. rec \in LogRecord /\ rec.att = c.att /\ rec.dpt = c.dpt
    BY <1>0, CkptKnown, RecordsMade DEF EndCheckpoint
<1> HIDE DEF rec
<1>4. TablesUpTo(rec.att, rec.dpt, Len(log) + 1)
    <2>1. Len(log) + 1 \in Nat /\ Len(log) <= Len(log) + 1
        BY <1>2
    <2> QED
        BY <1>0, <1>2, <1>3, <2>1, CkptKnown, TablesLater
<1>5. nextTxnID \in Nat /\ DOMAIN rec.att \subseteq 1 .. nextTxnID
    BY <1>0, <1>3, CkptKnown
<1>6. LogOK' /\ Grown(log, log') /\ Len(log) \in Nat /\ Len(log') \in Nat /\ Len(log') = Len(log) + 1
    BY <1>1, <1>3, <1>4, <1>5, LogMore
<1>7. d \in CkptType /\ d.pc = "ended" /\ d.begin = c.begin /\ d.end = Len(log) + 1 /\ d.att = c.att /\ d.dpt = c.dpt
    BY <1>6 DEF CkptType
<1> HIDE DEF d
<1>8. c.begin \in Nat /\ c.begin <= Len(log)
    BY <1>0, CkptKnown
<1>9. CkptOK'
    BY <1>1, <1>3, <1>4, <1>5, <1>6, <1>7, <1>8 DEF CkptOK
<1> QED
    BY <1>1, <1>2, <1>6, <1>9, CkptStepTypes

\* The master record is one of the LSNs of the checkpoint, which is on disk.
LEMMA CkptMasterTypes ==
    ASSUME TInv, CkptMaster
    PROVE  TInv'
<1>1. /\ ckpt.pc = "ended" /\ ckpt.end <= flushed + 1 /\ master' = TruncationLSN(ckpt) /\ ckpt' = NoCheckpoint
      /\ log' = log /\ flushed' = flushed /\ UNCHANGED <<disk, bufferVars, txn, pool, nextTxnID, phase>>
    BY DEF CkptMaster, WaitReturns, logVars
<1>2. phase = "running" /\ Len(log) \in Nat
    BY <1>1, CkptKnown
<1>3. Grown(log, log') /\ Len(log') \in Nat
    BY <1>1, LogSame
<1> DEFINE S == {ckpt.begin} \union {ckpt.att[t] : t \in DOMAIN ckpt.att} \union {ckpt.dpt[p] : p \in DOMAIN ckpt.dpt}
<1>4. S \in SUBSET Nat /\ S # {} /\ ckpt.begin \in S
    <2>1. ckpt.begin \in Nat
        BY CkptKnown
    <2>2. \A t \in DOMAIN ckpt.att : ckpt.att[t] \in Nat
        BY CkptKnown, TablesAre
    <2>3. \A p \in DOMAIN ckpt.dpt : ckpt.dpt[p] \in Nat
        BY CkptKnown, TablesAre
    <2> QED
        BY <2>1, <2>2, <2>3
<1>5. master' = Smallest(S)
    BY <1>1 DEF TruncationLSN
<1> HIDE DEF S
<1>6. master' \in Nat /\ master' <= ckpt.begin
    BY <1>4, <1>5, SmallestIn
<1>7. flushed \in 0 .. Len(log) /\ ckpt.begin < ckpt.end /\ ckpt.begin \in Nat /\ ckpt.end \in Nat
    BY <1>1, CkptKnown DEF TInv, LogOK, CkptOK
<1>8. master' \in 0 .. flushed
    BY <1>1, <1>2, <1>6, <1>7
<1>9. LogOK'
    BY <1>1, <1>8 DEF TInv, LogOK
<1>10. CkptOK'
    BY <1>1, <1>2, <1>3, EmptyTables DEF CkptOK, TablesUpTo
<1> QED
    BY <1>1, <1>2, <1>3, <1>9, <1>10, CkptStepTypes

\* A crash leaves a prefix of the log that has all that was flushed.
LEMMA CrashTypes ==
    ASSUME TInv, Crash
    PROVE  TInv'
<1>1. PICK k \in flushed .. Len(log) : log' = SubSeq(log, 1, k) /\ flushed' = k
    BY DEF Crash
<1>2. /\ mem' = disk /\ dirty' = {} /\ recLSN' = [p \in Pages |-> 0] /\ flushing' = {}
      /\ txn' = Nobody /\ pool' = {} /\ nextTxnID' = 0 /\ ckpt' = NoCheckpoint /\ phase' = "down"
      /\ disk' = disk /\ master' = master
    BY DEF Crash
<1>3. flushed \in 0 .. Len(log) /\ Len(log) \in Nat /\ GoodLog(log)
    BY DEF TInv, LogOK, GoodLog
<1>4. k \in 0 .. Len(log) /\ flushed <= k
    BY <1>1, <1>3
<1>5. GoodLog(log') /\ Len(log') = k
    BY <1>1, <1>3, <1>4, PrefixGood
<1>6. 0 .. flushed \subseteq 0 .. k
    BY <1>3, <1>4
<1>7. LogOK'
    BY <1>1, <1>2, <1>4, <1>5, <1>6 DEF TInv, LogOK
<1>8. BuffersOK'
    BY <1>2, <1>4, <1>5 DEF TInv, BuffersOK
<1>9. TxnsOK'
    BY <1>2, EmptyTables DEF TxnsOK
<1>10. CkptOK'
    BY <1>2, <1>4, <1>5, EmptyTables DEF CkptOK, TablesUpTo
<1> QED
    BY <1>2, <1>7, <1>8, <1>9, <1>10 DEF TInv, PhaseOK

\* What an iterator reads is the beginning of the log, or all of it.
LEMMA ReadableIs ==
    ASSUME TInv, TornOK, NEW from
    PROVE  /\ GoodLog(Readable(from)) /\ Grown(Readable(from), log) /\ Len(Readable(from)) \in 0 .. Len(log)
           /\ (\A k \in torn : from <= k => ~(k < Len(log))) => Readable(from) = log
<1> DEFINE tears == {k \in torn : from <= k}
           k == Smallest(tears)
<1>1. GoodLog(log) /\ Len(log) \in Nat /\ torn \subseteq 0 .. Len(log)
    BY DEF TInv, LogOK, GoodLog, TornOK
<1>2. CASE tears = {}
    <2>1. Readable(from) = log
        BY <1>2 DEF Readable
    <2> QED
        BY <1>1, <2>1 DEF Grown
<1>3. CASE tears # {}
    <2>0. \A j \in torn : j \in Nat
        BY <1>1
    <2>1. tears \in SUBSET Nat
        BY <2>0
    <2>2. k \in tears
        BY <1>3, <2>1, SmallestIn
    <2>3. k \in 0 .. Len(log) /\ k \in torn /\ from <= k
        BY <1>1, <2>2
    <2>4. Readable(from) = SubSeq(log, 1, k)
        BY <1>3 DEF Readable
    <2> HIDE DEF k
    <2>5. GoodLog(Readable(from)) /\ Len(Readable(from)) = k /\ \A i \in 1 .. k : Readable(from)[i] = log[i]
        BY <1>1, <2>3, <2>4, PrefixGood
    <2>6. ASSUME ~(k < Len(log)) PROVE Readable(from) = log
        <3>1. k = Len(log)
            BY <1>1, <2>3, <2>6
        <3>2. Readable(from) \in Seq(LogRecord) /\ log \in Seq(LogRecord)
            BY <1>1, <2>5 DEF GoodLog
        <3> QED
            BY <2>5, <3>1, <3>2, SeqEqual
    <2> QED
        BY <1>1, <2>3, <2>5, <2>6 DEF Grown
<1> QED
    BY <1>2, <1>3

\* The recovery LSNs that analysis finds lie in the log, and redo starts no later than it.
LEMMA RecLSNsFound ==
    ASSUME NEW lg, GoodLog(lg), NEW from \in Nat
    PROVE  LET dpt == RebuildDPT(lg, from) IN
           /\ \A p \in DOMAIN dpt : dpt[p] \in Nat
           /\ SmallestRecLSN(from, dpt) \in Nat /\ SmallestRecLSN(from, dpt) <= from
           /\ \A p \in DOMAIN dpt : SmallestRecLSN(from, dpt) <= dpt[p]
<1> DEFINE dpt == RebuildDPT(lg, from)
           S == {from} \union {dpt[p] : p \in DOMAIN dpt}
<1>1. ASSUME NEW p \in DOMAIN dpt PROVE dpt[p] \in Nat
    <2> DEFINE D == {j \in Scan(lg, from) : Dirties(lg[j], p)}
               i == Smallest(D)
    <2>1. p \in Pages /\ D # {} /\ dpt[p] = IF IsData(lg[i]) THEN i ELSE lg[i].dpt[p]
        BY DEF RebuildDPT
    <2>2. D \in SUBSET Nat
        BY DEF Scan, GoodLog
    <2>3. i \in D
        BY <2>1, <2>2, SmallestIn
    <2>4. i \in 1 .. Len(lg) /\ Dirties(lg[i], p) /\ Len(lg) \in Nat
        BY <2>3 DEF Scan, GoodLog
    <2> HIDE DEF i, dpt
    <2>5. CASE IsData(lg[i])
        BY <2>1, <2>4, <2>5
    <2>6. CASE ~IsData(lg[i])
        <3>1. lg[i].kind = "EndCheckpoint" /\ p \in DOMAIN lg[i].dpt
            BY <2>4, <2>6 DEF Dirties
        <3>2. TablesUpTo(lg[i].att, lg[i].dpt, i)
            BY <2>4, <3>1 DEF GoodLog
        <3> QED
            BY <2>1, <2>4, <2>6, <3>1, <3>2 DEF TablesUpTo
    <2> QED
        BY <2>5, <2>6
<1> HIDE DEF dpt
<1>2. S \in SUBSET Nat /\ S # {} /\ from \in S /\ \A p \in DOMAIN dpt : dpt[p] \in S
    BY <1>1
<1>3. SmallestRecLSN(from, dpt) = Smallest(S)
    BY DEF SmallestRecLSN
<1> HIDE DEF S
<1>4. Smallest(S) \in S /\ \A n \in S : Smallest(S) <= n
    BY <1>2, SmallestIn
<1>5. /\ SmallestRecLSN(from, dpt) \in Nat /\ SmallestRecLSN(from, dpt) <= from
      /\ \A p \in DOMAIN dpt : SmallestRecLSN(from, dpt) <= dpt[p]
    BY <1>2, <1>3, <1>4
<1> QED
    BY <1>1, <1>5 DEF dpt

\* What analysis, redo and the filling of the undo buffers leave.
LEMMA RecoverEffect ==
    ASSUME TInv, TornOK, Recover
    PROVE  \E att, from :
              /\ att = RebuildATT(Readable(ScanStart), ScanStart, Ids) /\ ScanStart \in Nat
              /\ from \in UndoStarts(ScanStart, SmallestRecLSN(ScanStart, RebuildDPT(Readable(ScanStart), ScanStart)), att)
              /\ from \in Nat
              /\ DOMAIN att \subseteq 1 .. nextTxnID' /\ nextTxnID' \in Nat
              /\ \A t \in DOMAIN att : att[t] \in 1 .. Len(log)
              /\ DOMAIN txn' = DOMAIN att
              /\ txn' = [t \in DOMAIN att |-> NewTxn("loser", att[t], UndoBuffer(Readable(from), from, t))]
              /\ phase' = IF \E t \in DOMAIN att : UndoBuffer(Readable(from), from, t) = Underflow THEN "failed" ELSE "undoing"
              /\ BuffersOK'
<1> DEFINE seen == Readable(ScanStart)
           att == RebuildATT(seen, ScanStart, Ids)
           dpt == RebuildDPT(seen, ScanStart)
           srl == SmallestRecLSN(ScanStart, dpt)
           redone == [p \in Pages |-> Redo(Readable(srl), srl, dpt, p, disk[p])]
<1>1. /\ phase = "down" /\ master # EmptyMaster
      /\ mem' = [p \in Pages |-> redone[p].page]
      /\ recLSN' = [p \in Pages |-> redone[p].recLSN]
      /\ dirty' = {p \in Pages : redone[p].page # disk[p]}
      /\ nextTxnID' = LargestTxn(seen, ScanStart) + 1 + Cardinality(DOMAIN att)
      /\ log' = log /\ UNCHANGED <<disk, flushing>>
    BY DEF Recover, logVars
<1>2. PICK from \in UndoStarts(ScanStart, srl, att) :
        /\ txn' = [t \in DOMAIN att |-> NewTxn("loser", att[t], [u \in DOMAIN att |-> UndoBuffer(Readable(from), from, u)][t])]
        /\ phase' = IF \E t \in DOMAIN att : [u \in DOMAIN att |-> UndoBuffer(Readable(from), from, u)][t] = Underflow
                    THEN "failed" ELSE "undoing"
    BY DEF Recover
<1>3. GoodLog(log) /\ Len(log) \in Nat /\ ScanStart \in Nat
    BY <1>1 DEF TInv, LogOK, GoodLog, ScanStart, NoMaster, EmptyMaster
<1>4. GoodLog(seen) /\ Len(seen) \in 0 .. Len(log)
    BY ReadableIs
<1>5. LargestTxn(log, 0) \in Nat /\ LargestTxn(seen, ScanStart) \in Nat
    BY <1>3, <1>4, LargestTxnIs
<1>6. Ids \in SUBSET Nat /\ \A t \in Ids : t >= 1
    BY <1>5 DEF Ids
<1>7. DOMAIN att \subseteq Ids /\ \A t \in DOMAIN att : t <= LargestTxn(seen, ScanStart) /\ att[t] \in 1 .. Len(seen)
    BY <1>3, <1>4, <1>6, LosersFound
<1>8. \A t \in DOMAIN att : att[t] \in 1 .. Len(log)
    <2>1. 1 .. Len(seen) \subseteq 1 .. Len(log)
        BY <1>3, <1>4
    <2> QED
        BY <1>7, <2>1
<1> HIDE DEF att, dpt, srl, seen
<1>9. DOMAIN att \subseteq 1 .. LargestTxn(seen, ScanStart)
    <2> SUFFICES ASSUME NEW t \in DOMAIN att PROVE t \in 1 .. LargestTxn(seen, ScanStart)
        OBVIOUS
    <2>1. t \in Nat /\ t >= 1 /\ t <= LargestTxn(seen, ScanStart)
        BY <1>6, <1>7
    <2> QED
        BY <1>5, <2>1
<1>10. Cardinality(DOMAIN att) \in Nat
    <2>1. IsFiniteSet(1 .. LargestTxn(seen, ScanStart))
        BY <1>5, FS_Interval
    <2>2. IsFiniteSet(DOMAIN att)
        BY <1>9, <2>1, FS_Subset
    <2> QED
        BY <2>2, FS_CardinalityType
<1>11. nextTxnID' \in Nat /\ nextTxnID' > LargestTxn(seen, ScanStart)
    BY <1>1, <1>5, <1>10
<1>12. DOMAIN att \subseteq 1 .. nextTxnID'
    <2>1. 1 .. LargestTxn(seen, ScanStart) \subseteq 1 .. nextTxnID'
        BY <1>5, <1>11
    <2> QED
        BY <1>9, <2>1
<1>13. from \in Nat
    <2>1. from \in {ScanStart} \cup {att[t] : t \in DOMAIN att}
        BY <1>2 DEF UndoStarts
    <2>2. \A t \in DOMAIN att : att[t] \in Nat
        BY <1>3, <1>8
    <2> QED
        BY <1>3, <2>1, <2>2
<1>14. BuffersOK'
    <2>1. GoodLog(Readable(srl)) /\ Len(Readable(srl)) \in 0 .. Len(log)
        BY ReadableIs
    <2>2. Readable(srl) \in Seq(LogRecord) /\ 0 .. Len(Readable(srl)) \subseteq 0 .. Len(log)
        BY <1>3, <2>1 DEF GoodLog
    <2>3. \A p \in Pages : redone[p] \in FrameType(Len(Readable(srl)))
        BY <2>2, RedoTypes DEF TInv, BuffersOK
    <2>4. \A p \in Pages : redone[p].page \in PageType /\ redone[p].recLSN \in 0 .. Len(log)
        BY <2>2, <2>3 DEF FrameType
    <2> HIDE DEF redone
    <2> QED
        BY <1>1, <2>4 DEF TInv, BuffersOK
<1>15. /\ txn' = [t \in DOMAIN att |-> NewTxn("loser", att[t], UndoBuffer(Readable(from), from, t))]
       /\ phase' = IF \E t \in DOMAIN att : UndoBuffer(Readable(from), from, t) = Underflow THEN "failed" ELSE "undoing"
    BY <1>2
<1>16. DOMAIN txn' = DOMAIN att
    BY <1>15
<1>17. from \in UndoStarts(ScanStart, SmallestRecLSN(ScanStart, RebuildDPT(Readable(ScanStart), ScanStart)), att)
    BY <1>2 DEF srl, dpt, seen
<1> QED
    BY <1>3, <1>8, <1>11, <1>12, <1>13, <1>14, <1>15, <1>16, <1>17 DEF att, seen

\* Restart keeps the types, also when it fails.
LEMMA RecoverTypes ==
    ASSUME TInv, TornOK, Recover
    PROVE  TInv'
<1>1. PICK att, from :
              /\ from \in Nat
              /\ DOMAIN att \subseteq 1 .. nextTxnID' /\ nextTxnID' \in Nat
              /\ \A t \in DOMAIN att : att[t] \in 1 .. Len(log)
              /\ DOMAIN txn' = DOMAIN att
              /\ txn' = [t \in DOMAIN att |-> NewTxn("loser", att[t], UndoBuffer(Readable(from), from, t))]
              /\ phase' = IF \E t \in DOMAIN att : UndoBuffer(Readable(from), from, t) = Underflow THEN "failed" ELSE "undoing"
              /\ BuffersOK'
    BY RecoverEffect
<1>2. phase = "down" /\ log' = log /\ flushed' = flushed /\ UNCHANGED <<master, pool, ckpt>>
    BY DEF Recover, logVars
<1>3. pool = {} /\ ckpt = NoCheckpoint
    BY <1>2 DEF TInv, PhaseOK
<1>4. LogOK' /\ Len(log) \in Nat /\ Len(log') \in Nat
    BY <1>2, LogSame
<1> DEFINE lg == Readable(from)
<1>5. lg \in Seq(LogRecord) /\ Grown(lg, log) /\ Len(lg) \in 0 .. Len(log)
    BY ReadableIs DEF GoodLog
<1> HIDE DEF lg
<1>6. ASSUME NEW t \in DOMAIN att
      PROVE  /\ txn'[t] \in TxnType /\ TxnTyped(txn'[t], log')
             /\ phase' # "failed" => TxnGood(txn'[t], t, log')
    <2> DEFINE u == UndoBuffer(lg, from, t)
               x == NewTxn("loser", att[t], u)
    <2>1. u = Underflow \/ GoodBuffer(lg, t, Len(lg), u)
        BY <1>1, <1>5, UndoBufferGood
    <2>2. GoodBuffer(lg, t, Len(lg), u) => GoodBuffer(log, t, Len(log), u)
        <3> SUFFICES ASSUME GoodBuffer(lg, t, Len(lg), u) PROVE GoodBuffer(log, t, Len(log), u)
            OBVIOUS
        <3> HIDE DEF u
        <3>1. \A j \in 1 .. Len(u) : u[j] \in 1 .. Len(lg)
            BY DEF GoodBuffer
        <3>2. \A j \in 1 .. Len(u) : log[u[j]] = lg[u[j]]
            BY <1>5, <3>1 DEF Grown
        <3>3. GoodBuffer(log, t, Len(lg), u)
            BY <3>2 DEF GoodBuffer
        <3>4. Len(lg) \in Nat /\ Len(lg) <= Len(log)
            BY <1>4, <1>5
        <3> QED
            BY <1>4, <3>3, <3>4, GoodLater
    <2>3. phase' # "failed" => GoodBuffer(log, t, Len(log), u)
        BY <1>1, <2>1, <2>2 DEF lg
    <2>4. txn'[t] = x
        BY <1>1 DEF lg
    <2> HIDE DEF u
    <2>5. u \in Seq(Nat)
        <3>1. Underflow \in Seq(Nat)
            BY DEF Underflow
        <3>2. GoodBuffer(log, t, Len(log), u) => u \in Seq(1 .. Len(log))
            BY DEF GoodBuffer
        <3>3. u \in Seq(1 .. Len(log)) => u \in Seq(Nat)
            BY <1>4
        <3> QED
            BY <2>1, <2>2, <3>1, <3>2, <3>3
    <2>6. att[t] \in 1 .. Len(log) /\ att[t] \in Nat
        BY <1>1, <1>4
    <2>7. x \in TxnType /\ x.undo = u /\ x.start = att[t] /\ x.clr = 0 /\ x.end = 0
        BY <2>5, <2>6 DEF NewTxn, TxnType, PCs
    <2> HIDE DEF x
    <2> QED
        BY <1>2, <1>4, <2>3, <2>4, <2>6, <2>7 DEF TxnTyped, TxnGood
<1>7. txn' \in [DOMAIN txn' -> TxnType]
    BY <1>1, <1>6
<1>8. TxnsOK'
    BY <1>1, <1>2, <1>3, <1>6, <1>7 DEF TxnsOK
<1>9. CkptOK'
    BY <1>1, <1>2, <1>3, <1>4, EmptyTables DEF CkptOK, TablesUpTo
<1> QED
    BY <1>1, <1>2, <1>3, <1>4, <1>8, <1>9 DEF TInv, PhaseOK

\* Only a crash leaves torn bytes, behind what has been flushed; whoever missed a broadcast
\* does not finish.
LEMMA TornNext ==
    ASSUME TInv, TornOK, [Next]_vars
    PROVE  TornOK'
<1>1. flushed \in 0 .. Len(log) /\ Len(log) \in Nat
    BY DEF TInv, LogOK, GoodLog
<1>2. ASSUME UNCHANGED <<flushed, torn, missed>>, DOMAIN txn \subseteq DOMAIN txn' PROVE TornOK'
    BY <1>2 DEF TornOK
<1>3. ASSUME NEW t \in pool \union {nextTxnID + 1}, BeginAppend(t) PROVE TornOK'
    BY <1>2, <1>3 DEF BeginAppend, Put
<1>4. ASSUME NEW t \in DOMAIN txn, TxnStep(t) PROVE TornOK'
    <2>1. CASE Finish(t)
        <3>1. t \notin missed /\ txn' = [u \in DOMAIN txn \ {t} |-> txn[u]] /\ UNCHANGED <<flushed, torn, missed>>
            BY <2>1 DEF Finish, logVars
        <3> QED
            BY <3>1 DEF TornOK
    <2>2. ASSUME NEW r \in Rids, Insert(t, r) \/ Delete(t, r) \/ Update(t, r) PROVE TornOK'
        BY <1>2, <2>2 DEF Insert, Delete, Update, Change
    <2>3. CASE BeginStore(t) \/ AbortStart(t) \/ Unpin(t) \/ UndoApply(t)
        BY <1>2, <2>3 DEF BeginStore, AbortStart, Unpin, UndoApply, logVars
    <2>4. CASE UndoAppend(t) \/ CommitAppend(t) \/ AbortAppend(t)
        BY <1>2, <2>4 DEF UndoAppend, CommitAppend, AbortAppend, EndAppend
    <2> QED
        BY <1>4, <2>1, <2>2, <2>3, <2>4 DEF TxnStep
<1>5. CASE FlushLog
    <2>1. flushed' = Len(log) /\ torn' = torn /\ txn' = txn /\ missed' \subseteq DOMAIN txn
        BY <1>5 DEF FlushLog
    <2>2. 0 .. flushed \subseteq 0 .. Len(log)
        BY <1>1
    <2> QED
        BY <2>1, <2>2 DEF TornOK
<1>6. CASE FlushChoose \/ CkptBegin \/ CkptTxns \/ CkptEnd \/ CkptMaster \/ RecoverFails \/ StartServices
    BY <1>2, <1>6 DEF FlushChoose, CkptBegin, CkptTxns, CkptEnd, CkptMaster, RecoverFails, StartServices, logVars
<1>7. ASSUME NEW p \in Pages, Vacuum(p) \/ FlushWrite(p) \/ Evict(p) \/ CkptPage(p) PROVE TornOK'
    BY <1>2, <1>7 DEF Vacuum, FlushWrite, Evict, CkptPage, logVars
<1>8. CASE Crash
    <2>1. PICK k \in flushed .. Len(log) : flushed' = k /\ torn' \subseteq torn \cup {k} /\ missed' = {}
        BY <1>8 DEF Crash
    <2>2. 0 .. flushed \subseteq 0 .. k /\ k \in 0 .. k
        BY <1>1, <2>1
    <2> QED
        BY <2>1, <2>2 DEF TornOK
<1>9. CASE Recover
    <2>1. phase = "down" /\ UNCHANGED <<flushed, torn, missed>>
        BY <1>9 DEF Recover, logVars
    <2>2. missed = {}
        BY <2>1, EmptyTables DEF TornOK, TInv, PhaseOK
    <2> QED
        BY <2>1, <2>2 DEF TornOK
<1>10. CASE UNCHANGED vars
    BY <1>2, <1>10 DEF vars, logVars
<1> QED
    BY <1>3, <1>4, <1>5, <1>6, <1>7, <1>8, <1>9, <1>10 DEF Next

\* The empty log satisfies the invariant, and every step keeps it.
LEMMA TypesNext ==
    ASSUME TInv, TornOK, [Next]_vars
    PROVE  TInv' /\ TornOK'
<1> SUFFICES TInv'
    BY TornNext
<1>1. ASSUME NEW t \in pool \union {nextTxnID + 1}, BeginAppend(t) PROVE TInv'
    BY <1>1, BeginAppendTypes
<1>2. ASSUME NEW t \in DOMAIN txn, TxnStep(t) PROVE TInv'
    BY <1>2, TxnNextTypes
<1>3. CASE FlushLog \/ FlushChoose
    BY <1>3, FlushLogTypes, FlushChooseTypes
<1>4. ASSUME NEW p \in Pages, Vacuum(p) \/ FlushWrite(p) \/ Evict(p) \/ CkptPage(p) PROVE TInv'
    BY <1>4, PageStepTypes, CkptPageTypes
<1>5. CASE CkptBegin \/ CkptTxns \/ CkptEnd \/ CkptMaster
    BY <1>5, CkptBeginTypes, CkptTxnsTypes, CkptEndTypes, CkptMasterTypes
<1>6. CASE Crash \/ Recover
    BY <1>6, CrashTypes, RecoverTypes
<1>7. CASE RecoverFails
    <2>1. phase = "down" /\ phase' = "failed" /\ log' = log
          /\ UNCHANGED <<flushed, disk, master, bufferVars, txn, pool, nextTxnID, ckpt>>
        BY <1>7 DEF RecoverFails, logVars
    <2>2. LogOK' /\ Grown(log, log') /\ Len(log) \in Nat /\ Len(log') \in Nat
        BY <2>1, LogSame
    <2>3. BuffersOK' /\ CkptOK'
        BY <2>1, <2>2, BuffersSame, CkptSame DEF TInv, TxnsOK
    <2>4. TxnsOK'
        BY <2>1 DEF TInv, TxnsOK
    <2> QED
        BY <2>1, <2>2, <2>3, <2>4 DEF TInv, PhaseOK
<1>8. CASE StartServices
    <2>1. phase = "undoing" /\ phase' = "running" /\ log' = log /\ master' \in {master, EmptyMaster}
          /\ UNCHANGED <<flushed, disk, bufferVars, txn, pool, nextTxnID, ckpt>>
        BY <1>8 DEF StartServices, logVars
    <2>2. Grown(log, log') /\ Len(log) \in Nat /\ Len(log') \in Nat
        BY <2>1, LogSame
    <2>3. LogOK'
        BY <2>1 DEF TInv, LogOK
    <2>4. BuffersOK' /\ CkptOK'
        BY <2>1, <2>2, BuffersSame, CkptSame DEF TInv, TxnsOK
    <2>5. TxnsOK'
        BY <2>1, <2>2, TxnsSame
    <2> QED
        BY <2>1, <2>3, <2>4, <2>5 DEF TInv, PhaseOK
<1>9. CASE UNCHANGED vars
    <2>1. log' = log /\ UNCHANGED <<flushed, disk, master, bufferVars, txn, pool, nextTxnID, ckpt, phase>>
        BY <1>9 DEF vars, logVars
    <2>2. LogOK' /\ Grown(log, log') /\ Len(log) \in Nat /\ Len(log') \in Nat
        BY <2>1, LogSame
    <2> QED
        BY <2>1, <2>2, BuffersSame, BufferStepTypes
<1> QED
    BY <1>1, <1>2, <1>3, <1>4, <1>5, <1>6, <1>7, <1>8, <1>9 DEF Next

\* Every variable keeps its type: LSNs that are held in memory, in the undo buffers, in the
\* master record and in the checkpoints' tables lie inside the log, after every crash too.
THEOREM RecoveryTypes == Spec => []TypeOK
<1>1. TInv /\ TornOK /\ [Next]_vars => TInv' /\ TornOK'
    BY TypesNext
<1> QED
    BY <1>1, TypesInit, TypesFollow, PTL DEF Spec

-----------------------------------------------------------------------------
(* What a step of a transaction does to the log and to its undo buffer *)

\* A step of t changes no other transaction, and leaves neither the state "ending" nor its start.
OnlyTxn(t) ==
    /\ DOMAIN txn' \subseteq DOMAIN txn /\ UNCHANGED <<ckpt, phase, master, flushed>>
    /\ \A u \in DOMAIN txn' :
          /\ txn'[u].start = txn[u].start
          /\ txn'[u].pc # "ending" => txn[u].pc # "ending"
          /\ u # t => txn'[u] = txn[u]

\* It logs nothing; or t is finished; or it logs rec and does to the buffer what rec tells.
Quiet(t) == log' = log /\ UNCHANGED <<pool, nextTxnID>> /\ \A u \in DOMAIN txn' : txn'[u].undo = txn[u].undo

Finished(t) == log' = log /\ DOMAIN txn' = DOMAIN txn \ {t} /\ nextTxnID' = nextTxnID + 1 /\ pool' = pool \cup {nextTxnID + 1}

Logged(t, rec) ==
    /\ log' = Append(log, rec) /\ rec.txn = t /\ DOMAIN txn' = DOMAIN txn /\ UNCHANGED <<pool, nextTxnID>>
    /\ \/ rec.kind \in Changes /\ txn'[t].undo = Append(txn[t].undo, Len(log) + 1)
       \/ rec.kind \in CLRs /\ txn[t].undo # <<>> /\ txn'[t].undo = SubSeq(txn[t].undo, 1, Len(txn[t].undo) - 1)
       \/ rec.kind \in {"Commit", "Abort"} /\ txn'[t].undo = txn[t].undo /\ txn'[t].pc = "ending"

\* The three kinds of steps.
LEMMA TxnEffect ==
    ASSUME TInv, NEW t \in DOMAIN txn, TxnStep(t)
    PROVE  OnlyTxn(t) /\ (Quiet(t) \/ Finished(t) \/ \E rec \in LogRecord : Logged(t, rec))
<1>0. phase # "failed"
    BY DEF TxnStep
<1>1. PICK z \in TxnType : z = txn[t]
    BY <1>0, TxnKnown
<1>2. txn \in [DOMAIN txn -> TxnType] /\ t \in TxnIds
    BY <1>0, TxnKnown
<1>3. ASSUME NEW x, Becomes(t, x), x.start = z.start, x.pc # "ending" => z.pc # "ending",
             UNCHANGED <<ckpt, phase, master, flushed>>
      PROVE  OnlyTxn(t) /\ DOMAIN txn' = DOMAIN txn /\ txn'[t] = x /\ \A u \in DOMAIN txn' : u # t => txn'[u] = txn[u]
    <2>1. DOMAIN txn' = DOMAIN txn /\ \A u \in DOMAIN txn : txn'[u] = IF u = t THEN x ELSE txn[u]
        BY <1>3 DEF Becomes
    <2> QED
        BY <1>1, <1>3, <2>1 DEF OnlyTxn
<1>4. ASSUME NEW c \in PCs \ {"ending"}, z.pc # "ending", txn' = [txn EXCEPT ![t].pc = c],
             log' = log, UNCHANGED <<ckpt, phase, master, flushed, pool, nextTxnID>>
      PROVE  OnlyTxn(t) /\ Quiet(t)
    <2> DEFINE x == [z EXCEPT !.pc = c]
    <2>1. x.start = z.start /\ x.undo = z.undo
        BY DEF TxnType
    <2>2. Becomes(t, x)
        BY <1>1, <1>2, <1>4 DEF Becomes
    <2> HIDE DEF x
    <2> QED
        BY <1>1, <1>3, <1>4, <2>1, <2>2 DEF Quiet
<1>5. CASE BeginStore(t)
    BY <1>1, <1>4, <1>5 DEF BeginStore, PCs, logVars
<1>6. CASE AbortStart(t)
    BY <1>1, <1>4, <1>6 DEF AbortStart, PCs, logVars
<1>7. CASE Unpin(t)
    <2> DEFINE x == [z EXCEPT !.page = NoPage]
    <2>1. x.start = z.start /\ x.undo = z.undo /\ x.pc = z.pc
        BY DEF TxnType
    <2>2. Becomes(t, x)
        BY <1>1, <1>2, <1>7 DEF Becomes, Unpin
    <2> HIDE DEF x
    <2>3. log' = log /\ UNCHANGED <<ckpt, phase, master, flushed, pool, nextTxnID>>
        BY <1>7 DEF Unpin, logVars
    <2> QED
        BY <1>1, <1>3, <2>1, <2>2, <2>3 DEF Quiet
<1>8. CASE UndoApply(t)
    <2> DEFINE x == [z EXCEPT !.clr = 0, !.page = log[z.clr].rid[1]]
    <2>1. x.start = z.start /\ x.undo = z.undo /\ x.pc = z.pc
        BY DEF TxnType
    <2>2. Becomes(t, x)
        BY <1>1, <1>2, <1>8 DEF Becomes, UndoApply
    <2> HIDE DEF x
    <2>3. log' = log /\ UNCHANGED <<ckpt, phase, master, flushed, pool, nextTxnID>>
        BY <1>8 DEF UndoApply, logVars
    <2> QED
        BY <1>1, <1>3, <2>1, <2>2, <2>3 DEF Quiet
<1>9. CASE Finish(t)
    BY <1>9 DEF Finish, OnlyTxn, Finished, logVars
<1>10. ASSUME NEW k \in {"Commit", "Abort"}, EndAppend(t, k)
       PROVE  OnlyTxn(t) /\ \E rec \in LogRecord : Logged(t, rec)
    <2> DEFINE rec == TxnRecord(k, t)
               x == [z EXCEPT !.pc = "ending", !.end = Len(log) + 1]
    <2>1. rec \in LogRecord /\ rec.kind \in {"Commit", "Abort"} /\ rec.txn = t
        BY <1>2, RecordsMade DEF TxnRecord
    <2>2. x.start = z.start /\ x.undo = z.undo /\ x.pc = "ending"
        BY DEF TxnType
    <2>3. Becomes(t, x)
        BY <1>1, <1>2, <1>10 DEF Becomes, EndAppend, NextLSN
    <2>4. log' = Append(log, rec) /\ UNCHANGED <<ckpt, phase, master, flushed, pool, nextTxnID>>
        BY <1>10 DEF EndAppend
    <2> HIDE DEF x, rec
    <2>5. OnlyTxn(t) /\ DOMAIN txn' = DOMAIN txn /\ txn'[t] = x
        BY <1>3, <2>2, <2>3, <2>4
    <2>6. Logged(t, rec)
        BY <1>1, <2>1, <2>2, <2>4, <2>5 DEF Logged
    <2> QED
        BY <2>1, <2>5, <2>6
<1>11. ASSUME NEW k \in Changes, NEW r \in Rids, NEW old \in Nat, NEW new \in Nat, Change(t, DataRecord(k, t, r, old, new))
       PROVE  OnlyTxn(t) /\ \E rec \in LogRecord : Logged(t, rec)
    <2> DEFINE rec == DataRecord(k, t, r, old, new)
               w == Append(z.undo, Len(log) + 1)
               x == [z EXCEPT !.page = rec.rid[1], !.undo = w]
    <2>1. rec \in LogRecord /\ rec.kind \in Changes /\ rec.txn = t
        BY <1>2, RecordsMade DEF DataRecord
    <2>2. x.start = z.start /\ x.undo = w /\ x.pc = z.pc
        BY DEF TxnType
    <2>3. Becomes(t, x)
        BY <1>1, <1>2, <1>11 DEF Becomes, Change, NextLSN
    <2>4. log' = Append(log, rec) /\ UNCHANGED <<ckpt, phase, master, flushed, pool, nextTxnID>>
        BY <1>11 DEF Change
    <2> HIDE DEF x, rec
    <2>5. OnlyTxn(t) /\ DOMAIN txn' = DOMAIN txn /\ txn'[t] = x
        BY <1>3, <2>2, <2>3, <2>4
    <2>6. Logged(t, rec)
        BY <1>1, <2>1, <2>2, <2>4, <2>5 DEF Logged
    <2> QED
        BY <2>1, <2>5, <2>6
<1>12. ASSUME NEW r \in Rids, Insert(t, r) \/ Delete(t, r) \/ Update(t, r)
       PROVE  OnlyTxn(t) /\ \E rec \in LogRecord : Logged(t, rec)
    <2>1. NextLSN \in Nat /\ NoValue \in Nat
        BY DEF NextLSN, NoValue, TInv, LogOK, GoodLog
    <2>2. SlotOf(r).val \in Nat
        BY SlotVal
    <2>3. "Insert" \in Changes /\ "Delete" \in Changes /\ "Update" \in Changes
        BY DEF Changes
    <2> QED
        BY <1>11, <1>12, <2>1, <2>2, <2>3 DEF Insert, Delete, Update
<1>13. CASE UndoAppend(t)
    <2> DEFINE last == z.undo[Len(z.undo)]
               rec == NewCLR(log[last])
               w == SubSeq(z.undo, 1, Len(z.undo) - 1)
               x == [z EXCEPT !.clr = Len(log) + 1, !.undo = w]
    <2>1. GoodBuffer(log, t, Len(log), z.undo) /\ z.undo # <<>>
        BY <1>0, <1>1, <1>13, TxnKnown DEF TxnGood, UndoAppend
    <2>2. Len(z.undo) \in 1 .. Len(z.undo) /\ last \in 1 .. Len(log)
        BY <2>1, EmptySeq DEF GoodBuffer
    <2>3. log[last].kind \in Changes /\ log[last].txn = t
        BY <2>1, <2>2 DEF GoodBuffer
    <2>4. log[last] \in LogRecord
        BY <2>2 DEF TInv, LogOK, GoodLog
    <2>5. rec \in LogRecord /\ rec.kind \in CLRs /\ rec.txn = t
        BY <2>3, <2>4, RecordsMade
    <2>6. x.start = z.start /\ x.undo = w /\ x.pc = z.pc
        BY DEF TxnType
    <2>7. Becomes(t, x)
        BY <1>1, <1>2, <1>13 DEF Becomes, UndoAppend, NextLSN
    <2>8. log' = Append(log, rec) /\ UNCHANGED <<ckpt, phase, master, flushed, pool, nextTxnID>>
        BY <1>1, <1>13 DEF UndoAppend
    <2> HIDE DEF x, rec
    <2>9. OnlyTxn(t) /\ DOMAIN txn' = DOMAIN txn /\ txn'[t] = x
        BY <1>3, <2>6, <2>7, <2>8
    <2>10. Logged(t, rec)
        BY <1>1, <2>1, <2>5, <2>6, <2>8, <2>9 DEF Logged
    <2> QED
        BY <2>5, <2>9, <2>10
<1> QED
    BY <1>5, <1>6, <1>7, <1>8, <1>9, <1>10, <1>12, <1>13 DEF TxnStep, CommitAppend, AbortAppend

-----------------------------------------------------------------------------
(***************************************************************************)
(* Checkpoints.  NoCommittedInSnapshot speaks of the log only; it is kept  *)
(* because a transaction that is not in the middle of Commit or Abort has  *)
(* not logged its end since it began, because the snapshot is taken while  *)
(* there is no such call (snapshotMu), and because restart has ended all   *)
(* losers before the checkpoint manager runs.                              *)
(***************************************************************************)

\* Transaction t has no end record at LSN s or later.
NoEndSince(lg, t, s) == \A i \in 1 .. Len(lg) : s <= i => ~(IsTxnEnd(lg[i]) /\ lg[i].txn = t)

\* b is the LSN of the last BeginCheckpoint among the first n records.
LastBegin(lg, b, n) ==
    /\ b \in 1 .. n /\ lg[b].kind = "BeginCheckpoint"
    /\ \A i \in 1 .. n : b < i => lg[i].kind # "BeginCheckpoint"

\* The snapshot names no transaction that has ended between its start and LSN b.
SnapshotClean(lg, att, b) ==
    \A t \in DOMAIN att : \A i \in 1 .. b : att[t] <= i => ~(IsTxnEnd(lg[i]) /\ lg[i].txn = t)

\* The transactions in progress, the checkpoint in progress, those in the log.
TxnsUnended ==
    phase = "running" => \A t \in DOMAIN txn : txn[t].pc # "ending" => NoEndSince(log, t, txn[t].start)
\* ... in the checkpoint in progress ...
CkptClean ==
    /\ ckpt.pc \in {"begun", "ending"} => LastBegin(log, ckpt.begin, Len(log))
    /\ ckpt.pc = "ending" => SnapshotClean(log, ckpt.att, ckpt.begin)
\* ... and in those of the log.
LogClean ==
    \A i \in 1 .. Len(log) : log[i].kind = "EndCheckpoint" =>
        \E b \in 1 .. i : LastBegin(log, b, i) /\ SnapshotClean(log, log[i].att, b)

\* The invariant that makes NoCommittedInSnapshot inductive.
NInv == TxnsUnended /\ CkptClean /\ LogClean

\* What is said of a prefix of the log stays true.
LEMMA PrefixKept ==
    ASSUME NEW lg, NEW lg2, NEW n \in Nat, \A i \in 1 .. n : lg2[i] = lg[i], NEW b \in 1 .. n
    PROVE  /\ LastBegin(lg, b, n) => LastBegin(lg2, b, n)
           /\ \A att : SnapshotClean(lg, att, b) => SnapshotClean(lg2, att, b)
<1>1. \A i \in 1 .. b : i \in 1 .. n
    OBVIOUS
<1> QED
    BY <1>1 DEF LastBegin, SnapshotClean

\* A record that is no checkpoint's is logged, or none at all.
LEMMA OrdinaryStep ==
    ASSUME TInv, NInv, TInv', ckpt' = ckpt, Grown(log, log'),
           \A i \in 1 .. Len(log') : i > Len(log) => log'[i].kind \notin {"BeginCheckpoint", "EndCheckpoint"}
    PROVE  CkptClean' /\ LogClean'
<1>1. Len(log) \in Nat /\ Len(log') \in Nat /\ Len(log) <= Len(log') /\ \A i \in 1 .. Len(log) : log'[i] = log[i]
    BY DEF TInv, LogOK, GoodLog, Grown
<1>2. ASSUME NEW i \in 1 .. Len(log'), log'[i].kind = "EndCheckpoint"
      PROVE  \E b \in 1 .. i : LastBegin(log', b, i) /\ SnapshotClean(log', log'[i].att, b)
    <2>1. i \in 1 .. Len(log) /\ i \in Nat /\ log'[i] = log[i]
        BY <1>1, <1>2
    <2>2. PICK b \in 1 .. i : LastBegin(log, b, i) /\ SnapshotClean(log, log[i].att, b)
        BY <1>2, <2>1 DEF NInv, LogClean
    <2>3. \A j \in 1 .. i : log'[j] = log[j]
        BY <1>1, <2>1
    <2> QED
        BY <2>1, <2>2, <2>3, PrefixKept
<1>3. ASSUME ckpt.pc \in {"begun", "ending"}
      PROVE  /\ LastBegin(log', ckpt.begin, Len(log'))
             /\ ckpt.pc = "ending" => SnapshotClean(log', ckpt.att, ckpt.begin)
    <2>1. LastBegin(log, ckpt.begin, Len(log))
        BY <1>3 DEF NInv, CkptClean
    <2>2. ckpt.begin \in 1 .. Len(log)
        BY <2>1 DEF LastBegin
    <2>3. LastBegin(log', ckpt.begin, Len(log))
          /\ (SnapshotClean(log, ckpt.att, ckpt.begin) => SnapshotClean(log', ckpt.att, ckpt.begin))
        BY <1>1, <2>1, <2>2, PrefixKept
    <2>4. LastBegin(log', ckpt.begin, Len(log'))
        BY <1>1, <2>3 DEF LastBegin
    <2> QED
        BY <2>3, <2>4 DEF NInv, CkptClean
<1> QED
    BY <1>2, <1>3 DEF CkptClean, LogClean

\* The empty log has no checkpoint.
LEMMA CleanInit == Init => NInv
BY EmptyTables DEF Init, NInv, TxnsUnended, CkptClean, LogClean

\* A transaction's step ends nobody else.
LEMMA TxnStepClean ==
    ASSUME TInv, NInv, TInv', NEW t \in DOMAIN txn, TxnStep(t)
    PROVE  NInv'
<1>1. OnlyTxn(t) /\ ckpt' = ckpt /\ phase' = phase
    BY TxnEffect DEF OnlyTxn
<1>2. Len(log) \in Nat /\ Len(log') \in Nat
    BY DEF TInv, LogOK, GoodLog
<1>3. CASE log' = log
    <2>1. Grown(log, log') /\ \A i \in 1 .. Len(log') : ~(i > Len(log))
        BY <1>2, <1>3 DEF Grown
    <2>2. CkptClean' /\ LogClean'
        BY <1>1, <2>1, OrdinaryStep
    <2>3. TxnsUnended'
        BY <1>1, <1>3 DEF NInv, TxnsUnended, OnlyTxn
    <2> QED
        BY <2>2, <2>3 DEF NInv
<1>4. ASSUME NEW rec \in LogRecord, Logged(t, rec) PROVE NInv'
    <2>1. /\ Grown(log, log') /\ Len(log') = Len(log) + 1 /\ log'[Len(log) + 1] = rec
          /\ rec.txn = t /\ rec.kind \notin {"BeginCheckpoint", "EndCheckpoint"}
          /\ IsTxnEnd(rec) => txn'[t].pc = "ending"
        <3>1. rec.kind \notin {"BeginCheckpoint", "EndCheckpoint"} /\ rec.txn = t /\ (IsTxnEnd(rec) => txn'[t].pc = "ending")
            BY <1>4 DEF Logged, IsTxnEnd, Changes, CLRs
        <3> QED
            BY <1>1, <1>4, <3>1, LogMore DEF Logged, OnlyTxn
    <2>2. \A i \in 1 .. Len(log') : i \in 1 .. Len(log) \/ i = Len(log) + 1
        BY <1>2, <2>1
    <2>3. CkptClean' /\ LogClean'
        BY <1>1, <1>2, <2>1, <2>2, OrdinaryStep
    <2>4. ASSUME NEW u \in DOMAIN txn', phase = "running", txn'[u].pc # "ending"
          PROVE  NoEndSince(log', u, txn'[u].start)
        <3>1. u \in DOMAIN txn /\ txn'[u].start = txn[u].start /\ NoEndSince(log, u, txn[u].start)
            BY <1>1, <2>4 DEF NInv, TxnsUnended, OnlyTxn
        <3>2. ~(IsTxnEnd(rec) /\ rec.txn = u)
            BY <2>1, <2>4
        <3> QED
            BY <1>2, <2>1, <2>2, <3>1, <3>2 DEF NoEndSince, Grown
    <2> QED
        BY <1>1, <2>3, <2>4 DEF NInv, TxnsUnended
<1> QED
    BY <1>3, <1>4, TxnEffect DEF Quiet, Finished

\* A transaction that begins has not ended.
LEMMA BeginClean ==
    ASSUME TInv, NInv, TInv', NEW t \in pool \union {nextTxnID + 1}, BeginAppend(t)
    PROVE  NInv'
<1> DEFINE rec == TxnRecord("Begin", t)
           x == NewTxn("began", Len(log) + 1, <<>>)
<1>1. /\ log' = Append(log, rec) /\ txn' = Put(txn, t, x) /\ phase' = phase /\ ckpt' = ckpt
      /\ flushed' = flushed /\ master' = master
    BY DEF BeginAppend, NextLSN
<1>2. t \in TxnIds
    BY DEF TInv, TxnsOK, TxnIds
<1>3. rec \in LogRecord /\ rec.kind = "Begin" /\ x.start = Len(log) + 1
    BY <1>2, RecordsMade DEF TxnRecord, NewTxn
<1> HIDE DEF rec, x
<1>4. /\ Grown(log, log') /\ Len(log) \in Nat /\ Len(log') = Len(log) + 1 /\ log'[Len(log) + 1] = rec
    BY <1>1, <1>3, LogMore
<1>5. \A i \in 1 .. Len(log') : i \in 1 .. Len(log) \/ i = Len(log) + 1
    BY <1>4
<1>6. CkptClean' /\ LogClean'
    BY <1>1, <1>3, <1>4, <1>5, OrdinaryStep
<1>7. ~IsTxnEnd(rec)
    BY <1>3 DEF IsTxnEnd
<1>8. ASSUME NEW u \in DOMAIN txn', phase = "running", txn'[u].pc # "ending"
      PROVE  NoEndSince(log', u, txn'[u].start)
    <2>1. CASE u = t
        <3>1. txn'[u] = x
            BY <1>1, <2>1 DEF Put
        <3> QED
            BY <1>3, <1>4, <1>5, <1>7, <3>1 DEF NoEndSince
    <2>2. CASE u # t
        <3>1. u \in DOMAIN txn /\ txn'[u] = txn[u]
            BY <1>1, <2>2 DEF Put
        <3>2. NoEndSince(log, u, txn[u].start)
            BY <1>8, <3>1 DEF NInv, TxnsUnended
        <3> QED
            BY <1>4, <1>5, <1>7, <3>1, <3>2 DEF NoEndSince, Grown
    <2> QED
        BY <2>1, <2>2
<1> QED
    BY <1>1, <1>6, <1>8 DEF NInv, TxnsUnended

\* Steps that change neither log nor transactions nor the checkpoint.
LEMMA OtherClean ==
    ASSUME NInv, UNCHANGED <<log, txn, ckpt>>, phase' = phase \/ phase' # "running" \/ txn = Nobody
    PROVE  NInv'
BY EmptyTables DEF NInv, TxnsUnended, CkptClean, LogClean

\* The steps of Checkpoint: the snapshot is taken when nobody is in Commit or Abort.
LEMMA CkptStepsClean ==
    ASSUME TInv, NInv, TInv', CkptBegin \/ CkptTxns \/ CkptEnd \/ CkptMaster \/ \E p \in Pages : CkptPage(p)
    PROVE  NInv'
<1>0. Len(log) \in Nat /\ txn' = txn /\ phase' = phase
    <2>1. Len(log) \in Nat
        BY DEF TInv, LogOK, GoodLog
    <2>2. CkptBegin => txn' = txn /\ phase' = phase
        BY DEF CkptBegin
    <2>3. CkptTxns => txn' = txn /\ phase' = phase
        BY DEF CkptTxns
    <2>4. CkptEnd => txn' = txn /\ phase' = phase
        BY DEF CkptEnd
    <2>5. CkptMaster => txn' = txn /\ phase' = phase
        BY DEF CkptMaster
    <2>6. ASSUME NEW p \in Pages, CkptPage(p) PROVE txn' = txn /\ phase' = phase
        BY <2>6 DEF CkptPage
    <2> QED
        BY <2>1, <2>2, <2>3, <2>4, <2>5, <2>6
<1>1. CASE CkptBegin
    <2>1. /\ log' = Append(log, BeginCheckpoint) /\ flushed' = flushed /\ master' = master
          /\ ckpt' = [NoCheckpoint EXCEPT !.pc = "begun", !.begin = Len(log) + 1, !.todo = Pages]
        BY <1>1 DEF CkptBegin, NextLSN
    <2>2. BeginCheckpoint \in LogRecord /\ BeginCheckpoint.kind = "BeginCheckpoint"
        BY RecordsMade DEF BeginCheckpoint
    <2>3. Grown(log, log') /\ Len(log') = Len(log) + 1 /\ log'[Len(log) + 1] = BeginCheckpoint
        BY <2>1, <2>2, LogMore
    <2>4. \A i \in 1 .. Len(log') : i \in 1 .. Len(log) \/ i = Len(log) + 1
        BY <1>0, <2>3
    <2>5. ~IsTxnEnd(BeginCheckpoint)
        BY <2>2 DEF IsTxnEnd
    <2>6. ckpt'.pc = "begun" /\ ckpt'.begin = Len(log) + 1
        BY <2>1 DEF NoCheckpoint
    <2>7. CkptClean'
        BY <1>0, <2>2, <2>3, <2>6 DEF CkptClean, LastBegin
    <2>8. TxnsUnended'
        BY <1>0, <2>3, <2>4, <2>5 DEF NInv, TxnsUnended, NoEndSince, Grown
    <2>9. ASSUME NEW i \in 1 .. Len(log'), log'[i].kind = "EndCheckpoint"
          PROVE  \E b \in 1 .. i : LastBegin(log', b, i) /\ SnapshotClean(log', log'[i].att, b)
        <3>1. i \in 1 .. Len(log) /\ log'[i] = log[i] /\ i \in Nat
            BY <1>0, <2>2, <2>3, <2>4, <2>9 DEF Grown
        <3>2. PICK b \in 1 .. i : LastBegin(log, b, i) /\ SnapshotClean(log, log[i].att, b)
            BY <2>9, <3>1 DEF NInv, LogClean
        <3>3. \A j \in 1 .. i : log'[j] = log[j]
            BY <1>0, <2>3, <3>1 DEF Grown
        <3> QED
            BY <3>1, <3>2, <3>3, PrefixKept
    <2> QED
        BY <2>7, <2>8, <2>9 DEF NInv, LogClean
<1>2. CASE CkptTxns
    <2>0. PICK c \in CkptType : c = ckpt
        BY CkptKnown
    <2> DEFINE att == [t \in Active |-> txn[t].start]
               d == [c EXCEPT !.pc = "ending", !.att = att]
    <2>1. c.pc = "begun" /\ ckpt' = d /\ log' = log /\ \A t \in DOMAIN txn : ~Finishing(t)
        BY <1>2, <2>0 DEF CkptTxns, logVars
    <2>2. phase = "running"
        BY <2>0, <2>1, CkptKnown
    <2>3. d.pc = "ending" /\ d.begin = c.begin /\ d.att = att
        BY DEF CkptType
    <2>4. LastBegin(log, c.begin, Len(log))
        BY <2>0, <2>1 DEF NInv, CkptClean
    <2>5. c.begin \in 1 .. Len(log) /\ \A i \in 1 .. c.begin : i \in 1 .. Len(log)
        BY <1>0, <2>4 DEF LastBegin
    <2>6. DOMAIN att = Active /\ \A t \in Active : t \in DOMAIN txn /\ att[t] = txn[t].start
        BY DEF Active
    <2> HIDE DEF att, d
    <2>7. \A t \in Active : NoEndSince(log, t, att[t])
        BY <2>1, <2>2, <2>6 DEF NInv, TxnsUnended, Finishing
    <2>8. SnapshotClean(log, att, c.begin)
        BY <2>5, <2>6, <2>7 DEF SnapshotClean, NoEndSince
    <2>9. CkptClean'
        BY <2>1, <2>3, <2>4, <2>8 DEF CkptClean
    <2> QED
        BY <1>0, <2>1, <2>9 DEF NInv, TxnsUnended, LogClean
<1>3. CASE CkptEnd
    <2>0. PICK c \in CkptType : c = ckpt
        BY CkptKnown
    <2> DEFINE rec == EndCheckpoint(c.att, c.dpt)
               d == [c EXCEPT !.pc = "ended", !.end = Len(log) + 1]
    <2>1. c.pc = "ending" /\ ckpt' = d /\ log' = Append(log, rec)
        BY <1>3, <2>0 DEF CkptEnd, NextLSN
    <2>2. rec.kind = "EndCheckpoint" /\ rec.att = c.att /\ rec \in LogRecord
        BY <2>0, CkptKnown, RecordsMade DEF EndCheckpoint
    <2>3. d.pc = "ended"
        BY DEF CkptType
    <2> HIDE DEF rec, d
    <2>4. Len(log') = Len(log) + 1 /\ log'[Len(log) + 1] = rec /\ \A i \in 1 .. Len(log) : log'[i] = log[i]
        <3>1. log \in Seq(LogRecord)
            BY DEF TInv, LogOK, GoodLog
        <3> QED
            BY <2>1, <2>2, <3>1, AppendProperties
    <2>5. \A i \in 1 .. Len(log') : i \in 1 .. Len(log) \/ i = Len(log) + 1
        BY <1>0, <2>4
    <2>6. CkptClean'
        BY <2>1, <2>3 DEF CkptClean
    <2>7. TxnsUnended'
        <3>1. ~IsTxnEnd(rec)
            BY <2>2 DEF IsTxnEnd
        <3> QED
            BY <1>0, <2>4, <2>5, <3>1 DEF NInv, TxnsUnended, NoEndSince
    <2>8. ASSUME NEW i \in 1 .. Len(log'), log'[i].kind = "EndCheckpoint"
          PROVE  \E b \in 1 .. i : LastBegin(log', b, i) /\ SnapshotClean(log', log'[i].att, b)
        <3>1. CASE i \in 1 .. Len(log)
            <4>1. log'[i] = log[i] /\ i \in Nat /\ \A j \in 1 .. i : log'[j] = log[j]
                BY <1>0, <2>4, <3>1
            <4>2. PICK b \in 1 .. i : LastBegin(log, b, i) /\ SnapshotClean(log, log[i].att, b)
                BY <2>8, <3>1, <4>1 DEF NInv, LogClean
            <4> QED
                BY <4>1, <4>2, PrefixKept
        <3>2. CASE i = Len(log) + 1
            <4> DEFINE b == c.begin
            <4>1. LastBegin(log, b, Len(log)) /\ SnapshotClean(log, c.att, b)
                BY <2>0, <2>1 DEF NInv, CkptClean
            <4> HIDE DEF b
            <4>2. b \in 1 .. Len(log)
                BY <4>1 DEF LastBegin
            <4>3. LastBegin(log', b, Len(log)) /\ SnapshotClean(log', c.att, b)
                BY <1>0, <2>4, <4>1, <4>2, PrefixKept
            <4>4. log'[i] = rec /\ log'[i].kind # "BeginCheckpoint" /\ log'[i].att = c.att
                BY <2>2, <2>4, <3>2
            <4>5. b \in 1 .. i /\ \A j \in 1 .. i : j \in 1 .. Len(log) \/ j = i
                BY <1>0, <3>2, <4>2
            <4>6. LastBegin(log', b, i)
                BY <4>3, <4>4, <4>5 DEF LastBegin
            <4> QED
                BY <4>3, <4>4, <4>5, <4>6
        <3> QED
            BY <2>5, <3>1, <3>2
    <2> QED
        BY <2>6, <2>7, <2>8 DEF NInv, LogClean
<1>4. CASE CkptMaster
    BY <1>0, <1>4, EmptyTables DEF CkptMaster, NInv, TxnsUnended, CkptClean, LogClean, logVars
<1>5. ASSUME NEW p \in Pages, CkptPage(p) PROVE NInv'
    <2>0. PICK c \in CkptType : c = ckpt
        BY CkptKnown
    <2>1. PICK dpt, todo : ckpt' = [c EXCEPT !.todo = todo, !.dpt = dpt]
        BY <1>5, <2>0 DEF CkptPage
    <2>2. ckpt'.pc = ckpt.pc /\ ckpt'.begin = ckpt.begin /\ ckpt'.att = ckpt.att
        BY <2>0, <2>1 DEF CkptType
    <2>3. log' = log
        BY <1>5 DEF CkptPage, logVars
    <2> QED
        BY <1>0, <2>2, <2>3 DEF NInv, TxnsUnended, CkptClean, LogClean
<1> QED
    BY <1>1, <1>2, <1>3, <1>4, <1>5

\* A prefix of the log has no more checkpoints than the log.
LEMMA CrashClean ==
    ASSUME TInv, NInv, Crash
    PROVE  NInv'
<1>1. PICK k \in flushed .. Len(log) : log' = SubSeq(log, 1, k)
    BY DEF Crash
<1>2. txn' = Nobody /\ ckpt' = NoCheckpoint
    BY DEF Crash
<1>3. flushed \in 0 .. Len(log) /\ Len(log) \in Nat /\ GoodLog(log)
    BY DEF TInv, LogOK, GoodLog
<1>4. k \in 0 .. Len(log)
    BY <1>1, <1>3
<1>5. Len(log') = k /\ \A i \in 1 .. k : i \in 1 .. Len(log) /\ log'[i] = log[i]
    BY <1>1, <1>3, <1>4, PrefixGood
<1>6. ASSUME NEW i \in 1 .. Len(log'), log'[i].kind = "EndCheckpoint"
      PROVE  \E b \in 1 .. i : LastBegin(log', b, i) /\ SnapshotClean(log', log'[i].att, b)
    <2>1. i \in 1 .. Len(log) /\ log'[i] = log[i] /\ i \in Nat /\ \A j \in 1 .. i : j \in 1 .. k
        BY <1>4, <1>5
    <2>2. PICK b \in 1 .. i : LastBegin(log, b, i) /\ SnapshotClean(log, log[i].att, b)
        BY <1>6, <2>1 DEF NInv, LogClean
    <2>3. \A j \in 1 .. i : log'[j] = log[j]
        BY <1>5, <2>1
    <2> QED
        BY <2>1, <2>2, <2>3, PrefixKept
<1> QED
    BY <1>2, <1>6, EmptyTables DEF NInv, TxnsUnended, CkptClean, LogClean

\* Every step keeps it.
LEMMA CleanNext ==
    ASSUME TInv, TornOK, NInv, [Next]_vars
    PROVE  NInv'
<1>0. TInv'
    BY TypesNext
<1>1. ASSUME NEW t \in pool \union {nextTxnID + 1}, BeginAppend(t) PROVE NInv'
    BY <1>0, <1>1, BeginClean
<1>2. ASSUME NEW t \in DOMAIN txn, TxnStep(t) PROVE NInv'
    BY <1>0, <1>2, TxnStepClean
<1>3. CASE FlushLog \/ FlushChoose \/ UNCHANGED vars
    BY <1>3, OtherClean DEF FlushLog, FlushChoose, vars, logVars
<1>4. ASSUME NEW p \in Pages, Vacuum(p) \/ FlushWrite(p) \/ Evict(p) PROVE NInv'
    BY <1>4, OtherClean DEF Vacuum, FlushWrite, Evict, logVars
<1>5. CASE CkptBegin \/ CkptTxns \/ CkptEnd \/ CkptMaster \/ \E p \in Pages : CkptPage(p)
    BY <1>0, <1>5, CkptStepsClean
<1>6. CASE Crash
    BY <1>6, CrashClean
<1>7. CASE RecoverFails \/ StartServices
    BY <1>7, OtherClean DEF RecoverFails, StartServices, logVars
<1>8. CASE Recover
    <2>1. log' = log /\ ckpt' = ckpt /\ phase' # "running"
        BY <1>8, RecoverEffect DEF Recover, logVars
    <2> QED
        BY <2>1 DEF NInv, TxnsUnended, CkptClean, LogClean
<1> QED
    BY <1>1, <1>2, <1>3, <1>4, <1>5, <1>6, <1>7, <1>8 DEF Next

\* It implies the property: the last BeginCheckpoint is that of the checkpoint.
LEMMA CleanSnapshots == TInv /\ NInv => NoCommittedInSnapshot
<1> SUFFICES ASSUME TInv, NInv, NEW i \in 1 .. Len(log), log[i].kind = "EndCheckpoint",
                    NEW t \in DOMAIN log[i].att,
                    NEW j \in log[i].att[t] .. Largest({m \in 1 .. i : log[m].kind = "BeginCheckpoint"})
             PROVE  ~(IsTxnEnd(log[j]) /\ log[j].txn = t)
    BY DEF NoCommittedInSnapshot
<1> DEFINE S == {m \in 1 .. i : log[m].kind = "BeginCheckpoint"}
<1>1. PICK b \in 1 .. i : LastBegin(log, b, i) /\ SnapshotClean(log, log[i].att, b)
    BY DEF NInv, LogClean
<1>2. i \in Nat /\ S \in SUBSET (0 .. i) /\ b \in S /\ \A m \in S : m <= b
    BY <1>1 DEF LastBegin
<1>3. Largest(S) = b
    <2> HIDE DEF S
    <2>1. Largest(S) \in S /\ \A m \in S : m <= Largest(S)
        BY <1>2, LargestIn
    <2>2. Largest(S) \in 0 .. i /\ b \in 0 .. i
        BY <1>2, <2>1
    <2>3. Largest(S) <= b /\ b <= Largest(S)
        BY <1>2, <2>1
    <2> QED
        BY <1>2, <2>2, <2>3
<1>4. TablesUpTo(log[i].att, log[i].dpt, i)
    BY DEF TInv, LogOK, GoodLog
<1>5. log[i].att[t] \in 1 .. i
    BY <1>4 DEF TablesUpTo
<1>6. j \in 1 .. b /\ log[i].att[t] <= j
    BY <1>2, <1>3, <1>5
<1> QED
    BY <1>1, <1>6 DEF SnapshotClean

\* No transaction whose end is logged before a checkpoint's begin is in the checkpoint's
\* snapshot (transaction_manager.go:37), however many checkpoints, transactions and crashes:
\* snapshotMu keeps the snapshot out of Commit and Abort.
THEOREM SnapshotsHaveNoEnded == Spec => []NoCommittedInSnapshot
<1>1. TInv /\ TornOK /\ NInv /\ [Next]_vars => TInv' /\ TornOK' /\ NInv'
    BY TypesNext, CleanNext
<1>2. Init => TInv /\ TornOK /\ NInv
    BY TypesInit, CleanInit
<1> QED
    BY <1>1, <1>2, CleanSnapshots, PTL DEF Spec

=============================================================================
