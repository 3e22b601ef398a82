------------------------ MODULE DoubleBufferLogProofs -----------------------
(***************************************************************************)
(* Proofs about DoubleBufferLog, for every number of goroutines, every     *)
(* record and buffer size and any number of crashes: LSNs are byte         *)
(* offsets, FlushedUntil never runs ahead of the disk, an acknowledged LSN *)
(* has everything before it on disk, the flusher stops only drained, and   *)
(* the whole implements Wal.                                               *)
(***************************************************************************)
EXTENDS DoubleBufferLog, FiniteSetTheorems, SequenceTheorems, TLAPS

----------------------------------------------------------------------------
(* Records laid end to end *)

(* A record put at the end of a run of records continues it. *)
LEMMA EndToEndAppend ==
    ASSUME NEW s \in Seq(RecordType), NEW r \in RecordType, NEW a \in Nat, EndToEnd(s, a, r.lsn)
    PROVE  EndToEnd(Append(s, r), a, r.lsn + r.size)
<1> DEFINE t == Append(s, r)
<1>1. Len(s) \in Nat /\ Len(t) = Len(s) + 1 /\ t # <<>> /\ t[Len(s) + 1] = r /\ \A i \in 1..Len(s) : t[i] = s[i]
    OBVIOUS
<1>2. CASE s = <<>>
    <2>1. Len(t) = 1 /\ t[1] = r /\ a = r.lsn
        BY <1>2 DEF EndToEnd
    <2> HIDE DEF t
    <2>2. r.lsn \in Nat
        BY DEF RecordType
    <2> HIDE DEF t
    <2> QED
        BY <1>1, <2>1, <2>2 DEF EndToEnd
<1>3. CASE s # <<>>
    <2>1. Len(s) >= 1
        BY <1>3
    <2>2. /\ s[1].lsn = a /\ s[Len(s)].lsn + s[Len(s)].size = r.lsn
          /\ \A i \in 1..(Len(s) - 1) : s[i + 1].lsn = s[i].lsn + s[i].size
          /\ \A i \in 1..Len(s) : a <= s[i].lsn
        BY <1>3 DEF EndToEnd
    <2>4. s[Len(s)] \in RecordType /\ a <= r.lsn
        <3>1. Len(s) \in 1..Len(s) /\ s[Len(s)] \in RecordType
            BY <2>1
        <3>2. s[Len(s)].lsn \in Nat /\ s[Len(s)].size \in Nat
            BY <3>1 DEF RecordType
        <3> QED
            BY <2>2, <3>1, <3>2
    <2>5. \A i \in 1..Len(t) : a <= t[i].lsn
        BY <1>1, <2>2, <2>4
    <2> HIDE DEF t
    <2>3. \A i \in 1..(Len(t) - 1) : t[i + 1].lsn = t[i].lsn + t[i].size
        <3> SUFFICES ASSUME NEW i \in 1..Len(s) PROVE t[i + 1].lsn = t[i].lsn + t[i].size
            BY <1>1
        <3>1. CASE i = Len(s)
            BY <3>1, <1>1, <2>1, <2>2
        <3>2. CASE i # Len(s)
            <4>1. i \in 1..(Len(s) - 1) /\ i + 1 \in 1..Len(s)
                BY <3>2, <1>1
            <4> QED
                BY <4>1, <1>1, <2>2
        <3> QED
            BY <3>1, <3>2
    <2> QED
        BY <1>1, <2>1, <2>2, <2>3, <2>5 DEF EndToEnd
<1> QED
    BY <1>2, <1>3

(* A run of records does not end before it starts. *)
LEMMA EndToEndForward ==
    ASSUME NEW s \in Seq(RecordType), NEW a \in Nat, NEW b \in Nat, EndToEnd(s, a, b)
    PROVE  a <= b
<1>1. CASE s = <<>>
    BY <1>1 DEF EndToEnd
<1>2. CASE s # <<>>
    <2>1. Len(s) \in 1..Len(s) /\ s[Len(s)] \in RecordType
        BY <1>2
    <2>2. a <= s[Len(s)].lsn /\ s[Len(s)].lsn + s[Len(s)].size = b
        BY <1>2, <2>1 DEF EndToEnd
    <2>3. s[Len(s)].lsn \in Nat /\ s[Len(s)].size \in Nat
        BY <2>1 DEF RecordType
    <2> QED
        BY <2>2, <2>3
<1> QED
    BY <1>1, <1>2

(* Two adjacent runs of records are one. *)
LEMMA EndToEndConcat ==
    ASSUME NEW s \in Seq(RecordType), NEW t \in Seq(RecordType), NEW a \in Nat, NEW b \in Nat, NEW c \in Nat,
           EndToEnd(s, a, b), EndToEnd(t, b, c)
    PROVE  EndToEnd(s \o t, a, c)
<1> DEFINE u == s \o t
           m == Len(s)
           n == Len(t)
<1>1. m \in Nat /\ n \in Nat /\ Len(u) = m + n
    OBVIOUS
<1>2. (\A i \in 1..m : u[i] = s[i]) /\ \A i \in 1..n : u[m + i] = t[i]
    OBVIOUS
<1>3. CASE s = <<>>
    <2>1. u = t /\ a = b
        BY <1>3 DEF EndToEnd
    <2> QED
        BY <2>1
<1>4. CASE t = <<>>
    <2>1. u = s /\ b = c
        BY <1>4 DEF EndToEnd
    <2> QED
        BY <2>1
<1>5. CASE s # <<>> /\ t # <<>>
    <2>1. m >= 1 /\ n >= 1
        BY <1>5
    <2>2. /\ s[1].lsn = a /\ s[m].lsn + s[m].size = b
          /\ \A i \in 1..(m - 1) : s[i + 1].lsn = s[i].lsn + s[i].size
          /\ \A i \in 1..m : a <= s[i].lsn
        BY <1>5 DEF EndToEnd
    <2>3. /\ t[1].lsn = b /\ t[n].lsn + t[n].size = c
          /\ \A i \in 1..(n - 1) : t[i + 1].lsn = t[i].lsn + t[i].size
          /\ \A i \in 1..n : b <= t[i].lsn
        BY <1>5 DEF EndToEnd
    <2>4. u # <<>>
        BY <1>1, <2>1
    <2> HIDE DEF u, m, n
    <2>5. u[1] = s[1] /\ u[m + n] = t[n]
        BY <1>1, <1>2, <2>1
    <2>6. \A i \in 1..(m + n - 1) : u[i + 1].lsn = u[i].lsn + u[i].size
        <3> SUFFICES ASSUME NEW i \in 1..(m + n - 1) PROVE u[i + 1].lsn = u[i].lsn + u[i].size
            OBVIOUS
        <3>1. CASE i < m
            <4>1. i \in 1..(m - 1) /\ i \in 1..m /\ i + 1 \in 1..m
                BY <3>1, <1>1
            <4> QED
                BY <4>1, <1>2, <2>2
        <3>2. CASE i = m
            <4>1. u[i] = s[m] /\ u[i + 1] = t[1]
                <5>1. i \in 1..m /\ 1 \in 1..n
                    BY <3>2, <1>1, <2>1
                <5>2. u[m] = s[m] /\ u[m + 1] = t[1]
                    BY <3>2, <5>1, <1>2
                <5> QED
                    BY <3>2, <5>2
            <4> QED
                BY <4>1, <2>2, <2>3
        <3>3. CASE i > m
            <4>1. PICK j \in 1..(n - 1) : i = m + j
                <5>1. i - m \in 1..(n - 1) /\ i = m + (i - m)
                    BY <3>3, <1>1
                <5> QED
                    BY <5>1
            <4>2. j \in 1..n /\ j + 1 \in 1..n /\ i + 1 = m + (j + 1)
                BY <4>1, <1>1
            <4>3. u[i] = t[j] /\ u[i + 1] = t[j + 1]
                BY <4>1, <4>2, <1>2
            <4> QED
                BY <4>1, <4>3, <2>3
        <3> QED
            BY <3>1, <3>2, <3>3, <1>1
    <2>8. a <= b
        BY EndToEndForward
    <2>9. \A i \in 1..(m + n) : a <= u[i].lsn
        <3> SUFFICES ASSUME NEW i \in 1..(m + n) PROVE a <= u[i].lsn
            OBVIOUS
        <3>1. CASE i <= m
            BY <3>1, <1>1, <1>2, <2>2
        <3>2. CASE i > m
            <4>1. PICK j \in 1..n : i = m + j
                <5>1. i - m \in 1..n /\ i = m + (i - m)
                    BY <3>2, <1>1
                <5> QED
                    BY <5>1
            <4>2. u[i] = t[j] /\ b <= t[j].lsn /\ t[j] \in RecordType
                BY <4>1, <1>2, <2>3 DEF n
            <4>3. t[j].lsn \in Nat
                BY <4>2 DEF RecordType
            <4> QED
                BY <4>2, <4>3, <2>8
        <3> QED
            BY <3>1, <3>2, <1>1
    <2>7. EndToEnd(u, a, c)
        BY <1>1, <2>2, <2>3, <2>4, <2>5, <2>6, <2>9 DEF EndToEnd
    <2> QED
        BY <2>7 DEF u
<1> QED
    BY <1>3, <1>4, <1>5

(* The first k records of a run end where its k-th record ends. *)
LEMMA EndToEndPrefix ==
    ASSUME NEW t \in Seq(RecordType), NEW a \in Nat, NEW b \in Nat, EndToEnd(t, a, b), NEW k \in 1..Len(t)
    PROVE  EndToEnd(SubSeq(t, 1, k), a, t[k].lsn + t[k].size)
<1> DEFINE s == SubSeq(t, 1, k)
<1>1. Len(t) \in Nat /\ s \in Seq(RecordType) /\ Len(s) = k /\ (\A i \in 1..k : s[i] = t[i]) /\ s # <<>> /\ t # <<>>
    OBVIOUS
<1>2. /\ t[1].lsn = a /\ \A i \in 1..(Len(t) - 1) : t[i + 1].lsn = t[i].lsn + t[i].size
      /\ \A i \in 1..Len(t) : a <= t[i].lsn
    BY <1>1 DEF EndToEnd
<1> HIDE DEF s
<1>3. /\ \A i \in 1..(k - 1) : i \in 1..(Len(t) - 1) /\ i \in 1..k /\ i + 1 \in 1..k
      /\ 1..k \subseteq 1..Len(t)
    BY <1>1
<1>4. \A i \in 1..(k - 1) : s[i + 1].lsn = s[i].lsn + s[i].size
    BY <1>1, <1>2, <1>3
<1>5. (\A i \in 1..k : a <= s[i].lsn) /\ s[1].lsn = a /\ s[k] = t[k]
    BY <1>1, <1>2, <1>3
<1>6. EndToEnd(s, a, t[k].lsn + t[k].size)
    BY <1>1, <1>4, <1>5 DEF EndToEnd
<1> QED
    BY <1>6 DEF s

----------------------------------------------------------------------------
(***************************************************************************)
(* The inductive invariant.  Beyond the properties themselves it says that *)
(* waiterCount counts the calls it is meant to count, that only the        *)
(* flusher between its swap and its publication has a back buffer, and     *)
(* that Close has returned only after the flusher stopped.                 *)
(***************************************************************************)
Counting == {"counted", "noSpace", "panicked"}

InAppend == {c \in Clients : pc[c] \in Counting}

CallsCounted == waiterCount = Cardinality(InAppend)

BackOwned ==
    /\ flusher \notin {"write", "publish"} => back = Empty
    /\ flusher \in {"write", "publish"} => back = Empty \/ back.len > 0

ClosedAfterStop ==
    /\ closer = "closed" => flusher = "stopped"
    /\ closer # "open" => closed

IInv == TypeOK /\ CallsCounted /\ BackOwned /\ ClosedAfterStop /\ LsnIsOffset /\ FlushedIsOnDisk
        /\ AckedAfterPrior

BufferType == [len : Nat, recs : Seq(RecordType)]

(* The empty buffer, record and call have their types. *)
LEMMA ConstantTypes == Empty \in BufferType /\ NoRecord \in RecordType /\ NoCall \in [id : 0..MaxCalls, size : Nat]
BY LogConstants DEF Empty, NoRecord, NoCall, Torn, BufferType, RecordType

(* An empty log satisfies the invariant. *)
LEMMA InvInit == Init => IInv
<1> SUFFICES ASSUME Init PROVE IInv
    OBVIOUS
<1>1. TypeOK
    <2>1. front \in BufferType /\ back \in BufferType /\ file \in BufferType
        BY ConstantTypes DEF Init
    <2>2. req \in [Clients -> [id : 0..MaxCalls, size : Nat]] /\ mine \in [Clients -> RecordType]
        BY ConstantTypes DEF Init
    <2>3. calls \in 0..MaxCalls /\ crashes \in 0..MaxCrashes
        BY LogConstants DEF Init
    <2> QED
        BY <2>1, <2>2, <2>3 DEF Init, TypeOK, BufferType
<1>2. CallsCounted
    <2>1. InAppend = {}
        BY DEF Init, InAppend, Counting
    <2> QED
        BY <2>1, FS_EmptySet DEF Init, CallsCounted
<1>3. BackOwned /\ ClosedAfterStop /\ LsnIsOffset /\ FlushedIsOnDisk /\ AckedAfterPrior
    BY DEF Init, BackOwned, ClosedAfterStop, LsnIsOffset, FlushedIsOnDisk, AckedAfterPrior, EndToEnd,
           Unwritten, Empty
<1> QED
    BY <1>1, <1>2, <1>3 DEF IInv

(* Moving one goroutine changes the count only if it enters or leaves. *)
LEMMA CountFacts ==
    ASSUME TypeOK, CallsCounted, NEW c \in Clients, NEW label, pc' = [pc EXCEPT ![c] = label]
    PROVE  /\ waiterCount \in Nat
           /\ IsFiniteSet(InAppend)
           /\ c \in InAppend /\ label \in Counting => InAppend' = InAppend
           /\ c \notin InAppend /\ label \notin Counting => InAppend' = InAppend
           /\ c \notin InAppend /\ label \in Counting =>
                 Cardinality(InAppend') = Cardinality(InAppend) + 1
           /\ c \in InAppend /\ label \notin Counting =>
                 Cardinality(InAppend') = Cardinality(InAppend) - 1
<1>1. waiterCount \in Nat /\ pc \in [Clients -> {"idle", "entered", "counted", "noSpace", "appended", "checking",
                                               "parking", "parked", "panicked"}]
    BY DEF TypeOK
<1>2. IsFiniteSet(InAppend)
    BY FS_Subset, LogConstants DEF InAppend
<1>3. pc'[c] = label /\ \A d \in Clients \ {c} : pc'[d] = pc[d]
    BY <1>1
<1>4. InAppend' = IF label \in Counting THEN InAppend \union {c} ELSE InAppend \ {c}
    BY <1>3 DEF InAppend
<1>5. Cardinality(InAppend \union {c}) = IF c \in InAppend THEN Cardinality(InAppend) ELSE Cardinality(InAppend) + 1
    BY <1>2, FS_AddElement
<1>6. Cardinality(InAppend \ {c}) = IF c \in InAppend THEN Cardinality(InAppend) - 1 ELSE Cardinality(InAppend)
    BY <1>2, FS_RemoveElement
<1> QED
    BY <1>1, <1>2, <1>4, <1>5, <1>6

Labels == {"idle", "entered", "counted", "noSpace", "appended", "checking", "parking", "parked", "panicked"}

(* What the layout properties are about *)
layoutVars == <<front, back, lsn, flushedLSN, file, flusher, closer, closed>>

(* A step that touches neither buffers, file nor their owners keeps them   *)
(* laid out.                                                               *)
LEMMA LayoutKept ==
    ASSUME IInv, UNCHANGED layoutVars
    PROVE  BackOwned' /\ ClosedAfterStop' /\ LsnIsOffset' /\ FlushedIsOnDisk' /\ (acked' = acked => AckedAfterPrior')
<1>1. UNCHANGED front /\ UNCHANGED back /\ UNCHANGED lsn /\ UNCHANGED flushedLSN /\ UNCHANGED file
      /\ UNCHANGED flusher /\ UNCHANGED closer /\ UNCHANGED closed
    BY DEF layoutVars
<1>2. BackOwned' /\ ClosedAfterStop' /\ FlushedIsOnDisk' /\ (acked' = acked => AckedAfterPrior')
    BY <1>1 DEF IInv, BackOwned, ClosedAfterStop, FlushedIsOnDisk, AckedAfterPrior
<1>3. LsnIsOffset'
    <2>1. Unwritten' = Unwritten
        BY <1>1 DEF Unwritten
    <2> QED
        BY <1>1, <2>1 DEF IInv, LsnIsOffset, EndToEnd
<1> QED
    BY <1>2, <1>3

(* Steps of a goroutine that only move it, or start a call. *)
LEMMA ClientInv ==
    ASSUME IInv, NEW c \in Clients,
           \/ \E size \in Sizes : Enter(c, size)
           \/ WaitForSpace(c) \/ BeginWait(c) \/ Park(c)
    PROVE  IInv'
<1>1. TypeOK /\ CallsCounted /\ pc \in [Clients -> Labels]
    BY DEF IInv, TypeOK, Labels
<1>2. PICK label \in Labels :
        /\ pc' = [pc EXCEPT ![c] = label]
        /\ c \in InAppend <=> label \in Counting
    BY DEF Enter, WaitForSpace, BeginWait, Park, Goto, Labels, InAppend, Counting
<1>3. UNCHANGED <<bufferVars, file, flusher, closer, acked, mine, crashes, closed>>
    BY DEF Enter, WaitForSpace, BeginWait, Park
<1>4. UNCHANGED <<front, back, lsn, flushedLSN, waiterCount, file, flusher, closer, acked, mine, crashes, closed>>
    BY <1>3 DEF bufferVars
<1>5. CallsCounted'
    BY <1>1, <1>2, <1>4, CountFacts DEF CallsCounted
<1>6. TypeOK'
    <2>1. pc' \in [Clients -> Labels]
        BY <1>1, <1>2
    <2>2. calls' \in 0..MaxCalls /\ req' \in [Clients -> [id : 0..MaxCalls, size : Nat]]
        <3>1. calls \in 0..MaxCalls /\ req \in [Clients -> [id : 0..MaxCalls, size : Nat]]
            BY <1>1 DEF TypeOK
        <3>2. CASE calls' = calls /\ req' = req
            BY <3>1, <3>2
        <3>3. ASSUME NEW size \in Sizes, Enter(c, size)
              PROVE  calls' \in 0..MaxCalls /\ req' \in [Clients -> [id : 0..MaxCalls, size : Nat]]
            <4>1. calls + 1 \in 0..MaxCalls /\ size \in Nat
                BY <3>1, <3>3, LogConstants DEF Enter
            <4> QED
                BY <3>1, <3>3, <4>1 DEF Enter
        <3> QED
            BY <3>2, <3>3 DEF WaitForSpace, BeginWait, Park
    <2>3. flushCh' \in BOOLEAN
        BY <1>1 DEF TypeOK, Enter, WaitForSpace, BeginWait, Park
    <2> QED
        BY <1>1, <1>4, <2>1, <2>2, <2>3 DEF TypeOK, Labels
<1> QED
    BY <1>4, <1>5, <1>6, LayoutKept DEF IInv, layoutVars

(* A panic on the dropped buffer comes after Close, when lsn is no longer  *)
(* the end of anything.                                                    *)
LEMMA AppendPanicsInv ==
    ASSUME IInv, NEW c \in Clients, AppendPanics(c)
    PROVE  IInv'
<1>1. TypeOK /\ CallsCounted /\ pc \in [Clients -> Labels]
    BY DEF IInv, TypeOK, Labels
<1>2. /\ pc[c] = "counted" /\ pc' = [pc EXCEPT ![c] = "panicked"] /\ closer = "closed" /\ lsn' = lsn + req[c].size
      /\ UNCHANGED <<front, back, flushedLSN, waiterCount, closed, flushCh, file, flusher, closer, req, mine, calls,
                     acked, crashes>>
    BY DEF AppendPanics, Goto
<1>3. CallsCounted'
    <2>1. c \in InAppend /\ "panicked" \in Counting
        BY <1>2 DEF InAppend, Counting
    <2>2. InAppend' = InAppend
        BY <1>1, <1>2, <2>1, CountFacts
    <2> QED
        BY <1>1, <1>2, <2>2 DEF CallsCounted
<1>4. TypeOK'
    <2>1. pc' \in [Clients -> Labels]
        BY <1>1, <1>2 DEF Labels
    <2>2. lsn' \in Nat
        BY <1>1, <1>2 DEF TypeOK
    <2> QED
        BY <1>1, <1>2, <2>1, <2>2 DEF TypeOK, Labels
<1>5. LsnIsOffset'
    <2>1. Unwritten' = Unwritten
        BY <1>2 DEF Unwritten
    <2> QED
        BY <1>2, <2>1 DEF IInv, LsnIsOffset, EndToEnd
<1>6. BackOwned' /\ ClosedAfterStop' /\ FlushedIsOnDisk' /\ AckedAfterPrior'
    BY <1>2 DEF IInv, BackOwned, ClosedAfterStop, FlushedIsOnDisk, AckedAfterPrior
<1> QED
    BY <1>3, <1>4, <1>5, <1>6 DEF IInv

(* waiterCount goes up with the call that enters the counted part. *)
LEMMA CountInv ==
    ASSUME IInv, NEW c \in Clients, Count(c)
    PROVE  IInv'
<1>1. TypeOK /\ CallsCounted /\ pc \in [Clients -> Labels]
    BY DEF IInv, TypeOK, Labels
<1>2. pc[c] = "entered" /\ pc' = [pc EXCEPT ![c] = "counted"] /\ waiterCount' = waiterCount + 1
      /\ UNCHANGED <<front, back, lsn, flushedLSN, closed, flushCh, file, flusher, closer, req, mine, calls, acked,
                     crashes>>
    BY DEF Count, Goto
<1>3. CallsCounted'
    <2>1. c \notin InAppend /\ "counted" \in Counting
        BY <1>2 DEF InAppend, Counting
    <2>2. Cardinality(InAppend') = Cardinality(InAppend) + 1
        BY <1>1, <1>2, <2>1, CountFacts
    <2> QED
        BY <1>1, <1>2, <2>2 DEF CallsCounted
<1>4. TypeOK'
    <2>1. pc' \in [Clients -> Labels]
        BY <1>1, <1>2 DEF Labels
    <2>2. waiterCount' \in Nat
        BY <1>1, <1>2 DEF TypeOK
    <2> QED
        BY <1>1, <1>2, <2>1, <2>2 DEF TypeOK, Labels
<1> QED
    BY <1>2, <1>3, <1>4, LayoutKept DEF IInv, layoutVars

(* The record lands behind the front buffer's records, at offset lsn. *)
LEMMA AppendRecordInv ==
    ASSUME IInv, NEW c \in Clients, AppendRecord(c)
    PROVE  IInv'
<1> DEFINE r == NewRecord(c)
<1>1. TypeOK /\ CallsCounted /\ pc \in [Clients -> Labels] /\ LsnIsOffset
    BY DEF IInv, TypeOK, Labels
<1>2. /\ pc[c] = "counted" /\ closer # "closed"
      /\ lsn' = lsn + req[c].size /\ front' = Put(front, r) /\ waiterCount' = waiterCount - 1
      /\ mine' = [mine EXCEPT ![c] = r] /\ pc' = [pc EXCEPT ![c] = "appended"]
      /\ UNCHANGED <<back, flushedLSN, closed, flushCh, file, flusher, closer, req, calls, acked, crashes>>
    BY DEF AppendRecord, Goto
<1>3. r \in RecordType /\ r.lsn = lsn /\ r.size = req[c].size /\ r.size \in Nat /\ lsn \in Nat
    BY <1>1 DEF NewRecord, TypeOK, RecordType
<1>4. front \in BufferType /\ back \in BufferType /\ file \in BufferType
    BY <1>1 DEF TypeOK, BufferType
<1> HIDE DEF r
<1>5. /\ front' \in BufferType
      /\ front'.len = front.len + r.size
      /\ front'.recs = Append(front.recs, r)
    <2>1. front.len \in Nat /\ front.recs \in Seq(RecordType)
        BY <1>4 DEF BufferType
    <2>2. Append(front.recs, r) \in Seq(RecordType) /\ front.len + r.size \in Nat
        BY <1>3, <2>1
    <2> QED
        BY <1>2, <2>2 DEF Put, BufferType
<1>6. CallsCounted' /\ waiterCount' \in Nat
    <2>1. c \in InAppend /\ "appended" \notin Counting
        BY <1>2 DEF InAppend, Counting
    <2>4. Cardinality(InAppend') = Cardinality(InAppend) - 1 /\ IsFiniteSet(InAppend)
        BY <1>1, <1>2, <2>1, CountFacts
    <2>2. waiterCount = Cardinality(InAppend)
        BY <1>1 DEF CallsCounted
    <2>3. waiterCount \in Nat /\ waiterCount # 0
        BY <1>1, <2>1, <2>2, <2>4, FS_EmptySet DEF TypeOK
    <2> QED
        BY <1>2, <2>2, <2>3, <2>4 DEF CallsCounted
<1>7. TypeOK'
    <2>1. pc' \in [Clients -> Labels]
        BY <1>1, <1>2 DEF Labels
    <2>2. mine' \in [Clients -> RecordType]
        BY <1>1, <1>2, <1>3 DEF TypeOK
    <2>3. lsn' \in Nat
        BY <1>2, <1>3
    <2> QED
        BY <1>1, <1>2, <1>5, <1>6, <2>1, <2>2, <2>3 DEF TypeOK, Labels, BufferType
<1>8. LsnIsOffset'
    <2>1. Unwritten' = Unwritten /\ Unwritten \in BufferType
        BY <1>2, <1>4, ConstantTypes DEF Unwritten
    <2>2. EndToEnd(front.recs, file.len + Unwritten.len, lsn) /\ lsn = file.len + Unwritten.len + front.len
        BY <1>1, <1>2 DEF LsnIsOffset
    <2>3. file.len \in Nat /\ Unwritten.len \in Nat /\ front.len \in Nat /\ front.recs \in Seq(RecordType)
        BY <1>4, <2>1 DEF BufferType
    <2>4. file.len + Unwritten.len \in Nat
        BY <2>3
    <2>5. EndToEnd(front'.recs, file.len + Unwritten.len, lsn + r.size)
        BY <1>3, <1>5, <2>2, <2>3, <2>4, EndToEndAppend
    <2>6. lsn' = lsn + r.size /\ lsn' = file.len + Unwritten.len + front'.len
        BY <1>2, <1>3, <1>5, <2>2, <2>3, SMTT(30)
    <2> QED
        BY <1>1, <1>2, <2>1, <2>5, <2>6 DEF LsnIsOffset, EndToEnd
<1>9. BackOwned' /\ ClosedAfterStop' /\ FlushedIsOnDisk' /\ AckedAfterPrior'
    BY <1>2 DEF IInv, BackOwned, ClosedAfterStop, FlushedIsOnDisk, AckedAfterPrior
<1> QED
    BY <1>6, <1>7, <1>8, <1>9 DEF IInv

(* A nil return: the LSN is at most flushedLSN, hence within the file. *)
LEMMA CheckFlushedInv ==
    ASSUME IInv, NEW c \in Clients, CheckFlushed(c)
    PROVE  IInv'
<1>1. TypeOK /\ CallsCounted /\ pc \in [Clients -> Labels]
    BY DEF IInv, TypeOK, Labels
<1>2. PICK label \in {"parking", "idle"} : pc[c] = "checking" /\ pc' = [pc EXCEPT ![c] = label]
    BY DEF CheckFlushed, Goto
<1>3. UNCHANGED <<front, back, lsn, flushedLSN, waiterCount, closed, flushCh, file, flusher, closer, req, mine, calls,
                  crashes>>
    BY DEF CheckFlushed, bufferVars
<1>4. \/ acked' = acked
      \/ ~MustWait(mine[c]) /\ acked' = acked \union {mine[c]}
    <2>1. CASE MustWait(mine[c])
        BY <2>1 DEF CheckFlushed
    <2>2. CASE ~MustWait(mine[c])
        BY <2>2 DEF CheckFlushed
    <2> QED
        BY <2>1, <2>2
<1>5. CallsCounted'
    <2>1. c \notin InAppend /\ label \notin Counting
        BY <1>2 DEF InAppend, Counting
    <2>2. InAppend' = InAppend
        BY <1>1, <1>2, <2>1, CountFacts
    <2> QED
        BY <1>1, <1>3, <2>2 DEF CallsCounted
<1>6. TypeOK'
    <2>1. pc' \in [Clients -> Labels]
        BY <1>1, <1>2 DEF Labels
    <2>2. acked' \subseteq RecordType
        BY <1>1, <1>4 DEF TypeOK
    <2> QED
        BY <1>1, <1>3, <2>1, <2>2 DEF TypeOK, Labels
<1>7. BackOwned' /\ ClosedAfterStop' /\ LsnIsOffset' /\ FlushedIsOnDisk'
    BY <1>3, LayoutKept DEF layoutVars
<1>8. AckedAfterPrior'
    <2>1. flushedLSN \in Nat /\ file.len \in Nat /\ back.len \in Nat /\ mine[c].lsn \in Nat
        BY <1>1 DEF TypeOK, RecordType
    <2>2. flushedLSN <= file.len
        BY <2>1 DEF IInv, FlushedIsOnDisk
    <2>3. ~MustWait(mine[c]) => mine[c].lsn <= file.len
        BY <2>1, <2>2 DEF MustWait
    <2> QED
        BY <1>3, <1>4, <2>3 DEF IInv, AckedAfterPrior
<1> QED
    BY <1>5, <1>6, <1>7, <1>8 DEF IInv

(* A broadcast moves no goroutine into or out of the counted part. *)
LEMMA WakeFacts ==
    ASSUME pc \in [Clients -> Labels],
           pc' = pc \/ pc' = WakeAppenders(pc) \/ pc' = WakeWaiters(WakeAppenders(pc))
    PROVE  pc' \in [Clients -> Labels] /\ InAppend' = InAppend
<1>1. \A c \in Clients : pc[c] \in Labels /\ pc'[c] \in Labels /\ (pc'[c] \in Counting <=> pc[c] \in Counting)
    BY DEF WakeAppenders, WakeWaiters, Labels, Counting
<1>2. pc' \in [Clients -> Labels]
    <2>1. DOMAIN pc' = Clients /\ pc' = [c \in Clients |-> pc'[c]]
        BY DEF WakeAppenders, WakeWaiters
    <2> QED
        BY <1>1, <2>1
<1> QED
    BY <1>1, <1>2 DEF InAppend

(* Steps of the flusher that only move it, and Close. *)
LEMMA FlusherMovesInv ==
    ASSUME IInv, Tick \/ ReceiveFlush \/ Notify \/ Exit \/ Close
    PROVE  IInv'
<1>1. TypeOK /\ CallsCounted /\ pc \in [Clients -> Labels]
    BY DEF IInv, TypeOK, Labels
<1>2. UNCHANGED <<front, back, lsn, flushedLSN, waiterCount, file, req, mine, calls, acked, crashes>>
    BY DEF Tick, ReceiveFlush, Notify, Exit, Close, bufferVars, clientVars
<1>3. pc' = pc \/ pc' = WakeAppenders(pc) \/ pc' = WakeWaiters(WakeAppenders(pc))
    BY DEF Tick, ReceiveFlush, Notify, Exit, Close, clientVars
<1>4. pc' \in [Clients -> Labels] /\ InAppend' = InAppend
    BY <1>1, <1>3, WakeFacts
<1>5. /\ flusher' \in {"swap", "exit", "stopped", "select"} \/ flusher' = flusher
      /\ flusher' # flusher => flusher \notin {"write", "publish", "stopped"}
    BY DEF Tick, ReceiveFlush, Notify, Exit, Close
<1>6. closer' = closer \/ closer' = "waiting"
    BY DEF Tick, ReceiveFlush, Notify, Exit, Close
<1>7. TypeOK'
    <2>1. closed' \in BOOLEAN /\ flushCh' \in BOOLEAN
        BY <1>1 DEF Tick, ReceiveFlush, Notify, Exit, Close, TypeOK
    <2> QED
        BY <1>1, <1>2, <1>4, <1>5, <1>6, <2>1 DEF TypeOK, Labels
<1>8. CallsCounted'
    BY <1>1, <1>2, <1>4 DEF CallsCounted
<1>9. BackOwned' /\ FlushedIsOnDisk' /\ AckedAfterPrior'
    BY <1>2, <1>5 DEF IInv, BackOwned, FlushedIsOnDisk, AckedAfterPrior
<1>10. ClosedAfterStop' /\ (closer' = "closed" <=> closer = "closed")
    BY <1>5, <1>6 DEF IInv, ClosedAfterStop, Tick, ReceiveFlush, Notify, Exit, Close
<1>11. LsnIsOffset'
    <2>1. Unwritten' = Unwritten
        BY <1>2, <1>5 DEF IInv, BackOwned, Unwritten
    <2> QED
        BY <1>2, <1>10, <2>1 DEF IInv, LsnIsOffset, EndToEnd
<1> QED
    BY <1>7, <1>8, <1>9, <1>10, <1>11 DEF IInv

(* The buffers change places only when the back one is empty: the front's  *)
(* records become the unwritten ones, and nothing follows them.            *)
LEMMA SwapInv ==
    ASSUME IInv, Swap
    PROVE  IInv'
<1>1. TypeOK /\ CallsCounted /\ pc \in [Clients -> Labels]
    BY DEF IInv, TypeOK, Labels
<1>2. /\ flusher = "swap" /\ flusher' = "write"
      /\ UNCHANGED <<lsn, flushedLSN, waiterCount, closed, flushCh, file, closer, req, mine, calls, acked, crashes>>
    BY DEF Swap
<1>3. back = Empty /\ closer # "closed"
    BY <1>2 DEF IInv, BackOwned, ClosedAfterStop
<1>4. pc' = pc \/ pc' = WakeAppenders(pc)
    BY DEF Swap
<1>5. pc' \in [Clients -> Labels] /\ InAppend' = InAppend
    BY <1>1, <1>4, WakeFacts
<1>6. \/ front' = front /\ back' = Empty
      \/ front' = Empty /\ back' = front /\ front.len > 0
    BY <1>3 DEF Swap
<1>7. TypeOK'
    <2>1. front' \in BufferType /\ back' \in BufferType
        BY <1>1, <1>6, ConstantTypes DEF TypeOK, BufferType
    <2> QED
        BY <1>1, <1>2, <1>5, <2>1 DEF TypeOK, Labels, BufferType
<1>8. CallsCounted'
    BY <1>1, <1>2, <1>5 DEF CallsCounted
<1>9. BackOwned' /\ ClosedAfterStop' /\ FlushedIsOnDisk' /\ AckedAfterPrior'
    BY <1>2, <1>6 DEF IInv, BackOwned, ClosedAfterStop, FlushedIsOnDisk, AckedAfterPrior
<1>10. LsnIsOffset'
    <2>1. /\ EndToEnd(file.recs, 0, file.len)
          /\ EndToEnd(front.recs, file.len + 0, lsn)
          /\ lsn = file.len + 0 + front.len
          /\ file.len \in Nat /\ front.len \in Nat /\ lsn \in Nat
        BY <1>1, <1>2, <1>3 DEF IInv, LsnIsOffset, Unwritten, Empty, TypeOK
    <2>2. EndToEnd(front.recs, file.len, lsn) /\ lsn = file.len + front.len
        <3>1. file.len + 0 = file.len
            BY <2>1
        <3> QED
            BY <2>1, <3>1, Zenon
    <2>3. Unwritten' = back'
        BY <1>2 DEF Unwritten
    <2>4. EndToEnd(<<>>, file.len, file.len + 0) /\ EndToEnd(<<>>, file.len + front.len, lsn)
        BY <2>1, <2>2 DEF EndToEnd
    <2>5. CASE front' = front /\ back' = Empty
        BY <1>2, <2>1, <2>3, <2>4, <2>5 DEF LsnIsOffset, Empty
    <2>6. CASE front' = Empty /\ back' = front
        <3>1. EndToEnd(front.recs, file.len, file.len + front.len) /\ lsn = file.len + front.len + 0
            BY <2>1, <2>2
        <3> QED
            BY <1>2, <2>1, <2>3, <2>4, <2>6, <3>1 DEF LsnIsOffset, Empty
    <2> QED
        BY <1>6, <2>5, <2>6
<1> QED
    BY <1>7, <1>8, <1>9, <1>10 DEF IInv

(* The unwritten records follow the file's: written, they continue them. *)
LEMMA WriteBackInv ==
    ASSUME IInv, WriteBack
    PROVE  IInv'
<1>1. TypeOK /\ CallsCounted /\ pc \in [Clients -> Labels]
    BY DEF IInv, TypeOK, Labels
<1>2. /\ flusher = "write"
      /\ UNCHANGED <<front, back, lsn, flushedLSN, waiterCount, closed, flushCh, closer, pc, req, mine, calls, acked,
                     crashes>>
    BY DEF WriteBack, bufferVars, clientVars
<1>3. closer # "closed" /\ Unwritten = back /\ (back = Empty \/ back.len > 0)
    BY <1>2 DEF IInv, BackOwned, ClosedAfterStop, Unwritten
<1>4. front \in BufferType /\ back \in BufferType /\ file \in BufferType
    BY <1>1 DEF TypeOK, BufferType
<1>5. file.len \in Nat /\ back.len \in Nat /\ file.recs \in Seq(RecordType) /\ back.recs \in Seq(RecordType)
      /\ lsn \in Nat /\ front.len \in Nat /\ flushedLSN \in Nat
    BY <1>1, <1>4 DEF BufferType, TypeOK
<1>6. /\ EndToEnd(file.recs, 0, file.len)
      /\ EndToEnd(back.recs, file.len, file.len + back.len)
      /\ EndToEnd(front.recs, file.len + back.len, lsn)
      /\ lsn = file.len + back.len + front.len
      /\ flushedLSN = file.len
    BY <1>2, <1>3, <1>5 DEF IInv, LsnIsOffset, FlushedIsOnDisk
<1>7. CASE back.len > 0
    <2>1. flusher' = "publish" /\ file' = Write(file, back)
        BY <1>7 DEF WriteBack
    <2>2. file'.len = file.len + back.len /\ file'.recs = file.recs \o back.recs /\ file' \in BufferType
        <3>1. file.recs \o back.recs \in Seq(RecordType) /\ file.len + back.len \in Nat
            BY <1>5
        <3> QED
            BY <2>1, <3>1 DEF Write, BufferType
    <2>3. TypeOK'
        BY <1>1, <1>2, <2>1, <2>2 DEF TypeOK, BufferType
    <2>4. EndToEnd(file'.recs, 0, file'.len)
        <3>1. file.len + back.len \in Nat
            BY <1>5
        <3> QED
            BY <1>5, <1>6, <2>2, <3>1, EndToEndConcat
    <2>5. Unwritten' = Empty
        BY <2>1 DEF Unwritten
    <2>6. LsnIsOffset'
        <3>1. EndToEnd(<<>>, file'.len, file'.len + 0)
            BY <1>5, <2>2 DEF EndToEnd
        <3>2. EndToEnd(front.recs, file'.len + 0, lsn) /\ lsn = file'.len + 0 + front.len
            BY <1>5, <1>6, <2>2 DEF EndToEnd
        <3> QED
            BY <1>2, <2>4, <2>5, <3>1, <3>2 DEF LsnIsOffset, Empty
    <2>7. AckedAfterPrior'
        <3>1. \A r \in acked : r.lsn \in Nat /\ r.lsn <= file.len
            BY <1>1 DEF IInv, AckedAfterPrior, TypeOK, RecordType
        <3> QED
            BY <1>2, <1>5, <2>2, <3>1 DEF AckedAfterPrior
    <2>8. CallsCounted' /\ BackOwned' /\ ClosedAfterStop' /\ FlushedIsOnDisk'
        BY <1>1, <1>2, <1>3, <1>6, <1>7, <2>1, <2>2
           DEF CallsCounted, InAppend, BackOwned, ClosedAfterStop, FlushedIsOnDisk, IInv
    <2> QED
        BY <2>3, <2>6, <2>7, <2>8 DEF IInv
<1>8. CASE ~(back.len > 0)
    <2>1. flusher' = "exit" /\ file' = file /\ back = Empty
        BY <1>3, <1>8 DEF WriteBack
    <2>2. Unwritten' = Unwritten
        BY <1>2, <1>3, <2>1 DEF Unwritten
    <2>3. TypeOK'
        BY <1>1, <1>2, <2>1 DEF TypeOK
    <2>4. LsnIsOffset'
        BY <1>2, <2>1, <2>2 DEF IInv, LsnIsOffset, EndToEnd
    <2>5. CallsCounted' /\ BackOwned' /\ ClosedAfterStop' /\ FlushedIsOnDisk' /\ AckedAfterPrior'
        BY <1>1, <1>2, <1>3, <2>1
           DEF CallsCounted, InAppend, BackOwned, ClosedAfterStop, FlushedIsOnDisk, AckedAfterPrior, IInv
    <2> QED
        BY <2>3, <2>4, <2>5 DEF IInv
<1> QED
    BY <1>7, <1>8

(* What was synced becomes flushed. *)
LEMMA PublishInv ==
    ASSUME IInv, Publish
    PROVE  IInv'
<1>1. TypeOK /\ CallsCounted
    BY DEF IInv
<1>2. /\ flusher = "publish" /\ flusher' = "notify" /\ back' = Empty /\ flushedLSN' = flushedLSN + back.len
      /\ UNCHANGED <<front, lsn, waiterCount, closed, flushCh, file, closer, pc, req, mine, calls, acked, crashes>>
    BY DEF Publish, clientVars
<1>3. flushedLSN \in Nat /\ back.len \in Nat /\ file.len \in Nat
    BY <1>1 DEF TypeOK
<1>4. TypeOK'
    <2>1. flushedLSN' \in Nat /\ back' \in BufferType
        BY <1>2, <1>3, ConstantTypes
    <2> QED
        BY <1>1, <1>2, <2>1 DEF TypeOK, BufferType
<1>5. Unwritten' = Unwritten
    BY <1>2 DEF Unwritten
<1>6. LsnIsOffset'
    BY <1>2, <1>5 DEF IInv, LsnIsOffset, EndToEnd
<1>7. FlushedIsOnDisk'
    BY <1>2, <1>3 DEF IInv, FlushedIsOnDisk
<1>8. CallsCounted' /\ BackOwned' /\ ClosedAfterStop' /\ AckedAfterPrior'
    BY <1>1, <1>2 DEF CallsCounted, InAppend, BackOwned, ClosedAfterStop, AckedAfterPrior, IInv
<1> QED
    BY <1>4, <1>6, <1>7, <1>8 DEF IInv

(* Close returns once the flusher has stopped, which left no back buffer. *)
LEMMA CloseReturnsInv ==
    ASSUME IInv, CloseReturns
    PROVE  IInv'
<1>1. TypeOK /\ CallsCounted
    BY DEF IInv
<1>2. /\ closer = "waiting" /\ flusher = "stopped" /\ closer' = "closed" /\ front' = Empty /\ back' = Empty
      /\ UNCHANGED <<lsn, flushedLSN, waiterCount, closed, flushCh, file, flusher, pc, req, mine, calls, acked, crashes>>
    BY DEF CloseReturns, clientVars
<1>3. back = Empty
    BY <1>2 DEF IInv, BackOwned
<1>4. TypeOK'
    BY <1>1, <1>2, ConstantTypes DEF TypeOK, BufferType
<1>5. LsnIsOffset'
    <2>1. Unwritten' = Unwritten
        BY <1>2, <1>3 DEF Unwritten
    <2> QED
        BY <1>2, <2>1 DEF IInv, LsnIsOffset, EndToEnd
<1>6. CallsCounted' /\ BackOwned' /\ ClosedAfterStop' /\ FlushedIsOnDisk' /\ AckedAfterPrior'
    BY <1>1, <1>2, <1>3
       DEF CallsCounted, InAppend, BackOwned, ClosedAfterStop, FlushedIsOnDisk, AckedAfterPrior, IInv
<1> QED
    BY <1>4, <1>5, <1>6 DEF IInv

(* Whatever part of the back buffer a crash leaves behind the file, whole  *)
(* records or a piece of one more, the file's records lie end to end.      *)
LEMMA CrashLayout ==
    ASSUME NEW f \in BufferType, NEW b \in BufferType,
           EndToEnd(f.recs, 0, f.len), EndToEnd(b.recs, f.len, f.len + b.len),
           NEW g \in AfterCrash(f, b)
    PROVE  g \in BufferType /\ EndToEnd(g.recs, 0, g.len) /\ f.len <= g.len
<1>1. /\ f.len \in Nat /\ b.len \in Nat /\ f.recs \in Seq(RecordType) /\ b.recs \in Seq(RecordType)
      /\ f.len + b.len \in Nat /\ Len(b.recs) \in Nat
    BY DEF BufferType
<1>2. ASSUME NEW k \in 1..Len(b.recs)
      PROVE  /\ b.recs[k] \in RecordType /\ b.recs[k].lsn \in Nat /\ b.recs[k].size \in Nat
             /\ b.recs[1].lsn = f.len
    <2>1. b.recs # <<>> /\ b.recs[k] \in RecordType
        BY <1>1
    <2> QED
        BY <2>1 DEF EndToEnd, RecordType
<1>3. ASSUME NEW k \in 0..Len(b.recs)
      PROVE  /\ Upto(f, b, k) \in BufferType /\ EndToEnd(Upto(f, b, k).recs, 0, Upto(f, b, k).len)
             /\ f.len <= Upto(f, b, k).len
             /\ k < Len(b.recs) => Upto(f, b, k).len = b.recs[k + 1].lsn
    <2> DEFINE p == SubSeq(b.recs, 1, k)
    <2>1. p \in Seq(RecordType) /\ f.recs \o p \in Seq(RecordType)
        BY <1>1
    <2>2. Upto(f, b, k).recs = f.recs \o p
        BY DEF Upto
    <2>3. CASE k = 0
        <3>1. p = <<>> /\ f.recs \o p = f.recs
            BY <1>1, <2>3
        <3>2. Upto(f, b, k).len = f.len
            BY <1>1, <2>3 DEF Upto
        <3>3. k < Len(b.recs) => b.recs[k + 1].lsn = f.len
            BY <1>1, <1>2, <2>3
        <3>4. Upto(f, b, k) = [len |-> Upto(f, b, k).len, recs |-> Upto(f, b, k).recs]
            BY DEF Upto
        <3> QED
            <4>1. Upto(f, b, k) = [len |-> f.len, recs |-> f.recs]
                BY <2>2, <3>1, <3>2, <3>4, Zenon
            <4>2. Upto(f, b, k) \in BufferType /\ EndToEnd(Upto(f, b, k).recs, 0, Upto(f, b, k).len)
                BY <1>1, <4>1 DEF BufferType
            <4> QED
                BY <1>1, <3>2, <3>3, <4>2
    <2>4. CASE k # 0
        <3>1. k \in 1..Len(b.recs)
            BY <1>1, <2>4
        <3> DEFINE e == b.recs[k].lsn + b.recs[k].size
        <3>2. EndToEnd(p, f.len, e)
            BY <1>1, <3>1, EndToEndPrefix
        <3>3. e \in Nat /\ b.recs[1].lsn = f.len
            BY <1>2, <3>1
        <3> HIDE DEF e, p
        <3>4. Upto(f, b, k).len = e
            <4>1. Upto(f, b, k).len = f.len + (e - b.recs[1].lsn)
                <5>1. b.recs[k].lsn \in Nat /\ b.recs[k].size \in Nat
                    BY <1>2, <3>1
                <5> QED
                    BY <1>1, <2>4, <3>3, <5>1, SMTT(30) DEF Upto, e
            <4> QED
                BY <1>1, <3>3, <4>1
        <3>5. EndToEnd(f.recs \o p, 0, e)
            BY <1>1, <2>1, <3>2, <3>3, EndToEndConcat
        <3>6. f.len <= e
            BY <1>1, <2>1, <3>2, <3>3, EndToEndForward DEF p
        <3>7. k < Len(b.recs) => b.recs[k + 1].lsn = e
            <4>1. k < Len(b.recs) => k \in 1..(Len(b.recs) - 1) /\ b.recs # <<>>
                BY <1>1, <3>1
            <4> QED
                BY <4>1 DEF EndToEnd, e
        <3>8. Upto(f, b, k) = [len |-> Upto(f, b, k).len, recs |-> Upto(f, b, k).recs]
            BY DEF Upto
        <3> QED
            BY <1>1, <2>1, <2>2, <3>3, <3>4, <3>5, <3>6, <3>7, <3>8 DEF BufferType
    <2> QED
        BY <2>3, <2>4
<1>4. CASE \E k \in 0..Len(b.recs) : g = Upto(f, b, k)
    BY <1>3, <1>4
<1>5. CASE \E k \in 0..(Len(b.recs) - 1) : \E n \in 1..(b.recs[k + 1].size - 1) :
              g = Put(Upto(f, b, k), [id |-> Torn, lsn |-> b.recs[k + 1].lsn, size |-> n])
    <2>10. PICK k \in 0..(Len(b.recs) - 1) : \E n \in 1..(b.recs[k + 1].size - 1) :
              g = Put(Upto(f, b, k), [id |-> Torn, lsn |-> b.recs[k + 1].lsn, size |-> n])
        BY <1>5
    <2>1. PICK n \in 1..(b.recs[k + 1].size - 1) :
              g = Put(Upto(f, b, k), [id |-> Torn, lsn |-> b.recs[k + 1].lsn, size |-> n])
        BY <2>10
    <2> DEFINE u == Upto(f, b, k)
               r == [id |-> Torn, lsn |-> b.recs[k + 1].lsn, size |-> n]
    <2>2. k \in 0..Len(b.recs) /\ k < Len(b.recs) /\ k + 1 \in 1..Len(b.recs)
        BY <1>1
    <2>3. n \in Nat
        BY <1>2, <2>2
    <2>4. r \in RecordType /\ r.lsn = b.recs[k + 1].lsn /\ r.size = n
        BY <1>2, <2>2, <2>3, LogConstants DEF RecordType, Torn
    <2>5. u \in BufferType /\ EndToEnd(u.recs, 0, r.lsn) /\ u.len = r.lsn /\ f.len <= u.len
        BY <1>3, <2>2, <2>4
    <2> HIDE DEF u, r
    <2>6. u.len \in Nat /\ u.recs \in Seq(RecordType)
        BY <2>5 DEF BufferType
    <2>7. g.len = u.len + n /\ g.recs = Append(u.recs, r) /\ g \in BufferType
        <3>1. Append(u.recs, r) \in Seq(RecordType) /\ u.len + n \in Nat
            BY <2>3, <2>4, <2>6
        <3>2. g = [len |-> u.len + n, recs |-> Append(u.recs, r)]
            BY <2>1, <2>4 DEF Put, u, r
        <3> QED
            BY <3>1, <3>2 DEF BufferType
    <2>8. EndToEnd(g.recs, 0, r.lsn + r.size)
        BY <2>4, <2>5, <2>6, <2>7, EndToEndAppend
    <2>9. r.lsn + r.size = g.len /\ f.len <= g.len
        <3>1. f.len \in Nat /\ r.lsn + r.size = u.len + n /\ u.len + n = g.len
            BY <1>1, <2>4, <2>5, <2>7
        <3> QED
            BY <3>1, <2>3, <2>5, <2>6
    <2> QED
        BY <2>7, <2>8, <2>9
<1> QED
    BY <1>4, <1>5 DEF AfterCrash

(* A crash keeps what is on disk, and restarts on the file it finds. *)
LEMMA CrashInv ==
    ASSUME IInv, Crash
    PROVE  IInv'
<1>1. TypeOK
    BY DEF IInv
<1>2. /\ crashes < MaxCrashes /\ crashes' = crashes + 1 /\ file' \in FilesAfterCrash
      /\ front' = Empty /\ back' = Empty /\ lsn' = file'.len /\ flushedLSN' = file'.len
      /\ waiterCount' = 0 /\ closed' = FALSE /\ flushCh' = FALSE /\ flusher' = "select" /\ closer' = "open"
      /\ pc' = [c \in Clients |-> "idle"] /\ req' = [c \in Clients |-> NoCall]
      /\ mine' = [c \in Clients |-> NoRecord] /\ calls' = calls /\ acked' = acked
    BY DEF Crash
<1>3. file' \in BufferType /\ EndToEnd(file'.recs, 0, file'.len) /\ file.len <= file'.len /\ file.len \in Nat
    <2>1. file \in BufferType /\ back \in BufferType /\ file.len \in Nat /\ EndToEnd(file.recs, 0, file.len)
        BY <1>1 DEF TypeOK, BufferType, IInv, LsnIsOffset
    <2>2. CASE flusher = "write"
        <3>1. EndToEnd(back.recs, file.len, file.len + back.len)
            BY <2>2 DEF IInv, LsnIsOffset, Unwritten
        <3>2. file' \in AfterCrash(file, back)
            BY <1>2, <2>2 DEF FilesAfterCrash
        <3> QED
            BY <2>1, <3>1, <3>2, CrashLayout
    <2>3. CASE flusher # "write"
        <3>1. file' = file
            BY <1>2, <2>3 DEF FilesAfterCrash
        <3> QED
            BY <2>1, <3>1
    <2> QED
        BY <2>2, <2>3
<1>4. file'.len \in Nat
    BY <1>3 DEF BufferType
<1>5. TypeOK'
    <2>1. crashes' \in 0..MaxCrashes
        BY <1>1, <1>2, LogConstants DEF TypeOK
    <2>2. req' \in [Clients -> [id : 0..MaxCalls, size : Nat]] /\ mine' \in [Clients -> RecordType]
        BY <1>2, ConstantTypes
    <2> QED
        BY <1>1, <1>2, <1>3, <1>4, <2>1, <2>2, ConstantTypes DEF TypeOK, BufferType
<1>6. CallsCounted'
    <2>1. InAppend' = {}
        BY <1>2 DEF InAppend, Counting
    <2> QED
        BY <1>2, <2>1, FS_EmptySet DEF CallsCounted
<1>7. BackOwned' /\ ClosedAfterStop' /\ FlushedIsOnDisk'
    BY <1>2, <1>4 DEF BackOwned, ClosedAfterStop, FlushedIsOnDisk
<1>8. LsnIsOffset'
    <2>1. Unwritten' = Empty
        BY <1>2 DEF Unwritten
    <2>2. EndToEnd(<<>>, file'.len, file'.len + 0) /\ EndToEnd(<<>>, file'.len + 0, file'.len)
          /\ file'.len = file'.len + 0 + 0
        BY <1>4 DEF EndToEnd
    <2> QED
        BY <1>2, <1>3, <2>1, <2>2 DEF LsnIsOffset, Empty
<1>9. AckedAfterPrior'
    <2>1. \A r \in acked : r.lsn \in Nat /\ r.lsn <= file.len
        BY <1>1 DEF IInv, AckedAfterPrior, TypeOK, RecordType
    <2> QED
        BY <1>2, <1>3, <1>4, <2>1 DEF AckedAfterPrior
<1> QED
    BY <1>5, <1>6, <1>7, <1>8, <1>9 DEF IInv

----------------------------------------------------------------------------
(* The theorems *)

(* Every step keeps the invariant. *)
LEMMA InvNext == IInv /\ [Next]_vars => IInv'
<1> SUFFICES ASSUME IInv, [Next]_vars PROVE IInv'
    OBVIOUS
<1>1. CASE UNCHANGED vars
    <2>1. UNCHANGED <<front, back, lsn, flushedLSN, waiterCount, closed, flushCh, file, flusher, closer, pc, req, mine,
                      calls, acked, crashes>>
        BY <1>1 DEF vars, bufferVars, clientVars
    <2>2. TypeOK' /\ CallsCounted'
        BY <2>1 DEF IInv, TypeOK, CallsCounted, InAppend
    <2> QED
        BY <2>1, <2>2, LayoutKept DEF IInv, layoutVars
<1>2. ASSUME NEW c \in Clients, AppendStep(c) \/ WaitStep(c) \/ \E size \in Sizes : Enter(c, size)
      PROVE  IInv'
    <2>1. CASE Rejected(c)
        BY <2>1, <1>1 DEF Rejected
    <2>2. CASE Count(c)
        BY <2>2, CountInv
    <2>3. CASE AppendRecord(c)
        BY <2>3, AppendRecordInv
    <2>4. CASE CheckFlushed(c)
        BY <2>4, CheckFlushedInv
    <2>5. CASE \/ \E size \in Sizes : Enter(c, size)
               \/ WaitForSpace(c) \/ BeginWait(c) \/ Park(c)
        BY <2>5, ClientInv
    <2>6. CASE AppendPanics(c)
        BY <2>6, AppendPanicsInv
    <2> QED
        BY <1>2, <2>1, <2>2, <2>3, <2>4, <2>5, <2>6 DEF AppendStep, WaitStep
<1>3. CASE FlusherStep \/ Close
    BY <1>3, FlusherMovesInv, SwapInv, WriteBackInv, PublishInv DEF FlusherStep
<1>4. CASE CloseReturns
    BY <1>4, CloseReturnsInv
<1>5. CASE Crash
    BY <1>5, CrashInv
<1> QED
    BY <1>1, <1>2, <1>3, <1>4, <1>5 DEF Next

(* The invariant holds throughout. *)
THEOREM Invariant == Spec => []IInv
BY InvInit, InvNext, PTL DEF Spec

(* The log's variables keep their types; in particular waiterCount, which  *)
(* Append raises and lowers in different critical sections, never goes     *)
(* below zero.                                                             *)
THEOREM TypeCorrect == Spec => []TypeOK
<1>1. IInv => TypeOK
    BY DEF IInv
<1> QED
    BY <1>1, Invariant, PTL

(* An LSN is its record's byte offset, through swaps, partial writes,      *)
(* crashes and restarts.                                                   *)
THEOREM Offsets == Spec => []LsnIsOffset
<1>1. IInv => LsnIsOffset
    BY DEF IInv
<1> QED
    BY <1>1, Invariant, PTL

(* FlushedUntil never runs ahead of the disk. *)
THEOREM FlushedNotAhead == Spec => []FlushedIsOnDisk
<1>1. IInv => FlushedIsOnDisk
    BY DEF IInv
<1> QED
    BY <1>1, Invariant, PTL

(* A nil return of WaitUntilFlushed means that all earlier records are on  *)
(* disk, and they stay there after a crash.                                *)
THEOREM PriorRecordsDurable == Spec => []AckedAfterPrior
<1>1. IInv => AckedAfterPrior
    BY DEF IInv
<1> QED
    BY <1>1, Invariant, PTL

(* The flusher goroutine stops only when all that was appended is flushed  *)
(* and no counted Append is still to copy its record.                      *)
THEOREM FlusherStopsDrained == Spec => StopsWhenDrained
<1>1. ASSUME IInv, [Next]_vars, flusher # "stopped", flusher' = "stopped"
      PROVE  lsn = flushedLSN /\ \A c \in Clients : pc[c] \notin {"counted", "noSpace"}
    <2>1. Exit /\ MayStop
        <3>1. flusher' # flusher
            BY <1>1
        <3>2. ~UNCHANGED vars
            BY <3>1 DEF vars
        <3>3. Exit
            BY <1>1, <3>1, <3>2
               DEF Next, AppendStep, WaitStep, FlusherStep, Rejected, Count, WaitForSpace, AppendRecord, AppendPanics,
                   BeginWait, CheckFlushed, Park, Enter, Tick, ReceiveFlush, Swap, WriteBack, Publish, Notify, Close,
                   CloseReturns, Crash, vars
        <3> QED
            BY <1>1, <3>3 DEF Exit
    <2>2. flusher = "exit" /\ waiterCount = 0 /\ front.len = 0 /\ back.len = 0
        BY <2>1 DEF Exit, MayStop
    <2>3. closer # "closed" /\ Unwritten = back
        BY <1>1, <2>2 DEF IInv, ClosedAfterStop, Unwritten
    <2>4. lsn = flushedLSN
        <3>1. file.len \in Nat /\ flushedLSN \in Nat /\ lsn \in Nat
            BY <1>1 DEF IInv, TypeOK
        <3>2. lsn = file.len + back.len + front.len /\ flushedLSN + 0 = file.len
            BY <1>1, <2>2, <2>3 DEF IInv, LsnIsOffset, FlushedIsOnDisk
        <3> QED
            BY <2>2, <3>1, <3>2
    <2>5. InAppend = {}
        <3>1. IsFiniteSet(InAppend)
            BY FS_Subset, LogConstants DEF InAppend
        <3>2. Cardinality(InAppend) = 0
            BY <1>1, <2>2 DEF IInv, CallsCounted
        <3> QED
            BY <3>1, <3>2, FS_EmptySet
    <2> QED
        BY <2>4, <2>5 DEF InAppend, Counting
<1>2. IInv /\ [Next]_vars =>
         [flusher # "stopped" /\ flusher' = "stopped" =>
             lsn = flushedLSN /\ \A c \in Clients : pc[c] \notin {"counted", "noSpace"}]_vars
    BY <1>1
<1> QED
    BY <1>2, Invariant, PTL DEF Spec, StopsWhenDrained

----------------------------------------------------------------------------
(***************************************************************************)
(* DoubleBufferLog implements Wal.  The refinement needs two facts more: a *)
(* call that is under way has a record to append, and Close leaves nothing *)
(* behind in the front buffer.                                             *)
(***************************************************************************)
UnderWay == {"entered", "counted", "noSpace"}

CallsHaveRecords == \A c \in Clients : pc[c] \in UnderWay => req[c].id \in 1..MaxCalls /\ req[c].size \in Sizes

FrontDropped == closer = "closed" => front = Empty

WInv == IInv /\ CallsHaveRecords /\ FrontDropped

(* Broadcasts do not start calls. *)
LEMMA WakingKeepsCalls ==
    ASSUME NEW p, NEW c \in Clients
    PROVE  /\ WakeAppenders(p)[c] \in UnderWay => p[c] \in UnderWay
           /\ WakeWaiters(p)[c] \in UnderWay => p[c] \in UnderWay
BY DEF WakeAppenders, WakeWaiters, UnderWay

(* Every step keeps the records of the calls under way. *)
LEMMA CallsNext ==
    ASSUME IInv, CallsHaveRecords, Next
    PROVE  CallsHaveRecords'
<1>1. /\ pc \in [Clients -> Labels] /\ req \in [Clients -> [id : 0..MaxCalls, size : Nat]]
      /\ calls \in 0..MaxCalls /\ MaxCalls \in Nat
    BY LogConstants DEF IInv, TypeOK, Labels
<1>2. ASSUME NEW c \in Clients, NEW size \in Sizes, Enter(c, size) PROVE CallsHaveRecords'
    <2>1. /\ req' = [req EXCEPT ![c] = [id |-> calls + 1, size |-> size]] /\ pc' = [pc EXCEPT ![c] = "entered"]
          /\ calls + 1 \in 1..MaxCalls
        BY <1>1, <1>2 DEF Enter, Goto
    <2>2. req'[c].id \in 1..MaxCalls /\ req'[c].size \in Sizes
        BY <1>1, <2>1
    <2>3. \A d \in Clients \ {c} : req'[d] = req[d] /\ pc'[d] = pc[d]
        BY <1>1, <2>1
    <2> QED
        BY <2>2, <2>3 DEF CallsHaveRecords
<1>3. ASSUME req' = req, \A c \in Clients : pc'[c] \in UnderWay => pc[c] \in UnderWay PROVE CallsHaveRecords'
    BY <1>3 DEF CallsHaveRecords
<1>4. ASSUME NEW c \in Clients, AppendStep(c) \/ WaitStep(c) PROVE CallsHaveRecords'
    <2>1. req' = req
        BY <1>4 DEF AppendStep, WaitStep, Rejected, Count, WaitForSpace, AppendRecord, AppendPanics, BeginWait,
                    CheckFlushed, Park, vars, clientVars
    <2>2. \/ pc' = pc
          \/ \E label : pc' = [pc EXCEPT ![c] = label] /\ (label \in UnderWay => pc[c] \in UnderWay)
        BY <1>4 DEF AppendStep, WaitStep, Rejected, Count, WaitForSpace, AppendRecord, AppendPanics, BeginWait,
                    CheckFlushed, Park, vars, clientVars, Goto, UnderWay
    <2>3. \A d \in Clients : pc'[d] \in UnderWay => pc[d] \in UnderWay
        BY <1>1, <2>2
    <2> QED
        BY <1>3, <2>1, <2>3
<1>5. CASE FlusherStep \/ Close \/ CloseReturns
    <2>1. req' = req
        BY <1>5 DEF FlusherStep, Tick, ReceiveFlush, Swap, WriteBack, Publish, Notify, Exit, Close, CloseReturns,
                    clientVars
    <2>2. pc' = pc \/ pc' = WakeAppenders(pc) \/ pc' = WakeWaiters(WakeAppenders(pc))
        BY <1>5 DEF FlusherStep, Tick, ReceiveFlush, Swap, WriteBack, Publish, Notify, Exit, Close, CloseReturns,
                    clientVars
    <2>3. \A d \in Clients : pc'[d] \in UnderWay => pc[d] \in UnderWay
        BY <2>2, WakingKeepsCalls
    <2> QED
        BY <1>3, <2>1, <2>3
<1>6. CASE Crash
    BY <1>6 DEF Crash, CallsHaveRecords, UnderWay
<1> QED
    BY <1>2, <1>4, <1>5, <1>6 DEF Next

(* After Close nothing enters the front buffer. *)
LEMMA DroppedNext ==
    ASSUME FrontDropped, IInv, Next
    PROVE  FrontDropped'
<1>1. ASSUME NEW c \in Clients, AppendStep(c) \/ WaitStep(c) \/ \E size \in Sizes : Enter(c, size)
      PROVE  FrontDropped'
    BY <1>1 DEF FrontDropped, AppendStep, WaitStep, Rejected, Count, WaitForSpace, AppendRecord, AppendPanics,
                BeginWait, CheckFlushed, Park, Enter, vars, bufferVars
<1>2. CASE FlusherStep
    <2>1. closer = "closed" => flusher = "stopped"
        BY DEF IInv, ClosedAfterStop
    <2>2. closer' = closer /\ flusher # "stopped"
        BY <1>2 DEF FlusherStep, Tick, ReceiveFlush, Swap, WriteBack, Publish, Notify, Exit
    <2> QED
        BY <2>1, <2>2 DEF FrontDropped
<1>3. CASE Close \/ CloseReturns \/ Crash
    BY <1>3 DEF FrontDropped, Close, CloseReturns, Crash
<1> QED
    BY <1>1, <1>2, <1>3 DEF Next

(* The refinement's invariant holds throughout. *)
LEMMA RefinementInvariant == Spec => []WInv
<1>1. Init => CallsHaveRecords /\ FrontDropped
    BY DEF Init, CallsHaveRecords, FrontDropped, UnderWay
<1>2. WInv /\ [Next]_vars => WInv'
    <2> SUFFICES ASSUME WInv, [Next]_vars PROVE WInv'
        OBVIOUS
    <2>1. CASE Next
        BY <2>1, InvNext, CallsNext, DroppedNext DEF WInv
    <2>2. CASE UNCHANGED vars
        <3>1. IInv'
            BY <2>2, InvNext DEF WInv
        <3>2. UNCHANGED <<pc, req, closer, front>>
            BY <2>2 DEF vars, bufferVars, clientVars
        <3> QED
            BY <3>1, <3>2 DEF WInv, CallsHaveRecords, FrontDropped
    <2> QED
        BY <2>1, <2>2
<1> QED
    BY <1>1, <1>2, InvInit, PTL DEF Spec, WInv

----------------------------------------------------------------------------
(* The log as one sequence *)

(* A run of records ends where Wal says it ends. *)
LEMMA EndOfRun ==
    ASSUME NEW s \in Seq(RecordType), NEW to \in Nat, EndToEnd(s, 0, to)
    PROVE  Abstract!EndOf(s, 0) = to
BY DEF Abstract!EndOf, EndToEnd

(* The parts of the log, their types and where they lie. *)
LEMMA Parts ==
    ASSUME WInv
    PROVE  /\ file \in BufferType /\ Unwritten \in BufferType /\ front \in BufferType
           /\ file.len \in Nat /\ Unwritten.len \in Nat /\ lsn \in Nat /\ flushedLSN \in Nat
           /\ file.recs \in Seq(RecordType) /\ Unwritten.recs \in Seq(RecordType) /\ front.recs \in Seq(RecordType)
           /\ EndToEnd(file.recs, 0, file.len)
           /\ EndToEnd(Unwritten.recs, file.len, file.len + Unwritten.len)
           /\ closer # "closed" => EndToEnd(front.recs, file.len + Unwritten.len, lsn)
           /\ closer = "closed" => front.recs = <<>>
           /\ flushedLSN <= file.len
<1>1. file \in BufferType /\ Unwritten \in BufferType /\ front \in BufferType /\ lsn \in Nat /\ flushedLSN \in Nat
      /\ back \in BufferType
    BY ConstantTypes DEF WInv, IInv, TypeOK, Unwritten, BufferType
<1>2. /\ file.len \in Nat /\ Unwritten.len \in Nat /\ back.len \in Nat
      /\ file.recs \in Seq(RecordType) /\ Unwritten.recs \in Seq(RecordType) /\ front.recs \in Seq(RecordType)
    BY <1>1 DEF BufferType
<1>3. /\ EndToEnd(file.recs, 0, file.len)
      /\ EndToEnd(Unwritten.recs, file.len, file.len + Unwritten.len)
      /\ closer # "closed" => EndToEnd(front.recs, file.len + Unwritten.len, lsn)
    BY DEF WInv, IInv, LsnIsOffset
<1>4. closer = "closed" => front.recs = <<>>
    BY DEF WInv, FrontDropped, Empty
<1>5. flushedLSN <= file.len
    BY <1>1, <1>2 DEF WInv, IInv, FlushedIsOnDisk
<1> QED
    BY <1>1, <1>2, <1>3, <1>4, <1>5

(* As long as the log is open, it is one run of records that ends at lsn. *)
LEMMA WholeLogRun ==
    ASSUME WInv, closer # "closed"
    PROVE  WholeLog \in Seq(RecordType) /\ EndToEnd(WholeLog, 0, lsn) /\ file.len <= lsn
<1> DEFINE a == file.recs
           b == Unwritten.recs
           m == file.len
           n == file.len + Unwritten.len
<1>1. /\ a \in Seq(RecordType) /\ b \in Seq(RecordType) /\ front.recs \in Seq(RecordType)
      /\ m \in Nat /\ n \in Nat /\ lsn \in Nat
      /\ EndToEnd(a, 0, m) /\ EndToEnd(b, m, n) /\ EndToEnd(front.recs, n, lsn)
    BY Parts
<1> HIDE DEF a, b, m, n
<1>2. a \o b \in Seq(RecordType) /\ EndToEnd(a \o b, 0, n)
    BY <1>1, EndToEndConcat
<1>3. (a \o b) \o front.recs \in Seq(RecordType) /\ EndToEnd((a \o b) \o front.recs, 0, lsn)
    <2> DEFINE g == a \o b
    <2>1. g \in Seq(RecordType) /\ EndToEnd(g, 0, n) /\ 0 \in Nat
        BY <1>2
    <2> HIDE DEF g
    <2>2. g \o front.recs \in Seq(RecordType) /\ EndToEnd(g \o front.recs, 0, lsn)
        BY <1>1, <2>1, EndToEndConcat, ConcatProperties
    <2> QED
        BY <2>2 DEF g
<1>4. m <= n /\ n <= lsn
    BY <1>1, EndToEndForward
<1> QED
    BY <1>1, <1>3, <1>4 DEF WholeLog, a, b, m

(* Cutting a log f \o u \o w behind the k-th record of u leaves f and k    *)
(* records, and cuts off nothing that lies before the end of f.            *)
LEMMA CutBehind ==
    ASSUME NEW f \in Seq(RecordType), NEW u \in Seq(RecordType), NEW w \in Seq(RecordType),
           NEW e \in Nat, \A i \in 1..Len(u) : e <= u[i].lsn, \A i \in 1..Len(w) : e <= w[i].lsn,
           NEW k \in 0..Len(u)
    PROVE  LET L == f \o u \o w IN
           /\ Len(f) + k \in 0..Len(L)
           /\ SubSeq(L, 1, Len(f) + k) = f \o SubSeq(u, 1, k)
           /\ k < Len(u) => Len(f) + k < Len(L) /\ L[Len(f) + k + 1] = u[k + 1]
           /\ \A i \in (Len(f) + k + 1)..Len(L) : e <= L[i].lsn
<1> DEFINE L == f \o u \o w
           p == SubSeq(u, 1, k)
           q == f \o p
<1>1. Len(f) \in Nat /\ Len(u) \in Nat /\ Len(w) \in Nat
    OBVIOUS
<1>2. f \o u \in Seq(RecordType) /\ Len(f \o u) = Len(f) + Len(u)
      /\ \A i \in 1..(Len(f) + Len(u)) : (f \o u)[i] = IF i <= Len(f) THEN f[i] ELSE u[i - Len(f)]
    BY ConcatProperties
<1>3. /\ L \in Seq(RecordType) /\ Len(L) = Len(f) + Len(u) + Len(w)
      /\ \A i \in 1..(Len(f) + Len(u) + Len(w)) :
            L[i] = IF i <= Len(f) + Len(u) THEN (f \o u)[i] ELSE w[i - (Len(f) + Len(u))]
    BY <1>2, ConcatProperties
<1>4. p \in Seq(RecordType) /\ Len(p) = k /\ \A i \in 1..k : p[i] = u[i]
    BY <1>1
<1>5. q \in Seq(RecordType) /\ Len(q) = Len(f) + k
      /\ \A i \in 1..(Len(f) + k) : q[i] = IF i <= Len(f) THEN f[i] ELSE p[i - Len(f)]
    BY <1>4, ConcatProperties
<1> HIDE DEF L, p, q
<1>6. Len(f) + k \in 0..Len(L) /\ (k < Len(u) => Len(f) + k < Len(L))
    BY <1>1, <1>3
<1>7. \A i \in 1..(Len(f) + k) : L[i] = q[i]
    <2> SUFFICES ASSUME NEW i \in 1..(Len(f) + k) PROVE L[i] = q[i]
        OBVIOUS
    <2>1. i \in 1..(Len(f) + Len(u)) /\ i \in 1..(Len(f) + Len(u) + Len(w)) /\ i <= Len(f) + Len(u)
        BY <1>1
    <2>2. L[i] = (f \o u)[i]
        BY <1>3, <2>1
    <2>3. CASE i <= Len(f)
        BY <1>2, <1>5, <2>1, <2>2, <2>3
    <2>4. CASE i > Len(f)
        <3>1. i - Len(f) \in 1..k
            BY <1>1, <2>4
        <3> QED
            BY <1>1, <1>2, <1>4, <1>5, <2>1, <2>2, <2>4, <3>1
    <2> QED
        BY <1>1, <2>3, <2>4
<1>8. SubSeq(L, 1, Len(f) + k) = q
    <2>1. SubSeq(L, 1, Len(f) + k) \in Seq(RecordType) /\ Len(SubSeq(L, 1, Len(f) + k)) = Len(f) + k
          /\ \A i \in 1..(Len(f) + k) : SubSeq(L, 1, Len(f) + k)[i] = L[i]
        BY <1>1, <1>3, <1>6
    <2> QED
        BY <1>5, <1>7, <2>1, SeqEqual
<1>9. ASSUME k < Len(u) PROVE L[Len(f) + k + 1] = u[k + 1]
    <2>1. Len(f) + k + 1 \in 1..(Len(f) + Len(u)) /\ Len(f) + k + 1 \in 1..(Len(f) + Len(u) + Len(w))
          /\ Len(f) + k + 1 - Len(f) = k + 1 /\ ~(Len(f) + k + 1 <= Len(f))
        BY <1>1, <1>9
    <2>2. L[Len(f) + k + 1] = (f \o u)[Len(f) + k + 1]
        BY <1>1, <1>3, <2>1
    <2> QED
        BY <1>2, <2>1, <2>2
<1>10. ASSUME NEW i \in (Len(f) + k + 1)..Len(L) PROVE e <= L[i].lsn
    <2>1. i \in 1..(Len(f) + Len(u) + Len(w)) /\ i > Len(f)
        BY <1>1, <1>3
    <2>2. CASE i <= Len(f) + Len(u)
        <3>1. i \in 1..(Len(f) + Len(u)) /\ i - Len(f) \in 1..Len(u) /\ ~(i <= Len(f))
            BY <1>1, <2>1, <2>2
        <3>2. L[i] = u[i - Len(f)]
            BY <1>2, <1>3, <2>1, <2>2, <3>1
        <3> QED
            BY <3>1, <3>2
    <2>3. CASE ~(i <= Len(f) + Len(u))
        <3>1. i - (Len(f) + Len(u)) \in 1..Len(w)
            BY <1>1, <2>1, <2>3
        <3>2. L[i] = w[i - (Len(f) + Len(u))]
            BY <1>3, <2>1, <2>3
        <3> QED
            BY <3>1, <3>2
    <2> QED
        BY <2>2, <2>3
<1> QED
    BY <1>6, <1>8, <1>9, <1>10 DEF L, q, p

(* The records of a run lie at or behind its start. *)
LEMMA RunStart ==
    ASSUME NEW s \in Seq(RecordType), NEW a \in Nat, NEW b \in Nat, EndToEnd(s, a, b), NEW e \in Nat, e <= a
    PROVE  \A i \in 1..Len(s) : e <= s[i].lsn
<1> SUFFICES ASSUME NEW i \in 1..Len(s) PROVE e <= s[i].lsn
    OBVIOUS
<1>1. s # <<>> /\ s[i] \in RecordType
    OBVIOUS
<1>2. a <= s[i].lsn /\ s[i].lsn \in Nat
    BY <1>1 DEF EndToEnd, RecordType
<1> QED
    BY <1>2

(* Behind the file, everything lies at or behind what FlushedUntil says. *)
LEMMA TailNotDurable ==
    ASSUME WInv
    PROVE  /\ \A i \in 1..Len(Unwritten.recs) : flushedLSN <= Unwritten.recs[i].lsn
           /\ \A i \in 1..Len(front.recs) : flushedLSN <= front.recs[i].lsn
<1> DEFINE n == file.len + Unwritten.len
<1>1. n \in Nat /\ flushedLSN \in Nat /\ flushedLSN <= file.len /\ flushedLSN <= n
    BY Parts
<1>2. \A i \in 1..Len(Unwritten.recs) : flushedLSN <= Unwritten.recs[i].lsn
    BY <1>1, Parts, RunStart
<1> HIDE DEF n
<1>3. CASE closer # "closed"
    <2>1. EndToEnd(front.recs, n, lsn) /\ front.recs \in Seq(RecordType) /\ lsn \in Nat
        BY <1>3, Parts DEF n
    <2> QED
        BY <1>1, <1>2, <2>1, RunStart
<1>4. CASE closer = "closed"
    <2>1. Len(front.recs) = 0
        BY <1>4, Parts
    <2> QED
        BY <1>2, <2>1
<1> QED
    BY <1>3, <1>4

----------------------------------------------------------------------------
(* Every step is a step of Wal, or none *)

(* The record is appended at the end of the log. *)
LEMMA AppendsToLog ==
    ASSUME WInv, NEW c \in Clients, AppendRecord(c)
    PROVE  WholeLog \in Seq(RecordType) /\ NewRecord(c) \in RecordType /\ WholeLog' = Append(WholeLog, NewRecord(c))
<1> DEFINE r == NewRecord(c)
           f == file.recs
           u == Unwritten.recs
           w == front.recs
<1>1. /\ pc[c] = "counted" /\ closer # "closed" /\ front'.recs = Append(front.recs, r)
      /\ file' = file /\ Unwritten' = Unwritten /\ flushedLSN' = flushedLSN
    BY DEF AppendRecord, Put, Unwritten
<1>2. req[c].id \in 1..MaxCalls /\ req[c].size \in Sizes
    BY <1>1 DEF WInv, CallsHaveRecords, UnderWay
<1>3. r = [id |-> req[c].id, lsn |-> lsn, size |-> req[c].size]
    BY DEF NewRecord
<1>4. f \in Seq(RecordType) /\ u \in Seq(RecordType) /\ w \in Seq(RecordType) /\ lsn \in Nat
    BY Parts
<1>5. r \in RecordType
    <2>1. req[c].size \in Nat
        BY <1>1 DEF WInv, IInv, TypeOK
    <2> QED
        BY <1>2, <1>3, <1>4, <2>1, LogConstants DEF RecordType
<1> HIDE DEF r, f, u, w
<1>6. f \o u \o Append(w, r) = Append(f \o u \o w, r)
    <2>1. f \o u \in Seq(RecordType) /\ <<r>> \in Seq(RecordType)
        BY <1>4, <1>5
    <2>2. (f \o u) \o (w \o <<r>>) = ((f \o u) \o w) \o <<r>>
        BY <1>4, <2>1, ConcatAssociative
    <2>3. Append(w, r) = w \o <<r>> /\ Append((f \o u) \o w, r) = ((f \o u) \o w) \o <<r>>
        BY <1>4, <1>5, <2>1, AppendIsConcat, ConcatProperties
    <2> QED
        BY <2>2, <2>3
<1>7. WholeLog' = Append(WholeLog, r)
    BY <1>1, <1>6 DEF WholeLog, f, u, w
<1>8. WholeLog \in Seq(RecordType)
    BY <1>1, WholeLogRun
<1> QED
    BY <1>5, <1>7, <1>8 DEF r

(* To Wal it is an append. *)
LEMMA AppendRefines ==
    ASSUME WInv, NEW c \in Clients, AppendRecord(c)
    PROVE  Abstract!WalNext
<1>1. /\ pc[c] = "counted" /\ closer # "closed" /\ closer' = closer /\ acked' = acked /\ flushedLSN' = flushedLSN
    BY DEF AppendRecord
<1>2. req[c].id \in 1..MaxCalls /\ req[c].size \in Sizes
    BY <1>1 DEF WInv, CallsHaveRecords, UnderWay
<1>3. WholeLog' = Append(WholeLog, [id |-> req[c].id, lsn |-> lsn, size |-> req[c].size])
    BY AppendsToLog DEF NewRecord
<1>4. Abstract!EndOf(WholeLog, 0) = lsn
    <2>1. lsn \in Nat
        BY Parts
    <2> QED
        BY <1>1, <2>1, WholeLogRun, EndOfRun
<1>5. Abstract!AppendRecord(req[c].id, req[c].size)
    BY <1>1, <1>3, <1>4 DEF Abstract!AppendRecord
<1> QED
    BY <1>2, <1>5 DEF Abstract!WalNext

(* Swapping the buffers and writing the back buffer moves records along    *)
(* the log and changes nothing in it.                                      *)
LEMMA FlushKeepsLog ==
    ASSUME WInv, Swap \/ WriteBack
    PROVE  WholeLog' = WholeLog /\ flushedLSN' = flushedLSN
<1>1. /\ front.recs \in Seq(RecordType) /\ file.recs \in Seq(RecordType) /\ back.recs \in Seq(RecordType)
      /\ file.recs \o back.recs \in Seq(RecordType)
    BY DEF WInv, IInv, TypeOK
<1>2. CASE Swap
    <2>1. back = Empty /\ flusher = "swap" /\ flusher' = "write" /\ file' = file /\ flushedLSN' = flushedLSN
        BY <1>2 DEF Swap, WInv, IInv, BackOwned
    <2>2. Unwritten = Empty /\ Unwritten' = back' /\ Empty.recs = <<>>
        BY <2>1 DEF Unwritten, Empty
    <2>3. CASE front' = back /\ back' = front
        <3>1. file.recs \o front.recs \o <<>> = file.recs \o <<>> \o front.recs
            BY <1>1, ConcatEmptySeq, ConcatProperties
        <3> QED
            BY <2>1, <2>2, <2>3, <3>1 DEF WholeLog
    <2>4. CASE front' = front /\ back' = back
        BY <2>1, <2>2, <2>4 DEF WholeLog
    <2> QED
        BY <1>2, <2>3, <2>4 DEF Swap
<1>3. CASE WriteBack
    <2>1. flusher = "write" /\ back' = back /\ front' = front /\ flushedLSN' = flushedLSN /\ Unwritten = back
        BY <1>3 DEF WriteBack, bufferVars, Unwritten
    <2>2. CASE back.len > 0
        <3>1. file'.recs = file.recs \o back.recs /\ Unwritten'.recs = <<>>
            <4>1. flusher' = "publish" /\ file' = Write(file, back)
                BY <1>3, <2>2 DEF WriteBack
            <4> QED
                BY <4>1 DEF Write, Unwritten, Empty
        <3>2. file.recs \o back.recs \o <<>> = file.recs \o back.recs
            BY <1>1, ConcatEmptySeq
        <3> QED
            BY <2>1, <3>1, <3>2 DEF WholeLog
    <2>3. CASE ~(back.len > 0)
        <3>1. file' = file /\ flusher' = "exit"
            BY <1>3, <2>3 DEF WriteBack
        <3> QED
            BY <2>1, <3>1 DEF WholeLog, Unwritten
    <2> QED
        BY <2>1, <2>2, <2>3
<1> QED
    BY <1>2, <1>3

(* Publishing the synced buffer is Wal's flush. *)
LEMMA PublishRefines ==
    ASSUME WInv, Publish
    PROVE  [Abstract!WalNext]_(Abstract!walVars)
<1>1. /\ flusher = "publish" /\ flusher' = "notify" /\ back' = Empty /\ flushedLSN' = flushedLSN + back.len
      /\ front' = front /\ file' = file /\ acked' = acked /\ closer' = closer
    BY DEF Publish
<1>2. WholeLog' = WholeLog
    BY <1>1 DEF WholeLog, Unwritten
<1>3. closer # "closed" /\ flushedLSN + back.len = file.len
    BY <1>1 DEF WInv, IInv, ClosedAfterStop, FlushedIsOnDisk
<1>4. back.len \in Nat /\ flushedLSN \in Nat /\ file.len \in Nat /\ lsn \in Nat
    BY DEF WInv, IInv, TypeOK
<1>5. file.len <= lsn /\ Abstract!EndOf(WholeLog, 0) = lsn
    BY <1>3, <1>4, WholeLogRun, EndOfRun
<1>6. CASE back.len = 0
    BY <1>1, <1>2, <1>4, <1>6 DEF Abstract!walVars
<1>7. CASE back.len # 0
    <2>1. flushedLSN' \in (flushedLSN + 1)..Abstract!EndOf(WholeLog, 0)
        BY <1>1, <1>3, <1>4, <1>5, <1>7
    <2> QED
        BY <1>1, <1>2, <1>3, <2>1 DEF Abstract!WalNext, Abstract!Flush
<1> QED
    BY <1>6, <1>7

(* Close drops the front buffer, with records of calls it has overtaken:   *)
(* what is left is the durable prefix.                                     *)
LEMMA CloseRefines ==
    ASSUME WInv, CloseReturns
    PROVE  Abstract!WalNext
<1> DEFINE f == file.recs
           w == front.recs
           k == Len(f)
<1>1. /\ flusher = "stopped" /\ front' = Empty /\ back' = Empty /\ file' = file /\ flushedLSN' = flushedLSN
      /\ flusher' = flusher /\ closer # "closed" /\ closer' = "closed" /\ acked' = acked
    BY DEF CloseReturns
<1>2. back = Empty /\ Unwritten.recs = <<>> /\ Unwritten'.recs = <<>> /\ front'.recs = <<>>
    BY <1>1 DEF WInv, IInv, BackOwned, Unwritten, Empty
<1>3. f \in Seq(RecordType) /\ w \in Seq(RecordType) /\ EndToEnd(f, 0, file.len) /\ file.len \in Nat
      /\ flushedLSN \in Nat
    BY Parts
<1>4. flushedLSN = file.len
    BY <1>1, <1>3 DEF WInv, IInv, FlushedIsOnDisk
<1>5. \A i \in 1..Len(w) : flushedLSN <= w[i].lsn
    BY TailNotDurable
<1>6. WholeLog = f \o <<>> \o w /\ WholeLog' = f \o <<>> \o <<>>
    BY <1>1, <1>2 DEF WholeLog
<1> HIDE DEF f, w
<1>7. f \o <<>> \o <<>> = f /\ f \o <<>> = f /\ SubSeq(<<>>, 1, 0) = <<>>
    BY <1>3, ConcatEmptySeq
<1>8. /\ k + 0 \in 0..Len(WholeLog)
      /\ SubSeq(WholeLog, 1, k + 0) = f \o SubSeq(<<>>, 1, 0)
      /\ \A i \in (k + 0 + 1)..Len(WholeLog) : flushedLSN <= WholeLog[i].lsn
    <2>1. <<>> \in Seq(RecordType) /\ 0 \in 0..Len(<<>>) /\ \A i \in 1..Len(<<>>) : flushedLSN <= <<>>[i].lsn
        OBVIOUS
    <2> QED
        BY <1>3, <1>5, <1>6, <2>1, CutBehind
<1>9. k \in 0..Len(WholeLog) /\ SubSeq(WholeLog, 1, k) = f
    <2>1. k \in Nat /\ k + 0 = k
        BY <1>3
    <2>2. SubSeq(WholeLog, 1, k) = f
        BY <1>7, <1>8, <2>1
    <2> QED
        BY <1>8, <2>1, <2>2
<1> HIDE DEF k
<1>10. Abstract!EndOf(WholeLog', 0) = file.len
    BY <1>3, <1>6, <1>7, EndOfRun
<1>11. Abstract!Close
    <2>1. \E i \in 0..Len(WholeLog) : WholeLog' = SubSeq(WholeLog, 1, i)
        BY <1>6, <1>7, <1>9
    <2> QED
        BY <1>1, <1>4, <1>10, <2>1 DEF Abstract!Close
<1> QED
    BY <1>11 DEF Abstract!WalNext

(* A crash leaves the file and maybe a part of what was being written to   *)
(* it: Wal's crash.                                                        *)
LEMMA CrashRefines ==
    ASSUME WInv, Crash
    PROVE  Abstract!WalNext
<1> DEFINE f == file.recs
           u == Unwritten.recs
           w == front.recs
           L == WholeLog
<1>1. /\ file' \in FilesAfterCrash /\ front' = Empty /\ back' = Empty /\ flushedLSN' = file'.len /\ flusher' = "select"
      /\ closer' = "open" /\ acked' = acked
    BY DEF Crash
<1>2. f \in Seq(RecordType) /\ u \in Seq(RecordType) /\ w \in Seq(RecordType) /\ flushedLSN \in Nat
    BY Parts
<1>3. (\A i \in 1..Len(u) : flushedLSN <= u[i].lsn) /\ \A i \in 1..Len(w) : flushedLSN <= w[i].lsn
    BY TailNotDurable
<1>4. L = f \o u \o w
    BY DEF WholeLog
<1>5. file'.recs \in Seq(RecordType) /\ EndToEnd(file'.recs, 0, file'.len) /\ file'.len \in Nat
    <2>1. IInv'
        BY CrashInv DEF WInv
    <2> QED
        BY <2>1 DEF IInv, TypeOK, LsnIsOffset
<1>6. WholeLog' = file'.recs
    <2>1. Unwritten'.recs = <<>> /\ front'.recs = <<>>
        BY <1>1 DEF Unwritten, Empty
    <2>2. file'.recs \o <<>> \o <<>> = file'.recs
        BY <1>5, ConcatEmptySeq
    <2> QED
        BY <2>1, <2>2 DEF WholeLog
<1>7. flushedLSN' = Abstract!EndOf(WholeLog', 0)
    BY <1>1, <1>5, <1>6, EndOfRun
<1> SUFFICES Abstract!Crash
    BY DEF Abstract!WalNext
<1> HIDE DEF f, u, w, L
<1>8. ASSUME NEW k \in 0..Len(u)
      PROVE  /\ Len(f) + k \in 0..Len(L)
             /\ SubSeq(L, 1, Len(f) + k) = f \o SubSeq(u, 1, k)
             /\ k < Len(u) => Len(f) + k < Len(L) /\ L[Len(f) + k + 1] = u[k + 1]
             /\ \A i \in (Len(f) + k + 1)..Len(L) : flushedLSN <= L[i].lsn
    <2> DEFINE M == f \o u \o w
    <2>1. /\ Len(f) + k \in 0..Len(M)
          /\ SubSeq(M, 1, Len(f) + k) = f \o SubSeq(u, 1, k)
          /\ k < Len(u) => Len(f) + k < Len(M) /\ M[Len(f) + k + 1] = u[k + 1]
          /\ \A i \in (Len(f) + k + 1)..Len(M) : flushedLSN <= M[i].lsn
        BY <1>2, <1>3, CutBehind
    <2>2. L = M
        BY <1>4
    <2> HIDE DEF M
    <2> QED
        BY <2>1, <2>2
<1>9. ASSUME NEW k \in 0..Len(u), file'.recs = f \o SubSeq(u, 1, k)
      PROVE  Abstract!Crash
    <2> DEFINE j == Len(f) + k
    <2>1. j \in 0..Len(L) /\ \A i \in (j + 1)..Len(L) : flushedLSN <= L[i].lsn
        BY <1>8
    <2>2. SubSeq(L, 1, j) \o <<>> = file'.recs
        <3>1. SubSeq(L, 1, j) = file'.recs
            BY <1>8, <1>9
        <3> QED
            BY <1>5, <3>1, ConcatEmptySeq
    <2> HIDE DEF j
    <2>3. \A i \in (j + 1)..Len(L) : L[i].lsn >= flushedLSN
        BY <2>1
    <2> QED
        BY <1>1, <1>6, <1>7, <2>1, <2>2, <2>3 DEF Abstract!Crash, Abstract!CutAt, L
<1>10. ASSUME NEW k \in 0..(Len(u) - 1), NEW n \in 1..(u[k + 1].size - 1),
              file'.recs = Append(f \o SubSeq(u, 1, k), [id |-> Torn, lsn |-> u[k + 1].lsn, size |-> n])
       PROVE  Abstract!Crash
    <2> DEFINE j == Len(f) + k
               r == [id |-> Torn, lsn |-> u[k + 1].lsn, size |-> n]
    <2>1. k \in 0..Len(u) /\ k < Len(u) /\ k + 1 \in 1..Len(u)
        BY <1>2
    <2>2. j \in 0..Len(L) /\ j < Len(L) /\ L[j + 1] = u[k + 1] /\ \A i \in (j + 1)..Len(L) : flushedLSN <= L[i].lsn
        BY <1>8, <2>1
    <2>3. r \in RecordType
        <3>1. u[k + 1] \in RecordType
            BY <1>2, <2>1
        <3>2. u[k + 1].lsn \in Nat /\ u[k + 1].size \in Nat
            BY <3>1 DEF RecordType
        <3> QED
            BY <3>2, LogConstants DEF RecordType, Torn
    <2>4. SubSeq(L, 1, j) \o <<r>> = file'.recs
        <3>1. SubSeq(L, 1, j) = f \o SubSeq(u, 1, k)
            BY <1>8, <2>1
        <3>2. SubSeq(u, 1, k) \in Seq(RecordType)
            BY <1>2, <2>1
        <3>3. f \o SubSeq(u, 1, k) \in Seq(RecordType)
            BY <1>2, <3>2, ConcatProperties
        <3> QED
            BY <1>10, <2>3, <3>1, <3>3, AppendIsConcat
    <2>5. r = [id |-> Abstract!Torn, lsn |-> L[j + 1].lsn, size |-> n] /\ n \in 1..(L[j + 1].size - 1)
        BY <2>2 DEF Torn, Abstract!Torn
    <2> HIDE DEF j, r
    <2>6. \A i \in (j + 1)..Len(L) : L[i].lsn >= flushedLSN
        BY <2>2
    <2>7. file'.recs = SubSeq(L, 1, j) \o <<[id |-> Abstract!Torn, lsn |-> L[j + 1].lsn, size |-> n]>>
        BY <2>4, <2>5
    <2> QED
        BY <1>1, <1>6, <1>7, <2>2, <2>5, <2>6, <2>7 DEF Abstract!Crash, Abstract!CutAt, L
<1>11. CASE flusher = "write"
    <2>1. file' \in AfterCrash(file, back) /\ u = back.recs
        BY <1>1, <1>11 DEF FilesAfterCrash, Unwritten, u
    <2>2. CASE \E k \in 0..Len(u) : file' = Upto(file, back, k)
        <3>1. PICK k \in 0..Len(u) : file' = Upto(file, back, k)
            BY <2>2
        <3>2. file'.recs = f \o SubSeq(u, 1, k)
            BY <2>1, <3>1 DEF Upto, f
        <3> QED
            BY <1>9, <3>2
    <2>3. CASE \E k \in 0..(Len(u) - 1) : \E n \in 1..(u[k + 1].size - 1) :
                  file' = Put(Upto(file, back, k), [id |-> Torn, lsn |-> u[k + 1].lsn, size |-> n])
        <3>1. PICK k \in 0..(Len(u) - 1) : \E n \in 1..(u[k + 1].size - 1) :
                  file' = Put(Upto(file, back, k), [id |-> Torn, lsn |-> u[k + 1].lsn, size |-> n])
            BY <2>3
        <3>2. PICK n \in 1..(u[k + 1].size - 1) :
                  file' = Put(Upto(file, back, k), [id |-> Torn, lsn |-> u[k + 1].lsn, size |-> n])
            BY <3>1
        <3>3. file'.recs = Append(f \o SubSeq(u, 1, k), [id |-> Torn, lsn |-> u[k + 1].lsn, size |-> n])
            BY <2>1, <3>2 DEF Put, Upto, f
        <3> QED
            BY <1>10, <3>3
    <2> QED
        BY <2>1, <2>2, <2>3 DEF AfterCrash
<1>12. CASE flusher # "write"
    <2>1. file' = file
        BY <1>1, <1>12 DEF FilesAfterCrash
    <2>2. 0 \in 0..Len(u) /\ SubSeq(u, 1, 0) = <<>> /\ f \o <<>> = f
        BY <1>2, ConcatEmptySeq
    <2>3. file'.recs = f \o SubSeq(u, 1, 0)
        BY <2>1, <2>2 DEF f
    <2> QED
        BY <1>9, <2>2, <2>3
<1> QED
    BY <1>11, <1>12

----------------------------------------------------------------------------
(***************************************************************************)
(* What WaitUntilFlushed answers for is in the log.  A record still in the *)
(* front buffer when the flusher has stopped, which Close will drop, is of *)
(* a call whose wait can only be refused: the log is closed by then.       *)
(***************************************************************************)
Waiting == {"checking", "parking", "parked"}

In(r, s) == \E i \in 1..Len(s) : s[i] = r

FrontCounted == front.len = 0 => front.recs = <<>>

StoppedClosed == flusher = "stopped" => closed

WaitersLogged ==
    \A c \in Clients :
        /\ pc[c] \in Waiting => In(mine[c], WholeLog) /\ (flusher = "stopped" => In(mine[c], file.recs))
        /\ pc[c] = "appended" /\ ~closed => In(mine[c], WholeLog)

XInv == WInv /\ FrontCounted /\ StoppedClosed /\ WaitersLogged

(* Only steps of the goroutine itself make it wait; a broadcast makes it   *)
(* test again.                                                             *)
LEMMA WakingKeepsWaiters ==
    ASSUME NEW p, NEW c \in Clients
    PROVE  /\ WakeAppenders(p)[c] \in Waiting <=> p[c] \in Waiting
           /\ WakeWaiters(p)[c] \in Waiting <=> p[c] \in Waiting
           /\ WakeAppenders(p)[c] = "appended" <=> p[c] = "appended"
           /\ WakeWaiters(p)[c] = "appended" <=> p[c] = "appended"
BY DEF WakeAppenders, WakeWaiters, Waiting

(* A front buffer of length zero holds no record. *)
LEMMA FrontNext ==
    ASSUME XInv, Next
    PROVE  FrontCounted'
<1>1. ASSUME NEW c \in Clients, AppendRecord(c) PROVE FrontCounted'
    <2>1. pc[c] = "counted" /\ front' = Put(front, NewRecord(c)) /\ NewRecord(c).size = req[c].size
        BY <1>1 DEF AppendRecord, NewRecord
    <2>2. req[c].size \in Sizes
        BY <2>1 DEF XInv, WInv, CallsHaveRecords, UnderWay
    <2>3. req[c].size \in Nat /\ req[c].size > 0 /\ front.len \in Nat
        BY <2>2, LogConstants DEF XInv, WInv, IInv, TypeOK
    <2>4. front'.len > 0
        BY <2>1, <2>3 DEF Put
    <2> QED
        BY <2>4 DEF FrontCounted
<1>2. CASE Swap
    <2>1. back = Empty
        BY <1>2 DEF XInv, WInv, IInv, BackOwned, Swap
    <2>2. front' = Empty \/ front' = front
        BY <1>2, <2>1 DEF Swap
    <2> QED
        BY <2>2 DEF XInv, FrontCounted, Empty
<1>3. CASE front' = front \/ front' = Empty
    BY <1>3 DEF XInv, FrontCounted, Empty
<1>4. (\E c \in Clients : AppendRecord(c)) \/ Swap \/ front' = front \/ front' = Empty
    BY DEF Next, AppendStep, WaitStep, FlusherStep, Rejected, Count, WaitForSpace, AppendPanics,
           BeginWait, CheckFlushed, Park, Enter, Tick, ReceiveFlush, WriteBack, Publish, Notify, Exit, Close,
           CloseReturns, Crash, vars, bufferVars
<1> QED
    BY <1>1, <1>2, <1>3, <1>4

(* The flusher has stopped only when the log is closed. *)
LEMMA StoppedNext ==
    ASSUME XInv, Next
    PROVE  StoppedClosed'
<1>1. CASE Exit
    BY <1>1 DEF Exit, MayStop, StoppedClosed
<1>2. CASE ~Exit
    <2>1. flusher' = "stopped" => flusher = "stopped" /\ (closed => closed')
        BY <1>2 DEF Next, AppendStep, WaitStep, FlusherStep, Rejected, Count, WaitForSpace, AppendRecord, AppendPanics,
               BeginWait, CheckFlushed, Park, Enter, Tick, ReceiveFlush, Swap, WriteBack, Publish, Notify, Close,
               CloseReturns, Crash, vars
    <2> QED
        BY <2>1 DEF XInv, StoppedClosed
<1> QED
    BY <1>1, <1>2

(* Steps that move nobody into a wait, and leave the log and the flusher's *)
(* stopping as they are.                                                   *)
LEMMA WaitersKept ==
    ASSUME XInv, mine' = mine, WholeLog' = WholeLog, flusher' = "stopped" => flusher = "stopped" /\ file' = file,
           closed => closed',
           \A c \in Clients : /\ pc'[c] \in Waiting => pc[c] \in Waiting
                              /\ pc'[c] = "appended" => pc[c] = "appended"
    PROVE  WaitersLogged'
BY DEF XInv, WaitersLogged

(* Every step of a goroutine keeps the waiters' records in the log. *)
LEMMA ClientWaiters ==
    ASSUME XInv, NEW c \in Clients, AppendStep(c) \/ WaitStep(c) \/ \E size \in Sizes : Enter(c, size)
    PROVE  WaitersLogged'
<1>1. pc \in [Clients -> Labels] /\ mine \in [Clients -> RecordType]
    BY DEF XInv, WInv, IInv, TypeOK, Labels
<1>2. flusher' = flusher /\ file' = file /\ closed' = closed
    BY DEF AppendStep, WaitStep, Rejected, Count, WaitForSpace, AppendRecord, AppendPanics, BeginWait,
           CheckFlushed, Park, Enter, vars
<1>3. CASE AppendRecord(c)
    <2> DEFINE r == NewRecord(c)
    <2>1. pc' = [pc EXCEPT ![c] = "appended"] /\ mine' = [mine EXCEPT ![c] = r]
        BY <1>3 DEF AppendRecord, Goto
    <2>2. WholeLog \in Seq(RecordType) /\ r \in RecordType /\ WholeLog' = Append(WholeLog, r)
        BY <1>3, AppendsToLog DEF XInv
    <2> HIDE DEF r
    <2>3. Len(WholeLog') = Len(WholeLog) + 1 /\ WholeLog'[Len(WholeLog) + 1] = r
          /\ \A i \in 1..Len(WholeLog) : WholeLog'[i] = WholeLog[i]
        BY <2>2
    <2>4. Len(WholeLog) \in Nat
        BY <2>2
    <2>5. In(r, WholeLog')
        <3>1. Len(WholeLog) + 1 \in 1..Len(WholeLog')
            BY <2>3, <2>4
        <3> QED
            BY <2>3, <3>1 DEF In
    <2>6. ASSUME NEW q, In(q, WholeLog) PROVE In(q, WholeLog')
        <3>1. PICK i \in 1..Len(WholeLog) : WholeLog[i] = q
            BY <2>6 DEF In
        <3>2. i \in 1..Len(WholeLog') /\ WholeLog'[i] = q
            BY <2>3, <2>4, <3>1
        <3> QED
            BY <3>2 DEF In
    <2>7. pc'[c] = "appended" /\ mine'[c] = r /\ \A d \in Clients \ {c} : pc'[d] = pc[d] /\ mine'[d] = mine[d]
        BY <1>1, <2>1
    <2> SUFFICES ASSUME NEW d \in Clients
                 PROVE  /\ pc'[d] \in Waiting => In(mine'[d], WholeLog') /\ (flusher' = "stopped" => In(mine'[d], file'.recs))
                        /\ pc'[d] = "appended" /\ ~closed' => In(mine'[d], WholeLog')
        BY DEF WaitersLogged
    <2>8. CASE d = c
        BY <2>5, <2>7, <2>8 DEF Waiting
    <2>9. CASE d # c
        <3>1. pc'[d] = pc[d] /\ mine'[d] = mine[d]
            BY <2>7, <2>9
        <3>2. pc[d] \in Waiting => In(mine[d], WholeLog) /\ (flusher = "stopped" => In(mine[d], file.recs))
            BY DEF XInv, WaitersLogged
        <3>3. pc[d] = "appended" /\ ~closed => In(mine[d], WholeLog)
            BY DEF XInv, WaitersLogged
        <3> QED
            BY <1>2, <2>6, <3>1, <3>2, <3>3
    <2> QED
        BY <2>8, <2>9
<1>4. CASE ~AppendRecord(c)
    <2>1. mine' = mine /\ front' = front /\ back' = back
        BY <1>4 DEF AppendStep, WaitStep, Rejected, Count, WaitForSpace, AppendPanics, BeginWait,
               CheckFlushed, Park, Enter, vars, bufferVars, clientVars
    <2>2. WholeLog' = WholeLog
        BY <1>2, <2>1 DEF WholeLog, Unwritten
    <2>3. CASE BeginWait(c)
        <3>1. pc[c] = "appended" /\ pc' = [pc EXCEPT ![c] = IF closed THEN "idle" ELSE "checking"]
            BY <2>3 DEF BeginWait, Goto
        <3>2. pc'[c] = (IF closed THEN "idle" ELSE "checking") /\ \A d \in Clients \ {c} : pc'[d] = pc[d]
            BY <1>1, <3>1
        <3>3. ~closed => In(mine[c], WholeLog) /\ flusher # "stopped"
            BY <3>1 DEF XInv, WaitersLogged, StoppedClosed
        <3> QED
            BY <1>2, <2>1, <2>2, <3>2, <3>3 DEF XInv, WaitersLogged, Waiting
    <2>4. CASE ~BeginWait(c)
        <3>1. \/ pc' = pc
              \/ \E label : pc' = [pc EXCEPT ![c] = label] /\ (label \in Waiting => pc[c] \in Waiting) /\ label # "appended"
            BY <1>4, <2>4 DEF AppendStep, WaitStep, Rejected, Count, WaitForSpace, AppendPanics,
                   CheckFlushed, Park, Enter, vars, clientVars, Goto, Waiting
        <3>2. \A d \in Clients : /\ pc'[d] \in Waiting => pc[d] \in Waiting
                                 /\ pc'[d] = "appended" => pc[d] = "appended"
            BY <1>1, <3>1
        <3> QED
            BY <1>2, <2>1, <2>2, <3>2, WaitersKept
    <2> QED
        BY <2>3, <2>4
<1> QED
    BY <1>3, <1>4

(* So does every other step; when the flusher stops, the whole log is in   *)
(* the file.                                                               *)
LEMMA WaitersNext ==
    ASSUME XInv, Next
    PROVE  WaitersLogged'
<1>1. ASSUME NEW c \in Clients, AppendStep(c) \/ WaitStep(c) \/ \E size \in Sizes : Enter(c, size)
      PROVE  WaitersLogged'
    BY <1>1, ClientWaiters
<1>2. CASE FlusherStep /\ ~(flusher' = "stopped")
    <2>1. mine' = mine /\ closed' = closed
        BY <1>2 DEF FlusherStep, Tick, ReceiveFlush, Swap, WriteBack, Publish, Notify, Exit, clientVars
    <2>2. pc' = pc \/ pc' = WakeAppenders(pc) \/ pc' = WakeWaiters(WakeAppenders(pc))
        BY <1>2 DEF FlusherStep, Tick, ReceiveFlush, Swap, WriteBack, Publish, Notify, Exit, clientVars
    <2>3. \A d \in Clients : /\ pc'[d] \in Waiting => pc[d] \in Waiting
                             /\ pc'[d] = "appended" => pc[d] = "appended"
        BY <2>2, WakingKeepsWaiters
    <2>4. WholeLog' = WholeLog
        <3>1. CASE Swap \/ WriteBack
            BY <3>1, FlushKeepsLog DEF XInv
        <3>2. CASE Tick \/ ReceiveFlush \/ Publish \/ Notify \/ Exit
            BY <3>2 DEF Tick, ReceiveFlush, Publish, Notify, Exit, bufferVars, WholeLog, Unwritten
        <3> QED
            BY <1>2, <3>1, <3>2 DEF FlusherStep
    <2> QED
        BY <1>2, <2>1, <2>3, <2>4, WaitersKept
<1>3. CASE FlusherStep /\ flusher' = "stopped"
    <2>1. flusher = "exit" /\ front.len = 0 /\ closed /\ closed' = closed /\ file' = file /\ front' = front /\ back' = back
          /\ pc' = pc /\ mine' = mine
        BY <1>3 DEF FlusherStep, Tick, ReceiveFlush, Swap, WriteBack, Publish, Notify, Exit, MayStop, bufferVars, clientVars
    <2>2. back.recs = <<>> /\ front.recs = <<>> /\ Unwritten = back
        BY <2>1 DEF XInv, WInv, IInv, BackOwned, FrontCounted, Empty, Unwritten
    <2>3. file.recs \in Seq(RecordType)
        BY Parts DEF XInv
    <2>4. WholeLog = file.recs /\ WholeLog' = WholeLog
        <3>1. file.recs \o <<>> \o <<>> = file.recs
            BY <2>3, ConcatEmptySeq
        <3>2. Unwritten' = back
            BY <1>3, <2>1 DEF Unwritten
        <3> QED
            BY <2>1, <2>2, <3>1, <3>2 DEF WholeLog
    <2> QED
        BY <2>1, <2>4 DEF XInv, WaitersLogged
<1>4. CASE Close
    <2>1. UNCHANGED <<file, front, back, flusher, pc, mine>> /\ closed' = TRUE
        BY <1>4 DEF Close, bufferVars, clientVars
    <2>2. WholeLog' = WholeLog
        BY <2>1 DEF WholeLog, Unwritten
    <2> QED
        BY <2>1, <2>2, WaitersKept
<1>5. CASE CloseReturns
    <2>1. flusher = "stopped" /\ UNCHANGED <<file, flusher, pc, mine, closed>> /\ front' = Empty /\ back' = Empty /\ closed
        BY <1>5 DEF CloseReturns, clientVars, XInv, StoppedClosed
    <2>2. file.recs \in Seq(RecordType)
        BY Parts DEF XInv
    <2>3. WholeLog' = file.recs
        <3>1. file.recs \o <<>> \o <<>> = file.recs
            BY <2>2, ConcatEmptySeq
        <3> QED
            BY <2>1, <3>1 DEF WholeLog, Unwritten, Empty
    <2> QED
        BY <2>1, <2>3 DEF XInv, WaitersLogged
<1>6. CASE Crash
    BY <1>6 DEF Crash, WaitersLogged, Waiting
<1> QED
    BY <1>1, <1>2, <1>3, <1>4, <1>5, <1>6 DEF Next

(* The invariant of the waiters holds throughout. *)
LEMMA WaitersInvariant == Spec => []XInv
<1>1. Init => FrontCounted /\ StoppedClosed /\ WaitersLogged
    BY DEF Init, FrontCounted, StoppedClosed, WaitersLogged, Waiting, Empty
<1>2. WInv /\ WInv' /\ [Next]_vars /\ FrontCounted /\ StoppedClosed /\ WaitersLogged
      => FrontCounted' /\ StoppedClosed' /\ WaitersLogged'
    <2> SUFFICES ASSUME WInv, [Next]_vars, FrontCounted, StoppedClosed, WaitersLogged
                 PROVE  FrontCounted' /\ StoppedClosed' /\ WaitersLogged'
        OBVIOUS
    <2>1. XInv
        BY DEF XInv
    <2>2. CASE Next
        BY <2>1, <2>2, FrontNext, StoppedNext, WaitersNext
    <2>3. CASE UNCHANGED vars
        <3>1. UNCHANGED <<pc, mine, closed, front, back, file, flusher>>
            BY <2>3 DEF vars, bufferVars, clientVars
        <3>2. WholeLog' = WholeLog
            BY <3>1 DEF WholeLog, Unwritten
        <3> QED
            BY <3>1, <3>2 DEF FrontCounted, StoppedClosed, WaitersLogged
    <2> QED
        BY <2>2, <2>3
<1> QED
    BY <1>1, <1>2, RefinementInvariant, PTL DEF Spec, XInv

(* A nil return of WaitUntilFlushed is an answer Wal may give. *)
LEMMA AnswerRefines ==
    ASSUME XInv, NEW c \in Clients, CheckFlushed(c)
    PROVE  [Abstract!WalNext]_(Abstract!walVars)
<1>1. pc[c] = "checking" /\ UNCHANGED <<file, front, back, flusher, flushedLSN, closer>>
    BY DEF CheckFlushed, bufferVars
<1>2. WholeLog' = WholeLog
    BY <1>1 DEF WholeLog, Unwritten
<1>3. CASE acked' = acked
    BY <1>1, <1>2, <1>3 DEF Abstract!walVars
<1>4. CASE acked' # acked
    <2>1. ~MustWait(mine[c]) /\ acked' = acked \union {mine[c]}
        BY <1>4 DEF CheckFlushed
    <2>2. mine[c].lsn \in Nat /\ flushedLSN \in Nat
        <3>1. mine[c] \in RecordType /\ flushedLSN \in Nat
            BY DEF XInv, WInv, IInv, TypeOK
        <3> QED
            BY <3>1 DEF RecordType
    <2>3. mine[c].lsn <= flushedLSN
        BY <2>1, <2>2 DEF MustWait
    <2>4. PICK i \in 1..Len(WholeLog) : WholeLog[i] = mine[c]
        BY <1>1 DEF XInv, WaitersLogged, Waiting, In
    <2>5. Abstract!Wait(i)
        BY <1>1, <1>2, <2>1, <2>3, <2>4 DEF Abstract!Wait
    <2> QED
        BY <2>5 DEF Abstract!WalNext
<1> QED
    BY <1>3, <1>4

(* Every step of the log maps to a step of Wal or to none. *)
LEMMA StepRefines == XInv /\ [Next]_vars => [Abstract!WalNext]_(Abstract!walVars)
<1> SUFFICES ASSUME XInv, [Next]_vars PROVE [Abstract!WalNext]_(Abstract!walVars)
    OBVIOUS
<1> WInv
    BY DEF XInv
<1>1. ASSUME UNCHANGED <<file, front, flushedLSN, Unwritten, acked>>, (closer' = "closed") = (closer = "closed")
      PROVE  UNCHANGED Abstract!walVars
    BY <1>1 DEF Abstract!walVars, WholeLog
<1>2. CASE UNCHANGED vars
    BY <1>1, <1>2 DEF vars, bufferVars, Unwritten
<1>3. ASSUME NEW c \in Clients, AppendStep(c) \/ WaitStep(c) \/ \E size \in Sizes : Enter(c, size)
      PROVE  [Abstract!WalNext]_(Abstract!walVars)
    <2>1. CASE AppendRecord(c)
        BY <2>1, AppendRefines
    <2>2. CASE CheckFlushed(c)
        BY <2>2, AnswerRefines
    <2>3. CASE ~AppendRecord(c) /\ ~CheckFlushed(c)
        <3>1. UNCHANGED <<file, front, flushedLSN, back, flusher, acked, closer>>
            BY <1>3, <2>3 DEF AppendStep, WaitStep, Rejected, Count, WaitForSpace, AppendPanics, BeginWait,
                              Park, Enter, vars, bufferVars
        <3> QED
            BY <1>1, <3>1 DEF Unwritten
    <2> QED
        BY <2>1, <2>2, <2>3
<1>4. CASE FlusherStep \/ Close
    <2>1. CASE Publish
        BY <2>1, PublishRefines
    <2>2. CASE Swap \/ WriteBack
        <3>1. closer' = closer /\ acked' = acked
            BY <2>2 DEF Swap, WriteBack
        <3> QED
            BY <2>2, <3>1, FlushKeepsLog DEF Abstract!walVars
    <2>3. CASE Tick \/ ReceiveFlush \/ Notify \/ Exit \/ Close
        <3>1. UNCHANGED <<file, front, flushedLSN, back, acked>>
            BY <2>3 DEF Tick, ReceiveFlush, Notify, Exit, Close, bufferVars
        <3>2. Unwritten' = Unwritten
            BY <2>3, <3>1 DEF Tick, ReceiveFlush, Notify, Exit, Close, Unwritten
        <3>3. (closer' = "closed") = (closer = "closed")
            <4>1. CASE Close
                <5>1. closer # "closed"
                    BY <4>1 DEF Close, XInv, WInv, IInv, ClosedAfterStop
                <5> QED
                    BY <4>1, <5>1 DEF Close
            <4>2. CASE ~Close
                BY <2>3, <4>2 DEF Tick, ReceiveFlush, Notify, Exit
            <4> QED
                BY <4>1, <4>2
        <3> QED
            BY <1>1, <3>1, <3>2, <3>3
    <2> QED
        BY <1>4, <2>1, <2>2, <2>3 DEF FlusherStep
<1>5. CASE CloseReturns
    BY <1>5, CloseRefines
<1>6. CASE Crash
    BY <1>6, CrashRefines
<1> QED
    BY <1>2, <1>3, <1>4, <1>5, <1>6 DEF Next

(* The double-buffered log implements Wal: appends take the next offset,   *)
(* the durable prefix only grows, WaitUntilFlushed answers for records     *)
(* that are in the log and no earlier than all before them is durable, a   *)
(* crash cuts off nothing that was reported as flushed, and neither does a *)
(* Close that overtakes an Append.                                         *)
THEOREM LogImplementsWal == Spec => ImplementsWal
<1>1. Init => Abstract!WalInit
    BY DEF Init, Abstract!WalInit, WholeLog, Unwritten, Empty
<1> QED
    BY <1>1, WaitersInvariant, StepRefines, PTL DEF Spec, ImplementsWal, Abstract!WalSpec

============================================================================
