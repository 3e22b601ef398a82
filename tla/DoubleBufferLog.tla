-------------------------- MODULE DoubleBufferLog --------------------------
(***************************************************************************)
(* The double-buffered write-ahead log (logging/double_buffer_log.go):     *)
(* goroutines that append a record and then wait for it to be flushed, the *)
(* flusher goroutine, Close, and crashes followed by a restart on the same *)
(* file.                                                                   *)
(*                                                                         *)
(* A critical section under condAppend.L is one step.  WaitUntilFlushed    *)
(* tests flushedLSN and joins the waiters of condWait in two steps: the    *)
(* flusher broadcasts without holding that mutex, and may do so between.   *)
(* Sizes and offsets are in bytes; a buffer is its length and its records. *)
(*                                                                         *)
(* The ticker may fire whenever the flusher listens; Append's Reset of it  *)
(* only delays that.                                                       *)
(***************************************************************************)
EXTENDS Integers, Sequences, FiniteSets

CONSTANTS
    Clients,     \* goroutines that use the log
    Sizes,       \* sizes of records
    BufferSize,  \* logBufferSize
    MaxCalls,    \* bound: Append calls, all goroutines together
    MaxCrashes   \* bound: crashes

ASSUME LogConstants ==
    /\ IsFiniteSet(Clients)
    /\ Sizes \subseteq 1..(BufferSize - 1)
    /\ BufferSize \in Nat
    /\ MaxCalls \in Nat
    /\ MaxCrashes \in Nat

VARIABLES
    front, back,  \* the two buffers
    lsn,          \* offset of the next record
    flushedLSN,   \* what FlushedUntil reports
    waiterCount,  \* Append calls between their two updates of the counter
    closed,       \* the shutdown flag
    flushCh,      \* the one-slot channel of flush requests: full or not
    file,         \* the log file: its length and its records
    flusher,      \* where the flusher goroutine is
    closer,       \* where the caller of Close is
    pc,           \* where each goroutine is
    req,          \* the call's record: its identity and size
    mine,         \* the record the goroutine appended last
    calls,        \* Append calls so far; a record is known by its call
    acked,        \* history: records WaitUntilFlushed returned nil for
    crashes       \* number of crashes so far

bufferVars == <<front, back, lsn, flushedLSN, waiterCount>>
clientVars == <<pc, req, mine>>
vars == <<bufferVars, closed, flushCh, file, flusher, closer, clientVars, calls, acked, crashes>>

----------------------------------------------------------------------------
(* Buffers and files *)

Torn == 0
Empty == [len |-> 0, recs |-> <<>>]
NoRecord == [id |-> Torn, lsn |-> 0, size |-> 0]
NoCall == [id |-> Torn, size |-> 0]

(* b with record r written behind its contents *)
Put(b, r) == [len |-> b.len + r.size, recs |-> Append(b.recs, r)]

(* f with the contents of b appended by file.Write *)
Write(f, b) == [len |-> f.len + b.len, recs |-> f.recs \o b.recs]

Init ==
    /\ front = Empty /\ back = Empty
    /\ lsn = 0 /\ flushedLSN = 0
    /\ waiterCount = 0
    /\ closed = FALSE
    /\ flushCh = FALSE
    /\ file = Empty
    /\ flusher = "select"
    /\ closer = "open"
    /\ pc = [c \in Clients |-> "idle"]
    /\ req = [c \in Clients |-> NoCall]
    /\ mine = [c \in Clients |-> NoRecord]
    /\ calls = 0
    /\ acked = {}
    /\ crashes = 0

Goto(c, label) == pc' = [pc EXCEPT ![c] = label]

(* condAppend.Broadcast and condWait.Broadcast *)
WakeAppenders_NoOne(p) == p

WakeAppenders(p) == [c \in Clients |-> IF p[c] = "noSpace" THEN "counted" ELSE p[c]]

WakeWaiters_NoOne(p) == p

WakeWaiters(p) == [c \in Clients |-> IF p[c] = "parked" THEN "checking" ELSE p[c]]

----------------------------------------------------------------------------
(* Append *)

(* The call has found the log open (a closed one rejects it at once) *)
Enter(c, size) ==
    /\ pc[c] = "idle"
    /\ ~closed
    /\ calls < MaxCalls
    /\ calls' = calls + 1
    /\ Goto(c, "entered")
    /\ req' = [req EXCEPT ![c] = [id |-> calls + 1, size |-> size]]
    /\ UNCHANGED <<bufferVars, closed, flushCh, file, flusher, closer, mine, acked, crashes>>

(* ... rejects it, and nothing changes *)
Rejected(c) == pc[c] = "idle" /\ closed /\ UNCHANGED vars

Count_Forgotten(c) ==
    /\ pc[c] = "entered"
    /\ Goto(c, "counted")
    /\ UNCHANGED <<bufferVars, closed, flushCh, file, flusher, closer, req, mine, calls, acked, crashes>>

Count(c) ==
    /\ pc[c] = "entered"
    /\ Goto(c, "counted")
    /\ waiterCount' = waiterCount + 1
    /\ UNCHANGED <<front, back, lsn, flushedLSN, closed, flushCh, file, flusher, closer, req, mine, calls,
                   acked, crashes>>

Fits(size) == front.len + size < BufferSize

(* The front buffer is full: request a flush and wait *)
WaitForSpace(c) ==
    /\ pc[c] = "counted"
    /\ ~Fits(req[c].size)
    /\ flushCh' = TRUE
    /\ Goto(c, "noSpace")
    /\ UNCHANGED <<bufferVars, closed, file, flusher, closer, req, mine, calls, acked, crashes>>

(* The call's record, at the next offset *)
NewRecord_OffsetBehind(c) == [id |-> req[c].id, lsn |-> lsn + req[c].size, size |-> req[c].size]

NewRecord(c) == [id |-> req[c].id, lsn |-> lsn, size |-> req[c].size]

(* The record gets its LSN and is copied into the front buffer *)
AppendRecord(c) ==
    /\ pc[c] = "counted"
    /\ Fits(req[c].size)
    /\ closer # "closed"
    /\ lsn' = lsn + req[c].size
    /\ front' = Put(front, NewRecord(c))
    /\ waiterCount' = waiterCount - 1
    /\ mine' = [mine EXCEPT ![c] = NewRecord(c)]
    /\ Goto(c, "appended")
    /\ UNCHANGED <<back, flushedLSN, closed, flushCh, file, flusher, closer, req, calls, acked, crashes>>

(* Close has set the front buffer to nil: slicing it panics *)
AppendPanics(c) ==
    /\ pc[c] = "counted"
    /\ closer = "closed"
    /\ lsn' = lsn + req[c].size
    /\ Goto(c, "panicked")
    /\ UNCHANGED <<front, back, flushedLSN, waiterCount, closed, flushCh, file, flusher, closer, req, mine, calls, acked, crashes>>

----------------------------------------------------------------------------
(* WaitUntilFlushed *)

(* A closed log is an error; an open one is examined *)
BeginWait(c) ==
    /\ pc[c] = "appended"
    /\ Goto(c, IF closed THEN "idle" ELSE "checking")
    /\ UNCHANGED <<bufferVars, closed, flushCh, file, flusher, closer, req, mine, calls, acked, crashes>>

MustWait(r) == r.lsn > flushedLSN

(* The loop's test: flushed far enough, closed, or going to sleep *)
CheckFlushed(c) ==
    /\ pc[c] = "checking"
    /\ IF MustWait(mine[c]) /\ ~closed
       THEN Goto(c, "parking") /\ UNCHANGED acked
       ELSE Goto(c, "idle") /\ acked' = IF MustWait(mine[c]) THEN acked ELSE acked \union {mine[c]}
    /\ UNCHANGED <<bufferVars, closed, flushCh, file, flusher, closer, req, mine, calls, crashes>>

(* condWait.Wait adds itself to the list a broadcast wakes *)
Park(c) ==
    /\ pc[c] = "parking"
    /\ Goto(c, "parked")
    /\ UNCHANGED <<bufferVars, closed, flushCh, file, flusher, closer, req, mine, calls, acked, crashes>>

----------------------------------------------------------------------------
(* periodicWALFlusher *)

Tick ==
    /\ flusher = "select"
    /\ flusher' = "swap"
    /\ UNCHANGED <<bufferVars, closed, flushCh, file, closer, clientVars, calls, acked, crashes>>

ReceiveFlush ==
    /\ flusher = "select"
    /\ flushCh
    /\ flushCh' = FALSE
    /\ flusher' = "swap"
    /\ UNCHANGED <<bufferVars, closed, file, closer, clientVars, calls, acked, crashes>>

Swap ==
    /\ flusher = "swap"
    /\ flusher' = "write"
    /\ IF front.len > 0 /\ back.len = 0
       THEN front' = back /\ back' = front /\ pc' = WakeAppenders(pc)
       ELSE UNCHANGED <<front, back, pc>>
    /\ UNCHANGED <<lsn, flushedLSN, waiterCount, closed, flushCh, file, closer, req, mine, calls, acked, crashes>>

(* file.Write and file.Sync have returned (Crash shows them incomplete) *)
WriteBack ==
    /\ flusher = "write"
    /\ IF back.len > 0
       THEN flusher' = "publish" /\ file' = Write(file, back)
       ELSE flusher' = "exit" /\ UNCHANGED file
    /\ UNCHANGED <<bufferVars, closed, flushCh, closer, clientVars, calls, acked, crashes>>

Publish_AllAppended ==
    /\ flusher = "publish"
    /\ flusher' = "notify"
    /\ back' = Empty
    /\ flushedLSN' = lsn
    /\ UNCHANGED <<front, lsn, waiterCount, closed, flushCh, file, closer, clientVars, calls, acked, crashes>>

Publish ==
    /\ flusher = "publish"
    /\ flusher' = "notify"
    /\ back' = Empty
    /\ flushedLSN' = flushedLSN + back.len
    /\ UNCHANGED <<front, lsn, waiterCount, closed, flushCh, file, closer, clientVars, calls, acked, crashes>>

Notify ==
    /\ flusher = "notify"
    /\ flusher' = "exit"
    /\ pc' = WakeWaiters(WakeAppenders(pc))
    /\ UNCHANGED <<bufferVars, closed, flushCh, file, closer, req, mine, calls, acked, crashes>>

MayStop_IgnoresAppenders == closed /\ front.len = 0 /\ back.len = 0

MayStop == closed /\ waiterCount = 0 /\ front.len = 0 /\ back.len = 0

Exit ==
    /\ flusher = "exit"
    /\ flusher' = IF MayStop THEN "stopped" ELSE "select"
    /\ UNCHANGED <<bufferVars, closed, flushCh, file, closer, clientVars, calls, acked, crashes>>

----------------------------------------------------------------------------
(* Close, crash and restart *)

Close ==
    /\ ~closed
    /\ closed' = TRUE
    /\ closer' = "waiting"
    /\ UNCHANGED <<bufferVars, flushCh, file, flusher, clientVars, calls, acked, crashes>>

(* wg.Wait returns; the buffers are dropped and the file is closed *)
CloseReturns ==
    /\ closer = "waiting"
    /\ flusher = "stopped"
    /\ closer' = "closed"
    /\ front' = Empty /\ back' = Empty
    /\ UNCHANGED <<lsn, flushedLSN, waiterCount, closed, flushCh, file, flusher, clientVars, calls, acked, crashes>>

(* What a crash may leave of the file when b is being written to it: some  *)
(* of b's records, and maybe a piece of the next one.                      *)
Upto(f, b, k) ==
    [len |-> f.len + (IF k = 0 THEN 0 ELSE b.recs[k].lsn + b.recs[k].size - b.recs[1].lsn),
     recs |-> f.recs \o SubSeq(b.recs, 1, k)]

AfterCrash(f, b) ==
    {Upto(f, b, k) : k \in 0..Len(b.recs)} \union
    UNION {{Put(Upto(f, b, k), [id |-> Torn, lsn |-> b.recs[k + 1].lsn, size |-> n]) :
                n \in 1..(b.recs[k + 1].size - 1)} : k \in 0..(Len(b.recs) - 1)}

(* The file the restart finds; it is opened for appending *)
FilesAfterCrash_Truncated == {Empty}

FilesAfterCrash == IF flusher = "write" THEN AfterCrash(file, back) ELSE {file}

(* A crash, and NewDoubleBufferLogManager on what is left of the file *)
Crash ==
    /\ crashes < MaxCrashes
    /\ crashes' = crashes + 1
    /\ file' \in FilesAfterCrash
    /\ front' = Empty /\ back' = Empty
    /\ lsn' = file'.len /\ flushedLSN' = file'.len
    /\ waiterCount' = 0 /\ closed' = FALSE /\ flushCh' = FALSE
    /\ flusher' = "select" /\ closer' = "open"
    /\ pc' = [c \in Clients |-> "idle"]
    /\ req' = [c \in Clients |-> NoCall]
    /\ mine' = [c \in Clients |-> NoRecord]
    /\ UNCHANGED <<calls, acked>>

----------------------------------------------------------------------------
(* The specification *)

AppendStep(c) == Rejected(c) \/ Count(c) \/ WaitForSpace(c) \/ AppendRecord(c) \/ AppendPanics(c)

WaitStep(c) == BeginWait(c) \/ CheckFlushed(c) \/ Park(c)

FlusherStep == Tick \/ ReceiveFlush \/ Swap \/ WriteBack \/ Publish \/ Notify \/ Exit

Next ==
    \/ \E c \in Clients : AppendStep(c) \/ WaitStep(c) \/ \E size \in Sizes : Enter(c, size)
    \/ FlusherStep
    \/ Close
    \/ CloseReturns
    \/ Crash

Spec == Init /\ [][Next]_vars

----------------------------------------------------------------------------
(* Properties *)

RecordType == [id : 0..MaxCalls, lsn : Nat, size : Nat]

(* Every variable has its type. *)
TypeOK ==
    /\ front \in [len : Nat, recs : Seq(RecordType)]
    /\ back \in [len : Nat, recs : Seq(RecordType)]
    /\ file \in [len : Nat, recs : Seq(RecordType)]
    /\ lsn \in Nat /\ flushedLSN \in Nat
    /\ waiterCount \in Nat
    /\ closed \in BOOLEAN /\ flushCh \in BOOLEAN
    /\ flusher \in {"select", "swap", "write", "publish", "notify", "exit", "stopped"}
    /\ closer \in {"open", "waiting", "closed"}
    /\ pc \in [Clients -> {"idle", "entered", "counted", "noSpace", "appended", "checking", "parking",
                          "parked", "panicked"}]
    /\ req \in [Clients -> [id : 0..MaxCalls, size : Nat]]
    /\ mine \in [Clients -> RecordType]
    /\ calls \in 0..MaxCalls
    /\ acked \subseteq RecordType
    /\ crashes \in 0..MaxCrashes

(* The records of s lie end to end in the bytes from..(to - 1) *)
EndToEnd(s, from, to) ==
    IF s = <<>> THEN from = to
    ELSE /\ s[1].lsn = from
         /\ s[Len(s)].lsn + s[Len(s)].size = to
         /\ \A i \in 1..(Len(s) - 1) : s[i + 1].lsn = s[i].lsn + s[i].size
         /\ \A i \in 1..Len(s) : from <= s[i].lsn

(* The back buffer's bytes that are not in the file yet *)
Unwritten == IF flusher = "publish" THEN Empty ELSE back

(* An LSN is the byte offset of its record in the file ("The system maps   *)
(* each log record's LSN directly to its physical byte offset", lab_4.md): *)
(* what is in the file, then the back buffer, then the front buffer are    *)
(* the log without a gap or an overlap, through swaps, partial writes,     *)
(* crashes and restarts, and the next LSN is where it ends (until Close    *)
(* drops the buffers).                                                     *)
LsnIsOffset ==
    /\ EndToEnd(file.recs, 0, file.len)
    /\ EndToEnd(Unwritten.recs, file.len, file.len + Unwritten.len)
    /\ closer # "closed" =>
          /\ EndToEnd(front.recs, file.len + Unwritten.len, lsn)
          /\ lsn = file.len + Unwritten.len + front.len

(* FlushedUntil never runs ahead of the disk, and lags by just the buffer  *)
(* that has been synced and not yet published.                             *)
FlushedIsOnDisk == flushedLSN + (IF flusher = "publish" THEN back.len ELSE 0) = file.len

(* storage/wal.go:65, "WaitUntilFlushed blocks until the log record with   *)
(* the given LSN (and all prior records) has been successfully written to  *)
(* stable storage": a record whose wait has returned nil is in the file,   *)
(* to its last byte, and stays there.  It is false: the test (line 108)    *)
(* compares the start of the record with the end of what is flushed.       *)
AckedIsDurable == \A r \in acked : r.lsn + r.size <= file.len

(* What the code keeps of that promise: when WaitUntilFlushed has returned *)
(* nil for a record, all prior records are in the file, for good.          *)
AckedAfterPrior == \A r \in acked : r.lsn <= file.len

(* The flusher stops only when everything appended so far is on disk and   *)
(* published, and no Append that has been counted is still to copy its     *)
(* record: waiterCount and the buffer lengths, read one after the other,   *)
(* miss nothing that came before.                                          *)
StopsWhenDrained ==
    [][flusher # "stopped" /\ flusher' = "stopped" =>
          lsn = flushedLSN /\ \A c \in Clients : pc[c] \notin {"counted", "noSpace"}]_vars

(* The log seen as one sequence of records *)
WholeLog == file.recs \o Unwritten.recs \o front.recs

(* The buffers, the file, the counters and the answers given are the log   *)
(* that Wal describes: an append-only log at byte offsets with a durable   *)
(* prefix, answers no earlier than the record's start is durable, and a    *)
(* Close and a crash that take away nothing that is durable.               *)
Abstract == INSTANCE Wal WITH RecordIds <- 1..MaxCalls, log <- WholeLog, durable <- flushedLSN,
                              acked <- acked, open <- closer # "closed"

ImplementsWal == Abstract!WalSpec
============================================================================
