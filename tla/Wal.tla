-------------------------------- MODULE Wal --------------------------------
(***************************************************************************)
(* What the double-buffered log keeps of the LogManager interface of       *)
(* storage/wal.go: an append-only log of records, each at the byte offset  *)
(* that is its LSN, a durable prefix of it that only grows and survives a  *)
(* crash, calls of WaitUntilFlushed that are answered once it has grown    *)
(* far enough, and Close.  DoubleBufferLog implements it.                  *)
(*                                                                         *)
(* It is weaker than the comments of wal.go in two places, where the code  *)
(* is.  Wait answers when the records before the given one are durable; by *)
(* wal.go:65 the record itself should be (DoubleBufferLog's AckedIsDurable *)
(* states that, and is false).  Close forgets what is not durable; by      *)
(* wal.go:76 it "ensures any pending buffers are flushed".                 *)
(***************************************************************************)
EXTENDS Integers, Sequences

CONSTANTS RecordIds,  \* identities of records
          Sizes       \* sizes of records in bytes

VARIABLES log,      \* the records appended so far, in the order of their LSNs
          durable,  \* FlushedUntil: everything below this offset is on disk
          acked,    \* history: records whose WaitUntilFlushed has returned nil
          open      \* Close has not returned yet

walVars == <<log, durable, acked, open>>

(* The piece of a record that a crash in the middle of a write leaves *)
Torn == 0

(* The offset behind the last record of s, if s starts at offset from *)
EndOf(s, from) == IF s = <<>> THEN from ELSE s[Len(s)].lsn + s[Len(s)].size

WalInit == log = <<>> /\ durable = 0 /\ acked = {} /\ open = TRUE

(* Append gives the record the next offset *)
AppendRecord(id, size) ==
    /\ open
    /\ log' = Append(log, [id |-> id, lsn |-> EndOf(log, 0), size |-> size])
    /\ UNCHANGED <<durable, acked, open>>

(* More of the log reaches the disk *)
Flush ==
    /\ open
    /\ durable' \in (durable + 1)..EndOf(log, 0)
    /\ UNCHANGED <<log, acked, open>>

(* WaitUntilFlushed returns nil for the i-th record: all before it is      *)
(* durable.                                                                *)
Wait(i) ==
    /\ log[i].lsn <= durable
    /\ acked' = acked \union {log[i]}
    /\ UNCHANGED <<log, durable, open>>

(* Close returns.  Records of calls it has overtaken are neither durable   *)
(* nor part of the log any more.                                           *)
Close ==
    /\ open
    /\ open' = FALSE
    /\ \E k \in 0..Len(log) : log' = SubSeq(log, 1, k)
    /\ EndOf(log', 0) = durable
    /\ UNCHANGED <<durable, acked>>

(* A crash cuts the log somewhere behind its durable prefix, maybe in the  *)
(* middle of a record; what is left is on disk.                            *)
CutAt(k, rest) == SubSeq(log, 1, k) \o rest

Crash ==
    /\ \E k \in 0..Len(log) :
          /\ \A i \in (k + 1)..Len(log) : log[i].lsn >= durable
          /\ \/ log' = CutAt(k, <<>>)
             \/ /\ k < Len(log)
                /\ \E n \in 1..(log[k + 1].size - 1) :
                      log' = CutAt(k, <<[id |-> Torn, lsn |-> log[k + 1].lsn, size |-> n]>>)
    /\ durable' = EndOf(log', 0)
    /\ open' = TRUE
    /\ UNCHANGED acked

WalNext ==
    \/ \E id \in RecordIds, size \in Sizes : AppendRecord(id, size)
    \/ Flush
    \/ \E i \in 1..Len(log) : Wait(i)
    \/ Close
    \/ Crash

WalSpec == WalInit /\ [][WalNext]_walVars

============================================================================
