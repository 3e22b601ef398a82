---------------------------- MODULE MCBufferPool ----------------------------
(* Instances of BufferPool: pages of two tables and fewer frames than pages. *)
EXTENDS BufferPool, TLC

CONSTANTS t1, t2, f1, f2
MCThreads == {t1, t2}
MCFrames == {f1, f2}
MCPages == {<<1, 0>>, <<1, 1>>, <<2, 0>>}
\* A failure or a flush, not both.
OneDisturbance == faults + flushes <= 1
MCSymmetry == Permutations({t1, t2}) \cup Permutations({f1, f2})
=============================================================================
