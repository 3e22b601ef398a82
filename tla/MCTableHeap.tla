---------------------------- MODULE MCTableHeap ----------------------------
(* Instances of TableHeap: two transactions on a table of one or three slots a page. *)
EXTENDS TableHeap

CONSTANTS t1, t2
MCTxns == {t1, t2}
\* The layout with the sizes of the code: 4096 bytes, rows of 8, 16, ... 4064 bytes.
CodeLayout == INSTANCE TableHeap WITH PageSize <- 4096, HeaderSize <- 16, WordSize <- 8, WordBits <- 64,
                RowSizes <- {8 * i : i \in 1 .. 508}
ASSUME CodeLayoutFits ==
    \A i \in 1 .. 508 : LET n == CodeLayout!SlotsFor(8 * i)
                        IN  n > 0 /\ 16 + 2 * CodeLayout!BitmapSize(n) + n * 8 * i <= 4096
=============================================================================
