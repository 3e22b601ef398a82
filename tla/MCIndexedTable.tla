--------------------------- MODULE MCIndexedTable ---------------------------
(* Instances of IndexedTable: two transactions, two slots, two keys. *)
EXTENDS IndexedTable, TLC

CONSTANTS t1, t2
MCTxns == {t1, t2}
Cmd(kind, path, key, new) == [kind |-> kind, path |-> path, key |-> key, new |-> new]
MCCommands == {
    Cmd("insert", "hash", 1, 1),
    Cmd("select", "hash", 1, 1), Cmd("select", "btree", 2, 2), Cmd("select", "scan", 1, 1),
    Cmd("delete", "hash", 1, 1), Cmd("delete", "scan", 1, 1),
    Cmd("update", "hash", 1, 2), Cmd("update", "btree", 2, 1)}
MCSymmetry == Permutations(MCTxns)
=============================================================================
