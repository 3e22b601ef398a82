----------------------------- MODULE Executors -----------------------------
(***************************************************************************)
(* The executors (execution/): what a tree of iterators hands over when    *)
(* Init is called once and Next until it answers false.                    *)
(*                                                                         *)
(* An executor is a stream: how Init ends, the rows that Next delivers,    *)
(* and how Next stops delivering ("eof", "error" when Error would report   *)
(* one, or a panic).  A row is its values and the place it has in its      *)
(* table, 0 when it is not a row of a table.  Run gives every stream a     *)
(* plan can produce: rows that compare equal may come out of a sort in     *)
(* either order and the groups of an aggregation in any.                   *)
(*                                                                         *)
(* A database is its tables and one possible fault: a sequential scan of   *)
(* the table fault.t fails after fault.k rows.  The indexes hold exactly   *)
(* the rows of the tables, as at the end of a transaction (IndexedTable).  *)
(***************************************************************************)
EXTENDS Planner, FiniteSetsExt

CONSTANT MaxTuplesInBlock   \* rows in a block of the nested loop join

ASSUME BlockAssumption == MaxTuplesInBlock \in Nat \ {0}

Stream(rows, end) == [init |-> "ok", rows |-> rows, end |-> end]
InitFails(how) == [init |-> how, rows |-> <<>>, end |-> "eof"]
Virtual(values) == [v |-> values, rid |-> 0]
EvalAll(es, row) == [i \in DOMAIN es |-> Eval(es[i], row.v)]
Merged(l, r) == Virtual(l.v \o r.v)                 \* MergeTuples

\* A blocking operator drains its child during its own Init and never asks it for an
\* error: one that stops the child early looks like the end of the rows.
Drain(s) ==
    IF s.init # "ok" THEN s ELSE IF s.end = "panic" THEN InitFails("panic") ELSE Stream(s.rows, "eof")
-----------------------------------------------------------------------------
(* Scans. *)

TableRows(db, t) == [i \in DOMAIN db.tables[t] |-> [v |-> db.tables[t][i], rid |-> i]]

SeqScan(node, db) ==
    LET rows == TableRows(db, node.t)
    IN  IF db.fault.t = node.t /\ db.fault.k < Len(rows)
        THEN Stream(SubSeq(rows, 1, db.fault.k), "error") ELSE Stream(rows, "eof")

ColumnOf(t, name) == CHOOSE i \in DOMAIN TableColumns[t] : TableColumns[t][i] = name
KeyOf(node, row) == [i \in DOMAIN node.idx.cols |-> row.v[ColumnOf(node.t, node.idx.cols[i])]]

IndexLookup(node, db) ==
    Stream(SelectSeq(TableRows(db, node.t), LAMBDA row : KeyOf(node, row) = node.key), "eof")

\* The entries of a B-tree, in the order of the key and then of the place of the row.
Entries(node, db) ==
    SortSeq(TableRows(db, node.t), LAMBDA x, y : LET cmp == CompareRows(KeyOf(node, x), KeyOf(node, y))
                                                 IN  cmp = -1 \/ (cmp = 0 /\ x.rid < y.rid))
Seek(node, entries) ==
    LET notBefore == {i \in DOMAIN entries : CompareRows(KeyOf(node, entries[i]), node.key) # -1}
    IN  IF notBefore = {} THEN Len(entries) + 1 ELSE Min(notBefore)

\* Backward, from the first entry of the start key, or from the last one before it.
BackwardFrom_AlwaysPrev(node, entries) == Seek(node, entries) - 1
BackwardFrom(node, entries) ==
    LET i == Seek(node, entries)
    IN  IF i \in DOMAIN entries /\ KeyOf(node, entries[i]) = node.key THEN i ELSE i - 1

\* A hash index has no Scan; a start key with too few columns is read past its end.
IndexScan(node, db) ==
    LET entries == Entries(node, db)
    IN  IF node.idx.type = "hash" THEN InitFails("error")
        ELSE IF Len(node.key) < Len(node.idx.cols) /\ entries # <<>> THEN InitFails("panic")
        ELSE IF node.dir = "forward" THEN Stream(SubSeq(entries, Seek(node, entries), Len(entries)), "eof")
        ELSE Stream(Reverse(SubSeq(entries, 1, BackwardFrom(node, entries))), "eof")

\* ValuesExecutor: one array serves all rows, so a shorter row keeps values of the one
\* before it and a longer one does not fit.
ValuesScan(node) ==
    LET width == Len(Head(node.rows))
        long == {i \in DOMAIN node.rows : Len(node.rows[i]) > width}
        Over(row, values) == [i \in DOMAIN row |-> IF i <= Len(values) THEN Eval(values[i], <<>>) ELSE row[i]]
        row[i \in 0 .. Len(node.rows)] ==
            IF i = 0 THEN [k \in 1 .. width |-> NULL] ELSE Over(row[i - 1], node.rows[i])
        Rows(n) == [i \in 1 .. n |-> Virtual(row[i])]
    IN  IF long = {} THEN Stream(Rows(Len(node.rows)), "eof") ELSE Stream(Rows(Min(long) - 1), "panic")
-----------------------------------------------------------------------------
(* Filter, limit and projection: one row at a time. *)

\* The predicate's value is read as an integer, which NULL is not.
FilterNext(node, s) ==
    LET stuck == {i \in DOMAIN s.rows : Eval(node.pred, s.rows[i].v) = NULL}
        Pass(rows) == SelectSeq(rows, LAMBDA row : Eval(node.pred, row.v) = True)
    IN  IF stuck = {} THEN [s EXCEPT !.rows = Pass(@)]
        ELSE [s EXCEPT !.rows = Pass(SubSeq(@, 1, Min(stuck) - 1)), !.end = "panic"]

\* Once the limit is reached the child is not asked again.
LimitNext(node, s) ==
    IF Len(s.rows) < node.limit THEN s
    ELSE [s EXCEPT !.rows = SubSeq(@, 1, node.limit), !.end = "eof"]

ProjectionNext(node, s) ==
    [s EXCEPT !.rows = [i \in DOMAIN s.rows |-> Virtual(EvalAll(node.exprs, s.rows[i]))]]
-----------------------------------------------------------------------------
(* Sort and top-n. *)

\* compare: the first key that differs decides, in its direction.
KeyCompare(by, x, y) ==
    LET Sign(i) == LET cmp == Compare(Eval(by[i].e, x.v), Eval(by[i].e, y.v))
                   IN  IF by[i].dir = "desc" THEN -cmp ELSE cmp
        differ == {i \in DOMAIN by : Sign(i) # 0}
    IN  IF differ = {} THEN 0 ELSE Sign(Min(differ))

\* Every order of the rows at the given positions in which none precedes a smaller one.
Sorted(by, rows, positions) ==
    LET n == Cardinality(positions)
        orders == {p \in SetToSeqs(positions) : \A i \in 1 .. n - 1 : KeyCompare(by, rows[p[i]], rows[p[i + 1]]) # 1}
    IN  {[i \in 1 .. n |-> rows[p[i]]] : p \in orders}

SortInit(node, rows) == {Stream(sorted, "eof") : sorted \in Sorted(node.by, rows, DOMAIN rows)}

\* The heap keeps limit rows with the largest on top; a smaller row replaces the top.
Largest(by, rows, heap) == {i \in heap : \A j \in heap : KeyCompare(by, rows[i], rows[j]) # -1}
TopNHeaps(node, rows) ==
    LET Offered(heaps, i) ==
            UNION {IF Cardinality(heap) < node.limit THEN {heap \cup {i}}
                   ELSE {IF KeyCompare(node.by, rows[i], rows[top]) = -1 THEN (heap \ {top}) \cup {i} ELSE heap :
                           top \in Largest(node.by, rows, heap)} : heap \in heaps}
    IN  FoldLeft(Offered, {{}}, [i \in DOMAIN rows |-> i])
TopNInit(node, rows) ==
    IF node.limit = 0 /\ rows # <<>> THEN {InitFails("panic")}
    ELSE {Stream(sorted, "eof") : sorted \in UNION {Sorted(node.by, rows, heap) : heap \in TopNHeaps(node, rows)}}
-----------------------------------------------------------------------------
(* Aggregation. *)

\* The state of one aggregate after one more value; a first NULL is stored and counted.
Absent == MinInt - 1         \* no entry yet
Accumulate(fn, acc, v) ==
    IF v = NULL /\ acc # Absent THEN acc
    ELSE IF acc \in {Absent, NULL} THEN IF fn = "count" THEN 1 ELSE v
    ELSE CASE fn = "count" -> acc + 1
           [] fn = "sum" -> Wrap(acc + v)
           [] fn = "min" -> IF v < acc THEN v ELSE acc
           [] fn = "max" -> IF v > acc THEN v ELSE acc

\* A group is known to the hash tables of the aggregates only.
AggregateInit(node, rows) ==
    LET keys == {EvalAll(node.group, rows[i]) : i \in DOMAIN rows}
        Of(key) == SelectSeq(rows, LAMBDA row : EvalAll(node.group, row) = key)
        Value(agg, key) == FoldLeft(LAMBDA acc, row : Accumulate(agg.fn, acc, Eval(agg.arg, row.v)), Absent, Of(key))
        Row(key) == Virtual(key \o [i \in DOMAIN node.aggs |-> Value(node.aggs[i], key)])
    IN  IF node.aggs = <<>> THEN {Stream(<<>>, "eof")}
        ELSE {Stream([i \in DOMAIN order |-> Row(order[i])], "eof") : order \in SetToSeqs(keys)}
-----------------------------------------------------------------------------
(* Joins. *)

Pairs(ls, rs) == FlattenSeq([i \in DOMAIN ls |-> [j \in DOMAIN rs |-> Merged(ls[i], rs[j])]])

\* Build on the left, probe from the right; a key with a NULL matches nothing.
HashJoinInit(node, ls, rs) ==
    LET Bucket(r) == SelectSeq(ls, LAMBDA l : /\ ~HasNull(EvalAll(node.lk, l))
                                              /\ EvalAll(node.lk, l) = EvalAll(node.rk, r))
    IN  Stream(FlattenSeq([j \in DOMAIN rs |-> Pairs(Bucket(rs[j]), <<rs[j]>>)]), "eof")

\* Two cursors over inputs taken to be sorted; runs of equal keys are multiplied.
RECURSIVE MergeRuns(_, _, _)
MergeRuns(node, ls, rs) ==
    IF ls = <<>> \/ rs = <<>> THEN <<>>
    ELSE LET lk == EvalAll(node.lk, Head(ls))
             rk == EvalAll(node.rk, Head(rs))
             RunOf(rows, keys, key) == LET other == {i \in DOMAIN rows : EvalAll(keys, rows[i]) # key}
                                       IN  IF other = {} THEN Len(rows) ELSE Min(other) - 1
             nl == RunOf(ls, node.lk, lk)
             nr == RunOf(rs, node.rk, rk)
         IN  IF HasNull(lk) THEN MergeRuns(node, Tail(ls), rs)
             ELSE IF HasNull(rk) THEN MergeRuns(node, ls, Tail(rs))
             ELSE CASE CompareRows(lk, rk) = -1 -> MergeRuns(node, Tail(ls), rs)
                    [] CompareRows(lk, rk) = 1 -> MergeRuns(node, ls, Tail(rs))
                    [] OTHER -> Pairs(SubSeq(ls, 1, nl), SubSeq(rs, 1, nr))
                                \o MergeRuns(node, SubSeq(ls, nl + 1, Len(ls)), SubSeq(rs, nr + 1, Len(rs)))

\* A block of left rows against every right row, which is scanned anew for each block.
\* The left side is pulled only when the right side has a row.  When the last block was
\* full, the next one is empty and the first row of it is out of range.
BlockJoin(node, l, r) ==
    LET blocks == Len(l.rows) \div MaxTuplesInBlock
        Block(b) == SubSeq(l.rows, (b - 1) * MaxTuplesInBlock + 1, Min({b * MaxTuplesInBlock, Len(l.rows)}))
        Joined(b) == SelectSeq(FlattenSeq([j \in DOMAIN r.rows |-> Pairs(Block(b), <<r.rows[j]>>)]),
                               LAMBDA row : IsTrue(Eval(node.pred, row.v)))
        Upto(n) == FlattenSeq([b \in 1 .. n |-> Joined(b)])
    IN  IF r.rows = <<>> THEN Stream(<<>>, "eof")
        ELSE IF l.end = "panic" THEN IF blocks = 0 THEN InitFails("panic") ELSE Stream(Upto(blocks), "panic")
        ELSE IF l.rows # <<>> /\ Len(l.rows) % MaxTuplesInBlock = 0 THEN Stream(Upto(blocks), "panic")
        ELSE Stream(Upto(blocks + 1), "eof")
-----------------------------------------------------------------------------
(* The executor tree. *)

Children(node) == CASE node.p \in {"hashjoin", "mergejoin", "blockjoin"} -> {node.l, node.r}
                    [] node.p \in {"seqscan", "indexscan", "indexlookup", "values", "panic"} -> {}
                    [] OTHER -> {node.c}
RECURSIVE Nodes(_)
Nodes(node) == {node} \cup UNION {Nodes(c) : c \in Children(node)}

RECURSIVE Run(_, _)
Run(node, db) ==
    LET Piped(Next(_, _)) == {IF s.init = "ok" THEN Next(node, s) ELSE s : s \in Run(node.c, db)}
        Drained(Init(_, _)) == UNION {IF s.init = "ok" THEN Init(node, s.rows) ELSE {s} :
                                        s \in {Drain(c) : c \in Run(node.c, db)}}
        Joined(Init(_, _, _)) ==
            {IF l.init # "ok" THEN l ELSE IF r.init # "ok" THEN r
             ELSE IF "panic" \in {l.end, r.end} THEN InitFails("panic")
             ELSE Init(node, l.rows, r.rows) : l \in Run(node.l, db), r \in Run(node.r, db)}
    IN  CASE node.p = "seqscan" -> {SeqScan(node, db)}
          [] node.p = "indexscan" -> {IndexScan(node, db)}
          [] node.p = "indexlookup" -> {IndexLookup(node, db)}
          [] node.p = "values" -> {ValuesScan(node)}
          [] node.p = "filter" -> Piped(FilterNext)
          [] node.p = "limit" -> Piped(LimitNext)
          [] node.p = "projection" -> Piped(ProjectionNext)
          [] node.p = "sort" -> Drained(SortInit)
          [] node.p = "topn" -> Drained(TopNInit)
          [] node.p = "aggregate" -> Drained(AggregateInit)
          [] node.p = "hashjoin" -> Joined(HashJoinInit)
          [] node.p = "mergejoin" -> Joined(LAMBDA n, ls, rs : Stream(MergeRuns(n, ls, rs), "eof"))
          [] node.p = "blockjoin" -> {IF l.init # "ok" THEN l ELSE IF r.init # "ok" THEN r ELSE BlockJoin(node, l, r) :
                                        l \in Run(node.l, db), r \in Run(node.r, db)}

(* Statements that change a table; nothing undoes a part that was done. *)

Outcome(status, rows, tables) == [status |-> status, rows |-> rows, tables |-> tables]
Ending(s) == IF s.init # "ok" THEN s.init ELSE IF s.end = "eof" THEN "ok" ELSE s.end

\* Rows go in as they come; an error of the child is taken for its end, and Error, which
\* has its test the wrong way round, does not report it.
InsertNext(node, s, db) ==
    Outcome(IF s.init = "ok" /\ s.end = "error" THEN "ok" ELSE Ending(s), <<<<Len(s.rows)>>>>,
            [db.tables EXCEPT ![node.t] = @ \o [i \in DOMAIN s.rows |-> s.rows[i].v]])

\* The rows are collected before the first of them is changed.
DeleteNext(node, s, db) ==
    LET gone == {s.rows[i].rid : i \in DOMAIN s.rows}
        left == SelectSeq(TableRows(db, node.t), LAMBDA row : row.rid \notin gone)
    IN  IF Ending(s) = "panic" THEN Outcome("panic", <<>>, db.tables)
        ELSE Outcome(Ending(s), <<<<Len(s.rows)>>>>,
                     [db.tables EXCEPT ![node.t] = [i \in DOMAIN left |-> left[i].v]])

UpdateNext(node, s, db) ==
    LET gone == {s.rows[i].rid : i \in DOMAIN s.rows}
    IN  IF Ending(s) = "panic" THEN Outcome("panic", <<>>, db.tables)
        ELSE Outcome(Ending(s), <<<<Len(s.rows)>>>>,
                     [db.tables EXCEPT ![node.t] = [i \in DOMAIN @ |->
                        IF i \in gone THEN EvalAll(node.exprs, TableRows(db, node.t)[i]) ELSE @[i]]])

\* executeStatement: the tree is built, which panics on a node without an executor, and
\* drained; only the error of the root is looked at.
ExecuteStatement(node, db) ==
    IF \E n \in Nodes(node) : n.p \in {"panic", "materialize"} THEN {Outcome("panic", <<>>, db.tables)}
    ELSE CASE node.p = "insert" -> {InsertNext(node, s, db) : s \in Run(node.c, db)}
           [] node.p = "delete" -> {DeleteNext(node, s, db) : s \in Run(node.c, db)}
           [] node.p = "update" -> {UpdateNext(node, s, db) : s \in Run(node.c, db)}
           [] OTHER -> {Outcome(Ending(s), [i \in DOMAIN s.rows |-> s.rows[i].v], db.tables) : s \in Run(node, db)}
=============================================================================
