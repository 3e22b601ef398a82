---------------------------- MODULE QueryEngine ----------------------------
(***************************************************************************)
(* A statement on its way through the shell (main.go): SQLPlanner.Plan     *)
(* binds it to a logical plan, optimizes that and builds a physical plan,  *)
(* and executeStatement runs it, outside any transaction.                  *)
(*                                                                         *)
(* What SQL says about the logical plan is defined here on its own, and    *)
(* the properties compare the optimizer and the answer with it.            *)
(***************************************************************************)
EXTENDS Executors

CONSTANTS Statements,       \* the statements that may be submitted
          Databases,        \* the databases they may meet
          IndexSets         \* the indexes a database may have

VARIABLES phase,            \* "idle", then the stage the statement has reached
          stmt, db, indexes,
          logical,          \* the plan as bound
          plan,             \* the plan as optimized
          physical,
          answer            \* the outcome

vars == <<phase, stmt, db, indexes, logical, plan, physical, answer>>

Init ==
    /\ phase = "idle"
    /\ db \in Databases /\ indexes \in IndexSets
    /\ stmt = <<>> /\ logical = <<>> /\ plan = <<>> /\ physical = <<>> /\ answer = <<>>

Submit(s) ==
    /\ phase = "idle"
    /\ stmt' = s /\ phase' = "submitted"
    /\ UNCHANGED <<db, indexes, logical, plan, physical, answer>>

BindLogical ==
    /\ phase = "submitted"
    /\ logical' = LogicalPlan(stmt)
    /\ IF logical' = Refused
       THEN phase' = "done" /\ answer' = Outcome("refused", <<>>, db.tables)
       ELSE phase' = "bound" /\ UNCHANGED answer
    /\ UNCHANGED <<stmt, db, indexes, plan, physical>>

OptimizePlan ==
    /\ phase = "bound"
    /\ plan' = Optimize(logical) /\ phase' = "optimized"
    /\ UNCHANGED <<stmt, db, indexes, logical, physical, answer>>

BuildPhysical ==
    /\ phase = "optimized"
    /\ physical' = Build(plan, indexes) /\ phase' = "built"
    /\ UNCHANGED <<stmt, db, indexes, logical, plan, answer>>

Execute ==
    /\ phase = "built"
    /\ answer' \in ExecuteStatement(physical, db)
    /\ db' = [db EXCEPT !.tables = answer'.tables]
    /\ phase' = "done"
    /\ UNCHANGED <<stmt, indexes, logical, plan, physical>>

Next == (\E s \in Statements : Submit(s)) \/ BindLogical \/ OptimizePlan \/ BuildPhysical \/ Execute

Spec == Init /\ [][Next]_vars
-----------------------------------------------------------------------------
(* The meaning of a logical plan: the set of the row sequences SQL allows. *)

SameBag(x, y) == \A v \in Range(x) \cup Range(y) : Cardinality({i \in DOMAIN x : x[i] = v})
                                                  = Cardinality({i \in DOMAIN y : y[i] = v})
EvalOver(node, e, row) == Eval(BindExpr(e, OutputSchema(node)), row)
Satisfies(node, preds, row) == \A i \in DOMAIN preds : IsTrue(EvalOver(node, preds[i], row))
Nulls(node) == [i \in DOMAIN OutputSchema(node) |-> NULL]

\* An outer join adds the rows without a partner, padded with NULL.
JoinMeaning(node, ls, rs) ==
    LET Fits(l, r) == Satisfies(node, node.on, l \o r)
        LonelyLeft == SelectSeq(ls, LAMBDA l : ~\E j \in DOMAIN rs : Fits(l, rs[j]))
        LonelyRight == SelectSeq(rs, LAMBDA r : ~\E i \in DOMAIN ls : Fits(ls[i], r))
        matched == FlattenSeq([i \in DOMAIN ls |-> LET fit == SelectSeq(rs, LAMBDA r : Fits(ls[i], r))
                                                   IN  [j \in DOMAIN fit |-> ls[i] \o fit[j]]])
    IN  matched
        \o (IF node.type = "left" THEN [i \in DOMAIN LonelyLeft |-> LonelyLeft[i] \o Nulls(node.r)] ELSE <<>>)
        \o (IF node.type = "right" THEN [i \in DOMAIN LonelyRight |-> Nulls(node.l) \o LonelyRight[i]] ELSE <<>>)

\* Aggregates skip NULL; without GROUP BY there is exactly one row.
AggregateMeaning(node, rows) ==
    LET Key(row) == [i \in DOMAIN node.group |-> EvalOver(node.c, node.group[i], row)]
        keys == {Key(rows[i]) : i \in DOMAIN rows} \cup IF node.group = <<>> THEN {<<>>} ELSE {}
        Value(agg, key) ==
            LET known == {i \in DOMAIN rows : Key(rows[i]) = key /\ EvalOver(node.c, agg.arg, rows[i]) # NULL}
                V(i) == EvalOver(node.c, agg.arg, rows[i])
            IN  CASE agg.fn = "count" -> Cardinality(known)
                  [] known = {} -> NULL
                  [] agg.fn = "sum" -> MapThenSumSet(V, known)
                  [] agg.fn = "min" -> Min({V(i) : i \in known})
                  [] agg.fn = "max" -> Max({V(i) : i \in known})
    IN  [i \in 1 .. Cardinality(keys) |->
            LET key == SetToSeq(keys)[i] IN key \o [a \in DOMAIN node.aggs |-> Value(node.aggs[a], key)]]

\* None of the rows of an ORDER BY comes after one it should precede.
InOrder(node, rows) ==
    \A i, j \in DOMAIN rows : i < j =>
        LET K(row, k) == EvalOver(node.c, node.by[k].e, row)
            differ == {k \in DOMAIN node.by : K(rows[i], k) # K(rows[j], k)}
        IN  differ = {} \/ LET k == Min(differ)
                           IN  IF node.by[k].dir = "desc" THEN K(rows[i], k) > K(rows[j], k)
                               ELSE K(rows[i], k) < K(rows[j], k)
Permuted(rows) == {[i \in DOMAIN p |-> rows[p[i]]] : p \in SetToSeqs(DOMAIN rows)}

RECURSIVE Meaning(_, _)
Meaning(node, tables) ==
    LET Cut(s) == LET first == node.offset + 1
                      last == Min({node.offset + node.limit, Len(s)})
                  IN  SubSeq(s, first, last)
    IN  CASE node.n = "scan" -> {SelectSeq(tables[node.t], LAMBDA row : Satisfies(node, node.preds, row))}
          [] node.n = "values" -> {[i \in DOMAIN node.rows |-> [k \in DOMAIN node.rows[i] |-> node.rows[i][k].v]]}
          [] node.n = "join" -> {JoinMeaning(node, ls, rs) :
                                    ls \in Meaning(node.l, tables), rs \in Meaning(node.r, tables)}
          [] node.n = "filter" -> {SelectSeq(s, LAMBDA row : Satisfies(node.c, <<node.pred>>, row)) :
                                    s \in Meaning(node.c, tables)}
          [] node.n = "aggregation" -> {AggregateMeaning(node, s) : s \in Meaning(node.c, tables)}
          [] node.n = "sort" -> UNION {{p \in Permuted(s) : InOrder(node, p)} : s \in Meaning(node.c, tables)}
          [] node.n = "limit" -> {Cut(p) : p \in IF node.c.n = "sort" THEN Meaning(node.c, tables)
                                                 ELSE UNION {Permuted(s) : s \in Meaning(node.c, tables)}}
          [] node.n = "projection" ->
                {[i \in DOMAIN s |-> [k \in DOMAIN node.exprs |-> EvalOver(node.c, node.exprs[k], s[i])]] :
                    s \in Meaning(node.c, tables)}

\* What a statement must leave behind: its rows, or its table changed by exactly them.
Ordered(node) == \E n \in {node.c} \cup (IF node.c.n = "limit" THEN {node.c.c} ELSE {}) : n.n = "sort"
Correct(node, out, tables) ==
    LET Changed(s, gone, come) == /\ out.rows = <<<<Len(s)>>>>
                                  /\ SameBag(out.tables[node.t] \o gone, tables[node.t] \o come)
        NewRow(row) == [i \in DOMAIN row |-> EvalOver(node.c, node.exprs[i], row)]
    IN  CASE node.n = "insert" -> \E s \in Meaning(node.c, tables) : Changed(s, <<>>, s)
          [] node.n = "delete" -> \E s \in Meaning(node.c, tables) : Changed(s, s, <<>>)
          [] node.n = "update" -> \E s \in Meaning(node.c, tables) : Changed(s, s, [i \in DOMAIN s |-> NewRow(s[i])])
          [] node.n = "projection" -> \E s \in Meaning(node, tables) :
                                        IF Ordered(node) THEN out.rows = s ELSE SameBag(out.rows, s)
-----------------------------------------------------------------------------
(* The cases in which the running code departs from SQL, each named for its cause. *)

RECURSIVE LogicalNodes(_)
LogicalNodes(node) ==
    {node} \cup (IF node.n = "join" THEN LogicalNodes(node.l) \cup LogicalNodes(node.r)
                 ELSE IF node.n \in Unary THEN LogicalNodes(node.c) ELSE {})
Of(kinds) == {n \in Nodes(physical) : n.p \in kinds}
Inputs(node) == {s.rows : s \in Run(node, db)}

\* A join over a filtered or joined right side has no executor, and Increment has no
\* value above the largest.
NoExecutor == Of({"materialize", "panic"}) # {}
\* The physical joins are inner joins.
OuterJoinLost == \E n \in LogicalNodes(plan) : n.n = "join" /\ n.type \in {"left", "right"}
\* A filter panics on a condition that is NULL.
NullCondition ==
    \E n \in Of({"filter"}) : \E rows \in Inputs(n.c) : \E i \in DOMAIN rows : Eval(n.pred, rows[i].v) = NULL
\* Of an ON condition with an equality of columns the other conjuncts are dropped.
ConjunctLost ==
    \E n \in LogicalNodes(plan) : n.n = "join" /\ \E i \in DOMAIN n.on :
        LET Equi(e) == EquiPairs(e, OutputSchema(n.l), OutputSchema(n.r))
            parts == SplitPredicate(n.on[i])
        IN  Equi(n.on[i]) # <<>> /\ \E k \in DOMAIN parts : Equi(parts[k]) = <<>>
\* The index scans below a merge join need not be in the order of the join's keys.
MergeUnsorted ==
    \E n \in Of({"mergejoin"}) :
        LET Unsorted(rows, keys) == \E i, j \in DOMAIN rows :
                                        i < j /\ CompareRows(EvalAll(keys, rows[i]), EvalAll(keys, rows[j])) = 1
        IN  \/ \E rows \in Inputs(n.l) : Unsorted(rows, n.lk)
            \/ \E rows \in Inputs(n.r) : Unsorted(rows, n.rk)
\* A last block that is full is followed by an empty one.
FullLastBlock ==
    \E n \in Of({"blockjoin"}) : \E ls \in Inputs(n.l), rs \in Inputs(n.r) :
        ls # <<>> /\ Len(ls) % MaxTuplesInBlock = 0 /\ rs # <<>>
\* A group whose first value is NULL counts it; no group, no row; no aggregate, no row.
AggregateGap ==
    \E n \in Of({"aggregate"}) : \E rows \in Inputs(n.c) :
        \/ n.aggs = <<>> \/ (n.group = <<>> /\ rows = <<>>)
        \/ \E i \in DOMAIN rows, a \in DOMAIN n.aggs :
            /\ n.aggs[a].fn = "count" /\ Eval(n.aggs[a].arg, rows[i].v) = NULL
            /\ \A j \in 1 .. i - 1 : EvalAll(n.group, rows[j]) # EvalAll(n.group, rows[i])
LimitGap == \/ \E n \in Of({"topn"}) : n.limit = 0
            \/ \E n \in LogicalNodes(plan) : n.n = "limit" /\ n.offset > 0
RaggedValues == \E n \in Of({"values"}) : \E i \in DOMAIN n.rows : Len(n.rows[i]) # Len(n.rows[1])

\* The index scan is not the rows of the condition: the condition has alternatives, or the
\* range is of a negation, of several columns or of a hash index, or goes backward over
\* NULL keys or from a key with several entries.
IndexMisfit ==
    \E n \in LogicalNodes(plan) : n.n = "scan" /\
        LET idxs == indexes[n.t]
            idx == idxs[BestIndex(n, idxs, TRUE)]
            m == AnalyzeIndex(idx, n)
            start == Adjusted(m).vals[1]
            keys == [i \in DOMAIN db.tables[n.t] |-> db.tables[n.t][i][ColumnOf(n.t, idx.cols[1])]]
        IN  /\ IndexLookupMatches(n, idxs) \/ IndexScanMatches(n, idxs)
            /\ \/ Len(DNFTerms(n.preds)) > 1
               \/ ~IndexLookupMatches(n, idxs) /\
                    \/ idx.type = "hash" \/ Len(idx.cols) > 1 \/ m.used = {} \/ m.op = "!="
                    \/ /\ m.op \in {"<", "<="}
                       /\ NULL \in Range(keys) \/ Cardinality({i \in DOMAIN keys : keys[i] = start}) > 1

\* A scan fails, and an operator above it takes that for the end of the rows.
Fails == \E n \in Of({"seqscan"}) : db.fault.t = n.t /\ db.fault.k < Len(db.tables[n.t])
FailureLost ==
    Fails /\ Of({"sort", "topn", "aggregate", "hashjoin", "mergejoin", "blockjoin", "insert"}) # {}

Departs ==
    \/ NoExecutor \/ OuterJoinLost \/ ConjunctLost \/ LimitGap \/ RaggedValues \/ IndexMisfit
    \/ NullCondition \/ MergeUnsorted \/ FullLastBlock \/ AggregateGap \/ FailureLost
-----------------------------------------------------------------------------
(* Properties *)

\* Pushing predicates below a join, into its condition or into a scan keeps the rows of
\* the plan, for every type of join (PredicatePushDownRule).
PushdownPreserves ==
    phase = "optimized" =>
        LET before == Meaning(IF logical.n \in {"insert", "delete", "update"} THEN logical.c ELSE logical, db.tables)
            after == Meaning(IF plan.n \in {"insert", "delete", "update"} THEN plan.c ELSE plan, db.tables)
        IN  /\ \A x \in before : \E y \in after : SameBag(x, y)
            /\ \A y \in after : \E x \in before : SameBag(x, y)

\* A statement that reports success has given exactly the rows, or left exactly the
\* table, that SQL says of the plan as it was bound, whichever indexes and joins the
\* planner chose and however the executors broke ties; and it reports success unless a
\* scan failed.  Outside the named cases in which the running code departs from SQL.
AnswerExact ==
    [][phase = "built" /\ phase' = "done" /\ ~Departs
        => /\ answer'.status = "ok" => Correct(logical, answer', db.tables)
           /\ answer'.status = "ok" \/ Fails]_vars
=============================================================================
