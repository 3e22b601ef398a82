------------------------------ MODULE Planner ------------------------------
(***************************************************************************)
(* The planner (planner/): a parsed statement becomes a logical plan       *)
(* (logical_plan_builder.go), the optimizer pushes predicates down         *)
(* (optimizer.go, predicate_pushdown.go), and the physical plan builder    *)
(* picks scans and joins (scan_rules.go, join_rules.go,                    *)
(* physical_plan_rule.go), with the rules main.go registers.               *)
(*                                                                         *)
(* A statement is the record the parser would hand over; optional clauses  *)
(* are sequences.  Every expression is over integers, so the binder's type *)
(* checks are left out, and subqueries, which no registered rule builds.   *)
(***************************************************************************)
EXTENDS Expressions, FiniteSets, TLC

CONSTANTS Tables,           \* table names
          TableColumns      \* the column names of a table, in order

TableSchema(t) == [i \in DOMAIN TableColumns[t] |-> <<t, TableColumns[t][i]>>]
Numbered(kind, n) == [i \in 1 .. n |-> <<kind, ToString(i)>>]
-----------------------------------------------------------------------------
(* Logical plan nodes. *)

Refused == [n |-> "refused"]
Scan(t, upd) == [n |-> "scan", t |-> t, preds |-> <<>>, upd |-> upd]
Filter(c, pred) == [n |-> "filter", c |-> c, pred |-> pred]
Join(l, r, on, type) == [n |-> "join", l |-> l, r |-> r, on |-> on, type |-> type]
Aggregation(c, group, aggs) == [n |-> "aggregation", c |-> c, group |-> group, aggs |-> aggs]
Sort(c, by) == [n |-> "sort", c |-> c, by |-> by]
Limit(c, limit, offset) == [n |-> "limit", c |-> c, limit |-> limit, offset |-> offset]
Projection(c, exprs) == [n |-> "projection", c |-> c, exprs |-> exprs]
Values(rows) == [n |-> "values", rows |-> rows]
Insert(t, c) == [n |-> "insert", t |-> t, c |-> c]
Delete(t, c) == [n |-> "delete", t |-> t, c |-> c]
Update(t, c, exprs) == [n |-> "update", t |-> t, c |-> c, exprs |-> exprs]
Unary == {"filter", "aggregation", "sort", "limit", "projection", "insert", "delete", "update"}

\* The columns a node produces; an aggregate or a computed column has no table.
RECURSIVE OutputSchema(_)
OutputSchema(node) ==
    CASE node.n = "scan" -> TableSchema(node.t)
      [] node.n = "join" -> OutputSchema(node.l) \o OutputSchema(node.r)
      [] node.n = "aggregation" -> [i \in DOMAIN node.group |-> node.group[i].c]
                                   \o [i \in DOMAIN node.aggs |-> <<"agg", node.aggs[i].name>>]
      [] node.n = "projection" -> [i \in DOMAIN node.exprs |->
                                    IF node.exprs[i].op = "column" THEN node.exprs[i].c
                                    ELSE <<"computed", ToString(i)>>]
      [] node.n = "values" -> Numbered("values", Len(Head(node.rows)))
      [] OTHER -> OutputSchema(node.c)
-----------------------------------------------------------------------------
(* LogicalPlanBuilder: names are resolved in a scope, a sequence of columns. *)

\* bindColumn; in the scope of an aggregation a qualifier is not looked at.
Matches(c, scope) ==
    LET aggregated == \E i \in DOMAIN scope : scope[i][1] = "agg"
    IN  {i \in DOMAIN scope : scope[i][2] = c[2] /\ (c[1] = "" \/ aggregated \/ scope[i][1] = c[1])}
Resolves(e, scope) == \A c \in Columns(e) : Cardinality(Matches(c, scope)) = 1
AllResolve(es, scope) == \A i \in DOMAIN es : Resolves(es[i], scope)
Resolve(e, scope) == Subst(e, [c \in Columns(e) |-> Column(scope[CHOOSE i \in Matches(c, scope) : TRUE])])
ResolveAll(es, scope) == [i \in DOMAIN es |-> Resolve(es[i], scope)]

\* planFrom: one table, an explicit join, or a list, which is a cross join.
PlanFrom(q, upd) ==
    IF Len(q.from) = 1 THEN Scan(q.from[1], upd)
    ELSE Join(Scan(q.from[1], upd), Scan(q.from[2], upd),
              ResolveAll(q.on, TableSchema(q.from[1]) \o TableSchema(q.from[2])), q.type)
FromScope(q) == FlattenSeq([i \in DOMAIN q.from |-> TableSchema(q.from[i])])

PlanWhere(q, plan, scope) ==
    IF q.where = <<>> THEN plan ELSE Filter(plan, Resolve(q.where[1], scope))

\* planAggregation, with the HAVING clause above it.
Aggregated(q) == q.group # <<>> \/ q.aggs # <<>>
PlanAggregation(q, plan, scope) ==
    LET agg == Aggregation(plan, ResolveAll(q.group, scope),
                           [i \in DOMAIN q.aggs |-> [q.aggs[i] EXCEPT !.arg = Resolve(@, scope)]])
    IN  IF ~Aggregated(q) THEN plan
        ELSE IF q.having = <<>> THEN agg
        ELSE Filter(agg, Resolve(q.having[1], OutputSchema(agg)))
AggregationScope(q, scope) ==
    IF Aggregated(q) THEN [i \in DOMAIN q.group |-> Resolve(q.group[i], scope).c]
                          \o [i \in DOMAIN q.aggs |-> <<"agg", q.aggs[i].name>>]
    ELSE scope

PlanOrder(q, plan, scope) ==
    IF q.order = <<>> THEN plan
    ELSE Sort(plan, [i \in DOMAIN q.order |-> [q.order[i] EXCEPT !.e = Resolve(@, scope)]])
PlanLimit(q, plan) == IF q.limit = <<>> THEN plan ELSE Limit(plan, q.limit[1], q.limit[2])

PlanSelect(q) ==
    LET scope == FromScope(q)
        after == AggregationScope(q, scope)
        orders == [i \in DOMAIN q.order |-> q.order[i].e]
        plan == PlanAggregation(q, PlanWhere(q, PlanFrom(q, FALSE), scope), scope)
        exprs == IF q.cols = <<>> THEN [i \in DOMAIN after |-> Column(after[i])] ELSE ResolveAll(q.cols, after)
    IN  IF /\ AllResolve(q.on \o q.where \o q.group, scope)
           /\ AllResolve([i \in DOMAIN q.aggs |-> q.aggs[i].arg], scope)
           /\ AllResolve(q.having \o orders \o q.cols, after)
        THEN Projection(PlanLimit(q, PlanOrder(q, plan, after)), exprs)
        ELSE Refused

\* planInsert: the source, rearranged to the table's columns unless it fits exactly;
\* a column without a source is NULL.
PlanInsert(q) ==
    LET target == IF q.cols = <<>> THEN TableColumns[q.into] ELSE q.cols
        source == IF q.rows # <<>> THEN Values(q.rows) ELSE PlanSelect(q.select)
        SourceOf(name) == LET is == {i \in DOMAIN target : target[i] = name}
                          IN  IF is = {} THEN Const(NULL)
                              ELSE Column(OutputSchema(source)[CHOOSE i \in is : \A j \in is : j <= i])
    IN  IF source = Refused \/ ~(Range(target) \subseteq Range(TableColumns[q.into])) THEN Refused
        ELSE IF Len(target) # Len(OutputSchema(source)) THEN Refused
        ELSE IF target = TableColumns[q.into] THEN Insert(q.into, source)
        ELSE Insert(q.into, Projection(source, [i \in DOMAIN TableColumns[q.into] |->
                                                    SourceOf(TableColumns[q.into][i])]))

\* planDelete and planUpdate: of one base table, scanned for update.
PlanDelete(q) ==
    LET scope == FromScope(q)
    IN  IF Len(q.from) # 1 \/ ~AllResolve(q.where \o [i \in DOMAIN q.order |-> q.order[i].e], scope) THEN Refused
        ELSE Delete(q.from[1], PlanLimit(q, PlanOrder(q, PlanWhere(q, PlanFrom(q, TRUE), scope), scope)))

\* q.set maps a column name to an expression; UpdateRule keeps the other columns.
PlanUpdate(q) ==
    LET scope == FromScope(q)
        NewValue(i) == LET name == TableColumns[q.from[1]][i]
                       IN  IF name \in DOMAIN q.set THEN Resolve(q.set[name], scope) ELSE Column(scope[i])
    IN  IF \/ Len(q.from) # 1
           \/ ~AllResolve(q.where, scope) \/ \E name \in DOMAIN q.set : ~Resolves(q.set[name], scope)
        THEN Refused
        ELSE Update(q.from[1], PlanWhere(q, PlanFrom(q, TRUE), scope), [i \in DOMAIN scope |-> NewValue(i)])

LogicalPlan(q) == CASE q.stmt = "select" -> PlanSelect(q)
                    [] q.stmt = "insert" -> PlanInsert(q)
                    [] q.stmt = "delete" -> PlanDelete(q)
                    [] q.stmt = "update" -> PlanUpdate(q)
-----------------------------------------------------------------------------
(* PredicatePushDownRule, the only logical rule that is registered. *)

\* The parts of a predicate that pushThroughJoin hands to a side, to the join, or keeps.
PushRight_PastLeftJoin(join, pred) ==
    join.type \in {"inner", "cross", "right", "left"} /\ Covers(OutputSchema(join.r), pred)
    /\ ~Covers(OutputSchema(join.l), pred)
PushLeft(join, pred) ==
    /\ join.type \in {"inner", "cross", "left"}
    /\ Covers(OutputSchema(join.l), pred) /\ ~Covers(OutputSchema(join.r), pred)
PushRight(join, pred) ==
    /\ join.type \in {"inner", "cross", "right"}
    /\ Covers(OutputSchema(join.r), pred) /\ ~Covers(OutputSchema(join.l), pred)
IntoCondition(join, pred) ==
    join.type \in {"inner", "cross"} /\ ~PushLeft(join, pred) /\ ~PushRight(join, pred)
Kept(join, pred) == ~PushLeft(join, pred) /\ ~PushRight(join, pred) /\ ~IntoCondition(join, pred)

PushThroughJoin(filter, join) ==
    LET preds == SplitPredicate(filter.pred)
        Part(Take(_, _)) == SelectSeq(preds, LAMBDA pred : Take(join, pred))
        Under(c, ps) == IF ps = <<>> THEN c ELSE Filter(c, MergePredicates(ps))
        conds == Part(IntoCondition)
        pushed == Join(Under(join.l, Part(PushLeft)), Under(join.r, Part(PushRight)), join.on \o conds,
                       IF join.type = "cross" /\ conds # <<>> THEN "inner" ELSE join.type)
    IN  Under(pushed, Part(Kept))

CanPushToScan(pred, scan) == \A c \in Columns(pred) : c[1] = scan.t

ApplyPushDown(filter) ==
    IF filter.c.n = "scan" /\ CanPushToScan(filter.pred, filter.c)
    THEN [filter.c EXCEPT !.preds = Append(@, filter.pred)]
    ELSE IF filter.c.n = "join" THEN PushThroughJoin(filter, filter.c)
    ELSE filter

\* OptimizeWithRule: the rule at a node, then at its children.
RECURSIVE Optimize(_)
Optimize(node) ==
    LET top == IF node.n = "filter" THEN ApplyPushDown(node) ELSE node
    IN  CASE top.n = "join" -> [top EXCEPT !.l = Optimize(@), !.r = Optimize(@)]
          [] top.n \in Unary -> [top EXCEPT !.c = Optimize(@)]
          [] OTHER -> top
-----------------------------------------------------------------------------
(* Index selection.  An index is a record of its type and its key columns. *)

FlipComparison(op) ==
    CASE op = ">" -> "<" [] op = ">=" -> "<=" [] op = "<" -> ">" [] op = "<=" -> ">=" [] OTHER -> op

\* isRangeScan: a column of t compared with a constant; a negation flips the comparison.
NoScan == [ok |-> FALSE]
RECURSIVE IsRangeScan(_, _)
IsRangeScan(e, t) ==
    IF e.op = "not"
    THEN LET s == IsRangeScan(e.e, t) IN IF s.ok THEN [s EXCEPT !.op = FlipComparison(@)] ELSE s
    ELSE IF e.l.op = "column" /\ e.r.op = "const" /\ e.l.c[1] = t
         THEN [ok |-> TRUE, col |-> e.l.c[2], val |-> e.r.v, op |-> e.op]
    ELSE IF e.r.op = "column" /\ e.l.op = "const" /\ e.r.c[1] = t
         THEN [ok |-> TRUE, col |-> e.r.c[2], val |-> e.l.v, op |-> FlipComparison(e.op)]
    ELSE NoScan
IsEqualityScan(e, t) == IF e.op = "=" THEN IsRangeScan(e, t) ELSE NoScan

\* toDNFTerms and negateToDNF: a disjunction of terms, each a sequence of comparisons
\* or of negated comparisons.
Distribute(ls, rs) == FlattenSeq([i \in DOMAIN ls |-> [j \in DOMAIN rs |-> ls[i] \o rs[j]]])
RECURSIVE ToDNFTerms(_, _)
ToDNFTerms(e, negated) ==
    CASE e.op = "not" -> ToDNFTerms(e.e, ~negated)
      [] e.op = (IF negated THEN "and" ELSE "or") -> ToDNFTerms(e.l, negated) \o ToDNFTerms(e.r, negated)
      [] e.op = (IF negated THEN "or" ELSE "and") -> Distribute(ToDNFTerms(e.l, negated), ToDNFTerms(e.r, negated))
      [] OTHER -> <<<<IF negated THEN Not(e) ELSE e>>>>
DNFTerms(preds) == IF preds = <<>> THEN <<>> ELSE ToDNFTerms(MergePredicates(preds), FALSE)

\* analyzeIndexTerm: the key columns from left to right, an equality before a range, and
\* nothing after a range.  Negations are built anew for each analysis, so one that was
\* matched is not recognised later.
NoMatch == [n |-> 0, vals |-> <<>>, used |-> {}, range |-> FALSE, op |-> "="]
RECURSIVE MatchFrom(_, _, _, _, _)
MatchFrom(idx, term, t, k, m) ==
    LET On(scan) == scan.ok /\ scan.col = idx.cols[k]
        First(is) == term[CHOOSE i \in is : \A j \in is : i <= j]
        Taken(e) == [m EXCEPT !.n = @ + 1, !.vals = Append(@, IsRangeScan(e, t).val),
                              !.used = IF e.op = "not" THEN @ ELSE @ \cup {e}]
        equal == {i \in DOMAIN term : On(IsEqualityScan(term[i], t))}
        ranged == {i \in DOMAIN term : On(IsRangeScan(term[i], t))}
    IN  IF k > Len(idx.cols) THEN m
        ELSE IF equal # {} THEN MatchFrom(idx, term, t, k + 1, Taken(First(equal)))
        ELSE IF ranged # {} THEN [Taken(First(ranged)) EXCEPT !.range = TRUE, !.op = IsRangeScan(First(ranged), t).op]
        ELSE NoMatch
AnalyzeIndexTerm(idx, term, t) == MatchFrom(idx, term, t, 1, NoMatch)

\* analyzeIndex: the first of the terms that match most columns.
AnalyzeIndex(idx, scan) ==
    FoldLeft(LAMBDA best, term : LET m == AnalyzeIndexTerm(idx, term, scan.t) IN IF m.n > best.n THEN m ELSE best,
             NoMatch, DNFTerms(scan.preds))

\* applyIndexResidualsAndProjection: nothing is left to check when one term is used up;
\* otherwise what is left of every term is.
ResidualOf(term, used) == SelectSeq(term, LAMBDA e : e \notin used)
Residuals(scan, m) ==
    LET left == [i \in DOMAIN DNFTerms(scan.preds) |-> ResidualOf(DNFTerms(scan.preds)[i], m.used)]
    IN  IF \E i \in DOMAIN left : left[i] = <<>> THEN <<>>
        ELSE [i \in DOMAIN left |-> MergePredicates(left[i])]
-----------------------------------------------------------------------------
(* Physical plan nodes and the rules that build them. *)

WrapInFilter(plan, preds, schema) ==
    IF preds = <<>> THEN plan ELSE [p |-> "filter", c |-> plan, pred |-> BindExpr(MergePredicates(preds), schema)]

\* Increment and Decrement of the last value assert that there is one.
Adjusted(m) == CASE m.op = "<" -> [m EXCEPT !.vals[m.n] = @ - 1]
                 [] m.op = ">" -> [m EXCEPT !.vals[m.n] = @ + 1]
                 [] OTHER -> m
InRange(m) == Last(m.vals) \in MinInt .. MaxInt

\* The first index among those with the most columns matched, by a range or by equalities.
Candidates(scan, idxs, range) ==
    {i \in DOMAIN idxs : LET m == AnalyzeIndex(idxs[i], scan) IN m.n > 0 /\ m.range = range}
BestIndex(scan, idxs, range) ==
    CHOOSE i \in Candidates(scan, idxs, range) : \A j \in Candidates(scan, idxs, range) :
        LET ni == AnalyzeIndex(idxs[i], scan).n
            nj == AnalyzeIndex(idxs[j], scan).n
        IN  nj < ni \/ (nj = ni /\ i <= j)

SeqScanRule(scan) == WrapInFilter([p |-> "seqscan", t |-> scan.t], scan.preds, TableSchema(scan.t))

IndexScanMatches(scan, idxs) ==
    \E i \in Candidates(scan, idxs, TRUE) : AnalyzeIndex(idxs[i], scan).n = Len(idxs[i].cols)
IndexScanRule(scan, idxs) ==
    LET i == BestIndex(scan, idxs, TRUE)
        m == AnalyzeIndex(idxs[i], scan)
        node == [p |-> "indexscan", t |-> scan.t, idx |-> idxs[i], key |-> Adjusted(m).vals,
                 dir |-> IF m.op \in {"<", "<="} THEN "backward" ELSE "forward"]
    IN  IF InRange(Adjusted(m)) THEN WrapInFilter(node, Residuals(scan, m), TableSchema(scan.t))
        ELSE [p |-> "panic"]

IndexLookupMatches(scan, idxs) == Candidates(scan, idxs, FALSE) # {}
IndexLookupRule(scan, idxs) ==
    LET i == BestIndex(scan, idxs, FALSE)
        m == AnalyzeIndex(idxs[i], scan)
    IN  WrapInFilter([p |-> "indexlookup", t |-> scan.t, idx |-> idxs[i], key |-> m.vals],
                     Residuals(scan, m), TableSchema(scan.t))

\* isEquiJoin: pairs of a left and a right key; of a conjunction, those of its parts.
RECURSIVE EquiPairs(_, _, _)
EquiPairs(e, ls, rs) ==
    CASE e.op = "=" -> IF Covers(ls, e.l) /\ Covers(rs, e.r) THEN <<<<e.l, e.r>>>>
                       ELSE IF Covers(ls, e.r) /\ Covers(rs, e.l) THEN <<<<e.r, e.l>>>> ELSE <<>>
      [] e.op = "and" -> EquiPairs(e.l, ls, rs) \o EquiPairs(e.r, ls, rs)
      [] OTHER -> <<>>
GetEquiJoinKeys(join) ==
    FlattenSeq([i \in DOMAIN join.on |-> EquiPairs(join.on[i], OutputSchema(join.l), OutputSchema(join.r))])
GetNonEquiConditions(join) ==
    SelectSeq(join.on, LAMBDA e : EquiPairs(e, OutputSchema(join.l), OutputSchema(join.r)) = <<>>)

\* SortMergeJoinRule and HashJoinRule; the type of the join is not passed on.
KeyJoin(kind, join, l, r) ==
    LET keys == GetEquiJoinKeys(join)
        node == [p |-> kind, l |-> l, r |-> r,
                 lk |-> [i \in DOMAIN keys |-> BindExpr(keys[i][1], OutputSchema(join.l))],
                 rk |-> [i \in DOMAIN keys |-> BindExpr(keys[i][2], OutputSchema(join.r))]]
    IN  WrapInFilter(node, GetNonEquiConditions(join), OutputSchema(join))

BlockNestedLoopJoinRule(join, l, r) ==
    [p |-> "blockjoin", l |-> l,
     r |-> IF r.p \in {"seqscan", "indexscan", "indexlookup"} THEN r ELSE [p |-> "materialize", c |-> r],
     pred |-> IF join.on = <<>> THEN Const(True) ELSE BindExpr(MergePredicates(join.on), OutputSchema(join))]

JoinRule(join, l, r) ==
    IF GetEquiJoinKeys(join) = <<>> THEN BlockNestedLoopJoinRule(join, l, r)
    ELSE IF l.p = "indexscan" /\ r.p = "indexscan" THEN KeyJoin("mergejoin", join, l, r)
    ELSE KeyJoin("hashjoin", join, l, r)

\* LimitRule: a limit over a sort becomes a top-n; the offset is dropped.
LimitRule(node, c) ==
    IF c.p = "sort" THEN [c EXCEPT !.p = "topn", !.limit = node.limit]
    ELSE [p |-> "limit", c |-> c, limit |-> node.limit]

\* ProjectionRule: over a projection, the expressions are fused.
ProjectionRule(node, c) ==
    LET schema == OutputSchema(node.c)
        At(col) == CHOOSE i \in DOMAIN schema : schema[i] = col /\ \A j \in 1 .. i - 1 : schema[j] # col
    IN  IF c.p = "projection"
        THEN [c EXCEPT !.exprs = [i \in DOMAIN node.exprs |->
                Subst(node.exprs[i], [col \in Columns(node.exprs[i]) |-> c.exprs[At(col)]])]]
        ELSE [p |-> "projection", c |-> c, exprs |-> BindAll(node.exprs, schema)]

\* Build: the children first, then of the rules that match the one of highest priority.
RECURSIVE Build(_, _)
Build(node, indexes) ==
    CASE node.n = "scan" -> IF IndexLookupMatches(node, indexes[node.t]) THEN IndexLookupRule(node, indexes[node.t])
                            ELSE IF IndexScanMatches(node, indexes[node.t]) THEN IndexScanRule(node, indexes[node.t])
                            ELSE SeqScanRule(node)
      [] node.n = "join" -> JoinRule(node, Build(node.l, indexes), Build(node.r, indexes))
      [] node.n = "values" -> [p |-> "values", rows |-> node.rows]
      [] node.n \in Unary ->
            LET c == Build(node.c, indexes)
                schema == OutputSchema(node.c)
            IN  CASE node.n = "filter" -> [p |-> "filter", c |-> c, pred |-> BindExpr(node.pred, schema)]
                  [] node.n = "aggregation" ->
                        [p |-> "aggregate", c |-> c, group |-> BindAll(node.group, schema),
                         aggs |-> [i \in DOMAIN node.aggs |-> [node.aggs[i] EXCEPT !.arg = BindExpr(@, schema)]]]
                  [] node.n = "sort" ->
                        [p |-> "sort", c |-> c, limit |-> 0,
                         by |-> [i \in DOMAIN node.by |-> [node.by[i] EXCEPT !.e = BindExpr(@, schema)]]]
                  [] node.n = "limit" -> LimitRule(node, c)
                  [] node.n = "projection" -> ProjectionRule(node, c)
                  [] node.n = "update" -> [p |-> "update", t |-> node.t, c |-> c, exprs |-> BindAll(node.exprs, schema)]
                  [] OTHER -> [p |-> node.n, t |-> node.t, c |-> c]
=============================================================================
