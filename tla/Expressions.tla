---------------------------- MODULE Expressions ----------------------------
(***************************************************************************)
(* Values, columns and expressions of a query (planner/expr.go on the      *)
(* values of common/types.go), shared by the planner and the executors.    *)
(*                                                                         *)
(* A value is an integer of the type's width; the smallest one is how NULL *)
(* is stored.  An expression is a record tree.  A comparison carries an    *)
(* id, which stands for the identity of its object: the planner looks      *)
(* predicates up by pointer.  Strings, LIKE and IS NULL (which the binder  *)
(* refuses) are left out.                                                  *)
(***************************************************************************)
EXTENDS Integers, Sequences, SequencesExt

CONSTANTS MinInt, MaxInt    \* the range of an integer value

ASSUME WidthAssumption == MinInt \in Int /\ MaxInt \in Int /\ MinInt < 0 /\ 1 < MaxInt

NULL == MinInt
True == 1
False == 0
Truth(b) == IF b THEN True ELSE False

\* Integer arithmetic wraps around.
Wrap(n) == MinInt + ((n - MinInt) % (MaxInt - MinInt + 1))

\* Compare: -1, 0 or 1; NULL is below every other value.
Compare(v, w) == IF v < w THEN -1 ELSE IF v > w THEN 1 ELSE 0

\* Rows and keys are compared column by column, a prefix is smaller.
CompareRows(x, y) ==
    LET differ == {i \in 1 .. Len(x) : i <= Len(y) /\ x[i] # y[i]}
    IN  IF differ # {} THEN LET i == CHOOSE i \in differ : \A j \in differ : i <= j
                            IN  Compare(x[i], y[i])
        ELSE Compare(Len(x), Len(y))
HasNull(row) == \E i \in DOMAIN row : row[i] = NULL
-----------------------------------------------------------------------------
(* Construction.  A column is a pair of a table alias and a name. *)

Column(c) == [op |-> "column", c |-> c]             \* LogicalColumn
Field(i) == [op |-> "field", i |-> i]               \* BoundValueExpr
Const(v) == [op |-> "const", v |-> v]
Comparisons == {"=", "!=", ">", "<", ">=", "<="}
Comparison(id, op, l, r) == [op |-> op, id |-> id, l |-> l, r |-> r]
And(l, r) == [op |-> "and", l |-> l, r |-> r]
Or(l, r) == [op |-> "or", l |-> l, r |-> r]
Not(e) == [op |-> "not", e |-> e]
Add(l, r) == [op |-> "+", l |-> l, r |-> r]
Binary == Comparisons \cup {"and", "or", "+"}

Holds(op, cmp) ==
    CASE op = "=" -> cmp = 0    [] op = "!=" -> cmp # 0
      [] op = ">" -> cmp = 1    [] op = "<" -> cmp = -1
      [] op = ">=" -> cmp # -1  [] op = "<=" -> cmp # 1

IsTrue(v) == v \notin {NULL, False}

\* Eval, with the three-valued logic of SQL.
RECURSIVE Eval(_, _)
Eval(e, row) ==
    IF e.op = "field" THEN row[e.i]
    ELSE IF e.op = "const" THEN e.v
    ELSE IF e.op = "not" THEN LET v == Eval(e.e, row) IN IF v = NULL THEN NULL ELSE Truth(~IsTrue(v))
    ELSE LET v == Eval(e.l, row)
             w == Eval(e.r, row)
         IN  CASE e.op = "and" -> IF IsTrue(v) /\ IsTrue(w) THEN True
                                  ELSE IF False \in {v, w} THEN False ELSE NULL
               [] e.op = "or" -> IF IsTrue(v) \/ IsTrue(w) THEN True
                                 ELSE IF NULL \in {v, w} THEN NULL ELSE False
               [] e.op = "+" -> IF NULL \in {v, w} THEN NULL ELSE Wrap(v + w)
               [] OTHER -> IF NULL \in {v, w} THEN NULL ELSE Truth(Holds(e.op, Compare(v, w)))

\* GetReferencedColumns
RECURSIVE Columns(_)
Columns(e) == CASE e.op = "column" -> {e.c}
                [] e.op \in Binary -> Columns(e.l) \cup Columns(e.r)
                [] e.op = "not" -> Columns(e.e)
                [] OTHER -> {}
Covers(schema, e) == Columns(e) \subseteq Range(schema)

\* The tree rebuilt with its columns replaced.
RECURSIVE Subst(_, _)
Subst(e, by) == CASE e.op = "column" -> by[e.c]
                  [] e.op \in Binary -> [e EXCEPT !.l = Subst(e.l, by), !.r = Subst(e.r, by)]
                  [] e.op = "not" -> [e EXCEPT !.e = Subst(e.e, by)]
                  [] OTHER -> e

\* ExpressionBinder.BindExpr: a column becomes the offset of its first occurrence.
BindExpr(e, schema) ==
    Subst(e, [c \in Columns(e) |-> Field(CHOOSE i \in DOMAIN schema :
                                            schema[i] = c /\ \A j \in 1 .. i - 1 : schema[j] # c)])
BindAll(es, schema) == [i \in DOMAIN es |-> BindExpr(es[i], schema)]

RECURSIVE SplitPredicate(_)
SplitPredicate(e) == IF e.op = "and" THEN SplitPredicate(e.l) \o SplitPredicate(e.r) ELSE <<e>>

MergePredicates(es) == FoldLeft(And, Head(es), Tail(es))
=============================================================================
