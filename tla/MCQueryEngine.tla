---------------------------- MODULE MCQueryEngine ----------------------------
(* Statements, databases and indexes for QueryEngine: tables R(a, b) and S(a, c). *)
EXTENDS QueryEngine

MCMinInt == -1
MCTables == {"R", "S"}
MCColumns == [t \in MCTables |-> IF t = "R" THEN <<"a", "b">> ELSE <<"a", "c">>]

Ra == Column(<<"R", "a">>)
Rb == Column(<<"R", "b">>)
Sa == Column(<<"S", "a">>)
Sc == Column(<<"S", "c">>)
Cmp(id, l, op, r) == Comparison(id, op, l, r)
K(n) == Const(n)

\* Conditions on R: equalities and ranges in both directions, conjunctions, alternatives
\* and negations, a range no value can start.
Conditions ==
    {<<>>, <<Cmp(1, Ra, "=", K(1))>>, <<Cmp(1, Ra, ">", K(0))>>, <<Cmp(1, Ra, "<", K(2))>>,
     <<Cmp(1, K(1), ">=", Ra)>>, <<And(Cmp(1, Ra, ">=", K(1)), Cmp(2, Rb, "=", K(1)))>>,
     <<Or(Cmp(1, Ra, "=", K(1)), Cmp(2, Rb, "=", K(0)))>>, <<Not(Cmp(1, Ra, "<", K(1)))>>,
     <<And(Cmp(1, Rb, "=", K(1)), Cmp(2, Ra, "=", K(1)))>>, <<Cmp(1, Ra, "!=", K(1))>>,
     <<Cmp(1, Ra, ">", K(MaxInt))>>, <<And(Cmp(1, Ra, "=", K(1)), Cmp(2, Rb, ">", K(0)))>>,
     <<Cmp(1, Ra, "<=", Rb)>>}

Select == [stmt |-> "select", from |-> <<"R">>, type |-> "inner", on |-> <<>>, where |-> <<>>, group |-> <<>>,
           aggs |-> <<>>, having |-> <<>>, order |-> <<>>, limit |-> <<>>, cols |-> <<>>]
Queries == {[Select EXCEPT !.where = w] : w \in Conditions}

OfBoth(op, n) == And(Cmp(8, Ra, op, K(n)), Cmp(9, Sa, ">=", K(1)))
Wheres == {<<>>, <<Cmp(5, Rb, "=", K(1))>>, <<And(Cmp(5, Sc, "=", K(1)), Cmp(6, Rb, "<=", Sc))>>, <<OfBoth(">=", 1)>>,
           <<OfBoth("<", 3)>>}
Joins ==
    {[Select EXCEPT !.from = <<"R", "S">>, !.type = type, !.on = on, !.where = w] :
        type \in {"inner", "left", "right"}, w \in Wheres,
        on \in {<<Cmp(1, Ra, "=", Sa)>>, <<Cmp(1, Ra, "<", Sa)>>, <<And(Cmp(1, Ra, "=", Sa), Cmp(2, Rb, "<", Sc))>>}}
    \cup {[Select EXCEPT !.from = <<"R", "S">>, !.type = "cross", !.where = w] : w \in Wheres}

Agg(fn, e, name) == [fn |-> fn, arg |-> e, name |-> name]
ByA == Column(<<"", "a">>)
Aggregates ==
    {[Select EXCEPT !.group = <<Ra>>, !.aggs = <<Agg("count", Rb, "n"), Agg("sum", Rb, "s")>>],
     [Select EXCEPT !.group = <<Rb>>, !.aggs = <<Agg("min", Ra, "l"), Agg("max", Ra, "h")>>,
                    !.having = <<Cmp(1, Column(<<"", "h">>), ">", K(0))>>, !.cols = <<Column(<<"", "h">>)>>],
     [Select EXCEPT !.aggs = <<Agg("count", K(1), "n")>>], [Select EXCEPT !.group = <<Ra>>]}

By(e, dir) == [e |-> e, dir |-> dir]
Orders ==
    {[Select EXCEPT !.order = <<By(Ra, "desc")>>],
     [Select EXCEPT !.order = <<By(Rb, "asc"), By(Ra, "desc")>>, !.limit = <<2, 0>>],
     [Select EXCEPT !.order = <<By(Ra, "asc")>>, !.limit = <<1, 0>>, !.cols = <<Add(Ra, Rb)>>],
     [Select EXCEPT !.limit = <<1, 0>>], [Select EXCEPT !.limit = <<1, 1>>],
     [Select EXCEPT !.order = <<By(Ra, "asc")>>, !.limit = <<0, 0>>]}

InsertS == [stmt |-> "insert", into |-> "S", cols |-> <<>>, rows |-> <<>>, select |-> Select]
Changes ==
    {[InsertS EXCEPT !.rows = <<<<K(1), K(2)>>, <<K(0), K(1)>>>>],
     [InsertS EXCEPT !.rows = <<<<K(1), K(2)>>, <<K(0)>>>>],
     [InsertS EXCEPT !.rows = <<<<K(2)>>, <<K(1)>>>>, !.cols = <<"c">>], [InsertS EXCEPT !.rows = <<<<K(2)>>>>],
     InsertS, [InsertS EXCEPT !.cols = <<"c", "a">>],
     [stmt |-> "delete", from |-> <<"R">>, where |-> <<>>, order |-> <<By(Ra, "asc")>>, limit |-> <<1, 0>>]}
    \cup {[stmt |-> "delete", from |-> <<"R">>, where |-> w, order |-> <<>>, limit |-> <<>>] : w \in Conditions}
    \cup {[stmt |-> "update", from |-> <<"R">>, where |-> <<Cmp(1, Ra, ">=", K(1))>>, set |-> set] :
            set \in {"a" :> Add(Ra, K(1)), "b" :> Ra}}

\* A name that is ambiguous, or unknown.
Unresolved ==
    {[Select EXCEPT !.from = <<"R", "S">>, !.type = "cross", !.cols = <<ByA>>],
     [Select EXCEPT !.where = <<Cmp(1, Sc, "=", K(1))>>]}

MCStatements == Queries \cup Joins \cup Aggregates \cup Orders \cup Changes \cup Unresolved

ContentsR == {<<>>, <<<<1, 1>>>>, <<<<2, 1>>, <<1, 1>>, <<0, 2>>>>,
              <<<<1, 2>>, <<NULL, 1>>, <<1, 0>>>>, <<<<1, NULL>>, <<2, 2>>>>,
              <<<<1, 0>>, <<0, 1>>, <<1, 2>>>>, <<<<1, 1>>, <<0, 0>>, <<2, 1>>, <<2, 0>>>>}
ContentsS == {<<>>, <<<<1, 1>>>>, <<<<2, 1>>, <<NULL, 0>>, <<1, 2>>>>, <<<<1, 2>>, <<1, 1>>, <<2, 1>>>>}
NoFault == [t |-> "", k |-> 0]
MCDatabases ==
    {[tables |-> "R" :> r @@ "S" :> s, fault |-> NoFault] : r \in ContentsR, s \in ContentsS}
    \cup {[tables |-> "R" :> <<<<2, 1>>, <<1, 1>>, <<0, 2>>>> @@ "S" :> <<<<1, 1>>>>, fault |-> f] :
            f \in {[t |-> "R", k |-> k] : k \in 0 .. 2} \cup {[t |-> "S", k |-> 0]}}

BTree(cols) == [type |-> "btree", cols |-> cols]
Hash(cols) == [type |-> "hash", cols |-> cols]
MCIndexSets ==
    {"R" :> r @@ "S" :> s :
        r \in {<<>>, <<Hash(<<"a">>)>>, <<BTree(<<"a">>)>>, <<BTree(<<"a", "b">>), BTree(<<"a">>)>>},
        s \in {<<>>, <<BTree(<<"a">>)>>}}
=============================================================================
