------------------------- MODULE IndexedTableProofs -------------------------
(***************************************************************************)
(* Proofs about IndexedTable, for every set of transactions, slots, keys   *)
(* and statements: both indexes agree with the table (IndexAgrees), a      *)
(* lookup returns every row it has to (LookupComplete) and no other        *)
(* (LookupSound).                                                          *)
(*                                                                         *)
(* The properties are not inductive; Inv is.  It says of every entry of an *)
(* untainted slot whether the indexes have it (IndexOK), from what is      *)
(* committed, who has the slot locked and which tasks are left, so that    *)
(* the locks (LockOK), the log records (HeapOK) and the tasks (TaskOK)     *)
(* of a transaction have to be in it too.  A step of a transaction leaves  *)
(* the others' contexts and the slots they have locked alone (Guarantee);  *)
(* so only what the invariant says of that transaction is looked at        *)
(* (OthersInv), and steps are proved by class: reading, index work,        *)
(* writing, turning to the removals, ending, and a database that has just  *)
(* started.                                                                *)
(***************************************************************************)
EXTENDS IndexedTable, FiniteSetTheorems, SequenceTheorems, WellFoundedInduction, TLAPS

(* Operators *)

\* A set of natural numbers that is not empty has a smallest element.
LEMMA SmallestExists ==
    ASSUME NEW S \in SUBSET Nat, S # {}
    PROVE  \E x \in S : \A y \in S : x <= y
<1>1. PICK x \in S : \A y \in S : ~ (<<y, x>> \in OpToRel(<, Nat))
    BY WFMin, NatLessThanWellFounded, Zenon
<1>2. \A y \in S : <<y, x>> \in Nat \X Nat /\ <<y, x>>[1] = y /\ <<y, x>>[2] = x
    OBVIOUS
<1>3. \A y \in S : ~ (y < x)
    BY <1>1, <1>2, Zenon DEF OpToRel
<1> QED
    BY <1>3

Pairs == Keys \X Rids

\* In a finite set of entries, an entry's place is the number of smaller ones.
LEMMA InOrderOnto ==
    ASSUME NEW S \in SUBSET Pairs
    PROVE  /\ InOrder(S) \in Seq(S) /\ Len(InOrder(S)) = Cardinality(S)
           /\ \A e \in S : \E n \in DOMAIN InOrder(S) : InOrder(S)[n] = e
           /\ \A m, n \in DOMAIN InOrder(S) : InOrder(S)[m] = InOrder(S)[n] => m = n
<1> DEFINE c == Cardinality(S)
           below(e) == {d \in S : Less(d, e)}
           rank == [e \in S |-> Cardinality(below(e))]
<1>1. IsFiniteSet(S)
    <2>1. IsFiniteSet(Keys)
        BY TableAssumption, FS_Subset
    <2>2. IsFiniteSet(Pairs)
        BY <2>1, TableAssumption, FS_Product DEF Pairs
    <2> QED
        BY <2>2, FS_Subset
<1>2. c \in Nat
    BY <1>1, FS_CardinalityType
<1>3. \A e \in S : e[1] \in Nat /\ e[2] \in Nat /\ e = <<e[1], e[2]>>
    <2> TAKE e \in S
    <2>1. PICK k \in Keys, r \in Rids : e = <<k, r>>
        BY DEF Pairs
    <2> QED
        BY <2>1, TableAssumption
<1>4. ASSUME NEW e \in S PROVE IsFiniteSet(below(e)) /\ Cardinality(below(e)) \in 0 .. c - 1
    <2>1. below(e) \subseteq S \ {e}
        BY <1>3 DEF Less
    <2>2. IsFiniteSet(S \ {e}) /\ Cardinality(S \ {e}) = c - 1
        BY <1>1, FS_RemoveElement
    <2>3. IsFiniteSet(below(e)) /\ Cardinality(below(e)) <= Cardinality(S \ {e})
        BY <2>1, <2>2, FS_Subset
    <2>4. Cardinality(below(e)) \in Nat
        BY <2>3, FS_CardinalityType
    <2> QED
        BY <1>2, <2>2, <2>3, <2>4
<1>5. ASSUME NEW d \in S, NEW e \in S, Less(d, e) PROVE Cardinality(below(d)) < Cardinality(below(e))
    <2>1. below(d) \subseteq below(e) \ {d}
        BY <1>3, <1>5 DEF Less
    <2>2. d \in below(e)
        BY <1>5
    <2>3. /\ IsFiniteSet(below(e) \ {d})
          /\ Cardinality(below(e) \ {d}) = Cardinality(below(e)) - 1
        BY <1>4, <2>2, FS_RemoveElement
    <2>4. Cardinality(below(d)) <= Cardinality(below(e) \ {d})
        BY <2>1, <2>3, FS_Subset
    <2>5. Cardinality(below(d)) \in Nat /\ Cardinality(below(e)) \in Nat
        BY <1>2, <1>4
    <2> HIDE DEF below
    <2> QED
        BY <2>3, <2>4, <2>5
<1>6. rank \in Injection(S, 0 .. c - 1)
    <2>1. rank \in [S -> 0 .. c - 1]
        BY <1>4
    <2>2. ASSUME NEW d \in S, NEW e \in S, rank[d] = rank[e] PROVE d = e
        <3>1. Less(d, e) \/ Less(e, d) \/ d = e
            BY <1>3 DEF Less
        <3>2. rank[d] = Cardinality(below(d)) /\ rank[e] = Cardinality(below(e))
            OBVIOUS
        <3>3. Less(d, e) => rank[d] < rank[e]
            BY <1>5, <3>2
        <3>4. Less(e, d) => rank[e] < rank[d]
            BY <1>5, <3>2
        <3>5. rank[d] \in Nat /\ rank[e] \in Nat
            BY <1>2, <1>4, <3>2
        <3> HIDE DEF rank, below
        <3> QED
            BY <2>2, <3>1, <3>3, <3>4, <3>5
    <2> QED
        BY <2>1, <2>2 DEF Injection, IsInjective
<1>7. rank \in Surjection(S, 0 .. c - 1)
    <2>1. IsFiniteSet(0 .. c - 1) /\ Cardinality(0 .. c - 1) = c
        BY <1>2, FS_Interval, SMTT(30)
    <2> HIDE DEF rank
    <2> QED
        BY <1>6, <2>1, FS_Injection
<1>8. \A n \in 1 .. c : \E e \in S : Cardinality(below(e)) = n - 1
    <2> TAKE n \in 1 .. c
    <2>1. n - 1 \in 0 .. c - 1
        BY <1>2
    <2>2. PICK e \in S : rank[e] = n - 1
        BY <1>7, <2>1 DEF Surjection
    <2> QED
        BY <2>2
<1>9. \A e \in S : InOrder(S)[Cardinality(below(e)) + 1] = e /\ Cardinality(below(e)) + 1 \in 1 .. c
    <2> TAKE e \in S
    <2> DEFINE n == Cardinality(below(e)) + 1
    <2>1. n \in 1 .. c /\ Cardinality(below(e)) = n - 1
        BY <1>2, <1>4
    <2>2. InOrder(S)[n] = CHOOSE d \in S : Cardinality(below(d)) = n - 1
        BY <2>1 DEF InOrder
    <2> HIDE DEF n
    <2>3. InOrder(S)[n] \in S /\ Cardinality(below(InOrder(S)[n])) = n - 1
        BY <2>1, <2>2
    <2>4. rank[InOrder(S)[n]] = rank[e]
        BY <2>1, <2>3
    <2>5. InOrder(S)[n] = e
        <3> HIDE DEF rank, below
        <3> QED
            BY <1>6, <2>3, <2>4 DEF Injection, IsInjective
    <2> QED
        BY <2>1, <2>5 DEF n
<1>10. \A n \in 1 .. c : InOrder(S)[n] \in S /\ Cardinality(below(InOrder(S)[n])) = n - 1
    <2> TAKE n \in 1 .. c
    <2>1. InOrder(S)[n] = CHOOSE d \in S : Cardinality(below(d)) = n - 1
        BY DEF InOrder
    <2> QED
        BY <1>8, <2>1
<1>11. InOrder(S) = [n \in 1 .. c |-> InOrder(S)[n]] /\ DOMAIN InOrder(S) = 1 .. c
    <2> DEFINE f(n) == CHOOSE e \in S : Cardinality(below(e)) = n - 1
    <2>1. InOrder(S) = [n \in 1 .. c |-> f(n)]
        BY DEF InOrder
    <2> HIDE DEF f, c, below
    <2> QED
        BY <2>1
<1>12. InOrder(S) \in Seq(S) /\ Len(InOrder(S)) = c
    <2> HIDE DEF c, below
    <2> QED
        BY <1>2, <1>10, <1>11
<1> QED
    <2> DEFINE io == InOrder(S)
    <2>1. \A m, n \in 1 .. c : io[m] = io[n] => m - 1 = n - 1
        BY <1>10
    <2>2. \A m, n \in 1 .. c : m - 1 = n - 1 => m = n
        BY <1>2
    <2> HIDE DEF c, below, rank, io
    <2>3. \A m, n \in DOMAIN io : io[m] = io[n] => m = n
        BY <2>1, <2>2, <1>11 DEF io
    <2>4. \A e \in S : \E n \in DOMAIN InOrder(S) : InOrder(S)[n] = e
        BY <1>9, <1>11
    <2> QED
        BY <1>12, <2>3, <2>4 DEF io, c

\* Iteration i of DeleteEntry's loop, after the iterations f holds.
LoopStep(rids, r, f, i) ==
    IF i = 0 THEN [arr |-> rids, len |-> Len(rids), panic |-> 0]
    ELSE IF f[i - 1].panic # 0 \/ f[i - 1].arr[i] # r THEN f[i - 1]
    ELSE IF i > f[i - 1].len THEN [f[i - 1] EXCEPT !.panic = i]
    ELSE [f[i - 1] EXCEPT !.arr[i] = f[i - 1].arr[f[i - 1].len], !.len = @ - 1]

\* f holds the state of the loop after each of its first n iterations.
IsLoop(rids, r, n, f) == f = [i \in 0 .. n |-> LoopStep(rids, r, f, i)]

\* Before the first iteration.
LoopStart(rids) == [arr |-> rids, len |-> Len(rids), panic |-> 0]
\* The loop starts with the whole bucket.
LEMMA LoopStarts ==
    ASSUME NEW rids, NEW r, NEW f
    PROVE  LoopStep(rids, r, f, 0) = LoopStart(rids)
BY Zenon DEF LoopStep, LoopStart

\* The loop is well defined.
LEMMA LoopExists ==
    ASSUME NEW rids, NEW r, NEW n \in Nat
    PROVE  \E f : IsLoop(rids, r, n, f)
<1> DEFINE step(f, i) == LoopStep(rids, r, f, i)
           is(m, f) == IsLoop(rids, r, m, f)
           bad == {m \in Nat : ~ \E f : is(m, f)}
<1> SUFFICES ASSUME bad # {} PROVE FALSE
    OBVIOUS
<1>1. PICK m \in bad : \A y \in bad : m <= y
    BY SmallestExists
<1>2. CASE m = 0
    <2> DEFINE f == [i \in 0 .. 0 |-> LoopStart(rids)]
    <2>0. \A i \in 0 .. 0 : LoopStep(rids, r, f, i) = LoopStart(rids)
        BY LoopStarts
    <2>1. is(0, f)
        BY <2>0 DEF IsLoop
    <2> QED
        BY <1>1, <1>2, <2>1
<1>3. CASE m # 0
    <2>1. m - 1 \in Nat /\ m - 1 \notin bad
        BY <1>1, <1>3
    <2>2. PICK f : is(m - 1, f)
        BY <2>1
    <2> DEFINE g == [i \in 0 .. m |-> IF i = m THEN step(f, m) ELSE f[i]]
    <2>3. \A i \in 0 .. m - 1 : g[i] = f[i] /\ f[i] = step(f, i)
        <3>1. \A i \in 0 .. m - 1 : f[i] = step(f, i)
            BY <2>2, Zenon DEF IsLoop
        <3>2. \A i \in 0 .. m - 1 : i \in 0 .. m /\ i # m
            BY <1>1
        <3> QED
            BY <3>1, <3>2
    <2>4. ASSUME NEW i \in 0 .. m PROVE step(g, i) = step(f, i)
        <3>1. CASE i = 0
            BY <3>1 DEF LoopStep
        <3>2. CASE i # 0
            <4>1. g[i - 1] = f[i - 1]
                BY <1>1, <2>1, <2>3, <3>2
            <4> HIDE DEF g
            <4> QED
                BY <4>1 DEF LoopStep
        <3> QED
            BY <3>1, <3>2
    <2>5. \A i \in 0 .. m : g[i] = step(g, i)
        <3>1. g[m] = step(f, m) /\ m \in 0 .. m
            BY <1>1
        <3>2. \A i \in 0 .. m : i = m \/ i \in 0 .. m - 1
            BY <1>1
        <3> HIDE DEF g
        <3> QED
            BY <2>3, <2>4, <3>1, <3>2
    <2>6. is(m, g)
        <3>1. g = [i \in 0 .. m |-> g[i]]
            OBVIOUS
        <3> HIDE DEF g
        <3> QED
            BY <2>5, <3>1 DEF IsLoop
    <2> QED
        BY <1>1, <2>6
<1> QED
    BY <1>2, <1>3

\* e is an element of the sequence s.
In(s, e) == \E n \in DOMAIN s : s[n] = e
\* e is at most once in the sequence s.
Once(s, e) == \A m, n \in DOMAIN s : s[m] = e /\ s[n] = e => m = n

(* What holds after iteration i of the removal of r from rids: the rids    *)
(* other than r are where they were or moved forward, and if r was there   *)
(* only once, it is gone once its place p is passed.                       *)
LoopState(rids) == [arr : [1 .. Len(rids) -> Rids], len : 0 .. Len(rids), panic : 0 .. Len(rids)]
LoopInv(rids, r, i, s) ==
    /\ s \in LoopState(rids)
    /\ \A q \in Rids \ {r} :
        /\ (\E n \in 1 .. s.len : s.arr[n] = q) <=> In(rids, q)
        /\ Once(rids, q) => \A m, n \in 1 .. s.len : s.arr[m] = q /\ s.arr[n] = q => m = n
    /\ \A p \in 1 .. Len(rids) : rids[p] = r /\ Once(rids, r) =>
        /\ s.panic = 0
        /\ i < p => s.arr = rids /\ s.len = Len(rids)
        /\ i >= p => /\ s.len = Len(rids) - 1 /\ s.arr[Len(rids)] = rids[Len(rids)]
                     /\ \A n \in 1 .. Len(rids) - 1 : s.arr[n] # r

\* One iteration of the loop.
LEMMA LoopInvStep ==
    ASSUME NEW rids \in Seq(Rids), NEW r \in Rids, NEW f, NEW i \in 1 .. Len(rids),
           LoopInv(rids, r, i - 1, f[i - 1])
    PROVE  LoopInv(rids, r, i, LoopStep(rids, r, f, i))
<1> DEFINE L == Len(rids)
<1>0. L \in Nat /\ DOMAIN rids = 1 .. L /\ i \in 1 .. L /\ i # 0
    OBVIOUS
<1>1. PICK s \in LoopState(rids) : s = f[i - 1]
    BY DEF LoopInv
<1>2. LoopInv(rids, r, i - 1, s)
    BY <1>1
<1>3. /\ s.arr \in [1 .. L -> Rids] /\ s.len \in 0 .. L /\ s.panic \in 0 .. L
      /\ s = [arr |-> s.arr, len |-> s.len, panic |-> s.panic]
    BY <1>1 DEF LoopState
<1>4. LoopStep(rids, r, f, i) =
        IF s.panic # 0 \/ s.arr[i] # r THEN s
        ELSE IF i > s.len THEN [s EXCEPT !.panic = i]
        ELSE [s EXCEPT !.arr[i] = s.arr[s.len], !.len = @ - 1]
    BY <1>0, <1>1 DEF LoopStep
<1> HIDE DEF L
<1>5. CASE s.arr[i] # r
    <2>1. LoopStep(rids, r, f, i) = s
        BY <1>4, <1>5
    <2>2. ASSUME NEW p \in 1 .. L, rids[p] = r, Once(rids, r), i >= p
          PROVE  /\ s.len = L - 1 /\ s.arr[L] = rids[L] /\ s.panic = 0
                 /\ \A n \in 1 .. L - 1 : s.arr[n] # r
        BY <1>0, <1>2, <1>3, <1>5, <2>2 DEF LoopInv, L
    <2>3. ASSUME NEW p \in 1 .. L, rids[p] = r, Once(rids, r), i < p
          PROVE  s.arr = rids /\ s.len = L /\ s.panic = 0
        BY <1>0, <1>2, <2>3 DEF LoopInv, L
    <2>4. \A p \in 1 .. L : i >= p \/ i < p
        BY <1>0
    <2> QED
        BY <1>2, <2>1, <2>2, <2>3, <2>4 DEF LoopInv, L
<1>6. CASE s.arr[i] = r /\ (s.panic # 0 \/ i > s.len)
    <2> DEFINE z == LoopStep(rids, r, f, i)
    <2>1. z \in LoopState(rids) /\ z.arr = s.arr /\ z.len = s.len
        BY <1>0, <1>3, <1>4, <1>6 DEF LoopState, L
    <2> HIDE DEF z
    <2>2. ASSUME NEW p \in 1 .. L, rids[p] = r, Once(rids, r) PROVE FALSE
        <3>1. /\ s.panic = 0
              /\ i - 1 < p => s.arr = rids /\ s.len = L
              /\ i - 1 >= p => s.arr[L] = rids[L] /\ \A n \in 1 .. L - 1 : s.arr[n] # r
            BY <1>2, <2>2 DEF LoopInv, L
        <3>2. i - 1 >= p
            BY <1>0, <1>6, <3>1
        <3>3. i = L
            BY <1>0, <1>6, <3>1, <3>2
        <3> QED
            BY <1>0, <1>6, <2>2, <3>1, <3>2, <3>3 DEF Once
    <2> QED
        BY <1>2, <2>1, <2>2 DEF LoopInv, L, z
<1>7. CASE s.arr[i] = r /\ s.panic = 0 /\ i <= s.len
    <2> DEFINE z == LoopStep(rids, r, f, i)
               arr == [s.arr EXCEPT ![i] = s.arr[s.len]]
    <2>1. z = [s EXCEPT !.arr[i] = s.arr[s.len], !.len = @ - 1]
        BY <1>0, <1>3, <1>4, <1>7
    <2>2. z.arr = arr /\ z.len = s.len - 1 /\ z.panic = 0
        BY <1>3, <1>7, <2>1
    <2>4. /\ arr \in [1 .. L -> Rids] /\ arr[i] = s.arr[s.len]
          /\ \A n \in 1 .. L : n # i => arr[n] = s.arr[n]
          /\ s.len \in 1 .. L /\ s.len - 1 \in 0 .. L
        BY <1>0, <1>3, <1>7
    <2>0. z = [arr |-> arr, len |-> s.len - 1, panic |-> 0]
        BY <1>3, <1>7, <2>1
    <2> HIDE DEF arr, z
    <2>3. z \in LoopState(rids)
        BY <1>0, <2>0, <2>4 DEF LoopState, L
    <2>5. ASSUME NEW q \in Rids \ {r}
          PROVE  /\ (\E n \in 1 .. s.len - 1 : arr[n] = q) <=> In(rids, q)
                 /\ Once(rids, q) => \A m, n \in 1 .. s.len - 1 : arr[m] = q /\ arr[n] = q => m = n
        <3>1. (\E n \in 1 .. s.len : s.arr[n] = q) <=> In(rids, q)
            BY <1>2 DEF LoopInv
        <3>2. Once(rids, q) => \A m, n \in 1 .. s.len : s.arr[m] = q /\ s.arr[n] = q => m = n
            BY <1>2 DEF LoopInv
        <3>3. (\E n \in 1 .. s.len : s.arr[n] = q) => \E n \in 1 .. s.len - 1 : arr[n] = q
            <4> SUFFICES ASSUME NEW n \in 1 .. s.len, s.arr[n] = q
                         PROVE  \E m \in 1 .. s.len - 1 : arr[m] = q
                OBVIOUS
            <4>1. n # i /\ n \in 1 .. L
                BY <1>0, <1>7, <2>4
            <4>2. CASE n = s.len
                <5>1. i \in 1 .. s.len - 1 /\ arr[i] = q
                    BY <1>0, <1>7, <2>4, <4>1, <4>2
                <5> QED
                    BY <5>1
            <4>3. CASE n # s.len
                <5>1. n \in 1 .. s.len - 1 /\ arr[n] = q
                    BY <2>4, <4>1, <4>3
                <5> QED
                    BY <5>1
            <4> QED
                BY <4>2, <4>3
        <3>4. (\E n \in 1 .. s.len - 1 : arr[n] = q) => \E n \in 1 .. s.len : s.arr[n] = q
            <4> SUFFICES ASSUME NEW n \in 1 .. s.len - 1, arr[n] = q
                         PROVE  \E m \in 1 .. s.len : s.arr[m] = q
                OBVIOUS
            <4>1. n \in 1 .. s.len /\ n \in 1 .. L /\ s.len \in 1 .. s.len
                BY <1>0, <2>4
            <4> QED
                BY <2>4, <4>1
        <3>5. ASSUME Once(rids, q), NEW m \in 1 .. s.len - 1, NEW n \in 1 .. s.len - 1, arr[m] = q, arr[n] = q
              PROVE  m = n
            <4>1. /\ m \in 1 .. s.len /\ m \in 1 .. L /\ n \in 1 .. s.len /\ n \in 1 .. L
                  /\ s.len \in 1 .. s.len /\ m # s.len /\ n # s.len
                BY <1>0, <2>4
            <4> QED
                BY <2>4, <3>2, <3>5, <4>1
        <3> QED
            BY <3>1, <3>3, <3>4, <3>5
    <2>6. ASSUME NEW p \in 1 .. L, rids[p] = r, Once(rids, r)
          PROVE  /\ i < p => arr = rids /\ s.len - 1 = L
                 /\ i >= p => /\ s.len - 1 = L - 1 /\ arr[L] = rids[L]
                              /\ \A n \in 1 .. L - 1 : arr[n] # r
        <3>1. i - 1 < p => s.arr = rids /\ s.len = L
            BY <1>2, <2>6 DEF LoopInv, L
        <3>2. i - 1 >= p => s.len = L - 1 /\ \A n \in 1 .. L - 1 : s.arr[n] # r
            BY <1>2, <2>6 DEF LoopInv, L
        <3>3. i - 1 < p
            BY <1>0, <1>7, <3>2
        <3>4. i = p
            BY <1>0, <1>7, <2>6, <3>1, <3>3 DEF Once
        <3>5. \A n \in 1 .. L : n # p => rids[n] # r
            BY <1>0, <2>6 DEF Once
        <3>6. arr[L] = rids[L]
            BY <1>0, <2>4, <3>1, <3>3, <3>4
        <3>7. ASSUME NEW n \in 1 .. L - 1 PROVE arr[n] # r
            <4>1. n \in 1 .. L /\ L \in 1 .. L /\ n # L
                BY <1>0
            <4> QED
                BY <2>4, <3>1, <3>3, <3>4, <3>5, <4>1
        <3> QED
            BY <1>0, <3>1, <3>3, <3>4, <3>6, <3>7
    <2> QED
        BY <2>2, <2>3, <2>5, <2>6 DEF LoopInv, L, z
<1> QED
    BY <1>3, <1>0, <1>5, <1>6, <1>7

\* What DeleteEntry leaves in a bucket from which it removes r.
LEMMA SwapRemoved ==
    ASSUME NEW rids \in Seq(Rids), NEW r \in Rids
    PROVE  LET res == SwapRemove(rids, r)
               left == SubSeq(res.arr, 1, res.len)
           IN  /\ res.len \in 0 .. Len(rids)
               /\ left \in Seq(Rids) /\ Len(left) = res.len
               /\ \A q \in Rids \ {r} : In(left, q) <=> In(rids, q)
               /\ \A q \in Rids \ {r} : Once(rids, q) => Once(left, q)
               /\ Once(rids, r) => ~In(left, r)
<1> DEFINE L == Len(rids)
           f == CHOOSE g : IsLoop(rids, r, L, g)
           res == f[L]
           left == SubSeq(res.arr, 1, res.len)
<1>1. L \in Nat /\ DOMAIN rids = 1 .. L
    OBVIOUS
<1>2. IsLoop(rids, r, L, f)
    BY <1>1, LoopExists
<1>3. SwapRemove(rids, r) = res
    BY DEF SwapRemove, IsLoop, LoopStep
<1> HIDE DEF f
<1>4. ASSUME NEW i \in 0 .. L PROVE f[i] = LoopStep(rids, r, f, i)
    BY <1>2, Zenon DEF IsLoop
<1> DEFINE bad == {i \in 0 .. L : ~LoopInv(rids, r, i, f[i])}
<1>5. ASSUME bad # {} PROVE FALSE
    <2>1. bad \in SUBSET Nat
        BY <1>1
    <2>2. PICK m \in bad : \A y \in bad : m <= y
        BY <1>5, <2>1, SmallestExists
    <2>3. CASE m = 0
        <3> DEFINE s == LoopStart(rids)
        <3>1. f[0] = s
            BY <1>1, <1>4, LoopStarts
        <3>2. s \in LoopState(rids) /\ s.arr = rids /\ s.len = L /\ s.panic = 0
            BY <1>1 DEF LoopState, LoopStart
        <3> HIDE DEF s
        <3>4. \A p \in 1 .. L : 0 < p /\ ~(0 >= p)
            BY <1>1
        <3>3. LoopInv(rids, r, 0, s)
            <4>1. \A q \in Rids \ {r} : (\E n \in 1 .. s.len : s.arr[n] = q) <=> In(rids, q)
                BY <1>1, <3>2 DEF In
            <4>2. \A q \in Rids \ {r} : Once(rids, q) =>
                    \A m1, n \in 1 .. s.len : s.arr[m1] = q /\ s.arr[n] = q => m1 = n
                BY <1>1, <3>2 DEF Once
            <4> QED
                BY <3>2, <3>4, <4>1, <4>2 DEF LoopInv
        <3> QED
            BY <2>2, <2>3, <3>1, <3>3
    <2>4. CASE m # 0
        <3>1. m \in 1 .. L /\ m - 1 \in 0 .. L /\ ~(m <= m - 1)
            BY <1>1, <2>2, <2>4
        <3>2. LoopInv(rids, r, m - 1, f[m - 1])
            BY <2>2, <3>1
        <3>3. LoopInv(rids, r, m, f[m])
            BY <1>4, <2>2, <3>1, <3>2, LoopInvStep
        <3> QED
            BY <2>2, <3>3
    <2> QED
        BY <2>3, <2>4
<1>6. LoopInv(rids, r, L, res)
    BY <1>1, <1>5
<1> HIDE DEF res
<1>7. res.arr \in [1 .. L -> Rids] /\ res.len \in 0 .. L
    BY <1>6 DEF LoopInv, LoopState
<1>8. /\ left \in Seq(Rids) /\ Len(left) = res.len /\ DOMAIN left = 1 .. res.len
      /\ \A n \in 1 .. res.len : left[n] = res.arr[n]
    <2>1. res.arr \in Seq(Rids) /\ Len(res.arr) = L
        BY <1>1, <1>7
    <2> QED
        BY <1>1, <1>7, <2>1
<1> HIDE DEF left
<1>9. \A q \in Rids \ {r} : In(left, q) <=> In(rids, q)
    <2> TAKE q \in Rids \ {r}
    <2>1. (\E n \in 1 .. res.len : res.arr[n] = q) <=> In(rids, q)
        BY <1>6, Zenon DEF LoopInv
    <2>2. In(left, q) <=> \E n \in 1 .. res.len : left[n] = q
        BY <1>8, Zenon DEF In
    <2> QED
        BY <1>8, <2>1, <2>2
<1>10. \A q \in Rids \ {r} : Once(rids, q) => Once(left, q)
    BY <1>6, <1>8 DEF LoopInv, Once
<1>11. ASSUME Once(rids, r) PROVE ~In(left, r)
    <2>1. CASE In(rids, r)
        <3>1. PICK p \in 1 .. L : rids[p] = r
            BY <1>1, <2>1 DEF In
        <3>2. res.len = L - 1 /\ \A n \in 1 .. L - 1 : res.arr[n] # r
            BY <1>1, <1>6, <1>11, <3>1 DEF LoopInv
        <3> QED
            BY <1>8, <3>2 DEF In
    <2>2. CASE ~In(rids, r)
        <3> DEFINE worse == {i \in 0 .. L : f[i] # LoopStart(rids)}
        <3>1. ASSUME worse # {} PROVE FALSE
            <4>1. worse \in SUBSET Nat
                BY <1>1
            <4>2. PICK m \in worse : \A y \in worse : m <= y
                BY <3>1, <4>1, SmallestExists
            <4>3. m # 0
                BY <1>1, <1>4, <4>2, LoopStarts
            <4>4. m \in 1 .. L /\ m - 1 \in 0 .. L /\ ~(m <= m - 1)
                BY <1>1, <4>2, <4>3
            <4>5. f[m - 1] = LoopStart(rids)
                BY <4>2, <4>4
            <4>6. rids[m] # r
                BY <1>1, <2>2, <4>4 DEF In
            <4>7. f[m] = f[m - 1]
                <5>1. f[m - 1].arr = rids
                    BY <4>5 DEF LoopStart
                <5>2. f[m] = LoopStep(rids, r, f, m)
                    BY <1>4, <4>2
                <5> QED
                    BY <4>3, <4>6, <5>1, <5>2, Zenon DEF LoopStep
            <4> QED
                BY <4>2, <4>5, <4>7
        <3>2. res = LoopStart(rids)
            BY <1>1, <3>1 DEF res
        <3> QED
            BY <1>1, <1>8, <2>2, <3>2 DEF In, LoopStart
    <2> QED
        BY <2>1, <2>2
<1> QED
    BY <1>3, <1>7, <1>8, <1>9, <1>10, <1>11 DEF left

\* There is a bucket object to allocate for a key that has none: of the keys and
\* transactions, this key and this transaction refer to no bucket.
LEMMA BucketToAllocate ==
    ASSUME hmap \in [Keys -> Buckets \cup {None}], cur \in [Txns -> Buckets \cup {None}],
           NEW k \in Keys, NEW t \in Txns, hmap[k] = None, cur[t] = None
    PROVE  NewBucket \in Buckets /\ Unused(NewBucket)
<1> DEFINE K == Keys \ {k}
           T == Txns \ {t}
           A == {hmap[x] : x \in K}
           B == {cur[x] : x \in T}
           g == [x \in K |-> hmap[x]]
           h == [x \in T |-> cur[x]]
<1>1. IsFiniteSet(Keys) /\ IsFiniteSet(Txns) /\ IsFiniteSet(Buckets)
    BY TableAssumption, FS_Subset
<1>2. /\ Cardinality(Keys) \in Nat /\ Cardinality(Txns) \in Nat /\ Cardinality(Buckets) \in Nat
      /\ Cardinality(Keys) + Cardinality(Txns) <= Cardinality(Buckets)
    BY <1>1, FS_CardinalityType, TableAssumption
<1>3. /\ IsFiniteSet(K) /\ Cardinality(K) = Cardinality(Keys) - 1
      /\ IsFiniteSet(T) /\ Cardinality(T) = Cardinality(Txns) - 1
    BY <1>1, FS_RemoveElement
<1>4. g \in Surjection(K, A) /\ h \in Surjection(T, B)
    BY DEF Surjection
<1> HIDE DEF A, B, K, T, g, h
<1>5. IsFiniteSet(A) /\ Cardinality(A) <= Cardinality(Keys) - 1
    BY <1>3, <1>4, FS_Surjection
<1>6. IsFiniteSet(B) /\ Cardinality(B) <= Cardinality(Txns) - 1
    BY <1>3, <1>4, FS_Surjection
<1>7. Cardinality(A) \in Nat /\ Cardinality(B) \in Nat /\ Cardinality(A \cap B) \in Nat
    BY <1>5, <1>6, FS_CardinalityType, FS_Intersection
<1>8. IsFiniteSet(A \cup B) /\ Cardinality(A \cup B) = Cardinality(A) + Cardinality(B) - Cardinality(A \cap B)
    BY <1>5, <1>6, FS_Union
<1>9. ASSUME Buckets \subseteq A \cup B PROVE FALSE
    <2>1. Cardinality(Buckets) <= Cardinality(A \cup B)
        BY <1>8, <1>9, FS_Subset
    <2> QED
        BY <1>2, <1>5, <1>6, <1>7, <1>8, <2>1
<1>10. PICK b \in Buckets : b \notin A /\ b \notin B
    BY <1>9
<1>11. b # None
    BY <1>10, TableAssumption
<1>12. Unused(b)
    BY <1>10, <1>11 DEF A, B, K, T, Unused
<1> QED
    BY <1>10, <1>12 DEF NewBucket

-----------------------------------------------------------------------------
(* Types *)

EntryType == [index : Indexes, key : Keys, rid : Rids]
OpType == [op : {"insert", "remove"}, entry : EntryType]
UndoType == [type : {"insert", "delete", "update"}, rid : Rids, key : Keys \cup {None}]

TableType ==
    /\ allocated \subseteq Rids /\ deleted \subseteq Rids /\ tainted \subseteq Rids
    /\ tuple \in [Rids -> Keys \cup {None}] /\ committed \in [Rids -> Keys \cup {None}]
    /\ xlock \in [Rids -> Txns \cup {None}] /\ slock \in [Rids -> SUBSET Txns]
IndexType ==
    /\ btree \subseteq Pairs
    /\ hmap \in [Keys -> Buckets \cup {None}]
    /\ bucket \in [Buckets -> Seq(Rids)] /\ removed \subseteq Buckets
QueryType ==
    /\ pc \in [Txns -> {"ready", "scankey", "read", "commit", "abort"}]
    /\ cmd \in [Txns -> Commands \cup {NoCmd}]
    /\ entries \in [Txns -> Seq(Pairs)] /\ got \in [Txns -> Seq(Pairs)]
    /\ buf \in [Txns -> Keys \cup {None}]
    /\ must \in [Txns -> SUBSET Rids] /\ gone \in [Txns -> SUBSET Rids]
    /\ failed \subseteq Txns
TaskType ==
    /\ work \in [Txns -> Seq(OpType)] /\ cur \in [Txns -> Buckets \cup {None}]
    /\ abortActions \in [Txns -> Seq(EntryType)] /\ commitActions \in [Txns -> Seq(EntryType)]
    /\ undo \in [Txns -> Seq(UndoType)]
\* The types of the variables.
TypeOK == TableType /\ IndexType /\ QueryType /\ TaskType

(* Where a transaction is: only a statement that reads has entries and     *)
(* collected tuples, only a hash operation has a bucket, and the work of   *)
(* a statement is insertions, that of Commit and Abort removals.           *)
Control(t) ==
    /\ pc[t] \in {"ready", "commit", "abort"} => cmd[t] = NoCmd /\ must[t] = {}
    /\ pc[t] \in {"scankey", "read"} => cmd[t] \in Commands
    /\ pc[t] # "read" => entries[t] = <<>> /\ got[t] = <<>>
    /\ pc[t] \in {"ready", "scankey"} => work[t] = <<>>
    /\ work[t] = <<>> /\ pc[t] # "scankey" => cur[t] = None
    /\ pc[t] = "scankey" => cur[t] # None
    /\ work[t] # <<>> => entries[t] = <<>>
    /\ \A n \in DOMAIN work[t] : work[t][n].op = (IF pc[t] = "read" THEN "insert" ELSE "remove")
ControlOK == \A t \in Txns : Control(t)

\* What a statement is.
LEMMA CommandFacts ==
    \A c \in Commands : /\ c.kind \in {"insert", "select", "delete", "update"}
                        /\ c.path \in {"hash", "btree", "scan"} /\ c.key \in Keys /\ c.new \in Keys
                        /\ c # NoCmd
<1> TAKE c \in Commands
<1>1. PICK d \in [kind : {"insert", "select", "delete", "update"},
                  path : {"hash", "btree", "scan"}, key : Keys, new : Keys] : c = d
    BY TableAssumption
<1>2. d.kind # NoCmd.kind
    BY DEF NoCmd
<1> QED
    BY <1>1, <1>2

\* Index operations.
LEMMA EntryFacts ==
    \A k \in Keys, r \in Rids :
        /\ \A i \in Indexes : Entry(i, k, r) \in EntryType
        /\ Inserts(k, r) \in Seq(OpType)
        /\ Len(Inserts(k, r)) = 2 /\ DOMAIN Inserts(k, r) = 1 .. 2
        /\ Inserts(k, r)[1] = [op |-> "insert", entry |-> Entry("hash", k, r)]
        /\ Inserts(k, r)[2] = [op |-> "insert", entry |-> Entry("btree", k, r)]
        /\ Inserts(k, r) # <<>>
<1> TAKE k \in Keys, r \in Rids
<1>1. \A i \in Indexes : Entry(i, k, r) \in EntryType
    BY DEF Entry, EntryType
<1> DEFINE a == Entry("hash", k, r)
           b == Entry("btree", k, r)
           s == <<a, b>>
<1>2. a \in EntryType /\ b \in EntryType
    BY <1>1 DEF Indexes
<1>3. Inserts(k, r) = Ops("insert", s)
    BY DEF Inserts
<1> HIDE DEF a, b
<1>4. DOMAIN s = 1 .. 2 /\ s[1] = a /\ s[2] = b
    OBVIOUS
<1>5. Ops("insert", s) = [n \in 1 .. 2 |-> [op |-> "insert", entry |-> s[n]]]
    BY <1>4 DEF Ops
<1>6. /\ DOMAIN Ops("insert", s) = 1 .. 2
      /\ Ops("insert", s)[1] = [op |-> "insert", entry |-> a]
      /\ Ops("insert", s)[2] = [op |-> "insert", entry |-> b]
    BY <1>4, <1>5
<1>7. Ops("insert", s) \in Seq(OpType)
    <2>1. \A n \in 1 .. 2 : n = 1 \/ n = 2
        OBVIOUS
    <2>2. \A n \in 1 .. 2 : [op |-> "insert", entry |-> s[n]] \in OpType
        BY <1>2, <1>4, <2>1 DEF OpType
    <2> DEFINE f(n) == [op |-> "insert", entry |-> s[n]]
    <2>3. Ops("insert", s) = [n \in 1 .. 2 |-> f(n)] /\ \A n \in 1 .. 2 : f(n) \in OpType
        BY <1>5, <2>2
    <2> HIDE DEF f
    <2>4. [n \in 1 .. 2 |-> f(n)] \in [1 .. 2 -> OpType] /\ 2 \in Nat
        BY <2>3
    <2>5. Seq(OpType) = UNION {[1 .. n -> OpType] : n \in Nat}
        BY SeqDef
    <2> QED
        BY <2>3, <2>4, <2>5, Zenon
<1>8. Ops("insert", s) # <<>>
    BY <1>6
<1>11. Len(Ops("insert", s)) = 2
    BY <1>6, <1>7
<1> HIDE DEF s
<1> QED
    BY <1>1, <1>3, <1>6, <1>7, <1>8, <1>11 DEF a, b

\* The insertions of a row's entries.
LEMMA InsertsFacts ==
    ASSUME NEW k \in Keys, NEW r \in Rids, NEW n \in DOMAIN Inserts(k, r)
    PROVE  /\ Inserts(k, r)[n].op = "insert" /\ Inserts(k, r)[n].entry.rid = r
           /\ Inserts(k, r)[n].entry.key = k
           /\ Inserts(k, r)[n] = [op |-> "insert", entry |-> Inserts(k, r)[n].entry]
<1>0. DOMAIN Inserts(k, r) = 1 .. 2
    BY EntryFacts
<1>1. n = 1 \/ n = 2
    BY <1>0
<1>2. PICK i \in Indexes : Inserts(k, r)[n] = [op |-> "insert", entry |-> Entry(i, k, r)]
    BY <1>1, EntryFacts DEF Indexes
<1>3. Entry(i, k, r).rid = r /\ Entry(i, k, r).key = k
    BY DEF Entry
<1> QED
    BY <1>2, <1>3

\* The operations made of a list of entries.
LEMMA OpsFacts ==
    ASSUME NEW es \in Seq(EntryType), NEW o \in {"insert", "remove"}
    PROVE  /\ Ops(o, es) \in Seq(OpType) /\ DOMAIN Ops(o, es) = DOMAIN es
           /\ \A n \in DOMAIN es : Ops(o, es)[n] = [op |-> o, entry |-> es[n]]
           /\ \A n \in DOMAIN es : Ops(o, es)[n].op = o /\ Ops(o, es)[n].entry = es[n]
<1>1. \A n \in DOMAIN es : [op |-> o, entry |-> es[n]] \in OpType
    BY DEF OpType
<1>2. DOMAIN es = 1 .. Len(es) /\ Len(es) \in Nat
    OBVIOUS
<1> QED
    BY <1>1, <1>2 DEF Ops

\* The first operation and the ones left.
LEMMA WorkFacts ==
    ASSUME NEW w \in Seq(OpType), w # <<>>
    PROVE  /\ Head(w) \in OpType /\ Head(w) = w[1] /\ 1 \in DOMAIN w
           /\ Head(w).entry \in EntryType /\ Head(w).op \in {"insert", "remove"}
           /\ Head(w).entry.key \in Keys /\ Head(w).entry.rid \in Rids /\ Head(w).entry.index \in Indexes
           /\ Head(w).entry = Entry(Head(w).entry.index, Head(w).entry.key, Head(w).entry.rid)
           /\ Head(w) = [op |-> Head(w).op, entry |-> Head(w).entry]
           /\ Tail(w) \in Seq(OpType) /\ DOMAIN Tail(w) = 1 .. Len(w) - 1
           /\ \A n \in DOMAIN Tail(w) : Tail(w)[n] = w[n + 1] /\ n + 1 \in DOMAIN w /\ n + 1 # 1
           /\ \A n \in DOMAIN w : n # 1 => n - 1 \in DOMAIN Tail(w) /\ Tail(w)[n - 1] = w[n]
<1>1. Head(w) \in OpType /\ Head(w) = w[1] /\ 1 \in DOMAIN w
    OBVIOUS
<1>2. PICK o \in OpType : o = Head(w)
    BY <1>1
<1>3. PICK e \in EntryType : e = o.entry
    BY DEF OpType
<1>4. o.op \in {"insert", "remove"} /\ o = [op |-> o.op, entry |-> o.entry]
    BY DEF OpType
<1>5. e.key \in Keys /\ e.rid \in Rids /\ e.index \in Indexes /\ e = Entry(e.index, e.key, e.rid)
    BY DEF EntryType, Entry
<1>6. /\ Tail(w) \in Seq(OpType) /\ DOMAIN Tail(w) = 1 .. Len(w) - 1
      /\ \A n \in DOMAIN Tail(w) : Tail(w)[n] = w[n + 1] /\ n + 1 \in DOMAIN w /\ n + 1 # 1
      /\ \A n \in DOMAIN w : n # 1 => n - 1 \in DOMAIN Tail(w) /\ Tail(w)[n - 1] = w[n]
    OBVIOUS
<1> QED
    BY <1>1, <1>2, <1>3, <1>4, <1>5, <1>6

\* The removals DeleteEntry defers.
LEMMA DeferredFacts ==
    ASSUME NEW k \in Keys \cup {None}, NEW r \in Rids
    PROVE  Deferred(k, r) \in Seq(EntryType)
<1>1. CASE k = None
    BY <1>1 DEF Deferred
<1>2. CASE k \in Keys
    <2>1. DeferredOf("hash", k, r) \in Seq(EntryType) /\ DeferredOf("btree", k, r) \in Seq(EntryType)
        <3>1. ASSUME NEW i \in Indexes PROVE DeferredOf(i, k, r) \in Seq(EntryType)
            <4>0. PICK e \in EntryType : e = Entry(i, k, r)
                BY <1>2, EntryFacts
            <4>1. <<e>> \in Seq(EntryType) /\ <<>> \in Seq(EntryType)
                OBVIOUS
            <4>2. DeferredOf(i, k, r) = <<Entry(i, k, r)>> \/ DeferredOf(i, k, r) = <<>>
                BY DEF DeferredOf
            <4> QED
                BY <4>0, <4>1, <4>2
        <3> QED
            BY <3>1 DEF Indexes
    <2> QED
        BY <1>2, <2>1, TableAssumption DEF Deferred
<1> QED
    BY <1>1, <1>2

\* The entries of a bucket as its scan returns them.
LEMMA RidsOfFacts ==
    ASSUME NEW es \in Seq(Pairs)
    PROVE  RidsOf(es) \in Seq(Rids) /\ DOMAIN RidsOf(es) = DOMAIN es /\ \A n \in DOMAIN es : RidsOf(es)[n] = es[n][2]
<1>1. \A n \in DOMAIN es : es[n][2] \in Rids
    BY DEF Pairs
<1>2. DOMAIN es = 1 .. Len(es) /\ Len(es) \in Nat
    OBVIOUS
<1> QED
    BY <1>1, <1>2 DEF RidsOf

\* The rebuilt indexes.
LEMMA RebuiltTypes ==
    ASSUME committed \in [Rids -> Keys \cup {None}]
    PROVE  /\ RebuiltTree \subseteq Pairs /\ RebuiltMap \in [Keys -> Buckets \cup {None}]
           /\ RebuiltBuckets \in [Buckets -> Seq(Rids)] /\ RebuiltRemoved \subseteq Buckets
           /\ \A b \in Keys : LET s == RebuiltBuckets[b]
                              IN  /\ \A r \in Rids : In(s, r) <=> committed[r] = b
                                  /\ \A r \in Rids : Once(s, r)
           /\ \A b \in Buckets \ Keys : RebuiltBuckets[b] = <<>>
<1>1. RebuiltTree \subseteq Pairs
    BY DEF RebuiltTree, Pairs
<1>2. RebuiltMap \in [Keys -> Buckets \cup {None}] /\ RebuiltRemoved \subseteq Buckets
    BY TableAssumption DEF RebuiltMap, RebuiltRemoved
<1>3. ASSUME NEW b \in Keys
      PROVE  LET s == RidsOf(InOrder({b} \X RowsOf(b)))
             IN  /\ s \in Seq(Rids)
                 /\ \A r \in Rids : In(s, r) <=> committed[r] = b
                 /\ \A r \in Rids : Once(s, r)
    <2> DEFINE S == {b} \X RowsOf(b)
               io == InOrder(S)
               s == RidsOf(io)
    <2>1. S \in SUBSET Pairs /\ \A e \in S : e = <<b, e[2]>> /\ e[2] \in RowsOf(b)
        BY DEF RowsOf, Pairs
    <2>2. /\ io \in Seq(S)
          /\ \A e \in S : \E n \in DOMAIN io : io[n] = e
          /\ \A m, n \in DOMAIN io : io[m] = io[n] => m = n
        BY <2>1, InOrderOnto
    <2>3. io \in Seq(Pairs)
        BY <2>1, <2>2
    <2>4. \A r \in RowsOf(b) : <<b, r>> \in S
        OBVIOUS
    <2>5. \A n \in DOMAIN io : io[n] \in S
        BY <2>2
    <2> HIDE DEF io, S
    <2>6. s \in Seq(Rids) /\ DOMAIN s = DOMAIN io /\ \A n \in DOMAIN io : s[n] = io[n][2]
        BY <2>3, RidsOfFacts
    <2>7. \A n \in DOMAIN s : io[n] = <<b, s[n]>> /\ s[n] \in RowsOf(b)
        BY <2>1, <2>5, <2>6
    <2>8. \A r \in RowsOf(b) : \E n \in DOMAIN s : s[n] = r
        <3> TAKE r \in RowsOf(b)
        <3>1. PICK n \in DOMAIN io : io[n] = <<b, r>>
            BY <2>2, <2>4
        <3> QED
            BY <2>6, <3>1
    <2>9. \A r \in Rids : r \in RowsOf(b) <=> committed[r] = b
        BY DEF RowsOf
    <2>10. \A m, n \in DOMAIN s : s[m] = s[n] => m = n
        BY <2>2, <2>6, <2>7
    <2> HIDE DEF s
    <2>11. \A r \in Rids : In(s, r) <=> committed[r] = b
        BY <2>7, <2>8, <2>9 DEF In
    <2>12. \A r \in Rids : Once(s, r)
        BY <2>10 DEF Once
    <2> QED
        BY <2>6, <2>11, <2>12 DEF s, io, S
<1>4. \A b \in Buckets : RebuiltBuckets[b] = IF b \in Keys THEN RidsOf(InOrder({b} \X RowsOf(b))) ELSE <<>>
    BY DEF RebuiltBuckets
<1>5. RebuiltBuckets = [b \in Buckets |-> RebuiltBuckets[b]]
    BY DEF RebuiltBuckets
<1>6. ASSUME NEW b \in Keys
      PROVE  /\ RebuiltBuckets[b] \in Seq(Rids)
             /\ \A r \in Rids : In(RebuiltBuckets[b], r) <=> committed[r] = b
             /\ \A r \in Rids : Once(RebuiltBuckets[b], r)
    <2>1. RebuiltBuckets[b] = RidsOf(InOrder({b} \X RowsOf(b)))
        BY <1>4, TableAssumption
    <2>2. LET s == RebuiltBuckets[b]
          IN  /\ s \in Seq(Rids)
              /\ \A r \in Rids : In(s, r) <=> committed[r] = b
              /\ \A r \in Rids : Once(s, r)
        BY <1>3, <2>1
    <2> QED
        BY <2>2
<1>7. \A b \in Buckets \ Keys : RebuiltBuckets[b] = <<>>
    BY <1>4
<1>8. \A b \in Buckets : RebuiltBuckets[b] \in Seq(Rids)
    <2> TAKE b \in Buckets
    <2>1. CASE b \in Keys
        BY <1>6, <2>1
    <2>2. CASE b \notin Keys
        <3>1. RebuiltBuckets[b] = <<>> /\ <<>> \in Seq(Rids)
            BY <1>7, <2>2
        <3> QED
            BY <3>1
    <2> QED
        BY <2>1, <2>2
<1>9. RebuiltBuckets \in [Buckets -> Seq(Rids)]
    BY <1>5, <1>8
<1> QED
    BY <1>1, <1>2, <1>6, <1>7, <1>9

-----------------------------------------------------------------------------
(* Types are kept *)

\* The types and the control of transactions hold initially and after a restart.
LEMMA InitTypes == Init => TypeOK /\ ControlOK
<1> SUFFICES ASSUME Init PROVE TypeOK /\ ControlOK
    OBVIOUS
<1>1. TableType
    BY DEF Init, TableType
<1>2. IndexType
    BY RebuiltTypes DEF Init, IndexType
<1>3. QueryType
    BY DEF Init, QueryType, Each
<1>4. TaskType
    BY DEF Init, TaskType, Each
<1>5. ControlOK
    BY DEF Init, ControlOK, Control, Each
<1> QED
    BY <1>1, <1>2, <1>3, <1>4, <1>5 DEF TypeOK

\* A restart.
LEMMA RecoverTypes ==
    ASSUME TypeOK, Recover
    PROVE  (TypeOK /\ ControlOK)'
<1>1. PICK lost \in SUBSET {r \in Rids : xlock[r] # None /\ committed[r] = None} :
        /\ allocated' = {r \in Rids : committed[r] # None \/ r \in allocated \ lost}
        /\ deleted' = {r \in Rids \ lost : /\ committed[r] = None
                                           /\ r \in allocated \/ (r \in deleted /\ xlock[r] = None)}
    BY DEF Recover
<1>2. TableType'
    BY <1>1 DEF Recover, TypeOK, TableType
<1>3. IndexType'
    BY RebuiltTypes DEF Recover, TypeOK, TableType, IndexType
<1>4. QueryType'
    BY DEF Recover, QueryType, Each
<1>5. TaskType'
    BY DEF Recover, TaskType, Each
<1>6. ControlOK'
    BY DEF Recover, ControlOK, Control, Each
<1> QED
    BY <1>2, <1>3, <1>4, <1>5, <1>6 DEF TypeOK

\* The entries a lookup in the B-tree finds.
LEMMA TreeEntriesFacts ==
    ASSUME TypeOK, NEW c \in Commands
    PROVE  /\ TreeEntries(c) \in Seq(Pairs)
           /\ \A e \in btree : e[1] \in Sought(c) => \E n \in DOMAIN TreeEntries(c) : TreeEntries(c)[n] = e
           /\ \A n \in DOMAIN TreeEntries(c) : TreeEntries(c)[n] \in btree /\ TreeEntries(c)[n][1] \in Sought(c)
           /\ \A m, n \in DOMAIN TreeEntries(c) : TreeEntries(c)[m] = TreeEntries(c)[n] => m = n
<1> DEFINE S == {e \in btree : e[1] \in Sought(c)}
<1>1. S \in SUBSET Pairs
    BY DEF TypeOK, IndexType
<1>2. TreeEntries(c) = InOrder(S)
    BY DEF TreeEntries
<1>3. \A e \in btree : e[1] \in Sought(c) => e \in S
    OBVIOUS
<1>4. \A e \in S : e \in btree /\ e[1] \in Sought(c)
    OBVIOUS
<1> HIDE DEF S
<1>5. InOrder(S) \in Seq(S)
    BY <1>1, InOrderOnto
<1>6. InOrder(S) \in Seq(Pairs)
    BY <1>1, <1>5
<1>7. \A n \in DOMAIN InOrder(S) : InOrder(S)[n] \in S
    BY <1>5
<1> QED
    BY <1>1, <1>2, <1>3, <1>4, <1>6, <1>7, InOrderOnto

\* InsertTuple.
LEMMA InsertTypes ==
    ASSUME TypeOK, ControlOK, NEW t \in Txns, NEW c \in Commands, InsertTuple(t, c)
    PROVE  (TypeOK /\ ControlOK)'
<1> USE DEF Set
<1>1. PICK r \in Rids \ allocated :
        /\ xlock' = [xlock EXCEPT ![r] = t]
        /\ allocated' = allocated \cup {r} /\ tuple' = [tuple EXCEPT ![r] = c.key]
        /\ work' = [work EXCEPT ![t] = Inserts(c.key, r)]
        /\ undo' = [undo EXCEPT ![t] = Append(@, [type |-> "insert", rid |-> r, key |-> None])]
    BY DEF InsertTuple, LockX
<1>2. c.key \in Keys /\ Inserts(c.key, r) \in Seq(OpType)
    BY CommandFacts, EntryFacts
<1>3. TableType'
    BY <1>1, <1>2 DEF InsertTuple, TypeOK, TableType
<1>4. IndexType'
    BY DEF InsertTuple, TypeOK, IndexType, indexVars, hashVars
<1>5. QueryType'
    BY DEF InsertTuple, Issue, TypeOK, QueryType
<1>6. TaskType'
    <2>1. [type |-> "insert", rid |-> r, key |-> None] \in UndoType
        BY DEF UndoType
    <2> QED
        BY <1>1, <1>2, <2>1 DEF InsertTuple, TypeOK, TaskType
<1>7. ASSUME NEW u \in Txns PROVE Control(u)'
    <2>1. CASE u = t
        <3>1. /\ pc'[t] = "read" /\ cmd'[t] = c /\ entries'[t] = <<>> /\ got'[t] = <<>>
              /\ cur'[t] = None /\ work'[t] = Inserts(c.key, r)
            BY <1>1 DEF InsertTuple, Issue, Idle, TypeOK, QueryType, TaskType, ControlOK, Control
        <3>2. Inserts(c.key, r) # <<>> /\ \A n \in DOMAIN Inserts(c.key, r) : Inserts(c.key, r)[n].op = "insert"
            <4>1. c.key \in Keys /\ r \in Rids
                BY <1>2
            <4>2. \A n \in DOMAIN Inserts(c.key, r) : Inserts(c.key, r)[n].op = "insert"
                BY <4>1, InsertsFacts
            <4>3. Inserts(c.key, r) # <<>>
                BY <4>1, EntryFacts
            <4> QED
                BY <4>2, <4>3
        <3> QED
            BY <2>1, <3>1, <3>2 DEF Control
    <2>2. CASE u # t
        BY <1>1, <2>2 DEF InsertTuple, Issue, TypeOK, QueryType, TaskType, ControlOK, Control
    <2> QED
        BY <2>1, <2>2
<1> QED
    BY <1>3, <1>4, <1>5, <1>6, <1>7 DEF TypeOK, ControlOK

\* TreeLookup, HashLookup and ScanBucket.
LEMMA TreeLookupTypes ==
    ASSUME TypeOK, ControlOK, NEW t \in Txns, NEW c \in Commands, TreeLookup(t, c)
    PROVE  (TypeOK /\ ControlOK)'
<1> USE DEF Set
<1>1. TreeEntries(c) \in Seq(Pairs)
    BY TreeEntriesFacts
<1>2. MustFind(t, c) \subseteq Rids
    BY DEF MustFind
<1>3. TableType' /\ IndexType' /\ TaskType'
    BY DEF TreeLookup, TypeOK, TableType, IndexType, TaskType, heapVars, lockVars, indexVars, hashVars, opVars, taskVars
<1>4. QueryType'
    BY <1>1, <1>2 DEF TreeLookup, Issue, TypeOK, QueryType
<1>5. ControlOK'
    BY DEF TreeLookup, Issue, Idle, TypeOK, QueryType, TaskType, ControlOK, Control, opVars, taskVars
<1> QED
    BY <1>3, <1>4, <1>5 DEF TypeOK

\* HashLookup: a bucket is loaded, or none is there.
LEMMA HashLookupTypes ==
    ASSUME TypeOK, ControlOK, NEW t \in Txns, NEW c \in Commands, HashLookup(t, c)
    PROVE  (TypeOK /\ ControlOK)'
<1> USE DEF Set
<1>1. c.key \in Keys /\ hmap[c.key] \in Buckets \cup {None}
    BY CommandFacts DEF TypeOK, IndexType
<1>2. MustFind(t, c) \subseteq Rids
    BY DEF MustFind
<1>3. TableType' /\ IndexType'
    BY DEF HashLookup, TypeOK, TableType, IndexType, heapVars, lockVars, indexVars, hashVars
<1>4. QueryType'
    BY <1>1, <1>2 DEF HashLookup, Issue, LoadForScan, TypeOK, QueryType
<1>5. TaskType'
    BY <1>1 DEF HashLookup, LoadForScan, TypeOK, TaskType, taskVars
<1>6. ControlOK'
    BY <1>1, SMTT(30) DEF HashLookup, LoadForScan, Issue, Idle, TypeOK, QueryType, TaskType, ControlOK,
                          Control, taskVars
<1> QED
    BY <1>3, <1>4, <1>5, <1>6 DEF TypeOK

\* ScanBucket: the rids of a bucket become entries.
LEMMA ScanBucketTypes ==
    ASSUME TypeOK, ControlOK, NEW t \in Txns, ScanBucket(t)
    PROVE  (TypeOK /\ ControlOK)'
<1> USE DEF Set
<1> DEFINE k == cmd[t].key
           b == bucket[cur[t]]
           es == [n \in DOMAIN b |-> <<k, b[n]>>]
<1>1. k \in Keys /\ hmap[k] \in Buckets \cup {None} /\ b \in Seq(Rids) /\ pc[t] = "scankey"
    BY CommandFacts DEF ScanBucket, TypeOK, IndexType, QueryType, TaskType, ControlOK, Control
<1>2. es \in Seq(Pairs)
    <2>1. DOMAIN b = 1 .. Len(b) /\ Len(b) \in Nat /\ \A n \in DOMAIN b : <<k, b[n]>> \in Pairs
        BY <1>1 DEF Pairs
    <2> HIDE DEF k, b
    <2> QED
        BY <2>1
<1>3. TableType' /\ IndexType'
    BY DEF ScanBucket, TypeOK, TableType, IndexType, heapVars, lockVars, indexVars, hashVars
<1>4. CASE cur[t] \in removed
    <2>1. QueryType'
        BY <1>1, <1>4 DEF ScanBucket, LoadForScan, TypeOK, QueryType
    <2>2. TaskType'
        BY <1>1, <1>4 DEF ScanBucket, LoadForScan, TypeOK, TaskType, taskVars
    <2>3. ControlOK'
        BY <1>1, <1>4 DEF ScanBucket, LoadForScan, TypeOK, QueryType, TaskType, ControlOK, Control, taskVars
    <2> QED
        BY <1>3, <2>1, <2>2, <2>3 DEF TypeOK
<1>5. CASE cur[t] \notin removed
    <2> HIDE DEF es
    <2>0. /\ pc' = [pc EXCEPT ![t] = "read"] /\ cur' = [cur EXCEPT ![t] = None]
          /\ entries' = [entries EXCEPT ![t] = es]
        BY <1>5 DEF ScanBucket, es
    <2>1. QueryType'
        BY <1>2, <2>0 DEF ScanBucket, TypeOK, QueryType
    <2>2. TaskType'
        BY <2>0 DEF ScanBucket, TypeOK, TaskType, taskVars
    <2>3. ControlOK'
        BY <1>1, <2>0 DEF ScanBucket, TypeOK, QueryType, TaskType, ControlOK, Control, taskVars
    <2> QED
        BY <1>3, <2>1, <2>2, <2>3 DEF TypeOK
<1> QED
    BY <1>4, <1>5

\* The entry a statement reads next.
LEMMA PairFacts ==
    ASSUME NEW es \in Seq(Pairs), es # <<>>
    PROVE  /\ Head(es) = es[1] /\ 1 \in DOMAIN es /\ Head(es) \in Pairs
           /\ Head(es)[1] \in Keys /\ Head(es)[2] \in Rids /\ Head(es) = <<Head(es)[1], Head(es)[2]>>
           /\ Tail(es) \in Seq(Pairs) /\ DOMAIN Tail(es) = 1 .. Len(es) - 1
           /\ \A n \in DOMAIN Tail(es) : Tail(es)[n] = es[n + 1] /\ n + 1 \in DOMAIN es /\ n + 1 # 1
           /\ \A n \in DOMAIN es : n # 1 => n - 1 \in DOMAIN Tail(es) /\ Tail(es)[n - 1] = es[n]
<1>1. Head(es) = es[1] /\ 1 \in DOMAIN es /\ Head(es) \in Pairs
    OBVIOUS
<1>2. Head(es)[1] \in Keys /\ Head(es)[2] \in Rids /\ Head(es) = <<Head(es)[1], Head(es)[2]>>
    BY <1>1 DEF Pairs
<1>3. /\ Tail(es) \in Seq(Pairs) /\ DOMAIN Tail(es) = 1 .. Len(es) - 1
      /\ \A n \in DOMAIN Tail(es) : Tail(es)[n] = es[n + 1] /\ n + 1 \in DOMAIN es /\ n + 1 # 1
      /\ \A n \in DOMAIN es : n # 1 => n - 1 \in DOMAIN Tail(es) /\ Tail(es)[n - 1] = es[n]
    OBVIOUS
<1> QED
    BY <1>1, <1>2, <1>3

\* ReadEntry, LockFails and Return.
LEMMA ReadEntryTypes ==
    ASSUME TypeOK, ControlOK, NEW t \in Txns, ReadEntry(t)
    PROVE  (TypeOK /\ ControlOK)'
<1> USE DEF Set
<1> DEFINE k == Head(entries[t])[1]
           r == Head(entries[t])[2]
<1>0. entries[t] \in Seq(Pairs) /\ entries[t] # <<>> /\ got[t] \in Seq(Pairs)
    BY DEF ReadEntry, TypeOK, QueryType
<1>1. k \in Keys /\ r \in Rids /\ Tail(entries[t]) \in Seq(Pairs) /\ <<k, r>> \in Pairs
    <2>1. k \in Keys /\ r \in Rids /\ Tail(entries[t]) \in Seq(Pairs)
        BY <1>0, PairFacts
    <2> QED
        BY <2>1 DEF Pairs
<1>2. TakeLock(t, r) /\ Fetched(t, k, r)
    BY DEF ReadEntry
<1>3. entries' = [entries EXCEPT ![t] = Tail(@)]
    BY DEF ReadEntry
<1> HIDE DEF k, r
<1>4. TableType'
    BY <1>1, <1>2 DEF ReadEntry, TakeLock, LockX, TypeOK, TableType, heapVars
<1>5. IndexType' /\ TaskType'
    BY DEF ReadEntry, TypeOK, IndexType, TaskType, indexVars, hashVars, opVars, taskVars
<1>6. QueryType'
    <2>1. Append(got[t], <<k, r>>) \in Seq(Pairs)
        BY <1>0, <1>1
    <2>2. got' \in [Txns -> Seq(Pairs)]
        BY <1>2, <2>1 DEF Fetched, TypeOK, QueryType
    <2>3. buf' \in [Txns -> Keys \cup {None}]
        BY <1>1, <1>2 DEF Fetched, TypeOK, QueryType, TableType
    <2>4. entries' \in [Txns -> Seq(Pairs)]
        BY <1>1, <1>3 DEF TypeOK, QueryType
    <2>5. failed' \subseteq Txns
        BY <1>2 DEF Fetched, TypeOK, QueryType
    <2> QED
        BY <2>2, <2>3, <2>4, <2>5 DEF ReadEntry, TypeOK, QueryType
<1>7. ControlOK'
    <2>1. \A u \in Txns \ {t} : got'[u] = got[u] /\ entries'[u] = entries[u]
        BY <1>2, <1>3 DEF Fetched, TypeOK, QueryType
    <2>2. pc[t] = "read" /\ work[t] = <<>>
        BY DEF ReadEntry, Reading
    <2> QED
        BY <2>1, <2>2 DEF ReadEntry, ControlOK, Control, opVars, taskVars
<1> QED
    BY <1>4, <1>5, <1>6, <1>7 DEF TypeOK

\* LockFails.
LEMMA LockFailsTypes ==
    ASSUME TypeOK, ControlOK, NEW t \in Txns, LockFails(t)
    PROVE  (TypeOK /\ ControlOK)'
<1> USE DEF Set
<1>1. TableType' /\ IndexType' /\ TaskType'
    BY DEF LockFails, TypeOK, TableType, IndexType, TaskType, heapVars, lockVars, indexVars, hashVars, opVars, taskVars
<1>2. QueryType'
    BY DEF LockFails, TypeOK, QueryType
<1>3. ControlOK'
    BY DEF LockFails, Reading, TypeOK, QueryType, TaskType, ControlOK, Control, opVars, taskVars
<1> QED
    BY <1>1, <1>2, <1>3 DEF TypeOK

\* Return clears the statement.
LEMMA ReturnTypes ==
    ASSUME TypeOK, ControlOK, NEW t \in Txns, Return(t)
    PROVE  (TypeOK /\ ControlOK)'
<1> USE DEF Set
<1>1. TableType' /\ IndexType' /\ TaskType'
    BY DEF Return, TypeOK, TableType, IndexType, TaskType, heapVars, lockVars, indexVars, hashVars, opVars, taskVars
<1>2. QueryType'
    BY DEF Return, TypeOK, QueryType
<1>3. ControlOK'
    BY DEF Return, Reading, TypeOK, QueryType, TaskType, ControlOK, Control, opVars, taskVars
<1> QED
    BY <1>1, <1>2, <1>3 DEF TypeOK

\* DeleteOne.
LEMMA DeleteTypes ==
    ASSUME TypeOK, ControlOK, NEW t \in Txns, DeleteOne(t)
    PROVE  (TypeOK /\ ControlOK)'
<1> USE DEF Set
<1> DEFINE r == Head(got[t])[2]
<1>0. got[t] \in Seq(Pairs) /\ got[t] # <<>> /\ pc[t] = "read" /\ work[t] = <<>>
    BY DEF DeleteOne, Changing, Reading, TypeOK, QueryType
<1>1. r \in Rids /\ Tail(got[t]) \in Seq(Pairs)
    BY <1>0, PairFacts
<1>2. IF r \in deleted THEN AlreadyDeleted(t) ELSE DeleteLive(t, r)
    BY DEF DeleteOne
<1> HIDE DEF r
<1>3. IndexType'
    BY DEF DeleteOne, TypeOK, IndexType, indexVars, hashVars
<1>4. CASE r \in deleted
    <2>1. TableType'
        BY <1>2, <1>4 DEF AlreadyDeleted, DeleteOne, TypeOK, TableType, lockVars
    <2>2. TaskType'
        BY <1>2, <1>4 DEF AlreadyDeleted, DeleteOne, TypeOK, TaskType
    <2>3. QueryType'
        <3>1. got' = [got EXCEPT ![t] = <<>>] /\ failed' = failed \cup {t}
            BY <1>2, <1>4 DEF AlreadyDeleted
        <3>2. got' \in [Txns -> Seq(Pairs)]
            BY <3>1 DEF TypeOK, QueryType
        <3> QED
            BY <3>1, <3>2 DEF DeleteOne, TypeOK, QueryType
    <2>4. ControlOK'
        BY <1>0, <1>2, <1>4 DEF AlreadyDeleted, DeleteOne, TypeOK, QueryType, ControlOK, Control
    <2> QED
        BY <1>3, <2>1, <2>2, <2>3, <2>4 DEF TypeOK
<1>5. CASE r \notin deleted
    <2> DEFINE rec == [type |-> "delete", rid |-> r, key |-> tuple[r]]
    <2>0. /\ rec \in UndoType /\ Deferred(buf[t], r) \in Seq(EntryType)
          /\ undo[t] \in Seq(UndoType) /\ commitActions[t] \in Seq(EntryType)
        BY <1>1, DeferredFacts DEF TypeOK, TableType, QueryType, TaskType, UndoType
    <2>1. TableType'
        BY <1>1, <1>2, <1>5 DEF DeleteLive, DeleteOne, TypeOK, TableType, lockVars
    <2>2. TaskType'
        <3>1. Append(undo[t], rec) \in Seq(UndoType) /\ commitActions[t] \o Deferred(buf[t], r) \in Seq(EntryType)
            BY <2>0
        <3> HIDE DEF rec
        <3>2. /\ undo' = [undo EXCEPT ![t] = Append(@, rec)]
              /\ commitActions' = [commitActions EXCEPT ![t] = @ \o Deferred(buf[t], r)]
              /\ UNCHANGED <<work, cur, abortActions>>
            BY <1>2, <1>5 DEF DeleteLive, DeleteOne, rec
        <3> QED
            BY <3>1, <3>2 DEF TypeOK, TaskType
    <2>3. QueryType'
        BY <1>1, <1>2, <1>5 DEF DeleteLive, DeleteOne, TypeOK, QueryType
    <2>4. ControlOK'
        BY <1>0, <1>2, <1>5 DEF DeleteLive, DeleteOne, TypeOK, QueryType, ControlOK, Control
    <2> QED
        BY <1>3, <2>1, <2>2, <2>3, <2>4 DEF TypeOK
<1> QED
    BY <1>4, <1>5

\* UpdateOne.
LEMMA UpdateTypes ==
    ASSUME TypeOK, ControlOK, NEW t \in Txns, UpdateOne(t)
    PROVE  (TypeOK /\ ControlOK)'
<1> USE DEF Set
<1> DEFINE old == Head(got[t])[1]
           r == Head(got[t])[2]
           new == cmd[t].new
<1>0. /\ got[t] \in Seq(Pairs) /\ got[t] # <<>> /\ pc[t] = "read" /\ work[t] = <<>> /\ cur[t] = None
      /\ entries[t] = <<>>
    BY DEF UpdateOne, Changing, Reading, TypeOK, QueryType, ControlOK, Control
<1>1. r \in Rids /\ old \in Keys /\ Tail(got[t]) \in Seq(Pairs)
    BY <1>0, PairFacts
<1>1a. new \in Keys
    BY <1>0, CommandFacts DEF ControlOK, Control
<1>2. IF r \in deleted THEN AlreadyDeleted(t) ELSE UpdateLive(t, r, old, new)
    BY DEF UpdateOne
<1> HIDE DEF r, old, new
<1>3. IndexType'
    BY DEF UpdateOne, TypeOK, IndexType, indexVars, hashVars
<1>4. CASE r \in deleted
    <2>1. TableType'
        BY <1>2, <1>4 DEF AlreadyDeleted, UpdateOne, TypeOK, TableType, lockVars
    <2>2. TaskType'
        BY <1>2, <1>4 DEF AlreadyDeleted, UpdateOne, TypeOK, TaskType
    <2>3. QueryType'
        <3>1. got' = [got EXCEPT ![t] = <<>>] /\ failed' = failed \cup {t}
            BY <1>2, <1>4 DEF AlreadyDeleted
        <3>2. got' \in [Txns -> Seq(Pairs)]
            BY <3>1 DEF TypeOK, QueryType
        <3> QED
            BY <3>1, <3>2 DEF UpdateOne, TypeOK, QueryType
    <2>4. ControlOK'
        BY <1>0, <1>2, <1>4 DEF AlreadyDeleted, UpdateOne, TypeOK, QueryType, ControlOK, Control
    <2> QED
        BY <1>3, <2>1, <2>2, <2>3, <2>4 DEF TypeOK
<1>5. CASE r \notin deleted
    <2> DEFINE rec == [type |-> "update", rid |-> r, key |-> tuple[r]]
    <2>0. /\ rec \in UndoType /\ Deferred(old, r) \in Seq(EntryType)
          /\ undo[t] \in Seq(UndoType) /\ commitActions[t] \in Seq(EntryType)
        BY <1>1, DeferredFacts DEF TypeOK, TableType, TaskType, UndoType
    <2>a. Inserts(new, r) \in Seq(OpType)
        BY <1>1, <1>1a, EntryFacts
    <2>1. TableType'
        BY <1>1, <1>1a, <1>2, <1>5 DEF UpdateLive, UpdateOne, TypeOK, TableType, lockVars
    <2>2. TaskType'
        <3>1. Append(undo[t], rec) \in Seq(UndoType) /\ commitActions[t] \o Deferred(old, r) \in Seq(EntryType)
            BY <2>0
        <3> HIDE DEF rec
        <3>2. /\ undo' = [undo EXCEPT ![t] = Append(@, rec)]
              /\ commitActions' = IF old = new THEN commitActions
                                  ELSE [commitActions EXCEPT ![t] = @ \o Deferred(old, r)]
              /\ work' = IF old = new THEN work ELSE [work EXCEPT ![t] = Inserts(new, r)]
              /\ UNCHANGED <<cur, abortActions>>
            BY <1>2, <1>5 DEF UpdateLive, UpdateOne, rec
        <3> QED
            BY <2>a, <3>1, <3>2 DEF TypeOK, TaskType
    <2>3. QueryType'
        BY <1>1, <1>2, <1>5, ZenonT(60) DEF UpdateLive, UpdateOne, TypeOK, QueryType
    <2>4. ASSUME NEW u \in Txns PROVE Control(u)'
        <3>1. CASE u # t
            <4>1. got'[u] = got[u] /\ work'[u] = work[u]
                BY <1>2, <1>5, <3>1 DEF UpdateLive, TypeOK, QueryType, TaskType
            <4> QED
                BY <4>1 DEF UpdateOne, ControlOK, Control
        <3>2. CASE u = t /\ old = new
            BY <1>0, <1>2, <1>5, <3>2 DEF UpdateLive, UpdateOne, TypeOK, QueryType, TaskType, ControlOK, Control
        <3>3. CASE u = t /\ old # new
            <4>1. /\ pc'[t] = "read" /\ entries'[t] = <<>> /\ cmd'[t] = cmd[t]
                  /\ work'[t] = Inserts(new, r)
                BY <1>0, <1>2, <1>5, <3>3 DEF UpdateLive, UpdateOne, TypeOK, TaskType
            <4>2. \A n \in DOMAIN Inserts(new, r) : Inserts(new, r)[n].op = "insert"
                BY <1>1, <1>1a, InsertsFacts
            <4>3. Inserts(new, r) # <<>>
                BY <1>1, <1>1a, EntryFacts
            <4> QED
                BY <1>0, <3>3, <4>1, <4>2, <4>3 DEF ControlOK, Control
        <3> QED
            BY <3>1, <3>2, <3>3
    <2> QED
        BY <1>3, <2>1, <2>2, <2>3, <2>4 DEF TypeOK, ControlOK
<1> QED
    BY <1>4, <1>5

\* HashLoad.
LEMMA HashLoadTypes ==
    ASSUME TypeOK, ControlOK, NEW t \in Txns, HashLoad(t)
    PROVE  (TypeOK /\ ControlOK)'
<1> USE DEF Set
<1> DEFINE k == Op(t).entry.key
<1>0. work[t] \in Seq(OpType) /\ work[t] # <<>> /\ cur[t] = None /\ pc[t] \in {"read", "commit", "abort"}
    BY DEF HashLoad, TypeOK, TaskType, QueryType, ControlOK, Control
<1>1. k \in Keys /\ hmap[k] \in Buckets \cup {None} /\ Tail(work[t]) \in Seq(OpType)
    <2>1. k \in Keys /\ Tail(work[t]) \in Seq(OpType)
        BY <1>0, WorkFacts DEF Op
    <2> QED
        BY <2>1 DEF TypeOK, IndexType
<1>2. TableType' /\ QueryType'
    BY DEF HashLoad, TypeOK, TableType, QueryType, heapVars, lockVars, queryVars
<1>3. hmap[k] = None => NewBucket \in Buckets
    BY <1>0, <1>1, BucketToAllocate DEF TypeOK, IndexType, TaskType
<1>4. \/ /\ hmap[k] # None
         /\ cur' = [cur EXCEPT ![t] = hmap[k]]
         /\ UNCHANGED <<hmap, bucket, removed, work>>
      \/ /\ hmap[k] = None
         /\ hmap' = [hmap EXCEPT ![k] = NewBucket]
         /\ bucket' = [bucket EXCEPT ![NewBucket] = <<>>] /\ removed' = removed \ {NewBucket}
         /\ cur' = [cur EXCEPT ![t] = NewBucket]
         /\ UNCHANGED work
      \/ /\ work' = [work EXCEPT ![t] = Tail(@)] /\ cur' = [cur EXCEPT ![t] = None]
         /\ UNCHANGED <<hmap, bucket, removed>>
    BY DEF HashLoad, hashVars, OpDone
<1> HIDE DEF k
<1>5. IndexType'
    <2>0. /\ hmap \in [Keys -> Buckets \cup {None}] /\ bucket \in [Buckets -> Seq(Rids)]
          /\ removed \subseteq Buckets /\ btree' \subseteq Pairs
        BY DEF HashLoad, TypeOK, IndexType
    <2>1. CASE UNCHANGED <<hmap, bucket, removed>>
        BY <2>0, <2>1 DEF IndexType
    <2>2. CASE /\ hmap[k] = None
               /\ hmap' = [hmap EXCEPT ![k] = NewBucket]
               /\ bucket' = [bucket EXCEPT ![NewBucket] = <<>>] /\ removed' = removed \ {NewBucket}
        <3>1. hmap' \in [Keys -> Buckets \cup {None}] /\ removed' \subseteq Buckets
            BY <1>3, <2>0, <2>2
        <3>2. <<>> \in Seq(Rids)
            OBVIOUS
        <3>3. bucket' \in [Buckets -> Seq(Rids)]
            BY <1>3, <2>0, <2>2, <3>2, Zenon
        <3> QED
            BY <2>0, <3>1, <3>3 DEF IndexType
    <2> QED
        BY <1>4, <2>1, <2>2
<1>6. TaskType'
    BY <1>1, <1>3, <1>4, ZenonT(60) DEF HashLoad, TypeOK, TaskType, taskVars
<1>7. ASSUME NEW u \in Txns PROVE Control(u)'
    <2>1. CASE u # t
        <3>1. work'[u] = work[u] /\ cur'[u] = cur[u]
            BY <1>4, <2>1 DEF TypeOK, TaskType
        <3> QED
            BY <3>1 DEF HashLoad, queryVars, ControlOK, Control
    <2>2. CASE u = t
        <3>1. work'[t] = work[t] \/ (work'[t] = Tail(work[t]) /\ cur'[t] = None)
            BY <1>4 DEF TypeOK, TaskType
        <3>2. \A n \in DOMAIN work'[t] : work'[t][n].op = (IF pc[t] = "read" THEN "insert" ELSE "remove")
            <4>1. CASE work'[t] = work[t]
                BY <4>1 DEF ControlOK, Control
            <4>2. CASE work'[t] = Tail(work[t])
                BY <1>0, <4>2, WorkFacts DEF ControlOK, Control
            <4> QED
                BY <3>1, <4>1, <4>2
        <3> QED
            BY <1>0, <2>2, <3>1, <3>2 DEF HashLoad, queryVars, ControlOK, Control
    <2> QED
        BY <2>1, <2>2
<1> QED
    BY <1>2, <1>5, <1>6, <1>7 DEF TypeOK, ControlOK

\* A finished operation leaves the next one, with no bucket loaded.
LEMMA OpDoneTypes ==
    ASSUME TypeOK, ControlOK, NEW t \in Txns, work[t] # <<>>, OpDone(t),
           UNCHANGED <<pc, cmd, entries, got, must>>
    PROVE  /\ work' \in [Txns -> Seq(OpType)] /\ cur' \in [Txns -> Buckets \cup {None}]
           /\ ControlOK'
<1> USE DEF Set
<1>1. work[t] \in Seq(OpType) /\ pc[t] \in {"read", "commit", "abort"}
    BY DEF TypeOK, TaskType, QueryType, ControlOK, Control
<1>2. Tail(work[t]) \in Seq(OpType)
    BY <1>1, WorkFacts
<1>3. work' \in [Txns -> Seq(OpType)] /\ cur' \in [Txns -> Buckets \cup {None}]
    BY <1>2 DEF OpDone, TypeOK, TaskType
<1>4. ASSUME NEW u \in Txns PROVE Control(u)'
    <2>1. CASE u # t
        <3>1. work'[u] = work[u] /\ cur'[u] = cur[u]
            BY <2>1 DEF OpDone, TypeOK, TaskType
        <3> QED
            BY <3>1 DEF ControlOK, Control
    <2>2. CASE u = t
        <3>1. work'[t] = Tail(work[t]) /\ cur'[t] = None
            BY DEF OpDone, TypeOK, TaskType
        <3>2. \A n \in DOMAIN work'[t] : work'[t][n].op = (IF pc[t] = "read" THEN "insert" ELSE "remove")
            BY <1>1, <3>1, WorkFacts DEF ControlOK, Control
        <3> QED
            BY <1>1, <2>2, <3>1, <3>2 DEF ControlOK, Control
    <2> QED
        BY <2>1, <2>2
<1> QED
    BY <1>3, <1>4 DEF ControlOK

\* HashInsert, HashRemove and TreeWork.
LEMMA InsertedTypes ==
    ASSUME TypeOK, ControlOK, NEW t \in Txns, work[t] # <<>>, Inserted(t)
    PROVE  abortActions' \in [Txns -> Seq(EntryType)]
<1>1. Op(t).entry \in EntryType /\ abortActions[t] \in Seq(EntryType)
    BY WorkFacts DEF Op, TypeOK, TaskType
<1>2. Append(abortActions[t], Op(t).entry) \in Seq(EntryType)
    BY <1>1
<1> QED
    BY <1>2 DEF Inserted, TypeOK, TaskType

\* HashInsert.
LEMMA HashInsertTypes ==
    ASSUME TypeOK, ControlOK, NEW t \in Txns, HashInsert(t)
    PROVE  (TypeOK /\ ControlOK)'
<1> USE DEF Set
<1>0. /\ work[t] \in Seq(OpType) /\ work[t] # <<>> /\ cur[t] \in Buckets /\ pc[t] \in {"read", "commit", "abort"}
      /\ bucket[cur[t]] \in Seq(Rids)
    BY DEF HashInsert, HashReady, TypeOK, TaskType, IndexType, QueryType, ControlOK, Control
<1>1. Op(t).entry.rid \in Rids
    BY <1>0, WorkFacts DEF Op
<1>2. TableType' /\ QueryType' /\ UNCHANGED <<pc, cmd, entries, got, must>>
    BY DEF HashInsert, TypeOK, TableType, QueryType, heapVars, lockVars, queryVars
<1>3. CASE cur[t] \in removed
    <2>1. IndexType' /\ TaskType'
        BY <1>3 DEF HashInsert, TypeOK, IndexType, TaskType
    <2>2. ControlOK'
        BY <1>0, <1>2, <1>3 DEF HashInsert, TypeOK, TaskType, ControlOK, Control
    <2> QED
        BY <1>2, <2>1, <2>2 DEF TypeOK
<1>4. CASE cur[t] \notin removed
    <2>1. OpDone(t) /\ Inserted(t) /\ bucket' = [bucket EXCEPT ![cur[t]] = Append(@, Op(t).entry.rid)]
        BY <1>4 DEF HashInsert, Inserted
    <2>2. Append(bucket[cur[t]], Op(t).entry.rid) \in Seq(Rids)
        BY <1>0, <1>1
    <2>3. IndexType'
        BY <2>1, <2>2 DEF HashInsert, TypeOK, IndexType
    <2>4. TaskType'
        BY <1>0, <1>2, <2>1, OpDoneTypes, InsertedTypes DEF HashInsert, TypeOK, TaskType
    <2> QED
        BY <1>0, <1>2, <2>1, <2>3, <2>4, OpDoneTypes DEF TypeOK
<1> QED
    BY <1>3, <1>4

\* HashRemove: what SwapRemove leaves of a bucket is a bucket.
LEMMA HashRemoveTypes ==
    ASSUME TypeOK, ControlOK, NEW t \in Txns, HashRemove(t)
    PROVE  (TypeOK /\ ControlOK)'
<1> USE DEF Set
<1> DEFINE b == bucket[cur[t]]
           r == Op(t).entry.rid
           res == SwapRemove(b, r)
           left == SubSeq(res.arr, 1, res.len)
<1>0. /\ work[t] \in Seq(OpType) /\ work[t] # <<>> /\ cur[t] \in Buckets /\ b \in Seq(Rids)
    BY DEF HashRemove, HashReady, TypeOK, TaskType, IndexType
<1>1. r \in Rids /\ Op(t).entry.key \in Keys
    BY <1>0, WorkFacts DEF Op
<1>2. TableType' /\ QueryType' /\ UNCHANGED <<pc, cmd, entries, got, must>>
    BY DEF HashRemove, TypeOK, TableType, QueryType, heapVars, lockVars, queryVars
<1>3. left \in Seq(Rids)
    <2> HIDE DEF b, r
    <2> QED
        BY <1>0, <1>1, SwapRemoved
<1>4. /\ OpDone(t) /\ bucket' = [bucket EXCEPT ![cur[t]] = left]
      /\ removed' = removed \cup {cur[t]} \/ removed' = removed
      /\ hmap' = [hmap EXCEPT ![Op(t).entry.key] = None] \/ hmap' = hmap
    BY DEF HashRemove
<1>5. IndexType'
    <2> HIDE DEF left
    <2> QED
        BY <1>0, <1>1, <1>3, <1>4 DEF HashRemove, TypeOK, IndexType
<1>6. TaskType' /\ ControlOK'
    BY <1>0, <1>2, <1>4, OpDoneTypes DEF HashRemove, TypeOK, TaskType, taskVars
<1> QED
    BY <1>2, <1>5, <1>6 DEF TypeOK

\* TreeWork.
LEMMA TreeWorkTypes ==
    ASSUME TypeOK, ControlOK, NEW t \in Txns, TreeWork(t)
    PROVE  (TypeOK /\ ControlOK)'
<1> DEFINE e == <<Op(t).entry.key, Op(t).entry.rid>>
<1>0. work[t] \in Seq(OpType) /\ work[t] # <<>>
    BY DEF TreeWork, TypeOK, TaskType
<1>1. e \in Pairs
    BY <1>0, WorkFacts DEF Op, Pairs
<1>2. TableType' /\ QueryType' /\ UNCHANGED <<pc, cmd, entries, got, must>>
    BY DEF TreeWork, TypeOK, TableType, QueryType, heapVars, lockVars, queryVars
<1>3. /\ OpDone(t) /\ (Inserted(t) \/ abortActions' = abortActions)
      /\ btree' = btree \cup {e} \/ btree' = btree \ {e}
    BY DEF TreeWork, Inserted
<1>4. IndexType'
    BY <1>1, <1>3 DEF TreeWork, TypeOK, IndexType, hashVars
<1>5. abortActions' \in [Txns -> Seq(EntryType)]
    BY <1>0, <1>3, InsertedTypes DEF TypeOK, TaskType
<1>6. work' \in [Txns -> Seq(OpType)] /\ cur' \in [Txns -> Buckets \cup {None}] /\ ControlOK'
    BY <1>0, <1>2, <1>3, OpDoneTypes
<1>7. TaskType'
    BY <1>5, <1>6 DEF TreeWork, TypeOK, TaskType
<1> QED
    BY <1>2, <1>4, <1>6, <1>7 DEF TypeOK

\* Commit, LogCommit, CommitFails, Abort, UndoOne and EndAbort.
LEMMA CommitTypes ==
    ASSUME TypeOK, ControlOK, NEW t \in Txns, Commit(t)
    PROVE  (TypeOK /\ ControlOK)'
<1> USE DEF Set
<1> DEFINE w == Ops("remove", commitActions[t])
<1>1. w \in Seq(OpType) /\ \A n \in DOMAIN w : w[n].op = "remove"
    BY OpsFacts DEF TypeOK, TaskType
<1>2. work' = [work EXCEPT ![t] = w]
    BY DEF Commit
<1> HIDE DEF w
<1>3. TableType' /\ IndexType'
    BY DEF Commit, TypeOK, TableType, IndexType, heapVars, lockVars, indexVars, hashVars
<1>4. TaskType'
    BY <1>1, <1>2 DEF Commit, TypeOK, TaskType, taskVars
<1>5. QueryType'
    BY DEF Commit, TypeOK, QueryType
<1>6. ASSUME NEW u \in Txns PROVE Control(u)'
    <2>1. CASE u # t
        <3>1. work'[u] = work[u] /\ pc'[u] = pc[u] /\ (must[u] = {} => must'[u] = {})
            BY <1>2, <2>1 DEF Commit, TypeOK, TaskType, QueryType
        <3> QED
            BY <3>1 DEF Commit, ControlOK, Control
    <2>2. CASE u = t
        <3>1. work'[t] = w /\ pc'[t] = "commit" /\ pc[t] = "ready" /\ must'[t] = must[t]
            BY <1>2 DEF Commit, Idle, TypeOK, TaskType, QueryType
        <3> QED
            BY <1>1, <2>2, <3>1 DEF Commit, ControlOK, Control
    <2> QED
        BY <2>1, <2>2
<1> QED
    BY <1>3, <1>4, <1>5, <1>6 DEF TypeOK, ControlOK

\* The work of an abort is removals.
LEMMA AbortingTypes ==
    ASSUME TypeOK, ControlOK, NEW t \in Txns, Aborting(t), pc[t] \in {"ready", "commit"}, work[t] = <<>>,
           UNCHANGED <<queryVars, cur, taskVars, failed>>
    PROVE  QueryType' /\ TaskType' /\ ControlOK'
<1> USE DEF Set
<1> DEFINE a == Reverse(abortActions[t])
           w == Ops("remove", a)
<1>0. a \in Seq(EntryType)
    <2>1. abortActions[t] \in Seq(EntryType)
        BY DEF TypeOK, TaskType
    <2>2. \A i \in 1 .. Len(abortActions[t]) : abortActions[t][(Len(abortActions[t]) - i) + 1] \in EntryType
        BY <2>1
    <2> QED
        BY <2>1, <2>2 DEF Reverse
<1>1. w \in Seq(OpType) /\ \A n \in DOMAIN w : w[n].op = "remove"
    <2> HIDE DEF a
    <2> QED
        BY <1>0, OpsFacts
<1>2. work' = [work EXCEPT ![t] = w] /\ pc' = [pc EXCEPT ![t] = "abort"]
    BY DEF Aborting
<1> HIDE DEF w
<1>3. TaskType'
    BY <1>1, <1>2 DEF TypeOK, TaskType, taskVars
<1>4. QueryType'
    BY <1>2 DEF TypeOK, QueryType, queryVars
<1>5. ASSUME NEW u \in Txns PROVE Control(u)'
    <2>1. CASE u # t
        <3>1. work'[u] = work[u] /\ pc'[u] = pc[u]
            BY <1>2, <2>1 DEF TypeOK, TaskType, QueryType
        <3> QED
            BY <3>1 DEF queryVars, ControlOK, Control
    <2>2. CASE u = t
        <3>1. work'[t] = w /\ pc'[t] = "abort"
            BY <1>2 DEF TypeOK, TaskType, QueryType
        <3> QED
            BY <1>1, <2>2, <3>1 DEF queryVars, ControlOK, Control
    <2> QED
        BY <2>1, <2>2
<1> QED
    BY <1>3, <1>4, <1>5 DEF ControlOK

\* CommitFails.
LEMMA CommitFailsTypes ==
    ASSUME TypeOK, ControlOK, NEW t \in Txns, CommitFails(t)
    PROVE  (TypeOK /\ ControlOK)'
<1>1. \A n \in DOMAIN commitActions[t] : commitActions[t][n].rid \in Rids
    <2>1. \A n \in DOMAIN commitActions[t] : commitActions[t][n] \in EntryType
        BY DEF TypeOK, TaskType
    <2> QED
        BY <2>1 DEF EntryType
<1>2. TableType' /\ IndexType'
    BY <1>1 DEF CommitFails, TypeOK, TableType, IndexType, heapVars, lockVars, indexVars, hashVars
<1>3. QueryType' /\ TaskType' /\ ControlOK'
    BY AbortingTypes DEF CommitFails, CommitReady
<1> QED
    BY <1>2, <1>3 DEF TypeOK

\* Abort.
LEMMA AbortTypes ==
    ASSUME TypeOK, ControlOK, NEW t \in Txns, Abort(t)
    PROVE  (TypeOK /\ ControlOK)'
<1>1. TableType' /\ IndexType'
    BY DEF Abort, TypeOK, TableType, IndexType, heapVars, lockVars, indexVars, hashVars
<1>2. work[t] = <<>>
    BY DEF Abort, ControlOK, Control
<1>3. QueryType' /\ TaskType' /\ ControlOK'
    BY <1>2, AbortingTypes DEF Abort
<1> QED
    BY <1>1, <1>3 DEF TypeOK

\* A context that is cleared.
LEMMA ResetTypes ==
    ASSUME TypeOK, ControlOK, NEW t \in Txns, Reset(t), Release(t), work[t] = <<>>, pc[t] \in {"commit", "abort"}
    PROVE  /\ QueryType' /\ TaskType' /\ ControlOK'
           /\ xlock' \in [Rids -> Txns \cup {None}] /\ slock' \in [Rids -> SUBSET Txns]
<1> USE DEF Set
<1>1. QueryType'
    BY DEF Reset, TypeOK, QueryType, queryVars
<1>2. TaskType'
    BY DEF Reset, TypeOK, TaskType, opVars
<1>3. ControlOK'
    BY DEF Reset, TypeOK, QueryType, TaskType, ControlOK, Control, queryVars, opVars
<1>4. xlock' \in [Rids -> Txns \cup {None}] /\ slock' \in [Rids -> SUBSET Txns]
    BY DEF Release, TypeOK, TableType
<1> QED
    BY <1>1, <1>2, <1>3, <1>4

\* LogCommit.
LEMMA LogCommitTypes ==
    ASSUME TypeOK, ControlOK, NEW t \in Txns, LogCommit(t)
    PROVE  (TypeOK /\ ControlOK)'
<1>1. committed' \in [Rids -> Keys \cup {None}]
    BY DEF LogCommit, TypeOK, TableType
<1>2. /\ QueryType' /\ TaskType' /\ ControlOK'
      /\ xlock' \in [Rids -> Txns \cup {None}] /\ slock' \in [Rids -> SUBSET Txns]
    BY ResetTypes DEF LogCommit, CommitReady
<1>3. TableType' /\ IndexType'
    BY <1>1, <1>2 DEF LogCommit, TypeOK, TableType, IndexType, heapVars, indexVars, hashVars
<1> QED
    BY <1>2, <1>3 DEF TypeOK

\* EndAbort.
LEMMA EndAbortTypes ==
    ASSUME TypeOK, ControlOK, NEW t \in Txns, EndAbort(t)
    PROVE  (TypeOK /\ ControlOK)'
<1>1. /\ QueryType' /\ TaskType' /\ ControlOK'
      /\ xlock' \in [Rids -> Txns \cup {None}] /\ slock' \in [Rids -> SUBSET Txns]
    BY ResetTypes DEF EndAbort
<1>2. TableType' /\ IndexType'
    BY <1>1 DEF EndAbort, TypeOK, TableType, IndexType, heapVars, indexVars, hashVars
<1> QED
    BY <1>1, <1>2 DEF TypeOK

\* The record Abort undoes next, and the ones left.
LEMMA UndoFacts ==
    ASSUME NEW s \in Seq(UndoType), s # <<>>
    PROVE  /\ Last(s) = s[Len(s)] /\ Len(s) \in DOMAIN s /\ Last(s) \in UndoType
           /\ Last(s).rid \in Rids /\ Last(s).key \in Keys \cup {None}
           /\ Last(s).type \in {"insert", "delete", "update"}
           /\ Front(s) \in Seq(UndoType) /\ DOMAIN Front(s) = 1 .. Len(s) - 1
           /\ \A n \in DOMAIN Front(s) : Front(s)[n] = s[n] /\ n \in DOMAIN s /\ n < Len(s)
           /\ \A n \in DOMAIN s : n = Len(s) \/ n \in DOMAIN Front(s)
<1>1. Last(s) = s[Len(s)] /\ Len(s) \in DOMAIN s /\ Last(s) \in UndoType
    BY DEF Last
<1>2. Last(s).rid \in Rids /\ Last(s).key \in Keys \cup {None} /\ Last(s).type \in {"insert", "delete", "update"}
    BY <1>1 DEF UndoType
<1>3. /\ Front(s) \in Seq(UndoType) /\ DOMAIN Front(s) = 1 .. Len(s) - 1
      /\ \A n \in DOMAIN Front(s) : Front(s)[n] = s[n] /\ n \in DOMAIN s /\ n < Len(s)
      /\ \A n \in DOMAIN s : n = Len(s) \/ n \in DOMAIN Front(s)
    BY DEF Front
<1> QED
    BY <1>1, <1>2, <1>3

\* UndoOne.
LEMMA UndoOneTypes ==
    ASSUME TypeOK, ControlOK, NEW t \in Txns, UndoOne(t)
    PROVE  (TypeOK /\ ControlOK)'
<1> USE DEF Set
<1> DEFINE u == Last(undo[t])
<1>0. undo[t] \in Seq(UndoType) /\ undo[t] # <<>>
    BY DEF UndoOne, TypeOK, TaskType
<1>1. /\ u.rid \in Rids /\ u.key \in Keys \cup {None} /\ u.type \in {"insert", "delete", "update"}
      /\ Front(undo[t]) \in Seq(UndoType)
    BY <1>0, UndoFacts
<1>2. /\ deleted' \in {deleted, deleted \cup {u.rid}, deleted \ {u.rid}}
      /\ tuple' = IF u.type = "update" THEN [tuple EXCEPT ![u.rid] = u.key] ELSE tuple
    <2>1. tuple' = IF u.type = "update" THEN [tuple EXCEPT ![u.rid] = u.key] ELSE tuple
        BY DEF UndoOne
    <2>2. deleted' = CASE u.type = "insert" -> deleted \cup {u.rid}
                       [] u.type = "delete" -> deleted \ {u.rid}
                       [] u.type = "update" -> deleted
        BY DEF UndoOne
    <2> HIDE DEF u
    <2> QED
        BY <1>1, <2>1, <2>2
<1> HIDE DEF u
<1>3. TableType'
    BY <1>1, <1>2 DEF UndoOne, TypeOK, TableType, lockVars
<1>4. IndexType' /\ QueryType'
    BY DEF UndoOne, TypeOK, IndexType, QueryType, indexVars, hashVars, queryVars
<1>5. TaskType'
    BY <1>1 DEF UndoOne, TypeOK, TaskType, opVars
<1>6. ControlOK'
    BY DEF UndoOne, ControlOK, Control, queryVars, opVars
<1> QED
    BY <1>3, <1>4, <1>5, <1>6 DEF TypeOK

\* VacuumPage.
LEMMA VacuumTypes ==
    ASSUME TypeOK, ControlOK, VacuumPage
    PROVE  (TypeOK /\ ControlOK)'
<1>1. TableType'
    BY DEF VacuumPage, TypeOK, TableType, lockVars
<1>2. IndexType' /\ TaskType'
    BY DEF VacuumPage, TypeOK, IndexType, TaskType, indexVars, hashVars, opVars, taskVars
<1>3. QueryType'
    BY DEF VacuumPage, TypeOK, QueryType
<1>4. ControlOK'
    BY DEF VacuumPage, ControlOK, Control, opVars
<1> QED
    BY <1>1, <1>2, <1>3, <1>4 DEF TypeOK

\* Every step keeps the types and the control of the transactions.
LEMMA TypeStep ==
    ASSUME TypeOK, ControlOK, [Next]_vars
    PROVE  (TypeOK /\ ControlOK)'
<1>1. CASE UNCHANGED vars
    BY <1>1 DEF vars, heapVars, lockVars, indexVars, hashVars, txnVars, queryVars, opVars, taskVars,
                TypeOK, TableType, IndexType, QueryType, TaskType, ControlOK, Control
<1>2. ASSUME NEW t \in Txns, NEW c \in Commands, InsertTuple(t, c) \/ TreeLookup(t, c) \/ HashLookup(t, c)
      PROVE  (TypeOK /\ ControlOK)'
    BY <1>2, InsertTypes, TreeLookupTypes, HashLookupTypes
<1>3. ASSUME NEW t \in Txns,
             \/ ScanBucket(t) \/ ReadEntry(t) \/ LockFails(t)
             \/ DeleteOne(t) \/ UpdateOne(t) \/ Return(t)
             \/ HashLoad(t) \/ HashInsert(t) \/ HashRemove(t) \/ TreeWork(t) \/ HashPanic(t)
             \/ Commit(t) \/ LogCommit(t) \/ CommitFails(t)
             \/ Abort(t) \/ UndoOne(t) \/ EndAbort(t)
      PROVE  (TypeOK /\ ControlOK)'
    BY <1>3, ScanBucketTypes, ReadEntryTypes, LockFailsTypes, DeleteTypes, UpdateTypes, ReturnTypes,
       HashLoadTypes, HashInsertTypes, HashRemoveTypes, TreeWorkTypes, RecoverTypes, CommitTypes,
       LogCommitTypes, CommitFailsTypes, AbortTypes, UndoOneTypes, EndAbortTypes DEF HashPanic
<1>4. CASE VacuumPage \/ Crash
    BY <1>4, VacuumTypes, RecoverTypes DEF Crash
<1> QED
    BY <1>1, <1>2, <1>3, <1>4 DEF Next
-----------------------------------------------------------------------------
(* The inductive invariant *)

\* The entries of a list of index operations; e is among those t has still to do.
Todo(w) == [n \in DOMAIN w |-> w[n].entry]
Due(t, e) == In(Todo(work[t]), e)

(* Buckets: the map leads to buckets that are not removed, every key to    *)
(* its own; a removed bucket is empty.  A bucket a transaction has loaded  *)
(* is that of its key, unless it was removed meanwhile, and the bucket of  *)
(* an entry that is being removed cannot be removed before.                *)
CurKey(t) == IF pc[t] = "scankey" THEN cmd[t].key ELSE Op(t).entry.key
Cursor(t) ==
    cur[t] # None =>
        /\ cur[t] \notin removed => hmap[CurKey(t)] = cur[t]
        /\ pc[t] # "scankey" => Op(t).entry.index = "hash"
        /\ pc[t] \in {"commit", "abort"} /\ Op(t).entry.rid \notin tainted => cur[t] \notin removed
BucketOK ==
    /\ \A k \in Keys : hmap[k] # None => hmap[k] \notin removed
    /\ \A k, l \in Keys : hmap[k] # None /\ hmap[k] = hmap[l] => k = l
    /\ \A b \in removed : bucket[b] = <<>>
    /\ \A t \in Txns : Cursor(t)

(* Locks: an exclusive lock excludes the others' shared locks; whatever a  *)
(* transaction changed or has tasks for is locked by it, and what its      *)
(* statement collected at least for reading.                               *)
HasRead(t, r) == xlock[r] = t \/ (~Writes(cmd[t]) /\ t \in slock[r])
Owns(t) ==
    /\ \A e \in EntryType : Due(t, e) => xlock[e.rid] = t /\ e.rid \in Changed(t)
    /\ \A e \in EntryType : In(abortActions[t], e) \/ In(commitActions[t], e) =>
            xlock[e.rid] = t /\ (pc[t] # "abort" => e.rid \in Changed(t))
    /\ \A r \in Changed(t) : xlock[r] = t
    /\ \A n \in DOMAIN got[t] : HasRead(t, got[t][n][2])
Exclusive(r) == xlock[r] # None => slock[r] \subseteq {xlock[r]}
LockOK ==
    /\ \A r \in Rids : Exclusive(r)
    /\ \A t \in Txns : Owns(t)

(* The table: a row that no transaction has changed is the committed one,  *)
(* and the log records of a transaction lead back to it.                   *)
Settled(r) ==
    /\ committed[r] = None => ~Live(r)
    /\ committed[r] # None => Live(r) /\ tuple[r] = committed[r]
FirstOf(s, n) == \A m \in DOMAIN s : s[m].rid = s[n].rid => n <= m
LastOf(s, n) == \A m \in DOMAIN s : s[m].rid = s[n].rid => m <= n
UndoneBy(s, n, r) ==
    /\ r \in allocated /\ tuple[r] # None
    /\ s[n].type = "insert" => FirstOf(s, n) /\ committed[r] = None
    /\ s[n].type = "update" => s[n].key # None
    /\ s[n].type = "update" /\ FirstOf(s, n) => committed[r] # None /\ s[n].key = committed[r]
    /\ s[n].type = "delete" /\ FirstOf(s, n) => committed[r] # None /\ tuple[r] = committed[r]
    /\ s[n].type = "delete" => LastOf(s, n) /\ r \in deleted
    /\ s[n].type # "delete" /\ LastOf(s, n) => r \notin deleted
Undone(t) ==
    \A n \in DOMAIN undo[t] : undo[t][n].rid \notin tainted => UndoneBy(undo[t], n, undo[t][n].rid)
Altered(r) == xlock[r] # None /\ r \in Changed(xlock[r])
Row(r) ==
    /\ r \in deleted => r \in allocated
    /\ ~Altered(r) => Settled(r)
HeapOK ==
    /\ \A r \in Rids \ tainted : Row(r)
    /\ \A t \in Txns : Undone(t)

(* The indexes: an entry is there exactly if it should be.  That of a      *)
(* committed row is, until its transaction's commit removes it, and that   *)
(* of a new row is, until its transaction's abort removes it.              *)
Kept(e) == committed[e.rid] = e.key
Current(e) == Live(e.rid) /\ tuple[e.rid] = e.key
Present(e) ==
    IF e.index = "btree" THEN <<e.key, e.rid>> \in btree
    ELSE hmap[e.key] # None /\ In(bucket[hmap[e.key]], e.rid)
ExpectedBy(t, e) ==
    IF pc[t] = "abort" THEN Kept(e) \/ Due(t, e)
    ELSE /\ Kept(e) \/ In(abortActions[t], e)
         /\ pc[t] = "commit" => Due(t, e) \/ ~In(commitActions[t], e)
Expected(e) == IF xlock[e.rid] = None THEN Kept(e) ELSE ExpectedBy(xlock[e.rid], e)
IndexOK ==
    /\ \A e \in EntryType : e.rid \notin tainted => (Present(e) <=> Expected(e))
    /\ \A k \in Keys, r \in Rids \ tainted : hmap[k] # None => Once(bucket[hmap[k]], r)

(* The index tasks of a transaction: the entries that were there or were   *)
(* added are the ones it will remove at commit and the current ones.       *)
Task(t, e) ==
    /\ Once(Todo(work[t]), e)
    /\ pc[t] # "abort" =>
        /\ Once(abortActions[t], e) /\ (In(abortActions[t], e) => ~Kept(e))
        /\ Once(commitActions[t], e) /\ (In(commitActions[t], e) => ~Current(e))
        /\ xlock[e.rid] = t =>
            (Kept(e) \/ In(abortActions[t], e) \/ (pc[t] = "read" /\ Due(t, e))
                <=> In(commitActions[t], e) \/ Current(e))
    /\ Due(t, e) =>
        /\ pc[t] = "read" => ~Kept(e) /\ ~In(abortActions[t], e)
        /\ pc[t] = "commit" => In(commitActions[t], e)
        /\ pc[t] = "abort" => ~Kept(e)
TaskOK == \A t \in Txns, e \in EntryType : e.rid \notin tainted => Task(t, e)

(* Statements: the tuples collected, and the entries still to be read. *)
GotOne(t, n) ==
    LET r == got[t][n][2]
    IN  /\ r \in allocated \cup gone[t] /\ r \notin deleted /\ tuple[r] = got[t][n][1]
        /\ \A m \in DOMAIN got[t] : got[t][m][2] = r => m = n
EntryLeft(t, n) ==
    /\ entries[t][n][2] \in allocated \cup gone[t]
    /\ Once(entries[t], entries[t][n])
    /\ ~In(got[t], entries[t][n])
Query(t) ==
    /\ \A n \in DOMAIN got[t] : got[t][n][2] \notin tainted => GotOne(t, n)
    /\ \A n \in DOMAIN entries[t] : entries[t][n][2] \notin tainted => EntryLeft(t, n)
GotOK == \A t \in Txns : Query(t)

(* A lookup has collected every row it has to find, or still has its entry. *)
RowKey(t, r) == IF xlock[r] = t THEN tuple[r] ELSE committed[r]
Finds(t, r) ==
    \/ t \in failed /\ entries[t] = <<>>
    \/ \E n \in DOMAIN got[t] : got[t][n][2] = r
    \/ In(entries[t], <<RowKey(t, r), r>>)
ToFind(t, r) ==
    /\ RowKey(t, r) \in Sought(cmd[t])
    /\ xlock[r] = t => Live(r)
    /\ xlock[r] \notin {None, t} /\ pc[xlock[r]] = "commit" => r \notin Changed(xlock[r])
    /\ pc[t] = "read" => Finds(t, r)
Lookup(t) ==
    /\ pc[t] = "scankey" => cmd[t].path = "hash"
    /\ cmd[t].kind = "select" => \A r \in must[t] \ tainted : ToFind(t, r)
MustOK == \A t \in Txns : Lookup(t)

Inv == TypeOK /\ ControlOK /\ BucketOK /\ LockOK /\ HeapOK /\ IndexOK /\ TaskOK /\ GotOK /\ MustOK
-----------------------------------------------------------------------------
(* Lists of entries *)

\* An entry is its three fields.
LEMMA EntryFields ==
    ASSUME NEW e \in EntryType
    PROVE  /\ e.index \in Indexes /\ e.key \in Keys /\ e.rid \in Rids /\ e.key # None
           /\ \A d \in EntryType : d = e <=> d.index = e.index /\ d.key = e.key /\ d.rid = e.rid
           /\ e.index = "hash" \/ e.index = "btree"
<1>1. e.index \in Indexes /\ e.key \in Keys /\ e.rid \in Rids /\ e = Entry(e.index, e.key, e.rid)
    BY DEF EntryType, Entry
<1>2. ASSUME NEW d \in EntryType, d.index = e.index, d.key = e.key, d.rid = e.rid PROVE d = e
    <2>1. d = Entry(d.index, d.key, d.rid)
        BY DEF EntryType, Entry
    <2> QED
        BY <1>1, <1>2, <2>1
<1> QED
    BY <1>1, <1>2, TableAssumption DEF Indexes

\* Entry builds entries.
LEMMA EntryOf ==
    ASSUME NEW i \in Indexes, NEW k \in Keys, NEW r \in Rids
    PROVE  /\ Entry(i, k, r) \in EntryType
           /\ Entry(i, k, r).index = i /\ Entry(i, k, r).key = k /\ Entry(i, k, r).rid = r
BY DEF Entry, EntryType

\* What is not in a list is not twice in it.
LEMMA InOnce ==
    ASSUME NEW s, NEW e
    PROVE  ~In(s, e) => Once(s, e)
BY DEF In, Once
\* Nothing is in the empty list.
LEMMA InEmpty ==
    ASSUME NEW e
    PROVE  ~In(<<>>, e) /\ Once(<<>>, e)
BY DEF In, Once

\* Appending one element.
LEMMA InAppend ==
    ASSUME NEW S, NEW s \in Seq(S), NEW x \in S, NEW e
    PROVE  /\ In(Append(s, x), e) <=> In(s, e) \/ e = x
           /\ Once(s, e) /\ (e = x => ~In(s, e)) => Once(Append(s, x), e)
<1> DEFINE a == Append(s, x)
           L == Len(s)
<1>1. /\ L \in Nat /\ DOMAIN s = 1 .. L /\ DOMAIN a = 1 .. L + 1 /\ a[L + 1] = x
      /\ \A n \in 1 .. L : a[n] = s[n] /\ n \in 1 .. L + 1
      /\ \A n \in 1 .. L + 1 : n = L + 1 \/ n \in 1 .. L
      /\ L + 1 \in 1 .. L + 1
    OBVIOUS
<1> HIDE DEF a, L
<1>2. In(a, e) <=> In(s, e) \/ e = x
    BY <1>1 DEF In
<1>3. ASSUME Once(s, e), e = x => ~In(s, e) PROVE Once(a, e)
    <2> SUFFICES ASSUME NEW m \in 1 .. L + 1, NEW n \in 1 .. L + 1, a[m] = e, a[n] = e PROVE m = n
        BY <1>1 DEF Once
    <2> QED
        BY <1>1, <1>3 DEF Once, In
<1> QED
    BY <1>2, <1>3 DEF a

\* Taking the first element away.
LEMMA InTail ==
    ASSUME NEW S, NEW s \in Seq(S), s # <<>>, NEW e
    PROVE  /\ In(s, e) <=> e = Head(s) \/ In(Tail(s), e)
           /\ Once(s, e) => Once(Tail(s), e)
           /\ Once(s, Head(s)) => ~In(Tail(s), Head(s))
<1> DEFINE z == Tail(s)
           L == Len(s)
<1>1. /\ L \in Nat /\ DOMAIN s = 1 .. L /\ DOMAIN z = 1 .. L - 1 /\ Head(s) = s[1] /\ 1 \in 1 .. L
      /\ \A n \in 1 .. L - 1 : z[n] = s[n + 1] /\ n + 1 \in 1 .. L /\ n + 1 # 1
      /\ \A n \in 1 .. L : n = 1 \/ (n - 1 \in 1 .. L - 1 /\ z[n - 1] = s[n])
      /\ \A m, n \in 1 .. L - 1 : m + 1 = n + 1 => m = n
    OBVIOUS
<1> HIDE DEF z, L
<1>2. In(s, e) <=> e = Head(s) \/ In(z, e)
    <2>1. ASSUME NEW n \in 1 .. L - 1, z[n] = e PROVE \E m \in 1 .. L : s[m] = e
        BY <1>1, <2>1
    <2>2. ASSUME NEW n \in 1 .. L, s[n] = e, n # 1 PROVE \E m \in 1 .. L - 1 : z[m] = e
        BY <1>1, <2>2
    <2> QED
        BY <1>1, <2>1, <2>2 DEF In
<1>3. ASSUME Once(s, e) PROVE Once(z, e)
    <2> SUFFICES ASSUME NEW m \in 1 .. L - 1, NEW n \in 1 .. L - 1, z[m] = e, z[n] = e PROVE m = n
        BY <1>1 DEF Once
    <2>0. m + 1 \in DOMAIN s /\ n + 1 \in DOMAIN s /\ s[m + 1] = e /\ s[n + 1] = e
        BY <1>1
    <2>1. m + 1 = n + 1
        BY <1>3, <2>0, Zenon DEF Once
    <2> QED
        BY <1>1, <2>1
<1>4. Once(s, Head(s)) => ~In(z, Head(s))
    BY <1>1 DEF Once, In
<1> QED
    BY <1>2, <1>3, <1>4 DEF z

\* Joining two lists.
LEMMA InConcat ==
    ASSUME NEW S, NEW s \in Seq(S), NEW d \in Seq(S), NEW e
    PROVE  /\ In(s \o d, e) <=> In(s, e) \/ In(d, e)
           /\ Once(s, e) /\ Once(d, e) /\ ~(In(s, e) /\ In(d, e)) => Once(s \o d, e)
<1> DEFINE z == s \o d
           L == Len(s)
           M == Len(d)
<1>1. /\ L \in Nat /\ M \in Nat /\ DOMAIN s = 1 .. L /\ DOMAIN d = 1 .. M /\ DOMAIN z = 1 .. L + M
    OBVIOUS
<1>2. /\ \A n \in 1 .. L : z[n] = s[n] /\ n \in 1 .. L + M
      /\ \A n \in 1 .. M : z[L + n] = d[n] /\ L + n \in 1 .. L + M
      /\ \A n \in 1 .. L + M : n \in 1 .. L \/ (n - L \in 1 .. M /\ z[n] = d[n - L])
    OBVIOUS
<1> HIDE DEF z, L, M
<1>3. In(z, e) <=> In(s, e) \/ In(d, e)
    BY <1>1, <1>2 DEF In
<1>4. ASSUME Once(s, e), Once(d, e), ~(In(s, e) /\ In(d, e)) PROVE Once(z, e)
    <2> SUFFICES ASSUME NEW m \in 1 .. L + M, NEW n \in 1 .. L + M, z[m] = e, z[n] = e PROVE m = n
        BY <1>1 DEF Once
    <2>1. CASE m \in 1 .. L /\ n \in 1 .. L
        BY <1>1, <1>2, <1>4, <2>1 DEF Once
    <2>2. CASE m \notin 1 .. L /\ n \notin 1 .. L
        <3>1. m - L \in 1 .. M /\ n - L \in 1 .. M /\ d[m - L] = e /\ d[n - L] = e
            BY <1>2, <2>2
        <3>2. m - L = n - L
            BY <1>1, <1>4, <3>1 DEF Once
        <3> QED
            BY <1>1, <3>2
    <2>3. CASE m \in 1 .. L /\ n \notin 1 .. L
        BY <1>1, <1>2, <1>4, <2>3 DEF In
    <2>4. CASE m \notin 1 .. L /\ n \in 1 .. L
        BY <1>1, <1>2, <1>4, <2>4 DEF In
    <2> QED
        BY <2>1, <2>2, <2>3, <2>4
<1> QED
    BY <1>3, <1>4 DEF z

\* A list in reverse.
LEMMA InReverse ==
    ASSUME NEW S, NEW s \in Seq(S), NEW e
    PROVE  /\ Reverse(s) \in Seq(S)
           /\ In(Reverse(s), e) <=> In(s, e)
           /\ Once(s, e) => Once(Reverse(s), e)
<1> DEFINE z == Reverse(s)
           L == Len(s)
<1>1. L \in Nat /\ DOMAIN s = 1 .. L
    OBVIOUS
<1>2. z = [i \in 1 .. L |-> s[(L - i) + 1]]
    BY DEF Reverse
<1>3. \A n \in 1 .. L : (L - n) + 1 \in 1 .. L /\ (L - ((L - n) + 1)) + 1 = n
    BY <1>1
<1>4. \A n \in 1 .. L : s[(L - n) + 1] \in S
    BY <1>1, <1>3
<1> HIDE DEF L
<1>5. z \in Seq(S) /\ DOMAIN z = 1 .. L /\ \A n \in 1 .. L : z[n] = s[(L - n) + 1]
    BY <1>1, <1>2, <1>4
<1> HIDE DEF z
<1>6. \A n \in 1 .. L : z[(L - n) + 1] = s[n]
    BY <1>3, <1>5
<1>7. In(z, e) <=> In(s, e)
    BY <1>1, <1>3, <1>5, <1>6 DEF In
<1>8. ASSUME Once(s, e) PROVE Once(z, e)
    <2> SUFFICES ASSUME NEW m \in 1 .. L, NEW n \in 1 .. L, z[m] = e, z[n] = e PROVE m = n
        BY <1>5 DEF Once
    <2>1. (L - m) + 1 = (L - n) + 1
        BY <1>1, <1>3, <1>5, <1>8 DEF Once
    <2> QED
        BY <1>1, <2>1
<1> QED
    BY <1>5, <1>7, <1>8 DEF z

\* The entries of the operations made of a list are that list.
LEMMA TodoOps ==
    ASSUME NEW es \in Seq(EntryType), NEW o \in {"insert", "remove"}
    PROVE  Todo(Ops(o, es)) = es
<1>1. DOMAIN Ops(o, es) = DOMAIN es /\ \A n \in DOMAIN es : Ops(o, es)[n].entry = es[n]
    BY OpsFacts
<1>2. Todo(Ops(o, es)) = [n \in DOMAIN es |-> es[n]]
    BY <1>1 DEF Todo
<1> QED
    BY <1>2

\* The entries of a list of operations, and what is left of them after the first.
LEMMA TodoTail ==
    ASSUME NEW w \in Seq(OpType), w # <<>>, NEW e \in EntryType
    PROVE  /\ In(Todo(w), e) <=> e = Head(w).entry \/ In(Todo(Tail(w)), e)
           /\ Once(Todo(w), e) => Once(Todo(Tail(w)), e)
           /\ Once(Todo(w), Head(w).entry) => ~In(Todo(Tail(w)), Head(w).entry)
<1> DEFINE z == Tail(w)
           L == Len(w)
<1>1. /\ L \in Nat /\ DOMAIN w = 1 .. L /\ DOMAIN z = 1 .. L - 1 /\ Head(w) = w[1] /\ 1 \in 1 .. L
      /\ \A n \in 1 .. L - 1 : z[n] = w[n + 1] /\ n + 1 \in 1 .. L /\ n + 1 # 1
      /\ \A n \in 1 .. L : n = 1 \/ (n - 1 \in 1 .. L - 1 /\ z[n - 1] = w[n])
      /\ \A m, n \in 1 .. L - 1 : m + 1 = n + 1 => m = n
    OBVIOUS
<1> HIDE DEF z, L
<1>2. /\ DOMAIN Todo(w) = 1 .. L /\ DOMAIN Todo(z) = 1 .. L - 1
      /\ \A n \in 1 .. L : Todo(w)[n] = w[n].entry
      /\ \A n \in 1 .. L - 1 : Todo(z)[n] = w[n + 1].entry
    BY <1>1 DEF Todo
<1>3. In(Todo(w), e) <=> e = Head(w).entry \/ In(Todo(z), e)
    <2>1. ASSUME NEW n \in 1 .. L - 1, Todo(z)[n] = e PROVE \E m \in 1 .. L : Todo(w)[m] = e
        BY <1>1, <1>2, <2>1
    <2>2. ASSUME NEW n \in 1 .. L, Todo(w)[n] = e, n # 1 PROVE \E m \in 1 .. L - 1 : Todo(z)[m] = e
        <3>1. n - 1 \in 1 .. L - 1 /\ Todo(z)[n - 1] = w[(n - 1) + 1].entry /\ (n - 1) + 1 = n
            BY <1>1, <1>2, <2>2
        <3> QED
            BY <1>2, <2>2, <3>1
    <2>3. Head(w).entry = Todo(w)[1] /\ 1 \in DOMAIN Todo(w)
        BY <1>1, <1>2
    <2> HIDE DEF Todo
    <2>4. In(Todo(z), e) => In(Todo(w), e)
        BY <1>2, <2>1 DEF In
    <2>5. e = Head(w).entry => In(Todo(w), e)
        BY <2>3, Zenon DEF In
    <2>6. In(Todo(w), e) => e = Head(w).entry \/ In(Todo(z), e)
        BY <1>2, <2>2, <2>3 DEF In
    <2> QED
        BY <2>4, <2>5, <2>6
<1>4. ASSUME Once(Todo(w), e) PROVE Once(Todo(z), e)
    <2> SUFFICES ASSUME NEW m \in 1 .. L - 1, NEW n \in 1 .. L - 1, Todo(z)[m] = e, Todo(z)[n] = e PROVE m = n
        BY <1>2 DEF Once
    <2>0. /\ m + 1 \in DOMAIN Todo(w) /\ n + 1 \in DOMAIN Todo(w)
          /\ Todo(w)[m + 1] = e /\ Todo(w)[n + 1] = e
        BY <1>1, <1>2
    <2>1. m + 1 = n + 1
        BY <1>4, <2>0, Zenon DEF Once
    <2> QED
        BY <1>1, <2>1
<1>5. Once(Todo(w), Head(w).entry) => ~In(Todo(z), Head(w).entry)
    <2> SUFFICES ASSUME Once(Todo(w), Head(w).entry), NEW n \in DOMAIN Todo(z), Todo(z)[n] = Head(w).entry
                 PROVE  FALSE
        BY DEF In
    <2>1. /\ 1 \in DOMAIN Todo(w) /\ n + 1 \in DOMAIN Todo(w) /\ 1 # n + 1
          /\ Todo(w)[1] = Head(w).entry /\ Todo(w)[n + 1] = Head(w).entry
        BY <1>1, <1>2
    <2> QED
        BY <2>1, Zenon DEF Once
<1> QED
    BY <1>3, <1>4, <1>5 DEF z
\* Nor in the entries of an empty list of operations.
LEMMA TodoEmpty ==
    ASSUME NEW e
    PROVE  ~In(Todo(<<>>), e) /\ Once(Todo(<<>>), e)
BY DEF Todo, In, Once

\* The entries of a new row.
LEMMA TodoInserts ==
    ASSUME NEW k \in Keys, NEW r \in Rids, NEW e \in EntryType
    PROVE  /\ In(Todo(Inserts(k, r)), e) <=> e.key = k /\ e.rid = r
           /\ Once(Todo(Inserts(k, r)), e)
<1> DEFINE T == Todo(Inserts(k, r))
           a == Entry("hash", k, r)
           b == Entry("btree", k, r)
<1>1. DOMAIN T = 1 .. 2 /\ T[1] = a /\ T[2] = b
    <2>1. DOMAIN Inserts(k, r) = 1 .. 2
        BY EntryFacts
    <2>2. Inserts(k, r)[1].entry = a /\ Inserts(k, r)[2].entry = b
        <3>1. Inserts(k, r)[1] = [op |-> "insert", entry |-> Entry("hash", k, r)]
            BY EntryFacts
        <3>2. Inserts(k, r)[2] = [op |-> "insert", entry |-> Entry("btree", k, r)]
            BY EntryFacts
        <3> HIDE DEF a, b
        <3> QED
            BY <3>1, <3>2 DEF a, b
    <2> HIDE DEF a, b
    <2> QED
        BY <2>1, <2>2 DEF Todo
<1>2. /\ a \in EntryType /\ a.index = "hash" /\ a.key = k /\ a.rid = r
      /\ b \in EntryType /\ b.index = "btree" /\ b.key = k /\ b.rid = r
    BY EntryOf DEF Indexes
<1> HIDE DEF T, a, b
<1>3. \A n \in 1 .. 2 : n = 1 \/ n = 2
    OBVIOUS
<1>4. e = a \/ e = b <=> e.key = k /\ e.rid = r
    BY <1>2, EntryFields
<1>5. In(T, e) <=> e = a \/ e = b
    BY <1>1, <1>3 DEF In
<1>6. a # b
    BY <1>2
<1>7. Once(T, e)
    BY <1>1, <1>3, <1>6 DEF Once
<1> QED
    BY <1>4, <1>5, <1>7 DEF T

\* The removals DeleteEntry defers are those of the entries the indexes know.
LEMMA DeferredIn ==
    ASSUME NEW k \in Keys, NEW r \in Rids, NEW e \in EntryType
    PROVE  /\ In(Deferred(k, r), e) <=> e.key = k /\ e.rid = r /\ Known(e.index, k, r)
           /\ Once(Deferred(k, r), e)
<1>1. ASSUME NEW i \in Indexes
      PROVE  /\ DeferredOf(i, k, r) \in Seq(EntryType)
             /\ In(DeferredOf(i, k, r), e) <=> e.index = i /\ e.key = k /\ e.rid = r /\ Known(i, k, r)
             /\ Once(DeferredOf(i, k, r), e)
    <2> DEFINE d == Entry(i, k, r)
    <2>1. d \in EntryType /\ (e = d <=> e.index = i /\ e.key = k /\ e.rid = r)
        <3>1. d \in EntryType /\ d.index = i /\ d.key = k /\ d.rid = r
            BY EntryOf
        <3> HIDE DEF d
        <3> QED
            BY <3>1, EntryFields
    <2> HIDE DEF d
    <2>2. CASE Known(i, k, r)
        <3>1. DeferredOf(i, k, r) = <<d>>
            BY <2>2 DEF DeferredOf, d
        <3>2. <<d>> \in Seq(EntryType) /\ (In(<<d>>, e) <=> e = d) /\ Once(<<d>>, e)
            BY <2>1 DEF In, Once
        <3> QED
            BY <2>1, <2>2, <3>1, <3>2
    <2>3. CASE ~Known(i, k, r)
        <3>1. DeferredOf(i, k, r) = <<>>
            BY <2>3 DEF DeferredOf
        <3>2. <<>> \in Seq(EntryType)
            OBVIOUS
        <3> QED
            BY <2>3, <3>1, <3>2, InEmpty
    <2> QED
        BY <2>2, <2>3
<1> DEFINE h == DeferredOf("hash", k, r)
           b == DeferredOf("btree", k, r)
<1>2. Deferred(k, r) = h \o b
    BY TableAssumption DEF Deferred
<1>3. /\ h \in Seq(EntryType) /\ (In(h, e) <=> e.index = "hash" /\ e.key = k /\ e.rid = r /\ Known("hash", k, r))
      /\ Once(h, e)
    BY <1>1 DEF Indexes
<1>4. /\ b \in Seq(EntryType) /\ (In(b, e) <=> e.index = "btree" /\ e.key = k /\ e.rid = r /\ Known("btree", k, r))
      /\ Once(b, e)
    BY <1>1 DEF Indexes
<1> HIDE DEF h, b
<1>5. e.index = "hash" \/ e.index = "btree"
    BY EntryFields
<1>6. /\ In(h \o b, e) <=> In(h, e) \/ In(b, e)
      /\ Once(h, e) /\ Once(b, e) /\ ~(In(h, e) /\ In(b, e)) => Once(h \o b, e)
    BY <1>3, <1>4, InConcat
<1> QED
    BY <1>2, <1>3, <1>4, <1>5, <1>6

\* The slots a transaction has log records of.
LEMMA ChangedIn ==
    ASSUME NEW t, NEW r
    PROVE  r \in Changed(t) <=> \E n \in DOMAIN undo[t] : undo[t][n].rid = r
BY DEF Changed
-----------------------------------------------------------------------------
(* What a step of a transaction leaves to the others *)

\* Slot r and its committed row stay as they are.
SameRow(r) ==
    /\ r \in allocated' <=> r \in allocated
    /\ r \in deleted' <=> r \in deleted
    /\ tuple'[r] = tuple[r] /\ committed'[r] = committed[r]

\* A step of t keeps the contexts and the locks of the others, and the rows they have
\* locked.
SameContext(u) ==
    /\ pc'[u] = pc[u] /\ cmd'[u] = cmd[u] /\ entries'[u] = entries[u] /\ got'[u] = got[u]
    /\ gone'[u] = gone[u] /\ must'[u] \subseteq must[u] /\ (u \in failed' <=> u \in failed)
    /\ work'[u] = work[u] /\ cur'[u] = cur[u] /\ undo'[u] = undo[u]
    /\ abortActions'[u] = abortActions[u] /\ commitActions'[u] = commitActions[u]
SameLocks(u) ==
    \A r \in Rids :
        /\ xlock'[r] = u <=> xlock[r] = u
        /\ u \in slock'[r] <=> u \in slock[r]
        /\ xlock[r] = u \/ u \in slock[r] => SameRow(r)
Guarantee(t) ==
    /\ \A u \in Txns \ {t} : SameContext(u) /\ SameLocks(u)
    /\ tainted \subseteq tainted' /\ allocated \subseteq allocated'

\* Then what holds of the others goes on to hold.
LEMMA OthersKeep ==
    ASSUME TypeOK, LockOK, HeapOK, TaskOK, GotOK, NEW t \in Txns, Guarantee(t), NEW u \in Txns \ {t}
    PROVE  /\ Owns(u)' /\ Undone(u)' /\ Query(u)'
           /\ \A e \in EntryType : e.rid \notin tainted' => Task(u, e)'
<1>1. SameContext(u) /\ SameLocks(u) /\ tainted \subseteq tainted' /\ allocated \subseteq allocated'
    BY DEF Guarantee
<1>2. Owns(u) /\ Undone(u) /\ Query(u)
    BY DEF LockOK, HeapOK, GotOK
<1>3. Changed(u)' = Changed(u) /\ \A n \in DOMAIN undo[u] : undo[u][n].rid \in Changed(u) /\ undo[u][n].rid \in Rids
    <2>1. undo[u] \in Seq(UndoType)
        BY DEF TypeOK, TaskType
    <2>0. \A n \in DOMAIN undo[u] : undo[u][n] \in UndoType
        BY <2>1
    <2>2. \A n \in DOMAIN undo[u] : undo[u][n].rid \in Rids
        BY <2>0 DEF UndoType
    <2> QED
        BY <1>1, <2>2 DEF SameContext, Changed
<1>4. \A e \in EntryType : e.rid \in Rids
    BY EntryFields
<1>5. \A n \in DOMAIN got[u] : got[u][n][2] \in Rids /\ got[u][n][1] \in Keys
    <2>1. got[u] \in Seq(Pairs)
        BY DEF TypeOK, QueryType
    <2> QED
        BY <2>1 DEF Pairs
<1>6. Owns(u)'
    <2>1. ASSUME NEW e \in EntryType, Due(u, e)' PROVE xlock'[e.rid] = u /\ e.rid \in Changed(u)'
        BY <1>1, <1>2, <1>3, <1>4, <2>1 DEF Owns, SameContext, SameLocks, Due
    <2>2. ASSUME NEW e \in EntryType, (In(abortActions[u], e) \/ In(commitActions[u], e))'
          PROVE  xlock'[e.rid] = u /\ (pc'[u] # "abort" => e.rid \in Changed(u)')
        BY <1>1, <1>2, <1>3, <1>4, <2>2 DEF Owns, SameContext, SameLocks
    <2>3. \A r \in Changed(u)' : xlock'[r] = u
        <3>1. \A r \in Changed(u) : r \in Rids
            BY <1>3 DEF Changed
        <3> QED
            BY <1>1, <1>2, <1>3, <3>1 DEF Owns, SameContext, SameLocks
    <2>4. \A n \in DOMAIN got'[u] : HasRead(u, got[u][n][2])'
        BY <1>1, <1>2, <1>5 DEF Owns, SameContext, SameLocks, HasRead
    <2> QED
        BY <2>1, <2>2, <2>3, <2>4 DEF Owns
<1>7. Undone(u)'
    <2> SUFFICES ASSUME NEW n \in DOMAIN undo[u], undo[u][n].rid \notin tainted'
                 PROVE  UndoneBy(undo[u], n, undo[u][n].rid)'
        BY <1>1 DEF Undone, SameContext
    <2>1. xlock[undo[u][n].rid] = u /\ undo[u][n].rid \in Rids
        BY <1>2, <1>3 DEF Owns
    <2>2. UndoneBy(undo[u], n, undo[u][n].rid)
        BY <1>1, <1>2 DEF Undone
    <2>3. SameRow(undo[u][n].rid)
        BY <1>1, <2>1 DEF SameLocks
    <2>4. undo'[u] = undo[u]
        BY <1>1 DEF SameContext
    <2> QED
        BY <2>2, <2>3, <2>4 DEF UndoneBy, SameRow
<1>8. Query(u)'
    <2>1. ASSUME NEW n \in DOMAIN got[u], got[u][n][2] \notin tainted' PROVE GotOne(u, n)'
        <3>1. GotOne(u, n)
            BY <1>1, <1>2, <2>1 DEF Query
        <3>2. SameRow(got[u][n][2])
            BY <1>1, <1>2, <1>5 DEF Owns, HasRead, SameLocks
        <3> QED
            BY <1>1, <3>1, <3>2 DEF GotOne, SameContext, SameRow
    <2>2. ASSUME NEW n \in DOMAIN entries[u], entries[u][n][2] \notin tainted' PROVE EntryLeft(u, n)'
        BY <1>1, <1>2, <2>2 DEF Query, EntryLeft, SameContext
    <2> QED
        BY <1>1, <2>1, <2>2 DEF Query, SameContext
<1>9. ASSUME NEW e \in EntryType, e.rid \notin tainted' PROVE Task(u, e)'
    <2>0. Task(u, e)
        BY <1>1, <1>9 DEF TaskOK
    <2>1. CASE xlock[e.rid] = u
        <3>1. SameRow(e.rid) /\ xlock'[e.rid] = u
            BY <1>1, <1>4, <2>1 DEF SameLocks
        <3>2. (Kept(e)' <=> Kept(e)) /\ (Current(e)' <=> Current(e)) /\ (Due(u, e)' <=> Due(u, e))
            BY <1>1, <3>1 DEF SameRow, Kept, Current, Live, SameContext, Due
        <3> QED
            BY <1>1, <2>0, <2>1, <3>1, <3>2 DEF Task, SameContext
    <2>2. CASE xlock[e.rid] # u
        <3>1. ~Due(u, e) /\ ~In(abortActions[u], e) /\ ~In(commitActions[u], e)
            BY <1>2, <2>2 DEF Owns
        <3>2. xlock'[e.rid] # u
            BY <1>1, <1>4, <2>2 DEF SameLocks
        <3>3. ~Due(u, e)' /\ ~In(abortActions'[u], e) /\ ~In(commitActions'[u], e)
            BY <1>1, <3>1 DEF SameContext, Due
        <3>4. Once(Todo(work'[u]), e) /\ Once(abortActions'[u], e) /\ Once(commitActions'[u], e)
            BY <3>3, InOnce DEF Due
        <3> QED
            BY <3>2, <3>3, <3>4 DEF Task
    <2> QED
        BY <2>1, <2>2
<1> QED
    BY <1>6, <1>7, <1>8, <1>9

\* The rows another transaction has locked stay settled, and their entries are expected
\* in the indexes or not as before.
LEMMA OthersRows ==
    ASSUME TypeOK, HeapOK, NEW t \in Txns, Guarantee(t), NEW r \in Rids, xlock[r] \notin {None, t}
    PROVE  /\ r \notin tainted' => Row(r)'
           /\ \A e \in EntryType : e.rid = r => (Expected(e)' <=> Expected(e))
<1>0. PICK x \in Txns \ {t} : xlock[r] = x
    BY DEF TypeOK, TableType
<1>1. SameContext(x) /\ SameRow(r) /\ xlock'[r] = x /\ tainted \subseteq tainted'
    BY <1>0 DEF Guarantee, SameLocks
<1>2. Changed(x)' = Changed(x)
    BY <1>1 DEF SameContext, Changed
<1>4. x # None
    BY TableAssumption
<1>5. r \notin tainted' /\ ~Altered(r)' => Settled(r)'
    <2> SUFFICES ASSUME r \notin tainted', ~Altered(r)' PROVE Settled(r)'
        OBVIOUS
    <2>2. ~Altered(r)
        BY <1>0, <1>1, <1>2, <1>4 DEF Altered
    <2>3. Settled(r)
        BY <1>1, <2>2 DEF HeapOK, Row
    <2> QED
        BY <1>1, <2>3 DEF Settled, SameRow, Live
<1>6. r \in deleted' /\ r \notin tainted' => r \in allocated'
    BY <1>1 DEF HeapOK, Row, SameRow
<1>7. ASSUME NEW e \in EntryType, e.rid = r PROVE Expected(e)' <=> Expected(e)
    <2>1. Kept(e)' <=> Kept(e)
        BY <1>1, <1>7 DEF Kept, SameRow
    <2>2. ExpectedBy(x, e)' <=> ExpectedBy(x, e)
        BY <1>1, <2>1 DEF ExpectedBy, SameContext, Due
    <2> QED
        BY <1>0, <1>1, <1>4, <1>7, <2>2 DEF Expected
<1> QED
    BY <1>5, <1>6, <1>7 DEF Row

\* The conjuncts of the invariant after a step of t, from what it has to show of t itself
\* and of the slots no other transaction has locked.
LEMMA OthersInv ==
    ASSUME TypeOK, LockOK, HeapOK, TaskOK, GotOK, NEW t \in Txns, Guarantee(t)
    PROVE  /\ (\A r \in Rids : Exclusive(r)') /\ Owns(t)' => LockOK'
           /\ /\ \A r \in Rids : r \notin tainted' /\ xlock[r] \in {None, t} => Row(r)'
              /\ Undone(t)'
              => HeapOK'
           /\ (\A e \in EntryType : e.rid \notin tainted' => Task(t, e)') => TaskOK'
           /\ Query(t)' => GotOK'
<1>1. \A u \in Txns : u # t => Owns(u)' /\ Undone(u)' /\ Query(u)'
    BY OthersKeep
<1>2. \A u \in Txns : u # t => \A e \in EntryType : e.rid \notin tainted' => Task(u, e)'
    BY OthersKeep
<1>3. \A r \in Rids : xlock[r] \notin {None, t} => (r \notin tainted' => Row(r)')
    BY OthersRows
<1>4. (\A r \in Rids : Exclusive(r)') /\ Owns(t)' => LockOK'
    BY <1>1 DEF LockOK
<1>5. ASSUME \A r \in Rids : r \notin tainted' /\ xlock[r] \in {None, t} => Row(r)', Undone(t)'
      PROVE  HeapOK'
    <2>1. \A r \in Rids \ tainted' : Row(r)'
        BY <1>3, <1>5
    <2> QED
        BY <1>1, <1>5, <2>1 DEF HeapOK
<1>6. (\A e \in EntryType : e.rid \notin tainted' => Task(t, e)') => TaskOK'
    BY <1>2 DEF TaskOK
<1>7. Query(t)' => GotOK'
    BY <1>1 DEF GotOK
<1> QED
    BY <1>4, <1>5, <1>6, <1>7

\* A step of t that leaves the indexes alone.
LEMMA SameIndexes ==
    ASSUME TypeOK, HeapOK, IndexOK, NEW t \in Txns, Guarantee(t), UNCHANGED <<btree, hmap, bucket, removed>>,
           \A e \in EntryType : e.rid \notin tainted' /\ xlock[e.rid] \in {None, t} => (Expected(e)' <=> Expected(e))
    PROVE  IndexOK'
<1>1. tainted \subseteq tainted'
    BY DEF Guarantee
<1>2. ASSUME NEW e \in EntryType, e.rid \notin tainted' PROVE Present(e)' <=> Expected(e)'
    <2>1. Present(e)' <=> Present(e)
        BY DEF Present
    <2>2. Present(e) <=> Expected(e)
        BY <1>1, <1>2 DEF IndexOK
    <2>3. Expected(e)' <=> Expected(e)
        <3>1. e.rid \in Rids
            BY EntryFields
        <3>2. CASE xlock[e.rid] \in {None, t}
            BY <1>2, <3>2
        <3>3. CASE xlock[e.rid] \notin {None, t}
            BY <3>1, <3>3, OthersRows
        <3> QED
            BY <3>2, <3>3
    <2> QED
        BY <2>1, <2>2, <2>3
<1>3. \A k \in Keys, r \in Rids \ tainted' : hmap'[k] # None => Once(bucket'[hmap'[k]], r)
    BY <1>1 DEF IndexOK
<1> QED
    BY <1>2, <1>3 DEF IndexOK

\* A step that leaves the hash index alone: only a transaction that loads a bucket, or
\* goes on to other work with one, has something to show.
LEMMA SameBuckets ==
    ASSUME TypeOK, BucketOK, UNCHANGED <<hmap, bucket, removed>>, tainted \subseteq tainted',
           \A u \in Txns : \/ cur'[u] = None
                           \/ Cursor(u)'
                           \/ cur'[u] = cur[u] /\ pc'[u] = pc[u] /\ cmd'[u] = cmd[u] /\ work'[u] = work[u]
    PROVE  BucketOK'
<1>1. ASSUME NEW u \in Txns PROVE Cursor(u)'
    <2>1. CASE cur'[u] = None
        BY <2>1 DEF Cursor
    <2>2. CASE cur'[u] = cur[u] /\ pc'[u] = pc[u] /\ cmd'[u] = cmd[u] /\ work'[u] = work[u]
        <3>1. CurKey(u)' = CurKey(u) /\ Op(u)' = Op(u)
            BY <2>2 DEF CurKey, Op
        <3>2. Cursor(u)
            BY DEF BucketOK
        <3> QED
            BY <2>2, <3>1, <3>2 DEF Cursor
    <2> QED
        BY <2>1, <2>2
<1> QED
    BY <1>1 DEF BucketOK

\* What the others' lookups have to find, after a step of t.
LEMMA OthersLookup ==
    ASSUME TypeOK, TypeOK', MustOK, NEW t \in Txns, Guarantee(t), NEW u \in Txns \ {t},
           \A r \in must'[u] : cmd[u].kind = "select" /\ r \notin tainted' => committed'[r] = committed[r],
           \A r \in must'[u] : r \notin tainted' /\ xlock'[r] = t /\ pc'[t] = "commit" => r \notin Changed(t)'
    PROVE  Lookup(u)'
<1>1. SameContext(u) /\ SameLocks(u) /\ tainted \subseteq tainted'
    BY DEF Guarantee
<1>2. Lookup(u)
    BY DEF MustOK
<1>3. ASSUME cmd[u].kind = "select", NEW r \in must'[u] \ tainted' PROVE ToFind(u, r)'
    <2>1. r \in must[u] \ tainted /\ r \in Rids
        BY <1>1 DEF SameContext, TypeOK, QueryType
    <2>2. ToFind(u, r)
        BY <1>2, <1>3, <2>1 DEF Lookup
    <2>3. (xlock'[r] = u <=> xlock[r] = u) /\ (xlock[r] = u => SameRow(r))
        BY <1>1, <2>1 DEF SameLocks
    <2>4. RowKey(u, r)' = RowKey(u, r)
        BY <1>3, <2>3 DEF RowKey, SameRow
    <2>5. xlock'[r] = u => Live(r)'
        BY <2>2, <2>3 DEF ToFind, Live, SameRow
    <2>6. ASSUME xlock'[r] \notin {None, u}, pc'[xlock'[r]] = "commit" PROVE r \notin Changed(xlock[r])'
        <3>1. CASE xlock'[r] = t
            <4>1. r \notin Changed(t)'
                BY <1>3, <2>6, <3>1
            <4> QED
                BY <3>1, <4>1 DEF Changed
        <3>2. CASE xlock'[r] # t
            <4>1. PICK x \in Txns \ {t} : x = xlock'[r]
                BY <2>1, <2>6, <3>2 DEF TypeOK, TableType
            <4>2. SameContext(x) /\ SameLocks(x)
                BY DEF Guarantee
            <4>3. Changed(x)' = Changed(x) /\ pc'[x] = pc[x] /\ xlock[r] = x
                BY <2>1, <4>1, <4>2 DEF SameContext, SameLocks, Changed
            <4>4. r \notin Changed(x)
                BY <2>2, <2>6, <4>1, <4>3 DEF ToFind
            <4> QED
                BY <4>1, <4>3, <4>4 DEF Changed
        <3> QED
            BY <3>1, <3>2
    <2>7. pc'[u] = "read" => Finds(u, r)'
        BY <1>1, <2>2, <2>4 DEF ToFind, Finds, SameContext
    <2>8. RowKey(u, r)' \in Sought(cmd'[u])
        BY <1>1, <2>2, <2>4 DEF ToFind, SameContext
    <2> QED
        BY <2>5, <2>6, <2>7, <2>8 DEF ToFind, Sought
<1> QED
    BY <1>1, <1>2, <1>3 DEF Lookup, SameContext
-----------------------------------------------------------------------------
(* Statements that read *)

\* An entry that is in an index leads to a slot in use.
LEMMA PresentAllocated ==
    ASSUME TypeOK, LockOK, HeapOK, IndexOK, NEW e \in EntryType, e.rid \notin tainted, Present(e)
    PROVE  e.rid \in allocated
<1>1. e.rid \in Rids /\ e.key \in Keys /\ e.key # None
    BY EntryFields
<1>2. Expected(e) /\ Row(e.rid)
    BY <1>1 DEF IndexOK, HeapOK
<1>3. CASE ~Altered(e.rid) /\ Kept(e)
    BY <1>1, <1>2, <1>3 DEF Row, Settled, Kept, Live
<1>4. CASE Altered(e.rid)
    <2>1. PICK x \in Txns : xlock[e.rid] = x /\ e.rid \in Changed(x)
        BY <1>1, <1>4 DEF Altered, TypeOK, TableType
    <2>2. PICK n \in DOMAIN undo[x] : undo[x][n].rid = e.rid
        BY <2>1 DEF Changed
    <2>3. UndoneBy(undo[x], n, e.rid)
        BY <2>2 DEF HeapOK, Undone
    <2> QED
        BY <2>3 DEF UndoneBy
<1>5. CASE ~Altered(e.rid) /\ ~Kept(e)
    <2>1. PICK x \in Txns : xlock[e.rid] = x /\ ExpectedBy(x, e) /\ e.rid \notin Changed(x)
        BY <1>1, <1>2, <1>5 DEF Expected, Altered, TypeOK, TableType
    <2>2. Owns(x)
        BY DEF LockOK
    <2> QED
        BY <1>5, <2>1, <2>2 DEF ExpectedBy, Owns
<1> QED
    BY <1>3, <1>4, <1>5

\* The entries of a row that a statement of t has to find are in both indexes.
LEMMA RowPresent ==
    ASSUME TypeOK, ControlOK, LockOK, IndexOK, TaskOK, NEW t \in Txns, pc[t] \notin {"commit", "abort"}, work[t] = <<>>,
           NEW e \in EntryType, e.rid \notin tainted, RowKey(t, e.rid) = e.key, xlock[e.rid] = t => Live(e.rid),
           xlock[e.rid] \notin {None, t} /\ pc[xlock[e.rid]] = "commit" => e.rid \notin Changed(xlock[e.rid])
    PROVE  Present(e)
<1>1. e.rid \in Rids /\ t # None
    BY EntryFields, TableAssumption
<1> SUFFICES Expected(e)
    BY DEF IndexOK
<1>2. CASE xlock[e.rid] = None
    BY <1>1, <1>2 DEF Expected, RowKey, Kept
<1>3. CASE xlock[e.rid] = t
    <2>1. Current(e) /\ Task(t, e)
        BY <1>3 DEF RowKey, Current, TaskOK
    <2>2. ~Due(t, e)
        BY TodoEmpty DEF Due
    <2>3. Kept(e) \/ In(abortActions[t], e)
        BY <1>3, <2>1, <2>2 DEF Task
    <2> QED
        BY <1>1, <1>3, <2>3 DEF Expected, ExpectedBy
<1>4. CASE xlock[e.rid] \notin {None, t}
    <2>1. PICK x \in Txns : x = xlock[e.rid] /\ x # t /\ x # None
        BY <1>1, <1>4 DEF TypeOK, TableType
    <2>2. Kept(e)
        BY <2>1 DEF RowKey, Kept
    <2>3. pc[x] = "commit" => ~In(commitActions[x], e)
        BY <2>1 DEF LockOK, Owns
    <2> QED
        BY <2>1, <2>2, <2>3 DEF Expected, ExpectedBy
<1> QED
    BY <1>2, <1>3, <1>4

\* A step that only reads, for a statement of t.
ReadOnly(t) ==
    /\ UNCHANGED <<allocated, deleted, tuple, committed, xlock, slock, btree, hmap, bucket, removed,
                   work, abortActions, commitActions, undo, tainted>>
    /\ \A u \in Txns \ {t} : SameContext(u)
    /\ pc[t] \in {"ready", "scankey", "read"} /\ pc'[t] \in {"ready", "scankey", "read"}
    /\ work[t] = <<>>
    /\ got'[t] = <<>> \/ (got'[t] = got[t] /\ cmd'[t] = cmd[t])
\* Such a step leaves only its statement to be looked at.
LEMMA ReadOnlyKeeps ==
    ASSUME TypeOK, LockOK, HeapOK, IndexOK, TaskOK, GotOK, MustOK, TypeOK', NEW t \in Txns, ReadOnly(t)
    PROVE  /\ LockOK' /\ HeapOK' /\ IndexOK' /\ TaskOK'
           /\ Query(t)' => GotOK'
           /\ Lookup(t)' => MustOK'
<1>0. t # None
    BY TableAssumption
<1>1. Guarantee(t)
    BY DEF ReadOnly, Guarantee, SameLocks, SameRow
<1>2. \A u \in Txns : Changed(u)' = Changed(u)
    BY DEF ReadOnly, Changed
<1>4. \A r \in Rids : Exclusive(r)'
    BY DEF ReadOnly, LockOK, Exclusive
<1>5. Owns(t)'
    BY <1>2 DEF ReadOnly, LockOK, Owns, HasRead, Due
<1>6. \A r \in Rids : r \notin tainted' => Row(r)'
    <2> SUFFICES ASSUME NEW r \in Rids, r \notin tainted' PROVE Row(r)'
        OBVIOUS
    <2>1. Row(r)
        BY DEF ReadOnly, HeapOK
    <2>2. Altered(r)' <=> Altered(r)
        BY DEF ReadOnly, Altered, Changed
    <2> QED
        BY <2>1, <2>2 DEF ReadOnly, Row, Settled, Live
<1>7. Undone(t)'
    BY DEF ReadOnly, HeapOK, Undone, UndoneBy
<1>8. ASSUME NEW e \in EntryType, e.rid \notin tainted' PROVE Task(t, e)'
    <2>1. Task(t, e)
        BY <1>8 DEF ReadOnly, TaskOK
    <2>2. (Kept(e)' <=> Kept(e)) /\ (Current(e)' <=> Current(e))
        BY DEF ReadOnly, Kept, Current, Live
    <2>3. ~Due(t, e)' /\ ~Due(t, e) /\ Once(Todo(work'[t]), e)
        BY TodoEmpty DEF ReadOnly, Due
    <2> QED
        BY <2>1, <2>2, <2>3 DEF ReadOnly, Task
<1>9. ASSUME NEW e \in EntryType, xlock[e.rid] \in {None, t} PROVE Expected(e)' <=> Expected(e)
    <2>1. Kept(e)' <=> Kept(e)
        BY DEF ReadOnly, Kept
    <2>2. ExpectedBy(t, e)' <=> ExpectedBy(t, e)
        BY <2>1 DEF ReadOnly, ExpectedBy
    <2> QED
        BY <1>0, <1>9, <2>1, <2>2 DEF ReadOnly, Expected
<1>10. LockOK' /\ HeapOK' /\ TaskOK' /\ (Query(t)' => GotOK')
    BY <1>1, <1>4, <1>5, <1>6, <1>7, <1>8, OthersInv
<1>11. IndexOK'
    BY <1>1, <1>9, SameIndexes DEF ReadOnly
<1>12. ASSUME NEW u \in Txns \ {t} PROVE Lookup(u)'
    BY <1>1, OthersLookup DEF ReadOnly
<1> QED
    BY <1>10, <1>11, <1>12 DEF MustOK

\* The rows a new statement has to find.
LEMMA MustFindFacts ==
    ASSUME TypeOK, NEW t \in Txns, NEW c \in Commands, NEW r \in MustFind(t, c)
    PROVE  /\ r \in Rids /\ RowKey(t, r) \in Sought(c) /\ RowKey(t, r) \in Keys
           /\ xlock[r] = t => Live(r)
           /\ xlock[r] \notin {None, t} => pc[xlock[r]] # "commit"
<1>1. Sought(c) \subseteq Keys
    BY CommandFacts DEF Sought
<1> QED
    BY <1>1 DEF MustFind, RowKey, Committing

\* TreeLookup.
LEMMA TreeLookupKeeps ==
    ASSUME Inv, TypeOK', NEW t \in Txns, NEW c \in Commands, TreeLookup(t, c)
    PROVE  (BucketOK /\ LockOK /\ HeapOK /\ IndexOK /\ TaskOK /\ GotOK /\ MustOK)'
<1> USE DEF Set
<1>0. TypeOK /\ ControlOK /\ BucketOK /\ LockOK /\ HeapOK /\ IndexOK /\ TaskOK /\ GotOK /\ MustOK
    BY DEF Inv
<1>1. /\ pc[t] = "ready" /\ work[t] = <<>> /\ cur[t] = None /\ got[t] = <<>>
      /\ pc'[t] = "read" /\ cmd'[t] = c /\ must'[t] = MustFind(t, c) /\ entries'[t] = TreeEntries(c)
      /\ UNCHANGED <<cur, work, got, gone, failed, hmap, bucket, removed, tainted>>
    BY <1>0 DEF TreeLookup, Issue, Idle, TypeOK, QueryType, ControlOK, Control, opVars, indexVars, hashVars
<1>2. \A u \in Txns \ {t} : SameContext(u)
    BY <1>0 DEF TreeLookup, Issue, SameContext, TypeOK, QueryType, TaskType, opVars, taskVars
<1>3. ReadOnly(t)
    BY <1>1, <1>2 DEF ReadOnly, TreeLookup, heapVars, lockVars, indexVars, hashVars, opVars, taskVars
<1>4. BucketOK'
    BY <1>0, <1>1, <1>2, SameBuckets DEF SameContext
<1>5. Query(t)'
    <2> SUFFICES ASSUME NEW n \in DOMAIN entries'[t], entries'[t][n][2] \notin tainted' PROVE EntryLeft(t, n)'
        BY <1>1 DEF Query
    <2>1. TreeEntries(c)[n] \in btree /\ \A m \in DOMAIN TreeEntries(c) : TreeEntries(c)[m] = TreeEntries(c)[n] => m = n
        BY <1>0, <1>1, TreeEntriesFacts
    <2>2. PICK k \in Keys, r \in Rids : TreeEntries(c)[n] = <<k, r>>
        BY <1>0, <2>1 DEF TypeOK, IndexType, Pairs
    <2>3. PICK e \in EntryType : e.index = "btree" /\ e.key = k /\ e.rid = r
        BY EntryOf DEF Indexes
    <2>4. Present(e)
        BY <2>1, <2>2, <2>3 DEF Present
    <2>5. r \in allocated
        BY <1>0, <1>1, <2>2, <2>3, <2>4, PresentAllocated
    <2>6. Once(entries'[t], entries'[t][n])
        BY <1>0, <1>1, TreeEntriesFacts DEF Once
    <2>7. ~In(got'[t], entries'[t][n])
        BY <1>1, InEmpty
    <2> QED
        BY <1>1, <1>3, <2>2, <2>5, <2>6, <2>7 DEF EntryLeft, ReadOnly
<1>6. Lookup(t)'
    <2> SUFFICES ASSUME NEW r \in must'[t] \ tainted' PROVE ToFind(t, r)'
        BY <1>1 DEF Lookup
    <2>1. /\ r \in Rids /\ RowKey(t, r) \in Sought(c) /\ RowKey(t, r) \in Keys
          /\ xlock[r] = t => Live(r)
          /\ xlock[r] \notin {None, t} => pc[xlock[r]] # "commit"
        BY <1>0, <1>1, MustFindFacts
    <2>2. PICK e \in EntryType : e.index = "btree" /\ e.key = RowKey(t, r) /\ e.rid = r
        BY <2>1, EntryOf DEF Indexes
    <2>3. Present(e)
        BY <1>0, <1>1, <2>1, <2>2, RowPresent
    <2>4. <<RowKey(t, r), r>> \in btree
        BY <2>2, <2>3 DEF Present
    <2>5. In(entries'[t], <<RowKey(t, r), r>>)
        BY <1>0, <1>1, <2>1, <2>4, TreeEntriesFacts DEF In
    <2>6. RowKey(t, r)' = RowKey(t, r) /\ (Live(r)' <=> Live(r)) /\ xlock'[r] = xlock[r]
        BY <1>3 DEF ReadOnly, RowKey, Live
    <2>7. xlock'[r] \notin {None, t} => pc'[xlock'[r]] # "commit"
        <3> SUFFICES ASSUME xlock[r] \notin {None, t} PROVE pc'[xlock[r]] # "commit"
            BY <2>6
        <3>1. xlock[r] \in Txns \ {t}
            BY <1>0, <2>1 DEF TypeOK, TableType
        <3> QED
            BY <1>2, <2>1, <3>1 DEF SameContext
    <2> QED
        BY <1>1, <2>1, <2>5, <2>6, <2>7 DEF ToFind, Finds, Sought
<1> QED
    BY <1>0, <1>3, <1>4, <1>5, <1>6, ReadOnlyKeeps

\* A hash lookup that has loaded the bucket of its key, or found that there is none.
LEMMA LoadForScanKeeps ==
    ASSUME Inv, TypeOK', NEW t \in Txns, NEW k \in Keys, LoadForScan(t, k), ReadOnly(t),
           entries'[t] = <<>>, got'[t] = <<>>, cmd'[t] \in Commands, cmd'[t].path = "hash", cmd'[t].key = k,
           \A r \in must'[t] \ tainted :
                /\ RowKey(t, r) = k
                /\ xlock[r] = t => Live(r)
                /\ xlock[r] \notin {None, t} /\ pc[xlock[r]] = "commit" => r \notin Changed(xlock[r])
    PROVE  Cursor(t)' /\ Query(t)' /\ Lookup(t)'
<1> USE DEF Set
<1>0. TypeOK /\ ControlOK /\ BucketOK /\ LockOK /\ HeapOK /\ IndexOK /\ TaskOK /\ GotOK /\ MustOK
    BY DEF Inv
<1>1. pc'[t] = (IF hmap[k] = None THEN "read" ELSE "scankey") /\ cur'[t] = hmap[k]
    BY <1>0 DEF LoadForScan, TypeOK, QueryType, TaskType
<1>2. Cursor(t)'
    BY <1>1 DEF Cursor, CurKey, ReadOnly
<1>3. Query(t)'
    BY DEF Query
<1>4. Sought(cmd'[t]) = {k}
    BY DEF Sought
<1>5. ASSUME NEW r \in must'[t] \ tainted PROVE ToFind(t, r)'
    <2>0. r \in Rids
        BY DEF TypeOK, QueryType
    <2>1. PICK e \in EntryType : e.index = "hash" /\ e.key = k /\ e.rid = r
        BY <2>0, EntryOf DEF Indexes
    <2>2. pc[t] \notin {"commit", "abort"} /\ work[t] = <<>>
        BY DEF ReadOnly
    <2>3. Present(e)
        BY <1>0, <1>5, <2>1, <2>2, RowPresent
    <2>4. hmap[k] # None
        BY <2>1, <2>3 DEF Present
    <2>5. RowKey(t, r)' = RowKey(t, r) /\ (Live(r)' <=> Live(r)) /\ xlock'[r] = xlock[r]
        BY DEF ReadOnly, RowKey, Live
    <2>6. ASSUME xlock'[r] \notin {None, t}, pc'[xlock'[r]] = "commit" PROVE r \notin Changed(xlock[r])'
        <3>1. PICK x \in Txns \ {t} : x = xlock[r] /\ x = xlock'[r]
            BY <1>0, <2>0, <2>5, <2>6 DEF TypeOK, TableType
        <3>2. pc'[x] = pc[x]
            BY <3>1 DEF ReadOnly, SameContext
        <3>3. r \notin Changed(x)
            BY <1>5, <2>6, <3>1, <3>2
        <3> QED
            BY <3>1, <3>3 DEF ReadOnly, Changed
    <2>7. pc'[t] # "read"
        BY <1>1, <2>4
    <2> QED
        BY <1>4, <1>5, <2>5, <2>6, <2>7 DEF ToFind, Sought
<1>6. tainted' = tainted
    BY DEF ReadOnly
<1> QED
    BY <1>2, <1>3, <1>5, <1>6 DEF Lookup

\* HashLookup.
LEMMA HashLookupKeeps ==
    ASSUME Inv, TypeOK', NEW t \in Txns, NEW c \in Commands, HashLookup(t, c)
    PROVE  (BucketOK /\ LockOK /\ HeapOK /\ IndexOK /\ TaskOK /\ GotOK /\ MustOK)'
<1> USE DEF Set
<1>0. TypeOK /\ ControlOK /\ BucketOK /\ LockOK /\ HeapOK /\ IndexOK /\ TaskOK /\ GotOK /\ MustOK
    BY DEF Inv
<1>1. /\ pc[t] = "ready" /\ work[t] = <<>> /\ got[t] = <<>> /\ entries[t] = <<>>
      /\ cmd'[t] = c /\ must'[t] = MustFind(t, c)
      /\ UNCHANGED <<work, got, entries, gone, failed, hmap, bucket, removed, tainted>>
    BY <1>0 DEF HashLookup, Issue, Idle, TypeOK, QueryType, ControlOK, Control, indexVars, hashVars
<1>2. \A u \in Txns \ {t} : SameContext(u)
    BY <1>0 DEF HashLookup, Issue, LoadForScan, SameContext, TypeOK, QueryType, TaskType, taskVars
<1>3. LoadForScan(t, c.key) /\ c.path = "hash" /\ c.key \in Keys
    BY CommandFacts DEF HashLookup
<1>4. pc'[t] \in {"scankey", "read"}
    BY <1>0, <1>3 DEF LoadForScan, TypeOK, QueryType
<1>5. ReadOnly(t)
    BY <1>1, <1>2, <1>4 DEF ReadOnly, HashLookup, heapVars, lockVars, indexVars, hashVars, taskVars
<1>6. ASSUME NEW r \in must'[t] \ tainted
      PROVE  /\ RowKey(t, r) = c.key
             /\ xlock[r] = t => Live(r)
             /\ xlock[r] \notin {None, t} => pc[xlock[r]] # "commit"
    BY <1>0, <1>1, <1>3, MustFindFacts DEF Sought
<1>7. Cursor(t)' /\ Query(t)' /\ Lookup(t)'
    BY <1>1, <1>3, <1>5, <1>6, LoadForScanKeeps
<1>8. BucketOK'
    BY <1>0, <1>1, <1>2, <1>7, SameBuckets DEF SameContext
<1> QED
    BY <1>0, <1>5, <1>7, <1>8, ReadOnlyKeeps

\* ScanBucket.
LEMMA ScanBucketKeeps ==
    ASSUME Inv, TypeOK', NEW t \in Txns, ScanBucket(t)
    PROVE  (BucketOK /\ LockOK /\ HeapOK /\ IndexOK /\ TaskOK /\ GotOK /\ MustOK)'
<1> USE DEF Set
<1> DEFINE k == cmd[t].key
           b == bucket[cur[t]]
<1>0. TypeOK /\ ControlOK /\ BucketOK /\ LockOK /\ HeapOK /\ IndexOK /\ TaskOK /\ GotOK /\ MustOK
    BY DEF Inv
<1>1. /\ pc[t] = "scankey" /\ work[t] = <<>> /\ got[t] = <<>> /\ entries[t] = <<>>
      /\ cmd[t] \in Commands /\ cur[t] \in Buckets
      /\ UNCHANGED <<cmd, must, work, got, gone, failed, hmap, bucket, removed, tainted>>
    BY <1>0 DEF ScanBucket, TypeOK, TaskType, ControlOK, Control, indexVars, hashVars
<1>2. k \in Keys /\ cmd[t].path = "hash" /\ Sought(cmd[t]) = {k} /\ cmd'[t] = cmd[t]
    BY <1>0, <1>1, CommandFacts DEF MustOK, Lookup, Sought
<1>3. \A u \in Txns \ {t} : SameContext(u)
    BY <1>0, <1>1 DEF ScanBucket, LoadForScan, SameContext, TypeOK, QueryType, TaskType, taskVars
<1>4. pc'[t] \in {"scankey", "read"}
    BY <1>0 DEF ScanBucket, LoadForScan, TypeOK, QueryType
<1>5. ReadOnly(t)
    BY <1>1, <1>3, <1>4 DEF ReadOnly, ScanBucket, heapVars, lockVars, indexVars, hashVars, taskVars
<1>6. cmd[t].kind = "select" =>
        \A r \in must'[t] \ tainted :
            /\ RowKey(t, r) = k
            /\ xlock[r] = t => Live(r)
            /\ xlock[r] \notin {None, t} /\ pc[xlock[r]] = "commit" => r \notin Changed(xlock[r])
    BY <1>0, <1>1, <1>2 DEF MustOK, Lookup, ToFind
<1>7. CASE cur[t] \in removed
    <2>1. LoadForScan(t, k) /\ entries' = entries
        BY <1>7 DEF ScanBucket
    <2>2. Cursor(t)' /\ Query(t)' /\ Lookup(t)'
        <3>1. CASE cmd[t].kind = "select"
            BY <1>1, <1>2, <1>5, <1>6, <2>1, <3>1, LoadForScanKeeps
        <3>2. CASE cmd[t].kind # "select"
            <4>1. pc'[t] = (IF hmap[k] = None THEN "read" ELSE "scankey") /\ cur'[t] = hmap[k]
                BY <1>0, <2>1 DEF LoadForScan, TypeOK, QueryType, TaskType
            <4>2. Cursor(t)'
                BY <1>1, <4>1 DEF Cursor, CurKey
            <4>3. Query(t)' /\ Lookup(t)'
                BY <1>1, <1>2, <2>1, <3>2 DEF Query, Lookup
            <4> QED
                BY <4>2, <4>3
        <3> QED
            BY <3>1, <3>2
    <2>3. BucketOK'
        BY <1>0, <1>1, <1>3, <2>2, SameBuckets DEF SameContext
    <2> QED
        BY <1>0, <1>5, <2>2, <2>3, ReadOnlyKeeps
<1>8. CASE cur[t] \notin removed
    <2>1. /\ pc'[t] = "read" /\ cur'[t] = None
          /\ entries'[t] = [n \in DOMAIN b |-> <<k, b[n]>>]
        BY <1>0, <1>8 DEF ScanBucket, TypeOK, QueryType, TaskType
    <2>2. hmap[k] = cur[t] /\ cur[t] # None /\ b \in Seq(Rids)
        BY <1>0, <1>1, <1>8, TableAssumption DEF BucketOK, Cursor, CurKey, TypeOK, IndexType
    <2>3. DOMAIN entries'[t] = DOMAIN b /\ \A n \in DOMAIN b : entries'[t][n] = <<k, b[n]>> /\ b[n] \in Rids
        BY <2>1, <2>2
    <2>4. BucketOK'
        BY <1>0, <1>1, <1>3, <2>1, SameBuckets DEF SameContext
    <2> HIDE DEF k, b
    <2>5. Query(t)'
        <3> SUFFICES ASSUME NEW n \in DOMAIN entries'[t], entries'[t][n][2] \notin tainted' PROVE EntryLeft(t, n)'
            BY <1>1 DEF Query
        <3>1. b[n] \in Rids \ tainted /\ entries'[t][n] = <<k, b[n]>> /\ n \in DOMAIN b
            BY <1>1, <2>3
        <3>2. PICK e \in EntryType : e.index = "hash" /\ e.key = k /\ e.rid = b[n]
            BY <1>2, <3>1, EntryOf DEF Indexes
        <3>3. Present(e)
            BY <2>2, <3>1, <3>2 DEF Present, In, b
        <3>4. b[n] \in allocated
            BY <1>0, <3>1, <3>2, <3>3, PresentAllocated
        <3>5. Once(b, b[n])
            BY <1>0, <1>2, <2>2, <3>1 DEF IndexOK, b
        <3>6. Once(entries'[t], entries'[t][n])
            BY <2>3, <3>1, <3>5 DEF Once
        <3>7. ~In(got'[t], entries'[t][n])
            BY <1>1, InEmpty
        <3> QED
            BY <1>5, <3>1, <3>4, <3>6, <3>7 DEF EntryLeft, ReadOnly
    <2>6. Lookup(t)'
        <3> SUFFICES ASSUME cmd[t].kind = "select", NEW r \in must'[t] \ tainted' PROVE ToFind(t, r)'
            BY <1>2, <2>1 DEF Lookup
        <3>1. ToFind(t, r) /\ r \in Rids \ tainted /\ RowKey(t, r) = k
            BY <1>0, <1>1, <1>6 DEF MustOK, Lookup, TypeOK, QueryType
        <3>2. PICK e \in EntryType : e.index = "hash" /\ e.key = k /\ e.rid = r
            BY <1>2, <3>1, EntryOf DEF Indexes
        <3>3. Present(e)
            BY <1>0, <1>1, <3>1, <3>2, RowPresent DEF ToFind
        <3>4. In(b, r)
            BY <2>2, <3>2, <3>3 DEF Present, b
        <3>5. RowKey(t, r)' = RowKey(t, r) /\ (Live(r)' <=> Live(r)) /\ xlock'[r] = xlock[r]
            BY <1>5 DEF ReadOnly, RowKey, Live
        <3>6. In(entries'[t], <<RowKey(t, r), r>>)
            BY <2>3, <3>1, <3>4 DEF In
        <3>7. ASSUME xlock'[r] \notin {None, t}, pc'[xlock'[r]] = "commit" PROVE r \notin Changed(xlock[r])'
            <4>1. PICK x \in Txns \ {t} : x = xlock[r] /\ x = xlock'[r]
                BY <1>0, <3>1, <3>5, <3>7 DEF TypeOK, TableType
            <4>2. pc'[x] = pc[x]
                BY <1>3, <4>1 DEF SameContext
            <4>3. r \notin Changed(x)
                BY <3>1, <3>7, <4>1, <4>2 DEF ToFind
            <4> QED
                BY <1>5, <4>1, <4>3 DEF ReadOnly, Changed
        <3>8. RowKey(t, r)' \in Sought(cmd[t])'
            BY <1>2, <3>1, <3>5 DEF Sought
        <3> QED
            BY <3>1, <3>5, <3>6, <3>7, <3>8 DEF ToFind, Finds
    <2> QED
        BY <1>0, <1>5, <2>4, <2>5, <2>6, ReadOnlyKeeps
<1> QED
    BY <1>7, <1>8

\* LockFails and Return.
LEMMA LockFailsKeeps ==
    ASSUME Inv, TypeOK', NEW t \in Txns, LockFails(t)
    PROVE  (BucketOK /\ LockOK /\ HeapOK /\ IndexOK /\ TaskOK /\ GotOK /\ MustOK)'
<1> USE DEF Set
<1>0. TypeOK /\ ControlOK /\ BucketOK /\ LockOK /\ HeapOK /\ IndexOK /\ TaskOK /\ GotOK /\ MustOK
    BY DEF Inv
<1>1. /\ pc[t] = "read" /\ work[t] = <<>> /\ entries'[t] = <<>> /\ t \in failed'
      /\ UNCHANGED <<pc, cmd, cur, must, work, got, gone, hmap, bucket, removed, tainted>>
    BY <1>0 DEF LockFails, Reading, TypeOK, QueryType, indexVars, hashVars, opVars
<1>2. \A u \in Txns \ {t} : SameContext(u)
    BY <1>0 DEF LockFails, SameContext, TypeOK, QueryType, opVars, taskVars
<1>3. ReadOnly(t)
    BY <1>1, <1>2 DEF ReadOnly, LockFails, heapVars, lockVars, indexVars, hashVars, opVars, taskVars
<1>4. BucketOK'
    BY <1>0, <1>1, SameBuckets
<1>5. Query(t)'
    BY <1>0, <1>1, <1>3 DEF ReadOnly, GotOK, Query, GotOne
<1>6. Lookup(t)'
    <2> SUFFICES ASSUME cmd[t].kind = "select", NEW r \in must[t] \ tainted PROVE ToFind(t, r)'
        BY <1>1 DEF Lookup
    <2>1. ToFind(t, r)
        BY <1>0 DEF MustOK, Lookup
    <2> QED
        BY <1>1, <1>3, <2>1 DEF ReadOnly, ToFind, RowKey, Live, Finds, Changed, Sought
<1> QED
    BY <1>0, <1>3, <1>4, <1>5, <1>6, ReadOnlyKeeps
\* Return.
LEMMA ReturnKeeps ==
    ASSUME Inv, TypeOK', NEW t \in Txns, Return(t)
    PROVE  (BucketOK /\ LockOK /\ HeapOK /\ IndexOK /\ TaskOK /\ GotOK /\ MustOK)'
<1> USE DEF Set
<1>0. TypeOK /\ ControlOK /\ BucketOK /\ LockOK /\ HeapOK /\ IndexOK /\ TaskOK /\ GotOK /\ MustOK
    BY DEF Inv
<1>1. /\ pc[t] = "read" /\ work[t] = <<>> /\ entries[t] = <<>> /\ cur[t] = None
      /\ pc'[t] = "ready" /\ got'[t] = <<>> /\ must'[t] = {}
      /\ UNCHANGED <<entries, cur, work, failed, hmap, bucket, removed, tainted>>
    BY <1>0 DEF Return, Reading, TypeOK, QueryType, ControlOK, Control, indexVars, hashVars, opVars
<1>2. \A u \in Txns \ {t} : SameContext(u)
    BY <1>0 DEF Return, SameContext, TypeOK, QueryType, opVars, taskVars
<1>3. ReadOnly(t)
    BY <1>1, <1>2 DEF ReadOnly, Return, heapVars, lockVars, indexVars, hashVars, opVars, taskVars
<1>4. BucketOK'
    BY <1>0, <1>1, <1>2, SameBuckets DEF SameContext
<1>5. Query(t)' /\ Lookup(t)'
    BY <1>1 DEF Query, Lookup
<1> QED
    BY <1>0, <1>3, <1>4, <1>5, ReadOnlyKeeps

\* ReadEntry: the lock of a row nobody was changing is the lock of the committed row.
LEMMA ReadEntryKeeps ==
    ASSUME Inv, TypeOK', NEW t \in Txns, ReadEntry(t)
    PROVE  (BucketOK /\ LockOK /\ HeapOK /\ IndexOK /\ TaskOK /\ GotOK /\ MustOK)'
<1> USE DEF Set
<1>0. TypeOK /\ ControlOK /\ BucketOK /\ LockOK /\ HeapOK /\ IndexOK /\ TaskOK /\ GotOK /\ MustOK
    BY DEF Inv
<1>1. entries[t] \in Seq(Pairs) /\ entries[t] # <<>> /\ got[t] \in Seq(Pairs) /\ t # None
    BY <1>0, TableAssumption DEF ReadEntry, TypeOK, QueryType
<1>2. PICK k \in Keys, r \in Rids : Head(entries[t]) = <<k, r>>
    <2>1. Head(entries[t]) \in Pairs
        BY <1>1
    <2> QED
        BY <2>1 DEF Pairs
<1>3. CanFetch(t, r) /\ TakeLock(t, r) /\ Fetched(t, k, r)
    BY <1>2 DEF ReadEntry
<1>4. /\ pc[t] = "read" /\ work[t] = <<>> /\ entries'[t] = Tail(entries[t])
      /\ UNCHANGED <<allocated, deleted, tuple, committed, btree, hmap, bucket, removed, pc, cmd, must, gone,
                     work, cur, abortActions, commitActions, undo, tainted>>
    BY <1>0 DEF ReadEntry, Reading, TypeOK, QueryType, heapVars, indexVars, hashVars, opVars, taskVars
<1>5. /\ xlock[r] \in {None, t}
      /\ Writes(cmd[t]) => /\ slock[r] \subseteq {t} /\ slock' = slock
                           /\ xlock'[r] = t /\ \A q \in Rids : q # r => xlock'[q] = xlock[q]
      /\ ~Writes(cmd[t]) => /\ xlock' = xlock
                            /\ slock'[r] \subseteq slock[r] \cup {t} /\ slock[r] \subseteq slock'[r]
                            /\ xlock[r] = t \/ t \in slock'[r]
                            /\ xlock[r] = t => slock' = slock
                            /\ \A q \in Rids : q # r => slock'[q] = slock[q]
    <2>1. xlock \in [Rids -> Txns \cup {None}] /\ slock \in [Rids -> SUBSET Txns]
        BY <1>0 DEF TypeOK, TableType
    <2>2. CASE Writes(cmd[t])
        BY <1>3, <2>1, <2>2 DEF CanFetch, CanWrite, CanRead, TakeLock, LockX
    <2>3. CASE ~Writes(cmd[t])
        BY <1>3, <2>1, <2>3 DEF CanFetch, CanRead, TakeLock
    <2> QED
        BY <2>2, <2>3
<1>6. \A q \in Rids : /\ xlock[q] = t => xlock'[q] = t
                      /\ xlock'[q] # xlock[q] => q = r /\ xlock[r] = None /\ xlock'[r] = t
                      /\ t \in slock[q] => t \in slock'[q]
    BY <1>5
<1>7. ASSUME NEW u \in Txns \ {t} PROVE SameContext(u) /\ SameLocks(u)
    <2>1. SameContext(u)
        BY <1>0, <1>3, <1>4 DEF ReadEntry, Fetched, SameContext, TypeOK, QueryType
    <2>2. SameLocks(u)
        BY <1>4, <1>5, TableAssumption DEF SameLocks, SameRow
    <2> QED
        BY <2>1, <2>2
<1>8. Guarantee(t)
    BY <1>4, <1>7 DEF Guarantee
<1>9. got'[t] = got[t] \/ (got'[t] = Append(got[t], <<k, r>>) /\ r \notin deleted /\ tuple[r] = k)
    BY <1>0, <1>3 DEF Fetched, TypeOK, QueryType
<1>10. \A q \in Rids : Exclusive(q)'
    <2> SUFFICES ASSUME NEW q \in Rids, xlock'[q] # None PROVE slock'[q] \subseteq {xlock'[q]}
        BY DEF Exclusive
    <2>1. Exclusive(q)
        BY <1>0 DEF LockOK
    <2>2. CASE q # r
        BY <1>5, <2>1, <2>2 DEF Exclusive
    <2>3. CASE q = r
        BY <1>5, <2>1, <2>3 DEF Exclusive
    <2> QED
        BY <2>2, <2>3
<1>11. Owns(t)'
    <2>0. Owns(t) /\ (\A e \in EntryType : e.rid \in Rids) /\ Changed(t) \subseteq Rids /\ Changed(t)' = Changed(t)
        <3>1. \A n \in DOMAIN undo[t] : undo[t][n] \in UndoType
            BY <1>0 DEF TypeOK, TaskType
        <3>2. Changed(t) \subseteq Rids
            BY <3>1 DEF Changed, UndoType
        <3>3. Changed(t)' = Changed(t)
            BY <1>4 DEF Changed
        <3> QED
            BY <1>0, <3>2, <3>3, EntryFields DEF LockOK
    <2>1. ASSUME NEW n \in DOMAIN got'[t] PROVE HasRead(t, got[t][n][2])'
        <3>1. ASSUME NEW m \in DOMAIN got[t] PROVE HasRead(t, got[t][m][2]) /\ got[t][m][2] \in Rids
            <4>1. got[t][m] \in Pairs
                BY <1>1
            <4> QED
                BY <2>0, <4>1 DEF Owns, Pairs
        <3>2. CASE got'[t] = got[t]
            BY <1>4, <1>6, <3>1, <3>2 DEF HasRead
        <3>3. CASE got'[t] = Append(got[t], <<k, r>>)
            <4>1. \/ n \in DOMAIN got[t] /\ got'[t][n] = got[t][n]
                  \/ got'[t][n] = <<k, r>>
                BY <1>1, <3>3
            <4>2. CASE n \in DOMAIN got[t] /\ got'[t][n] = got[t][n]
                BY <1>4, <1>6, <3>1, <4>2 DEF HasRead
            <4>3. CASE got'[t][n] = <<k, r>>
                BY <1>4, <1>5, <4>3 DEF HasRead
            <4> QED
                BY <4>1, <4>2, <4>3
        <3> QED
            BY <1>9, <3>2, <3>3
    <2> QED
        BY <1>4, <1>6, <2>0, <2>1 DEF Owns, Due
<1>12. r \notin Changed(t) \/ xlock[r] = t
    BY <1>0 DEF LockOK, Owns
<1>13. ASSUME NEW q \in Rids, q \notin tainted', xlock[q] \in {None, t} PROVE Row(q)'
    <2>1. Row(q)
        BY <1>0, <1>4, <1>13 DEF HeapOK
    <2>2. Altered(q) => Altered(q)'
        <3> SUFFICES ASSUME Altered(q) PROVE Altered(q)'
            OBVIOUS
        <3>1. xlock[q] = t /\ xlock'[q] = t /\ q \in Changed(t)
            BY <1>6, <1>13 DEF Altered
        <3> QED
            BY <1>1, <1>4, <3>1 DEF Altered, Changed
    <2> QED
        BY <1>4, <2>1, <2>2 DEF Row, Settled, Live
<1>14. Undone(t)'
    BY <1>0, <1>4 DEF HeapOK, Undone, UndoneBy
<1>15. ASSUME NEW e \in EntryType, e.rid \notin tainted'
       PROVE  /\ Task(t, e)'
              /\ xlock[e.rid] \in {None, t} => (Expected(e)' <=> Expected(e))
    <2>1. Task(t, e) /\ ~Due(t, e) /\ e.rid \in Rids /\ e.key # None
        BY <1>0, <1>4, <1>15, TodoEmpty, EntryFields DEF TaskOK, Due
    <2>2. (Kept(e)' <=> Kept(e)) /\ (Current(e)' <=> Current(e)) /\ (Due(t, e)' <=> Due(t, e))
        BY <1>4 DEF Kept, Current, Live, Due
    <2>3. CASE xlock'[e.rid] = xlock[e.rid]
        <3>1. Task(t, e)'
            BY <1>4, <2>1, <2>2, <2>3 DEF Task
        <3>2. ExpectedBy(t, e)' <=> ExpectedBy(t, e)
            BY <1>4, <2>2 DEF ExpectedBy
        <3> QED
            BY <1>1, <2>2, <2>3, <3>1, <3>2 DEF Expected
    <2>4. CASE xlock'[e.rid] # xlock[e.rid]
        <3>1. e.rid = r /\ xlock[r] = None /\ xlock'[r] = t
            BY <1>6, <2>1, <2>4
        <3>2. ~In(abortActions[t], e) /\ ~In(commitActions[t], e)
            BY <1>0, <1>1, <3>1 DEF LockOK, Owns
        <3>3. Settled(r)
            BY <1>0, <1>4, <1>15, <3>1 DEF HeapOK, Row, Altered
        <3>4. Kept(e) <=> Current(e)
            BY <2>1, <3>1, <3>3 DEF Settled, Kept, Current
        <3>5. Task(t, e)'
            BY <1>4, <2>1, <2>2, <3>2, <3>4, InOnce DEF Task
        <3>6. ExpectedBy(t, e)' <=> Kept(e)
            BY <1>4, <2>2, <3>2 DEF ExpectedBy
        <3> QED
            BY <1>1, <3>1, <3>5, <3>6 DEF Expected
    <2> QED
        BY <2>3, <2>4
<1>16. Query(t)'
    <2>0. Query(t)
        BY <1>0 DEF GotOK
    <2>1. /\ \A e \in Pairs : In(entries[t], e) <=> e = <<k, r>> \/ In(Tail(entries[t]), e)
          /\ \A e \in Pairs : Once(entries[t], e) => Once(Tail(entries[t]), e)
          /\ Once(entries[t], <<k, r>>) => ~In(Tail(entries[t]), <<k, r>>)
        BY <1>1, <1>2, InTail
    <2>2. /\ \A n \in DOMAIN Tail(entries[t]) :
                /\ Tail(entries[t])[n] \in Pairs
                /\ \E m \in DOMAIN entries[t] : entries[t][m] = Tail(entries[t])[n]
          /\ 1 \in DOMAIN entries[t] /\ entries[t][1] = <<k, r>>
        BY <1>1, <1>2
    <2>3. r \notin tainted => EntryLeft(t, 1)
        BY <2>0, <2>2 DEF Query
    <2>4. r \notin tainted => \A m \in DOMAIN got[t] : got[t][m][2] = r => tuple[r] # k
        <3> SUFFICES ASSUME r \notin tainted, NEW m \in DOMAIN got[t], got[t][m][2] = r, tuple[r] = k PROVE FALSE
            OBVIOUS
        <3>1. GotOne(t, m)
            BY <2>0 DEF Query
        <3>2. got[t][m] = <<k, r>>
            <4>1. got[t][m] \in Pairs
                BY <1>1
            <4> QED
                BY <3>1, <4>1 DEF GotOne, Pairs
        <3> QED
            BY <2>2, <2>3, <3>2 DEF EntryLeft, In
    <2>5. ASSUME NEW n \in DOMAIN got'[t], got'[t][n][2] \notin tainted PROVE GotOne(t, n)'
        <3>1. CASE got'[t] = got[t]
            BY <1>4, <2>0, <2>5, <3>1 DEF Query, GotOne
        <3>2. CASE got'[t] = Append(got[t], <<k, r>>) /\ r \notin deleted /\ tuple[r] = k
            <4> DEFINE L == Len(got[t])
            <4>1. /\ DOMAIN got[t] = 1 .. L /\ DOMAIN got'[t] = 1 .. L + 1 /\ L \in Nat
                  /\ got'[t][L + 1] = <<k, r>> /\ \A m \in 1 .. L : got'[t][m] = got[t][m]
                  /\ \A m \in 1 .. L + 1 : m \in 1 .. L \/ m = L + 1
                BY <1>1, <3>2
            <4>2. CASE n = L + 1
                <5>1. r \in allocated \cup gone[t]
                    BY <1>4, <2>2, <2>3, <2>5, <4>1, <4>2 DEF EntryLeft
                <5>2. ASSUME NEW m \in DOMAIN got'[t], got'[t][m][2] = r PROVE m = n
                    BY <2>4, <2>5, <3>2, <4>1, <4>2, <5>2
                <5> HIDE DEF L
                <5> QED
                    BY <1>4, <3>2, <4>1, <4>2, <5>1, <5>2 DEF GotOne
            <4>3. CASE n \in 1 .. L
                <5>1. GotOne(t, n) /\ got'[t][n] = got[t][n]
                    BY <2>0, <2>5, <4>1, <4>3 DEF Query
                <5>2. ASSUME NEW m \in DOMAIN got'[t], got'[t][m][2] = got[t][n][2] PROVE m = n
                    <6>1. CASE m \in 1 .. L
                        BY <4>1, <5>1, <5>2, <6>1 DEF GotOne
                    <6>2. CASE m = L + 1
                        <7>1. got[t][n][2] = r
                            BY <4>1, <5>2, <6>2
                        <7> QED
                            BY <2>4, <2>5, <3>2, <4>1, <4>3, <5>1, <7>1
                    <6> QED
                        BY <4>1, <6>1, <6>2
                <5> QED
                    BY <1>4, <5>1, <5>2 DEF GotOne
            <4> QED
                BY <4>1, <4>2, <4>3
        <3> QED
            BY <1>9, <3>1, <3>2
    <2>6. ASSUME NEW n \in DOMAIN entries'[t], entries'[t][n][2] \notin tainted PROVE EntryLeft(t, n)'
        <3>1. PICK e \in Pairs : e = entries'[t][n] /\ In(Tail(entries[t]), e)
            BY <1>4, <2>2 DEF In
        <3>2. PICK m \in DOMAIN entries[t] : entries[t][m] = e
            BY <1>4, <2>2, <3>1
        <3>3. EntryLeft(t, m) /\ Once(Tail(entries[t]), e)
            BY <2>0, <2>1, <2>6, <3>1, <3>2 DEF Query, EntryLeft
        <3>4. e # <<k, r>>
            <4> SUFFICES ASSUME e = <<k, r>> PROVE FALSE
                OBVIOUS
            <4>1. Once(entries[t], <<k, r>>)
                BY <3>2, <3>3 DEF EntryLeft
            <4> QED
                BY <2>1, <3>1, <4>1
        <3>5. ~In(got'[t], e)
            <4>1. ~In(got[t], e)
                BY <3>2, <3>3 DEF EntryLeft
            <4>2. <<k, r>> \in Pairs
                BY DEF Pairs
            <4>3. In(Append(got[t], <<k, r>>), e) <=> In(got[t], e) \/ e = <<k, r>>
                BY <1>1, <4>2, InAppend
            <4> QED
                BY <1>9, <3>4, <4>1, <4>3
        <3> QED
            BY <1>4, <3>1, <3>2, <3>3, <3>5 DEF EntryLeft
    <2> QED
        BY <1>4, <2>5, <2>6 DEF Query
<1>17. ASSUME NEW u \in Txns PROVE Lookup(u)'
    <2>1. CASE u # t
        BY <1>0, <1>4, <1>8, <2>1, OthersLookup
    <2>2. CASE u = t
        <3> SUFFICES ASSUME cmd[t].kind = "select", NEW q \in must[t] \ tainted PROVE ToFind(t, q)'
            BY <1>4, <2>2 DEF Lookup
        <3>1. ToFind(t, q) /\ q \in Rids /\ ~Writes(cmd[t]) /\ xlock' = xlock
            BY <1>0, <1>5 DEF MustOK, Lookup, Writes, TypeOK, QueryType
        <3>2. /\ RowKey(t, q)' = RowKey(t, q) /\ RowKey(t, q)' \in Sought(cmd[t])'
              /\ xlock'[q] = t => Live(q)'
              /\ xlock'[q] \notin {None, t} /\ pc'[xlock'[q]] = "commit" => q \notin Changed(xlock[q])'
            BY <1>4, <3>1 DEF ToFind, RowKey, Live, Changed, Sought
        <3>3. (\E n \in DOMAIN got[t] : got[t][n][2] = q) \/ In(entries[t], <<RowKey(t, q), q>>)
            BY <1>1, <1>4, <3>1 DEF ToFind, Finds
        <3>4. Finds(t, q)'
            <4>1. CASE \E n \in DOMAIN got[t] : got[t][n][2] = q
                <5>1. PICK n \in DOMAIN got[t] : got[t][n][2] = q
                    BY <4>1
                <5>2. n \in DOMAIN got'[t] /\ got'[t][n] = got[t][n]
                    BY <1>1, <1>9, <5>1
                <5> QED
                    BY <5>1, <5>2 DEF Finds
            <4>2. CASE In(entries[t], <<RowKey(t, q), q>>)
                <5>1. <<RowKey(t, q), q>> = <<k, r>> \/ In(Tail(entries[t]), <<RowKey(t, q), q>>)
                    BY <1>1, <1>2, <4>2, InTail
                <5>2. CASE In(Tail(entries[t]), <<RowKey(t, q), q>>)
                    BY <1>4, <3>2, <5>2 DEF Finds
                <5>3. CASE <<RowKey(t, q), q>> = <<k, r>>
                    <6>1. q = r /\ RowKey(t, r) = k
                        BY <5>3
                    <6>2. Live(r) /\ tuple[r] = k
                        <7>1. CASE xlock[r] = t
                            BY <3>1, <6>1, <7>1 DEF ToFind, RowKey
                        <7>2. CASE xlock[r] = None
                            <8>1. Settled(r)
                                BY <1>0, <6>1, <7>2 DEF HeapOK, Row, Altered
                            <8> QED
                                BY <1>1, <6>1, <7>2, <8>1, TableAssumption DEF RowKey, Settled
                        <7> QED
                            BY <1>5, <7>1, <7>2
                    <6>3. got'[t] = Append(got[t], <<k, r>>)
                        BY <1>0, <1>3, <6>2 DEF Fetched, TypeOK, QueryType, Live
                    <6>4. Len(got[t]) + 1 \in DOMAIN got'[t] /\ got'[t][Len(got[t]) + 1] = <<k, r>>
                        BY <1>1, <6>3
                    <6> QED
                        BY <6>1, <6>4 DEF Finds
                <5> QED
                    BY <5>1, <5>2, <5>3
            <4> QED
                BY <3>3, <4>1, <4>2
        <3> QED
            BY <3>2, <3>4 DEF ToFind
    <2> QED
        BY <2>1, <2>2
<1>18. BucketOK'
    BY <1>0, <1>4, SameBuckets
<1>19. LockOK' /\ HeapOK' /\ TaskOK' /\ GotOK'
    BY <1>0, <1>8, <1>10, <1>11, <1>13, <1>14, <1>15, <1>16, OthersInv
<1>20. IndexOK'
    BY <1>0, <1>4, <1>8, <1>15, SameIndexes
<1> QED
    BY <1>17, <1>18, <1>19, <1>20 DEF MustOK
-----------------------------------------------------------------------------
(* Work on the indexes *)

\* A step of t on an index changes nothing else but its list of work and abort actions.
IndexStep(t) ==
    /\ UNCHANGED <<allocated, deleted, tuple, committed, xlock, slock, pc, cmd, entries, got, must, gone,
                   commitActions, undo, failed, tainted>>
    /\ \A u \in Txns \ {t} : work'[u] = work[u] /\ cur'[u] = cur[u] /\ abortActions'[u] = abortActions[u]
\* Such a step leaves only the locks, the tasks and the indexes to be looked at.
LEMMA IndexStepKeeps ==
    ASSUME TypeOK, LockOK, HeapOK, TaskOK, GotOK, MustOK, NEW t \in Txns, IndexStep(t)
    PROVE  /\ Guarantee(t) /\ HeapOK' /\ GotOK' /\ MustOK'
           /\ Owns(t)' => LockOK'
           /\ (\A e \in EntryType : e.rid \notin tainted' => Task(t, e)') => TaskOK'
<1>1. Guarantee(t)
    BY DEF IndexStep, Guarantee, SameContext, SameLocks, SameRow
<1>2. \A r \in Rids : Exclusive(r)'
    BY DEF IndexStep, LockOK, Exclusive
<1>3. ASSUME NEW r \in Rids, r \notin tainted' PROVE Row(r)'
    <2>1. Row(r)
        BY <1>3 DEF IndexStep, HeapOK
    <2>2. Altered(r)' <=> Altered(r)
        BY DEF IndexStep, Altered, Changed
    <2> QED
        BY <2>1, <2>2 DEF IndexStep, Row, Settled, Live
<1>4. Undone(t)'
    BY DEF IndexStep, HeapOK, Undone, UndoneBy
<1>5. Query(t)'
    BY DEF IndexStep, GotOK, Query, GotOne, EntryLeft
<1>6. MustOK'
    <2> SUFFICES ASSUME NEW u \in Txns, cmd[u].kind = "select", NEW r \in must[u] \ tainted PROVE ToFind(u, r)'
        BY DEF IndexStep, MustOK, Lookup
    <2>1. ToFind(u, r)
        BY DEF MustOK, Lookup
    <2> QED
        BY <2>1 DEF IndexStep, ToFind, RowKey, Live, Finds, Changed, Sought
<1> QED
    BY <1>1, <1>2, <1>3, <1>4, <1>5, <1>6, OthersInv

\* The operation t is about to do.
LEMMA NextOp ==
    ASSUME TypeOK, ControlOK, LockOK, TaskOK, IndexOK, NEW t \in Txns, work[t] # <<>>
    PROVE  /\ work[t] \in Seq(OpType) /\ Head(work[t]) = Op(t)
           /\ Op(t).entry \in EntryType /\ Due(t, Op(t).entry)
           /\ xlock[Op(t).entry.rid] = t /\ Op(t).entry.rid \in Changed(t)
           /\ Op(t).op = "insert" <=> pc[t] = "read"
           /\ Op(t).op = "remove" <=> pc[t] \in {"commit", "abort"}
           /\ Op(t).entry.rid \notin tainted => (Present(Op(t).entry) <=> Op(t).op = "remove")
<1> DEFINE e == Op(t).entry
<1>1. /\ work[t] \in Seq(OpType) /\ Head(work[t]) = Op(t) /\ 1 \in DOMAIN work[t] /\ work[t][1] = Op(t)
      /\ e \in EntryType /\ Op(t).op \in {"insert", "remove"}
    BY WorkFacts DEF TypeOK, TaskType, Op
<1>2. Due(t, e)
    BY <1>1, TodoTail DEF Due
<1>3. xlock[e.rid] = t /\ e.rid \in Changed(t)
    BY <1>1, <1>2 DEF LockOK, Owns
<1>4. Op(t).op = (IF pc[t] = "read" THEN "insert" ELSE "remove")
    BY <1>1 DEF ControlOK, Control
<1>5. pc[t] \in {"read", "commit", "abort"}
    BY DEF ControlOK, Control, TypeOK, QueryType
<1>6. ASSUME e.rid \notin tainted PROVE Present(e) <=> Op(t).op = "remove"
    <2>1. Task(t, e) /\ (Present(e) <=> Expected(e)) /\ t # None
        BY <1>1, <1>6, TableAssumption DEF TaskOK, IndexOK
    <2>2. Expected(e) <=> ExpectedBy(t, e)
        BY <1>3, <2>1 DEF Expected
    <2> HIDE DEF e
    <2>3. CASE pc[t] = "read"
        BY <1>2, <1>4, <2>1, <2>2, <2>3 DEF Task, ExpectedBy
    <2>4. CASE pc[t] = "commit"
        BY <1>2, <1>3, <1>4, <2>1, <2>2, <2>4 DEF Task, ExpectedBy
    <2>5. CASE pc[t] = "abort"
        BY <1>2, <1>4, <2>1, <2>2, <2>5 DEF Task, ExpectedBy
    <2> QED
        BY <1>5, <2>3, <2>4, <2>5
<1> QED
    BY <1>1, <1>2, <1>3, <1>4, <1>5, <1>6

\* An insertion is done: the entry is an abort action now.
LEMMA InsertionDone ==
    ASSUME Inv, NEW t \in Txns, IndexStep(t), NEW e0 \in EntryType, work[t] # <<>>,
           e0 = Op(t).entry, Op(t).op = "insert",
           work'[t] = Tail(work[t]), abortActions'[t] = Append(abortActions[t], e0)
    PROVE  /\ LockOK' /\ TaskOK'
           /\ \A e \in EntryType : e.rid \notin tainted => (Expected(e)' <=> Expected(e) \/ e = e0)
<1>0. TypeOK /\ ControlOK /\ BucketOK /\ LockOK /\ HeapOK /\ IndexOK /\ TaskOK /\ GotOK /\ MustOK
    BY DEF Inv
<1>1. /\ work[t] \in Seq(OpType) /\ Head(work[t]).entry = e0 /\ Due(t, e0) /\ xlock[e0.rid] = t
      /\ e0.rid \in Changed(t) /\ pc[t] = "read" /\ abortActions[t] \in Seq(EntryType) /\ t # None
    BY <1>0, NextOp, TableAssumption DEF TypeOK, TaskType
<1>2. Guarantee(t)
    BY <1>0, IndexStepKeeps
<1>3. ASSUME NEW e \in EntryType
      PROVE  /\ Due(t, e) <=> e = e0 \/ Due(t, e)'
             /\ Once(Todo(work[t]), e) => Once(Todo(work'[t]), e)
             /\ Once(Todo(work[t]), e0) => ~Due(t, e0)'
             /\ In(abortActions'[t], e) <=> In(abortActions[t], e) \/ e = e0
             /\ Once(abortActions[t], e) /\ (e = e0 => ~In(abortActions[t], e)) => Once(abortActions'[t], e)
    <2>1. /\ Due(t, e) <=> e = e0 \/ Due(t, e)'
          /\ Once(Todo(work[t]), e) => Once(Todo(work'[t]), e)
          /\ Once(Todo(work[t]), e0) => ~Due(t, e0)'
        BY <1>1, TodoTail DEF Due
    <2> QED
        BY <1>1, <2>1, InAppend
<1>4. Changed(t)' = Changed(t)
    BY DEF IndexStep, Changed
<1>5. Owns(t)'
    <2>1. Owns(t)
        BY <1>0 DEF LockOK
    <2> QED
        BY <1>1, <1>3, <1>4, <2>1 DEF IndexStep, Owns, HasRead
<1>6. ASSUME NEW e \in EntryType, e.rid \notin tainted PROVE Task(t, e)'
    <2>1. Task(t, e)
        BY <1>0, <1>6 DEF TaskOK
    <2>2. (Kept(e)' <=> Kept(e)) /\ (Current(e)' <=> Current(e))
        BY DEF IndexStep, Kept, Current, Live
    <2> QED
        BY <1>1, <1>3, <2>1, <2>2 DEF IndexStep, Task
<1>7. LockOK' /\ TaskOK'
    BY <1>0, <1>5, <1>6, IndexStepKeeps DEF IndexStep
<1>8. ASSUME NEW e \in EntryType, e.rid \notin tainted PROVE Expected(e)' <=> Expected(e) \/ e = e0
    <2>0. e.rid \in Rids /\ xlock'[e.rid] = xlock[e.rid]
        BY EntryFields DEF IndexStep
    <2>1. Kept(e)' <=> Kept(e)
        BY DEF IndexStep, Kept
    <2>2. CASE xlock[e.rid] = t
        <3>1. ExpectedBy(t, e)' <=> ExpectedBy(t, e) \/ e = e0
            BY <1>1, <1>3, <2>1 DEF IndexStep, ExpectedBy
        <3> QED
            BY <1>1, <2>0, <2>2, <3>1 DEF Expected
    <2>3. CASE xlock[e.rid] = None
        BY <1>1, <2>0, <2>1, <2>3 DEF Expected
    <2>4. CASE xlock[e.rid] \notin {None, t}
        BY <1>0, <1>1, <1>2, <2>0, <2>4, OthersRows
    <2> QED
        BY <2>2, <2>3, <2>4
<1> QED
    BY <1>7, <1>8

\* A removal is done: the entry is not due any more.
LEMMA RemovalDone ==
    ASSUME Inv, NEW t \in Txns, IndexStep(t), NEW e0 \in EntryType, work[t] # <<>>,
           e0 = Op(t).entry, Op(t).op = "remove",
           work'[t] = Tail(work[t]), abortActions'[t] = abortActions[t]
    PROVE  /\ LockOK' /\ TaskOK'
           /\ \A e \in EntryType : e.rid \notin tainted => (Expected(e)' <=> Expected(e) /\ e # e0)
<1>0. TypeOK /\ ControlOK /\ BucketOK /\ LockOK /\ HeapOK /\ IndexOK /\ TaskOK /\ GotOK /\ MustOK
    BY DEF Inv
<1>1. /\ work[t] \in Seq(OpType) /\ Head(work[t]).entry = e0 /\ Due(t, e0) /\ xlock[e0.rid] = t
      /\ e0.rid \in Changed(t) /\ pc[t] \in {"commit", "abort"} /\ t # None
    BY <1>0, NextOp, TableAssumption
<1>2. Guarantee(t)
    BY <1>0, IndexStepKeeps
<1>3. ASSUME NEW e \in EntryType
      PROVE  /\ Due(t, e) <=> e = e0 \/ Due(t, e)'
             /\ Once(Todo(work[t]), e) => Once(Todo(work'[t]), e)
             /\ Once(Todo(work[t]), e0) => ~Due(t, e0)'
    BY <1>1, TodoTail DEF Due
<1>4. Changed(t)' = Changed(t)
    BY DEF IndexStep, Changed
<1>5. Owns(t)'
    <2>1. Owns(t)
        BY <1>0 DEF LockOK
    <2> QED
        BY <1>1, <1>3, <1>4, <2>1 DEF IndexStep, Owns, HasRead
<1>6. ASSUME NEW e \in EntryType, e.rid \notin tainted PROVE Task(t, e)'
    <2>1. Task(t, e)
        BY <1>0, <1>6 DEF TaskOK
    <2>2. (Kept(e)' <=> Kept(e)) /\ (Current(e)' <=> Current(e))
        BY DEF IndexStep, Kept, Current, Live
    <2> QED
        BY <1>1, <1>3, <2>1, <2>2 DEF IndexStep, Task
<1>7. LockOK' /\ TaskOK'
    BY <1>0, <1>5, <1>6, IndexStepKeeps DEF IndexStep
<1>8. ASSUME NEW e \in EntryType, e.rid \notin tainted PROVE Expected(e)' <=> Expected(e) /\ e # e0
    <2>0. e.rid \in Rids /\ xlock'[e.rid] = xlock[e.rid]
        BY EntryFields DEF IndexStep
    <2>1. Kept(e)' <=> Kept(e)
        BY DEF IndexStep, Kept
    <2>2. CASE xlock[e.rid] = t
        <3>0. Task(t, e)
            BY <1>0, <1>8 DEF TaskOK
        <3>1. ExpectedBy(t, e)' <=> ExpectedBy(t, e) /\ e # e0
            <4>1. CASE pc[t] = "abort"
                BY <1>1, <1>3, <2>1, <3>0, <4>1 DEF IndexStep, ExpectedBy, Task
            <4>2. CASE pc[t] = "commit"
                BY <1>1, <1>3, <2>1, <3>0, <4>2 DEF IndexStep, ExpectedBy, Task
            <4> QED
                BY <1>1, <4>1, <4>2
        <3> QED
            BY <1>1, <2>0, <2>2, <3>1 DEF Expected
    <2>3. CASE xlock[e.rid] = None
        BY <1>1, <2>0, <2>1, <2>3 DEF Expected
    <2>4. CASE xlock[e.rid] \notin {None, t}
        BY <1>0, <1>1, <1>2, <2>0, <2>4, OthersRows
    <2> QED
        BY <2>2, <2>3, <2>4
<1> QED
    BY <1>7, <1>8

\* TreeWork.
LEMMA TreeWorkKeeps ==
    ASSUME Inv, NEW t \in Txns, TreeWork(t)
    PROVE  (BucketOK /\ LockOK /\ HeapOK /\ IndexOK /\ TaskOK /\ GotOK /\ MustOK)'
<1> USE DEF Set
<1>0. TypeOK /\ ControlOK /\ BucketOK /\ LockOK /\ HeapOK /\ IndexOK /\ TaskOK /\ GotOK /\ MustOK
    BY DEF Inv
<1>1. /\ work[t] # <<>> /\ work'[t] = Tail(work[t]) /\ cur'[t] = None
      /\ UNCHANGED <<hmap, bucket, removed, pc, cmd, tainted>>
      /\ \A u \in Txns \ {t} : work'[u] = work[u] /\ cur'[u] = cur[u] /\ abortActions'[u] = abortActions[u]
    BY <1>0 DEF TreeWork, Inserted, OpDone, TypeOK, TaskType, hashVars, queryVars
<1>2. PICK e0 \in EntryType : e0 = Op(t).entry
    BY <1>0, <1>1, NextOp
<1>3. e0.index = "btree"
    BY <1>2 DEF TreeWork
<1>4. IndexStep(t)
    BY <1>1 DEF IndexStep, TreeWork, heapVars, lockVars, queryVars
<1>5. HeapOK' /\ GotOK' /\ MustOK'
    BY <1>0, <1>4, IndexStepKeeps
<1>6. BucketOK'
    BY <1>0, <1>1, SameBuckets
<1>7. ASSUME NEW e \in EntryType PROVE e = e0 <=> e.index = "btree" /\ <<e.key, e.rid>> = <<e0.key, e0.rid>>
    BY <1>3, EntryFields
<1>8. \A k \in Keys, r \in Rids \ tainted' : hmap'[k] # None => Once(bucket'[hmap'[k]], r)
    BY <1>0, <1>1 DEF IndexOK
<1>9. CASE Op(t).op = "insert"
    <2>1. btree' = btree \cup {<<e0.key, e0.rid>>} /\ abortActions'[t] = Append(abortActions[t], e0)
        BY <1>0, <1>2, <1>9 DEF TreeWork, Inserted, TypeOK, TaskType
    <2>2. /\ LockOK' /\ TaskOK'
          /\ \A e \in EntryType : e.rid \notin tainted => (Expected(e)' <=> Expected(e) \/ e = e0)
        BY <1>1, <1>2, <1>4, <1>9, <2>1, InsertionDone
    <2>3. ASSUME NEW e \in EntryType PROVE Present(e)' <=> Present(e) \/ e = e0
        BY <1>1, <1>3, <1>7, <2>1 DEF Present
    <2>4. IndexOK'
        BY <1>0, <1>1, <1>8, <2>2, <2>3 DEF IndexOK
    <2> QED
        BY <1>5, <1>6, <2>2, <2>4
<1>10. CASE Op(t).op = "remove"
    <2>1. btree' = btree \ {<<e0.key, e0.rid>>} /\ abortActions'[t] = abortActions[t]
        BY <1>0, <1>2, <1>10 DEF TreeWork
    <2>2. /\ LockOK' /\ TaskOK'
          /\ \A e \in EntryType : e.rid \notin tainted => (Expected(e)' <=> Expected(e) /\ e # e0)
        BY <1>1, <1>2, <1>4, <1>10, <2>1, RemovalDone
    <2>3. ASSUME NEW e \in EntryType PROVE Present(e)' <=> Present(e) /\ e # e0
        BY <1>1, <1>3, <1>7, <2>1 DEF Present
    <2>4. IndexOK'
        BY <1>0, <1>1, <1>8, <2>2, <2>3 DEF IndexOK
    <2> QED
        BY <1>5, <1>6, <2>2, <2>4
<1> QED
    BY <1>0, <1>1, <1>9, <1>10, WorkFacts DEF Op, TypeOK, TaskType

\* HashLoad: a new bucket is empty, and no other key and no transaction has it.
LEMMA HashLoadKeeps ==
    ASSUME Inv, NEW t \in Txns, HashLoad(t)
    PROVE  (BucketOK /\ LockOK /\ HeapOK /\ IndexOK /\ TaskOK /\ GotOK /\ MustOK)'
<1> USE DEF Set
<1>0. TypeOK /\ ControlOK /\ BucketOK /\ LockOK /\ HeapOK /\ IndexOK /\ TaskOK /\ GotOK /\ MustOK
    BY DEF Inv
<1>1. /\ work[t] # <<>> /\ cur[t] = None
      /\ UNCHANGED <<btree, pc, cmd, tainted, abortActions, commitActions, undo>>
    BY DEF HashLoad, taskVars, queryVars
<1>2. PICK e0 \in EntryType : e0 = Op(t).entry
    BY <1>0, <1>1, NextOp
<1> DEFINE k == e0.key
<1>3. k \in Keys /\ e0.rid \in Rids /\ e0.index = "hash" /\ pc[t] \in {"read", "commit", "abort"}
    BY <1>0, <1>1, <1>2, EntryFields DEF HashLoad, ControlOK, Control, TypeOK, QueryType
<1>4. \A u \in Txns \ {t} : work'[u] = work[u] /\ cur'[u] = cur[u]
    BY <1>0 DEF HashLoad, OpDone, TypeOK, TaskType
<1>5. IndexStep(t)
    BY <1>1, <1>4 DEF IndexStep, HashLoad, heapVars, lockVars, queryVars
<1>6. HeapOK' /\ GotOK' /\ MustOK' /\ Guarantee(t)
    BY <1>0, <1>5, IndexStepKeeps
<1>7. ASSUME work'[t] = work[t] PROVE LockOK' /\ TaskOK' /\ \A e \in EntryType : Expected(e)' <=> Expected(e)
    <2>1. work' = work
        BY <1>0, <1>4, <1>7 DEF HashLoad, OpDone, TypeOK, TaskType
    <2>2. LockOK'
        BY <1>0, <1>1, <1>5, <2>1 DEF IndexStep, LockOK, Exclusive, Owns, Due, HasRead, Changed
    <2>3. TaskOK'
        BY <1>0, <1>1, <1>5, <2>1 DEF IndexStep, TaskOK, Task, Due, Kept, Current, Live
    <2>4. \A e \in EntryType : Expected(e)' <=> Expected(e)
        BY <1>1, <1>5, <2>1 DEF IndexStep, Expected, ExpectedBy, Due, Kept
    <2> QED
        BY <2>2, <2>3, <2>4
<1>8. CASE /\ hmap[k] # None
           /\ cur' = [cur EXCEPT ![t] = hmap[k]]
           /\ UNCHANGED <<hashVars, work>>
    <2>1. cur'[t] = hmap[k] /\ hmap[k] \notin removed /\ UNCHANGED <<hmap, bucket, removed, work>>
        BY <1>0, <1>3, <1>8 DEF TypeOK, TaskType, BucketOK, hashVars
    <2>2. Op(t)' = Op(t) /\ CurKey(t)' = k
        BY <1>1, <1>2, <1>3, <2>1 DEF Op, CurKey
    <2>3. Cursor(t)'
        BY <1>2, <1>3, <2>1, <2>2 DEF Cursor
    <2>4. BucketOK'
        BY <1>0, <1>1, <1>4, <2>1, <2>3, SameBuckets
    <2>5. IndexOK'
        BY <1>0, <1>1, <1>7, <2>1 DEF IndexOK, Present
    <2> QED
        BY <1>6, <1>7, <2>1, <2>4, <2>5
<1>9. CASE /\ hmap[k] = None
           /\ hmap' = [hmap EXCEPT ![k] = NewBucket]
           /\ bucket' = [bucket EXCEPT ![NewBucket] = <<>>] /\ removed' = removed \ {NewBucket}
           /\ cur' = [cur EXCEPT ![t] = NewBucket]
           /\ UNCHANGED work
           /\ Op(t).op = "insert"
    <2>1. PICK b \in Buckets : b = NewBucket /\ Unused(b)
        BY <1>0, <1>1, <1>3, <1>9, BucketToAllocate DEF TypeOK, IndexType, TaskType
    <2>2. /\ hmap'[k] = b /\ \A l \in Keys : l # k => hmap'[l] = hmap[l]
          /\ bucket'[b] = <<>> /\ \A c \in Buckets : c # b => bucket'[c] = bucket[c]
          /\ removed' = removed \ {b} /\ cur'[t] = b
          /\ \A l \in Keys : hmap[l] # b
          /\ \A u \in Txns : cur[u] # b
          /\ removed \subseteq Buckets /\ b # None
          /\ \A l \in Keys : hmap[l] # None => hmap[l] \in Buckets
        BY <1>0, <1>3, <1>9, <2>1, TableAssumption DEF TypeOK, IndexType, TaskType, Unused
    <2>3. ASSUME NEW u \in Txns PROVE Cursor(u)'
        <3>1. Op(u)' = Op(u) /\ CurKey(u)' = CurKey(u)
            BY <1>1, <1>9 DEF Op, CurKey
        <3>2. CASE u = t
            <4>1. CurKey(t) = k
                BY <1>2, <1>3 DEF CurKey
            <4> QED
                BY <1>2, <1>3, <2>2, <3>1, <3>2, <4>1 DEF Cursor
        <3>3. CASE u # t /\ cur[u] # None
            <4>0. cur'[u] = cur[u] /\ cur[u] # b
                BY <1>4, <2>2, <3>3
            <4>1. CurKey(u) \in Keys
                <5>1. CASE pc[u] = "scankey"
                    BY <1>0, <5>1, CommandFacts DEF CurKey, ControlOK, Control
                <5>2. CASE pc[u] # "scankey"
                    <6>1. work[u] # <<>>
                        BY <1>0, <3>3, <5>2 DEF ControlOK, Control
                    <6> QED
                        BY <1>0, <5>2, <6>1, NextOp, EntryFields DEF CurKey
                <5> QED
                    BY <5>1, <5>2
            <4>2. Cursor(u)
                BY <1>0 DEF BucketOK
            <4>3. cur[u] \notin removed => CurKey(u) # k
                BY <1>9, <3>3, <4>2 DEF Cursor
            <4> QED
                BY <1>1, <2>2, <3>1, <4>0, <4>1, <4>2, <4>3 DEF Cursor
        <3>4. CASE u # t /\ cur[u] = None
            BY <1>4, <3>4 DEF Cursor
        <3> QED
            BY <3>2, <3>3, <3>4
    <2>4. BucketOK'
        <3>1. \A l \in Keys : hmap'[l] # None => hmap'[l] \notin removed'
            BY <1>0, <2>2 DEF BucketOK
        <3>2. \A l, m \in Keys : hmap'[l] # None /\ hmap'[l] = hmap'[m] => l = m
            BY <1>0, <2>2 DEF BucketOK
        <3>3. \A c \in removed' : bucket'[c] = <<>>
            BY <1>0, <2>2 DEF BucketOK
        <3> QED
            BY <2>3, <3>1, <3>2, <3>3 DEF BucketOK
    <2>5. ASSUME NEW e \in EntryType PROVE Present(e)' <=> Present(e)
        <3>1. e.key \in Keys
            BY EntryFields
        <3>2. CASE e.index = "btree"
            BY <1>1, <3>2 DEF Present
        <3>3. CASE e.index # "btree" /\ e.key = k
            BY <1>9, <2>2, <3>3, InEmpty DEF Present
        <3>4. CASE e.index # "btree" /\ e.key # k
            <4>1. hmap'[e.key] = hmap[e.key] /\ (hmap[e.key] # None => bucket'[hmap[e.key]] = bucket[hmap[e.key]])
                BY <2>2, <3>1, <3>4
            <4> QED
                BY <3>4, <4>1 DEF Present
        <3> QED
            BY <3>2, <3>3, <3>4
    <2>6. ASSUME NEW l \in Keys, NEW r \in Rids \ tainted, hmap'[l] # None PROVE Once(bucket'[hmap'[l]], r)
        <3>1. CASE l = k
            BY <2>2, <3>1, InEmpty
        <3>2. CASE l # k
            BY <1>0, <2>2, <2>6, <3>2 DEF IndexOK
        <3> QED
            BY <3>1, <3>2
    <2>7. IndexOK'
        BY <1>0, <1>1, <1>7, <1>9, <2>5, <2>6 DEF IndexOK
    <2> QED
        BY <1>6, <1>7, <1>9, <2>4, <2>7
<1>10. CASE hmap[k] = None /\ Op(t).op = "remove" /\ OpDone(t) /\ UNCHANGED hashVars
    <2>1. /\ work'[t] = Tail(work[t]) /\ cur'[t] = None
          /\ UNCHANGED <<hmap, bucket, removed>> /\ abortActions'[t] = abortActions[t]
        BY <1>0, <1>1, <1>10 DEF OpDone, TypeOK, TaskType, hashVars
    <2>2. /\ LockOK' /\ TaskOK'
          /\ \A e \in EntryType : e.rid \notin tainted => (Expected(e)' <=> Expected(e) /\ e # e0)
        BY <1>1, <1>2, <1>5, <1>10, <2>1, RemovalDone
    <2>3. e0.rid \in tainted
        BY <1>0, <1>1, <1>2, <1>3, <1>10, NextOp DEF Present
    <2>4. IndexOK'
        BY <1>0, <1>1, <2>1, <2>2, <2>3 DEF IndexOK, Present
    <2>5. BucketOK'
        BY <1>0, <1>1, <1>4, <2>1, SameBuckets
    <2> QED
        BY <1>6, <2>2, <2>4, <2>5
<1> QED
    BY <1>2, <1>8, <1>9, <1>10 DEF HashLoad

\* HashInsert: the bucket is that of the key, unless it was removed.
LEMMA HashInsertKeeps ==
    ASSUME Inv, NEW t \in Txns, HashInsert(t)
    PROVE  (BucketOK /\ LockOK /\ HeapOK /\ IndexOK /\ TaskOK /\ GotOK /\ MustOK)'
<1> USE DEF Set
<1>0. TypeOK /\ ControlOK /\ BucketOK /\ LockOK /\ HeapOK /\ IndexOK /\ TaskOK /\ GotOK /\ MustOK
    BY DEF Inv
<1>1. /\ work[t] # <<>> /\ cur[t] # None /\ cur'[t] = None /\ Op(t).op = "insert"
      /\ UNCHANGED <<btree, hmap, removed, pc, cmd, tainted, commitActions, undo>>
    BY <1>0 DEF HashInsert, HashReady, Inserted, OpDone, TypeOK, TaskType, queryVars
<1>2. PICK e0 \in EntryType : e0 = Op(t).entry
    BY <1>0, <1>1, NextOp
<1>3. e0.key \in Keys /\ e0.rid \in Rids /\ e0.index = "hash" /\ pc[t] = "read"
    BY <1>0, <1>1, <1>2, EntryFields, NextOp DEF HashInsert, HashReady
<1>4. \A u \in Txns \ {t} : work'[u] = work[u] /\ cur'[u] = cur[u] /\ abortActions'[u] = abortActions[u]
    BY <1>0 DEF HashInsert, Inserted, OpDone, TypeOK, TaskType
<1>5. IndexStep(t)
    BY <1>1, <1>4 DEF IndexStep, HashInsert, heapVars, lockVars, queryVars
<1>6. HeapOK' /\ GotOK' /\ MustOK' /\ Guarantee(t)
    BY <1>0, <1>5, IndexStepKeeps
<1>7. CASE cur[t] \in removed
    <2>1. UNCHANGED <<bucket, work, abortActions>>
        BY <1>7 DEF HashInsert
    <2>2. LockOK'
        BY <1>0, <1>1, <1>5, <2>1 DEF IndexStep, LockOK, Exclusive, Owns, Due, HasRead, Changed
    <2>3. TaskOK'
        BY <1>0, <1>1, <1>5, <2>1 DEF IndexStep, TaskOK, Task, Due, Kept, Current, Live
    <2>4. \A e \in EntryType : Expected(e)' <=> Expected(e)
        BY <1>1, <1>5, <2>1 DEF IndexStep, Expected, ExpectedBy, Due, Kept
    <2>5. IndexOK'
        BY <1>0, <1>1, <2>1, <2>4 DEF IndexOK, Present
    <2>6. BucketOK'
        BY <1>0, <1>1, <1>4, <2>1, SameBuckets
    <2> QED
        BY <1>6, <2>2, <2>3, <2>5, <2>6
<1>8. CASE cur[t] \notin removed
    <2> DEFINE b == cur[t]
    <2>1. /\ bucket' = [bucket EXCEPT ![b] = Append(@, e0.rid)]
          /\ work'[t] = Tail(work[t]) /\ abortActions'[t] = Append(abortActions[t], e0)
        BY <1>0, <1>2, <1>8 DEF HashInsert, Inserted, OpDone, TypeOK, TaskType
    <2>2. b \in Buckets /\ hmap[e0.key] = b /\ bucket[b] \in Seq(Rids)
        BY <1>0, <1>1, <1>2, <1>3, <1>8 DEF BucketOK, Cursor, CurKey, TypeOK, IndexType, TaskType
    <2> HIDE DEF b
    <2>3. bucket'[b] = Append(bucket[b], e0.rid) /\ \A c \in Buckets : c # b => bucket'[c] = bucket[c]
        BY <1>0, <2>1, <2>2 DEF TypeOK, IndexType
    <2>4. \A l \in Keys : (hmap[l] = b <=> l = e0.key) /\ (hmap[l] # None => hmap[l] \in Buckets)
        BY <1>0, <1>1, <1>3, <2>2 DEF BucketOK, TypeOK, IndexType, b
    <2>5. /\ LockOK' /\ TaskOK'
          /\ \A e \in EntryType : e.rid \notin tainted => (Expected(e)' <=> Expected(e) \/ e = e0)
        BY <1>1, <1>2, <1>5, <2>1, InsertionDone
    <2>6. \A r \in Rids : /\ In(bucket'[b], r) <=> In(bucket[b], r) \/ r = e0.rid
                          /\ Once(bucket[b], r) /\ (r = e0.rid => ~In(bucket[b], r)) => Once(bucket'[b], r)
        BY <1>3, <2>2, <2>3, InAppend
    <2>7. ASSUME NEW e \in EntryType PROVE Present(e)' <=> Present(e) \/ e = e0
        <3>0. /\ e.key \in Keys /\ e.rid \in Rids /\ (e.index = "hash" \/ e.index = "btree")
              /\ e0 = e <=> e0.index = e.index /\ e0.key = e.key /\ e0.rid = e.rid
            BY EntryFields
        <3>1. CASE e.index = "btree"
            BY <1>1, <1>3, <3>0, <3>1 DEF Present
        <3>2. CASE e.index = "hash" /\ e.key = e0.key
            <4>1. hmap[e.key] = b /\ b # None /\ hmap'[e.key] = b
                BY <1>1, <2>2, <3>2 DEF b
            <4> QED
                BY <1>3, <2>6, <3>0, <3>2, <4>1 DEF Present
        <3>3. CASE e.index = "hash" /\ e.key # e0.key
            <4>1. hmap'[e.key] = hmap[e.key] /\ (hmap[e.key] # None => bucket'[hmap[e.key]] = bucket[hmap[e.key]])
                BY <1>1, <2>3, <2>4, <3>0, <3>3
            <4> QED
                BY <3>0, <3>3, <4>1 DEF Present
        <3> QED
            BY <3>0, <3>1, <3>2, <3>3
    <2>8. ASSUME NEW l \in Keys, NEW r \in Rids \ tainted, hmap[l] # None PROVE Once(bucket'[hmap[l]], r)
        <3>0. Once(bucket[hmap[l]], r)
            BY <1>0, <2>8 DEF IndexOK
        <3>1. CASE l = e0.key
            <4>1. hmap[l] = b
                BY <2>2, <3>1
            <4>2. r = e0.rid => ~In(bucket[b], r)
                <5> SUFFICES ASSUME r = e0.rid PROVE ~In(bucket[b], r)
                    OBVIOUS
                <5>1. ~Present(e0)
                    BY <1>0, <1>1, <1>2, <2>8, NextOp
                <5> QED
                    BY <1>3, <2>2, <2>8, <3>1, <5>1 DEF Present
            <4> QED
                BY <2>6, <3>0, <4>1, <4>2
        <3>2. CASE l # e0.key
            BY <2>3, <2>4, <2>8, <3>0, <3>2
        <3> QED
            BY <3>1, <3>2
    <2>9. IndexOK'
        BY <1>0, <1>1, <2>5, <2>7, <2>8 DEF IndexOK
    <2>10. BucketOK'
        <3>1. ASSUME NEW u \in Txns PROVE Cursor(u)'
            <4>1. CASE u = t
                BY <1>1, <4>1 DEF Cursor
            <4>2. CASE u # t
                <5>1. Op(u)' = Op(u) /\ CurKey(u)' = CurKey(u) /\ cur'[u] = cur[u] /\ Cursor(u)
                    BY <1>0, <1>1, <1>4, <4>2 DEF Op, CurKey, BucketOK
                <5> QED
                    BY <1>1, <5>1 DEF Cursor
            <4> QED
                BY <4>1, <4>2
        <3>2. \A c \in removed : bucket'[c] = <<>>
            BY <1>0, <1>8, <2>3 DEF BucketOK, TypeOK, IndexType, b
        <3> QED
            BY <1>0, <1>1, <3>1, <3>2 DEF BucketOK
    <2> QED
        BY <1>6, <2>5, <2>9, <2>10
<1> QED
    BY <1>7, <1>8

\* HashRemove: the bucket it empties holds no entry that another removal waits for.
LEMMA HashRemoveKeeps ==
    ASSUME Inv, NEW t \in Txns, HashRemove(t)
    PROVE  (BucketOK /\ LockOK /\ HeapOK /\ IndexOK /\ TaskOK /\ GotOK /\ MustOK)'
<1> USE DEF Set
<1>0. TypeOK /\ ControlOK /\ BucketOK /\ LockOK /\ HeapOK /\ IndexOK /\ TaskOK /\ GotOK /\ MustOK
    BY DEF Inv
<1>1. /\ work[t] # <<>> /\ cur[t] # None /\ cur'[t] = None /\ Op(t).op = "remove" /\ work'[t] = Tail(work[t])
      /\ UNCHANGED <<btree, pc, cmd, tainted, abortActions, commitActions, undo>>
    BY <1>0 DEF HashRemove, HashReady, OpDone, TypeOK, TaskType, queryVars, taskVars
<1>2. PICK e0 \in EntryType : e0 = Op(t).entry
    BY <1>0, <1>1, NextOp
<1>3. /\ e0.key \in Keys /\ e0.rid \in Rids /\ e0.index = "hash" /\ pc[t] \in {"commit", "abort"} /\ xlock[e0.rid] = t
      /\ e0.rid \notin tainted => Present(e0)
    BY <1>0, <1>1, <1>2, EntryFields, NextOp DEF HashRemove, HashReady
<1>4. \A u \in Txns \ {t} : work'[u] = work[u] /\ cur'[u] = cur[u] /\ abortActions'[u] = abortActions[u]
    BY <1>0, <1>1 DEF HashRemove, OpDone, TypeOK, TaskType
<1>5. IndexStep(t)
    BY <1>1, <1>4 DEF IndexStep, HashRemove, heapVars, lockVars, queryVars
<1>6. HeapOK' /\ GotOK' /\ MustOK' /\ Guarantee(t)
    BY <1>0, <1>5, IndexStepKeeps
<1>7. /\ LockOK' /\ TaskOK'
      /\ \A e \in EntryType : e.rid \notin tainted => (Expected(e)' <=> Expected(e) /\ e # e0)
    BY <1>1, <1>2, <1>5, RemovalDone
<1> DEFINE b == cur[t]
           old == bucket[b]
           res == SwapRemove(old, e0.rid)
           left == SubSeq(res.arr, 1, res.len)
           emptied == res.len < Len(old) /\ res.len = 0
<1>8. b \in Buckets /\ old \in Seq(Rids)
    BY <1>0, <1>1 DEF TypeOK, IndexType, TaskType
<1>9. /\ bucket' = [bucket EXCEPT ![b] = left]
      /\ removed' = IF emptied THEN removed \cup {b} ELSE removed
      /\ hmap' = IF emptied THEN [hmap EXCEPT ![e0.key] = None] ELSE hmap
    BY <1>2 DEF HashRemove
<1>10. /\ res.len \in 0 .. Len(old) /\ left \in Seq(Rids) /\ Len(left) = res.len
       /\ \A q \in Rids \ {e0.rid} : In(left, q) <=> In(old, q)
       /\ \A q \in Rids \ {e0.rid} : Once(old, q) => Once(left, q)
       /\ Once(old, e0.rid) => ~In(left, e0.rid)
    <2> HIDE DEF old
    <2> QED
        BY <1>3, <1>8, SwapRemoved
<1>11. emptied => left = <<>>
    <2> HIDE DEF left, old, res
    <2> QED
        BY <1>10
<1> HIDE DEF left, old, res, b
<1>12. bucket'[b] = left /\ \A c \in Buckets : c # b => bucket'[c] = bucket[c]
    BY <1>0, <1>8, <1>9 DEF TypeOK, IndexType
<1>13. /\ emptied => hmap'[e0.key] = None
       /\ ~emptied => hmap'[e0.key] = hmap[e0.key]
       /\ \A l \in Keys : l # e0.key => hmap'[l] = hmap[l]
    BY <1>0, <1>3, <1>9 DEF TypeOK, IndexType
<1>14. \A l \in Keys : hmap[l] # None => hmap[l] \in Buckets
    BY <1>0 DEF TypeOK, IndexType
<1>15. e0.rid \notin tainted => b \notin removed
    BY <1>0, <1>1, <1>2, <1>3 DEF BucketOK, Cursor, b
<1>16. b \notin removed => hmap[e0.key] = b
    BY <1>0, <1>1, <1>2, <1>3 DEF BucketOK, Cursor, CurKey, b
<1>17. b # None /\ cur[t] = b
    BY <1>1 DEF b
<1>18. CASE b \in removed
    <2>1. old = <<>>
        BY <1>0, <1>18 DEF BucketOK, old
    <2>2. left = <<>> /\ ~emptied
        BY <1>10, <2>1
    <2>3. UNCHANGED <<hmap, bucket, removed>>
        <3>1. bucket' = bucket
            BY <1>0, <1>8, <1>9, <2>1, <2>2 DEF TypeOK, IndexType, old
        <3> QED
            BY <1>9, <2>2, <3>1
    <2>4. BucketOK'
        BY <1>0, <1>1, <1>4, <2>3, SameBuckets
    <2>5. IndexOK'
        BY <1>0, <1>1, <1>7, <1>15, <1>18, <2>3 DEF IndexOK, Present
    <2> QED
        BY <1>6, <1>7, <2>4, <2>5
<1>19. CASE b \notin removed
    <2>1. hmap[e0.key] = b /\ \A l \in Keys : hmap[l] = b <=> l = e0.key
        BY <1>0, <1>3, <1>16, <1>17, <1>19 DEF BucketOK
    <2>2. ASSUME NEW e \in EntryType, e.rid \notin tainted PROVE Present(e)' <=> Present(e) /\ e # e0
        <3>0. /\ e.key \in Keys /\ e.rid \in Rids /\ (e.index = "hash" \/ e.index = "btree")
              /\ e0 = e <=> e0.index = e.index /\ e0.key = e.key /\ e0.rid = e.rid
            BY EntryFields
        <3>1. CASE e.index = "btree"
            BY <1>1, <1>3, <3>0, <3>1 DEF Present
        <3>2. CASE e.index = "hash" /\ e.key = e0.key
            <4>1. Present(e)' <=> In(left, e.rid)
                <5>1. CASE emptied
                    BY <1>11, <1>13, <3>2, <5>1, InEmpty DEF Present
                <5>2. CASE ~emptied
                    <6>1. hmap'[e.key] = b
                        BY <1>13, <2>1, <3>2, <5>2
                    <6> QED
                        BY <1>12, <1>17, <3>2, <6>1 DEF Present
                <5> QED
                    BY <5>1, <5>2
            <4>2. Present(e) <=> In(old, e.rid)
                BY <1>17, <2>1, <3>2 DEF Present, old
            <4>3. CASE e.rid = e0.rid
                <5>1. Once(old, e0.rid)
                    BY <1>0, <1>3, <1>17, <2>1, <2>2, <4>3 DEF IndexOK, old
                <5> QED
                    BY <1>3, <1>10, <3>0, <3>2, <4>1, <4>3, <5>1
            <4>4. CASE e.rid # e0.rid
                BY <1>10, <3>0, <4>1, <4>2, <4>4
            <4> QED
                BY <4>3, <4>4
        <3>3. CASE e.index = "hash" /\ e.key # e0.key
            <4>1. hmap'[e.key] = hmap[e.key] /\ (hmap[e.key] # None => bucket'[hmap[e.key]] = bucket[hmap[e.key]])
                BY <1>12, <1>13, <1>14, <2>1, <3>0, <3>3
            <4> QED
                BY <3>0, <3>3, <4>1 DEF Present
        <3> QED
            BY <3>0, <3>1, <3>2, <3>3
    <2>3. ASSUME NEW l \in Keys, NEW r \in Rids \ tainted, hmap'[l] # None PROVE Once(bucket'[hmap'[l]], r)
        <3>1. CASE l = e0.key
            <4>1. hmap'[l] = b /\ hmap[l] = b
                BY <1>13, <2>1, <2>3, <3>1
            <4>2. Once(old, r)
                BY <1>0, <1>17, <4>1 DEF IndexOK, old
            <4>3. Once(left, r)
                BY <1>10, <4>2, InOnce
            <4> QED
                BY <1>12, <4>1, <4>3
        <3>2. CASE l # e0.key
            <4>1. hmap'[l] = hmap[l] /\ bucket'[hmap[l]] = bucket[hmap[l]]
                BY <1>12, <1>13, <1>14, <2>1, <2>3, <3>2
            <4> QED
                BY <1>0, <2>3, <4>1 DEF IndexOK
        <3> QED
            BY <3>1, <3>2
    <2>4. IndexOK'
        BY <1>0, <1>1, <1>7, <2>2, <2>3 DEF IndexOK
    <2>5. ASSUME NEW u \in Txns PROVE Cursor(u)'
        <3>1. CASE u = t
            BY <1>1, <3>1 DEF Cursor
        <3>2. CASE u # t /\ cur[u] = None
            BY <1>4, <3>2 DEF Cursor
        <3>3. CASE u # t /\ cur[u] # None
            <4>1. Op(u)' = Op(u) /\ CurKey(u)' = CurKey(u) /\ cur'[u] = cur[u] /\ Cursor(u)
                BY <1>0, <1>1, <1>4, <3>3 DEF Op, CurKey, BucketOK
            <4>2. CurKey(u) \in Keys
                <5>1. CASE pc[u] = "scankey"
                    BY <1>0, <5>1, CommandFacts DEF CurKey, ControlOK, Control
                <5>2. CASE pc[u] # "scankey"
                    <6>1. work[u] # <<>>
                        BY <1>0, <3>3, <5>2 DEF ControlOK, Control
                    <6> QED
                        BY <1>0, <5>2, <6>1, NextOp, EntryFields DEF CurKey
                <5> QED
                    BY <5>1, <5>2
            <4>3. ASSUME cur[u] \notin removed' PROVE hmap'[CurKey(u)] = cur[u]
                <5>1. cur[u] \notin removed /\ hmap[CurKey(u)] = cur[u]
                    BY <1>9, <3>3, <4>1, <4>3 DEF Cursor
                <5>2. CASE emptied
                    <6>1. cur[u] # b
                        BY <1>9, <4>3, <5>2
                    <6> QED
                        BY <1>13, <2>1, <4>2, <5>1, <6>1
                <5>3. CASE ~emptied
                    BY <1>13, <4>2, <5>1, <5>3
                <5> QED
                    BY <5>2, <5>3
            <4>4. ASSUME pc[u] \in {"commit", "abort"}, Op(u).entry.rid \notin tainted PROVE cur[u] \notin removed'
                <5>1. cur[u] \notin removed /\ hmap[CurKey(u)] = cur[u]
                    BY <3>3, <4>1, <4>4 DEF Cursor
                <5>2. work[u] # <<>>
                    BY <1>0, <3>3, <4>4 DEF ControlOK, Control
                <5>3. PICK f \in EntryType : f = Op(u).entry
                    BY <1>0, <5>2, NextOp
                <5>4. /\ xlock[f.rid] = u /\ Present(f) /\ CurKey(u) = f.key /\ f.rid \in Rids
                    BY <1>0, <4>4, <5>2, <5>3, NextOp, EntryFields DEF CurKey
                <5>5. CASE emptied /\ cur[u] = b
                    <6>1. f.index = "hash"
                        BY <3>3, <4>1, <4>4, <5>3 DEF Cursor
                    <6>2. In(old, f.rid)
                        BY <5>1, <5>4, <5>5, <6>1 DEF Present, old
                    <6>3. f.rid # e0.rid
                        BY <1>3, <3>3, <5>4
                    <6>4. In(left, f.rid)
                        BY <1>10, <5>4, <6>2, <6>3
                    <6> QED
                        BY <1>11, <5>5, <6>4, InEmpty
                <5>6. CASE ~(emptied /\ cur[u] = b)
                    BY <1>9, <5>1, <5>6
                <5> QED
                    BY <5>5, <5>6
            <4> QED
                BY <1>1, <4>1, <4>3, <4>4 DEF Cursor
        <3> QED
            BY <3>1, <3>2, <3>3
    <2>6. BucketOK'
        <3>1. \A l \in Keys : hmap'[l] # None => hmap'[l] \notin removed'
            BY <1>0, <1>9, <1>13, <2>1 DEF BucketOK
        <3>2. \A l, m \in Keys : hmap'[l] # None /\ hmap'[l] = hmap'[m] => l = m
            BY <1>0, <1>13 DEF BucketOK
        <3>3. \A c \in removed' : bucket'[c] = <<>>
            BY <1>0, <1>8, <1>9, <1>11, <1>12, <1>19 DEF BucketOK, TypeOK, IndexType
        <3> QED
            BY <2>5, <3>1, <3>2, <3>3 DEF BucketOK
    <2> QED
        BY <1>6, <1>7, <2>4, <2>6
<1> QED
    BY <1>18, <1>19
-----------------------------------------------------------------------------
(* Changes of the table *)

\* A log record more: it is the last of its slot, and the first if there was none.
LEMMA RecordAppended ==
    ASSUME NEW s \in Seq(UndoType), NEW x \in UndoType
    PROVE  \E N \in Nat : LET a == Append(s, x) IN
               /\ DOMAIN a = DOMAIN s \cup {N} /\ N \notin DOMAIN s /\ a[N] = x
               /\ \A n \in DOMAIN s : /\ a[n] = s[n]
                                      /\ FirstOf(a, n) <=> FirstOf(s, n)
                                      /\ LastOf(a, n) <=> LastOf(s, n) /\ s[n].rid # x.rid
               /\ FirstOf(a, N) <=> \A n \in DOMAIN s : s[n].rid # x.rid
               /\ LastOf(a, N)
<1> DEFINE a == Append(s, x)
           N == Len(s) + 1
<1>1. /\ N \in Nat /\ DOMAIN a = DOMAIN s \cup {N} /\ N \notin DOMAIN s /\ a[N] = x
      /\ \A n \in DOMAIN s : a[n] = s[n] /\ n \in Nat /\ n <= N /\ ~(N <= n)
      /\ N <= N
    OBVIOUS
<1> HIDE DEF a, N
<1>2. ASSUME NEW n \in DOMAIN s
      PROVE  /\ FirstOf(a, n) <=> FirstOf(s, n)
             /\ LastOf(a, n) <=> LastOf(s, n) /\ s[n].rid # x.rid
    <2>1. FirstOf(a, n) <=> FirstOf(s, n)
        BY <1>1, Zenon DEF FirstOf
    <2>2. LastOf(a, n) <=> LastOf(s, n) /\ s[n].rid # x.rid
        BY <1>1, Zenon DEF LastOf
    <2> QED
        BY <2>1, <2>2
<1>3. FirstOf(a, N) <=> \A n \in DOMAIN s : s[n].rid # x.rid
    BY <1>1, Zenon DEF FirstOf
<1>4. LastOf(a, N)
    BY <1>1, Zenon DEF LastOf
<1> QED
    BY <1>1, <1>2, <1>3, <1>4 DEF a

\* A statement of t changes slot r, under its exclusive lock, and logs x.
Write(t, r, x) ==
    /\ xlock[r] \in {None, t} /\ slock[r] \subseteq {t} /\ xlock' = [xlock EXCEPT ![r] = t]
    /\ UNCHANGED <<slock, committed, btree, hmap, bucket, removed, abortActions>>
    /\ \A q \in Rids \ {r} : SameRow(q)
    /\ allocated \subseteq allocated' /\ r \in allocated' \cup tainted'
    /\ tainted \subseteq tainted' /\ tainted' \subseteq tainted \cup {r}
    /\ \A u \in Txns \ {t} : SameContext(u)
    /\ undo'[t] = Append(undo[t], x) /\ x \in UndoType /\ x.rid = r
    /\ pc[t] \in {"ready", "read"} /\ pc'[t] = "read" /\ cur'[t] = None /\ work[t] = <<>>
    /\ cmd'[t].kind # "select"
    /\ \A e \in EntryType : e.rid # r =>
            /\ ~Due(t, e)'
            /\ In(commitActions'[t], e) <=> In(commitActions[t], e)
            /\ Once(commitActions[t], e) => Once(commitActions'[t], e)
    /\ \A n \in DOMAIN got'[t] : \E m \in DOMAIN got[t] : got'[t][n] = got[t][m]
    /\ got'[t] = <<>> \/ cmd'[t] = cmd[t]

\* What is left to show of such a step concerns slot r and the tuples collected.
LEMMA WriteKeeps ==
    ASSUME Inv, TypeOK', NEW t \in Txns, NEW r \in Rids, NEW x \in UndoType, Write(t, r, x)
    PROVE  /\ BucketOK' /\ LockOK' /\ IndexOK' /\ MustOK'
           /\ (\A n \in DOMAIN undo'[t] : r \notin tainted' /\ undo'[t][n].rid = r
                     => UndoneBy(undo[t], n, r)') => HeapOK'
           /\ (\A e \in EntryType : r \notin tainted' /\ e.rid = r => Task(t, e)') => TaskOK'
           /\ Query(t)' => GotOK'
<1>0. /\ TypeOK /\ ControlOK /\ BucketOK /\ LockOK /\ HeapOK /\ IndexOK /\ TaskOK /\ GotOK /\ MustOK /\ t # None
      /\ undo[t] \in Seq(UndoType)
    BY TableAssumption DEF Inv, TypeOK, TaskType
<1>1. \A q \in Rids : (q = r => xlock'[q] = t) /\ (q # r => xlock'[q] = xlock[q])
    BY <1>0 DEF Write, TypeOK, TableType
<1>2. PICK N \in Nat :
        /\ DOMAIN undo'[t] = DOMAIN undo[t] \cup {N} /\ N \notin DOMAIN undo[t] /\ undo'[t][N] = x
        /\ \A n \in DOMAIN undo[t] : /\ undo'[t][n] = undo[t][n]
                                     /\ FirstOf(undo'[t], n) <=> FirstOf(undo[t], n)
                                     /\ LastOf(undo'[t], n) <=> LastOf(undo[t], n) /\ undo[t][n].rid # x.rid
    BY <1>0, RecordAppended, SMTT(30) DEF Write
<1>3. Changed(t)' = Changed(t) \cup {r}
    BY <1>2 DEF Changed, Write
<1>4. Guarantee(t)
    <2>1. ASSUME NEW u \in Txns \ {t} PROVE SameLocks(u)
        <3> SUFFICES ASSUME NEW q \in Rids
                     PROVE  /\ xlock'[q] = u <=> xlock[q] = u
                            /\ u \in slock'[q] <=> u \in slock[q]
                            /\ xlock[q] = u \/ u \in slock[q] => SameRow(q)
            BY DEF SameLocks
        <3>1. CASE q = r
            BY <1>1, <3>1, TableAssumption DEF Write
        <3>2. CASE q # r
            BY <1>1, <3>2 DEF Write
        <3> QED
            BY <3>1, <3>2
    <2> QED
        BY <2>1 DEF Guarantee, Write
<1>5. ASSUME NEW q \in Rids PROVE Exclusive(q)'
    <2>1. Exclusive(q)
        BY <1>0 DEF LockOK
    <2> QED
        BY <1>1, <2>1 DEF Exclusive, Write
<1>6. Owns(t)'
    <2>0. Owns(t)
        BY <1>0 DEF LockOK
    <2>1. ASSUME NEW e \in EntryType, Due(t, e)' PROVE xlock'[e.rid] = t /\ e.rid \in Changed(t)'
        BY <1>1, <1>3, <2>1 DEF Write
    <2>2. ASSUME NEW e \in EntryType, In(abortActions'[t], e) \/ In(commitActions'[t], e)
          PROVE  xlock'[e.rid] = t /\ e.rid \in Changed(t)'
        <3>1. e.rid \in Rids
            BY EntryFields
        <3>2. CASE e.rid = r
            BY <1>1, <1>3, <3>2
        <3>3. CASE e.rid # r
            <4>1. In(abortActions[t], e) \/ In(commitActions[t], e)
                BY <2>2, <3>3 DEF Write
            <4> QED
                BY <1>1, <1>3, <2>0, <3>1, <3>3, <4>1 DEF Owns, Write
        <3> QED
            BY <3>2, <3>3
    <2>3. \A q \in Changed(t)' : xlock'[q] = t
        <3>1. \A q \in Changed(t) : q \in Rids
            <4>1. \A n \in DOMAIN undo[t] : undo[t][n] \in UndoType
                BY <1>0
            <4> QED
                BY <4>1 DEF Changed, UndoType
        <3> QED
            BY <1>1, <1>3, <2>0, <3>1 DEF Owns
    <2>4. ASSUME NEW n \in DOMAIN got'[t] PROVE HasRead(t, got[t][n][2])'
        <3>1. PICK m \in DOMAIN got[t] : got'[t][n] = got[t][m]
            BY DEF Write
        <3>2. got[t][m][2] \in Rids
            <4>1. got[t] \in Seq(Pairs)
                BY <1>0 DEF TypeOK, QueryType
            <4> QED
                BY <4>1 DEF Pairs
        <3>3. HasRead(t, got[t][m][2]) /\ cmd'[t] = cmd[t]
            BY <2>0 DEF Owns, Write
        <3>4. xlock[got[t][m][2]] = t => xlock'[got[t][m][2]] = t
            BY <1>1, <3>2
        <3> QED
            BY <3>1, <3>3, <3>4 DEF HasRead, Write
    <2> QED
        BY <2>1, <2>2, <2>3, <2>4 DEF Owns
<1>7. ASSUME NEW q \in Rids, q \notin tainted', xlock[q] \in {None, t} PROVE Row(q)'
    <2>1. CASE q = r
        BY <1>0, <1>1, <1>3, <1>7, <2>1 DEF Row, Altered, Write
    <2>2. CASE q # r
        <3>1. Row(q) /\ SameRow(q)
            BY <1>0, <1>7, <2>2 DEF HeapOK, Write
        <3>2. Altered(q)' <=> Altered(q)
            <4>1. CASE xlock[q] = t
                <5>1. xlock'[q] = t
                    BY <1>1, <2>2, <4>1
                <5> QED
                    BY <1>0, <1>3, <2>2, <4>1, <5>1 DEF Altered
            <4>2. CASE xlock[q] = None
                BY <1>1, <2>2, <4>2 DEF Altered
            <4> QED
                BY <1>7, <4>1, <4>2
        <3> QED
            BY <3>1, <3>2 DEF Row, SameRow, Settled, Live
    <2> QED
        BY <2>1, <2>2
<1>8. ASSUME \A n \in DOMAIN undo'[t] : r \notin tainted' /\ undo'[t][n].rid = r => UndoneBy(undo[t], n, r)'
      PROVE  Undone(t)'
    <2> SUFFICES ASSUME NEW n \in DOMAIN undo'[t], undo'[t][n].rid \notin tainted'
                 PROVE  UndoneBy(undo[t], n, undo[t][n].rid)'
        BY DEF Undone
    <2>1. CASE undo'[t][n].rid = r
        BY <1>8, <2>1
    <2>2. CASE undo'[t][n].rid # r
        <3>1. n \in DOMAIN undo[t] /\ undo'[t][n] = undo[t][n]
            BY <1>2, <2>2 DEF Write
        <3>2. PICK q \in Rids : q = undo[t][n].rid
            <4>1. undo[t][n] \in UndoType
                BY <1>0, <3>1
            <4> QED
                BY <4>1 DEF UndoType
        <3>3. UndoneBy(undo[t], n, q) /\ SameRow(q)
            BY <1>0, <2>2, <3>1, <3>2 DEF HeapOK, Undone, Write
        <3>4. (FirstOf(undo'[t], n) <=> FirstOf(undo[t], n)) /\ (LastOf(undo'[t], n) <=> LastOf(undo[t], n))
            BY <1>2, <2>2, <3>1 DEF Write
        <3>5. UndoneBy(undo[t], n, q)'
            BY <3>1, <3>3, <3>4 DEF UndoneBy, SameRow
        <3> QED
            BY <3>1, <3>2, <3>5
    <2> QED
        BY <2>1, <2>2
<1>9. ASSUME NEW e \in EntryType, e.rid \notin tainted', e.rid # r PROVE Task(t, e)'
    <2>0. e.rid \in Rids
        BY EntryFields
    <2>1. Task(t, e) /\ SameRow(e.rid) /\ xlock'[e.rid] = xlock[e.rid]
        BY <1>0, <1>1, <1>9, <2>0 DEF TaskOK, Write
    <2>2. ~Due(t, e) /\ ~Due(t, e)' /\ Once(Todo(work'[t]), e)
        BY <1>9, TodoEmpty, InOnce DEF Due, Write
    <2>3. (Kept(e)' <=> Kept(e)) /\ (Current(e)' <=> Current(e))
        BY <2>1 DEF Kept, Current, SameRow, Live
    <2> QED
        BY <1>9, <2>1, <2>2, <2>3 DEF Task, Write
<1>10. ASSUME NEW e \in EntryType, xlock[e.rid] \in {None, t} PROVE Expected(e)' <=> Expected(e)
    <2>0. e.rid \in Rids
        BY EntryFields
    <2>1. Kept(e)' <=> Kept(e)
        BY DEF Kept, Write
    <2>2. /\ ExpectedBy(t, e) <=> Kept(e) \/ In(abortActions[t], e)
          /\ ExpectedBy(t, e)' <=> Kept(e) \/ In(abortActions[t], e)
        BY <2>1 DEF ExpectedBy, Write
    <2>3. xlock[e.rid] = None => ~In(abortActions[t], e)
        BY <1>0 DEF LockOK, Owns
    <2> QED
        BY <1>0, <1>1, <1>10, <2>0, <2>1, <2>2, <2>3 DEF Expected
<1>11. IndexOK'
    BY <1>0, <1>4, <1>10, SameIndexes DEF Write
<1>12. BucketOK'
    BY <1>0, SameBuckets DEF Write, SameContext
<1>13. MustOK'
    <2>1. ASSUME NEW u \in Txns \ {t} PROVE Lookup(u)'
        BY <1>0, <1>4, OthersLookup DEF Write
    <2>2. Lookup(t)'
        BY DEF Lookup, Write
    <2> QED
        BY <2>1, <2>2 DEF MustOK
<1> QED
    BY <1>0, <1>4, <1>5, <1>6, <1>7, <1>8, <1>9, <1>11, <1>12, <1>13, OthersInv

\* InsertTuple: the slot was free, so no committed row, entry or task belongs to it.
LEMMA InsertKeeps ==
    ASSUME Inv, TypeOK', NEW t \in Txns, NEW c \in Commands, InsertTuple(t, c)
    PROVE  (BucketOK /\ LockOK /\ HeapOK /\ IndexOK /\ TaskOK /\ GotOK /\ MustOK)'
<1> USE DEF Set
<1>0. TypeOK /\ ControlOK /\ BucketOK /\ LockOK /\ HeapOK /\ IndexOK /\ TaskOK /\ GotOK /\ MustOK /\ t # None
    BY TableAssumption DEF Inv
<1>1. PICK r \in Rids \ allocated :
        /\ CanWrite(t, r) /\ xlock' = [xlock EXCEPT ![r] = t]
        /\ allocated' = allocated \cup {r} /\ tuple' = [tuple EXCEPT ![r] = c.key]
        /\ work' = [work EXCEPT ![t] = Inserts(c.key, r)]
        /\ undo' = [undo EXCEPT ![t] = Append(@, [type |-> "insert", rid |-> r, key |-> None])]
    BY DEF InsertTuple, LockX
<1>2. /\ pc[t] = "ready" /\ work[t] = <<>> /\ cur[t] = None /\ got[t] = <<>> /\ entries[t] = <<>>
      /\ pc'[t] = "read" /\ cmd'[t] = c /\ c.kind = "insert" /\ c.key \in Keys /\ c.key # None
      /\ UNCHANGED <<deleted, committed, slock, btree, hmap, bucket, removed, entries, got, must, gone, cur,
                     abortActions, commitActions, failed, tainted>>
    BY <1>0, CommandFacts, TableAssumption
    DEF InsertTuple, Issue, Idle, TypeOK, QueryType, ControlOK, Control, indexVars, hashVars
<1>3. PICK x \in UndoType : x = [type |-> "insert", rid |-> r, key |-> None]
    BY DEF UndoType
<1>4. /\ x.type = "insert" /\ x.rid = r /\ undo'[t] = Append(undo[t], x) /\ undo[t] \in Seq(UndoType)
      /\ work'[t] = Inserts(c.key, r) /\ tuple'[r] = c.key /\ xlock'[r] = t
    BY <1>0, <1>1, <1>3 DEF TypeOK, TableType, TaskType
<1>5. \A e \in EntryType : Due(t, e)' <=> e.key = c.key /\ e.rid = r
    BY <1>2, <1>4, TodoInserts DEF Due
<1>6. Write(t, r, x)
    <2>1. \A u \in Txns \ {t} : SameContext(u)
        BY <1>0, <1>1, <1>2 DEF InsertTuple, Issue, SameContext, TypeOK, QueryType, TaskType
    <2>2. \A q \in Rids \ {r} : SameRow(q)
        BY <1>0, <1>1, <1>2 DEF SameRow, TypeOK, TableType
    <2>3. xlock[r] \in {None, t} /\ slock[r] \subseteq {t}
        BY <1>1 DEF CanWrite, CanRead
    <2>4. \A e \in EntryType : e.rid # r => ~Due(t, e)'
        BY <1>5
    <2> QED
        BY <1>1, <1>2, <1>3, <1>4, <2>1, <2>2, <2>3, <2>4 DEF Write
<1>7. ASSUME r \notin tainted PROVE /\ \A n \in DOMAIN undo[t] : undo[t][n].rid # r
                                    /\ r \notin deleted /\ committed[r] = None
    <2>1. ASSUME NEW n \in DOMAIN undo[t], undo[t][n].rid = r PROVE FALSE
        <3>1. UndoneBy(undo[t], n, r)
            BY <1>0, <1>7, <2>1 DEF HeapOK, Undone
        <3> QED
            BY <3>1 DEF UndoneBy
    <2>2. Row(r)
        BY <1>0, <1>7 DEF HeapOK
    <2>3. ~Altered(r)
        BY <1>1, <2>1 DEF Altered, Changed, CanWrite, CanRead
    <2> QED
        BY <2>1, <2>2, <2>3 DEF Row, Settled, Live
<1>8. ASSUME NEW n \in DOMAIN undo'[t], r \notin tainted', undo'[t][n].rid = r PROVE UndoneBy(undo[t], n, r)'
    <2>1. PICK N \in Nat :
            /\ DOMAIN undo'[t] = DOMAIN undo[t] \cup {N} /\ undo'[t][N] = x
            /\ \A m \in DOMAIN undo[t] : undo'[t][m] = undo[t][m]
            /\ FirstOf(undo'[t], N) <=> \A m \in DOMAIN undo[t] : undo[t][m].rid # x.rid
        BY <1>4, RecordAppended
    <2>2. n = N
        BY <1>2, <1>7, <1>8, <2>1
    <2>3. FirstOf(undo'[t], n) /\ undo'[t][n].type = "insert"
        BY <1>2, <1>4, <1>7, <1>8, <2>1, <2>2
    <2> QED
        BY <1>1, <1>2, <1>4, <1>7, <1>8, <2>3 DEF UndoneBy
<1>9. ASSUME NEW e \in EntryType, r \notin tainted', e.rid = r PROVE Task(t, e)'
    <2>0. e.key # None
        BY EntryFields
    <2>1. ~In(abortActions[t], e) /\ ~In(commitActions[t], e)
        BY <1>0, <1>2, <1>7, <1>9 DEF LockOK, Owns, Changed
    <2>2. Once(abortActions[t], e) /\ Once(commitActions[t], e) /\ Once(Todo(work'[t]), e)
        BY <1>2, <1>4, <2>1, InOnce, TodoInserts
    <2>3. ~Kept(e)' /\ (Current(e)' <=> e.key = c.key)
        BY <1>1, <1>2, <1>4, <1>7, <1>9, <2>0 DEF Kept, Current, Live
    <2> QED
        BY <1>2, <1>5, <1>9, <2>1, <2>2, <2>3 DEF Task
<1>10. Query(t)'
    BY <1>2 DEF Query
<1> QED
    BY <1>6, <1>8, <1>9, <1>10, WriteKeeps

\* A tuple that is already deleted ends the statement.
LEMMA AlreadyDeletedKeeps ==
    ASSUME Inv, TypeOK', NEW t \in Txns, AlreadyDeleted(t), pc[t] = "read", work[t] = <<>>, entries[t] = <<>>,
           Writes(cmd[t]),
           UNCHANGED <<allocated, committed, xlock, slock, btree, hmap, bucket, removed, pc, cmd, entries,
                       must, gone, cur, abortActions>>
    PROVE  (BucketOK /\ LockOK /\ HeapOK /\ IndexOK /\ TaskOK /\ GotOK /\ MustOK)'
<1> USE DEF Set
<1>0. TypeOK /\ ControlOK /\ BucketOK /\ LockOK /\ HeapOK /\ IndexOK /\ TaskOK /\ GotOK /\ MustOK
    BY DEF Inv
<1>1. UNCHANGED <<deleted, tuple, work, commitActions, undo, tainted>> /\ got'[t] = <<>> /\ failed' = failed \cup {t}
    BY <1>0 DEF AlreadyDeleted, TypeOK, QueryType
<1>2. \A u \in Txns \ {t} : SameContext(u)
    BY <1>0, <1>1 DEF AlreadyDeleted, SameContext, TypeOK, QueryType
<1>3. ReadOnly(t)
    BY <1>1, <1>2 DEF ReadOnly
<1>4. BucketOK'
    BY <1>0, <1>1, SameBuckets
<1>5. Query(t)'
    BY <1>1 DEF Query
<1>6. Lookup(t)'
    BY DEF Lookup, Writes
<1> QED
    BY <1>0, <1>3, <1>4, <1>5, <1>6, ReadOnlyKeeps

\* The commit tasks of t after the removal of a row's entries: those of other slots stay.
LEMMA DeferredOthers ==
    ASSUME TypeOK, NEW t \in Txns, NEW k \in Keys \cup {None}, NEW r \in Rids, NEW e \in EntryType, e.rid # r
    PROVE  /\ In(commitActions[t] \o Deferred(k, r), e) <=> In(commitActions[t], e)
           /\ Once(commitActions[t], e) => Once(commitActions[t] \o Deferred(k, r), e)
<1>1. ~In(Deferred(k, r), e) /\ Once(Deferred(k, r), e)
    <2>1. CASE k = None
        <3>1. Deferred(k, r) = <<>>
            BY <2>1 DEF Deferred
        <3> QED
            BY <3>1, InEmpty
    <2>2. CASE k \in Keys
        BY <2>2, DeferredIn
    <2> QED
        BY <2>1, <2>2
<1>2. commitActions[t] \in Seq(EntryType) /\ Deferred(k, r) \in Seq(EntryType)
    BY DeferredFacts DEF TypeOK, TaskType
<1> QED
    BY <1>1, <1>2, InConcat

\* For the row itself, all its current entries become tasks, since they are in the indexes.
LEMMA DeferredRow ==
    ASSUME Inv, NEW t \in Txns, NEW k \in Keys, NEW e \in EntryType, e.rid \notin tainted, xlock[e.rid] = t,
           pc[t] = "read", work[t] = <<>>, Live(e.rid), tuple[e.rid] = k
    PROVE  /\ In(commitActions[t] \o Deferred(k, e.rid), e) <=> In(commitActions[t], e) \/ Current(e)
           /\ Once(commitActions[t] \o Deferred(k, e.rid), e)
<1> DEFINE r == e.rid
<1>0. TypeOK /\ IndexOK /\ Task(t, e) /\ t # None /\ r \in Rids
    BY EntryFields, TableAssumption DEF Inv, TaskOK
<1>1. commitActions[t] \in Seq(EntryType) /\ Deferred(k, r) \in Seq(EntryType)
    BY <1>0, DeferredFacts DEF TypeOK, TaskType
<1>2. /\ In(Deferred(k, r), e) <=> e.key = k /\ Known(e.index, k, r)
      /\ Once(Deferred(k, r), e)
    BY <1>0, DeferredIn
<1>3. Current(e) <=> e.key = k
    BY DEF Current
<1>4. ~Due(t, e)
    BY TodoEmpty DEF Due
<1>5. Current(e) => Known(e.index, k, r)
    <2> SUFFICES ASSUME Current(e) PROVE Known(e.index, k, r)
        OBVIOUS
    <2>1. ExpectedBy(t, e)
        BY <1>0, <1>4 DEF Task, ExpectedBy
    <2>2. Present(e)
        BY <1>0, <2>1 DEF IndexOK, Expected
    <2> QED
        BY <1>3, <2>2, EntryFields DEF Present, Known
<1>6. /\ In(commitActions[t], e) => ~Current(e)
      /\ Once(commitActions[t], e)
    BY <1>0 DEF Task
<1> HIDE DEF r
<1>7. /\ In(commitActions[t] \o Deferred(k, r), e) <=> In(commitActions[t], e) \/ In(Deferred(k, r), e)
      /\ Once(commitActions[t], e) /\ Once(Deferred(k, r), e) /\ ~(In(commitActions[t], e) /\ In(Deferred(k, r), e))
            => Once(commitActions[t] \o Deferred(k, r), e)
    BY <1>1, InConcat
<1>8. /\ In(commitActions[t] \o Deferred(k, r), e) <=> In(commitActions[t], e) \/ Current(e)
      /\ Once(commitActions[t] \o Deferred(k, r), e)
    BY <1>2, <1>3, <1>5, <1>6, <1>7
<1> QED
    BY <1>8 DEF r

\* The tuples still to be changed are of other slots than the first.
LEMMA GotTail ==
    ASSUME Inv, NEW t \in Txns, got[t] # <<>>, entries'[t] = <<>>, got'[t] = Tail(got[t]), gone' = gone,
           tainted \subseteq tainted', allocated \subseteq allocated',
           \A q \in Rids \ {Head(got[t])[2]} : SameRow(q)
    PROVE  Query(t)'
<1>0. TypeOK /\ Query(t) /\ got[t] \in Seq(Pairs)
    BY DEF Inv, GotOK, TypeOK, QueryType
<1>1. /\ Head(got[t]) = got[t][1] /\ 1 \in DOMAIN got[t]
      /\ \A n \in DOMAIN got'[t] : got'[t][n] = got[t][n + 1] /\ n + 1 \in DOMAIN got[t] /\ n + 1 # 1
    BY <1>0, PairFacts
<1>2. \A m, n \in DOMAIN got'[t] : m + 1 = n + 1 => m = n
    <2>1. DOMAIN got'[t] = 1 .. Len(got[t]) - 1 /\ Len(got[t]) \in Nat
        BY <1>0, PairFacts
    <2> QED
        BY <2>1
<1> SUFFICES ASSUME NEW n \in DOMAIN got'[t], got'[t][n][2] \notin tainted' PROVE GotOne(t, n)'
    BY DEF Query
<1>3. PICK q \in Rids, p \in DOMAIN got[t] : q = got'[t][n][2] /\ p = n + 1 /\ got[t][p] = got'[t][n] /\ p # 1
    <2>1. got[t][n + 1] \in Pairs
        BY <1>0, <1>1
    <2> QED
        BY <1>1, <2>1 DEF Pairs
<1>4. GotOne(t, p)
    BY <1>0, <1>3 DEF Query
<1>5. q # Head(got[t])[2]
    BY <1>1, <1>3, <1>4 DEF GotOne
<1>6. SameRow(q)
    BY <1>5
<1>7. ASSUME NEW m \in DOMAIN got'[t], got'[t][m][2] = q PROVE m = n
    BY <1>1, <1>2, <1>3, <1>4, <1>7 DEF GotOne
<1> QED
    BY <1>3, <1>4, <1>6, <1>7 DEF GotOne, SameRow

\* A statement that changes tuples: the next one, which it has locked.
LEMMA NextChange ==
    ASSUME Inv, NEW t \in Txns, NEW kind \in {"delete", "update"}, Changing(t, kind)
    PROVE  /\ pc[t] = "read" /\ work[t] = <<>> /\ cur[t] = None /\ entries[t] = <<>>
           /\ got[t] # <<>> /\ got[t] \in Seq(Pairs) /\ cmd[t] \in Commands /\ Writes(cmd[t]) /\ cmd[t].kind = kind
           /\ Head(got[t])[2] \in Rids /\ Head(got[t])[1] \in Keys
           /\ xlock[Head(got[t])[2]] = t /\ slock[Head(got[t])[2]] \subseteq {t}
           /\ Head(got[t])[2] \notin tainted => tuple[Head(got[t])[2]] = Head(got[t])[1]
           /\ \A n \in DOMAIN Tail(got[t]) : \E m \in DOMAIN got[t] : Tail(got[t])[n] = got[t][m]
<1>0. TypeOK /\ ControlOK /\ LockOK /\ Query(t) /\ t # None
    BY TableAssumption DEF Inv, GotOK
<1>1. /\ pc[t] = "read" /\ work[t] = <<>> /\ cur[t] = None /\ entries[t] = <<>>
      /\ got[t] # <<>> /\ got[t] \in Seq(Pairs) /\ cmd[t] \in Commands /\ Writes(cmd[t]) /\ cmd[t].kind = kind
    BY <1>0 DEF Changing, Reading, ControlOK, Control, TypeOK, QueryType, Writes
<1>2. /\ Head(got[t]) = got[t][1] /\ 1 \in DOMAIN got[t] /\ Head(got[t])[2] \in Rids /\ Head(got[t])[1] \in Keys
      /\ \A n \in DOMAIN Tail(got[t]) : Tail(got[t])[n] = got[t][n + 1] /\ n + 1 \in DOMAIN got[t]
    BY <1>1, PairFacts
<1>3. xlock[Head(got[t])[2]] = t
    BY <1>0, <1>1, <1>2 DEF LockOK, Owns, HasRead
<1>4. slock[Head(got[t])[2]] \subseteq {t}
    BY <1>0, <1>2, <1>3 DEF LockOK, Exclusive
<1>5. Head(got[t])[2] \notin tainted => tuple[Head(got[t])[2]] = Head(got[t])[1]
    BY <1>0, <1>2 DEF Query, GotOne
<1> QED
    BY <1>1, <1>2, <1>3, <1>4, <1>5

\* The log records of a live row that t has locked, and the row itself if there are none.
LEMMA LiveRecords ==
    ASSUME Inv, NEW t \in Txns, NEW r \in Rids \ tainted, xlock[r] = t, Live(r)
    PROVE  /\ \A n \in DOMAIN undo[t] : undo[t][n].rid = r => UndoneBy(undo[t], n, r) /\ undo[t][n].type # "delete"
           /\ (\A n \in DOMAIN undo[t] : undo[t][n].rid # r) => committed[r] # None /\ tuple[r] = committed[r]
<1>0. HeapOK /\ Undone(t) /\ Row(r)
    BY DEF Inv, HeapOK
<1>1. ASSUME NEW n \in DOMAIN undo[t], undo[t][n].rid = r
      PROVE  UndoneBy(undo[t], n, r) /\ undo[t][n].type # "delete"
    <2>1. UndoneBy(undo[t], n, r)
        BY <1>0, <1>1 DEF Undone
    <2> QED
        BY <2>1 DEF UndoneBy, Live
<1>2. ASSUME \A n \in DOMAIN undo[t] : undo[t][n].rid # r PROVE committed[r] # None /\ tuple[r] = committed[r]
    <2>1. ~Altered(r)
        BY <1>2 DEF Altered, Changed
    <2> QED
        BY <1>0, <2>1 DEF Row, Settled
<1> QED
    BY <1>1, <1>2

\* DeleteOne.
LEMMA DeleteKeeps ==
    ASSUME Inv, TypeOK', NEW t \in Txns, DeleteOne(t)
    PROVE  (BucketOK /\ LockOK /\ HeapOK /\ IndexOK /\ TaskOK /\ GotOK /\ MustOK)'
<1> USE DEF Set
<1>0. TypeOK /\ TaskOK /\ undo[t] \in Seq(UndoType)
    BY DEF Inv, TypeOK, TaskType
<1>1. PICK r \in Rids, k \in Keys :
        /\ r = Head(got[t])[2] /\ k = Head(got[t])[1]
        /\ pc[t] = "read" /\ work[t] = <<>> /\ cur[t] = None /\ entries[t] = <<>>
        /\ got[t] # <<>> /\ cmd[t] \in Commands /\ Writes(cmd[t]) /\ cmd[t].kind = "delete"
        /\ xlock[r] = t /\ slock[r] \subseteq {t}
        /\ r \notin tainted => tuple[r] = k
        /\ \A n \in DOMAIN Tail(got[t]) : \E m \in DOMAIN got[t] : Tail(got[t])[n] = got[t][m]
    <2>1. Changing(t, "delete")
        BY DEF DeleteOne
    <2> QED
        BY <2>1, NextChange
<1>2. UNCHANGED <<allocated, committed, xlock, slock, btree, hmap, bucket, removed, pc, cmd, entries, buf,
                  must, gone, cur, abortActions>>
    BY DEF DeleteOne, lockVars, indexVars, hashVars
<1>3. IF r \in deleted THEN AlreadyDeleted(t) ELSE DeleteLive(t, r)
    BY <1>1 DEF DeleteOne
<1>4. CASE r \in deleted
    BY <1>1, <1>2, <1>3, <1>4, AlreadyDeletedKeeps
<1>5. CASE r \notin deleted
    <2>1. /\ deleted' = deleted \cup {r} /\ got'[t] = Tail(got[t])
          /\ undo'[t] = Append(undo[t], [type |-> "delete", rid |-> r, key |-> tuple[r]])
          /\ commitActions'[t] = commitActions[t] \o Deferred(buf[t], r)
          /\ tainted' = IF r \notin allocated \/ buf[t] # tuple[r] THEN tainted \cup {r} ELSE tainted
          /\ UNCHANGED <<tuple, work, failed>>
        BY <1>0, <1>3, <1>5 DEF DeleteLive, TypeOK, QueryType, TaskType
    <2>2. PICK x \in UndoType : x = [type |-> "delete", rid |-> r, key |-> tuple[r]]
        BY <1>0 DEF UndoType, TypeOK, TableType
    <2>3. x.type = "delete" /\ x.rid = r /\ undo'[t] = Append(undo[t], x)
        BY <2>1, <2>2
    <2>4. Write(t, r, x)
        <3>1. \A u \in Txns \ {t} : SameContext(u)
            BY <1>0, <1>2, <1>3, <1>5, <2>1 DEF DeleteLive, SameContext, TypeOK, QueryType, TaskType
        <3>2. \A q \in Rids \ {r} : SameRow(q)
            BY <1>2, <2>1 DEF SameRow
        <3>3. xlock' = [xlock EXCEPT ![r] = t]
            BY <1>0, <1>1, <1>2 DEF TypeOK, TableType
        <3>4. ASSUME NEW e \in EntryType, e.rid # r
              PROVE  /\ ~Due(t, e)'
                     /\ In(commitActions'[t], e) <=> In(commitActions[t], e)
                     /\ Once(commitActions[t], e) => Once(commitActions'[t], e)
            <4>1. ~Due(t, e)'
                BY <1>1, <2>1, TodoEmpty DEF Due
            <4>2. buf[t] \in Keys \cup {None}
                BY <1>0 DEF TypeOK, QueryType
            <4> QED
                BY <1>0, <2>1, <3>4, <4>1, <4>2, DeferredOthers
        <3>5. tainted \subseteq tainted' /\ tainted' \subseteq tainted \cup {r} /\ r \in allocated' \cup tainted'
            BY <1>2, <2>1
        <3>6. cmd'[t].kind # "select" /\ cmd'[t] = cmd[t] /\ cur'[t] = None /\ pc'[t] = "read"
            BY <1>1, <1>2
        <3>7. \A n \in DOMAIN got'[t] : \E m \in DOMAIN got[t] : got'[t][n] = got[t][m]
            BY <1>1, <2>1
        <3> QED
            BY <1>1, <1>2, <2>3, <3>1, <3>2, <3>3, <3>4, <3>5, <3>6, <3>7 DEF Write
    <2>5. ASSUME r \notin tainted' PROVE r \notin tainted /\ Live(r) /\ buf[t] = k /\ tuple[r] = k /\ k # None
        BY <1>1, <1>5, <2>1, <2>5, TableAssumption DEF Live
    <2>6. ASSUME NEW n \in DOMAIN undo'[t], r \notin tainted', undo'[t][n].rid = r PROVE UndoneBy(undo[t], n, r)'
        <3>1. PICK N \in Nat :
                /\ DOMAIN undo'[t] = DOMAIN undo[t] \cup {N} /\ undo'[t][N] = x
                /\ \A m \in DOMAIN undo[t] : /\ undo'[t][m] = undo[t][m]
                                             /\ FirstOf(undo'[t], m) <=> FirstOf(undo[t], m)
                                             /\ LastOf(undo'[t], m) <=> LastOf(undo[t], m) /\ undo[t][m].rid # x.rid
                /\ FirstOf(undo'[t], N) <=> \A m \in DOMAIN undo[t] : undo[t][m].rid # x.rid
                /\ LastOf(undo'[t], N)
            <4>1. undo[t] \in Seq(UndoType) /\ undo'[t] = Append(undo[t], x)
                BY <1>0, <2>3
            <4> QED
                BY <4>1, RecordAppended
        <3>2. /\ \A m \in DOMAIN undo[t] : undo[t][m].rid = r => UndoneBy(undo[t], m, r) /\ undo[t][m].type # "delete"
              /\ (\A m \in DOMAIN undo[t] : undo[t][m].rid # r) => committed[r] # None /\ tuple[r] = committed[r]
            BY <1>1, <2>5, <2>6, LiveRecords
        <3>3. r \in allocated /\ r \in deleted'
            BY <2>1, <2>5, <2>6 DEF Live
        <3>4. CASE n = N
            BY <1>2, <2>1, <2>3, <2>5, <2>6, <3>1, <3>2, <3>3, <3>4 DEF UndoneBy
        <3>5. CASE n # N
            <4>1. n \in DOMAIN undo[t] /\ undo[t][n].rid = r /\ undo'[t][n] = undo[t][n]
                BY <2>6, <3>1, <3>5
            <4>2. UndoneBy(undo[t], n, r) /\ undo[t][n].type # "delete" /\ ~LastOf(undo'[t], n)
                BY <2>3, <3>1, <3>2, <4>1
            <4>3. FirstOf(undo'[t], n) <=> FirstOf(undo[t], n)
                BY <3>1, <4>1
            <4> QED
                BY <1>2, <2>1, <3>3, <4>1, <4>2, <4>3 DEF UndoneBy
        <3> QED
            BY <3>4, <3>5
    <2>7. ASSUME NEW e \in EntryType, r \notin tainted', e.rid = r PROVE Task(t, e)'
        <3>1. Task(t, e)
            BY <1>0, <2>5, <2>7 DEF TaskOK
        <3>2. (In(commitActions'[t], e) <=> In(commitActions[t], e) \/ Current(e)) /\ Once(commitActions'[t], e)
            BY <1>1, <2>1, <2>5, <2>7, DeferredRow
        <3>3. (Kept(e)' <=> Kept(e)) /\ ~Current(e)'
            BY <1>2, <2>1, <2>7 DEF Kept, Current, Live
        <3>4. ~Due(t, e) /\ ~Due(t, e)' /\ Once(Todo(work'[t]), e)
            BY <1>1, <2>1, TodoEmpty DEF Due
        <3> QED
            BY <1>1, <1>2, <2>7, <3>1, <3>2, <3>3, <3>4 DEF Task
    <2>8. Query(t)'
        <3>1. \A q \in Rids \ {Head(got[t])[2]} : SameRow(q)
            BY <1>1, <2>4 DEF Write
        <3>2. tainted \subseteq tainted' /\ allocated \subseteq allocated'
            BY <2>4 DEF Write
        <3> QED
            BY <1>1, <1>2, <2>1, <3>1, <3>2, GotTail
    <2> QED
        BY <2>4, <2>6, <2>7, <2>8, WriteKeeps
<1> QED
    BY <1>4, <1>5

\* UpdateOne.
LEMMA UpdateKeeps ==
    ASSUME Inv, TypeOK', NEW t \in Txns, UpdateOne(t)
    PROVE  (BucketOK /\ LockOK /\ HeapOK /\ IndexOK /\ TaskOK /\ GotOK /\ MustOK)'
<1> USE DEF Set
<1>0. TypeOK /\ TaskOK /\ undo[t] \in Seq(UndoType)
    BY DEF Inv, TypeOK, TaskType
<1>1. PICK r \in Rids, k \in Keys :
        /\ r = Head(got[t])[2] /\ k = Head(got[t])[1]
        /\ pc[t] = "read" /\ work[t] = <<>> /\ cur[t] = None /\ entries[t] = <<>>
        /\ got[t] # <<>> /\ cmd[t] \in Commands /\ Writes(cmd[t]) /\ cmd[t].kind = "update"
        /\ xlock[r] = t /\ slock[r] \subseteq {t}
        /\ r \notin tainted => tuple[r] = k
        /\ \A n \in DOMAIN Tail(got[t]) : \E m \in DOMAIN got[t] : Tail(got[t])[n] = got[t][m]
    <2>1. Changing(t, "update")
        BY DEF UpdateOne
    <2> QED
        BY <2>1, NextChange
<1>2. UNCHANGED <<allocated, committed, xlock, slock, btree, hmap, bucket, removed, pc, cmd, entries, buf,
                  must, gone, cur, abortActions>>
    BY DEF UpdateOne, lockVars, indexVars, hashVars
<1>3. PICK new \in Keys : new = cmd[t].new
    BY <1>1, CommandFacts
<1>4. IF r \in deleted THEN AlreadyDeleted(t) ELSE UpdateLive(t, r, k, new)
    BY <1>1, <1>3 DEF UpdateOne
<1>5. CASE r \in deleted
    BY <1>1, <1>2, <1>4, <1>5, AlreadyDeletedKeeps
<1>6. CASE r \notin deleted
    <2>1. /\ tuple' = [tuple EXCEPT ![r] = new] /\ tuple'[r] = new /\ got'[t] = Tail(got[t])
          /\ undo'[t] = Append(undo[t], [type |-> "update", rid |-> r, key |-> tuple[r]])
          /\ k = new => UNCHANGED <<commitActions, work>>
          /\ k # new => /\ commitActions'[t] = commitActions[t] \o Deferred(k, r)
                        /\ work'[t] = Inserts(new, r)
          /\ tainted' = IF \/ r \notin allocated
                           \/ k # new /\ \E i \in Indexes : Entry(i, new, r) \in Range(commitActions[t])
                        THEN tainted \cup {r} ELSE tainted
          /\ UNCHANGED <<deleted, failed>>
        BY <1>0, <1>4, <1>6, SMTT(30) DEF UpdateLive, TypeOK, TableType, QueryType, TaskType
    <2>2. PICK x \in UndoType : x = [type |-> "update", rid |-> r, key |-> tuple[r]]
        BY <1>0 DEF UndoType, TypeOK, TableType
    <2>3. x.type = "update" /\ x.rid = r /\ x.key = tuple[r] /\ undo'[t] = Append(undo[t], x)
        BY <2>1, <2>2
    <2>4. ASSUME NEW e \in EntryType
          PROVE  /\ Due(t, e)' <=> k # new /\ e.key = new /\ e.rid = r
                 /\ Once(Todo(work'[t]), e)
        <3>1. CASE k = new
            BY <1>1, <2>1, <3>1, TodoEmpty DEF Due
        <3>2. CASE k # new
            BY <2>1, <3>2, TodoInserts DEF Due
        <3> QED
            BY <3>1, <3>2
    <2>5. Write(t, r, x)
        <3>1. \A u \in Txns \ {t} : SameContext(u)
            BY <1>0, <1>2, <1>4, <1>6, <2>1, SMTT(30) DEF UpdateLive, SameContext, TypeOK, QueryType, TaskType
        <3>2. \A q \in Rids \ {r} : SameRow(q)
            BY <1>0, <1>2, <2>1 DEF SameRow, TypeOK, TableType
        <3>3. xlock' = [xlock EXCEPT ![r] = t]
            BY <1>0, <1>1, <1>2 DEF TypeOK, TableType
        <3>4. ASSUME NEW e \in EntryType, e.rid # r
              PROVE  /\ ~Due(t, e)'
                     /\ In(commitActions'[t], e) <=> In(commitActions[t], e)
                     /\ Once(commitActions[t], e) => Once(commitActions'[t], e)
            <4>1. CASE k = new
                BY <2>1, <2>4, <3>4, <4>1
            <4>2. CASE k # new
                <5>1. k \in Keys \cup {None} /\ commitActions'[t] = commitActions[t] \o Deferred(k, r) /\ ~Due(t, e)'
                    BY <2>1, <2>4, <3>4, <4>2
                <5> QED
                    BY <1>0, <3>4, <5>1, DeferredOthers
            <4> QED
                BY <4>1, <4>2
        <3>5. tainted \subseteq tainted' /\ tainted' \subseteq tainted \cup {r} /\ r \in allocated' \cup tainted'
            BY <1>2, <2>1
        <3>6. cmd'[t].kind # "select" /\ cmd'[t] = cmd[t] /\ cur'[t] = None /\ pc'[t] = "read"
            BY <1>1, <1>2
        <3>7. \A n \in DOMAIN got'[t] : \E m \in DOMAIN got[t] : got'[t][n] = got[t][m]
            BY <1>1, <2>1
        <3> QED
            BY <1>1, <1>2, <2>3, <3>1, <3>2, <3>3, <3>4, <3>5, <3>6, <3>7 DEF Write
    <2>6. ASSUME r \notin tainted'
          PROVE  /\ r \notin tainted /\ Live(r) /\ tuple[r] = k /\ k # None /\ new # None
                 /\ k # new => \A e \in EntryType : e.rid = r /\ e.key = new => ~In(commitActions[t], e)
        <3>1. r \notin tainted /\ Live(r) /\ tuple[r] = k /\ k # None /\ new # None
            BY <1>1, <1>6, <2>1, <2>6, TableAssumption DEF Live
        <3>2. ASSUME k # new, NEW e \in EntryType, e.rid = r, e.key = new PROVE ~In(commitActions[t], e)
            <4>1. e.index \in Indexes /\ e = Entry(e.index, new, r)
                BY <3>2 DEF EntryType, Entry
            <4>2. e \notin Range(commitActions[t])
                BY <2>1, <2>6, <3>2, <4>1
            <4> QED
                BY <4>2 DEF In, Range
        <3> QED
            BY <3>1, <3>2
    <2>7. ASSUME NEW n \in DOMAIN undo'[t], r \notin tainted', undo'[t][n].rid = r PROVE UndoneBy(undo[t], n, r)'
        <3>1. PICK N \in Nat :
                /\ DOMAIN undo'[t] = DOMAIN undo[t] \cup {N} /\ undo'[t][N] = x
                /\ \A m \in DOMAIN undo[t] : /\ undo'[t][m] = undo[t][m]
                                             /\ FirstOf(undo'[t], m) <=> FirstOf(undo[t], m)
                                             /\ LastOf(undo'[t], m) <=> LastOf(undo[t], m) /\ undo[t][m].rid # x.rid
                /\ FirstOf(undo'[t], N) <=> \A m \in DOMAIN undo[t] : undo[t][m].rid # x.rid
                /\ LastOf(undo'[t], N)
            <4>1. undo[t] \in Seq(UndoType) /\ undo'[t] = Append(undo[t], x)
                BY <1>0, <2>3
            <4> QED
                BY <4>1, RecordAppended, SMTT(30)
        <3>2. /\ \A m \in DOMAIN undo[t] : undo[t][m].rid = r => UndoneBy(undo[t], m, r) /\ undo[t][m].type # "delete"
              /\ (\A m \in DOMAIN undo[t] : undo[t][m].rid # r) => committed[r] # None /\ tuple[r] = committed[r]
            BY <1>1, <2>6, <2>7, LiveRecords
        <3>3. r \in allocated /\ r \notin deleted' /\ tuple'[r] # None
            BY <1>6, <2>1, <2>6, <2>7 DEF Live
        <3>4. CASE n = N
            BY <1>2, <2>1, <2>3, <2>6, <2>7, <3>1, <3>2, <3>3, <3>4 DEF UndoneBy
        <3>5. CASE n # N
            <4>1. n \in DOMAIN undo[t] /\ undo[t][n].rid = r /\ undo'[t][n] = undo[t][n]
                BY <2>7, <3>1, <3>5
            <4>2. UndoneBy(undo[t], n, r) /\ undo[t][n].type # "delete" /\ ~LastOf(undo'[t], n)
                BY <2>3, <3>1, <3>2, <4>1
            <4>3. FirstOf(undo'[t], n) <=> FirstOf(undo[t], n)
                BY <3>1, <4>1
            <4> QED
                BY <1>2, <2>1, <3>3, <4>1, <4>2, <4>3 DEF UndoneBy
        <3> QED
            BY <3>4, <3>5
    <2>8. ASSUME NEW e \in EntryType, r \notin tainted', e.rid = r PROVE Task(t, e)'
        <3>1. Task(t, e) /\ e.key # None
            BY <1>0, <2>6, <2>8, EntryFields DEF TaskOK
        <3>2. Kept(e)' <=> Kept(e)
            BY <1>2 DEF Kept
        <3>3. (Current(e)' <=> e.key = new) /\ (Current(e) <=> e.key = k)
            BY <1>2, <2>1, <2>6, <2>8 DEF Current, Live
        <3>4. ~Due(t, e) /\ Once(Todo(work'[t]), e) /\ (Due(t, e)' <=> k # new /\ e.key = new)
            BY <1>1, <2>4, <2>8, TodoEmpty DEF Due
        <3>5. CASE k = new
            BY <1>1, <1>2, <2>1, <2>8, <3>1, <3>2, <3>3, <3>4, <3>5 DEF Task
        <3>6. CASE k # new
            <4>1. (In(commitActions'[t], e) <=> In(commitActions[t], e) \/ Current(e)) /\ Once(commitActions'[t], e)
                <5>1. /\ commitActions'[t] = commitActions[t] \o Deferred(k, e.rid)
                      /\ e.rid \notin tainted /\ xlock[e.rid] = t
                    BY <1>1, <2>1, <2>6, <2>8, <3>6
                <5>2. Live(e.rid) /\ tuple[e.rid] = k
                    BY <2>6, <2>8
                <5> QED
                    BY <1>1, <5>1, <5>2, DeferredRow
            <4>2. e.key = new => ~In(commitActions[t], e)
                BY <2>6, <2>8, <3>6
            <4> QED
                BY <1>1, <1>2, <2>8, <3>1, <3>2, <3>3, <3>4, <3>6, <4>1, <4>2 DEF Task
        <3> QED
            BY <3>5, <3>6
    <2>9. Query(t)'
        <3>1. \A q \in Rids \ {Head(got[t])[2]} : SameRow(q)
            BY <1>1, <2>5 DEF Write
        <3>2. tainted \subseteq tainted' /\ allocated \subseteq allocated'
            BY <2>5 DEF Write
        <3> QED
            BY <1>1, <1>2, <2>1, <3>1, <3>2, GotTail
    <2> QED
        BY <2>5, <2>7, <2>8, <2>9, WriteKeeps
<1> QED
    BY <1>5, <1>6
-----------------------------------------------------------------------------
(* Commit and abort *)

\* t turns to the removals of Commit or of Abort.
Turn(t) ==
    /\ UNCHANGED <<allocated, deleted, tuple, committed, xlock, slock, btree, hmap, bucket, removed,
                   abortActions, commitActions, undo>>
    /\ tainted \subseteq tainted'
    /\ \A u \in Txns \ {t} : SameContext(u)
    /\ pc[t] \in {"ready", "commit"} /\ pc'[t] \in {"commit", "abort"}
    /\ work[t] = <<>> /\ cur'[t] = None /\ got'[t] = <<>> /\ entries'[t] = <<>> /\ cmd'[t] = NoCmd
    /\ \A e \in EntryType : Due(t, e)' => In(abortActions[t], e) \/ In(commitActions[t], e)
    /\ pc'[t] = "commit" => \A u \in Txns \ {t}, r \in Changed(t) : r \notin must'[u]
\* Such a step leaves only the tasks of t and its entries to be looked at.
LEMMA TurnKeeps ==
    ASSUME Inv, TypeOK', NEW t \in Txns, Turn(t)
    PROVE  /\ BucketOK' /\ LockOK' /\ HeapOK' /\ GotOK' /\ MustOK'
           /\ (\A e \in EntryType : e.rid \notin tainted' => Task(t, e)') => TaskOK'
           /\ (\A e \in EntryType : e.rid \notin tainted' /\ xlock[e.rid] = t
                     => (ExpectedBy(t, e)' <=> ExpectedBy(t, e)))
                => IndexOK'
<1>0. TypeOK /\ ControlOK /\ BucketOK /\ LockOK /\ HeapOK /\ IndexOK /\ TaskOK /\ GotOK /\ MustOK /\ t # None
    BY TableAssumption DEF Inv
<1>1. Guarantee(t)
    BY DEF Turn, Guarantee, SameLocks, SameRow
<1>2. \A u \in Txns : Changed(u)' = Changed(u)
    BY DEF Turn, Changed
<1>3. \A r \in Rids : Exclusive(r)'
    BY <1>0 DEF Turn, LockOK, Exclusive
<1>4. Owns(t)'
    <2>1. Owns(t)
        BY <1>0 DEF LockOK
    <2> QED
        BY <1>2, <2>1 DEF Turn, Owns
<1>5. ASSUME NEW r \in Rids, r \notin tainted' PROVE Row(r)'
    <2>1. Row(r)
        BY <1>0, <1>5 DEF Turn, HeapOK
    <2>2. Altered(r)' <=> Altered(r)
        BY DEF Turn, Altered, Changed
    <2> QED
        BY <2>1, <2>2 DEF Turn, Row, Settled, Live
<1>6. Undone(t)'
    BY <1>0 DEF Turn, HeapOK, Undone, UndoneBy
<1>7. Query(t)'
    BY DEF Turn, Query
<1>8. BucketOK'
    BY <1>0, SameBuckets DEF Turn, SameContext
<1>9. MustOK'
    <2>1. ASSUME NEW u \in Txns \ {t} PROVE Lookup(u)'
        BY <1>0, <1>1, <1>2, OthersLookup DEF Turn
    <2>2. Lookup(t)'
        BY DEF Lookup, Turn, NoCmd
    <2> QED
        BY <2>1, <2>2 DEF MustOK
<1>10. ASSUME \A e \in EntryType : e.rid \notin tainted' /\ xlock[e.rid] = t => (ExpectedBy(t, e)' <=> ExpectedBy(t, e))
       PROVE  IndexOK'
    <2>1. ASSUME NEW e \in EntryType, e.rid \notin tainted', xlock[e.rid] \in {None, t}
          PROVE  Expected(e)' <=> Expected(e)
        <3>1. Kept(e)' <=> Kept(e)
            BY DEF Turn, Kept
        <3>2. xlock'[e.rid] = xlock[e.rid]
            BY DEF Turn
        <3> QED
            BY <1>0, <1>10, <2>1, <3>1, <3>2 DEF Expected
    <2> QED
        BY <1>0, <1>1, <2>1, SameIndexes DEF Turn
<1> QED
    BY <1>0, <1>1, <1>3, <1>4, <1>5, <1>6, <1>7, <1>8, <1>9, <1>10, OthersInv

\* Commit: the entries due are its commit actions.
LEMMA CommitKeeps ==
    ASSUME Inv, TypeOK', NEW t \in Txns, Commit(t)
    PROVE  (BucketOK /\ LockOK /\ HeapOK /\ IndexOK /\ TaskOK /\ GotOK /\ MustOK)'
<1> USE DEF Set
<1>0. TypeOK /\ ControlOK /\ TaskOK
    BY DEF Inv
<1>1. /\ pc[t] = "ready" /\ pc'[t] = "commit" /\ work[t] = <<>> /\ work'[t] = Ops("remove", commitActions[t])
      /\ cur'[t] = None /\ got'[t] = <<>> /\ entries'[t] = <<>> /\ cmd'[t] = NoCmd
      /\ commitActions[t] \in Seq(EntryType)
    BY <1>0 DEF Commit, Idle, TypeOK, QueryType, TaskType, ControlOK, Control
<1>2. UNCHANGED <<allocated, deleted, tuple, committed, xlock, slock, btree, hmap, bucket, removed,
                  abortActions, commitActions, undo, tainted, cmd, entries, got, gone, cur, failed>>
    BY DEF Commit, heapVars, lockVars, indexVars, hashVars, taskVars
<1>3. \A u \in Txns \ {t} : SameContext(u) /\ must'[u] = must[u] \ Changed(t)
    BY <1>0, <1>2 DEF Commit, SameContext, TypeOK, QueryType, TaskType
<1>4. \A e \in EntryType : (Due(t, e)' <=> In(commitActions[t], e)) /\ Todo(work'[t]) = commitActions[t]
    BY <1>1, TodoOps DEF Due
<1>5. Turn(t)
    BY <1>1, <1>2, <1>3, <1>4 DEF Turn
<1>6. ASSUME NEW e \in EntryType, e.rid \notin tainted' PROVE Task(t, e)'
    <2>1. Task(t, e)
        BY <1>0, <1>2, <1>6 DEF TaskOK
    <2>2. (Kept(e)' <=> Kept(e)) /\ (Current(e)' <=> Current(e))
        BY <1>2 DEF Kept, Current, Live
    <2> QED
        BY <1>1, <1>2, <1>4, <2>1, <2>2 DEF Task
<1>7. ASSUME NEW e \in EntryType PROVE ExpectedBy(t, e)' <=> ExpectedBy(t, e)
    <2>1. Kept(e)' <=> Kept(e)
        BY <1>2 DEF Kept
    <2> QED
        BY <1>1, <1>2, <1>4, <2>1 DEF ExpectedBy
<1> QED
    BY <1>5, <1>6, <1>7, TurnKeeps

\* Abort, of its own or after a commit that failed: the entries due are its abort
\* actions.
LEMMA AbortingKeeps ==
    ASSUME Inv, TypeOK', NEW t \in Txns, Aborting(t), pc[t] \in {"ready", "commit"}, work[t] = <<>>,
           tainted \subseteq tainted',
           pc[t] = "commit" => \A n \in DOMAIN commitActions[t] : commitActions[t][n].rid \in tainted',
           UNCHANGED <<allocated, deleted, tuple, committed, xlock, slock, btree, hmap, bucket, removed,
                       abortActions, commitActions, undo, cmd, entries, got, must, gone, cur, failed>>
    PROVE  (BucketOK /\ LockOK /\ HeapOK /\ IndexOK /\ TaskOK /\ GotOK /\ MustOK)'
<1> USE DEF Set
<1>0. TypeOK /\ ControlOK /\ TaskOK
    BY DEF Inv
<1>1. /\ pc'[t] = "abort" /\ work'[t] = Ops("remove", Reverse(abortActions[t]))
      /\ cur'[t] = None /\ got'[t] = <<>> /\ entries'[t] = <<>> /\ cmd'[t] = NoCmd
      /\ abortActions[t] \in Seq(EntryType)
    BY <1>0 DEF Aborting, TypeOK, QueryType, TaskType, ControlOK, Control
<1>2. \A u \in Txns \ {t} : SameContext(u)
    BY <1>0 DEF Aborting, SameContext, TypeOK, QueryType, TaskType
<1>3. ASSUME NEW e \in EntryType
      PROVE  /\ Due(t, e)' <=> In(abortActions[t], e)
             /\ Once(abortActions[t], e) => Once(Todo(work'[t]), e)
    <2>1. Reverse(abortActions[t]) \in Seq(EntryType)
        BY <1>1, InReverse
    <2>2. Todo(work'[t]) = Reverse(abortActions[t])
        BY <1>1, <2>1, TodoOps
    <2> QED
        BY <1>1, <2>2, InReverse DEF Due
<1>4. Turn(t)
    BY <1>1, <1>2, <1>3 DEF Turn
<1>5. ASSUME NEW e \in EntryType, e.rid \notin tainted' PROVE Task(t, e)'
    <2>1. Task(t, e)
        BY <1>0, <1>5 DEF TaskOK
    <2>2. Kept(e)' <=> Kept(e)
        BY DEF Kept
    <2> QED
        BY <1>1, <1>3, <2>1, <2>2 DEF Task
<1>6. ASSUME NEW e \in EntryType, e.rid \notin tainted' PROVE ExpectedBy(t, e)' <=> ExpectedBy(t, e)
    <2>1. Kept(e)' <=> Kept(e)
        BY DEF Kept
    <2>2. pc[t] = "commit" => ~In(commitActions[t], e)
        BY <1>6 DEF In
    <2> QED
        BY <1>1, <1>3, <2>1, <2>2 DEF ExpectedBy
<1> QED
    BY <1>4, <1>5, <1>6, TurnKeeps

\* CommitFails.
LEMMA CommitFailsKeeps ==
    ASSUME Inv, TypeOK', NEW t \in Txns, CommitFails(t)
    PROVE  (BucketOK /\ LockOK /\ HeapOK /\ IndexOK /\ TaskOK /\ GotOK /\ MustOK)'
<1>1. /\ Aborting(t) /\ pc[t] = "commit" /\ work[t] = <<>> /\ tainted \subseteq tainted'
      /\ \A n \in DOMAIN commitActions[t] : commitActions[t][n].rid \in tainted'
    BY DEF CommitFails, CommitReady
<1>2. UNCHANGED <<allocated, deleted, tuple, committed, xlock, slock, btree, hmap, bucket, removed,
                  abortActions, commitActions, undo, cmd, entries, got, must, gone, cur, failed>>
    BY DEF CommitFails, heapVars, lockVars, indexVars, hashVars, taskVars, queryVars
<1> QED
    BY <1>1, <1>2, AbortingKeeps
\* Abort.
LEMMA AbortKeeps ==
    ASSUME Inv, TypeOK', NEW t \in Txns, Abort(t)
    PROVE  (BucketOK /\ LockOK /\ HeapOK /\ IndexOK /\ TaskOK /\ GotOK /\ MustOK)'
<1>1. Aborting(t) /\ pc[t] = "ready" /\ tainted \subseteq tainted'
    BY DEF Abort
<1>2. work[t] = <<>>
    BY <1>1 DEF Inv, ControlOK, Control
<1>3. UNCHANGED <<allocated, deleted, tuple, committed, xlock, slock, btree, hmap, bucket, removed,
                  abortActions, commitActions, undo, cmd, entries, got, must, gone, cur, failed>>
    BY DEF Abort, heapVars, lockVars, indexVars, hashVars, taskVars, queryVars
<1> QED
    BY <1>1, <1>2, <1>3, AbortingKeeps

\* t ends: its locks are released and its context is cleared.  Only a commit changes
\* what is committed, and only of the rows t has changed.
Ended(t) ==
    /\ pc[t] \in {"commit", "abort"} /\ work[t] = <<>>
    /\ Release(t) /\ Reset(t)
    /\ UNCHANGED <<allocated, deleted, tuple, btree, hmap, bucket, removed, tainted>>
    /\ \A r \in Rids : r \notin Changed(t) => committed'[r] = committed[r]
    /\ pc[t] = "abort" => committed' = committed
\* Then only the rows t had locked and their entries are left to be looked at.
LEMMA EndedKeeps ==
    ASSUME Inv, TypeOK', NEW t \in Txns, Ended(t)
    PROVE  /\ BucketOK' /\ LockOK' /\ TaskOK' /\ GotOK' /\ MustOK'
           /\ (\A r \in Rids : r \notin tainted /\ xlock[r] \in {None, t} => Settled(r)') => HeapOK'
           /\ (\A e \in EntryType : e.rid \notin tainted /\ xlock[e.rid] = t
                     => (Kept(e)' <=> ExpectedBy(t, e))) => IndexOK'
<1> USE DEF Set
<1>0. TypeOK /\ ControlOK /\ BucketOK /\ LockOK /\ HeapOK /\ IndexOK /\ TaskOK /\ GotOK /\ MustOK /\ t # None
    BY TableAssumption DEF Inv
<1>1. /\ cmd[t] = NoCmd /\ entries[t] = <<>> /\ got[t] = <<>> /\ cur[t] = None
      /\ UNCHANGED <<cmd, entries, got, must, gone, work, cur>>
      /\ pc'[t] = "ready" /\ abortActions'[t] = <<>> /\ commitActions'[t] = <<>> /\ undo'[t] = <<>>
    BY <1>0 DEF Ended, Reset, ControlOK, Control, TypeOK, QueryType, TaskType, queryVars, opVars
<1>2. \A u \in Txns \ {t} : SameContext(u)
    BY <1>0, <1>1 DEF Ended, Reset, SameContext, TypeOK, QueryType, TaskType
<1>3. \A r \in Rids : /\ xlock'[r] = IF xlock[r] = t THEN None ELSE xlock[r]
                      /\ slock'[r] = slock[r] \ {t}
    BY <1>0 DEF Ended, Release, TypeOK, TableType
<1>4. \A r \in Changed(t) : xlock[r] = t /\ r \in Rids
    <2>1. \A n \in DOMAIN undo[t] : undo[t][n] \in UndoType
        BY <1>0 DEF TypeOK, TaskType
    <2>2. \A r \in Changed(t) : r \in Rids
        BY <2>1 DEF Changed, UndoType
    <2> QED
        BY <1>0, <2>2 DEF LockOK, Owns
<1>5. Guarantee(t)
    <2>1. ASSUME NEW u \in Txns \ {t}, NEW r \in Rids
          PROVE  /\ xlock'[r] = u <=> xlock[r] = u
                 /\ u \in slock'[r] <=> u \in slock[r]
                 /\ xlock[r] = u \/ u \in slock[r] => SameRow(r)
        <3>1. u # None
            BY TableAssumption
        <3>2. ASSUME xlock[r] = u \/ u \in slock[r] PROVE r \notin Changed(t)
            <4>1. Exclusive(r)
                BY <1>0 DEF LockOK
            <4> QED
                BY <1>0, <1>4, <3>2, <4>1 DEF Exclusive
        <3> QED
            BY <1>3, <3>1, <3>2 DEF Ended, SameRow
    <2> QED
        BY <1>2, <2>1 DEF Guarantee, SameLocks, Ended
<1>6. ASSUME NEW r \in Rids PROVE Exclusive(r)'
    <2>1. Exclusive(r)
        BY <1>0 DEF LockOK
    <2> QED
        BY <1>3, <2>1 DEF Exclusive
<1>7. \A e \in EntryType : /\ ~Due(t, e)' /\ Once(Todo(work'[t]), e)
                           /\ ~In(abortActions'[t], e) /\ Once(abortActions'[t], e)
                           /\ ~In(commitActions'[t], e) /\ Once(commitActions'[t], e)
    BY <1>1, TodoEmpty, InEmpty DEF Ended, Due
<1>8. Changed(t)' = {}
    BY <1>1 DEF Changed
<1>9. Owns(t)'
    BY <1>1, <1>7, <1>8 DEF Owns
<1>10. ASSUME \A r \in Rids : r \notin tainted /\ xlock[r] \in {None, t} => Settled(r)' PROVE HeapOK'
    <2>1. Undone(t)'
        BY <1>1 DEF Undone
    <2>2. ASSUME NEW r \in Rids, r \notin tainted', xlock[r] \in {None, t} PROVE Row(r)'
        <3>1. Row(r)
            BY <1>0, <2>2 DEF HeapOK, Ended
        <3> QED
            BY <1>10, <2>2, <3>1 DEF Row, Ended
    <2> QED
        BY <1>0, <1>5, <2>1, <2>2, OthersInv
<1>11. ASSUME NEW e \in EntryType PROVE Task(t, e)'
    <2>1. xlock'[e.rid] # t
        BY <1>0, <1>3, EntryFields
    <2> QED
        BY <1>1, <1>7, <2>1 DEF Task
<1>12. Query(t)'
    BY <1>1 DEF Query
<1>13. BucketOK'
    BY <1>0, <1>1, <1>2, SameBuckets DEF Ended, SameContext
<1>14. MustOK'
    <2>1. ASSUME NEW u \in Txns \ {t} PROVE Lookup(u)'
        <3>1. ASSUME NEW r \in must'[u], cmd[u].kind = "select", r \notin tainted' PROVE committed'[r] = committed[r]
            <4>0. r \in must[u] \ tainted /\ r \in Rids
                BY <1>0, <1>1, <3>1 DEF TypeOK, QueryType, Ended
            <4>1. ToFind(u, r)
                BY <1>0, <3>1, <4>0 DEF MustOK, Lookup
            <4>2. CASE pc[t] = "commit"
                BY <1>0, <1>4, <4>0, <4>1, <4>2 DEF ToFind, Ended
            <4>3. CASE pc[t] = "abort"
                BY <4>3 DEF Ended
            <4> QED
                BY <4>2, <4>3 DEF Ended
        <3> QED
            BY <1>0, <1>1, <1>5, <3>1, OthersLookup
    <2>2. Lookup(t)'
        BY <1>1 DEF Lookup, NoCmd
    <2> QED
        BY <2>1, <2>2 DEF MustOK
<1>15. ASSUME \A e \in EntryType : e.rid \notin tainted /\ xlock[e.rid] = t => (Kept(e)' <=> ExpectedBy(t, e))
       PROVE  IndexOK'
    <2>1. ASSUME NEW e \in EntryType, e.rid \notin tainted', xlock[e.rid] \in {None, t}
          PROVE  Expected(e)' <=> Expected(e)
        <3>0. e.rid \in Rids
            BY EntryFields
        <3>1. xlock'[e.rid] = None
            BY <1>3, <2>1, <3>0
        <3>2. CASE xlock[e.rid] = t
            BY <1>0, <1>15, <2>1, <3>1, <3>2 DEF Expected, Ended
        <3>3. CASE xlock[e.rid] = None
            <4>1. Kept(e)' <=> Kept(e)
                BY <1>0, <1>4, <3>0, <3>3 DEF Kept, Ended
            <4> QED
                BY <3>1, <3>3, <4>1 DEF Expected
        <3> QED
            BY <2>1, <3>2, <3>3
    <2> QED
        BY <1>0, <1>5, <2>1, SameIndexes DEF Ended
<1> QED
    BY <1>0, <1>5, <1>6, <1>9, <1>10, <1>11, <1>12, <1>13, <1>14, <1>15, OthersInv

\* LogCommit: what is in the indexes of a changed row are its current entries, and they
\* are committed now.
LEMMA LogCommitKeeps ==
    ASSUME Inv, TypeOK', NEW t \in Txns, LogCommit(t)
    PROVE  (BucketOK /\ LockOK /\ HeapOK /\ IndexOK /\ TaskOK /\ GotOK /\ MustOK)'
<1>0. TypeOK /\ ControlOK /\ LockOK /\ HeapOK /\ TaskOK /\ t # None
    BY TableAssumption DEF Inv
<1>1. /\ pc[t] = "commit" /\ work[t] = <<>>
      /\ \A r \in Rids : committed'[r] = IF r \notin Changed(t) THEN committed[r]
                                         ELSE IF Live(r) THEN tuple[r] ELSE None
      /\ UNCHANGED <<allocated, deleted, tuple, btree, hmap, bucket, removed, tainted>>
    BY DEF LogCommit, CommitReady, heapVars, indexVars, hashVars
<1>2. Ended(t)
    BY <1>1 DEF Ended, LogCommit
<1>3. ASSUME NEW r \in Rids, r \notin tainted, xlock[r] \in {None, t} PROVE Settled(r)'
    <2>1. CASE r \in Changed(t)
        <3>1. PICK n \in DOMAIN undo[t] : undo[t][n].rid = r
            BY <2>1 DEF Changed
        <3>2. UndoneBy(undo[t], n, r)
            BY <1>0, <1>3, <3>1 DEF HeapOK, Undone
        <3>3. tuple[r] # None /\ committed'[r] = IF Live(r) THEN tuple[r] ELSE None
            BY <1>1, <2>1, <3>2 DEF UndoneBy
        <3> QED
            BY <1>1, <3>3 DEF Settled, Live
    <2>2. CASE r \notin Changed(t)
        <3>1. ~Altered(r) /\ Row(r) /\ committed'[r] = committed[r]
            BY <1>0, <1>1, <1>3, <2>2 DEF Altered, HeapOK
        <3> QED
            BY <1>1, <3>1 DEF Row, Settled, Live
    <2> QED
        BY <2>1, <2>2
<1>4. ASSUME NEW e \in EntryType, e.rid \notin tainted, xlock[e.rid] = t PROVE Kept(e)' <=> ExpectedBy(t, e)
    <2>0. e.rid \in Rids /\ e.key # None
        BY EntryFields
    <2>1. ~Due(t, e)
        BY <1>1, TodoEmpty DEF Due
    <2>2. ExpectedBy(t, e) <=> (Kept(e) \/ In(abortActions[t], e)) /\ ~In(commitActions[t], e)
        BY <1>1, <2>1 DEF ExpectedBy
    <2>3. CASE e.rid \in Changed(t)
        <3>1. Task(t, e)
            BY <1>0, <1>4 DEF TaskOK
        <3>2. ExpectedBy(t, e) <=> Current(e)
            BY <1>1, <1>4, <2>1, <2>2, <3>1 DEF Task
        <3>3. Kept(e)' <=> Current(e)
            BY <1>1, <2>0, <2>3 DEF Kept, Current
        <3> QED
            BY <3>2, <3>3
    <2>4. CASE e.rid \notin Changed(t)
        <3>1. ~In(abortActions[t], e) /\ ~In(commitActions[t], e)
            BY <1>0, <1>1, <2>4 DEF LockOK, Owns
        <3>2. Kept(e)' <=> Kept(e)
            BY <1>1, <2>0, <2>4 DEF Kept
        <3> QED
            BY <2>2, <3>1, <3>2
    <2> QED
        BY <2>3, <2>4
<1> QED
    BY <1>2, <1>3, <1>4, EndedKeeps

\* EndAbort: nothing is changed any more, and every entry added is out.
LEMMA EndAbortKeeps ==
    ASSUME Inv, TypeOK', NEW t \in Txns, EndAbort(t)
    PROVE  (BucketOK /\ LockOK /\ HeapOK /\ IndexOK /\ TaskOK /\ GotOK /\ MustOK)'
<1>0. TypeOK /\ HeapOK
    BY DEF Inv
<1>1. /\ pc[t] = "abort" /\ work[t] = <<>> /\ undo[t] = <<>>
      /\ UNCHANGED <<allocated, deleted, tuple, btree, hmap, bucket, removed, tainted, committed>>
    BY DEF EndAbort, heapVars, indexVars, hashVars
<1>2. Ended(t)
    BY <1>1 DEF Ended, EndAbort
<1>3. ASSUME NEW r \in Rids, r \notin tainted, xlock[r] \in {None, t} PROVE Settled(r)'
    <2>1. ~Altered(r) /\ Row(r)
        BY <1>0, <1>1, <1>3 DEF Altered, HeapOK, Changed
    <2> QED
        BY <1>1, <2>1 DEF Row, Settled, Live
<1>4. ASSUME NEW e \in EntryType, e.rid \notin tainted, xlock[e.rid] = t PROVE Kept(e)' <=> ExpectedBy(t, e)
    <2>1. ~Due(t, e)
        BY <1>1, TodoEmpty DEF Due
    <2> QED
        BY <1>1, <2>1 DEF ExpectedBy, Kept
<1> QED
    BY <1>2, <1>3, <1>4, EndedKeeps

\* A log record less.
LEMMA RecordRemoved ==
    ASSUME NEW s \in Seq(UndoType), s # <<>>
    PROVE  \E L \in DOMAIN s :
               /\ Last(s) = s[L] /\ DOMAIN s = DOMAIN Front(s) \cup {L} /\ LastOf(s, L)
               /\ (\A n \in DOMAIN Front(s) : s[n].rid # s[L].rid) => FirstOf(s, L)
               /\ \A n \in DOMAIN Front(s) :
                    /\ Front(s)[n] = s[n]
                    /\ FirstOf(Front(s), n) <=> FirstOf(s, n)
                    /\ s[n].rid # s[L].rid => (LastOf(Front(s), n) <=> LastOf(s, n))
                    /\ s[n].rid = s[L].rid => ~LastOf(s, n) /\ ~FirstOf(s, L)
<1> DEFINE a == Front(s)
           L == Len(s)
<1>1. Len(s) \in Nat /\ Len(s) # 0 /\ DOMAIN s = 1 .. Len(s)
    OBVIOUS
<1>2. a = [n \in 1 .. Len(s) - 1 |-> s[n]] /\ Last(s) = s[L]
    BY <1>1 DEF Front, Last
<1>3. /\ L \in DOMAIN s /\ DOMAIN s = DOMAIN a \cup {L}
      /\ \A n \in DOMAIN a : a[n] = s[n] /\ n <= L /\ ~(L <= n) /\ n \in DOMAIN s
      /\ L <= L
    BY <1>1, <1>2
<1> HIDE DEF a, L
<1>4. LastOf(s, L)
    BY <1>3, Zenon DEF LastOf
<1>5. (\A n \in DOMAIN a : s[n].rid # s[L].rid) => FirstOf(s, L)
    BY <1>3, Zenon DEF FirstOf
<1>6. ASSUME NEW n \in DOMAIN a
      PROVE  /\ FirstOf(a, n) <=> FirstOf(s, n)
             /\ s[n].rid # s[L].rid => (LastOf(a, n) <=> LastOf(s, n))
             /\ s[n].rid = s[L].rid => ~LastOf(s, n) /\ ~FirstOf(s, L)
    <2>1. FirstOf(a, n) <=> FirstOf(s, n)
        BY <1>3, Zenon DEF FirstOf
    <2>2. s[n].rid # s[L].rid => (LastOf(a, n) <=> LastOf(s, n))
        BY <1>3, Zenon DEF LastOf
    <2>3. s[n].rid = s[L].rid => ~LastOf(s, n) /\ ~FirstOf(s, L)
        BY <1>3, Zenon DEF LastOf, FirstOf
    <2> QED
        BY <2>1, <2>2, <2>3
<1> QED
    BY <1>2, <1>3, <1>4, <1>5, <1>6 DEF a

\* UndoOne: the record is the last of its slot; if it is the only one left, the row is
\* the committed one again.
LEMMA UndoKeeps ==
    ASSUME Inv, TypeOK', NEW t \in Txns, UndoOne(t)
    PROVE  (BucketOK /\ LockOK /\ HeapOK /\ IndexOK /\ TaskOK /\ GotOK /\ MustOK)'
<1> USE DEF Set
<1>0. /\ TypeOK /\ ControlOK /\ BucketOK /\ LockOK /\ HeapOK /\ IndexOK /\ TaskOK /\ GotOK /\ MustOK /\ t # None
      /\ Owns(t) /\ Undone(t) /\ undo[t] \in Seq(UndoType)
    BY TableAssumption DEF Inv, TypeOK, TaskType, LockOK, HeapOK
<1>1. /\ pc[t] = "abort" /\ work[t] = <<>> /\ undo[t] # <<>> /\ got[t] = <<>> /\ entries[t] = <<>> /\ cmd[t] = NoCmd
      /\ UNCHANGED <<allocated, committed, xlock, slock, btree, hmap, bucket, removed, pc, cmd, entries, got, must,
                     gone, work, cur, abortActions, commitActions, failed, tainted>>
    BY <1>0 DEF UndoOne, ControlOK, Control, lockVars, indexVars, hashVars, queryVars, opVars
<1>2. undo'[t] = Front(undo[t]) /\ \A u \in Txns \ {t} : undo'[u] = undo[u]
    BY <1>0 DEF UndoOne, TypeOK, TaskType
<1>3. PICK L \in DOMAIN undo[t] :
        /\ Last(undo[t]) = undo[t][L] /\ DOMAIN undo[t] = DOMAIN undo'[t] \cup {L} /\ LastOf(undo[t], L)
        /\ (\A n \in DOMAIN undo'[t] : undo[t][n].rid # undo[t][L].rid) => FirstOf(undo[t], L)
        /\ \A n \in DOMAIN undo'[t] :
             /\ undo'[t][n] = undo[t][n]
             /\ FirstOf(undo'[t], n) <=> FirstOf(undo[t], n)
             /\ undo[t][n].rid # undo[t][L].rid => (LastOf(undo'[t], n) <=> LastOf(undo[t], n))
             /\ undo[t][n].rid = undo[t][L].rid => ~LastOf(undo[t], n) /\ ~FirstOf(undo[t], L)
    <2>1. undo[t] \in Seq(UndoType) /\ undo[t] # <<>>
        BY <1>0, <1>1
    <2> DEFINE P(f) == \E L \in DOMAIN undo[t] :
                /\ Last(undo[t]) = undo[t][L] /\ DOMAIN undo[t] = DOMAIN f \cup {L} /\ LastOf(undo[t], L)
                /\ (\A n \in DOMAIN f : undo[t][n].rid # undo[t][L].rid) => FirstOf(undo[t], L)
                /\ \A n \in DOMAIN f :
                     /\ f[n] = undo[t][n]
                     /\ FirstOf(f, n) <=> FirstOf(undo[t], n)
                     /\ undo[t][n].rid # undo[t][L].rid => (LastOf(f, n) <=> LastOf(undo[t], n))
                     /\ undo[t][n].rid = undo[t][L].rid => ~LastOf(undo[t], n) /\ ~FirstOf(undo[t], L)
    <2>2. P(Front(undo[t]))
        BY <2>1, RecordRemoved
    <2>3. P(undo'[t])
        BY <1>2, <2>2
    <2> QED
        BY <2>3
<1>4. PICK x \in UndoType : x = undo[t][L]
    BY <1>0
<1>5. PICK r \in Rids : r = x.rid /\ r \in Changed(t) /\ xlock[r] = t
    <2>1. x.rid \in Rids
        BY DEF UndoType
    <2> QED
        BY <1>0, <1>4, <2>1 DEF Changed, Owns
<1>6. /\ x.type = "insert" => deleted' = deleted \cup {r} /\ tuple' = tuple
      /\ x.type = "delete" => deleted' = deleted \ {r} /\ tuple' = tuple
      /\ x.type = "update" => deleted' = deleted /\ tuple' = [tuple EXCEPT ![r] = x.key]
      /\ x.type \in {"insert", "delete", "update"}
    <2>1. x.type \in {"insert", "delete", "update"}
        BY DEF UndoType
    <2>2. /\ deleted' = CASE x.type = "insert" -> deleted \cup {r}
                          [] x.type = "delete" -> deleted \ {r}
                          [] x.type = "update" -> deleted
          /\ tuple' = IF x.type = "update" THEN [tuple EXCEPT ![r] = x.key] ELSE tuple
        BY <1>3, <1>4, <1>5 DEF UndoOne
    <2> QED
        BY <2>1, <2>2
<1>7. \A q \in Rids \ {r} : SameRow(q)
    BY <1>0, <1>1, <1>6 DEF SameRow, TypeOK, TableType
<1>8. Changed(t)' \subseteq Changed(t) /\ \A q \in Changed(t) : q # r => q \in Changed(t)'
    BY <1>3, <1>4, <1>5 DEF Changed
<1>9. Guarantee(t)
    <2>1. \A u \in Txns \ {t} : SameContext(u)
        BY <1>1, <1>2 DEF SameContext
    <2>2. ASSUME NEW u \in Txns \ {t} PROVE SameLocks(u)
        <3>1. xlock[r] # u /\ u \notin slock[r]
            BY <1>0, <1>5 DEF LockOK, Exclusive
        <3> QED
            BY <1>1, <1>7, <3>1 DEF SameLocks
    <2> QED
        BY <1>1, <2>1, <2>2 DEF Guarantee
<1>10. \A q \in Rids : Exclusive(q)'
    BY <1>0, <1>1 DEF LockOK, Exclusive
<1>11. Owns(t)'
    <2>1. \A e \in EntryType : ~Due(t, e)'
        BY <1>1, TodoEmpty DEF Due
    <2> QED
        BY <1>0, <1>1, <1>8, <2>1 DEF Owns
<1>12. ASSUME r \notin tainted PROVE UndoneBy(undo[t], L, r)
    BY <1>0, <1>4, <1>5, <1>12 DEF Undone
<1>13. ASSUME NEW q \in Rids, q \notin tainted', xlock[q] \in {None, t} PROVE Row(q)'
    <2>0. Row(q)
        BY <1>0, <1>1, <1>13 DEF HeapOK
    <2>1. CASE q = r
        <3>1. UndoneBy(undo[t], L, r)
            BY <1>1, <1>12, <1>13, <2>1
        <3>2. r \in deleted' => r \in allocated'
            BY <1>1, <3>1 DEF UndoneBy
        <3>3. ASSUME ~Altered(r)' PROVE Settled(r)'
            <4>1. r \notin Changed(t)'
                <5>1. xlock'[r] = t
                    BY <1>1, <1>5
                <5> QED
                    BY <1>0, <3>3, <5>1 DEF Altered
            <4>2. FirstOf(undo[t], L)
                BY <1>3, <1>4, <1>5, <4>1 DEF Changed
            <4>3. CASE x.type = "insert"
                BY <1>1, <1>4, <1>6, <3>1, <4>2, <4>3 DEF UndoneBy, Settled, Live
            <4>4. CASE x.type = "delete"
                BY <1>1, <1>4, <1>6, <3>1, <4>2, <4>4 DEF UndoneBy, Settled, Live
            <4>5. CASE x.type = "update"
                <5>1. tuple'[r] = x.key
                    BY <1>0, <1>6, <4>5 DEF TypeOK, TableType
                <5>2. r \in allocated /\ r \notin deleted /\ x.key = committed[r] /\ committed[r] # None
                    BY <1>3, <1>4, <3>1, <4>2, <4>5 DEF UndoneBy
                <5> QED
                    BY <1>1, <1>6, <4>5, <5>1, <5>2 DEF Settled, Live
            <4> QED
                BY <1>6, <4>3, <4>4, <4>5
        <3> QED
            BY <2>1, <3>2, <3>3 DEF Row
    <2>2. CASE q # r
        <3>1. Altered(q)' <=> Altered(q)
            <4>1. CASE xlock[q] = t
                <5>1. xlock'[q] = t
                    BY <1>1, <4>1
                <5> QED
                    BY <1>0, <1>8, <2>2, <4>1, <5>1 DEF Altered
            <4>2. CASE xlock[q] = None
                BY <1>1, <4>2 DEF Altered
            <4> QED
                BY <1>13, <4>1, <4>2
        <3> QED
            BY <1>7, <2>0, <2>2, <3>1 DEF Row, SameRow, Settled, Live
    <2> QED
        BY <2>1, <2>2
<1>14. Undone(t)'
    <2> SUFFICES ASSUME NEW n \in DOMAIN undo'[t], undo'[t][n].rid \notin tainted'
                 PROVE  UndoneBy(undo[t], n, undo[t][n].rid)'
        BY DEF Undone
    <2>1. /\ n \in DOMAIN undo[t] /\ undo'[t][n] = undo[t][n]
          /\ FirstOf(undo'[t], n) <=> FirstOf(undo[t], n)
        BY <1>3
    <2>2. PICK q \in Rids : q = undo[t][n].rid
        <3>1. undo[t][n] \in UndoType
            BY <1>0, <2>1
        <3> QED
            BY <3>1 DEF UndoType
    <2>3. UndoneBy(undo[t], n, q)
        BY <1>0, <1>1, <2>1, <2>2 DEF Undone
    <2>4. CASE q # r
        <3>1. SameRow(q) /\ (LastOf(undo'[t], n) <=> LastOf(undo[t], n))
            BY <1>3, <1>4, <1>5, <1>7, <2>2, <2>4
        <3>2. UndoneBy(undo[t], n, q)'
            BY <2>1, <2>3, <3>1 DEF UndoneBy, SameRow
        <3> QED
            BY <2>1, <2>2, <3>2
    <2>5. CASE q = r
        <3>1. UndoneBy(undo[t], L, r) /\ ~LastOf(undo[t], n) /\ ~FirstOf(undo[t], L)
            BY <1>1, <1>3, <1>4, <1>5, <1>12, <2>1, <2>2, <2>5
        <3>2. undo[t][n].type # "delete" /\ x.type # "insert"
            BY <1>4, <2>3, <2>5, <3>1 DEF UndoneBy
        <3>3. r \notin deleted' /\ tuple'[r] # None
            <4>1. CASE x.type = "delete"
                BY <1>6, <3>1, <4>1 DEF UndoneBy
            <4>2. CASE x.type = "update"
                <5>1. tuple'[r] = x.key
                    BY <1>0, <1>6, <4>2 DEF TypeOK, TableType
                <5> QED
                    BY <1>3, <1>4, <1>6, <3>1, <4>2, <5>1 DEF UndoneBy
            <4> QED
                BY <1>6, <3>2, <4>1, <4>2
        <3>4. UndoneBy(undo[t], n, r)'
            BY <1>1, <2>1, <2>3, <2>5, <3>2, <3>3 DEF UndoneBy
        <3> QED
            BY <2>1, <2>2, <2>5, <3>4
    <2> QED
        BY <2>4, <2>5
<1>15. ASSUME NEW e \in EntryType
       PROVE  Task(t, e)' /\ (ExpectedBy(t, e)' <=> ExpectedBy(t, e)) /\ (Kept(e)' <=> Kept(e))
    <2>1. ~Due(t, e)' /\ ~Due(t, e) /\ Once(Todo(work'[t]), e)
        BY <1>1, TodoEmpty DEF Due
    <2> QED
        BY <1>1, <2>1 DEF Task, ExpectedBy, Kept
<1>16. IndexOK'
    <2>1. \A e \in EntryType : xlock[e.rid] \in {None, t} => (Expected(e)' <=> Expected(e))
        BY <1>0, <1>1, <1>15 DEF Expected
    <2> QED
        BY <1>0, <1>1, <1>9, <2>1, SameIndexes
<1>17. Query(t)'
    BY <1>1 DEF Query
<1>18. BucketOK'
    BY <1>0, <1>1, SameBuckets
<1>19. MustOK'
    <2>1. ASSUME NEW u \in Txns \ {t} PROVE Lookup(u)'
        BY <1>0, <1>1, <1>9, OthersLookup
    <2>2. Lookup(t)'
        BY <1>1 DEF Lookup, NoCmd
    <2> QED
        BY <2>1, <2>2 DEF MustOK
<1> QED
    BY <1>0, <1>9, <1>10, <1>11, <1>13, <1>14, <1>15, <1>16, <1>17, <1>18, <1>19, OthersInv
-----------------------------------------------------------------------------
(* Vacuum and restarts *)

\* VacuumPage: a slot it frees is neither a row nor locked.
LEMMA VacuumKeeps ==
    ASSUME Inv, VacuumPage
    PROVE  (BucketOK /\ LockOK /\ HeapOK /\ IndexOK /\ TaskOK /\ GotOK /\ MustOK)'
<1>0. TypeOK /\ ControlOK /\ BucketOK /\ LockOK /\ HeapOK /\ IndexOK /\ TaskOK /\ GotOK /\ MustOK
    BY DEF Inv
<1>1. /\ \A r \in Rids : (r \in allocated' <=> r \in allocated /\ ~Free(r))
                          /\ (r \in deleted' <=> r \in deleted /\ ~Free(r))
      /\ \A t \in Txns : gone'[t] = gone[t] \cup {r \in Rids : Free(r) /\ Leads(t, r)}
      /\ UNCHANGED <<tuple, committed, xlock, slock, btree, hmap, bucket, removed, pc, cmd, entries, got, must,
                     work, cur, abortActions, commitActions, undo, failed, tainted>>
    BY <1>0 DEF VacuumPage, TypeOK, TableType, lockVars, indexVars, hashVars, opVars, taskVars
<1>2. \A r \in Rids : (Live(r)' <=> Live(r)) /\ (xlock[r] # None \/ slock[r] # {} => SameRow(r))
    BY <1>1 DEF Live, Free, SameRow
<1>3. BucketOK'
    BY <1>0, <1>1, SameBuckets
<1>4. \A t \in Txns : Changed(t)' = Changed(t)
    BY <1>1 DEF Changed
<1>5. LockOK'
    BY <1>0, <1>1, <1>4 DEF LockOK, Exclusive, Owns, Due, HasRead
<1>6. HeapOK'
    <2>1. ASSUME NEW r \in Rids \ tainted PROVE Row(r)'
        <3>1. Row(r)
            BY <1>0 DEF HeapOK
        <3>2. Altered(r)' <=> Altered(r)
            BY <1>1 DEF Altered, Changed
        <3>3. Settled(r)' <=> Settled(r)
            BY <1>1, <1>2 DEF Settled
        <3> QED
            BY <1>1, <3>1, <3>2, <3>3 DEF Row
    <2>2. ASSUME NEW t \in Txns, NEW n \in DOMAIN undo[t], undo[t][n].rid \notin tainted
          PROVE  UndoneBy(undo[t], n, undo[t][n].rid)'
        <3>1. PICK r \in Rids : r = undo[t][n].rid
            <4>1. undo[t][n] \in UndoType
                BY <1>0 DEF TypeOK, TaskType
            <4> QED
                BY <4>1 DEF UndoType
        <3>2. UndoneBy(undo[t], n, r)
            BY <1>0, <2>2, <3>1 DEF HeapOK, Undone
        <3>3. xlock[r] = t /\ t # None
            BY <1>0, <3>1, TableAssumption DEF LockOK, Owns, Changed
        <3>4. UndoneBy(undo[t], n, r)'
            BY <1>1, <1>2, <3>2, <3>3 DEF UndoneBy, SameRow
        <3> QED
            BY <1>1, <3>1, <3>4
    <2> QED
        BY <1>1, <2>1, <2>2 DEF HeapOK, Undone
<1>7. \A e \in EntryType : (Kept(e)' <=> Kept(e)) /\ (Current(e)' <=> Current(e)) /\ (Present(e)' <=> Present(e))
    BY <1>1, <1>2, EntryFields DEF Kept, Current, Present
<1>8. \A e \in EntryType : Expected(e)' <=> Expected(e)
    BY <1>1, <1>7 DEF Expected, ExpectedBy, Due
<1>9. IndexOK'
    BY <1>0, <1>1, <1>7, <1>8 DEF IndexOK
<1>10. TaskOK'
    BY <1>0, <1>1, <1>7 DEF TaskOK, Task, Due
<1>11. ASSUME NEW t \in Txns PROVE Query(t)'
    <2>0. Query(t) /\ Owns(t) /\ t # None /\ got[t] \in Seq(Pairs) /\ entries[t] \in Seq(Pairs)
        BY <1>0, TableAssumption DEF GotOK, LockOK, TypeOK, QueryType
    <2>1. ASSUME NEW n \in DOMAIN got[t], got[t][n][2] \notin tainted PROVE GotOne(t, n)'
        <3>1. PICK r \in Rids : r = got[t][n][2]
            BY <2>0 DEF Pairs
        <3>2. GotOne(t, n) /\ HasRead(t, r)
            BY <2>0, <2>1, <3>1 DEF Query, Owns
        <3>3. SameRow(r)
            BY <1>2, <2>0, <3>2 DEF HasRead
        <3> QED
            BY <1>1, <3>1, <3>2, <3>3 DEF GotOne, SameRow
    <2>2. ASSUME NEW n \in DOMAIN entries[t], entries[t][n][2] \notin tainted PROVE EntryLeft(t, n)'
        <3>1. PICK r \in Rids : r = entries[t][n][2]
            BY <2>0 DEF Pairs
        <3>2. EntryLeft(t, n) /\ Leads(t, r)
            BY <2>0, <2>2, <3>1 DEF Query, Leads
        <3> QED
            BY <1>1, <3>1, <3>2 DEF EntryLeft
    <2> QED
        BY <1>1, <2>1, <2>2 DEF Query
<1>12. MustOK'
    <2> SUFFICES ASSUME NEW u \in Txns, cmd[u].kind = "select", NEW r \in must[u] \ tainted PROVE ToFind(u, r)'
        BY <1>0, <1>1 DEF MustOK, Lookup
    <2>1. ToFind(u, r) /\ r \in Rids
        BY <1>0 DEF MustOK, Lookup, TypeOK, QueryType
    <2> QED
        BY <1>1, <1>2, <2>1 DEF ToFind, RowKey, Finds, Changed, Sought
<1> QED
    BY <1>3, <1>5, <1>6, <1>9, <1>10, <1>11, <1>12 DEF GotOK

\* A database that has just started: nobody runs, and the indexes are rebuilt.
Started ==
    /\ btree = RebuiltTree /\ hmap = RebuiltMap /\ bucket = RebuiltBuckets /\ removed = RebuiltRemoved
    /\ \A r \in Rids : xlock[r] = None
    /\ \A t \in Txns : /\ pc[t] = "ready" /\ cmd[t] = NoCmd /\ cur[t] = None
                       /\ entries[t] = <<>> /\ got[t] = <<>> /\ work[t] = <<>> /\ undo[t] = <<>>
                       /\ abortActions[t] = <<>> /\ commitActions[t] = <<>>
    /\ \A r \in Rids \ tainted : Settled(r) /\ (r \in deleted => r \in allocated)
\* The invariant holds of such a database.
LEMMA StartedInv == TypeOK /\ Started => BucketOK /\ LockOK /\ HeapOK /\ IndexOK /\ TaskOK /\ GotOK /\ MustOK
<1> SUFFICES ASSUME TypeOK, Started PROVE BucketOK /\ LockOK /\ HeapOK /\ IndexOK /\ TaskOK /\ GotOK /\ MustOK
    OBVIOUS
<1>0. /\ committed \in [Rids -> Keys \cup {None}] /\ bucket \in [Buckets -> Seq(Rids)]
      /\ Keys \subseteq Buckets /\ None \notin Keys /\ None \notin Buckets
    BY TableAssumption DEF TypeOK, TableType, IndexType
<1>1. /\ \A b \in Keys, r \in Rids : (In(bucket[b], r) <=> committed[r] = b) /\ Once(bucket[b], r)
      /\ \A b \in Buckets \ Keys : bucket[b] = <<>>
    BY <1>0, RebuiltTypes DEF Started
<1>2. \A k \in Keys : hmap[k] # None <=> hmap[k] = k /\ RowsOf(k) # {}
    BY <1>0 DEF Started, RebuiltMap
<1>3. BucketOK
    <2>1. ASSUME NEW b \in removed PROVE bucket[b] = <<>>
        <3>1. CASE b \in Keys
            <4>1. \A r \in Rids : ~In(bucket[b], r)
                BY <1>1, <2>1, <3>1 DEF Started, RebuiltRemoved, RowsOf
            <4>2. bucket[b] \in Seq(Rids)
                BY <1>0, <3>1
            <4>3. \A n \in DOMAIN bucket[b] : bucket[b][n] \in Rids
                BY <4>2
            <4>4. DOMAIN bucket[b] = {}
                BY <4>1, <4>3 DEF In
            <4>5. Len(bucket[b]) = 0
                <5>1. Len(bucket[b]) \in Nat /\ DOMAIN bucket[b] = 1 .. Len(bucket[b])
                    BY <4>2
                <5>2. 1 \notin 1 .. Len(bucket[b])
                    BY <4>4, <5>1
                <5> QED
                    BY <5>1, <5>2
            <4> QED
                BY <4>2, <4>5, EmptySeq
        <3>2. CASE b \notin Keys
            BY <1>1, <2>1, <3>2 DEF Started, RebuiltRemoved
        <3> QED
            BY <3>1, <3>2
    <2>2. \A k \in Keys : hmap[k] # None => hmap[k] \notin removed
        BY <1>2 DEF Started, RebuiltRemoved
    <2>3. \A t \in Txns : Cursor(t)
        BY DEF Started, Cursor
    <2> QED
        BY <1>2, <2>1, <2>2, <2>3 DEF BucketOK
<1>4. \A t \in Txns, e \in EntryType : /\ ~Due(t, e) /\ Once(Todo(work[t]), e)
                                       /\ ~In(abortActions[t], e) /\ Once(abortActions[t], e)
                                       /\ ~In(commitActions[t], e) /\ Once(commitActions[t], e)
    BY TodoEmpty, InEmpty DEF Started, Due
<1>5. LockOK
    <2>1. \A t \in Txns : Changed(t) = {}
        BY DEF Changed, Started
    <2>2. \A t \in Txns : Owns(t)
        BY <1>4, <2>1 DEF Owns, Started
    <2> QED
        BY <2>2 DEF LockOK, Exclusive, Started
<1>6. HeapOK
    BY DEF HeapOK, Row, Undone, Started
<1>7. IndexOK
    <2>1. ASSUME NEW e \in EntryType PROVE Present(e) <=> Expected(e)
        <3>0. e.rid \in Rids /\ e.key \in Keys /\ e.key # None
            BY EntryFields
        <3>1. Expected(e) <=> committed[e.rid] = e.key
            BY <3>0 DEF Expected, Kept, Started
        <3>2. CASE e.index = "btree"
            BY <3>0, <3>1, <3>2 DEF Present, Started, RebuiltTree
        <3>3. CASE e.index # "btree"
            <4>1. committed[e.rid] = e.key => RowsOf(e.key) # {} /\ hmap[e.key] = e.key
                BY <3>0 DEF RowsOf, Started, RebuiltMap
            <4>2. Present(e) <=> hmap[e.key] # None /\ In(bucket[hmap[e.key]], e.rid)
                BY <3>3 DEF Present
            <4> QED
                BY <1>1, <1>2, <3>0, <3>1, <4>1, <4>2
        <3> QED
            BY <3>2, <3>3
    <2>2. \A k \in Keys, r \in Rids : hmap[k] # None => Once(bucket[hmap[k]], r)
        BY <1>1, <1>2
    <2> QED
        BY <2>1, <2>2 DEF IndexOK
<1>8. TaskOK
    BY <1>4, EntryFields, TableAssumption, ZenonT(60) DEF TaskOK, Task, Started
<1>9. GotOK
    BY DEF GotOK, Query, Started
<1>10. MustOK
    BY DEF MustOK, Lookup, Started, NoCmd
<1> QED
    BY <1>3, <1>5, <1>6, <1>7, <1>8, <1>9, <1>10

\* Recover.
LEMMA RecoverKeeps ==
    ASSUME Inv, TypeOK', Recover
    PROVE  (BucketOK /\ LockOK /\ HeapOK /\ IndexOK /\ TaskOK /\ GotOK /\ MustOK)'
<1>1. PICK lost \in SUBSET {r \in Rids : xlock[r] # None /\ committed[r] = None} :
        /\ allocated' = {r \in Rids : committed[r] # None \/ r \in allocated \ lost}
        /\ deleted' = {r \in Rids \ lost : /\ committed[r] = None
                                           /\ r \in allocated \/ (r \in deleted /\ xlock[r] = None)}
    BY DEF Recover
<1>2. Started'
    <2>1. committed' = committed
        BY DEF Recover
    <2>2. (btree = RebuiltTree /\ hmap = RebuiltMap /\ bucket = RebuiltBuckets /\ removed = RebuiltRemoved)'
        BY <2>1 DEF Recover, RebuiltTree, RebuiltMap, RebuiltBuckets, RebuiltRemoved, RowsOf
    <2>3. ASSUME NEW r \in Rids \ tainted' PROVE (Settled(r) /\ (r \in deleted => r \in allocated))'
        <3>1. tuple'[r] = IF committed[r] # None THEN committed[r] ELSE tuple[r]
            BY DEF Recover
        <3>2. r \in deleted' => r \in allocated'
            BY DEF Recover
        <3> QED
            BY <1>1, <2>1, <3>1, <3>2 DEF Settled, Live
    <2>4. \A t \in Txns : (/\ pc[t] = "ready" /\ cmd[t] = NoCmd /\ cur[t] = None
                           /\ entries[t] = <<>> /\ got[t] = <<>> /\ work[t] = <<>> /\ undo[t] = <<>>
                           /\ abortActions[t] = <<>> /\ commitActions[t] = <<>>)'
        BY DEF Recover, Each
    <2>5. \A r \in Rids : xlock'[r] = None
        BY DEF Recover
    <2> QED
        BY <2>2, <2>3, <2>4, <2>5 DEF Started
<1>3. (TypeOK /\ Started => BucketOK /\ LockOK /\ HeapOK /\ IndexOK /\ TaskOK /\ GotOK /\ MustOK)'
    BY StartedInv, PTL
<1> QED
    BY <1>2, <1>3
-----------------------------------------------------------------------------
(* The theorems *)

\* The invariant holds of a database that has just started.
LEMMA InitInv == Init => Inv
<1> SUFFICES ASSUME Init PROVE Inv
    OBVIOUS
<1>1. TypeOK /\ ControlOK
    BY InitTypes
<1>2. \A t \in Txns : /\ pc[t] = "ready" /\ cmd[t] = NoCmd /\ cur[t] = None
                      /\ entries[t] = <<>> /\ got[t] = <<>> /\ work[t] = <<>> /\ undo[t] = <<>>
                      /\ abortActions[t] = <<>> /\ commitActions[t] = <<>>
    BY DEF Init, Each
<1>3. \A r \in Rids \ tainted : Settled(r) /\ (r \in deleted => r \in allocated)
    BY DEF Init, Settled, Live
<1>4. Started
    BY <1>2, <1>3 DEF Started, Init
<1> QED
    BY <1>1, <1>4, StartedInv DEF Inv

\* A step that changes nothing.
LEMMA StutterInv ==
    ASSUME Inv, UNCHANGED vars
    PROVE  (BucketOK /\ LockOK /\ HeapOK /\ IndexOK /\ TaskOK /\ GotOK /\ MustOK)'
<1>0. TypeOK /\ BucketOK /\ LockOK /\ HeapOK /\ IndexOK /\ TaskOK /\ GotOK /\ MustOK
    BY DEF Inv
<1>1. UNCHANGED <<allocated, deleted, tuple, committed, xlock, slock, btree, hmap, bucket, removed, pc, cmd, entries,
                  got, must, gone, work, cur, abortActions, commitActions, undo, failed, tainted>>
    BY DEF vars, heapVars, lockVars, indexVars, hashVars, txnVars, queryVars, opVars, taskVars
<1>2. BucketOK'
    BY <1>0, <1>1, SameBuckets
<1>3. LockOK'
    BY <1>0, <1>1 DEF LockOK, Exclusive, Owns, Due, HasRead, Changed
<1>4. HeapOK'
    BY <1>0, <1>1 DEF HeapOK, Row, Altered, Settled, Live, Undone, UndoneBy, Changed
<1>5. IndexOK'
    BY <1>0, <1>1 DEF IndexOK, Present, Expected, ExpectedBy, Kept, Due
<1>6. TaskOK'
    BY <1>0, <1>1 DEF TaskOK, Task, Kept, Current, Live, Due
<1>7. GotOK'
    BY <1>0, <1>1 DEF GotOK, Query, GotOne, EntryLeft
<1>8. MustOK'
    <2> SUFFICES ASSUME NEW u \in Txns, cmd[u].kind = "select", NEW r \in must[u] \ tainted PROVE ToFind(u, r)'
        BY <1>0, <1>1 DEF MustOK, Lookup
    <2>1. ToFind(u, r)
        BY <1>0 DEF MustOK, Lookup
    <2> QED
        BY <1>1, <2>1 DEF ToFind, RowKey, Live, Finds, Changed, Sought
<1> QED
    BY <1>2, <1>3, <1>4, <1>5, <1>6, <1>7, <1>8

\* The invariant is inductive.
LEMMA InvStep == Inv /\ [Next]_vars => Inv'
<1> SUFFICES ASSUME Inv, [Next]_vars PROVE Inv'
    OBVIOUS
<1>1. (TypeOK /\ ControlOK)'
    BY TypeStep DEF Inv
<1> DEFINE Rest == BucketOK /\ LockOK /\ HeapOK /\ IndexOK /\ TaskOK /\ GotOK /\ MustOK
<1>2. ASSUME NEW t \in Txns, NEW c \in Commands, InsertTuple(t, c) \/ TreeLookup(t, c) \/ HashLookup(t, c)
      PROVE  Rest'
    BY <1>1, <1>2, InsertKeeps, TreeLookupKeeps, HashLookupKeeps
<1>3. ASSUME NEW t \in Txns, ScanBucket(t) \/ ReadEntry(t) \/ LockFails(t) \/ Return(t) PROVE Rest'
    BY <1>1, <1>3, ScanBucketKeeps, ReadEntryKeeps, LockFailsKeeps, ReturnKeeps
<1>4. ASSUME NEW t \in Txns, DeleteOne(t) \/ UpdateOne(t) PROVE Rest'
    BY <1>1, <1>4, DeleteKeeps, UpdateKeeps
<1>5. ASSUME NEW t \in Txns, HashLoad(t) \/ HashInsert(t) \/ HashRemove(t) \/ TreeWork(t) PROVE Rest'
    BY <1>1, <1>5, HashLoadKeeps, HashInsertKeeps, HashRemoveKeeps, TreeWorkKeeps
<1>6. ASSUME NEW t \in Txns, Commit(t) \/ LogCommit(t) \/ CommitFails(t) PROVE Rest'
    BY <1>1, <1>6, CommitKeeps, LogCommitKeeps, CommitFailsKeeps
<1>7. ASSUME NEW t \in Txns, Abort(t) \/ UndoOne(t) \/ EndAbort(t) PROVE Rest'
    BY <1>1, <1>7, AbortKeeps, UndoKeeps, EndAbortKeeps
<1>8. ASSUME NEW t \in Txns, HashPanic(t) PROVE Rest'
    BY <1>1, <1>8, RecoverKeeps DEF HashPanic
<1>9. ASSUME Crash PROVE Rest'
    BY <1>1, <1>9, RecoverKeeps DEF Crash
<1>10. ASSUME VacuumPage PROVE Rest'
    BY <1>10, VacuumKeeps
<1>11. ASSUME UNCHANGED vars PROVE Rest'
    BY <1>11, StutterInv
<1>12. Rest'
    <2> HIDE DEF Rest
    <2> QED
        BY <1>2, <1>3, <1>4, <1>5, <1>6, <1>7, <1>8, <1>9, <1>10, <1>11 DEF Next
<1> QED
    BY <1>1, <1>12 DEF Inv

\* The inductive invariant: types and control, the buckets of the hash index, locks, the
\* table and its log records, the indexes and the tasks, and what statements have read.
THEOREM TableInvariant == Spec => []Inv
<1>1. Init => Inv
    BY InitInv
<1>2. Inv /\ [Next]_vars => Inv'
    BY InvStep
<1> QED
    BY <1>1, <1>2, PTL DEF Spec

\* How often an index holds an entry, in terms of the invariant.
LEMMA HeldCount ==
    ASSUME TypeOK, IndexOK, NEW e \in EntryType, e.rid \notin tainted
    PROVE  /\ Expected(e) => Held(e.index, e.key, e.rid) = 1
           /\ ~Expected(e) => Held(e.index, e.key, e.rid) = 0
<1>0. /\ Present(e) <=> Expected(e)
      /\ e.key \in Keys /\ e.rid \in Rids
      /\ hmap[e.key] # None => Once(bucket[hmap[e.key]], e.rid)
    BY EntryFields DEF IndexOK
<1>1. CASE e.index = "btree"
    BY <1>0, <1>1 DEF Held, Present
<1>2. CASE e.index # "btree" /\ hmap[e.key] = None
    BY <1>0, <1>2 DEF Held, Present
<1>3. CASE e.index # "btree" /\ hmap[e.key] # None
    <2> DEFINE s == bucket[hmap[e.key]]
               at == {n \in DOMAIN s : s[n] = e.rid}
    <2>1. Held(e.index, e.key, e.rid) = Cardinality(at) /\ (Present(e) <=> In(s, e.rid)) /\ Once(s, e.rid)
        BY <1>0, <1>3 DEF Held, Present
    <2> HIDE DEF s
    <2>2. ASSUME Present(e) PROVE Cardinality(at) = 1
        <3>1. PICK n \in DOMAIN s : s[n] = e.rid
            BY <2>1, <2>2 DEF In
        <3>2. at = {n}
            BY <2>1, <3>1 DEF Once
        <3> QED
            BY <3>2, FS_Singleton
    <2>3. ASSUME ~Present(e) PROVE Cardinality(at) = 0
        <3>1. at = {}
            BY <2>1, <2>3 DEF In
        <3> QED
            BY <3>1, FS_EmptySet
    <2> HIDE DEF at
    <2> QED
        BY <1>0, <2>1, <2>2, <2>3
<1> QED
    BY <1>1, <1>2, <1>3

\* Both indexes agree with the table, whatever statements, commits, aborts, vacuums and
\* restarts are interleaved (deferred removal of DeleteEntry, undoing of InsertEntry, the
\* retry on removed buckets, rebuildIndexes).
THEOREM IndexesAgree == Spec => []IndexAgrees
<1>1. Inv => IndexAgrees
    <2> SUFFICES ASSUME Inv, NEW r \in Rids \ tainted, NEW k \in Keys, NEW i \in Indexes
                 PROVE  /\ committed[r] = k /\ ~Committing(r) => Held(i, k, r) = 1
                        /\ committed[r] # k /\ xlock[r] = None => Held(i, k, r) = 0
        BY DEF IndexAgrees
    <2>1. PICK e \in EntryType : e.index = i /\ e.key = k /\ e.rid = r
        BY EntryOf
    <2>2. /\ Expected(e) => Held(i, k, r) = 1
          /\ ~Expected(e) => Held(i, k, r) = 0
        BY <2>1, HeldCount DEF Inv
    <2>3. committed[r] = k /\ ~Committing(r) => Expected(e)
        BY <2>1 DEF Expected, ExpectedBy, Kept, Committing
    <2>4. committed[r] # k /\ xlock[r] = None => ~Expected(e)
        BY <2>1 DEF Expected, Kept
    <2> QED
        BY <2>2, <2>3, <2>4
<1> QED
    BY <1>1, TableInvariant, PTL

\* A lookup or scan that has read its last entry without an error has collected every row
\* it had to find (IndexLookupExecutor, IndexScanExecutor).
THEOREM LookupsComplete == Spec => []LookupComplete
<1>1. Inv => LookupComplete
    <2> SUFFICES ASSUME Inv, NEW t \in Txns, AtEnd(t), t \notin failed, cmd[t].kind = "select",
                        NEW r \in must[t] \ tainted
                 PROVE  r \in {got[t][n][2] : n \in DOMAIN got[t]}
        BY DEF LookupComplete
    <2>1. ToFind(t, r)
        BY DEF Inv, MustOK, Lookup
    <2>2. Finds(t, r) /\ entries[t] = <<>>
        BY <2>1 DEF ToFind, AtEnd
    <2> QED
        BY <2>2, InEmpty DEF Finds
<1> QED
    BY <1>1, TableInvariant, PTL

\* A collected tuple is a live row with the sought key, committed or the transaction's
\* own, and is collected once (ReadTuple and the two index executors).
THEOREM LookupsSound == Spec => []LookupSound
<1>1. Inv => LookupSound
    <2> SUFFICES ASSUME Inv, NEW t \in Txns, NEW n \in DOMAIN got[t], got[t][n][2] \notin tainted \cup gone[t]
                 PROVE  /\ Live(got[t][n][2]) /\ tuple[got[t][n][2]] = got[t][n][1]
                        /\ xlock[got[t][n][2]] = t \/ committed[got[t][n][2]] = tuple[got[t][n][2]]
                        /\ \A m \in DOMAIN got[t] : got[t][m][2] = got[t][n][2] => m = n
        BY DEF LookupSound
    <2>0. TypeOK /\ LockOK /\ HeapOK /\ Query(t) /\ Owns(t)
        BY DEF Inv, GotOK, LockOK
    <2>1. PICK r \in Rids : r = got[t][n][2]
        <3>1. got[t] \in Seq(Pairs)
            BY <2>0 DEF TypeOK, QueryType
        <3> QED
            BY <3>1 DEF Pairs
    <2>2. GotOne(t, n) /\ HasRead(t, r)
        BY <2>0, <2>1 DEF Query, Owns
    <2>3. Live(r)
        BY <2>1, <2>2 DEF GotOne, Live
    <2>4. xlock[r] = t \/ committed[r] = tuple[r]
        <3>1. CASE xlock[r] = None
            <4>1. Row(r) /\ ~Altered(r)
                BY <2>0, <2>1, <3>1 DEF HeapOK, Altered
            <4> QED
                BY <2>3, <4>1 DEF Row, Settled
        <3>2. CASE xlock[r] # None
            BY <2>0, <2>2, <3>2 DEF HasRead, LockOK, Exclusive
        <3> QED
            BY <3>1, <3>2
    <2> QED
        BY <2>1, <2>2, <2>3, <2>4 DEF GotOne
<1> QED
    BY <1>1, TableInvariant, PTL
=============================================================================
