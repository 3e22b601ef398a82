----------------------- MODULE DeadlockDetectorProofs -----------------------
(***************************************************************************)
(* Proofs about DeadlockDetector, for every set of transactions and every  *)
(* wait graph: up to its first victim, the search is a correct test for    *)
(* cycles.                                                                 *)
(***************************************************************************)
EXTENDS DeadlockDetector, TLAPS

(* An edge is a path. *)
LEMMA ReachEdge ==
    ASSUME NEW g \in [Tids -> SUBSET Tids], NEW a \in Tids, NEW b \in g[a]
    PROVE  Reaches(g, a, b)
BY DEF Reaches

(* A path followed by an edge is a path. *)
LEMMA ReachStep ==
    ASSUME NEW g \in [Tids -> SUBSET Tids], NEW a \in Tids, NEW b \in Tids, NEW c \in g[b],
           Reaches(g, a, b)
    PROVE  Reaches(g, a, c)
BY DEF Reaches, Closed

(* Two paths that meet are a path. *)
LEMMA ReachTrans ==
    ASSUME NEW g \in [Tids -> SUBSET Tids], NEW a \in Tids, NEW b \in Tids, NEW c \in Tids,
           Reaches(g, a, b), Reaches(g, b, c)
    PROVE  Reaches(g, a, c)
BY DEF Reaches, Closed

(* A node whose successors all lie in a closed set without it is on no cycle. *)
LEMMA OutsideClosed ==
    ASSUME NEW g \in [Tids -> SUBSET Tids], NEW a \in Tids, NEW S \in SUBSET Tids,
           g[a] \subseteq S, Closed(g, S), a \notin S
    PROVE  ~Reaches(g, a, a)
BY DEF Reaches

----------------------------------------------------------------------------
(* Every variable keeps its type, whatever graph the check starts from. *)
LEMMA TypeInit == Init => TypeOK
BY DEF Init, TypeOK, Graphs

(* A step of the search keeps the types. *)
LEMMA TypeNext == TypeOK /\ [Next]_vars => TypeOK'
<1> SUFFICES ASSUME TypeOK, [Next]_vars PROVE TypeOK'
    OBVIOUS
<1> USE DEF TypeOK
<1>1. ASSUME NEW v \in Tids, StartSearch(v) PROVE TypeOK'
    BY <1>1 DEF StartSearch, Visit
<1>2. stack # <<>> => Top \in Tids
    BY DEF Top
<1>3. ASSUME NEW v \in Tids, Descend(v) PROVE TypeOK'
    BY <1>2, <1>3 DEF Descend, LookAt, Visit
<1>4. ASSUME NEW v \in Tids, PassBy(v) PROVE TypeOK'
    BY <1>2, <1>4 DEF PassBy, LookAt
<1>5. ASSUME NEW v \in Tids, ReportCycle(v) PROVE TypeOK'
    BY <1>2, <1>5 DEF ReportCycle, LookAt
<1>6. CASE Return
    BY <1>2, <1>6 DEF Return
<1>7. ASSUME NEW v \in Tids, Resolve(v) PROVE TypeOK'
    BY <1>7 DEF Resolve
<1>8. CASE UNCHANGED vars
    BY <1>8 DEF vars
<1> QED
    BY <1>1, <1>3, <1>4, <1>5, <1>6, <1>7, <1>8 DEF Next, Search

(* Stack, marks, cycle and victims of findAnyCycle keep their types on     *)
(* every wait graph.                                                       *)
THEOREM TypeCorrect == Spec => []TypeOK
<1>1. Init => TypeOK
    BY TypeInit
<1>2. TypeOK /\ [Next]_vars => TypeOK'
    BY TypeNext
<1> QED
    BY <1>1, <1>2, PTL DEF Spec

----------------------------------------------------------------------------
(***************************************************************************)
(* The inductive invariant.  Until a cycle is reported, the code's marks   *)
(* are exactly the calls in progress, the calls form a path, and the       *)
(* finished nodes (visited and off the stack) are closed under edges and   *)
(* on no cycle.                                                            *)
(***************************************************************************)
Finished == visited \ Calls

Marks == onStack = Calls /\ Calls \subseteq visited

Path ==
    \A i, j \in DOMAIN stack : i < j => stack[i] # stack[j] /\ Reaches(graph, stack[i], stack[j])

FinishedClosed == Closed(graph, Finished) /\ \A v \in Finished : ~OnCycle(v)

Looked ==
    \A i \in DOMAIN stack : \A w \in graph[stack[i]] \ todo[stack[i]] :
        w \in Finished \/ (i < Len(stack) /\ w = stack[i + 1])

Todo == \A u \in Tids : todo[u] \subseteq graph[u] /\ (u \notin visited => todo[u] = graph[u])

Searching == Marks /\ Path /\ FinishedClosed /\ Looked /\ Todo

IInv ==
    /\ TypeOK
    /\ victims = <<>> /\ cycle = {} => Searching
    /\ victims = <<>> => \A v \in cycle : OnCycle(v)
    /\ cycle # {} => stack = <<>>
    /\ FirstVictimOnCycle

(* A search that has not begun satisfies the invariant. *)
LEMMA InvInit == Init => IInv
<1> SUFFICES ASSUME Init PROVE IInv
    OBVIOUS
<1>1. TypeOK
    BY TypeInit
<1>2. Calls = {} /\ Finished = {}
    BY DEF Init, Calls, Finished
<1>3. Searching
    BY <1>1, <1>2 DEF Init, Searching, Marks, Path, FinishedClosed, Closed, Looked, Todo, TypeOK, Graphs
<1> QED
    BY <1>1, <1>3 DEF Init, IInv, FirstVictimOnCycle

(* A call on an unvisited node that is a fresh root, or that the innermost *)
(* call has an edge to.                                                    *)
LEMMA VisitSearching ==
    ASSUME TypeOK, Searching, NEW v \in Tids, Visit(v), v \notin visited, UNCHANGED graph,
           \/ stack = <<>> /\ UNCHANGED todo
           \/ /\ stack # <<>>
              /\ v \in todo[Top]
              /\ todo' = [todo EXCEPT ![Top] = @ \ {v}]
    PROVE  Searching'
<1>14. \A k \in Nat : \A i \in 1..k : i = k \/ i < k
    OBVIOUS
<1> USE DEF TypeOK
<1> DEFINE n == Len(stack)
<1>1. n \in Nat /\ DOMAIN stack = 1..n /\ DOMAIN stack' = 1..(n + 1) /\ Len(stack') = n + 1
    BY DEF Visit
<1>2. stack'[n + 1] = v /\ \A i \in 1..n : stack'[i] = stack[i] /\ stack[i] \in Tids
    BY DEF Visit
<1>3. Calls' = Calls \union {v}
    BY <1>1, <1>2, SMTT(30) DEF Calls
<1>13. stack # <<>> => n \in 1..n /\ Top = stack[n] /\ Top \in Tids /\ Top \in Calls
    BY <1>1, <1>2 DEF Top, Calls
<1>4. Finished' = Finished
    BY <1>3 DEF Finished, Visit
<1>5. Marks'
    BY <1>3 DEF Marks, Visit, Searching
<1>6. \A i \in 1..n : stack[i] # v
    BY <1>1 DEF Searching, Marks, Calls
<1>7. graph \in [Tids -> SUBSET Tids]
    BY DEF Graphs
<1>8. \A i \in 1..n : Reaches(graph, stack[i], v)
    <2> SUFFICES ASSUME NEW i \in 1..n PROVE Reaches(graph, stack[i], v)
        OBVIOUS
    <2>1. stack # <<>> /\ Top = stack[n] /\ v \in graph[Top] /\ Top \in Tids /\ stack[i] \in Tids
        BY <1>1, <1>2, <1>13 DEF Searching, Todo
    <2>2. CASE i = n
        BY <2>1, <2>2, <1>7, ReachEdge
    <2>3. CASE i < n
        <3>1. Reaches(graph, stack[i], Top)
            BY <2>1, <2>3, <1>1, <1>13 DEF Searching, Path
        <3> QED
            BY <3>1, <2>1, <1>7, ReachStep
    <2> QED
        BY <1>1, <1>14, <2>2, <2>3
<1>9. Path'
    <2> SUFFICES ASSUME NEW i \in 1..(n + 1), NEW j \in 1..(n + 1), i < j
                 PROVE  stack'[i] # stack'[j] /\ Reaches(graph, stack'[i], stack'[j])
        BY <1>1 DEF Path
    <2>1. CASE j = n + 1
        BY <2>1, <1>1, <1>2, <1>6, <1>8
    <2>2. CASE j \in 1..n
        BY <2>2, <1>1, <1>2 DEF Searching, Path
    <2> QED
        BY <2>1, <2>2, <1>1
<1>10. FinishedClosed'
    BY <1>4 DEF Searching, FinishedClosed, OnCycle
<1>11. Todo'
    <2>1. CASE UNCHANGED todo
        BY <2>1 DEF Searching, Todo, Visit
    <2>2. CASE stack # <<>> /\ todo' = [todo EXCEPT ![Top] = @ \ {v}]
        <3>1. Top \in visited /\ Top \in Tids
            BY <2>2, <1>13 DEF Searching, Marks
        <3> QED
            BY <2>2, <3>1 DEF Searching, Todo, Visit
    <2> QED
        BY <2>1, <2>2
<1>12. Looked'
    <2> SUFFICES ASSUME NEW i \in 1..(n + 1), NEW w \in graph[stack'[i]] \ todo'[stack'[i]]
                 PROVE  w \in Finished \/ (i < n + 1 /\ w = stack'[i + 1])
        BY <1>1, <1>4 DEF Looked
    <2>1. CASE i = n + 1
        <3>1. todo'[v] = graph[v]
            <4>1. CASE UNCHANGED todo
                BY <4>1 DEF Searching, Todo
            <4>2. CASE stack # <<>> /\ todo' = [todo EXCEPT ![Top] = @ \ {v}]
                BY <4>2, <1>1, <1>6 DEF Top, Searching, Todo
            <4> QED
                BY <4>1, <4>2
        <3> QED
            BY <3>1, <2>1, <1>2
    <2>2. CASE i \in 1..n
        <3>1. stack # <<>> /\ Top = stack[n] /\ todo' = [todo EXCEPT ![Top] = @ \ {v}]
            BY <2>2, <1>1 DEF Top
        <3>2. CASE w \in graph[stack[i]] \ todo[stack[i]]
            <4>1. w \in Finished \/ (i < n /\ w = stack[i + 1])
                BY <3>2, <2>2, <1>1 DEF Searching, Looked
            <4> QED
                BY <4>1, <1>1, <1>2
        <3>3. CASE w \in todo[stack[i]]
            <4>1. stack[i] = Top /\ w = v
                BY <3>1, <3>3, <1>1, <1>2, <2>2
            <4>2. i = n
                <5>1. ~(i < n)
                    BY <4>1, <3>1, <2>2, <1>1, <1>13 DEF Searching, Path
                <5> QED
                    BY <5>1, <2>2, <1>1, <1>14
            <4> QED
                BY <4>1, <4>2, <1>1, <1>2
        <3> QED
            BY <3>2, <3>3, <2>2, <1>2
    <2> QED
        BY <2>1, <2>2, <1>1
<1> QED
    BY <1>5, <1>9, <1>10, <1>11, <1>12 DEF Searching

(* A neighbour that is visited and off the stack is finished. *)
LEMMA PassBySearching ==
    ASSUME TypeOK, Searching, NEW v \in Tids, PassBy(v)
    PROVE  Searching'
<1> USE DEF TypeOK
<1>1. UNCHANGED <<graph, visited, onStack, stack>> /\ stack # <<>>
    BY DEF PassBy, LookAt
<1>2. Calls' = Calls /\ Finished' = Finished
    BY <1>1 DEF Calls, Finished
<1>3. v \in Finished
    BY DEF PassBy, Searching, Marks, Finished
<1>4. Top \in Calls /\ Top \in visited
    BY <1>1 DEF Top, Calls, Searching, Marks
<1>5. todo' = [todo EXCEPT ![Top] = @ \ {v}]
    BY DEF PassBy, LookAt
<1>6. Todo'
    BY <1>1, <1>4, <1>5 DEF Searching, Todo
<1>7. Looked'
    <2> SUFFICES ASSUME NEW i \in DOMAIN stack, NEW w \in graph[stack[i]] \ todo'[stack[i]]
                 PROVE  w \in Finished \/ (i < Len(stack) /\ w = stack[i + 1])
        BY <1>1, <1>2 DEF Looked
    <2>1. CASE w \in todo[stack[i]]
        BY <2>1, <1>3, <1>5
    <2>2. CASE w \notin todo[stack[i]]
        BY <2>2 DEF Searching, Looked
    <2> QED
        BY <2>1, <2>2
<1> QED
    BY <1>1, <1>2, <1>6, <1>7 DEF Searching, Marks, Path, FinishedClosed, OnCycle

(* When a call returns, all its successors are finished, so it is on no    *)
(* cycle and joins them.                                                   *)
LEMMA ReturnSearching ==
    ASSUME TypeOK, Searching, Return
    PROVE  Searching'
<1>14. \A k \in Nat : /\ \A i \in 1..k : i = k \/ i \in 1..(k - 1)
                      /\ \A i \in 1..(k - 1) : i + 1 = k \/ i < k - 1
    OBVIOUS
<1> USE DEF TypeOK
<1> DEFINE n == Len(stack)
<1>1. n \in Nat /\ n > 0 /\ n \in 1..n /\ Top = stack[n] /\ Top \in Tids /\ DOMAIN stack = 1..n
    BY DEF Return, Top
<1>2. DOMAIN stack' = 1..(n - 1) /\ Len(stack') = n - 1 /\ \A i \in 1..(n - 1) : stack'[i] = stack[i] /\ i \in 1..n
    BY <1>1 DEF Return
<1>3. \A i \in 1..(n - 1) : stack[i] # Top
    BY <1>1, SMTT(30) DEF Searching, Path
<1>4. Calls' = Calls \ {Top}
    <2>1. Calls' = {stack[i] : i \in 1..(n - 1)}
        BY <1>2, SMTT(30) DEF Calls
    <2>2. Calls = {stack[i] : i \in 1..n}
        BY <1>1 DEF Calls
    <2>3. \A i \in 1..n : i = n \/ i \in 1..(n - 1)
        BY <1>1, <1>14
    <2> QED
        BY <2>1, <2>2, <2>3, <1>1, <1>2, <1>3
<1>5. Top \in Calls /\ Top \in visited /\ Top \notin Finished
    BY <1>1 DEF Calls, Searching, Marks, Finished
<1>6. Finished' = Finished \union {Top}
    BY <1>4, <1>5 DEF Finished, Return
<1>7. graph[Top] \subseteq Finished
    <2> SUFFICES ASSUME NEW w \in graph[Top] PROVE w \in Finished
        OBVIOUS
    <2>1. w \in graph[stack[n]] \ todo[stack[n]]
        BY <1>1 DEF Return
    <2>2. w \in Finished \/ (n < Len(stack) /\ w = stack[n + 1])
        BY <2>1, <1>1 DEF Searching, Looked
    <2> QED
        BY <2>2, <1>1
<1>8. Finished \in SUBSET Tids /\ graph \in [Tids -> SUBSET Tids]
    BY DEF Finished, Graphs
<1>9. ~Reaches(graph, Top, Top)
    BY <1>1, <1>5, <1>7, <1>8, OutsideClosed DEF Searching, FinishedClosed
<1>10. FinishedClosed'
    <2>1. graph' = graph
        BY DEF Return
    <2>2. Closed(graph, Finished')
        BY <1>6, <1>7 DEF Searching, FinishedClosed, Closed
    <2>3. \A v \in Finished' : ~Reaches(graph, v, v)
        BY <1>6, <1>9 DEF Searching, FinishedClosed, OnCycle
    <2> QED
        BY <2>1, <2>2, <2>3 DEF FinishedClosed, OnCycle
<1>11. Marks'
    BY <1>4, <1>5 DEF Return, Searching, Marks
<1>12. Path'
    BY <1>2, <1>1 DEF Return, Searching, Path
<1>13. Looked'
    <2>1. ASSUME NEW i \in 1..(n - 1), NEW w \in graph[stack[i]] \ todo[stack[i]]
          PROVE  w \in Finished' \/ (i < n - 1 /\ w = stack'[i + 1])
        <3>1. w \in Finished \/ (i < n /\ w = stack[i + 1])
            BY <1>1, <1>2 DEF Searching, Looked
        <3>2. CASE i + 1 = n
            BY <3>1, <3>2, <1>1, <1>6
        <3>3. CASE i < n - 1
            BY <3>1, <3>3, <1>1, <1>2, <1>6
        <3> QED
            BY <3>2, <3>3, <1>1, <1>14
    <2>2. graph' = graph /\ todo' = todo
        BY DEF Return
    <2> QED
        BY <2>1, <2>2, <1>2, ZenonT(60) DEF Looked
<1>15. Todo'
    BY DEF Return, Searching, Todo
<1> QED
    BY <1>10, <1>11, <1>12, <1>13, <1>15 DEF Searching

(* The reported path: its members are the calls from v to the innermost    *)
(* one, each of which reaches the innermost one and is reached from v.     *)
LEMMA ReportIsCycle ==
    ASSUME TypeOK, Searching, NEW v \in Tids, ReportCycle(v)
    PROVE  \A u \in cycle' : OnCycle(u)
<1>14. \A k \in Nat : \A i \in 1..k : i = k \/ i < k
    OBVIOUS
<1> USE DEF TypeOK
<1> DEFINE n == Len(stack)
<1>1. n \in Nat /\ n \in 1..n /\ Top = stack[n] /\ Top \in Tids /\ DOMAIN stack = 1..n
    BY DEF ReportCycle, LookAt, Top
<1>2. v \in Calls /\ v \in graph[Top]
    BY <1>1 DEF ReportCycle, LookAt, Searching, Marks, Todo
<1>3. PICK p \in 1..n : stack[p] = v
    BY <1>1, <1>2 DEF Calls
<1>4. graph \in [Tids -> SUBSET Tids]
    BY DEF Graphs
<1>5. \A i, j \in 1..n : i < j => Reaches(graph, stack[i], stack[j])
    BY <1>1 DEF Searching, Path
<1>6. \A i \in 1..n : Reaches(graph, stack[i], v)
    <2> SUFFICES ASSUME NEW i \in 1..n PROVE Reaches(graph, stack[i], v)
        OBVIOUS
    <2>1. stack[i] \in Tids
        OBVIOUS
    <2>2. CASE i = n
        BY <2>2, <1>1, <1>2, <1>4, ReachEdge
    <2>3. CASE i < n
        BY <2>1, <2>3, <1>1, <1>2, <1>4, <1>5, ReachStep
    <2> QED
        BY <2>2, <2>3, <1>1, <1>14
<1> SUFFICES ASSUME NEW u \in cycle' PROVE OnCycle(u)
    OBVIOUS
<1>7. PICK k \in 1..n : stack[k] = u /\ p <= k
    <2>1. u = v \/ \E k \in 1..n : u = stack[k] /\ \E j \in 1..k : stack[j] = v
        BY <1>1, <1>2 DEF ReportCycle
    <2>2. \A k \in 1..n : \A j \in 1..k : stack[j] = v => j = p
        <3>1. \A i, j \in 1..n : stack[i] = stack[j] => i = j
            BY <1>1 DEF Searching, Path
        <3>2. \A k \in 1..n : \A j \in 1..k : j \in 1..n
            BY <1>1
        <3> QED
            BY <1>3, <3>1, <3>2
    <2>3. CASE u = v
        BY <2>3, <1>3
    <2>4. CASE \E k \in 1..n : u = stack[k] /\ \E j \in 1..k : stack[j] = v
        <3>1. PICK k \in 1..n : u = stack[k] /\ \E j \in 1..k : stack[j] = v
            BY <2>4
        <3>2. p \in 1..k
            BY <3>1, <2>2
        <3> QED
            BY <3>1, <3>2
    <2> QED
        BY <2>1, <2>3, <2>4
<1>8. u \in Tids
    BY <1>7
<1>9. Reaches(graph, u, v)
    BY <1>6, <1>7
<1>10. CASE u = v
    BY <1>9, <1>10 DEF OnCycle
<1>11. CASE u # v
    <2>1. p < k
        BY <1>3, <1>7, <1>11, <1>1
    <2>2. Reaches(graph, v, u)
        BY <2>1, <1>3, <1>5, <1>7
    <2> QED
        BY <2>2, <1>4, <1>8, <1>9, ReachTrans DEF OnCycle
<1> QED
    BY <1>10, <1>11

----------------------------------------------------------------------------
(* Every step of the search keeps the invariant. *)
LEMMA InvNext == IInv /\ [Next]_vars => IInv'
<1> SUFFICES ASSUME IInv, [Next]_vars PROVE IInv'
    OBVIOUS
<1>1. TypeOK /\ TypeOK'
    BY TypeNext DEF IInv
<1>2. ASSUME NEW v \in Tids, StartSearch(v) PROVE IInv'
    <2>1. victims = <<>> => Searching'
        BY <1>1, <1>2, VisitSearching DEF StartSearch, IInv
    <2> QED
        BY <1>1, <1>2, <2>1 DEF StartSearch, IInv, FirstVictimOnCycle, OnCycle
<1>3. ASSUME NEW v \in Tids, Descend(v) PROVE IInv'
    <2>1. cycle = {}
        BY <1>3 DEF Descend, LookAt, IInv
    <2>2. victims = <<>> => Searching'
        BY <1>1, <1>3, <2>1, VisitSearching DEF Descend, LookAt, IInv
    <2> QED
        BY <1>1, <1>3, <2>1, <2>2 DEF Descend, IInv, FirstVictimOnCycle, OnCycle
<1>4. ASSUME NEW v \in Tids, PassBy(v) PROVE IInv'
    <2>1. cycle = {}
        BY <1>4 DEF PassBy, LookAt, IInv
    <2>2. victims = <<>> => Searching'
        BY <1>1, <1>4, <2>1, PassBySearching DEF IInv
    <2> QED
        BY <1>1, <1>4, <2>1, <2>2 DEF PassBy, IInv, FirstVictimOnCycle, OnCycle
<1>5. ASSUME NEW v \in Tids, ReportCycle(v) PROVE IInv'
    <2>1. cycle = {}
        BY <1>5 DEF ReportCycle, LookAt, IInv
    <2>2. victims = <<>> => \A u \in cycle' : OnCycle(u)
        BY <1>1, <1>5, <2>1, ReportIsCycle DEF IInv
    <2>3. v \in cycle' /\ stack' = <<>> /\ UNCHANGED <<graph, victims>>
        BY <1>5 DEF ReportCycle
    <2> QED
        BY <1>1, <2>2, <2>3 DEF IInv, FirstVictimOnCycle, OnCycle
<1>6. CASE Return
    <2>1. cycle = {}
        BY <1>6 DEF Return, IInv
    <2>2. victims = <<>> => Searching'
        BY <1>1, <1>6, <2>1, ReturnSearching DEF IInv
    <2> QED
        BY <1>1, <1>6, <2>1, <2>2 DEF Return, IInv, FirstVictimOnCycle, OnCycle
<1>7. ASSUME NEW v \in Tids, Resolve(v) PROVE IInv'
    <2>1. v \in cycle /\ UNCHANGED <<graph, stack>> /\ cycle' = {} /\ victims' = Append(victims, v)
        BY <1>7 DEF Resolve, IsVictim
    <2>2. victims' # <<>>
        BY <2>1, <1>1 DEF TypeOK
    <2>3. victims = <<>> => victims'[1] = v /\ OnCycle(v)
        BY <2>1 DEF IInv
    <2>4. victims # <<>> => victims'[1] = victims[1]
        BY <2>1, <1>1 DEF TypeOK
    <2> QED
        BY <1>1, <2>1, <2>2, <2>3, <2>4 DEF IInv, FirstVictimOnCycle, OnCycle
<1>8. CASE UNCHANGED vars
    <2>1. UNCHANGED <<graph, todo, visited, onStack, stack, cycle, victims>>
        BY <1>8 DEF vars
    <2> QED
        BY <1>1, <2>1 DEF IInv, FirstVictimOnCycle, OnCycle, Searching, Marks, Path,
                          FinishedClosed, Finished, Looked, Todo, Calls
<1> QED
    BY <1>2, <1>3, <1>4, <1>5, <1>6, <1>7, <1>8 DEF Next, Search

(* The first transaction a check aborts is on a cycle of the wait graph it *)
(* was given: no deadlock, no victim.                                      *)
THEOREM FirstVictim == Spec => []FirstVictimOnCycle
<1>1. IInv => FirstVictimOnCycle
    BY DEF IInv
<1> QED
    BY <1>1, InvInit, InvNext, PTL DEF Spec

(* A check that aborts nobody has been given a graph without a cycle: a    *)
(* deadlock that is in the graph never goes by without any victim.         *)
THEOREM NoVictimNoCycle == Spec => []NoVictimMeansNoCycle
<1>1. ASSUME IInv PROVE NoVictimMeansNoCycle
    <2> SUFFICES ASSUME Idle, victims = <<>>, NEW v \in Tids PROVE ~OnCycle(v)
        BY DEF NoVictimMeansNoCycle
    <2>1. Searching /\ stack = <<>>
        BY <1>1 DEF IInv, Idle
    <2>2. Finished = visited
        BY <2>1 DEF Finished, Calls
    <2>3. CASE v \in visited
        BY <2>1, <2>2, <2>3 DEF Searching, FinishedClosed
    <2>4. CASE v \notin visited
        <3>1. graph[v] = {}
            BY <2>4 DEF Idle
        <3>2. graph \in [Tids -> SUBSET Tids]
            BY <1>1 DEF IInv, TypeOK, Graphs
        <3> QED
            BY <3>1, <3>2, OutsideClosed DEF OnCycle, Closed
    <2> QED
        BY <2>3, <2>4
<1>2. IInv => NoVictimMeansNoCycle
    BY <1>1
<1> QED
    BY <1>2, InvInit, InvNext, PTL DEF Spec

============================================================================
