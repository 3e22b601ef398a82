-------------------------- MODULE DeadlockDetector --------------------------
(***************************************************************************)
(* runGlobalDeadlockCheck of transaction/lock.go: a depth-first search of  *)
(* a snapshot of the wait graph.  The recursion of findAnyCycle is kept as *)
(* an explicit stack of the calls in progress; one step looks at one       *)
(* neighbour.  Go iterates maps in any order, so roots and neighbours are  *)
(* taken in any order.                                                     *)
(*                                                                         *)
(* When a cycle is found, every call in progress returns without reaching  *)
(* its "onStack[u] = false": what it marked stays marked for the searches  *)
(* that follow in the same check.                                          *)
(***************************************************************************)
EXTENDS Naturals, Sequences

CONSTANT Tids       \* transaction ids; the code starts them at 1

ASSUME TidsAreNumbers == Tids \subseteq Nat \ {0}

VARIABLES
    graph,     \* the snapshot: graph[u] is the set u waits for
    todo,      \* todo[u]: neighbours findAnyCycle(u) still has to look at
    visited,   \* nodes findAnyCycle has been called on
    onStack,   \* nodes the code has marked as being on its stack
    stack,     \* the calls of findAnyCycle in progress, innermost last
    cycle,     \* a cycle that has been reported and not yet resolved
    victims    \* history: the victims given to resolveCycle, in order

vars == <<graph, todo, visited, onStack, stack, cycle, victims>>

Calls == {stack[i] : i \in DOMAIN stack}
Top == stack[Len(stack)]

(* The snapshot taken under graphMu; a transaction never waits for itself *)
Graphs == {g \in [Tids -> SUBSET Tids] : \A u \in Tids : u \notin g[u]}

(* A check of snapshot g starts with nothing visited *)
Begin(g) ==
    /\ graph' = g
    /\ todo' = g
    /\ visited' = {}
    /\ onStack' = {}
    /\ stack' = <<>>
    /\ cycle' = {}

Init_SelfEdges ==
    /\ graph \in [Tids -> SUBSET Tids]
    /\ todo = graph
    /\ visited = {} /\ onStack = {} /\ stack = <<>> /\ cycle = {} /\ victims = <<>>

Init ==
    /\ graph \in Graphs
    /\ todo = graph
    /\ visited = {}
    /\ onStack = {}
    /\ stack = <<>>
    /\ cycle = {}
    /\ victims = <<>>

(* findAnyCycle(u) is called *)
Visit(u) ==
    /\ visited' = visited \union {u}
    /\ onStack' = onStack \union {u}
    /\ stack' = Append(stack, u)

(* The outer loop starts a search at a waiter that has not been visited *)
StartSearch(u) ==
    /\ stack = <<>> /\ cycle = {}
    /\ u \notin visited
    /\ graph[u] # {}
    /\ Visit(u)
    /\ UNCHANGED <<graph, todo, cycle, victims>>

LookAt(v) ==
    /\ stack # <<>>
    /\ v \in todo[Top]
    /\ todo' = [todo EXCEPT ![Top] = @ \ {v}]

(* "if !visited[v]": the search goes deeper *)
Descend(v) ==
    /\ LookAt(v)
    /\ v \notin onStack
    /\ v \notin visited
    /\ Visit(v)
    /\ UNCHANGED <<graph, cycle, victims>>

(* Visited and off the stack: the next neighbour *)
PassBy_VisitedFirst(v) ==
    /\ LookAt(v)
    /\ v \in visited
    /\ UNCHANGED <<graph, visited, onStack, stack, cycle, victims>>

PassBy(v) ==
    /\ LookAt(v)
    /\ v \notin onStack
    /\ v \in visited
    /\ UNCHANGED <<graph, visited, onStack, stack, cycle, victims>>

(***************************************************************************)
(* "if onStack[v]": the calls return one after the other, each adding      *)
(* itself to the path, until the path reaches its start v.  If v is not    *)
(* one of the calls in progress, all of them are added.                    *)
(***************************************************************************)
ReportCycle_WholeStack(v) ==
    /\ LookAt(v)
    /\ v \in onStack
    /\ cycle' = {v} \union Calls
    /\ stack' = <<>>
    /\ UNCHANGED <<graph, visited, onStack, victims>>

ReportCycle(v) ==
    /\ LookAt(v)
    /\ v \in onStack
    /\ cycle' = {v} \union {stack[i] : i \in {k \in DOMAIN stack : v \in Calls => \E j \in 1..k : stack[j] = v}}
    /\ stack' = <<>>
    /\ UNCHANGED <<graph, visited, onStack, victims>>

(* All neighbours looked at: "onStack[u] = false; return nil" *)
Return ==
    /\ stack # <<>>
    /\ todo[Top] = {}
    /\ onStack' = onStack \ {Top}
    /\ stack' = SubSeq(stack, 1, Len(stack) - 1)
    /\ UNCHANGED <<graph, todo, visited, cycle, victims>>

(* resolveCycle sorts the cycle and takes the highest id *)
IsVictim(v) == v \in cycle /\ \A u \in cycle : u <= v

Resolve(v) ==
    /\ IsVictim(v)
    /\ cycle' = {}
    /\ victims' = Append(victims, v)
    /\ UNCHANGED <<graph, todo, visited, onStack, stack>>

(* The outer loop has nothing left to start from *)
Idle == stack = <<>> /\ cycle = {} /\ \A u \in Tids : graph[u] # {} => u \in visited

Search(v) == StartSearch(v) \/ Descend(v) \/ PassBy(v) \/ ReportCycle(v)

Next ==
    \/ \E v \in Tids : Search(v) \/ Resolve(v)
    \/ Return
    \/ Idle /\ UNCHANGED vars

Spec == Init /\ [][Next]_vars

----------------------------------------------------------------------------
(* Properties *)

(* Every variable has its type. *)
TypeOK ==
    /\ graph \in Graphs
    /\ todo \in [Tids -> SUBSET Tids]
    /\ visited \in SUBSET Tids
    /\ onStack \in SUBSET Tids
    /\ stack \in Seq(Tids)
    /\ cycle \in SUBSET Tids
    /\ victims \in Seq(Tids)

(* b can be reached from a by one or more edges of g: b is in every set    *)
(* that has a's successors and the successors of its members.              *)
Closed(g, S) == \A u \in S : g[u] \subseteq S

Reaches(g, a, b) == \A S \in SUBSET Tids : g[a] \subseteq S /\ Closed(g, S) => b \in S

OnCycle(v) == Reaches(graph, v, v)

(* The first victim of a check is on a cycle of the snapshot: the detector *)
(* aborts nobody when there is no deadlock (lock.go, findAnyCycle).        *)
FirstVictimOnCycle == victims # <<>> => OnCycle(victims[1])

(* A check that ends without a victim has looked at an acyclic graph: the  *)
(* detector misses no deadlock altogether, however the stack was unwound   *)
(* and whichever nodes were skipped as visited.                            *)
NoVictimMeansNoCycle == Idle /\ victims = <<>> => \A v \in Tids : ~OnCycle(v)

============================================================================
