---------------------------- MODULE LockManager ----------------------------
(***************************************************************************)
(* The lock manager of GoDB (transaction/lock.go) together with its only   *)
(* production client, the lock calls of a transaction context              *)
(* (transaction/transaction_context.go).                                   *)
(*                                                                         *)
(* Every critical section under a lock control block's mutex is one step;  *)
(* everything the code does between two critical sections is another step, *)
(* so that timers, the deadlock detector and other transactions interleave *)
(* wherever the mutexes let them.  A transaction is a sequential caller,   *)
(* so it has at most one request waiting: req[t] is that request and       *)
(* calls[t] its identity (the LockRequest pointer of the code).            *)
(*                                                                         *)
(* The deadlock detector appears here only through what it may ask for:    *)
(* resolveCycle with some waiting victim.  LockSystem replaces that choice *)
(* by the detector's own search, and implements this module.               *)
(*                                                                         *)
(* Left out: the back-off sleeps and their doubling (they only delay a     *)
(* call) and LockHeld (it reads the holder map and changes nothing).       *)
(***************************************************************************)
EXTENDS Integers, Sequences, FiniteSets

CONSTANTS
    Txns,         \* transaction ids
    Tags,         \* lockable resources
    TableTags,    \* the tags that stand for whole tables
    Requests,     \* workload: <<transaction, tag, mode>> it may ask for
    MaxCalls,     \* bound: lock-manager calls of one transaction
    MaxResolving  \* bound: resolveCycle calls in flight at once

Modes == {"S", "X", "IS", "IX", "SIX"}
NoMode == "free"
NoRequest == [tag |-> CHOOSE tag \in Tags : TRUE, mode |-> NoMode]

ASSUME LockConstants ==
    /\ TableTags \subseteq Tags /\ Tags # {}
    /\ Requests \subseteq Txns \X Tags \X Modes
    /\ MaxCalls \in Nat \ {0}
    /\ MaxResolving \in Nat \ {0}

VARIABLES
    holders,       \* holders[tag][t]: mode t holds on tag, or NoMode
    waiters,       \* waiters[tag]: FIFO queue of the transactions waiting
    lockCount,     \* TCB.lockCount
    waitingOn,     \* TCB.waitingOn: identity of the pending request, 0 = nil
    txnRegistry,   \* transactions that have a control block
    lockRegistry,  \* tags that have a control block
    waitGraph,     \* waitGraph[waiter][holder]: multiplicity of the edge
    waitCh,        \* the one-slot channel of the pending request
    pc,            \* where the transaction's goroutine is
    req,           \* the request that waits for its answer, or NoRequest
    calls,         \* identity of the last request
    heldLocks,     \* TransactionContext.heldLocks
    timers,        \* armed 400 ms timers <<transaction, identity>>
    resolving      \* resolveCycle calls past their load of waitingOn

tableVars == <<holders, waiters, lockCount, waitingOn, txnRegistry, lockRegistry, waitGraph, waitCh>>
clientVars == <<pc, req, calls, heldLocks>>
vars == <<tableVars, clientVars, timers, resolving>>

----------------------------------------------------------------------------
(* Lock modes *)

(* lm.compatibility, row by row *)
Compatible(m1, m2) ==
    \/ m1 = "IS"  /\ m2 \in {"IS", "IX", "S", "SIX"}
    \/ m1 = "IX"  /\ m2 \in {"IS", "IX"}
    \/ m1 = "S"   /\ m2 \in {"IS", "S"}
    \/ m1 = "SIX" /\ m2 = "IS"

(* lm.coverage *)
Rank(m) ==
    CASE m = "X"   -> 0
      [] m = "SIX" -> 1
      [] m = "S"   -> 2
      [] m = "IX"  -> 2
      [] m = "IS"  -> 3

(* Does m1 grant at least what m2 grants?  S and IX are incomparable. *)
IsLockModeCovered(m1, m2) == {m1, m2} # {"S", "IX"} /\ Rank(m1) <= Rank(m2)

Covers(held, mode) == held # NoMode /\ IsLockModeCovered(held, mode)

Conflict(mode, held) == held # NoMode /\ ~Compatible(mode, held)

(* hold: the holder map of one control block *)
IsLockModeCompatible(t, mode, hold) ==
    \A h \in Txns \ {t} : ~Conflict(mode, hold[h])

(* The mode AcquireLock asks for, given the mode the context already has *)
RequestedMode_NoSIX(held, mode) == mode

RequestedMode(held, mode) == IF {held, mode} = {"S", "IX"} THEN "SIX" ELSE mode

(* The hold of a transaction once its request for mode is granted *)
Granted(held, mode) == IF Covers(held, mode) THEN held ELSE mode

----------------------------------------------------------------------------
(* The grant sweep *)

Bit(b) == IF b THEN 1 ELSE 0

(* What a grant adds to lockCount: an upgrade adds nothing *)
Counted_EveryGrant(held) == 1

Counted(held) == Bit(held = NoMode)

Members(q) == {q[i] : i \in DOMAIN q}

(* q without its element at position p *)
DeleteAt_OffByOne(q, p) == [i \in 1..(Len(q) - 1) |-> IF i <= p THEN q[i] ELSE q[i + 1]]

DeleteAt(q, p) == [i \in 1..(Len(q) - 1) |-> IF i < p THEN q[i] ELSE q[i + 1]]

(* The holder map after the first k waiters of q have been granted *)
HoldAfter(hold, q, k) ==
    [t \in Txns |-> IF t \in {q[i] : i \in 1..k} THEN Granted(hold[t], req[t].mode) ELSE hold[t]]

(* Waiter i can be granted once everyone before it has been *)
Grantable_AgainstOldHolders(hold, q, i) ==
    Covers(hold[q[i]], req[q[i]].mode) \/ IsLockModeCompatible(q[i], req[q[i]].mode, hold)

Grantable(hold, q, i) ==
    LET h == HoldAfter(hold, q, i - 1) IN
    Covers(h[q[i]], req[q[i]].mode) \/ IsLockModeCompatible(q[i], req[q[i]].mode, h)

(* The sweep grants n waiters and stops at the first it cannot grant *)
SweepStopsAt_FirstOnly(hold, q, n) == n = Bit(q # <<>> /\ Grantable(hold, q, 1))

SweepStopsAt(hold, q, n) ==
    /\ \A i \in 1..n : Grantable(hold, q, i)
    /\ n < Len(q) => ~Grantable(hold, q, n + 1)

(***************************************************************************)
(* wakeUpCompatibleWaiters, on the values its caller has reached: the      *)
(* control block of tag with holder map hold and queue q, the wait graph   *)
(* g, and the lockCount, waitingOn and waitCh values of all transactions.  *)
(***************************************************************************)
WakeUpCompatibleWaiters(tag, hold, q, g, count, waitOn, ch) ==
    \E n \in 0..Len(q) :
        LET woken == {q[i] : i \in 1..n} IN
        /\ SweepStopsAt(hold, q, n)
        /\ holders' = [holders EXCEPT ![tag] = HoldAfter(hold, q, n)]
        /\ waiters' = [waiters EXCEPT ![tag] = SubSeq(q, n + 1, Len(q))]
        /\ lockCount' = [t \in Txns |-> IF t \in woken THEN count[t] + Counted(hold[t]) ELSE count[t]]
        /\ waitingOn' = [t \in Txns |-> IF t \in woken THEN 0 ELSE waitOn[t]]
        /\ waitGraph' = [t \in DOMAIN g \ woken |-> g[t]]
        /\ waitCh' = [t \in Txns |-> IF t \in woken THEN "granted" ELSE ch[t]]

----------------------------------------------------------------------------
(* AcquireLock and Lock *)

Init ==
    /\ holders = [tag \in Tags |-> [t \in Txns |-> NoMode]]
    /\ waiters = [tag \in Tags |-> <<>>]
    /\ lockCount = [t \in Txns |-> 0]
    /\ waitingOn = [t \in Txns |-> 0]
    /\ txnRegistry = {}
    /\ lockRegistry = {}
    /\ waitGraph = [t \in {} |-> [h \in Txns |-> 0]]
    /\ waitCh = [t \in Txns |-> "empty"]
    /\ pc = [t \in Txns |-> "running"]
    /\ req = [t \in Txns |-> NoRequest]
    /\ calls = [t \in Txns |-> 0]
    /\ heldLocks = [t \in Txns |-> [tag \in Tags |-> NoMode]]
    /\ timers = {}
    /\ resolving = {}

(***************************************************************************)
(* AcquireLock of a mode the context does not already cover (a covered one *)
(* returns without calling the lock manager and changes nothing): the call *)
(* reaches lock() with the mode m.                                         *)
(***************************************************************************)
CallLock(t, tag, mode, m) ==
    /\ pc[t] = "running"
    /\ calls[t] < MaxCalls
    /\ ~Covers(heldLocks[t][tag], mode)
    /\ m = RequestedMode(heldLocks[t][tag], mode)
    /\ calls' = [calls EXCEPT ![t] = @ + 1]
    /\ txnRegistry' = txnRegistry \union {t}
    /\ lockRegistry' = lockRegistry \union {tag}
    /\ UNCHANGED <<timers, resolving>>

CanGrantNow_Barging(t, tag, m) ==
    Covers(holders[tag][t], m) \/ IsLockModeCompatible(t, m, holders[tag])

CanGrantNow(t, tag, m) ==
    \/ Covers(holders[tag][t], m)
    \/ waiters[tag] = <<>> /\ IsLockModeCompatible(t, m, holders[tag])

(* lock(): covered, or nobody waits and no other holder conflicts *)
LockNow(t, tag, mode) ==
    \E m \in Modes :
        /\ CallLock(t, tag, mode, m)
        /\ CanGrantNow(t, tag, m)
        /\ holders' = [holders EXCEPT ![tag][t] = Granted(@, m)]
        /\ lockCount' = [lockCount EXCEPT ![t] = @ + Counted(holders[tag][t])]
        /\ heldLocks' = [heldLocks EXCEPT ![t][tag] = m]
        /\ UNCHANGED <<waiters, waitingOn, waitGraph, waitCh, pc, req>>

(* The edges lock() adds for a new waiter, to holders and earlier waiters *)
NewEdges_HoldersOnly(t, tag, m) == [h \in Txns |-> Bit(h # t /\ Conflict(m, holders[tag][h]))]

NewEdges(t, tag, m) ==
    [h \in Txns |-> Bit(h # t /\ Conflict(m, holders[tag][h]))
                    + Bit(h \in Members(waiters[tag]) /\ ~Compatible(m, req[h].mode))]

EdgesOf(t) == IF t \in DOMAIN waitGraph THEN waitGraph[t] ELSE [h \in Txns |-> 0]

(* lock(): queue up behind the others and enter the wait graph *)
LockEnqueue(t, tag, mode) ==
    \E m \in Modes :
        /\ CallLock(t, tag, mode, m)
        /\ ~CanGrantNow(t, tag, m)
        /\ req' = [req EXCEPT ![t] = [tag |-> tag, mode |-> m]]
        /\ waiters' = [waiters EXCEPT ![tag] = Append(@, t)]
        /\ waitingOn' = [waitingOn EXCEPT ![t] = calls[t] + 1]
        /\ waitGraph' = [u \in DOMAIN waitGraph \union {t} |->
                            IF u = t THEN [h \in Txns |-> EdgesOf(t)[h] + NewEdges(t, tag, m)[h]]
                                     ELSE waitGraph[u]]
        /\ pc' = [pc EXCEPT ![t] = "enqueued"]
        /\ UNCHANGED <<holders, lockCount, waitCh, heldLocks>>

(* After the mutex: arm the 400 ms timer, then block on the channel *)
ArmTimer_NoTimer(t) ==
    /\ pc[t] = "enqueued"
    /\ pc' = [pc EXCEPT ![t] = "blocked"]
    /\ UNCHANGED <<tableVars, req, calls, heldLocks, timers, resolving>>

ArmTimer(t) ==
    /\ pc[t] = "enqueued"
    /\ pc' = [pc EXCEPT ![t] = "blocked"]
    /\ timers' = timers \union {<<t, calls[t]>>}
    /\ UNCHANGED <<tableVars, req, calls, heldLocks, resolving>>

(* The answer arrives; Lock and AcquireLock return to the executor *)
LockReturns(t) ==
    /\ pc[t] = "blocked"
    /\ waitCh[t] # "empty"
    /\ waitCh' = [waitCh EXCEPT ![t] = "empty"]
    /\ pc' = [pc EXCEPT ![t] = "running"]
    /\ req' = [req EXCEPT ![t] = NoRequest]
    /\ heldLocks' = IF waitCh[t] = "granted"
                    THEN [heldLocks EXCEPT ![t][req[t].tag] = req[t].mode]
                    ELSE heldLocks
    /\ txnRegistry' = IF lockCount[t] = 0 /\ waitingOn[t] = 0 THEN txnRegistry \ {t} ELSE txnRegistry
    /\ UNCHANGED <<holders, waiters, lockCount, waitingOn, lockRegistry, waitGraph, calls, timers,
                   resolving>>

----------------------------------------------------------------------------
(* ReleaseAllLocks and Unlock *)

(* ReleaseAllLocks goes on while the map has entries; then Reset gives the *)
(* context a new id, and the old one is never used again.                  *)
AfterRelease(held) == IF \A tag \in Tags : held[tag] = NoMode THEN "done" ELSE "releasing"

(* Commit or Abort reaches ReleaseAllLocks *)
EndTransaction(t) ==
    /\ pc[t] = "running"
    /\ pc' = [pc EXCEPT ![t] = AfterRelease(heldLocks[t])]
    /\ UNCHANGED <<tableVars, req, calls, heldLocks, timers, resolving>>

HasTupleLocks(t) == \E tag \in Tags \ TableTags : heldLocks[t][tag] # NoMode

(* unlock() takes the edges from tag's waiters to its holder t away *)
EdgesAfterUnlock(t, tag) ==
    [w \in DOMAIN waitGraph |->
        IF w \in Members(waiters[tag]) /\ ~Compatible(req[w].mode, holders[tag][t])
        THEN [waitGraph[w] EXCEPT ![t] = @ - 1]
        ELSE waitGraph[w]]

(***************************************************************************)
(* One Unlock of ReleaseAllLocks: tuples first, then tables, in map order. *)
(* The entry leaves heldLocks here; the code clears the map at its Reset,  *)
(* after the loop.  Unlock's LockNotFoundError path changes nothing, and   *)
(* HeldLocksAgree shows that this loop never meets it.                     *)
(***************************************************************************)
Unlock(t, tag) ==
    /\ pc[t] = "releasing"
    /\ heldLocks[t][tag] # NoMode
    /\ tag \in TableTags => ~HasTupleLocks(t)
    /\ holders[tag][t] # NoMode
    /\ WakeUpCompatibleWaiters(tag, [holders[tag] EXCEPT ![t] = NoMode], waiters[tag],
                               EdgesAfterUnlock(t, tag), [lockCount EXCEPT ![t] = @ - 1], waitingOn, waitCh)
    /\ heldLocks' = [heldLocks EXCEPT ![t][tag] = NoMode]
    /\ txnRegistry' = IF lockCount'[t] = 0 /\ waitingOn'[t] = 0 THEN txnRegistry \ {t} ELSE txnRegistry
    /\ pc' = [pc EXCEPT ![t] = AfterRelease(heldLocks'[t])]
    /\ UNCHANGED <<lockRegistry, req, calls, timers, resolving>>

----------------------------------------------------------------------------
(* resolveCycle *)

(* A call of resolveCycle for victim v loads v's current waitingOn; with   *)
(* nothing pending there it returns and changes nothing.                   *)
LoadVictim_NoNilCheck(v) ==
    /\ Cardinality(resolving) < MaxResolving
    /\ resolving' = resolving \union {[victim |-> v, id |-> waitingOn[v]]}

LoadVictim(v) ==
    /\ Cardinality(resolving) < MaxResolving
    /\ resolving' = IF waitingOn[v] = 0 THEN resolving
                    ELSE resolving \union {[victim |-> v, id |-> waitingOn[v]]}

(* A 400 ms timer fires and calls resolveCycle([t]) *)
TimerFires(t, id) ==
    /\ <<t, id>> \in timers
    /\ timers' = timers \ {<<t, id>>}
    /\ LoadVictim(t)
    /\ UNCHANGED <<tableVars, clientVars>>

(* The deadlock detector calls resolveCycle with a victim that waits *)
DetectorPicks(v) ==
    /\ waitingOn[v] # 0
    /\ LoadVictim(v)
    /\ UNCHANGED <<tableVars, clientVars, timers>>

(* Its CompareAndSwap fails: somebody answered the request in the meantime *)
ResolveHandled(r) ==
    /\ r \in resolving
    /\ waitingOn[r.victim] # r.id
    /\ resolving' = resolving \ {r}
    /\ UNCHANGED <<tableVars, clientVars, timers>>

(* The graph without waiter v, who stands at position p of queue q: his    *)
(* row goes, and so do the edges to him of the waiters behind him.         *)
EdgesAfterAbort(v, q, p) ==
    [w \in DOMAIN waitGraph \ {v} |->
        IF w \in {q[j] : j \in (p + 1)..Len(q)} /\ ~Compatible(req[w].mode, req[v].mode)
        THEN [waitGraph[w] EXCEPT ![v] = @ - 1]
        ELSE waitGraph[w]]

(* Its CompareAndSwap succeeds: the victim leaves the queue with an error *)
ResolveAbort(r) ==
    LET v == r.victim
        tag == req[v].tag
        q == waiters[tag]
    IN  /\ r \in resolving
        /\ waitingOn[v] = r.id
        /\ \E p \in DOMAIN q :
              /\ q[p] = v
              /\ WakeUpCompatibleWaiters(tag, holders[tag], DeleteAt(q, p), EdgesAfterAbort(v, q, p), lockCount,
                                         [waitingOn EXCEPT ![v] = 0], [waitCh EXCEPT ![v] = "deadlock"])
        /\ resolving' = resolving \ {r}
        /\ UNCHANGED <<txnRegistry, lockRegistry, clientVars, timers>>

----------------------------------------------------------------------------
(* The specification *)

(* A step of a transaction's goroutine, other than arming its timer *)
ClientStep(t) ==
    \/ \E tag \in Tags, mode \in Modes :
          /\ <<t, tag, mode>> \in Requests
          /\ LockNow(t, tag, mode) \/ LockEnqueue(t, tag, mode)
    \/ LockReturns(t)
    \/ EndTransaction(t)
    \/ \E tag \in Tags : Unlock(t, tag)

ResolveStep == \E r \in resolving : ResolveHandled(r) \/ ResolveAbort(r)

TimerStep == \E t \in Txns, id \in 1..MaxCalls : TimerFires(t, id)

(* Every transaction has ended and nothing is pending *)
Finished == (\A t \in Txns : pc[t] = "done") /\ timers = {} /\ resolving = {} /\ UNCHANGED vars

Next ==
    \/ \E t \in Txns : ClientStep(t) \/ ArmTimer(t) \/ DetectorPicks(t)
    \/ TimerStep
    \/ ResolveStep
    \/ Finished

Spec == Init /\ [][Next]_vars

----------------------------------------------------------------------------
(* Properties *)

(* Every variable has its type. *)
TypeOK ==
    /\ holders \in [Tags -> [Txns -> Modes \union {NoMode}]]
    /\ waiters \in [Tags -> Seq(Txns)]
    /\ lockCount \in [Txns -> Int]
    /\ waitingOn \in [Txns -> 0..MaxCalls]
    /\ txnRegistry \in SUBSET Txns
    /\ lockRegistry \in SUBSET Tags
    /\ DOMAIN waitGraph \in SUBSET Txns
    /\ waitGraph \in [DOMAIN waitGraph -> [Txns -> Int]]
    /\ waitCh \in [Txns -> {"empty", "granted", "deadlock"}]
    /\ pc \in [Txns -> {"running", "enqueued", "blocked", "releasing", "done"}]
    /\ req \in [Txns -> [tag : Tags, mode : Modes \union {NoMode}]]
    /\ calls \in [Txns -> 0..MaxCalls]
    /\ heldLocks \in [Txns -> [Tags -> Modes \union {NoMode}]]
    /\ timers \in SUBSET (Txns \X (1..MaxCalls))
    /\ resolving \in SUBSET [victim : Txns, id : 1..MaxCalls]

(* Two transactions never hold conflicting modes on a tag, whatever the    *)
(* order of fast-path grants, upgrades, sweeps and aborts of waiters.      *)
HoldersCompatible ==
    \A tag \in Tags : \A t, u \in Txns :
        t # u /\ holders[tag][t] # NoMode => ~Conflict(holders[tag][t], holders[tag][u])

(* The first waiter of a queue really conflicts with another holder: no    *)
(* release and no abort leaves a grantable waiter asleep ("orphaned        *)
(* waiters" of lab_3.md).                                                  *)
NoOrphanWaiter ==
    \A tag \in Tags : waiters[tag] # <<>> => ~Grantable(holders[tag], waiters[tag], 1)

(* The queue, waitingOn, the wait graph's rows, the answer channel and the *)
(* registry tell one story: a transaction is in exactly one place of the   *)
(* queue of its request's tag iff it waits, and a waiter has a control     *)
(* block, a row in the graph and an empty channel (so that a send under    *)
(* the mutex never blocks).  These are the code's Asserts.                 *)
QueueDistinct ==
    \A tag \in Tags : \A i, j \in DOMAIN waiters[tag] : waiters[tag][i] = waiters[tag][j] => i = j

WaitersConsistent ==
    /\ QueueDistinct
    /\ \A t \in Txns :
          /\ \A tag \in Tags : t \in Members(waiters[tag]) <=> waitingOn[t] # 0 /\ req[t].tag = tag
          /\ t \in DOMAIN waitGraph <=> waitingOn[t] # 0
          /\ waitingOn[t] # 0 =>
                /\ waitingOn[t] = calls[t]
                /\ waitCh[t] = "empty"
                /\ t \in txnRegistry
                /\ pc[t] \in {"enqueued", "blocked"}

(* u stands in w's way: it holds tag in a conflicting mode, or waits ahead *)
(* of w for a conflicting one.                                             *)
BlocksAsHolder(u, w) == u # w /\ Conflict(req[w].mode, holders[req[w].tag][u])

BlocksAsWaiter(u, w) ==
    LET q == waiters[req[w].tag] IN
    /\ ~Compatible(req[w].mode, req[u].mode)
    /\ \E i, j \in DOMAIN q : i < j /\ q[i] = u /\ q[j] = w

(* Every conflict a waiter suffers is counted in its row of the wait graph *)
(* (the Asserts "Waiter should wait for incompatible holder"), though      *)
(* edges are added and taken away one by one by four different sections.   *)
GraphHasConflicts ==
    \A w \in DOMAIN waitGraph, u \in Txns :
        waitGraph[w][u] >= Bit(BlocksAsHolder(u, w)) + Bit(BlocksAsWaiter(u, w))

(* An edge to a transaction that may still wait for something is a real    *)
(* conflict: edges left over by granted upgrades only ever point at        *)
(* transactions that are past their last Lock, so they close no cycle.     *)
GraphHasOnlyConflicts ==
    \A w \in DOMAIN waitGraph, u \in Txns :
        waitGraph[w][u] > 0 =>
            \/ BlocksAsHolder(u, w) \/ BlocksAsWaiter(u, w)
            \/ pc[u] \in {"releasing", "done"}

(* The wait graph has every conflict and nothing that could close a false  *)
(* cycle, though lock, unlock, the sweep and the abort of a victim each    *)
(* change a part of it: what the detector finds in it is a deadlock, and   *)
(* what it does not find is none.                                          *)
WaitGraphExact == GraphHasConflicts /\ GraphHasOnlyConflicts

(* The context's view of its locks is the lock table's, except for the one *)
(* answer that is on its way; lockCount counts them, and a transaction     *)
(* that has ended holds nothing and has left the registry.                 *)
HeldLocksAgree ==
    \A t \in Txns :
        /\ \A tag \in Tags :
              \/ heldLocks[t][tag] = holders[tag][t]
              \/ waitCh[t] = "granted" /\ tag = req[t].tag /\ holders[tag][t] = req[t].mode
        /\ lockCount[t] = Cardinality({tag \in Tags : holders[tag][t] # NoMode})
        /\ pc[t] = "done" => t \notin txnRegistry /\ lockCount[t] = 0

(* Nobody overtakes: when t's hold on a tag grows, nobody who queued       *)
(* before t (nobody at all, if t did not queue) is still in the queue.     *)
NoOvertaking ==
    [][\A tag \in Tags, t \in Txns :
          holders'[tag][t] \notin {holders[tag][t], NoMode} =>
              \A i \in DOMAIN waiters[tag] :
                  (\A j \in 1..i : waiters[tag][j] # t) =>
                      waiters[tag][i] \notin Members(waiters'[tag])]_vars

(* Strict two-phase locking: until a transaction releases, no step weakens *)
(* or drops what it holds: every upgrade keeps the rights held before.     *)
LocksOnlyGrow ==
    [][\A tag \in Tags, t \in Txns :
          holders[tag][t] # NoMode /\ pc[t] # "releasing" =>
              Covers(holders'[tag][t], holders[tag][t])]_vars

============================================================================
