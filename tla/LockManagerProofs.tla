-------------------------- MODULE LockManagerProofs -------------------------
(***************************************************************************)
(* Proofs about LockManager, for every set of transactions and tags, every *)
(* workload and every choice of victims: the types, the consistency of the *)
(* queues, the compatibility of holders and the absence of orphaned        *)
(* waiters; then the context's view of its locks, strict two-phase         *)
(* locking, the order of grants and the exactness of the wait graph the    *)
(* deadlock detector searches.                                             *)
(***************************************************************************)
EXTENDS LockManager, SequenceTheorems, FiniteSetTheorems, TLAPS

HoldModes == Modes \union {NoMode}

(* No two holders of one control block conflict. *)
HoldCompatible(h) == \A t, u \in Txns : t # u /\ h[t] # NoMode => ~Conflict(h[t], h[u])

Injective(q) == \A i, j \in DOMAIN q : q[i] = q[j] => i = j

(* The compatibility matrix is symmetric, so granting against the other    *)
(* holders is enough for them as well.                                     *)
LEMMA CompatibleSymmetric ==
    \A m1, m2 \in HoldModes : m1 # NoMode /\ ~Conflict(m1, m2) /\ m2 # NoMode => ~Conflict(m2, m1)
BY DEF HoldModes, Modes, NoMode, Conflict, Compatible

(* Positions behind an offset. *)
LEMMA Offsets ==
    ASSUME NEW l \in Nat, NEW n \in 0..l
    PROVE  /\ \A i \in 1..(l - n) : n + i \in 1..l /\ \A k \in 1..n : k \in 1..l /\ k # n + i
           /\ \A i, j \in 1..(l - n) : n + i = n + j => i = j
           /\ \A k \in 1..l : k \notin 1..n => k - n \in 1..(l - n) /\ n + (k - n) = k
BY SMTT(30)

(* What a sweep leaves of a queue. *)
LEMMA SuffixFacts ==
    ASSUME NEW q \in Seq(Txns), Injective(q), NEW n \in 0..Len(q)
    PROVE  LET s == SubSeq(q, n + 1, Len(q)) IN
           /\ s \in Seq(Txns)
           /\ Injective(s)
           /\ Members(s) = Members(q) \ {q[i] : i \in 1..n}
           /\ s # <<>> => n < Len(q) /\ s[1] = q[n + 1] /\ Len(s) = Len(q) - n
<1> DEFINE s == SubSeq(q, n + 1, Len(q))
<1>1. s \in Seq(Txns) /\ Len(s) = Len(q) - n /\ DOMAIN s = 1..(Len(q) - n) /\ DOMAIN q = 1..Len(q) /\ Len(q) \in Nat
    OBVIOUS
<1> HIDE DEF s
<1>6. /\ \A i \in 1..(Len(q) - n) : n + i \in 1..Len(q) /\ \A k \in 1..n : k \in 1..Len(q) /\ k # n + i
      /\ \A i, j \in 1..(Len(q) - n) : n + i = n + j => i = j
      /\ \A k \in 1..Len(q) : k \notin 1..n => k - n \in 1..(Len(q) - n) /\ n + (k - n) = k
    BY <1>1, Offsets
<1>2. \A i \in 1..(Len(q) - n) : s[i] = q[n + i] /\ n + i \in 1..Len(q)
    <2> SUFFICES ASSUME NEW i \in 1..(Len(q) - n) PROVE s[i] = q[n + i] /\ n + i \in 1..Len(q)
        OBVIOUS
    <2>1. n + 1 \in Int /\ Len(q) \in Int /\ i \in 1..(Len(q) - (n + 1) + 1) /\ n + 1 + i - 1 = n + i
        BY <1>1
    <2>2. \A k \in (n + 1)..Len(q) : q[k] \in Txns
        BY <1>1
    <2>3. s[i] = q[n + 1 + i - 1]
        BY <2>1, <2>2, SubSeqProperties DEF s
    <2> QED
        BY <2>1, <2>3, <1>6
<1>3. Injective(s)
    <2> SUFFICES ASSUME NEW i \in 1..(Len(q) - n), NEW j \in 1..(Len(q) - n), s[i] = s[j] PROVE i = j
        BY <1>1 DEF Injective
    <2>1. n + i = n + j
        BY <1>1, <1>2 DEF Injective
    <2> QED
        BY <2>1, <1>6
<1>4. Members(s) = Members(q) \ {q[i] : i \in 1..n}
    <2>1. ASSUME NEW x \in Members(s) PROVE x \in Members(q) /\ x \notin {q[i] : i \in 1..n}
        <3>1. PICK i \in 1..(Len(q) - n) : x = s[i]
            BY <1>1 DEF Members
        <3>2. x = q[n + i] /\ n + i \in DOMAIN q
            BY <1>1, <1>2, <3>1
        <3>3. \A k \in 1..n : k \in DOMAIN q /\ k # n + i
            BY <1>1, <1>6
        <3> QED
            BY <3>2, <3>3 DEF Members, Injective
    <2>2. ASSUME NEW x \in Members(q), x \notin {q[i] : i \in 1..n} PROVE x \in Members(s)
        <3>1. PICK k \in 1..Len(q) : x = q[k]
            BY <1>1 DEF Members
        <3>2. k \notin 1..n
            BY <2>2, <3>1
        <3>3. k - n \in 1..(Len(q) - n) /\ n + (k - n) = k
            BY <3>1, <3>2, <1>6
        <3>4. s[k - n] = x
            BY <3>1, <3>3, <1>2
        <3> QED
            BY <3>3, <3>4, <1>1 DEF Members
    <2> QED
        BY <2>1, <2>2
<1>5. s # <<>> => n < Len(q) /\ s[1] = q[n + 1]
    BY <1>1, <1>2
<1> QED
    BY <1>1, <1>3, <1>4, <1>5 DEF s

(* What removing a victim leaves of a queue. *)
LEMMA DeleteFacts ==
    ASSUME NEW q \in Seq(Txns), Injective(q), NEW p \in DOMAIN q
    PROVE  /\ DeleteAt(q, p) \in Seq(Txns)
           /\ Injective(DeleteAt(q, p))
           /\ Members(DeleteAt(q, p)) = Members(q) \ {q[p]}
<1> DEFINE s == DeleteAt(q, p)
           at(i) == IF i < p THEN i ELSE i + 1
<1>1. Len(q) \in Nat /\ DOMAIN q = 1..Len(q) /\ Len(q) > 0
    OBVIOUS
<1>2. s \in Seq(Txns) /\ DOMAIN s = 1..(Len(q) - 1)
    BY <1>1 DEF DeleteAt
<1>3. \A i \in 1..(Len(q) - 1) : s[i] = q[at(i)] /\ at(i) \in 1..Len(q) /\ at(i) # p
    BY <1>1 DEF DeleteAt
<1>4. \A i, j \in 1..(Len(q) - 1) : at(i) = at(j) => i = j
    BY <1>1
<1>5. Injective(s)
    BY <1>1, <1>2, <1>3, <1>4 DEF Injective
<1>6. \A k \in 1..Len(q) : k # p => \E i \in 1..(Len(q) - 1) : at(i) = k
    <2> SUFFICES ASSUME NEW k \in 1..Len(q), k # p PROVE \E i \in 1..(Len(q) - 1) : at(i) = k
        OBVIOUS
    <2>1. CASE k < p
        BY <2>1, <1>1
    <2>2. CASE k > p
        <3>1. k - 1 \in 1..(Len(q) - 1) /\ at(k - 1) = k
            BY <2>2, <1>1
        <3> QED
            BY <3>1
    <2> QED
        BY <2>1, <2>2, <1>1
<1>7. Members(s) = Members(q) \ {q[p]}
    <2>1. ASSUME NEW x \in Members(s) PROVE x \in Members(q) /\ x # q[p]
        <3>1. PICK i \in 1..(Len(q) - 1) : x = s[i]
            BY <1>2 DEF Members
        <3>2. x = q[at(i)] /\ at(i) \in DOMAIN q /\ at(i) # p
            BY <3>1, <1>1, <1>3
        <3> HIDE DEF at
        <3> QED
            BY <3>2 DEF Members, Injective
    <2>2. ASSUME NEW x \in Members(q), x # q[p] PROVE x \in Members(s)
        <3>1. PICK k \in 1..Len(q) : x = q[k]
            BY <1>1 DEF Members
        <3>2. PICK i \in 1..(Len(q) - 1) : at(i) = k
            BY <2>2, <3>1, <1>6
        <3> QED
            BY <3>1, <3>2, <1>2, <1>3 DEF Members
    <2> QED
        BY <2>1, <2>2
<1> QED
    BY <1>2, <1>5, <1>7

----------------------------------------------------------------------------
(* The sweep *)

RequestTypes == req \in [Txns -> [tag : Tags, mode : HoldModes]]

(* Granting the waiters of a queue one after the other, each against the   *)
(* holders so far, leaves compatible holders, and stops at a waiter that   *)
(* cannot be granted.                                                      *)
LEMMA SweepFacts ==
    ASSUME NEW hold \in [Txns -> HoldModes], HoldCompatible(hold),
           NEW q \in Seq(Txns), Injective(q), RequestTypes,
           NEW n \in 0..Len(q), SweepStopsAt(hold, q, n)
    PROVE  /\ HoldAfter(hold, q, n) \in [Txns -> HoldModes]
           /\ HoldCompatible(HoldAfter(hold, q, n))
           /\ LET s == SubSeq(q, n + 1, Len(q)) IN
              s # <<>> => ~Grantable(HoldAfter(hold, q, n), s, 1)
<1> DEFINE h == HoldAfter(hold, q, n)
           mode(i) == req[q[i]].mode
           woken == {q[i] : i \in 1..n}
<1>1. Len(q) \in Nat /\ n \in Nat /\ n <= Len(q) /\ DOMAIN q = 1..Len(q) /\ 1..n \subseteq 1..Len(q)
    OBVIOUS
<1>2. h \in [Txns -> HoldModes]
    BY DEF HoldAfter, Granted, RequestTypes
<1>3. \A i \in 1..n : q[i] \in Txns /\ q[i] \in woken /\ mode(i) \in HoldModes
    BY <1>1 DEF RequestTypes
<1>4. \A i \in 1..n : h[q[i]] = Granted(hold[q[i]], mode(i))
    BY <1>3 DEF HoldAfter
<1>5. \A t \in Txns : t \notin woken => h[t] = hold[t]
    BY DEF HoldAfter
<1>6. \A i, j \in 1..n : i <= j => q[j] \notin {q[k] : k \in 1..(i - 1)}
    BY <1>1 DEF Injective
<1>7. \A i, j \in 1..n : i <= j => HoldAfter(hold, q, i - 1)[q[j]] = hold[q[j]]
    BY <1>3, <1>6 DEF HoldAfter
<1>8. \A i, j \in 1..n : i < j => HoldAfter(hold, q, j - 1)[q[i]] = h[q[i]]
    BY <1>3, <1>4 DEF HoldAfter
<1>9. \A i \in 1..n : \A t \in Txns : t \notin woken => HoldAfter(hold, q, i - 1)[t] = hold[t]
    BY <1>1 DEF HoldAfter
<1>10. \A i \in 1..n :
          \/ h[q[i]] = hold[q[i]]
          \/ /\ h[q[i]] = mode(i)
             /\ \A u \in Txns \ {q[i]} : ~Conflict(mode(i), HoldAfter(hold, q, i - 1)[u])
    <2> SUFFICES ASSUME NEW i \in 1..n, ~Covers(hold[q[i]], mode(i))
                 PROVE  /\ h[q[i]] = mode(i)
                        /\ \A u \in Txns \ {q[i]} : ~Conflict(mode(i), HoldAfter(hold, q, i - 1)[u])
        BY <1>4 DEF Granted
    <2>1. Grantable(hold, q, i)
        BY DEF SweepStopsAt
    <2>2. HoldAfter(hold, q, i - 1)[q[i]] = hold[q[i]]
        BY <1>7, <1>1
    <2>3. IsLockModeCompatible(q[i], mode(i), HoldAfter(hold, q, i - 1))
        BY <2>1, <2>2 DEF Grantable
    <2> QED
        BY <2>3, <1>4 DEF IsLockModeCompatible, Granted
<1> HIDE DEF h, mode, woken
<1> DEFINE Ok(t, u) == h[t] # NoMode => ~Conflict(h[t], h[u])
<1>11. \A t, u \in Txns : Ok(t, u) => Ok(u, t)
    BY <1>2, CompatibleSymmetric DEF Conflict
<1>12. \A t, u \in Txns : t # u /\ hold[t] # NoMode => ~Conflict(hold[t], hold[u])
    BY DEF HoldCompatible
<1>13. ASSUME NEW i \in 1..n, NEW u \in Txns, u \notin woken PROVE Ok(q[i], u)
    <2>1. q[i] \in Txns /\ q[i] # u /\ h[u] = hold[u] /\ HoldAfter(hold, q, i - 1)[u] = hold[u]
        BY <1>3, <1>5, <1>9, <1>13
    <2>2. CASE h[q[i]] = hold[q[i]]
        BY <2>1, <2>2, <1>12
    <2>3. CASE h[q[i]] = mode(i) /\ \A w \in Txns \ {q[i]} : ~Conflict(mode(i), HoldAfter(hold, q, i - 1)[w])
        BY <2>1, <2>3
    <2> QED
        BY <2>2, <2>3, <1>10
<1>14. ASSUME NEW i \in 1..n, NEW j \in 1..n, i < j PROVE Ok(q[i], q[j])
    <2>1. q[i] # q[j] /\ q[i] \in Txns /\ q[j] \in Txns
        BY <1>1, <1>3, <1>14 DEF Injective
    <2>2. CASE h[q[j]] = mode(j) /\ \A u \in Txns \ {q[j]} : ~Conflict(mode(j), HoldAfter(hold, q, j - 1)[u])
        <3>1. ~Conflict(h[q[j]], h[q[i]])
            BY <2>1, <2>2, <1>8, <1>14
        <3> QED
            BY <3>1, <2>1, <1>11
    <2>3. CASE h[q[j]] = hold[q[j]]
        <3>1. CASE h[q[i]] = hold[q[i]]
            BY <3>1, <2>3, <2>1, <1>12
        <3>2. CASE h[q[i]] = mode(i) /\ \A u \in Txns \ {q[i]} : ~Conflict(mode(i), HoldAfter(hold, q, i - 1)[u])
            <4>1. HoldAfter(hold, q, i - 1)[q[j]] = hold[q[j]]
                BY <1>7, <1>14, <1>1
            <4> QED
                BY <4>1, <3>2, <2>3, <2>1
        <3> QED
            BY <3>1, <3>2, <1>10
    <2> QED
        BY <2>2, <2>3, <1>10
<1>15. ASSUME NEW t \in Txns, NEW u \in Txns, t # u PROVE Ok(t, u)
    <2>1. CASE t \notin woken /\ u \notin woken
        BY <2>1, <1>5, <1>12, <1>15
    <2>2. CASE t \in woken /\ u \notin woken
        BY <2>2, <1>13 DEF woken
    <2>3. CASE t \notin woken /\ u \in woken
        <3>1. Ok(u, t)
            BY <2>3, <1>13 DEF woken
        <3> QED
            BY <3>1, <1>11
    <2>4. CASE t \in woken /\ u \in woken
        <3>1. PICK i \in 1..n : t = q[i]
            BY <2>4 DEF woken
        <3>2. PICK j \in 1..n : u = q[j]
            BY <2>4 DEF woken
        <3>3. i < j \/ j < i
            BY <3>1, <3>2, <1>15
        <3>4. Ok(t, u) \/ Ok(u, t)
            BY <3>1, <3>2, <3>3, <1>14
        <3> QED
            BY <3>4, <1>11
    <2> QED
        BY <2>1, <2>2, <2>3, <2>4
<1>16. HoldCompatible(h)
    BY <1>15 DEF HoldCompatible
<1>17. ASSUME NEW s, s = SubSeq(q, n + 1, Len(q)), s # <<>> PROVE ~Grantable(h, s, 1)
    <2>1. n < Len(q) /\ s[1] = q[n + 1]
        BY <1>17, SuffixFacts
    <2>2. ~Grantable(hold, q, n + 1)
        BY <2>1 DEF SweepStopsAt
    <2>3. HoldAfter(hold, q, (n + 1) - 1) = h
        BY <1>1 DEF h
    <2>4. HoldAfter(h, s, 1 - 1) = h
        BY <1>2 DEF HoldAfter
    <2> QED
        BY <2>1, <2>2, <2>3, <2>4 DEF Grantable
<1> QED
    BY <1>2, <1>16, <1>17 DEF h

----------------------------------------------------------------------------
(***************************************************************************)
(* The inductive invariant: the properties themselves, with the two facts  *)
(* they lack: an answer is only ever on its way to a transaction that is   *)
(* still inside lock(), and such a transaction has made a call.            *)
(***************************************************************************)
AnswersExpected == \A t \in Txns : waitCh[t] # "empty" => pc[t] \in {"enqueued", "blocked"}

CallsCounted == \A t \in Txns : pc[t] = "enqueued" => calls[t] # 0

(* NoOrphanWaiter, with the sweep's recursion over the queue gone: the     *)
(* first waiter is judged against the holders as they are.                 *)
CanHold(hold, t, mode) == Covers(hold[t], mode) \/ IsLockModeCompatible(t, mode, hold)

HeadsBlocked ==
    \A tag \in Tags : waiters[tag] # <<>> =>
        ~CanHold(holders[tag], waiters[tag][1], req[waiters[tag][1]].mode)

IInv == TypeOK /\ WaitersConsistent /\ AnswersExpected /\ CallsCounted /\ HoldersCompatible
        /\ HeadsBlocked

(* Before anybody has been granted, the sweep sees the holders themselves. *)
LEMMA FirstGrantable ==
    ASSUME NEW hold \in [Txns -> HoldModes], NEW q
    PROVE  Grantable(hold, q, 1) <=> CanHold(hold, q[1], req[q[1]].mode)
<1>1. HoldAfter(hold, q, 1 - 1) = hold
    BY DEF HoldAfter
<1> QED
    BY <1>1 DEF Grantable, CanHold

Channel == {"empty", "granted", "deadlock"}

(***************************************************************************)
(* What a sweep of tag's queue q leaves, started with the graph's rows D   *)
(* and the given waitingOn and waitCh values: some of q's members have     *)
(* been granted and the rest keep waiting, compatible and with a blocked   *)
(* head.                                                                   *)
(***************************************************************************)
Swept(tag, q, D, waitOn, ch) ==
    /\ holders' \in [Tags -> [Txns -> HoldModes]]
    /\ \A u \in Tags \ {tag} : holders'[u] = holders[u]
    /\ HoldCompatible(holders'[tag])
    /\ waiters' \in [Tags -> Seq(Txns)]
    /\ \A u \in Tags \ {tag} : waiters'[u] = waiters[u]
    /\ Injective(waiters'[tag])
    /\ waiters'[tag] # <<>> => ~CanHold(holders'[tag], waiters'[tag][1], req[waiters'[tag][1]].mode)
    /\ lockCount' \in [Txns -> Int]
    /\ waitingOn' \in [Txns -> 0..MaxCalls]
    /\ DOMAIN waitGraph' \in SUBSET Txns
    /\ waitGraph' \in [DOMAIN waitGraph' -> [Txns -> Int]]
    /\ waitCh' \in [Txns -> Channel]
    /\ \E woken \in SUBSET Members(q) :
          /\ Members(waiters'[tag]) = Members(q) \ woken
          /\ DOMAIN waitGraph' = D \ woken
          /\ \A t \in Txns : /\ waitingOn'[t] = IF t \in woken THEN 0 ELSE waitOn[t]
                             /\ waitCh'[t] = IF t \in woken THEN "granted" ELSE ch[t]

(* Everything a sweep of tag's queue q does, given consistent arguments. *)
LEMMA WakeFacts ==
    ASSUME TypeOK, NEW tag \in Tags,
           NEW hold \in [Txns -> HoldModes], HoldCompatible(hold),
           NEW q \in Seq(Txns), Injective(q),
           NEW D \in SUBSET Txns, NEW g \in [D -> [Txns -> Int]],
           NEW count \in [Txns -> Int], NEW waitOn \in [Txns -> 0..MaxCalls],
           NEW ch \in [Txns -> Channel],
           WakeUpCompatibleWaiters(tag, hold, q, g, count, waitOn, ch)
    PROVE  Swept(tag, q, D, waitOn, ch)
<1>1. PICK n \in 0..Len(q) :
         LET woken == {q[i] : i \in 1..n} IN
         /\ SweepStopsAt(hold, q, n)
         /\ holders' = [holders EXCEPT ![tag] = HoldAfter(hold, q, n)]
         /\ waiters' = [waiters EXCEPT ![tag] = SubSeq(q, n + 1, Len(q))]
         /\ lockCount' = [t \in Txns |-> IF t \in woken THEN count[t] + Counted(hold[t]) ELSE count[t]]
         /\ waitingOn' = [t \in Txns |-> IF t \in woken THEN 0 ELSE waitOn[t]]
         /\ waitGraph' = [t \in DOMAIN g \ woken |-> g[t]]
         /\ waitCh' = [t \in Txns |-> IF t \in woken THEN "granted" ELSE ch[t]]
    BY DEF WakeUpCompatibleWaiters
<1> DEFINE woken == {q[i] : i \in 1..n}
           s == SubSeq(q, n + 1, Len(q))
           h == HoldAfter(hold, q, n)
<1>2. RequestTypes
    BY DEF TypeOK, RequestTypes, HoldModes
<1>3. h \in [Txns -> HoldModes] /\ HoldCompatible(h) /\ (s # <<>> => ~Grantable(h, s, 1))
    BY <1>1, <1>2, SweepFacts
<1>8. s # <<>> => ~CanHold(h, s[1], req[s[1]].mode)
    BY <1>3, FirstGrantable
<1>4. s \in Seq(Txns) /\ Injective(s) /\ Members(s) = Members(q) \ woken
    BY SuffixFacts
<1>5. woken \in SUBSET Members(q)
    BY DEF Members
<1>6. holders \in [Tags -> [Txns -> HoldModes]] /\ waiters \in [Tags -> Seq(Txns)]
    BY DEF TypeOK, HoldModes
<1>7. holders'[tag] = h /\ waiters'[tag] = s
    BY <1>1, <1>6
<1>9. lockCount' \in [Txns -> Int]
    BY <1>1 DEF Counted, Bit
<1>10. DOMAIN waitGraph' = D \ woken /\ waitGraph' \in [DOMAIN waitGraph' -> [Txns -> Int]]
    BY <1>1
<1>11. waitingOn' \in [Txns -> 0..MaxCalls] /\ waitCh' \in [Txns -> Channel]
    BY <1>1, LockConstants DEF Channel
<1>12. /\ holders' \in [Tags -> [Txns -> HoldModes]] /\ \A u \in Tags \ {tag} : holders'[u] = holders[u]
       /\ waiters' \in [Tags -> Seq(Txns)] /\ \A u \in Tags \ {tag} : waiters'[u] = waiters[u]
    BY <1>1, <1>3, <1>4, <1>6
<1>13. \A t \in Txns : /\ waitingOn'[t] = IF t \in woken THEN 0 ELSE waitOn[t]
                       /\ waitCh'[t] = IF t \in woken THEN "granted" ELSE ch[t]
    BY <1>1
<1> HIDE DEF s, h, woken
<1> QED
    BY <1>3, <1>4, <1>5, <1>7, <1>8, <1>9, <1>10, <1>11, <1>12, <1>13 DEF Swept

----------------------------------------------------------------------------
(* One lemma per action *)

(* Initially nobody holds or waits. *)
LEMMA InvInit == Init => IInv
<1> SUFFICES ASSUME Init PROVE IInv
    OBVIOUS
<1>1. NoRequest \in [tag : Tags, mode : Modes \union {NoMode}]
    BY LockConstants DEF NoRequest
<1>2. TypeOK
    BY <1>1, LockConstants DEF Init, TypeOK
<1>3. WaitersConsistent
    BY DEF Init, WaitersConsistent, QueueDistinct, Members
<1>4. AnswersExpected /\ CallsCounted /\ HoldersCompatible /\ HeadsBlocked
    BY DEF Init, AnswersExpected, CallsCounted, HoldersCompatible, HeadsBlocked
<1> QED
    BY <1>2, <1>3, <1>4 DEF IInv

(* A transaction that is not inside lock() waits for nothing. *)
LEMMA RunningWaitsForNothing ==
    ASSUME IInv, NEW t \in Txns, pc[t] \notin {"enqueued", "blocked"}
    PROVE  /\ waitingOn[t] = 0
           /\ waitCh[t] = "empty"
           /\ \A tag \in Tags : t \notin Members(waiters[tag])
BY DEF IInv, WaitersConsistent, AnswersExpected

(* A grant on the fast path. *)
LEMMA LockNowInv ==
    ASSUME IInv, NEW t \in Txns, NEW tag \in Tags, NEW mode \in Modes, LockNow(t, tag, mode)
    PROVE  IInv'
<1>1. PICK m \in Modes :
        /\ CallLock(t, tag, mode, m)
        /\ CanGrantNow(t, tag, m)
        /\ holders' = [holders EXCEPT ![tag][t] = Granted(@, m)]
        /\ lockCount' = [lockCount EXCEPT ![t] = @ + Counted(holders[tag][t])]
        /\ heldLocks' = [heldLocks EXCEPT ![t][tag] = m]
        /\ UNCHANGED <<waiters, waitingOn, waitGraph, waitCh, pc, req>>
    BY DEF LockNow
<1>2. TypeOK
    BY DEF IInv
<1>3. /\ pc[t] = "running" /\ calls[t] < MaxCalls /\ calls' = [calls EXCEPT ![t] = @ + 1]
      /\ txnRegistry' = txnRegistry \union {t} /\ lockRegistry' = lockRegistry \union {tag}
      /\ UNCHANGED <<timers, resolving>>
    BY <1>1 DEF CallLock
<1>4. Granted(holders[tag][t], m) \in HoldModes
    BY <1>2 DEF Granted, HoldModes, TypeOK
<1>5. TypeOK'
    <2>1. holders' \in [Tags -> [Txns -> Modes \union {NoMode}]]
        BY <1>1, <1>2, <1>4 DEF TypeOK, HoldModes
    <2>2. lockCount' \in [Txns -> Int]
        BY <1>1, <1>2 DEF TypeOK, Counted, Bit
    <2>3. heldLocks' \in [Txns -> [Tags -> Modes \union {NoMode}]]
        BY <1>1, <1>2 DEF TypeOK
    <2>4. calls' \in [Txns -> 0..MaxCalls]
        BY <1>2, <1>3, LockConstants DEF TypeOK
    <2> QED
        BY <1>1, <1>2, <1>3, <2>1, <2>2, <2>3, <2>4 DEF TypeOK
<1>6. waitingOn[t] = 0
    BY <1>3, RunningWaitsForNothing
<1>7. WaitersConsistent'
    BY <1>1, <1>2, <1>3, <1>6 DEF IInv, WaitersConsistent, QueueDistinct, TypeOK, Members
<1>8. AnswersExpected' /\ CallsCounted'
    BY <1>1, <1>2, <1>3 DEF IInv, AnswersExpected, CallsCounted, TypeOK
<1>9. \A u \in Tags \ {tag} : holders'[u] = holders[u]
    BY <1>1, <1>2 DEF TypeOK
<1>10. CASE Covers(holders[tag][t], m)
    <2>1. holders' = holders
        BY <1>1, <1>2, <1>10 DEF Granted, TypeOK
    <2> QED
        BY <2>1, <1>1, <1>5, <1>7, <1>8 DEF IInv, HoldersCompatible, HeadsBlocked
<1>11. CASE ~Covers(holders[tag][t], m)
    <2>1. waiters[tag] = <<>> /\ IsLockModeCompatible(t, m, holders[tag])
        BY <1>1, <1>11 DEF CanGrantNow
    <2>2. holders'[tag][t] = m /\ \A u \in Txns \ {t} : holders'[tag][u] = holders[tag][u]
        BY <1>1, <1>2, <1>11 DEF Granted, TypeOK
    <2>3. HoldersCompatible'
        <3> SUFFICES ASSUME NEW g \in Tags, NEW u \in Txns, NEW w \in Txns, u # w, holders'[g][u] # NoMode
                     PROVE  ~Conflict(holders'[g][u], holders'[g][w])
            BY DEF HoldersCompatible
        <3>1. CASE g # tag \/ (u # t /\ w # t)
            BY <3>1, <2>2, <1>9 DEF IInv, HoldersCompatible
        <3>2. CASE g = tag /\ u = t
            BY <3>2, <2>1, <2>2 DEF IsLockModeCompatible
        <3>3. CASE g = tag /\ w = t
            <4>1. ~Conflict(m, holders[tag][u]) /\ holders[tag][u] \in HoldModes /\ m \in HoldModes /\ m # NoMode
                BY <3>3, <2>1, <1>2 DEF IsLockModeCompatible, TypeOK, HoldModes, Modes, NoMode
            <4> QED
                BY <4>1, <3>3, <2>2, CompatibleSymmetric
        <3> QED
            BY <3>1, <3>2, <3>3
    <2>4. HeadsBlocked'
        BY <1>1, <1>9, <2>1 DEF IInv, HeadsBlocked
    <2> QED
        BY <2>3, <2>4, <1>5, <1>7, <1>8 DEF IInv
<1> QED
    BY <1>10, <1>11

(* A request that has to wait joins the end of the queue. *)
LEMMA LockEnqueueInv ==
    ASSUME IInv, NEW t \in Txns, NEW tag \in Tags, NEW mode \in Modes, LockEnqueue(t, tag, mode)
    PROVE  IInv'
<1>1. PICK m \in Modes :
        /\ CallLock(t, tag, mode, m)
        /\ ~CanGrantNow(t, tag, m)
        /\ req' = [req EXCEPT ![t] = [tag |-> tag, mode |-> m]]
        /\ waiters' = [waiters EXCEPT ![tag] = Append(@, t)]
        /\ waitingOn' = [waitingOn EXCEPT ![t] = calls[t] + 1]
        /\ waitGraph' = [u \in DOMAIN waitGraph \union {t} |->
                            IF u = t THEN [h \in Txns |-> EdgesOf(t)[h] + NewEdges(t, tag, m)[h]]
                                     ELSE waitGraph[u]]
        /\ pc' = [pc EXCEPT ![t] = "enqueued"]
        /\ UNCHANGED <<holders, lockCount, waitCh, heldLocks>>
    BY DEF LockEnqueue
<1>2. TypeOK
    BY DEF IInv
<1>3. /\ pc[t] = "running" /\ calls[t] < MaxCalls /\ calls' = [calls EXCEPT ![t] = @ + 1]
      /\ txnRegistry' = txnRegistry \union {t} /\ lockRegistry' = lockRegistry \union {tag}
      /\ UNCHANGED <<timers, resolving>>
    BY <1>1 DEF CallLock
<1>4. waitingOn[t] = 0 /\ waitCh[t] = "empty" /\ \A g \in Tags : t \notin Members(waiters[g])
    BY <1>3, RunningWaitsForNothing
<1>5. calls[t] \in 0..MaxCalls /\ calls[t] + 1 \in 1..MaxCalls
    BY <1>2, <1>3, LockConstants DEF TypeOK
<1>6. DOMAIN waitGraph' = DOMAIN waitGraph \union {t} /\ waitGraph' \in [DOMAIN waitGraph' -> [Txns -> Int]]
    <2>1. EdgesOf(t) \in [Txns -> Int]
        BY <1>2 DEF EdgesOf, TypeOK
    <2>2. NewEdges(t, tag, m) \in [Txns -> Int]
        BY DEF NewEdges, Bit
    <2>3. \A u \in DOMAIN waitGraph : waitGraph[u] \in [Txns -> Int]
        BY <1>2 DEF TypeOK
    <2> QED
        BY <1>1, <2>1, <2>2, <2>3
<1>7. TypeOK'
    <2>1. waiters' \in [Tags -> Seq(Txns)]
        BY <1>1, <1>2 DEF TypeOK
    <2>2. waitingOn' \in [Txns -> 0..MaxCalls] /\ calls' \in [Txns -> 0..MaxCalls]
        BY <1>1, <1>2, <1>3, <1>5, LockConstants DEF TypeOK
    <2>3. req' \in [Txns -> [tag : Tags, mode : Modes \union {NoMode}]]
        BY <1>1, <1>2 DEF TypeOK
    <2>4. pc' \in [Txns -> {"running", "enqueued", "blocked", "releasing", "done"}]
        BY <1>1, <1>2 DEF TypeOK
    <2> QED
        BY <1>1, <1>2, <1>3, <1>6, <2>1, <2>2, <2>3, <2>4 DEF TypeOK
<1>8. /\ \A u \in Tags \ {tag} : waiters'[u] = waiters[u]
      /\ waiters'[tag] = Append(waiters[tag], t) /\ waiters[tag] \in Seq(Txns)
    BY <1>1, <1>2 DEF TypeOK
<1>9. /\ Members(waiters'[tag]) = Members(waiters[tag]) \union {t}
      /\ Injective(waiters[tag]) => Injective(waiters'[tag])
    <2> DEFINE q == waiters[tag]
               n == Len(q)
    <2>1. n \in Nat /\ DOMAIN q = 1..n /\ DOMAIN Append(q, t) = 1..(n + 1)
        BY <1>8
    <2>2. Append(q, t)[n + 1] = t /\ \A i \in 1..n : Append(q, t)[i] = q[i]
        BY <1>8
    <2>3. \A i \in 1..(n + 1) : i = n + 1 \/ i \in 1..n
        BY <2>1
    <2>4. 1..n \subseteq 1..(n + 1) /\ n + 1 \in 1..(n + 1)
        BY <2>1
    <2> HIDE DEF n
    <2>5. Members(Append(q, t)) = Members(q) \union {t}
        BY <2>1, <2>2, <2>3, <2>4 DEF Members
    <2>6. \A i \in 1..n : q[i] # t
        BY <2>1, <1>4 DEF Members
    <2>7. Injective(q) => Injective(Append(q, t))
        BY <2>1, <2>2, <2>3, <2>6 DEF Injective
    <2> QED
        BY <2>5, <2>7, <1>8
<1>10. WaitersConsistent'
    <2>4. \A g \in Tags : Injective(waiters[g])
        BY DEF IInv, WaitersConsistent, QueueDistinct, Injective
    <2>5. \A g \in Tags : Injective(waiters'[g])
        BY <2>4, <1>8, <1>9
    <2>1. QueueDistinct'
        BY <2>5 DEF QueueDistinct, Injective
    <2>2. ASSUME NEW u \in Txns, u # t
          PROVE  /\ req'[u] = req[u] /\ waitingOn'[u] = waitingOn[u] /\ calls'[u] = calls[u] /\ pc'[u] = pc[u]
                 /\ waitCh'[u] = waitCh[u] /\ (u \in txnRegistry => u \in txnRegistry')
                 /\ (u \in DOMAIN waitGraph' <=> u \in DOMAIN waitGraph)
                 /\ \A g \in Tags : u \in Members(waiters'[g]) <=> u \in Members(waiters[g])
        BY <2>2, <1>1, <1>2, <1>3, <1>6, <1>8, <1>9 DEF TypeOK
    <2>3. /\ req'[t].tag = tag /\ waitingOn'[t] = calls'[t] /\ waitingOn'[t] # 0 /\ pc'[t] = "enqueued"
          /\ waitCh'[t] = "empty" /\ t \in txnRegistry' /\ t \in DOMAIN waitGraph'
          /\ \A g \in Tags : t \in Members(waiters'[g]) <=> g = tag
        BY <1>1, <1>2, <1>3, <1>4, <1>5, <1>6, <1>8, <1>9 DEF TypeOK
    <2> QED
        BY <2>1, <2>2, <2>3 DEF IInv, WaitersConsistent
<1>11. AnswersExpected' /\ CallsCounted'
    BY <1>1, <1>2, <1>3, <1>5 DEF IInv, AnswersExpected, CallsCounted, TypeOK
<1>12. HoldersCompatible'
    BY <1>1 DEF IInv, HoldersCompatible
<1>13. HeadsBlocked'
    <2> SUFFICES ASSUME NEW g \in Tags, waiters'[g] # <<>>
                 PROVE  ~CanHold(holders[g], waiters'[g][1], req'[waiters'[g][1]].mode)
        BY <1>1 DEF HeadsBlocked
    <2>1. waiters[g] \in Seq(Txns)
        BY <1>2 DEF TypeOK
    <2>2. CASE waiters[g] # <<>>
        <3>1. 1 \in DOMAIN waiters[g] /\ waiters[g][1] \in Txns
            BY <2>1, <2>2
        <3>2. waiters'[g][1] = waiters[g][1]
            BY <3>1, <2>1, <1>8
        <3>3. waiters[g][1] # t
            BY <3>1, <1>4 DEF Members
        <3>4. req'[waiters[g][1]] = req[waiters[g][1]]
            BY <3>1, <3>3, <1>1, <1>2 DEF TypeOK
        <3> QED
            BY <2>2, <3>2, <3>4 DEF IInv, HeadsBlocked
    <2>3. CASE waiters[g] = <<>>
        <3>1. g = tag /\ waiters'[g][1] = t
            BY <2>3, <1>8
        <3>2. req'[t].mode = m
            BY <1>1, <1>2 DEF TypeOK
        <3>3. ~Covers(holders[g][t], m) /\ ~IsLockModeCompatible(t, m, holders[g])
            BY <3>1, <2>3, <1>1 DEF CanGrantNow
        <3> QED
            BY <3>1, <3>2, <3>3 DEF CanHold
    <2> QED
        BY <2>2, <2>3
<1> QED
    BY <1>7, <1>10, <1>11, <1>12, <1>13 DEF IInv

(* Steps that leave the table alone and move one goroutine. *)
LEMMA ArmTimerInv ==
    ASSUME IInv, NEW t \in Txns, ArmTimer(t)
    PROVE  IInv'
<1>1. TypeOK
    BY DEF IInv
<1>2. pc[t] = "enqueued" /\ pc' = [pc EXCEPT ![t] = "blocked"] /\ timers' = timers \union {<<t, calls[t]>>}
      /\ UNCHANGED <<tableVars, req, calls, heldLocks, resolving>>
    BY DEF ArmTimer
<1>3. UNCHANGED <<holders, waiters, lockCount, waitingOn, txnRegistry, lockRegistry, waitGraph, waitCh>>
    BY <1>2 DEF tableVars
<1>4. calls[t] \in 1..MaxCalls
    BY <1>1, <1>2 DEF IInv, CallsCounted, TypeOK
<1>5. TypeOK'
    BY <1>1, <1>2, <1>3, <1>4 DEF TypeOK
<1>6. \A u \in Txns : pc'[u] # pc[u] => pc[u] = "enqueued" /\ pc'[u] = "blocked"
    BY <1>1, <1>2 DEF TypeOK
<1>7. WaitersConsistent'
    BY <1>2, <1>3, <1>6 DEF IInv, WaitersConsistent, QueueDistinct, Members
<1>8. AnswersExpected' /\ CallsCounted'
    BY <1>2, <1>3, <1>6 DEF IInv, AnswersExpected, CallsCounted
<1>9. HoldersCompatible' /\ HeadsBlocked'
    BY <1>2, <1>3 DEF IInv, HoldersCompatible, HeadsBlocked
<1> QED
    BY <1>5, <1>7, <1>8, <1>9 DEF IInv

(* Starting to release the locks, or ending without any, keeps it. *)
LEMMA EndTransactionInv ==
    ASSUME IInv, NEW t \in Txns, EndTransaction(t)
    PROVE  IInv'
<1>1. TypeOK
    BY DEF IInv
<1>2. pc[t] = "running" /\ pc' = [pc EXCEPT ![t] = AfterRelease(heldLocks[t])]
      /\ UNCHANGED <<tableVars, req, calls, heldLocks, timers, resolving>>
    BY DEF EndTransaction
<1>3. UNCHANGED <<holders, waiters, lockCount, waitingOn, txnRegistry, lockRegistry, waitGraph, waitCh>>
    BY <1>2 DEF tableVars
<1>4. AfterRelease(heldLocks[t]) \in {"releasing", "done"}
    BY DEF AfterRelease
<1>5. TypeOK'
    BY <1>1, <1>2, <1>3, <1>4 DEF TypeOK
<1>6. waitingOn[t] = 0 /\ waitCh[t] = "empty"
    BY <1>2, RunningWaitsForNothing
<1>7. \A u \in Txns \ {t} : pc'[u] = pc[u]
    BY <1>1, <1>2 DEF TypeOK
<1>8. pc'[t] \in {"releasing", "done"}
    BY <1>1, <1>2, <1>4 DEF TypeOK
<1>9. WaitersConsistent'
    BY <1>2, <1>3, <1>6, <1>7 DEF IInv, WaitersConsistent, QueueDistinct, Members
<1>10. AnswersExpected' /\ CallsCounted'
    BY <1>2, <1>3, <1>6, <1>7, <1>8 DEF IInv, AnswersExpected, CallsCounted
<1>11. HoldersCompatible' /\ HeadsBlocked'
    BY <1>2, <1>3 DEF IInv, HoldersCompatible, HeadsBlocked
<1> QED
    BY <1>5, <1>9, <1>10, <1>11 DEF IInv

(* An answered request is out of every queue, so forgetting it is safe. *)
LEMMA LockReturnsInv ==
    ASSUME IInv, NEW t \in Txns, LockReturns(t)
    PROVE  IInv'
<1>1. TypeOK
    BY DEF IInv
<1>2. /\ pc[t] = "blocked" /\ waitCh[t] # "empty"
      /\ waitCh' = [waitCh EXCEPT ![t] = "empty"] /\ pc' = [pc EXCEPT ![t] = "running"]
      /\ req' = [req EXCEPT ![t] = NoRequest]
      /\ heldLocks' = IF waitCh[t] = "granted" THEN [heldLocks EXCEPT ![t][req[t].tag] = req[t].mode]
                                               ELSE heldLocks
      /\ txnRegistry' = IF lockCount[t] = 0 /\ waitingOn[t] = 0 THEN txnRegistry \ {t} ELSE txnRegistry
      /\ UNCHANGED <<holders, waiters, lockCount, waitingOn, lockRegistry, waitGraph, calls, timers, resolving>>
    BY DEF LockReturns
<1>3. waitingOn[t] = 0 /\ \A tag \in Tags : t \notin Members(waiters[tag])
    BY <1>2 DEF IInv, WaitersConsistent
<1>4. NoRequest \in [tag : Tags, mode : Modes \union {NoMode}]
    BY LockConstants DEF NoRequest
<1>5. TypeOK'
    <2>1. req' \in [Txns -> [tag : Tags, mode : Modes \union {NoMode}]]
        BY <1>1, <1>2, <1>4 DEF TypeOK
    <2>2. heldLocks' \in [Txns -> [Tags -> Modes \union {NoMode}]]
        BY <1>1, <1>2 DEF TypeOK
    <2>3. txnRegistry' \in SUBSET Txns
        BY <1>1, <1>2 DEF TypeOK
    <2>4. /\ waitCh' \in [Txns -> {"empty", "granted", "deadlock"}]
          /\ pc' \in [Txns -> {"running", "enqueued", "blocked", "releasing", "done"}]
        BY <1>1, <1>2 DEF TypeOK
    <2> QED
        BY <1>1, <1>2, <2>1, <2>2, <2>3, <2>4 DEF TypeOK
<1>6. \A u \in Txns \ {t} : /\ waitCh'[u] = waitCh[u] /\ pc'[u] = pc[u] /\ req'[u] = req[u]
                            /\ (u \in txnRegistry => u \in txnRegistry')
    BY <1>1, <1>2 DEF TypeOK
<1>7. waitCh'[t] = "empty"
    BY <1>1, <1>2 DEF TypeOK
<1>8. WaitersConsistent'
    BY <1>2, <1>3, <1>6, <1>7 DEF IInv, WaitersConsistent, QueueDistinct, Members
<1>9. AnswersExpected' /\ CallsCounted'
    BY <1>1, <1>2, <1>6, <1>7 DEF IInv, AnswersExpected, CallsCounted, TypeOK
<1>10. HoldersCompatible'
    BY <1>2 DEF IInv, HoldersCompatible
<1>11. HeadsBlocked'
    <2> SUFFICES ASSUME NEW tag \in Tags, waiters[tag] # <<>>
                 PROVE  ~CanHold(holders[tag], waiters[tag][1], req'[waiters[tag][1]].mode)
        BY <1>2 DEF HeadsBlocked
    <2>1. 1 \in DOMAIN waiters[tag] /\ waiters[tag][1] \in Txns
        BY <1>1 DEF TypeOK
    <2>2. waiters[tag][1] # t
        BY <2>1, <1>3 DEF Members
    <2> QED
        BY <2>1, <2>2, <1>6 DEF IInv, HeadsBlocked
<1> QED
    BY <1>5, <1>8, <1>9, <1>10, <1>11 DEF IInv

(* A release: the sweep runs on the queue without the holder. *)
LEMMA UnlockInv ==
    ASSUME IInv, NEW t \in Txns, NEW tag \in Tags, Unlock(t, tag)
    PROVE  IInv'
<1> DEFINE g == EdgesAfterUnlock(t, tag)
           hold == [holders[tag] EXCEPT ![t] = NoMode]
           q == waiters[tag]
           count == [lockCount EXCEPT ![t] = @ - 1]
<1>1. TypeOK
    BY DEF IInv
<1>2. /\ pc[t] = "releasing"
      /\ WakeUpCompatibleWaiters(tag, hold, q, g, count, waitingOn, waitCh)
      /\ heldLocks' = [heldLocks EXCEPT ![t][tag] = NoMode]
      /\ txnRegistry' = IF lockCount'[t] = 0 /\ waitingOn'[t] = 0 THEN txnRegistry \ {t} ELSE txnRegistry
      /\ pc' = [pc EXCEPT ![t] = AfterRelease(heldLocks'[t])]
      /\ UNCHANGED <<lockRegistry, req, calls, timers, resolving>>
    BY DEF Unlock
<1>3. hold \in [Txns -> HoldModes] /\ HoldCompatible(hold)
    <2>1. hold \in [Txns -> HoldModes] /\ hold[t] = NoMode /\ \A u \in Txns \ {t} : hold[u] = holders[tag][u]
        BY <1>1 DEF TypeOK, HoldModes
    <2>2. HoldCompatible(holders[tag])
        BY DEF IInv, HoldersCompatible, HoldCompatible
    <2> QED
        BY <2>1, <2>2 DEF HoldCompatible, Conflict
<1>4. q \in Seq(Txns) /\ \A u \in Tags : Injective(waiters[u])
    BY <1>1 DEF TypeOK, IInv, WaitersConsistent, QueueDistinct, Injective
<1>5. DOMAIN waitGraph \in SUBSET Txns /\ g \in [DOMAIN waitGraph -> [Txns -> Int]] /\ count \in [Txns -> Int]
    BY <1>1 DEF TypeOK, EdgesAfterUnlock
<1>6. waitingOn \in [Txns -> 0..MaxCalls] /\ waitCh \in [Txns -> Channel]
    BY <1>1 DEF TypeOK, Channel
<1> HIDE DEF g, hold, q, count
<1>17. Injective(q)
    BY <1>4 DEF q
<1>18. Swept(tag, q, DOMAIN waitGraph, waitingOn, waitCh)
    BY <1>1, <1>2, <1>3, <1>4, <1>5, <1>6, <1>17, WakeFacts
<1>7. /\ holders' \in [Tags -> [Txns -> HoldModes]]
      /\ \A u \in Tags \ {tag} : holders'[u] = holders[u]
      /\ HoldCompatible(holders'[tag])
      /\ waiters' \in [Tags -> Seq(Txns)]
      /\ \A u \in Tags \ {tag} : waiters'[u] = waiters[u]
      /\ Injective(waiters'[tag])
      /\ waiters'[tag] # <<>> => ~CanHold(holders'[tag], waiters'[tag][1], req[waiters'[tag][1]].mode)
      /\ lockCount' \in [Txns -> Int]
      /\ waitingOn' \in [Txns -> 0..MaxCalls]
      /\ DOMAIN waitGraph' \in SUBSET Txns
      /\ waitGraph' \in [DOMAIN waitGraph' -> [Txns -> Int]]
      /\ waitCh' \in [Txns -> Channel]
      /\ \E woken \in SUBSET Members(q) :
            /\ Members(waiters'[tag]) = Members(q) \ woken
            /\ DOMAIN waitGraph' = DOMAIN waitGraph \ woken
            /\ \A u \in Txns : /\ waitingOn'[u] = IF u \in woken THEN 0 ELSE waitingOn[u]
                               /\ waitCh'[u] = IF u \in woken THEN "granted" ELSE waitCh[u]
    BY <1>18 DEF Swept
<1>8. waitingOn[t] = 0 /\ t \notin Members(q)
    BY <1>2, RunningWaitsForNothing DEF q
<1>9. pc'[t] \in {"releasing", "done"} /\ \A u \in Txns \ {t} : pc'[u] = pc[u]
    BY <1>1, <1>2 DEF TypeOK, AfterRelease
<1>10. TypeOK'
    <2>1. heldLocks' \in [Txns -> [Tags -> Modes \union {NoMode}]]
        BY <1>1, <1>2 DEF TypeOK
    <2>2. pc' \in [Txns -> {"running", "enqueued", "blocked", "releasing", "done"}]
        BY <1>1, <1>2 DEF TypeOK, AfterRelease
    <2>3. txnRegistry' \in SUBSET Txns
        BY <1>1, <1>2 DEF TypeOK
    <2> QED
        BY <1>1, <1>2, <1>7, <2>1, <2>2, <2>3 DEF TypeOK, Channel, HoldModes
<1>11. PICK woken \in SUBSET Members(q) :
            /\ Members(waiters'[tag]) = Members(q) \ woken
            /\ DOMAIN waitGraph' = DOMAIN waitGraph \ woken
            /\ \A u \in Txns : /\ waitingOn'[u] = IF u \in woken THEN 0 ELSE waitingOn[u]
                               /\ waitCh'[u] = IF u \in woken THEN "granted" ELSE waitCh[u]
    BY <1>7
<1>12. t \notin woken /\ \A u \in woken : waitingOn[u] # 0 /\ req[u].tag = tag /\ pc[u] \in {"enqueued", "blocked"}
    BY <1>8, <1>1, <1>4 DEF IInv, WaitersConsistent, q, Members
<1>13. WaitersConsistent'
    <2>1. QueueDistinct'
        BY <1>4, <1>7, ZenonT(60) DEF QueueDistinct, Injective
    <2>2. ASSUME NEW u \in Txns, NEW b \in Tags
          PROVE  u \in Members(waiters'[b]) <=> waitingOn'[u] # 0 /\ req'[u].tag = b
        <3>1. u \in Members(waiters[b]) <=> waitingOn[u] # 0 /\ req[u].tag = b
            BY DEF IInv, WaitersConsistent
        <3>2. CASE b = tag
            BY <3>1, <3>2, <1>2, <1>11 DEF q
        <3>3. CASE b # tag
            BY <3>1, <3>3, <1>2, <1>7, <1>11, <1>12
        <3> QED
            BY <3>2, <3>3
    <2>3. ASSUME NEW u \in Txns
          PROVE  /\ u \in DOMAIN waitGraph' <=> waitingOn'[u] # 0
                 /\ waitingOn'[u] # 0 => /\ waitingOn'[u] = calls'[u] /\ waitCh'[u] = "empty"
                                         /\ u \in txnRegistry' /\ pc'[u] \in {"enqueued", "blocked"}
        BY <1>2, <1>8, <1>9, <1>11, <1>12 DEF IInv, WaitersConsistent
    <2> QED
        BY <2>1, <2>2, <2>3 DEF WaitersConsistent
<1>14. AnswersExpected' /\ CallsCounted'
    BY <1>2, <1>8, <1>9, <1>11, <1>12 DEF IInv, AnswersExpected, CallsCounted
<1>15. HoldersCompatible'
    BY <1>7 DEF IInv, HoldersCompatible, HoldCompatible
<1>16. HeadsBlocked'
    BY <1>2, <1>7 DEF IInv, HeadsBlocked
<1> QED
    BY <1>10, <1>13, <1>14, <1>15, <1>16 DEF IInv

(* An abort: the victim leaves the middle of the queue, and the sweep runs *)
(* on what remains.                                                        *)
LEMMA ResolveAbortInv ==
    ASSUME IInv, NEW r \in resolving, ResolveAbort(r)
    PROVE  IInv'
<1> DEFINE v == r.victim
           tag == req[v].tag
           q == waiters[tag]
           g(p) == EdgesAfterAbort(v, q, p)
           waitOn == [waitingOn EXCEPT ![v] = 0]
           ch == [waitCh EXCEPT ![v] = "deadlock"]
<1>1. TypeOK
    BY DEF IInv
<1>2. /\ waitingOn[v] = r.id
      /\ resolving' = resolving \ {r}
      /\ UNCHANGED <<txnRegistry, lockRegistry, clientVars, timers>>
    BY DEF ResolveAbort
<1>3. PICK p \in DOMAIN q :
         /\ q[p] = v
         /\ WakeUpCompatibleWaiters(tag, holders[tag], DeleteAt(q, p), g(p), lockCount, waitOn, ch)
    BY DEF ResolveAbort
<1>4. UNCHANGED <<pc, req, calls, heldLocks, txnRegistry, lockRegistry, timers>>
    BY <1>2 DEF clientVars
<1>5. v \in Txns /\ tag \in Tags /\ r.id \in 1..MaxCalls
    BY <1>1 DEF TypeOK
<1>6. waitingOn[v] # 0
    BY <1>2, <1>5
<1>7. holders[tag] \in [Txns -> HoldModes] /\ HoldCompatible(holders[tag])
    BY <1>1, <1>5 DEF IInv, TypeOK, HoldModes, HoldersCompatible, HoldCompatible
<1>8. q \in Seq(Txns) /\ \A u \in Tags : Injective(waiters[u])
    BY <1>1, <1>5 DEF TypeOK, IInv, WaitersConsistent, QueueDistinct, Injective
<1>9. Injective(q)
    BY <1>5, <1>8
<1>10. /\ DeleteAt(q, p) \in Seq(Txns)
       /\ Injective(DeleteAt(q, p))
       /\ Members(DeleteAt(q, p)) = Members(q) \ {v}
    BY <1>3, <1>8, <1>9, DeleteFacts
<1> HIDE DEF v, tag, q
<1>11. DOMAIN waitGraph \ {v} \in SUBSET Txns /\ g(p) \in [DOMAIN waitGraph \ {v} -> [Txns -> Int]]
    <2>1. DOMAIN waitGraph \in SUBSET Txns /\ \A w \in DOMAIN waitGraph : waitGraph[w] \in [Txns -> Int]
        BY <1>1 DEF TypeOK
    <2>2. \A w \in DOMAIN waitGraph : [waitGraph[w] EXCEPT ![v] = @ - 1] \in [Txns -> Int]
        BY <1>5, <2>1
    <2> QED
        BY <2>1, <2>2 DEF EdgesAfterAbort
<1>12. lockCount \in [Txns -> Int] /\ waitOn \in [Txns -> 0..MaxCalls] /\ ch \in [Txns -> Channel]
    <2>1. waitingOn \in [Txns -> 0..MaxCalls] /\ lockCount \in [Txns -> Int] /\ waitCh \in [Txns -> Channel]
        BY <1>1 DEF TypeOK, Channel
    <2>2. 0 \in 0..MaxCalls /\ "deadlock" \in Channel
        BY LockConstants DEF Channel
    <2> QED
        BY <1>5, <2>1, <2>2
<1>13. \A u \in Txns : /\ waitOn[u] = IF u = v THEN 0 ELSE waitingOn[u]
                       /\ ch[u] = IF u = v THEN "deadlock" ELSE waitCh[u]
    BY <1>1, <1>5 DEF TypeOK
<1> HIDE DEF v, tag, q, g, waitOn, ch
<1>14. Swept(tag, DeleteAt(q, p), DOMAIN waitGraph \ {v}, waitOn, ch)
    BY <1>1, <1>3, <1>5, <1>7, <1>10, <1>11, <1>12, WakeFacts
<1>15. /\ holders' \in [Tags -> [Txns -> HoldModes]]
       /\ \A u \in Tags \ {tag} : holders'[u] = holders[u]
       /\ HoldCompatible(holders'[tag])
       /\ waiters' \in [Tags -> Seq(Txns)]
       /\ \A u \in Tags \ {tag} : waiters'[u] = waiters[u]
       /\ Injective(waiters'[tag])
       /\ waiters'[tag] # <<>> => ~CanHold(holders'[tag], waiters'[tag][1], req[waiters'[tag][1]].mode)
       /\ lockCount' \in [Txns -> Int]
       /\ waitingOn' \in [Txns -> 0..MaxCalls]
       /\ DOMAIN waitGraph' \in SUBSET Txns
       /\ waitGraph' \in [DOMAIN waitGraph' -> [Txns -> Int]]
       /\ waitCh' \in [Txns -> Channel]
    BY <1>14 DEF Swept
<1>16. PICK woken \in SUBSET Members(DeleteAt(q, p)) :
            /\ Members(waiters'[tag]) = Members(DeleteAt(q, p)) \ woken
            /\ DOMAIN waitGraph' = (DOMAIN waitGraph \ {v}) \ woken
            /\ \A u \in Txns : /\ waitingOn'[u] = IF u \in woken THEN 0 ELSE waitOn[u]
                               /\ waitCh'[u] = IF u \in woken THEN "granted" ELSE ch[u]
    BY <1>14 DEF Swept
<1>17. /\ v \notin woken
       /\ \A u \in woken : waitingOn[u] # 0 /\ req[u].tag = tag /\ pc[u] \in {"enqueued", "blocked"}
    <2>1. woken \subseteq Members(q) /\ v \notin woken
        BY <1>10, <1>16
    <2>2. Members(q) \subseteq Txns
        BY <1>8 DEF Members
    <2> QED
        BY <2>1, <2>2, <1>5 DEF IInv, WaitersConsistent, q
<1>18. pc[v] \in {"enqueued", "blocked"}
    BY <1>5, <1>6 DEF IInv, WaitersConsistent
<1>19. \A u \in Txns : waitingOn'[u] = IF u \in woken \/ u = v THEN 0 ELSE waitingOn[u]
    BY <1>13, <1>16
<1>20. \A u \in Txns : waitCh'[u] # waitCh[u] => u \in woken \/ u = v
    BY <1>13, <1>16
<1>21. TypeOK'
    BY <1>1, <1>2, <1>4, <1>15 DEF TypeOK, Channel, HoldModes
<1>22. WaitersConsistent'
    <2>1. QueueDistinct'
        BY <1>8, <1>15 DEF QueueDistinct, Injective
    <2>2. ASSUME NEW u \in Txns, NEW b \in Tags
          PROVE  u \in Members(waiters'[b]) <=> waitingOn'[u] # 0 /\ req'[u].tag = b
        <3>1. u \in Members(waiters[b]) <=> waitingOn[u] # 0 /\ req[u].tag = b
            BY DEF IInv, WaitersConsistent
        <3>2. CASE b = tag
            <4>1. Members(waiters'[b]) = (Members(waiters[b]) \ {v}) \ woken
                BY <3>2, <1>10, <1>16 DEF q
            <4> QED
                BY <4>1, <3>1, <1>4, <1>19
        <3>3. CASE b # tag
            <4>1. waiters'[b] = waiters[b]
                BY <3>3, <1>15
            <4>2. req[v].tag # b
                BY <3>3 DEF tag
            <4> QED
                BY <4>1, <4>2, <3>1, <3>3, <1>4, <1>17, <1>19
        <3> QED
            BY <3>2, <3>3
    <2>3. ASSUME NEW u \in Txns
          PROVE  /\ u \in DOMAIN waitGraph' <=> waitingOn'[u] # 0
                 /\ waitingOn'[u] # 0 => /\ waitingOn'[u] = calls'[u] /\ waitCh'[u] = "empty"
                                         /\ u \in txnRegistry' /\ pc'[u] \in {"enqueued", "blocked"}
        BY <1>4, <1>16, <1>19, <1>20 DEF IInv, WaitersConsistent
    <2> QED
        BY <2>1, <2>2, <2>3 DEF WaitersConsistent
<1>23. AnswersExpected' /\ CallsCounted'
    BY <1>4, <1>17, <1>18, <1>20 DEF IInv, AnswersExpected, CallsCounted
<1>24. HoldersCompatible'
    BY <1>15 DEF IInv, HoldersCompatible, HoldCompatible
<1>25. HeadsBlocked'
    BY <1>4, <1>15 DEF IInv, HeadsBlocked
<1> QED
    BY <1>21, <1>22, <1>23, <1>24, <1>25 DEF IInv

(* Steps that only start or drop a resolveCycle call. *)
LEMMA ResolvingInv ==
    ASSUME IInv, UNCHANGED <<tableVars, clientVars>>,
           timers' \in SUBSET (Txns \X (1..MaxCalls)),
           resolving' \in SUBSET [victim : Txns, id : 1..MaxCalls]
    PROVE  IInv'
<1>1. UNCHANGED <<holders, waiters, lockCount, waitingOn, txnRegistry, lockRegistry, waitGraph, waitCh, pc, req,
                  calls, heldLocks>>
    BY DEF tableVars, clientVars
<1>2. TypeOK'
    BY <1>1 DEF IInv, TypeOK
<1>3. WaitersConsistent'
    BY <1>1 DEF IInv, WaitersConsistent, QueueDistinct, Members
<1>4. AnswersExpected' /\ CallsCounted' /\ HoldersCompatible' /\ HeadsBlocked'
    BY <1>1 DEF IInv, AnswersExpected, CallsCounted, HoldersCompatible, HeadsBlocked
<1> QED
    BY <1>2, <1>3, <1>4 DEF IInv

(* A load of waitingOn yields a request identity. *)
LEMMA LoadVictimType ==
    ASSUME IInv, NEW v \in Txns, LoadVictim(v)
    PROVE  resolving' \in SUBSET [victim : Txns, id : 1..MaxCalls]
<1>1. waitingOn[v] # 0 => waitingOn[v] \in 1..MaxCalls
    BY LockConstants DEF IInv, TypeOK
<1> QED
    BY <1>1 DEF IInv, TypeOK, LoadVictim

(* Every step preserves the invariant. *)
LEMMA InvNext == IInv /\ [Next]_vars => IInv'
<1> SUFFICES ASSUME IInv, [Next]_vars PROVE IInv'
    OBVIOUS
<1>1. timers \in SUBSET (Txns \X (1..MaxCalls)) /\ resolving \in SUBSET [victim : Txns, id : 1..MaxCalls]
    BY DEF IInv, TypeOK
<1>2. ASSUME NEW t \in Txns, ClientStep(t) PROVE IInv'
    <2>1. CASE \E tag \in Tags, mode \in Modes : LockNow(t, tag, mode) \/ LockEnqueue(t, tag, mode)
        BY <2>1, LockNowInv, LockEnqueueInv
    <2>2. CASE LockReturns(t)
        BY <2>2, LockReturnsInv
    <2>3. CASE EndTransaction(t)
        BY <2>3, EndTransactionInv
    <2>4. CASE \E tag \in Tags : Unlock(t, tag)
        BY <2>4, UnlockInv
    <2> QED
        BY <1>2, <2>1, <2>2, <2>3, <2>4 DEF ClientStep
<1>3. ASSUME NEW t \in Txns, ArmTimer(t) PROVE IInv'
    BY <1>3, ArmTimerInv
<1>4. ASSUME NEW t \in Txns, DetectorPicks(t) PROVE IInv'
    BY <1>1, <1>4, LoadVictimType, ResolvingInv DEF DetectorPicks
<1>5. ASSUME NEW t \in Txns, NEW id \in 1..MaxCalls, TimerFires(t, id) PROVE IInv'
    <2>1. timers' \in SUBSET (Txns \X (1..MaxCalls)) /\ UNCHANGED <<tableVars, clientVars>> /\ LoadVictim(t)
        BY <1>1, <1>5 DEF TimerFires
    <2> QED
        BY <2>1, LoadVictimType, ResolvingInv
<1>6. ASSUME NEW r \in resolving, ResolveHandled(r) PROVE IInv'
    BY <1>1, <1>6, ResolvingInv DEF ResolveHandled
<1>7. ASSUME NEW r \in resolving, ResolveAbort(r) PROVE IInv'
    BY <1>7, ResolveAbortInv
<1>8. CASE UNCHANGED vars
    BY <1>1, <1>8, ResolvingInv DEF vars
<1> QED
    BY <1>2, <1>3, <1>4, <1>5, <1>6, <1>7, <1>8 DEF Next, TimerStep, ResolveStep, Finished

----------------------------------------------------------------------------
(* The theorems *)

(* The invariant holds in every reachable state. *)
THEOREM Invariant == Spec => []IInv
BY InvInit, InvNext, PTL DEF Spec

(* Every variable keeps its type. *)
THEOREM TypeCorrect == Spec => []TypeOK
<1>1. IInv => TypeOK
    BY DEF IInv
<1> QED
    BY <1>1, Invariant, PTL

(* Mutual exclusion: whatever the workload and the victims, the fast path, *)
(* upgrades, release sweeps and abort sweeps of lock.go never leave two    *)
(* transactions with conflicting modes on a tag.                           *)
THEOREM MutualExclusion == Spec => []HoldersCompatible
<1>1. IInv => HoldersCompatible
    BY DEF IInv
<1> QED
    BY <1>1, Invariant, PTL

(* No lost wake-up in the lock table: a release or an abort never leaves   *)
(* the head of a queue waiting for a lock it could be granted.             *)
THEOREM NoOrphans == Spec => []NoOrphanWaiter
<1>1. ASSUME IInv PROVE NoOrphanWaiter
    <2> SUFFICES ASSUME NEW tag \in Tags, waiters[tag] # <<>>
                 PROVE  ~Grantable(holders[tag], waiters[tag], 1)
        BY DEF NoOrphanWaiter
    <2>1. holders[tag] \in [Txns -> HoldModes]
        BY <1>1 DEF IInv, TypeOK, HoldModes
    <2>2. ~CanHold(holders[tag], waiters[tag][1], req[waiters[tag][1]].mode)
        BY <1>1 DEF IInv, HeadsBlocked
    <2> QED
        BY <2>1, <2>2, FirstGrantable
<1> QED
    BY <1>1, Invariant, PTL

(* The Asserts of lock.go about queues, TCBs, channels and the wait graph  *)
(* hold between any two critical sections.                                 *)
THEOREM QueuesConsistent == Spec => []WaitersConsistent
<1>1. IInv => WaitersConsistent
    BY DEF IInv
<1> QED
    BY <1>1, Invariant, PTL

-----------------------------------------------------------------------------

(* Modes *)

(* A request AcquireLock makes is never covered already, and it keeps the  *)
(* rights of the mode it upgrades (S and IX become SIX).                   *)
LEMMA UpgradeCovers ==
    ASSUME NEW h \in HoldModes, NEW mode \in Modes, ~Covers(h, mode)
    PROVE  /\ ~Covers(h, RequestedMode(h, mode))
           /\ h # NoMode => Covers(RequestedMode(h, mode), h)
BY DEF HoldModes, Modes, NoMode, Covers, IsLockModeCovered, Rank, RequestedMode

\* A mode covers itself.
LEMMA CoversReflexive == \A m \in Modes : Covers(m, m)
BY DEF Modes, NoMode, Covers, IsLockModeCovered, Rank

(* What conflicts with a mode conflicts with every mode that covers it. *)
LEMMA ConflictMonotone ==
    ASSUME NEW r \in HoldModes, NEW m1 \in HoldModes, NEW m2 \in HoldModes,
           Covers(m2, m1), m1 # NoMode, Conflict(r, m1)
    PROVE  Conflict(r, m2)
BY DEF HoldModes, Modes, NoMode, Covers, IsLockModeCovered, Rank, Conflict, Compatible

----------------------------------------------------------------------------
(* The order of a queue *)

\* u is ahead of w in queue q.
Before(q, u, w) == \E i, j \in DOMAIN q : i < j /\ q[i] = u /\ q[j] = w

\* The first n members of queue q.
Front(q, n) == {q[i] : i \in 1..n}

\* Only members of a queue are ahead of one another.
LEMMA BeforeMembers ==
    ASSUME NEW q, NEW u, NEW w, Before(q, u, w)
    PROVE  u \in Members(q) /\ w \in Members(q)
BY DEF Before, Members

(* Nobody is ahead of a member of the front but members of the front. *)
LEMMA FrontIsPrefix ==
    ASSUME NEW q \in Seq(Txns), Injective(q), NEW n \in 0..Len(q), NEW u, NEW w
    PROVE  /\ Before(q, u, w) /\ w \in Front(q, n) => u \in Front(q, n)
           /\ u \in Front(q, n) /\ w \in Members(q) \ Front(q, n) => Before(q, u, w)
<1>1. Len(q) \in Nat /\ DOMAIN q = 1..Len(q) /\ n \in Nat /\ n <= Len(q)
    OBVIOUS
<1>2. ASSUME Before(q, u, w), w \in Front(q, n) PROVE u \in Front(q, n)
    <2>1. PICK i \in 1..Len(q), j \in 1..Len(q) : i < j /\ q[i] = u /\ q[j] = w
        BY <1>1, <1>2 DEF Before
    <2>2. PICK k \in 1..n : q[k] = w
        BY <1>2 DEF Front
    <2>3. k = j
        BY <1>1, <2>1, <2>2 DEF Injective
    <2>4. i \in 1..n
        BY <1>1, <2>1, <2>3
    <2> QED
        BY <2>1, <2>4 DEF Front
<1>3. ASSUME u \in Front(q, n), w \in Members(q), w \notin Front(q, n) PROVE Before(q, u, w)
    <2>1. PICK i \in 1..n : q[i] = u
        BY <1>3 DEF Front
    <2>2. PICK j \in 1..Len(q) : q[j] = w
        BY <1>1, <1>3 DEF Members
    <2>3. j \notin 1..n
        BY <1>3, <2>2 DEF Front
    <2>4. i < j /\ i \in DOMAIN q /\ j \in DOMAIN q
        BY <1>1, <2>3
    <2> QED
        BY <2>1, <2>2, <2>4 DEF Before
<1> QED
    BY <1>2, <1>3

(* A sweep keeps the order of those it leaves in the queue. *)
LEMMA SuffixOrder ==
    ASSUME NEW q \in Seq(Txns), Injective(q), NEW n \in 0..Len(q), NEW u, NEW w,
           u \notin Front(q, n), w \notin Front(q, n)
    PROVE  Before(SubSeq(q, n + 1, Len(q)), u, w) <=> Before(q, u, w)
<1> DEFINE s == SubSeq(q, n + 1, Len(q))
<1>1. s \in Seq(Txns) /\ DOMAIN s = 1..(Len(q) - n) /\ DOMAIN q = 1..Len(q) /\ Len(q) \in Nat
    OBVIOUS
<1> HIDE DEF s
<1>2. ASSUME NEW i \in 1..(Len(q) - n) PROVE s[i] = q[n + i] /\ n + i \in 1..Len(q)
    <2>1. n + 1 \in Int /\ Len(q) \in Int /\ i \in 1..(Len(q) - (n + 1) + 1) /\ n + 1 + i - 1 = n + i
        BY <1>1
    <2>2. \A k \in (n + 1)..Len(q) : q[k] \in Txns
        BY <1>1
    <2>3. s[i] = q[n + 1 + i - 1]
        BY <2>1, <2>2, SubSeqProperties DEF s
    <2> QED
        BY <2>1, <2>3, <1>1
<1>3. ASSUME Before(s, u, w) PROVE Before(q, u, w)
    <2>1. PICK i \in 1..(Len(q) - n), j \in 1..(Len(q) - n) : i < j /\ s[i] = u /\ s[j] = w
        BY <1>1, <1>3 DEF Before
    <2>2. n + i < n + j /\ q[n + i] = u /\ q[n + j] = w /\ n + i \in 1..Len(q) /\ n + j \in 1..Len(q)
        BY <2>1, <1>1, <1>2
    <2> QED
        BY <2>2, <1>1 DEF Before
<1>4. ASSUME Before(q, u, w) PROVE Before(s, u, w)
    <2>1. PICK i \in 1..Len(q), j \in 1..Len(q) : i < j /\ q[i] = u /\ q[j] = w
        BY <1>1, <1>4 DEF Before
    <2>2. i \notin 1..n /\ j \notin 1..n
        BY <2>1 DEF Front
    <2>3. i - n \in 1..(Len(q) - n) /\ j - n \in 1..(Len(q) - n) /\ i - n < j - n /\ n + (i - n) = i /\ n + (j - n) = j
        BY <1>1, <2>1, <2>2
    <2>4. s[i - n] = u /\ s[j - n] = w
        BY <2>1, <2>3, <1>2
    <2> QED
        BY <2>3, <2>4, <1>1 DEF Before
<1> QED
    BY <1>3, <1>4 DEF s

(* So does removing a victim. *)
LEMMA DeleteOrder ==
    ASSUME NEW q \in Seq(Txns), Injective(q), NEW p \in DOMAIN q, NEW u, NEW w, u # q[p], w # q[p]
    PROVE  Before(DeleteAt(q, p), u, w) <=> Before(q, u, w)
<1> DEFINE s == DeleteAt(q, p)
           at(i) == IF i < p THEN i ELSE i + 1
           back(k) == IF k < p THEN k ELSE k - 1
<1>1. Len(q) \in Nat /\ DOMAIN q = 1..Len(q) /\ p \in 1..Len(q) /\ DOMAIN s = 1..(Len(q) - 1)
    BY DEF DeleteAt
<1>2. \A i \in 1..(Len(q) - 1) : s[i] = q[at(i)] /\ at(i) \in 1..Len(q)
    BY <1>1 DEF DeleteAt
<1>3. \A i, j \in 1..(Len(q) - 1) : i < j => at(i) < at(j)
    BY <1>1
<1>4. \A k \in 1..Len(q) : k # p => back(k) \in 1..(Len(q) - 1) /\ at(back(k)) = k
    BY <1>1
<1>5. \A i, j \in 1..Len(q) : i < j /\ i # p /\ j # p => back(i) < back(j)
    BY <1>1
<1> HIDE DEF s, at, back
<1>6. ASSUME Before(s, u, w) PROVE Before(q, u, w)
    <2>1. PICK i \in 1..(Len(q) - 1), j \in 1..(Len(q) - 1) : i < j /\ s[i] = u /\ s[j] = w
        BY <1>1, <1>6 DEF Before
    <2>2. at(i) < at(j) /\ at(i) \in 1..Len(q) /\ at(j) \in 1..Len(q) /\ q[at(i)] = u /\ q[at(j)] = w
        BY <2>1, <1>2, <1>3
    <2> QED
        BY <2>2, <1>1 DEF Before
<1>7. ASSUME Before(q, u, w) PROVE Before(s, u, w)
    <2>1. PICK i \in 1..Len(q), j \in 1..Len(q) : i < j /\ q[i] = u /\ q[j] = w
        BY <1>1, <1>7 DEF Before
    <2>2. i # p /\ j # p
        BY <2>1
    <2>3. back(i) < back(j) /\ back(i) \in 1..(Len(q) - 1) /\ back(j) \in 1..(Len(q) - 1)
        BY <2>1, <2>2, <1>4, <1>5
    <2>4. s[back(i)] = u /\ s[back(j)] = w
        BY <2>1, <2>2, <2>3, <1>2, <1>4
    <2> QED
        BY <2>3, <2>4, <1>1 DEF Before
<1> QED
    BY <1>6, <1>7 DEF s

(* The waiters behind position p. *)
LEMMA BehindPosition ==
    ASSUME NEW q \in Seq(Txns), Injective(q), NEW p \in DOMAIN q, NEW w
    PROVE  Before(q, q[p], w) <=> w \in {q[j] : j \in (p + 1)..Len(q)}
<1>1. Len(q) \in Nat /\ DOMAIN q = 1..Len(q) /\ p \in 1..Len(q)
    OBVIOUS
<1>2. ASSUME Before(q, q[p], w) PROVE w \in {q[j] : j \in (p + 1)..Len(q)}
    <2>1. PICK i \in 1..Len(q), j \in 1..Len(q) : i < j /\ q[i] = q[p] /\ q[j] = w
        BY <1>1, <1>2 DEF Before
    <2>2. i = p
        BY <2>1, <1>1 DEF Injective
    <2>3. j \in (p + 1)..Len(q)
        BY <2>1, <2>2, <1>1
    <2> QED
        BY <2>1, <2>3
<1>3. ASSUME w \in {q[j] : j \in (p + 1)..Len(q)} PROVE Before(q, q[p], w)
    <2>1. PICK j \in (p + 1)..Len(q) : q[j] = w
        BY <1>3
    <2>2. j \in DOMAIN q /\ p < j
        BY <1>1
    <2> QED
        BY <2>1, <2>2 DEF Before
<1> QED
    BY <1>2, <1>3

(* A new waiter is behind everybody and ahead of nobody. *)
LEMMA AppendOrder ==
    ASSUME NEW q \in Seq(Txns), NEW t \in Txns, t \notin Members(q), NEW u, NEW w
    PROVE  /\ w # t => (Before(Append(q, t), u, w) <=> Before(q, u, w))
           /\ Before(Append(q, t), u, t) <=> u \in Members(q)
<1> DEFINE n == Len(q)
           s == Append(q, t)
<1>1. n \in Nat /\ DOMAIN q = 1..n /\ DOMAIN s = 1..(n + 1) /\ s[n + 1] = t /\ \A i \in 1..n : s[i] = q[i]
    OBVIOUS
<1>2. \A i \in 1..n : q[i] # t
    BY <1>1 DEF Members
<1>3. \A i, j \in 1..(n + 1) : i < j => i \in 1..n
    BY <1>1
<1>4. \A j \in 1..(n + 1) : j # n + 1 => j \in 1..n
    BY <1>1
<1>5. \A i \in 1..n : i \in 1..(n + 1) /\ i < n + 1 /\ n + 1 \in 1..(n + 1)
    BY <1>1
<1> HIDE DEF n, s
<1>6. ASSUME w # t, Before(s, u, w) PROVE Before(q, u, w)
    <2>1. PICK i \in 1..(n + 1), j \in 1..(n + 1) : i < j /\ s[i] = u /\ s[j] = w
        BY <1>1, <1>6 DEF Before
    <2>2. i \in 1..n /\ j \in 1..n
        BY <2>1, <1>1, <1>3, <1>4, <1>6
    <2> QED
        BY <2>1, <2>2, <1>1 DEF Before
<1>7. ASSUME Before(q, u, w) PROVE Before(s, u, w)
    BY <1>1, <1>5, <1>7 DEF Before
<1>8. ASSUME Before(s, u, t) PROVE u \in Members(q)
    BY <1>1, <1>3, <1>8 DEF Before, Members
<1>9. ASSUME u \in Members(q) PROVE Before(s, u, t)
    <2>1. PICK i \in 1..n : q[i] = u
        BY <1>1, <1>9 DEF Members
    <2>2. i \in 1..(n + 1) /\ n + 1 \in 1..(n + 1) /\ i < n + 1 /\ s[i] = u /\ s[n + 1] = t
        BY <2>1, <1>1, <1>5
    <2> QED
        BY <2>2, <1>1 DEF Before
<1> QED
    BY <1>6, <1>7, <1>8, <1>9 DEF s

----------------------------------------------------------------------------
(***************************************************************************)
(* What the context knows of its locks.  The invariant says more than      *)
(* HeldLocksAgree: which answer is on its way, that a pending request is   *)
(* an upgrade the table does not cover yet (the sweep's grant then has     *)
(* just the mode asked for), and who may be in the registry.               *)
(***************************************************************************)
HeldView ==
    \A t \in Txns, tag \in Tags :
        IF waitCh[t] = "granted" /\ tag = req[t].tag
        THEN holders[tag][t] = req[t].mode
        ELSE heldLocks[t][tag] = holders[tag][t]

\* A request for mode m by a holder of h asks for more than h.
Upgrades(h, m) == m \in Modes /\ ~Covers(h, m) /\ (h # NoMode => Covers(m, h))

\* A waiter asks for more than it holds.
RequestsUpgrade ==
    \A t \in Txns : waitingOn[t] # 0 => Upgrades(holders[req[t].tag][t], req[t].mode)

\* The resources t holds.
HeldTags(t) == {tag \in Tags : holders[tag][t] # NoMode}

\* lockCount counts them.
LocksCounted ==
    \A t \in Txns : IsFiniteSet(HeldTags(t)) /\ lockCount[t] = Cardinality(HeldTags(t))

\* A registered transaction that is not in a call of Lock holds something.
RegistryLive ==
    \A t \in Txns : pc[t] \in {"running", "releasing", "done"} /\ t \in txnRegistry => lockCount[t] # 0

\* A transaction that has ended has an empty heldLocks.
DoneHoldsNothing ==
    \A t \in Txns : pc[t] = "done" => \A tag \in Tags : heldLocks[t][tag] = NoMode

\* The strengthening of IInv that makes the holders and heldLocks agree.
LInv == IInv /\ HeldView /\ RequestsUpgrade /\ LocksCounted /\ RegistryLive /\ DoneHoldsNothing

(* What lockCount does when a lock is granted, upgraded or released. *)
LEMMA CountFacts ==
    ASSUME NEW S, NEW T, IsFiniteSet(S), NEW x
    PROVE  /\ T = S \union {x} => IsFiniteSet(T) /\ Cardinality(T) = Cardinality(S) + Bit(x \notin S)
           /\ T = S \ {x} /\ x \in S => IsFiniteSet(T) /\ Cardinality(T) = Cardinality(S) - 1
           /\ Cardinality(S) \in Nat
           /\ Cardinality(S) = 0 <=> S = {}
<1>1. Cardinality(S) \in Nat /\ (Cardinality(S) = 0 <=> S = {})
    BY FS_CardinalityType, FS_EmptySet
<1>2. ASSUME T = S \union {x} PROVE IsFiniteSet(T) /\ Cardinality(T) = Cardinality(S) + Bit(x \notin S)
    <2>1. CASE x \in S
        <3>1. T = S
            BY <1>2, <2>1
        <3> QED
            BY <3>1, <2>1, <1>1 DEF Bit
    <2>2. CASE x \notin S
        BY <1>2, <2>2, <1>1, FS_AddElement DEF Bit
    <2> QED
        BY <2>1, <2>2
<1>3. ASSUME T = S \ {x}, x \in S PROVE IsFiniteSet(T) /\ Cardinality(T) = Cardinality(S) - 1
    BY <1>3, FS_RemoveElement
<1> QED
    BY <1>1, <1>2, <1>3

(* Initially there are no locks. *)
LEMMA LocksInit == Init => LInv
<1> SUFFICES ASSUME Init PROVE LInv
    OBVIOUS
<1>1. IInv
    BY InvInit
<1>2. HeldView /\ RequestsUpgrade /\ RegistryLive /\ DoneHoldsNothing
    BY DEF Init, HeldView, RequestsUpgrade, RegistryLive, DoneHoldsNothing
<1>3. ASSUME NEW t \in Txns PROVE IsFiniteSet(HeldTags(t)) /\ lockCount[t] = Cardinality(HeldTags(t))
    <2>1. HeldTags(t) = {}
        BY DEF Init, HeldTags
    <2> QED
        BY <2>1, FS_EmptySet DEF Init
<1> QED
    BY <1>1, <1>2, <1>3 DEF LInv, LocksCounted

(* The mode an AcquireLock asks for upgrades what the table has. *)
LEMMA CallUpgrades ==
    ASSUME LInv, NEW t \in Txns, NEW tag \in Tags, NEW mode \in Modes, NEW m \in Modes,
           CallLock(t, tag, mode, m)
    PROVE  Upgrades(holders[tag][t], m) /\ heldLocks[t][tag] = holders[tag][t]
<1>1. pc[t] = "running" /\ ~Covers(heldLocks[t][tag], mode) /\ m = RequestedMode(heldLocks[t][tag], mode)
    BY DEF CallLock
<1>2. waitCh[t] = "empty"
    BY <1>1, RunningWaitsForNothing DEF LInv
<1>3. heldLocks[t][tag] = holders[tag][t]
    BY <1>2 DEF LInv, HeldView
<1>4. holders[tag][t] \in HoldModes
    BY DEF LInv, IInv, TypeOK, HoldModes
<1> QED
    BY <1>1, <1>3, <1>4, UpgradeCovers DEF Upgrades

(* What a grant on the fast path changes. *)
LEMMA LockNowEffect ==
    ASSUME LInv, NEW t \in Txns, NEW tag \in Tags, NEW mode \in Modes, LockNow(t, tag, mode)
    PROVE  /\ pc[t] = "running" /\ waitingOn[t] = 0 /\ waitCh[t] = "empty"
           /\ waiters[tag] = <<>>
           /\ Upgrades(holders[tag][t], holders'[tag][t])
           /\ heldLocks'[t][tag] = holders'[tag][t]
           /\ \A u \in Txns, b \in Tags :
                 u # t \/ b # tag => holders'[b][u] = holders[b][u] /\ heldLocks'[u][b] = heldLocks[u][b]
           /\ \A u \in Txns : lockCount'[u] = IF u = t THEN lockCount[u] + Counted(holders[tag][u]) ELSE lockCount[u]
           /\ txnRegistry' = txnRegistry \union {t}
           /\ UNCHANGED <<waiters, waitingOn, waitGraph, waitCh, pc, req>>
<1>1. PICK m \in Modes :
        /\ CallLock(t, tag, mode, m)
        /\ CanGrantNow(t, tag, m)
        /\ holders' = [holders EXCEPT ![tag][t] = Granted(@, m)]
        /\ lockCount' = [lockCount EXCEPT ![t] = @ + Counted(holders[tag][t])]
        /\ heldLocks' = [heldLocks EXCEPT ![t][tag] = m]
        /\ UNCHANGED <<waiters, waitingOn, waitGraph, waitCh, pc, req>>
    BY DEF LockNow
<1>2. TypeOK
    BY DEF LInv, IInv
<1>3. pc[t] = "running" /\ txnRegistry' = txnRegistry \union {t}
    BY <1>1 DEF CallLock
<1>4. Upgrades(holders[tag][t], m)
    BY <1>1, CallUpgrades
<1>5. holders'[tag][t] = m /\ heldLocks'[t][tag] = m
    BY <1>1, <1>2, <1>4 DEF TypeOK, Granted, Upgrades
<1>6. waiters[tag] = <<>>
    BY <1>1, <1>4 DEF CanGrantNow, Upgrades
<1>7. \A u \in Txns, b \in Tags :
         u # t \/ b # tag => holders'[b][u] = holders[b][u] /\ heldLocks'[u][b] = heldLocks[u][b]
    BY <1>1, <1>2 DEF TypeOK
<1>8. \A u \in Txns : lockCount'[u] = IF u = t THEN lockCount[u] + Counted(holders[tag][u]) ELSE lockCount[u]
    BY <1>1, <1>2 DEF TypeOK
<1>9. waitingOn[t] = 0 /\ waitCh[t] = "empty"
    BY <1>3, RunningWaitsForNothing DEF LInv
<1> QED
    BY <1>1, <1>3, <1>4, <1>5, <1>6, <1>7, <1>8, <1>9

\* A lock granted at once keeps the invariant.
LEMMA LocksAfterLockNow ==
    ASSUME LInv, NEW t \in Txns, NEW tag \in Tags, NEW mode \in Modes, LockNow(t, tag, mode)
    PROVE  HeldView' /\ RequestsUpgrade' /\ LocksCounted' /\ RegistryLive' /\ DoneHoldsNothing'
<1>1. /\ pc[t] = "running" /\ waitingOn[t] = 0 /\ waitCh[t] = "empty"
      /\ Upgrades(holders[tag][t], holders'[tag][t])
      /\ heldLocks'[t][tag] = holders'[tag][t]
      /\ \A u \in Txns, b \in Tags :
            u # t \/ b # tag => holders'[b][u] = holders[b][u] /\ heldLocks'[u][b] = heldLocks[u][b]
      /\ \A u \in Txns : lockCount'[u] = IF u = t THEN lockCount[u] + Counted(holders[tag][u]) ELSE lockCount[u]
      /\ txnRegistry' = txnRegistry \union {t}
      /\ UNCHANGED <<waiters, waitingOn, waitGraph, waitCh, pc, req>>
    BY LockNowEffect
<1>2. \A u \in Txns : req[u].tag \in Tags
    BY DEF LInv, IInv, TypeOK
<1>3. HeldView'
    BY <1>1 DEF LInv, HeldView
<1>4. RequestsUpgrade'
    BY <1>1, <1>2 DEF LInv, RequestsUpgrade
<1>5. holders'[tag][t] # NoMode
    BY <1>1 DEF Upgrades, Modes, NoMode
<1>6. ASSUME NEW u \in Txns PROVE IsFiniteSet(HeldTags(u)') /\ lockCount'[u] = Cardinality(HeldTags(u)')
    <2>1. IsFiniteSet(HeldTags(u)) /\ lockCount[u] = Cardinality(HeldTags(u))
        BY DEF LInv, LocksCounted
    <2>2. CASE u = t
        <3>1. HeldTags(u)' = HeldTags(u) \union {tag} /\ (holders[tag][u] = NoMode <=> tag \notin HeldTags(u))
            BY <1>1, <1>5, <2>2 DEF HeldTags
        <3>2. IsFiniteSet(HeldTags(u)') /\ Cardinality(HeldTags(u)') = Cardinality(HeldTags(u)) + Bit(tag \notin HeldTags(u))
            BY <2>1, <3>1, CountFacts
        <3> QED
            BY <3>1, <3>2, <2>1, <2>2, <1>1 DEF Counted
    <2>3. CASE u # t
        <3>1. HeldTags(u)' = HeldTags(u)
            BY <1>1, <2>3 DEF HeldTags
        <3> QED
            BY <3>1, <2>1, <2>3, <1>1
    <2> QED
        BY <2>2, <2>3
<1>7. lockCount'[t] # 0
    <2>1. HeldTags(t)' # {}
        BY <1>5 DEF HeldTags
    <2> QED
        BY <2>1, <1>6, CountFacts
<1>8. RegistryLive' /\ DoneHoldsNothing'
    BY <1>1, <1>7 DEF LInv, RegistryLive, DoneHoldsNothing
<1> QED
    BY <1>3, <1>4, <1>6, <1>8 DEF LocksCounted

(* What a new waiter changes. *)
Enqueued(t, tag) ==
    /\ pc[t] = "running" /\ waitCh[t] = "empty" /\ waitingOn[t] = 0
    /\ t \notin DOMAIN waitGraph /\ \A b \in Tags : t \notin Members(waiters[b])
    /\ req'[t].tag = tag /\ Upgrades(holders[tag][t], req'[t].mode)
    /\ waiters'[tag] = Append(waiters[tag], t)
    /\ \A b \in Tags \ {tag} : waiters'[b] = waiters[b]
    /\ DOMAIN waitGraph' = DOMAIN waitGraph \union {t}
    /\ \A h \in Txns : waitGraph'[t][h] = NewEdges(t, tag, req'[t].mode)[h]
    /\ \A u \in DOMAIN waitGraph : waitGraph'[u] = waitGraph[u]
    /\ pc'[t] = "enqueued"
    /\ \A u \in Txns \ {t} : req'[u] = req[u] /\ waitingOn'[u] = waitingOn[u] /\ pc'[u] = pc[u]
    /\ txnRegistry' = txnRegistry \union {t}
    /\ UNCHANGED <<holders, lockCount, waitCh, heldLocks>>

\* What a call of Lock that has to wait changes.
LEMMA LockEnqueueEffect ==
    ASSUME LInv, NEW t \in Txns, NEW tag \in Tags, NEW mode \in Modes, LockEnqueue(t, tag, mode)
    PROVE  Enqueued(t, tag)
<1>1. PICK m \in Modes :
        /\ CallLock(t, tag, mode, m)
        /\ ~CanGrantNow(t, tag, m)
        /\ req' = [req EXCEPT ![t] = [tag |-> tag, mode |-> m]]
        /\ waiters' = [waiters EXCEPT ![tag] = Append(@, t)]
        /\ waitingOn' = [waitingOn EXCEPT ![t] = calls[t] + 1]
        /\ waitGraph' = [u \in DOMAIN waitGraph \union {t} |->
                            IF u = t THEN [h \in Txns |-> EdgesOf(t)[h] + NewEdges(t, tag, m)[h]]
                                     ELSE waitGraph[u]]
        /\ pc' = [pc EXCEPT ![t] = "enqueued"]
        /\ UNCHANGED <<holders, lockCount, waitCh, heldLocks>>
    BY DEF LockEnqueue
<1>2. TypeOK
    BY DEF LInv, IInv
<1>3. pc[t] = "running" /\ txnRegistry' = txnRegistry \union {t}
    BY <1>1 DEF CallLock
<1>4. waitingOn[t] = 0 /\ waitCh[t] = "empty" /\ \A b \in Tags : t \notin Members(waiters[b])
    BY <1>3, RunningWaitsForNothing DEF LInv
<1>5. t \notin DOMAIN waitGraph
    BY <1>4 DEF LInv, IInv, WaitersConsistent
<1>6. req'[t].tag = tag /\ req'[t].mode = m
    BY <1>1, <1>2 DEF TypeOK
<1>7. Upgrades(holders[tag][t], m)
    BY <1>1, CallUpgrades
<1>8. waiters'[tag] = Append(waiters[tag], t) /\ \A b \in Tags \ {tag} : waiters'[b] = waiters[b]
    BY <1>1, <1>2 DEF TypeOK
<1>9. \A h \in Txns : waitGraph'[t][h] = NewEdges(t, tag, m)[h]
    <2>1. \A h \in Txns : NewEdges(t, tag, m)[h] \in Int
        BY DEF NewEdges, Bit
    <2>2. \A h \in Txns : EdgesOf(t)[h] = 0
        BY <1>5 DEF EdgesOf
    <2>3. \A h \in Txns : waitGraph'[t][h] = EdgesOf(t)[h] + NewEdges(t, tag, m)[h]
        BY <1>1
    <2> QED
        BY <2>1, <2>2, <2>3
<1>10. DOMAIN waitGraph' = DOMAIN waitGraph \union {t} /\ \A u \in DOMAIN waitGraph : waitGraph'[u] = waitGraph[u]
    BY <1>1, <1>5
<1>11. pc'[t] = "enqueued" /\ \A u \in Txns \ {t} : req'[u] = req[u] /\ waitingOn'[u] = waitingOn[u] /\ pc'[u] = pc[u]
    BY <1>1, <1>2 DEF TypeOK
<1> QED
    BY <1>1, <1>3, <1>4, <1>5, <1>6, <1>7, <1>8, <1>9, <1>10, <1>11 DEF Enqueued

\* A call of Lock that has to wait keeps the invariant.
LEMMA LocksAfterEnqueue ==
    ASSUME LInv, NEW t \in Txns, NEW tag \in Tags, NEW mode \in Modes, LockEnqueue(t, tag, mode)
    PROVE  HeldView' /\ RequestsUpgrade' /\ LocksCounted' /\ RegistryLive' /\ DoneHoldsNothing'
<1>1. /\ pc[t] = "running" /\ waitCh[t] = "empty"
      /\ req'[t].tag = tag /\ Upgrades(holders[tag][t], req'[t].mode)
      /\ pc'[t] = "enqueued"
      /\ \A u \in Txns \ {t} : req'[u] = req[u] /\ waitingOn'[u] = waitingOn[u] /\ pc'[u] = pc[u]
      /\ txnRegistry' = txnRegistry \union {t}
      /\ UNCHANGED <<holders, lockCount, waitCh, heldLocks>>
    BY LockEnqueueEffect DEF Enqueued
<1>2. HeldView'
    BY <1>1 DEF LInv, HeldView
<1>3. RequestsUpgrade'
    BY <1>1 DEF LInv, RequestsUpgrade
<1>4. LocksCounted'
    BY <1>1 DEF LInv, LocksCounted, HeldTags
<1>5. RegistryLive' /\ DoneHoldsNothing'
    BY <1>1 DEF LInv, RegistryLive, DoneHoldsNothing
<1> QED
    BY <1>2, <1>3, <1>4, <1>5

(* An answer that arrives makes the context's view the table's. *)
LEMMA LocksAfterReturn ==
    ASSUME LInv, NEW t \in Txns, LockReturns(t)
    PROVE  HeldView' /\ RequestsUpgrade' /\ LocksCounted' /\ RegistryLive' /\ DoneHoldsNothing'
<1>1. TypeOK
    BY DEF LInv, IInv
<1>2. /\ pc[t] = "blocked" /\ waitCh[t] # "empty"
      /\ waitCh' = [waitCh EXCEPT ![t] = "empty"] /\ pc' = [pc EXCEPT ![t] = "running"]
      /\ req' = [req EXCEPT ![t] = NoRequest]
      /\ heldLocks' = IF waitCh[t] = "granted" THEN [heldLocks EXCEPT ![t][req[t].tag] = req[t].mode]
                                               ELSE heldLocks
      /\ txnRegistry' = IF lockCount[t] = 0 /\ waitingOn[t] = 0 THEN txnRegistry \ {t} ELSE txnRegistry
      /\ UNCHANGED <<holders, waiters, lockCount, waitingOn, lockRegistry, waitGraph, calls, timers, resolving>>
    BY DEF LockReturns
<1>3. waitingOn[t] = 0
    BY <1>2 DEF LInv, IInv, WaitersConsistent
<1>4. /\ waitCh'[t] = "empty" /\ pc'[t] = "running"
      /\ \A u \in Txns \ {t} : waitCh'[u] = waitCh[u] /\ pc'[u] = pc[u] /\ req'[u] = req[u]
      /\ \A u \in Txns \ {t}, b \in Tags : heldLocks'[u][b] = heldLocks[u][b]
    BY <1>1, <1>2 DEF TypeOK
<1>5. \A b \in Tags : heldLocks'[t][b] = IF waitCh[t] = "granted" /\ b = req[t].tag THEN req[t].mode ELSE heldLocks[t][b]
    BY <1>1, <1>2 DEF TypeOK
<1>6. HeldView'
    BY <1>2, <1>4, <1>5 DEF LInv, HeldView
<1>7. RequestsUpgrade'
    BY <1>2, <1>3, <1>4 DEF LInv, RequestsUpgrade
<1>8. LocksCounted'
    BY <1>2 DEF LInv, LocksCounted, HeldTags
<1>9. RegistryLive' /\ DoneHoldsNothing'
    BY <1>2, <1>3, <1>4 DEF LInv, RegistryLive, DoneHoldsNothing
<1> QED
    BY <1>6, <1>7, <1>8, <1>9

(* Steps that change neither the table nor what contexts know: the end of  *)
(* a transaction's work, timers and resolveCycle calls.                    *)
LEMMA LocksAfterMove ==
    ASSUME LInv, UNCHANGED <<tableVars, req, calls, heldLocks>>,
           \A u \in Txns : pc'[u] = "done" => pc[u] = "done" \/ \A tag \in Tags : heldLocks[u][tag] = NoMode,
           \A u \in Txns : pc'[u] \in {"running", "releasing", "done"} => pc[u] \in {"running", "releasing", "done"}
    PROVE  HeldView' /\ RequestsUpgrade' /\ LocksCounted' /\ RegistryLive' /\ DoneHoldsNothing'
<1>1. UNCHANGED <<holders, lockCount, waitingOn, txnRegistry, waitCh>>
    BY DEF tableVars
<1>2. HeldView' /\ RequestsUpgrade'
    BY <1>1 DEF LInv, HeldView, RequestsUpgrade
<1>3. LocksCounted'
    BY <1>1 DEF LInv, LocksCounted, HeldTags
<1>4. RegistryLive' /\ DoneHoldsNothing'
    BY <1>1 DEF LInv, RegistryLive, DoneHoldsNothing
<1> QED
    BY <1>2, <1>3, <1>4

----------------------------------------------------------------------------
(* The effect of a sweep, value by value: n waiters of q are granted. *)
SweepGrants(tag, hold, q, g, count, waitOn, ch, n) ==
    /\ \A u \in Txns : holders'[tag][u] = IF u \in Front(q, n) THEN Granted(hold[u], req[u].mode) ELSE hold[u]
    /\ \A b \in Tags \ {tag} : holders'[b] = holders[b] /\ waiters'[b] = waiters[b]
    /\ waiters'[tag] = SubSeq(q, n + 1, Len(q))
    /\ \A u \in Txns : lockCount'[u] = IF u \in Front(q, n) THEN count[u] + Counted(hold[u]) ELSE count[u]
    /\ \A u \in Txns : waitingOn'[u] = IF u \in Front(q, n) THEN 0 ELSE waitOn[u]
    /\ \A u \in Txns : waitCh'[u] = IF u \in Front(q, n) THEN "granted" ELSE ch[u]
    /\ DOMAIN waitGraph' = DOMAIN g \ Front(q, n)
    /\ \A w \in DOMAIN g \ Front(q, n) : waitGraph'[w] = g[w]

\* WakeUpCompatibleWaiters grants to a prefix of the queue.
LEMMA SweepEffect ==
    ASSUME TypeOK, NEW tag \in Tags, NEW hold, NEW q, NEW g, NEW count, NEW waitOn, NEW ch,
           WakeUpCompatibleWaiters(tag, hold, q, g, count, waitOn, ch)
    PROVE  \E n \in 0..Len(q) : SweepGrants(tag, hold, q, g, count, waitOn, ch, n)
<1>1. PICK n \in 0..Len(q) :
         LET woken == {q[i] : i \in 1..n} IN
         /\ SweepStopsAt(hold, q, n)
         /\ holders' = [holders EXCEPT ![tag] = HoldAfter(hold, q, n)]
         /\ waiters' = [waiters EXCEPT ![tag] = SubSeq(q, n + 1, Len(q))]
         /\ lockCount' = [t \in Txns |-> IF t \in woken THEN count[t] + Counted(hold[t]) ELSE count[t]]
         /\ waitingOn' = [t \in Txns |-> IF t \in woken THEN 0 ELSE waitOn[t]]
         /\ waitGraph' = [t \in DOMAIN g \ woken |-> g[t]]
         /\ waitCh' = [t \in Txns |-> IF t \in woken THEN "granted" ELSE ch[t]]
    BY DEF WakeUpCompatibleWaiters
<1>2. holders'[tag] = HoldAfter(hold, q, n) /\ waiters'[tag] = SubSeq(q, n + 1, Len(q))
    BY <1>1 DEF TypeOK
<1>3. \A b \in Tags \ {tag} : holders'[b] = holders[b] /\ waiters'[b] = waiters[b]
    BY <1>1 DEF TypeOK
<1>4. SweepGrants(tag, hold, q, g, count, waitOn, ch, n)
    BY <1>1, <1>2, <1>3 DEF SweepGrants, HoldAfter, Front
<1> QED
    BY <1>4

(* A waiter the sweep grants gets just the mode it asked for, keeps the    *)
(* rights it had, and is counted once.                                     *)
LEMMA GrantedFacts ==
    ASSUME LInv, NEW tag \in Tags, NEW hold, NEW u \in Txns,
           waitingOn[u] # 0, req[u].tag = tag, hold[u] = holders[tag][u],
           holders'[tag][u] = Granted(hold[u], req[u].mode),
           \A b \in Tags \ {tag} : holders'[b] = holders[b]
    PROVE  /\ holders'[tag][u] = req[u].mode
           /\ Upgrades(holders[tag][u], holders'[tag][u])
           /\ IsFiniteSet(HeldTags(u)')
           /\ lockCount[u] + Counted(hold[u]) = Cardinality(HeldTags(u)')
<1>1. Upgrades(holders[tag][u], req[u].mode)
    BY DEF LInv, RequestsUpgrade
<1>2. holders'[tag][u] = req[u].mode
    BY <1>1 DEF Upgrades, Granted
<1>3. holders'[tag][u] # NoMode
    BY <1>1, <1>2 DEF Upgrades, Modes, NoMode
<1>4. IsFiniteSet(HeldTags(u)) /\ lockCount[u] = Cardinality(HeldTags(u))
    BY DEF LInv, LocksCounted
<1>5. HeldTags(u)' = HeldTags(u) \union {tag} /\ (hold[u] = NoMode <=> tag \notin HeldTags(u))
    BY <1>3 DEF HeldTags
<1>6. IsFiniteSet(HeldTags(u)') /\ Cardinality(HeldTags(u)') = Cardinality(HeldTags(u)) + Bit(tag \notin HeldTags(u))
    BY <1>4, <1>5, CountFacts
<1> QED
    BY <1>1, <1>2, <1>4, <1>5, <1>6 DEF Counted

(* The invariant's part about one transaction. *)
LocksKnown(t) ==
    /\ \A tag \in Tags : IF waitCh[t] = "granted" /\ tag = req[t].tag
                         THEN holders[tag][t] = req[t].mode
                         ELSE heldLocks[t][tag] = holders[tag][t]
    /\ waitingOn[t] # 0 => Upgrades(holders[req[t].tag][t], req[t].mode)
    /\ IsFiniteSet(HeldTags(t)) /\ lockCount[t] = Cardinality(HeldTags(t))
    /\ pc[t] \in {"running", "releasing", "done"} /\ t \in txnRegistry => lockCount[t] # 0
    /\ pc[t] = "done" => \A tag \in Tags : heldLocks[t][tag] = NoMode

\* The invariant, transaction by transaction.
LEMMA LocksKnownParts ==
    /\ LInv => \A t \in Txns : LocksKnown(t)
    /\ (\A t \in Txns : LocksKnown(t)) =>
          HeldView /\ RequestsUpgrade /\ LocksCounted /\ RegistryLive /\ DoneHoldsNothing
BY DEF LInv, LocksKnown, HeldView, RequestsUpgrade, LocksCounted, RegistryLive, DoneHoldsNothing

(* A sweep keeps it for everybody but the transaction x that caused it. *)
LEMMA LocksAfterSweep ==
    ASSUME LInv, NEW tag \in Tags, NEW x \in Txns,
           NEW hold, NEW q, NEW g, NEW count, NEW waitOn, NEW ch, NEW n \in 0..Len(q),
           SweepGrants(tag, hold, q, g, count, waitOn, ch, n),
           Front(q, n) \subseteq Members(waiters[tag]) \ {x},
           UNCHANGED req,
           \A u \in Txns \ {x} :
              /\ hold[u] = holders[tag][u] /\ count[u] = lockCount[u]
              /\ waitOn[u] = waitingOn[u] /\ ch[u] = waitCh[u]
              /\ pc'[u] = pc[u] /\ heldLocks'[u] = heldLocks[u] /\ (u \in txnRegistry' => u \in txnRegistry)
    PROVE  \A u \in Txns \ {x} : LocksKnown(u)'
<1> SUFFICES ASSUME NEW u \in Txns, u # x PROVE LocksKnown(u)'
    OBVIOUS
<1>1. LocksKnown(u)
    BY LocksKnownParts
<1>2. /\ hold[u] = holders[tag][u] /\ count[u] = lockCount[u]
      /\ waitOn[u] = waitingOn[u] /\ ch[u] = waitCh[u]
      /\ pc'[u] = pc[u] /\ heldLocks'[u] = heldLocks[u] /\ (u \in txnRegistry' => u \in txnRegistry)
      /\ req'[u] = req[u] /\ req[u].tag \in Tags
    BY DEF LInv, IInv, TypeOK
<1>3. \A b \in Tags \ {tag} : holders'[b] = holders[b]
    BY DEF SweepGrants
<1>4. CASE u \in Front(q, n)
    <2>1. waitingOn[u] # 0 /\ req[u].tag = tag /\ waitCh[u] = "empty" /\ pc[u] \in {"enqueued", "blocked"}
        BY <1>4 DEF LInv, IInv, WaitersConsistent
    <2>2. /\ holders'[tag][u] = Granted(hold[u], req[u].mode)
          /\ lockCount'[u] = count[u] + Counted(hold[u])
          /\ waitingOn'[u] = 0 /\ waitCh'[u] = "granted"
        BY <1>4 DEF SweepGrants
    <2>3. /\ holders'[tag][u] = req[u].mode
          /\ IsFiniteSet(HeldTags(u)')
          /\ lockCount[u] + Counted(hold[u]) = Cardinality(HeldTags(u)')
        BY <1>2, <1>3, <2>1, <2>2, GrantedFacts
    <2> QED
        BY <1>1, <1>2, <1>3, <2>1, <2>2, <2>3 DEF LocksKnown
<1>5. CASE u \notin Front(q, n)
    <2>1. holders'[tag][u] = holders[tag][u] /\ lockCount'[u] = lockCount[u] /\ waitingOn'[u] = waitingOn[u] /\ waitCh'[u] = waitCh[u]
        BY <1>2, <1>5 DEF SweepGrants
    <2>2. \A b \in Tags : holders'[b][u] = holders[b][u]
        BY <1>3, <2>1
    <2>3. HeldTags(u)' = HeldTags(u)
        BY <2>2 DEF HeldTags
    <2> QED
        BY <1>1, <1>2, <2>1, <2>2, <2>3 DEF LocksKnown
<1> QED
    BY <1>4, <1>5

(* What an Unlock that wakes n waiters changes, the sweep aside. *)
UnlockGrants(t, tag, n) ==
    LET hold == [holders[tag] EXCEPT ![t] = NoMode]
        count == [lockCount EXCEPT ![t] = @ - 1]
    IN  /\ SweepGrants(tag, hold, waiters[tag], EdgesAfterUnlock(t, tag), count, waitingOn, waitCh, n)
        /\ Front(waiters[tag], n) \subseteq Members(waiters[tag]) \ {t}
        /\ hold[t] = NoMode /\ count[t] = lockCount[t] - 1
        /\ \A u \in Txns \ {t} :
              /\ hold[u] = holders[tag][u] /\ count[u] = lockCount[u]
              /\ pc'[u] = pc[u] /\ heldLocks'[u] = heldLocks[u] /\ (u \in txnRegistry' => u \in txnRegistry)
        /\ pc[t] = "releasing" /\ pc'[t] = AfterRelease(heldLocks'[t])
        /\ waitingOn[t] = 0 /\ waitCh[t] = "empty" /\ t \notin Members(waiters[tag])
        /\ heldLocks'[t] = [heldLocks[t] EXCEPT ![tag] = NoMode]
        /\ holders[tag][t] # NoMode
        /\ t \in txnRegistry' => lockCount'[t] # 0 \/ waitingOn'[t] # 0
        /\ UNCHANGED req

\* What Unlock changes: one lock is gone and a prefix of the queue is granted.
LEMMA UnlockEffect ==
    ASSUME LInv, NEW t \in Txns, NEW tag \in Tags, Unlock(t, tag)
    PROVE  \E n \in 0..Len(waiters[tag]) : UnlockGrants(t, tag, n)
<1> DEFINE hold == [holders[tag] EXCEPT ![t] = NoMode]
           count == [lockCount EXCEPT ![t] = @ - 1]
<1>1. /\ pc[t] = "releasing" /\ holders[tag][t] # NoMode
      /\ WakeUpCompatibleWaiters(tag, hold, waiters[tag], EdgesAfterUnlock(t, tag), count, waitingOn, waitCh)
      /\ heldLocks' = [heldLocks EXCEPT ![t][tag] = NoMode]
      /\ txnRegistry' = IF lockCount'[t] = 0 /\ waitingOn'[t] = 0 THEN txnRegistry \ {t} ELSE txnRegistry
      /\ pc' = [pc EXCEPT ![t] = AfterRelease(heldLocks'[t])]
      /\ UNCHANGED req
    BY DEF Unlock
<1>2. TypeOK
    BY DEF LInv, IInv
<1>3. PICK n \in 0..Len(waiters[tag]) :
         SweepGrants(tag, hold, waiters[tag], EdgesAfterUnlock(t, tag), count, waitingOn, waitCh, n)
    BY <1>1, <1>2, SweepEffect
<1>4. waitingOn[t] = 0 /\ waitCh[t] = "empty" /\ t \notin Members(waiters[tag])
    BY <1>1, RunningWaitsForNothing DEF LInv
<1>5. Front(waiters[tag], n) \subseteq Members(waiters[tag])
    <2>1. waiters[tag] \in Seq(Txns)
        BY <1>2 DEF TypeOK
    <2> QED
        BY <2>1 DEF Front, Members
<1>6. hold[t] = NoMode /\ count[t] = lockCount[t] - 1
      /\ \A u \in Txns \ {t} : hold[u] = holders[tag][u] /\ count[u] = lockCount[u]
    BY <1>2 DEF TypeOK
<1>7. /\ \A u \in Txns \ {t} : pc'[u] = pc[u] /\ heldLocks'[u] = heldLocks[u] /\ (u \in txnRegistry' => u \in txnRegistry)
      /\ pc'[t] = AfterRelease(heldLocks'[t])
      /\ heldLocks'[t] = [heldLocks[t] EXCEPT ![tag] = NoMode]
    BY <1>1, <1>2 DEF TypeOK
<1>8. t \in txnRegistry' => lockCount'[t] # 0 \/ waitingOn'[t] # 0
    BY <1>1
<1> QED
    BY <1>1, <1>3, <1>4, <1>5, <1>6, <1>7, <1>8 DEF UnlockGrants

\* Unlock keeps the invariant.
LEMMA LocksAfterUnlock ==
    ASSUME LInv, NEW t \in Txns, NEW tag \in Tags, Unlock(t, tag)
    PROVE  HeldView' /\ RequestsUpgrade' /\ LocksCounted' /\ RegistryLive' /\ DoneHoldsNothing'
<1> DEFINE hold == [holders[tag] EXCEPT ![t] = NoMode]
           count == [lockCount EXCEPT ![t] = @ - 1]
           q == waiters[tag]
           g == EdgesAfterUnlock(t, tag)
<1>0. PICK n \in 0..Len(q) : UnlockGrants(t, tag, n)
    BY UnlockEffect
<1>1. /\ SweepGrants(tag, hold, q, g, count, waitingOn, waitCh, n)
      /\ Front(q, n) \subseteq Members(q) \ {t}
      /\ hold[t] = NoMode /\ count[t] = lockCount[t] - 1
      /\ \A u \in Txns \ {t} :
            /\ hold[u] = holders[tag][u] /\ count[u] = lockCount[u]
            /\ pc'[u] = pc[u] /\ heldLocks'[u] = heldLocks[u] /\ (u \in txnRegistry' => u \in txnRegistry)
      /\ pc[t] = "releasing" /\ pc'[t] = AfterRelease(heldLocks'[t])
      /\ waitingOn[t] = 0 /\ waitCh[t] = "empty" /\ t \notin Members(q)
      /\ heldLocks'[t] = [heldLocks[t] EXCEPT ![tag] = NoMode]
      /\ holders[tag][t] # NoMode
      /\ t \in txnRegistry' => lockCount'[t] # 0 \/ waitingOn'[t] # 0
      /\ UNCHANGED req
    BY <1>0 DEF UnlockGrants
<1> HIDE DEF hold, count, g
<1>2. \A u \in Txns \ {t} : LocksKnown(u)'
    BY <1>1, LocksAfterSweep
<1>3. LocksKnown(t)'
    <2>1. LocksKnown(t)
        BY LocksKnownParts
    <2>2. heldLocks[t] \in [Tags -> HoldModes]
        BY DEF LInv, IInv, TypeOK, HoldModes
    <2>3. /\ holders'[tag][t] = NoMode /\ lockCount'[t] = lockCount[t] - 1
          /\ waitingOn'[t] = 0 /\ waitCh'[t] = "empty"
          /\ \A b \in Tags \ {tag} : holders'[b] = holders[b]
        BY <1>1 DEF SweepGrants
    <2>4. \A b \in Tags : heldLocks'[t][b] = IF b = tag THEN NoMode ELSE heldLocks[t][b]
        BY <1>1, <2>2
    <2>5. IsFiniteSet(HeldTags(t)') /\ lockCount'[t] = Cardinality(HeldTags(t)')
        <3>1. HeldTags(t)' = HeldTags(t) \ {tag} /\ tag \in HeldTags(t)
            BY <1>1, <2>3 DEF HeldTags
        <3>2. IsFiniteSet(HeldTags(t)) /\ lockCount[t] = Cardinality(HeldTags(t))
            BY <2>1 DEF LocksKnown
        <3> QED
            BY <3>1, <3>2, <2>3, CountFacts, SMTT(30)
    <2>6. pc'[t] = "done" => \A b \in Tags : heldLocks'[t][b] = NoMode
        BY <1>1 DEF AfterRelease
    <2> QED
        BY <1>1, <2>1, <2>3, <2>4, <2>5, <2>6 DEF LocksKnown
<1>4. \A u \in Txns : LocksKnown(u)'
    BY <1>2, <1>3, SMTT(30)
<1> QED
    BY <1>4 DEF LocksKnown, HeldView, RequestsUpgrade, LocksCounted, RegistryLive, DoneHoldsNothing

(* What the abort of a victim changes, the sweep aside. *)
LEMMA AbortEffect ==
    ASSUME LInv, NEW r \in resolving, ResolveAbort(r)
    PROVE  LET v == r.victim
               tag == req[v].tag
               q == waiters[tag]
               waitOn == [waitingOn EXCEPT ![v] = 0]
               ch == [waitCh EXCEPT ![v] = "deadlock"]
           IN  /\ v \in Txns /\ tag \in Tags /\ waitingOn[v] # 0 /\ waitCh[v] = "empty"
               /\ pc[v] \in {"enqueued", "blocked"}
               /\ waitOn[v] = 0 /\ ch[v] = "deadlock"
               /\ \A u \in Txns \ {v} : waitOn[u] = waitingOn[u] /\ ch[u] = waitCh[u]
               /\ UNCHANGED <<pc, req, heldLocks, txnRegistry>>
               /\ \E p \in DOMAIN q : \E n \in 0..Len(DeleteAt(q, p)) :
                     /\ q[p] = v
                     /\ DeleteAt(q, p) \in Seq(Txns) /\ Injective(DeleteAt(q, p))
                     /\ Members(DeleteAt(q, p)) = Members(q) \ {v}
                     /\ Front(DeleteAt(q, p), n) \subseteq Members(q) \ {v}
                     /\ SweepGrants(tag, holders[tag], DeleteAt(q, p), EdgesAfterAbort(v, q, p), lockCount, waitOn, ch, n)
<1> DEFINE v == r.victim
           tag == req[v].tag
           q == waiters[tag]
           waitOn == [waitingOn EXCEPT ![v] = 0]
           ch == [waitCh EXCEPT ![v] = "deadlock"]
<1>1. TypeOK
    BY DEF LInv, IInv
<1>2. waitingOn[v] = r.id /\ UNCHANGED <<txnRegistry, lockRegistry, clientVars, timers>>
    BY DEF ResolveAbort
<1>3. PICK p \in DOMAIN q :
         /\ q[p] = v
         /\ WakeUpCompatibleWaiters(tag, holders[tag], DeleteAt(q, p), EdgesAfterAbort(v, q, p), lockCount, waitOn, ch)
    BY DEF ResolveAbort
<1>4. v \in Txns /\ tag \in Tags /\ r.id \in 1..MaxCalls
    BY <1>1 DEF TypeOK
<1>5. waitingOn[v] # 0
    BY <1>2, <1>4
<1>6. waitCh[v] = "empty" /\ pc[v] \in {"enqueued", "blocked"}
    BY <1>4, <1>5 DEF LInv, IInv, WaitersConsistent
<1>7. /\ waitOn[v] = 0 /\ ch[v] = "deadlock"
      /\ \A u \in Txns \ {v} : waitOn[u] = waitingOn[u] /\ ch[u] = waitCh[u]
    BY <1>1, <1>4 DEF TypeOK
<1>8. q \in Seq(Txns) /\ Injective(q)
    BY <1>1, <1>4 DEF TypeOK, LInv, IInv, WaitersConsistent, QueueDistinct, Injective
<1>9. DeleteAt(q, p) \in Seq(Txns) /\ Injective(DeleteAt(q, p)) /\ Members(DeleteAt(q, p)) = Members(q) \ {v}
    BY <1>3, <1>8, DeleteFacts
<1>10. PICK n \in 0..Len(DeleteAt(q, p)) :
          SweepGrants(tag, holders[tag], DeleteAt(q, p), EdgesAfterAbort(v, q, p), lockCount, waitOn, ch, n)
    BY <1>1, <1>3, <1>4, SweepEffect
<1>11. Front(DeleteAt(q, p), n) \subseteq Members(DeleteAt(q, p))
    BY <1>9 DEF Front, Members
<1>12. UNCHANGED <<pc, req, heldLocks, txnRegistry>>
    BY <1>2 DEF clientVars
<1> QED
    BY <1>3, <1>4, <1>5, <1>6, <1>7, <1>9, <1>10, <1>11, <1>12

\* The removal of a deadlock victim keeps the invariant.
LEMMA LocksAfterAbort ==
    ASSUME LInv, NEW r \in resolving, ResolveAbort(r)
    PROVE  HeldView' /\ RequestsUpgrade' /\ LocksCounted' /\ RegistryLive' /\ DoneHoldsNothing'
<1> DEFINE v == r.victim
           tag == req[v].tag
           q == waiters[tag]
           waitOn == [waitingOn EXCEPT ![v] = 0]
           ch == [waitCh EXCEPT ![v] = "deadlock"]
           g(p) == EdgesAfterAbort(v, q, p)
<1>1. /\ v \in Txns /\ tag \in Tags /\ waitingOn[v] # 0 /\ waitCh[v] = "empty"
      /\ pc[v] \in {"enqueued", "blocked"}
      /\ waitOn[v] = 0 /\ ch[v] = "deadlock"
      /\ \A u \in Txns \ {v} : waitOn[u] = waitingOn[u] /\ ch[u] = waitCh[u]
      /\ UNCHANGED <<pc, req, heldLocks, txnRegistry>>
    BY AbortEffect
<1>6. PICK p \in DOMAIN q : \E n \in 0..Len(DeleteAt(q, p)) :
         /\ Front(DeleteAt(q, p), n) \subseteq Members(q) \ {v}
         /\ SweepGrants(tag, holders[tag], DeleteAt(q, p), g(p), lockCount, waitOn, ch, n)
    BY AbortEffect
<1>2. PICK n \in 0..Len(DeleteAt(q, p)) :
         /\ Front(DeleteAt(q, p), n) \subseteq Members(q) \ {v}
         /\ SweepGrants(tag, holders[tag], DeleteAt(q, p), g(p), lockCount, waitOn, ch, n)
    BY <1>6
<1> HIDE DEF v, waitOn, ch, g, q, tag
<1>3. \A u \in Txns \ {v} : LocksKnown(u)'
    BY <1>1, <1>2, LocksAfterSweep DEF q
<1>4. LocksKnown(v)'
    <2>1. LocksKnown(v)
        BY <1>1, LocksKnownParts
    <2>2. v \notin Front(DeleteAt(q, p), n)
        BY <1>2
    <2>3. /\ holders'[tag][v] = holders[tag][v] /\ lockCount'[v] = lockCount[v]
          /\ waitingOn'[v] = 0 /\ waitCh'[v] = "deadlock"
          /\ \A b \in Tags \ {tag} : holders'[b] = holders[b]
        BY <1>1, <1>2, <2>2 DEF SweepGrants
    <2>4. \A b \in Tags : holders'[b][v] = holders[b][v]
        BY <2>3
    <2>5. HeldTags(v)' = HeldTags(v)
        BY <2>4 DEF HeldTags
    <2> QED
        BY <1>1, <2>1, <2>3, <2>4, <2>5 DEF LocksKnown
<1>5. \A u \in Txns : LocksKnown(u)'
    BY <1>3, <1>4
<1> QED
    BY <1>5 DEF LocksKnown, HeldView, RequestsUpgrade, LocksCounted, RegistryLive, DoneHoldsNothing

(* Every step keeps what contexts know of their locks. *)
LEMMA LocksNext == LInv /\ [Next]_vars => LInv'
<1> SUFFICES ASSUME LInv, [Next]_vars PROVE LInv'
    OBVIOUS
<1> DEFINE Goal == HeldView' /\ RequestsUpgrade' /\ LocksCounted' /\ RegistryLive' /\ DoneHoldsNothing'
<1>1. IInv'
    BY InvNext DEF LInv
<1>2. ASSUME NEW t \in Txns, ClientStep(t) PROVE Goal
    <2>1. CASE \E tag \in Tags, mode \in Modes : LockNow(t, tag, mode) \/ LockEnqueue(t, tag, mode)
        BY <2>1, LocksAfterLockNow, LocksAfterEnqueue
    <2>2. CASE LockReturns(t)
        BY <2>2, LocksAfterReturn
    <2>3. CASE EndTransaction(t)
        <3>1. pc[t] = "running" /\ pc' = [pc EXCEPT ![t] = AfterRelease(heldLocks[t])]
              /\ UNCHANGED <<tableVars, req, calls, heldLocks>>
            BY <2>3 DEF EndTransaction
        <3>2. \A u \in Txns : pc'[u] = IF u = t THEN AfterRelease(heldLocks[t]) ELSE pc[u]
            BY <3>1 DEF LInv, IInv, TypeOK
        <3>3. AfterRelease(heldLocks[t]) = "done" => \A tag \in Tags : heldLocks[t][tag] = NoMode
            BY DEF AfterRelease
        <3> QED
            BY <3>1, <3>2, <3>3, LocksAfterMove
    <2>4. CASE \E tag \in Tags : Unlock(t, tag)
        BY <2>4, LocksAfterUnlock
    <2> QED
        BY <1>2, <2>1, <2>2, <2>3, <2>4 DEF ClientStep
<1>3. ASSUME NEW t \in Txns, ArmTimer(t) PROVE Goal
    <2>1. UNCHANGED <<tableVars, req, calls, heldLocks>> /\ pc' = [pc EXCEPT ![t] = "blocked"]
        BY <1>3 DEF ArmTimer
    <2>2. \A u \in Txns : pc'[u] = pc[u] \/ pc'[u] = "blocked"
        BY <2>1 DEF LInv, IInv, TypeOK
    <2> QED
        BY <2>1, <2>2, LocksAfterMove
<1>4. ASSUME UNCHANGED <<tableVars, clientVars>> PROVE Goal
    <2>1. UNCHANGED <<tableVars, pc, req, calls, heldLocks>>
        BY <1>4 DEF clientVars
    <2> QED
        BY <2>1, LocksAfterMove
<1>5. ASSUME NEW r \in resolving, ResolveAbort(r) PROVE Goal
    BY <1>5, LocksAfterAbort
<1>6. Goal
    <2>1. ASSUME NEW t \in Txns, DetectorPicks(t) PROVE UNCHANGED <<tableVars, clientVars>>
        BY <2>1 DEF DetectorPicks
    <2>2. ASSUME NEW t \in Txns, NEW id \in 1..MaxCalls, TimerFires(t, id) PROVE UNCHANGED <<tableVars, clientVars>>
        BY <2>2 DEF TimerFires
    <2>3. ASSUME NEW r \in resolving, ResolveHandled(r) PROVE UNCHANGED <<tableVars, clientVars>>
        BY <2>3 DEF ResolveHandled
    <2>4. ASSUME UNCHANGED vars PROVE UNCHANGED <<tableVars, clientVars>>
        BY <2>4 DEF vars
    <2> HIDE DEF Goal
    <2> QED
        BY <1>2, <1>3, <1>4, <1>5, <2>1, <2>2, <2>3, <2>4 DEF Next, TimerStep, ResolveStep, Finished
<1> QED
    BY <1>1, <1>6 DEF LInv

(* The invariant about locks holds in every reachable state. *)
THEOREM LocksInvariant == Spec => []LInv
BY LocksInit, LocksNext, PTL DEF Spec

(* The transaction context and the lock table agree: whatever is granted   *)
(* on the fast path, by a release or by somebody's abort, lockCount is the *)
(* number of locks held, heldLocks lacks at most the one answer that is on *)
(* its way, and a transaction that has ended holds nothing and has left    *)
(* the registry (so no lock of it can block anybody again).                *)
THEOREM HeldLocksCorrect == Spec => []HeldLocksAgree
<1>1. ASSUME LInv PROVE HeldLocksAgree
    <2> SUFFICES ASSUME NEW t \in Txns
                 PROVE  /\ \A tag \in Tags :
                              \/ heldLocks[t][tag] = holders[tag][t]
                              \/ waitCh[t] = "granted" /\ tag = req[t].tag /\ holders[tag][t] = req[t].mode
                        /\ lockCount[t] = Cardinality(HeldTags(t))
                        /\ pc[t] = "done" => t \notin txnRegistry /\ lockCount[t] = 0
        BY DEF HeldLocksAgree, HeldTags
    <2>1. LocksKnown(t)
        BY <1>1, LocksKnownParts
    <2>2. ASSUME pc[t] = "done" PROVE t \notin txnRegistry /\ lockCount[t] = 0
        <3>1. waitCh[t] = "empty"
            BY <1>1, <2>2, RunningWaitsForNothing DEF LInv
        <3>2. HeldTags(t) = {}
            BY <2>1, <2>2, <3>1 DEF LocksKnown, HeldTags
        <3>3. lockCount[t] = 0
            BY <2>1, <3>2, CountFacts DEF LocksKnown
        <3> QED
            BY <2>1, <2>2, <3>3 DEF LocksKnown
    <2> QED
        BY <2>1, <2>2 DEF LocksKnown
<1> QED
    BY <1>1, LocksInvariant, PTL

----------------------------------------------------------------------------
(* What steps do to holders *)

(* How a step may change one transaction's hold: a fast-path grant with    *)
(* nobody in the queue, a release, or a grant by a sweep that also grants  *)
(* or has removed everybody who was ahead.                                 *)
HoldStep(tag, t) ==
    \/ holders'[tag][t] = holders[tag][t]
    \/ waiters[tag] = <<>> /\ Upgrades(holders[tag][t], holders'[tag][t])
    \/ pc[t] = "releasing" /\ holders'[tag][t] = NoMode
    \/ /\ Upgrades(holders[tag][t], holders'[tag][t])
       /\ t \in Members(waiters[tag])
       /\ \A u \in Txns : Before(waiters[tag], u, t) => u \notin Members(waiters'[tag])

(* Who the sweep of queue q wakes, and who is ahead of him, leaves it. *)
LEMMA SweepOrder ==
    ASSUME NEW q \in Seq(Txns), Injective(q), NEW n \in 0..Len(q), NEW t \in Front(q, n), NEW u
    PROVE  Before(q, u, t) => u \notin Members(SubSeq(q, n + 1, Len(q)))
BY FrontIsPrefix, SuffixFacts DEF Front

\* Unlock takes a lock from its caller only, after the end.
LEMMA UnlockHolds ==
    ASSUME LInv, NEW t \in Txns, NEW tag \in Tags, Unlock(t, tag)
    PROVE  \A b \in Tags, u \in Txns : HoldStep(b, u)
<1> DEFINE hold == [holders[tag] EXCEPT ![t] = NoMode]
           count == [lockCount EXCEPT ![t] = @ - 1]
           q == waiters[tag]
           g == EdgesAfterUnlock(t, tag)
<1>0. PICK n \in 0..Len(q) : UnlockGrants(t, tag, n)
    BY UnlockEffect
<1>1. /\ SweepGrants(tag, hold, q, g, count, waitingOn, waitCh, n)
      /\ Front(q, n) \subseteq Members(q) \ {t}
      /\ hold[t] = NoMode /\ \A u \in Txns \ {t} : hold[u] = holders[tag][u]
      /\ pc[t] = "releasing"
    BY <1>0 DEF UnlockGrants
<1> HIDE DEF hold, count, g
<1>2. q \in Seq(Txns) /\ Injective(q)
    BY DEF TypeOK, LInv, IInv, WaitersConsistent, QueueDistinct, Injective
<1>3. \A b \in Tags \ {tag} : holders'[b] = holders[b]
    BY <1>1 DEF SweepGrants
<1> SUFFICES ASSUME NEW u \in Txns PROVE HoldStep(tag, u)
    BY <1>3 DEF HoldStep
<1>4. CASE u \in Front(q, n)
    <2>1. u # t /\ u \in Members(q) /\ hold[u] = holders[tag][u]
        BY <1>1, <1>4
    <2>2. waitingOn[u] # 0 /\ req[u].tag = tag
        BY <2>1 DEF LInv, IInv, WaitersConsistent
    <2>3. holders'[tag][u] = Granted(hold[u], req[u].mode) /\ waiters'[tag] = SubSeq(q, n + 1, Len(q))
        BY <1>1, <1>4 DEF SweepGrants
    <2>4. Upgrades(holders[tag][u], holders'[tag][u])
        BY <1>3, <2>1, <2>2, <2>3, GrantedFacts
    <2>5. \A w \in Txns : Before(q, w, u) => w \notin Members(waiters'[tag])
        BY <1>2, <1>4, <2>3, SweepOrder
    <2> QED
        BY <2>1, <2>4, <2>5 DEF HoldStep
<1>5. CASE u \notin Front(q, n)
    <2>1. holders'[tag][u] = hold[u]
        BY <1>1, <1>5 DEF SweepGrants
    <2> QED
        BY <2>1, <1>1 DEF HoldStep
<1> QED
    BY <1>4, <1>5

\* The removal of a victim takes no lock from anybody.
LEMMA AbortHolds ==
    ASSUME LInv, NEW r \in resolving, ResolveAbort(r)
    PROVE  \A b \in Tags, u \in Txns : HoldStep(b, u)
<1> DEFINE v == r.victim
           tag == req[v].tag
           q == waiters[tag]
           waitOn == [waitingOn EXCEPT ![v] = 0]
           ch == [waitCh EXCEPT ![v] = "deadlock"]
           g(p) == EdgesAfterAbort(v, q, p)
<1>1. v \in Txns /\ tag \in Tags
    BY AbortEffect
<1>2. PICK p \in DOMAIN q : \E n \in 0..Len(DeleteAt(q, p)) :
         /\ q[p] = v
         /\ DeleteAt(q, p) \in Seq(Txns) /\ Injective(DeleteAt(q, p))
         /\ Members(DeleteAt(q, p)) = Members(q) \ {v}
         /\ Front(DeleteAt(q, p), n) \subseteq Members(q) \ {v}
         /\ SweepGrants(tag, holders[tag], DeleteAt(q, p), g(p), lockCount, waitOn, ch, n)
    BY AbortEffect
<1> DEFINE d == DeleteAt(q, p)
<1>3. PICK n \in 0..Len(d) :
         /\ q[p] = v
         /\ d \in Seq(Txns) /\ Injective(d)
         /\ Members(d) = Members(q) \ {v}
         /\ Front(d, n) \subseteq Members(q) \ {v}
         /\ SweepGrants(tag, holders[tag], d, g(p), lockCount, waitOn, ch, n)
    BY <1>2
<1>4. q \in Seq(Txns) /\ Injective(q)
    BY <1>1 DEF TypeOK, LInv, IInv, WaitersConsistent, QueueDistinct, Injective
<1> HIDE DEF v, tag, waitOn, ch, g
<1>5. \A b \in Tags \ {tag} : holders'[b] = holders[b]
    BY <1>3 DEF SweepGrants
<1> SUFFICES ASSUME NEW u \in Txns PROVE HoldStep(tag, u)
    BY <1>1, <1>5 DEF HoldStep
<1>6. CASE u \in Front(d, n)
    <2>1. u \in Members(q) /\ u # v
        BY <1>3, <1>6
    <2>2. waitingOn[u] # 0 /\ req[u].tag = tag
        BY <1>1, <2>1 DEF LInv, IInv, WaitersConsistent
    <2>3. holders'[tag][u] = Granted(holders[tag][u], req[u].mode) /\ waiters'[tag] = SubSeq(d, n + 1, Len(d))
        BY <1>3, <1>6 DEF SweepGrants
    <2>4. Upgrades(holders[tag][u], holders'[tag][u])
        <3> DEFINE hold == holders[tag]
        <3>1. hold[u] = holders[tag][u] /\ holders'[tag][u] = Granted(hold[u], req[u].mode)
            BY <2>3
        <3> HIDE DEF hold
        <3> QED
            BY <1>1, <1>5, <2>2, <3>1, GrantedFacts
    <2>5. ASSUME NEW w \in Txns, Before(q, w, u) PROVE w \notin Members(waiters'[tag])
        <3>1. CASE w = v
            <4>1. Members(SubSeq(d, n + 1, Len(d))) = Members(d) \ {d[i] : i \in 1..n}
                BY <1>3, SuffixFacts
            <4> QED
                BY <4>1, <3>1, <1>3, <2>3
        <3>2. CASE w # v
            <4>1. Before(d, w, u)
                BY <2>1, <2>5, <3>2, <1>3, <1>4, DeleteOrder
            <4> QED
                BY <4>1, <1>3, <1>6, <2>3, SweepOrder
        <3> QED
            BY <3>1, <3>2
    <2> QED
        BY <2>1, <2>4, <2>5 DEF HoldStep
<1>7. CASE u \notin Front(d, n)
    <2>1. holders'[tag][u] = holders[tag][u]
        BY <1>3, <1>7 DEF SweepGrants
    <2> QED
        BY <2>1 DEF HoldStep
<1> QED
    BY <1>6, <1>7

(* Every step changes every hold in one of these ways. *)
LEMMA HoldNext ==
    ASSUME LInv, [Next]_vars
    PROVE  \A tag \in Tags, t \in Txns : HoldStep(tag, t)
<1> DEFINE Goal == \A tag \in Tags, t \in Txns : HoldStep(tag, t)
<1>1. ASSUME UNCHANGED holders PROVE Goal
    BY <1>1 DEF HoldStep
<1>2. ASSUME NEW t \in Txns, NEW tag \in Tags, NEW mode \in Modes, LockNow(t, tag, mode) PROVE Goal
    BY <1>2, LockNowEffect DEF HoldStep
<1>3. ASSUME NEW t \in Txns, NEW tag \in Tags, NEW mode \in Modes, LockEnqueue(t, tag, mode) PROVE UNCHANGED holders
    BY <1>3, LockEnqueueEffect DEF Enqueued
<1>4. ASSUME NEW t \in Txns, LockReturns(t) \/ EndTransaction(t) \/ ArmTimer(t) \/ DetectorPicks(t)
      PROVE  UNCHANGED holders
    BY <1>4 DEF LockReturns, EndTransaction, ArmTimer, DetectorPicks, tableVars
<1>5. ASSUME NEW t \in Txns, NEW id \in 1..MaxCalls, TimerFires(t, id) PROVE UNCHANGED holders
    BY <1>5 DEF TimerFires, tableVars
<1>6. ASSUME NEW r \in resolving, ResolveHandled(r) PROVE UNCHANGED holders
    BY <1>6 DEF ResolveHandled, tableVars
<1>7. ASSUME UNCHANGED vars PROVE UNCHANGED holders
    BY <1>7 DEF vars, tableVars
<1>8. ASSUME NEW t \in Txns, NEW tag \in Tags, Unlock(t, tag) PROVE Goal
    BY <1>8, UnlockHolds
<1>9. ASSUME NEW r \in resolving, ResolveAbort(r) PROVE Goal
    BY <1>9, AbortHolds
<1> HIDE DEF Goal
<1>10. Goal
    BY <1>1, <1>2, <1>3, <1>4, <1>5, <1>6, <1>7, <1>8, <1>9 DEF Next, ClientStep, TimerStep, ResolveStep, Finished
<1> QED
    BY <1>10 DEF Goal

(* Strict two-phase locking: until it releases, a transaction's locks only *)
(* get stronger, also when lock() turns an S or an IX into a SIX and the   *)
(* grant comes from somebody else's release or abort.                      *)
THEOREM TwoPhaseLocking == Spec => LocksOnlyGrow
<1>1. ASSUME LInv, [Next]_vars
      PROVE  [\A tag \in Tags, t \in Txns :
                 holders[tag][t] # NoMode /\ pc[t] # "releasing" =>
                     Covers(holders'[tag][t], holders[tag][t])]_vars
    <2> SUFFICES ASSUME NEW tag \in Tags, NEW t \in Txns, holders[tag][t] # NoMode, pc[t] # "releasing"
                 PROVE  Covers(holders'[tag][t], holders[tag][t])
        OBVIOUS
    <2>1. HoldStep(tag, t)
        BY <1>1, HoldNext
    <2>2. holders[tag][t] \in Modes
        BY <1>1 DEF LInv, IInv, TypeOK
    <2> QED
        BY <2>1, <2>2, CoversReflexive DEF HoldStep, Upgrades
<1> QED
    BY <1>1, LocksInvariant, PTL DEF Spec, LocksOnlyGrow

(* First come, first served: a grant, on the fast path or by a sweep,      *)
(* never passes a request that was in the queue before it.                 *)
THEOREM FirstComeFirstServed == Spec => NoOvertaking
<1>1. ASSUME LInv, [Next]_vars
      PROVE  [\A tag \in Tags, t \in Txns :
                 holders'[tag][t] \notin {holders[tag][t], NoMode} =>
                     \A i \in DOMAIN waiters[tag] :
                         (\A j \in 1..i : waiters[tag][j] # t) =>
                             waiters[tag][i] \notin Members(waiters'[tag])]_vars
    <2> SUFFICES ASSUME NEW tag \in Tags, NEW t \in Txns, holders'[tag][t] \notin {holders[tag][t], NoMode},
                        NEW i \in DOMAIN waiters[tag], \A j \in 1..i : waiters[tag][j] # t
                 PROVE  waiters[tag][i] \notin Members(waiters'[tag])
        OBVIOUS
    <2>1. waiters[tag] \in Seq(Txns) /\ i \in 1..Len(waiters[tag]) /\ Len(waiters[tag]) \in Nat
        BY <1>1, SMTT(30) DEF LInv, IInv, TypeOK
    <2>2. /\ t \in Members(waiters[tag])
          /\ \A u \in Txns : Before(waiters[tag], u, t) => u \notin Members(waiters'[tag])
        <3>1. HoldStep(tag, t)
            BY <1>1, HoldNext
        <3>2. waiters[tag] # <<>>
            BY <2>1
        <3> QED
            BY <3>1, <3>2 DEF HoldStep
    <2>3. PICK k \in 1..Len(waiters[tag]) : waiters[tag][k] = t
        BY <2>1, <2>2 DEF Members
    <2>4. i < k
        BY <2>1, <2>3
    <2>5. Before(waiters[tag], waiters[tag][i], t)
        BY <2>1, <2>3, <2>4 DEF Before
    <2> QED
        BY <2>1, <2>2, <2>5
<1> QED
    BY <1>1, LocksInvariant, PTL DEF Spec, NoOvertaking

----------------------------------------------------------------------------
(***************************************************************************)
(* The wait graph.  WaitGraphExact is not inductive: an upgrade that is    *)
(* granted leaves one edge too many, and nothing in the property says that *)
(* there is only one, and only for such a holder.  The invariant counts:   *)
(* an edge to somebody who may still call Lock and holds nothing in        *)
(* conflict stands for his place ahead in the queue, exactly.              *)
(***************************************************************************)
AsHolder(m, hold, u, w) == u # w /\ Conflict(m, hold[u])

\* w waits for u because u is ahead of it and wants what conflicts.
AsWaiter(m, other, q, u, w) == ~Compatible(m, other) /\ Before(q, u, w)

\* The number of edges e is at least what holder and waiter account for, and exact where it matters.
Edge(e, asHolder, asWaiter, live) ==
    /\ e \in Int
    /\ e >= Bit(asHolder) + Bit(asWaiter)
    /\ live /\ ~asHolder => e = Bit(asWaiter)

\* u may still call Lock.
MayLock(u) == pc[u] \notin {"releasing", "done"}

\* Every edge of the wait graph is accounted for.
GraphExact ==
    \A w \in DOMAIN waitGraph, u \in Txns :
        Edge(waitGraph[w][u],
             AsHolder(req[w].mode, holders[req[w].tag], u, w),
             AsWaiter(req[w].mode, req[u].mode, waiters[req[w].tag], u, w),
             MayLock(u))

(* Whether an edge is exact depends on nothing but these four. *)
LEMMA SameEdge ==
    ASSUME NEW e, NEW h1, NEW h2, NEW w1, NEW w2, NEW l1, NEW l2,
           h1 <=> h2, w1 <=> w2, l2 => l1, Edge(e, h1, w1, l1)
    PROVE  Edge(e, h2, w2, l2)
BY DEF Edge, Bit

(* A sweep leaves the edges of those it does not wake exact: an edge to a  *)
(* waiter ahead becomes the edge to the holder he turns into, and if he    *)
(* upgraded, what he held before was in conflict with no one he now passes.*)
LEMMA SweepKeepsEdge ==
    ASSUME LInv, NEW tag \in Tags, NEW hold, NEW q \in Seq(Txns), Injective(q), NEW n \in 0..Len(q),
           Members(q) \subseteq Members(waiters[tag]),
           NEW w \in Members(q), w \notin Front(q, n), NEW u \in Txns,
           u \in Members(q) => hold[u] = holders[tag][u],
           NEW after, after[u] = IF u \in Front(q, n) THEN Granted(hold[u], req[u].mode) ELSE hold[u],
           NEW e, NEW live,
           Edge(e, AsHolder(req[w].mode, hold, u, w), AsWaiter(req[w].mode, req[u].mode, q, u, w), live)
    PROVE  Edge(e, AsHolder(req[w].mode, after, u, w),
                   AsWaiter(req[w].mode, req[u].mode, SubSeq(q, n + 1, Len(q)), u, w), live)
<1> DEFINE s == SubSeq(q, n + 1, Len(q))
<1>1. CASE u \notin Front(q, n)
    <2>1. AsHolder(req[w].mode, after, u, w) <=> AsHolder(req[w].mode, hold, u, w)
        BY <1>1 DEF AsHolder
    <2>2. AsWaiter(req[w].mode, req[u].mode, s, u, w) <=> AsWaiter(req[w].mode, req[u].mode, q, u, w)
        BY <1>1, SuffixOrder DEF AsWaiter
    <2> HIDE DEF s
    <2>3. Edge(e, AsHolder(req[w].mode, after, u, w), AsWaiter(req[w].mode, req[u].mode, s, u, w), live)
        BY <2>1, <2>2 DEF Edge, Bit
    <2> QED
        BY <2>3 DEF s
<1>2. CASE u \in Front(q, n)
    <2>1. Front(q, n) \subseteq Members(q)
        BY DEF Front, Members
    <2>2. u \in Members(waiters[tag]) /\ hold[u] = holders[tag][u] /\ u # w
        BY <1>2, <2>1
    <2>3. waitingOn[u] # 0 /\ req[u].tag = tag
        BY <2>2 DEF LInv, IInv, WaitersConsistent
    <2>4. Upgrades(hold[u], req[u].mode)
        BY <2>2, <2>3 DEF LInv, RequestsUpgrade
    <2>5. after[u] = req[u].mode /\ req[u].mode # NoMode
        BY <1>2, <2>4 DEF Upgrades, Granted, Modes, NoMode
    <2>6. Before(q, u, w)
        BY <1>2, FrontIsPrefix
    <2>7. ~Before(s, u, w)
        <3>1. u \notin Members(s)
            BY <1>2, SuffixFacts DEF Front
        <3> QED
            BY <3>1, BeforeMembers
    <2>8. AsHolder(req[w].mode, after, u, w) <=> ~Compatible(req[w].mode, req[u].mode)
        BY <2>2, <2>5 DEF AsHolder, Conflict
    <2>9. AsWaiter(req[w].mode, req[u].mode, q, u, w) <=> ~Compatible(req[w].mode, req[u].mode)
        BY <2>6 DEF AsWaiter
    <2>10. ~AsWaiter(req[w].mode, req[u].mode, s, u, w)
        BY <2>7 DEF AsWaiter
    <2>11. AsHolder(req[w].mode, hold, u, w) => AsHolder(req[w].mode, after, u, w)
        <3>1. w \in Txns /\ req[w].mode \in HoldModes /\ req[u].mode \in HoldModes /\ hold[u] \in HoldModes
            <4>1. w \in Txns
                BY DEF Members
            <4>2. holders[tag][u] \in HoldModes
                BY DEF LInv, IInv, TypeOK, HoldModes
            <4> QED
                BY <4>1, <4>2, <2>2 DEF LInv, IInv, TypeOK, HoldModes
        <3>2. Conflict(req[w].mode, hold[u]) => hold[u] # NoMode
            BY DEF Conflict
        <3>3. hold[u] # NoMode => Covers(req[u].mode, hold[u])
            BY <2>4 DEF Upgrades
        <3> QED
            BY <3>1, <3>2, <3>3, <2>5, ConflictMonotone DEF AsHolder
    <2> DEFINE h0 == AsHolder(req[w].mode, hold, u, w)
               h1 == AsHolder(req[w].mode, after, u, w)
               w0 == AsWaiter(req[w].mode, req[u].mode, q, u, w)
               w1 == AsWaiter(req[w].mode, req[u].mode, s, u, w)
    <2>12. Edge(e, h0, w0, live) /\ (h1 <=> w0) /\ ~w1 /\ (h0 => h1)
        BY <2>8, <2>9, <2>10, <2>11
    <2> HIDE DEF s, h0, h1, w0, w1
    <2>13. Edge(e, h1, w1, live)
        BY <2>12 DEF Edge, Bit
    <2> QED
        BY <2>13 DEF s, h1, w1
<1> QED
    BY <1>1, <1>2

(* Initially there are no edges. *)
LEMMA GraphInit == Init => GraphExact
BY DEF Init, GraphExact

(* A grant on the fast path adds a holder to a tag nobody waits for. *)
LEMMA GraphAfterLockNow ==
    ASSUME LInv, GraphExact, NEW t \in Txns, NEW tag \in Tags, NEW mode \in Modes, LockNow(t, tag, mode)
    PROVE  GraphExact'
<1>1. /\ waiters[tag] = <<>>
      /\ \A u \in Txns, b \in Tags : u # t \/ b # tag => holders'[b][u] = holders[b][u]
      /\ UNCHANGED <<waiters, waitingOn, waitGraph, waitCh, pc, req>>
    BY LockNowEffect
<1> SUFFICES ASSUME NEW w \in DOMAIN waitGraph, NEW u \in Txns
             PROVE  Edge(waitGraph[w][u],
                         AsHolder(req[w].mode, holders'[req[w].tag], u, w),
                         AsWaiter(req[w].mode, req[u].mode, waiters[req[w].tag], u, w),
                         MayLock(u))
    BY <1>1 DEF GraphExact, MayLock
<1>2. w \in Txns /\ req[w].tag \in Tags
    BY DEF LInv, IInv, TypeOK
<1>3. req[w].tag # tag
    <2>1. w \in Members(waiters[req[w].tag])
        BY <1>2 DEF LInv, IInv, WaitersConsistent
    <2> QED
        BY <2>1, <1>1 DEF Members
<1>4. holders'[req[w].tag][u] = holders[req[w].tag][u]
    BY <1>1, <1>2, <1>3
<1>5. AsHolder(req[w].mode, holders'[req[w].tag], u, w) <=> AsHolder(req[w].mode, holders[req[w].tag], u, w)
    BY <1>4 DEF AsHolder
<1> QED
    BY <1>5, SameEdge DEF GraphExact

(* A new waiter brings exactly its conflicts, and is in nobody's way. *)
LEMMA GraphAfterEnqueue ==
    ASSUME LInv, GraphExact, NEW t \in Txns, NEW tag \in Tags, NEW mode \in Modes, LockEnqueue(t, tag, mode)
    PROVE  GraphExact'
<1>5. Enqueued(t, tag)
    BY LockEnqueueEffect
<1>1. /\ pc[t] = "running"
      /\ t \notin DOMAIN waitGraph /\ \A b \in Tags : t \notin Members(waiters[b])
      /\ req'[t].tag = tag
      /\ waiters'[tag] = Append(waiters[tag], t)
      /\ \A b \in Tags \ {tag} : waiters'[b] = waiters[b]
      /\ DOMAIN waitGraph' = DOMAIN waitGraph \union {t}
      /\ \A h \in Txns : waitGraph'[t][h] = NewEdges(t, tag, req'[t].mode)[h]
      /\ \A u \in DOMAIN waitGraph : waitGraph'[u] = waitGraph[u]
      /\ pc'[t] = "enqueued"
      /\ \A u \in Txns \ {t} : req'[u] = req[u] /\ pc'[u] = pc[u]
      /\ UNCHANGED holders
    BY <1>5 DEF Enqueued
<1>2. waiters \in [Tags -> Seq(Txns)]
    BY DEF LInv, IInv, TypeOK
<1> SUFFICES ASSUME NEW w \in DOMAIN waitGraph', NEW u \in Txns
             PROVE  Edge(waitGraph'[w][u],
                         AsHolder(req'[w].mode, holders[req'[w].tag], u, w),
                         AsWaiter(req'[w].mode, req'[u].mode, waiters'[req'[w].tag], u, w),
                         MayLock(u)')
    BY <1>1 DEF GraphExact
<1>3. CASE w # t
    <2>1. w \in DOMAIN waitGraph /\ w \in Txns /\ req'[w] = req[w] /\ req[w].tag \in Tags
        BY <1>1, <1>3 DEF LInv, IInv, TypeOK
    <2>2. Before(waiters'[req[w].tag], u, w) <=> Before(waiters[req[w].tag], u, w)
        <3>1. CASE req[w].tag = tag
            BY <3>1, <1>1, <1>2, <1>3, AppendOrder
        <3>2. CASE req[w].tag # tag
            BY <3>2, <1>1, <2>1
        <3> QED
            BY <3>1, <3>2
    <2>3. AsWaiter(req[w].mode, req'[u].mode, waiters'[req[w].tag], u, w)
          <=> AsWaiter(req[w].mode, req[u].mode, waiters[req[w].tag], u, w)
        <3>1. CASE u = t
            <4>1. ~Before(waiters[req[w].tag], u, w)
                BY <3>1, <1>1, <2>1, BeforeMembers
            <4> QED
                BY <4>1, <2>2 DEF AsWaiter
        <3>2. CASE u # t
            BY <3>2, <1>1, <2>2 DEF AsWaiter
        <3> QED
            BY <3>1, <3>2
    <2>4. MayLock(u)' => MayLock(u)
        BY <1>1 DEF MayLock
    <2>5. Edge(waitGraph[w][u], AsHolder(req[w].mode, holders[req[w].tag], u, w),
               AsWaiter(req[w].mode, req[u].mode, waiters[req[w].tag], u, w), MayLock(u))
        BY <2>1 DEF GraphExact
    <2>6. Edge(waitGraph[w][u], AsHolder(req[w].mode, holders[req[w].tag], u, w),
               AsWaiter(req[w].mode, req'[u].mode, waiters'[req[w].tag], u, w), MayLock(u)')
        BY <2>3, <2>4, <2>5, SameEdge
    <2> QED
        BY <2>1, <2>6, <1>1
<1>4. CASE w = t
    <2> DEFINE m == req'[t].mode
               h == u # t /\ Conflict(m, holders[tag][u])
               a == u \in Members(waiters[tag]) /\ ~Compatible(m, req[u].mode)
    <2>1. waitGraph'[t][u] = Bit(h) + Bit(a)
        BY <1>1 DEF NewEdges
    <2>2. AsHolder(m, holders[tag], u, t) <=> h
        BY DEF AsHolder
    <2>3. AsWaiter(m, req'[u].mode, waiters'[tag], u, t) <=> a
        <3>1. Before(waiters'[tag], u, t) <=> u \in Members(waiters[tag])
            BY <1>1, <1>2, AppendOrder
        <3>2. u \in Members(waiters[tag]) => req'[u] = req[u]
            BY <1>1
        <3> QED
            BY <3>1, <3>2 DEF AsWaiter
    <2> HIDE DEF h, a, m
    <2>4. Edge(waitGraph'[t][u], h, a, MayLock(u)')
        BY <2>1 DEF Edge, Bit
    <2>5. Edge(waitGraph'[t][u], AsHolder(m, holders[tag], u, t), AsWaiter(m, req'[u].mode, waiters'[tag], u, t), MayLock(u)')
        BY <2>2, <2>3, <2>4, SameEdge
    <2> QED
        BY <2>5, <1>1, <1>4 DEF m
<1> QED
    BY <1>3, <1>4

(* Steps that leave the table's rows alone, and move no transaction back   *)
(* from its release.                                                       *)
LEMMA GraphAfterMove ==
    ASSUME LInv, GraphExact, UNCHANGED <<holders, waiters, waitGraph>>,
           \A u \in Txns : MayLock(u)' => MayLock(u),
           \A u \in Txns : waitingOn[u] # 0 => req'[u] = req[u]
    PROVE  GraphExact'
<1> SUFFICES ASSUME NEW w \in DOMAIN waitGraph, NEW u \in Txns
             PROVE  Edge(waitGraph[w][u],
                         AsHolder(req'[w].mode, holders[req'[w].tag], u, w),
                         AsWaiter(req'[w].mode, req'[u].mode, waiters[req'[w].tag], u, w),
                         MayLock(u)')
    BY DEF GraphExact
<1>1. w \in Txns /\ req'[w] = req[w] /\ req[w].tag \in Tags
    BY DEF LInv, IInv, TypeOK, WaitersConsistent
<1>2. AsWaiter(req[w].mode, req'[u].mode, waiters[req[w].tag], u, w)
      <=> AsWaiter(req[w].mode, req[u].mode, waiters[req[w].tag], u, w)
    <2>1. Before(waiters[req[w].tag], u, w) => req'[u] = req[u]
        BY <1>1, BeforeMembers DEF LInv, IInv, WaitersConsistent
    <2> QED
        BY <2>1 DEF AsWaiter
<1> QED
    BY <1>1, <1>2, SameEdge DEF GraphExact

(* A release takes the edges to the holder away and sweeps the queue. *)
LEMMA GraphAfterUnlock ==
    ASSUME LInv, GraphExact, NEW t \in Txns, NEW tag \in Tags, Unlock(t, tag)
    PROVE  GraphExact'
<1> DEFINE hold == [holders[tag] EXCEPT ![t] = NoMode]
           count == [lockCount EXCEPT ![t] = @ - 1]
           q == waiters[tag]
           g == EdgesAfterUnlock(t, tag)
<1>0. PICK n \in 0..Len(q) : UnlockGrants(t, tag, n)
    BY UnlockEffect
<1>1. /\ SweepGrants(tag, hold, q, g, count, waitingOn, waitCh, n)
      /\ hold[t] = NoMode /\ \A u \in Txns \ {t} : hold[u] = holders[tag][u] /\ pc'[u] = pc[u]
      /\ pc'[t] \in {"releasing", "done"}
      /\ t \notin Members(q) /\ holders[tag][t] # NoMode
      /\ UNCHANGED req
    BY <1>0 DEF UnlockGrants, AfterRelease
<1>2. q \in Seq(Txns) /\ Injective(q)
    BY DEF TypeOK, LInv, IInv, WaitersConsistent, QueueDistinct, Injective
<1>3. DOMAIN waitGraph \in SUBSET Txns /\ \A w \in DOMAIN waitGraph : waitGraph[w] \in [Txns -> Int]
    BY DEF LInv, IInv, TypeOK
<1>4. DOMAIN g = DOMAIN waitGraph
    BY DEF EdgesAfterUnlock
<1>5. \A w \in DOMAIN waitGraph :
         g[w] = IF w \in Members(q) /\ ~Compatible(req[w].mode, holders[tag][t])
                THEN [waitGraph[w] EXCEPT ![t] = @ - 1] ELSE waitGraph[w]
    BY DEF EdgesAfterUnlock
<1> HIDE DEF hold, count, g
<1>6. \A u \in Txns : MayLock(u)' => MayLock(u) /\ u # t
    BY <1>1 DEF MayLock
<1>7. /\ \A u \in Txns : holders'[tag][u] = IF u \in Front(q, n) THEN Granted(hold[u], req[u].mode) ELSE hold[u]
      /\ \A b \in Tags \ {tag} : holders'[b] = holders[b] /\ waiters'[b] = waiters[b]
      /\ waiters'[tag] = SubSeq(q, n + 1, Len(q))
      /\ DOMAIN waitGraph' = DOMAIN waitGraph \ Front(q, n)
      /\ \A w \in DOMAIN waitGraph \ Front(q, n) : waitGraph'[w] = g[w]
    BY <1>1, <1>4 DEF SweepGrants
<1> SUFFICES ASSUME NEW w \in DOMAIN waitGraph \ Front(q, n), NEW u \in Txns
             PROVE  Edge(g[w][u],
                         AsHolder(req[w].mode, holders'[req[w].tag], u, w),
                         AsWaiter(req[w].mode, req[u].mode, waiters'[req[w].tag], u, w),
                         MayLock(u)')
    BY <1>1, <1>7 DEF GraphExact
<1>8. w \in Txns /\ req[w].tag \in Tags /\ waitingOn[w] # 0
    BY <1>3 DEF LInv, IInv, TypeOK, WaitersConsistent
<1>9. Edge(waitGraph[w][u],
           AsHolder(req[w].mode, holders[req[w].tag], u, w),
           AsWaiter(req[w].mode, req[u].mode, waiters[req[w].tag], u, w),
           MayLock(u))
    BY DEF GraphExact
<1>10. CASE req[w].tag # tag
    <2>1. w \notin Members(q)
        BY <1>8, <1>10 DEF LInv, IInv, WaitersConsistent
    <2>2. g[w] = waitGraph[w] /\ holders'[req[w].tag] = holders[req[w].tag] /\ waiters'[req[w].tag] = waiters[req[w].tag]
        BY <2>1, <1>5, <1>7, <1>8, <1>10
    <2> QED
        BY <2>2, <1>6, <1>9, SameEdge
<1>11. CASE req[w].tag = tag
    <2> DEFINE m == req[w].mode
    <2>1. w \in Members(q)
        BY <1>8, <1>11 DEF LInv, IInv, WaitersConsistent
    <2>2. Edge(g[w][u], AsHolder(m, hold, u, w), AsWaiter(m, req[u].mode, q, u, w), MayLock(u)')
        <3>1. CASE u = t
            <4>1. ~AsHolder(m, hold, t, w) /\ ~MayLock(t)'
                BY <1>1, <1>6 DEF AsHolder, Conflict
            <4>2. ~AsWaiter(m, req[t].mode, q, t, w)
                BY <1>1, BeforeMembers DEF AsWaiter
            <4>3. waitGraph[w][t] \in Int /\ waitGraph[w][t] >= Bit(AsHolder(m, holders[tag], t, w))
                BY <1>9, <1>11, <3>1, <1>3 DEF Edge, Bit
            <4>4. AsHolder(m, holders[tag], t, w) <=> ~Compatible(m, holders[tag][t])
                BY <1>1, <2>1 DEF AsHolder, Conflict
            <4>5. g[w][t] = waitGraph[w][t] - Bit(~Compatible(m, holders[tag][t]))
                <5>1. waitGraph[w] \in [Txns -> Int]
                    BY <1>3
                <5>2. CASE Compatible(m, holders[tag][t])
                    <6>1. Bit(~Compatible(m, holders[tag][t])) = 0
                        BY <5>2 DEF Bit
                    <6>2. g[w] = waitGraph[w] /\ waitGraph[w][t] \in Int
                        BY <5>1, <5>2, <1>5
                    <6> QED
                        BY <6>1, <6>2
                <5>3. CASE ~Compatible(m, holders[tag][t])
                    <6>1. g[w] = [waitGraph[w] EXCEPT ![t] = @ - 1]
                        BY <5>3, <1>5, <2>1
                    <6> QED
                        BY <5>1, <5>3, <6>1 DEF Bit
                <5> QED
                    BY <5>2, <5>3
            <4> HIDE DEF m
            <4>6. g[w][t] \in Int /\ g[w][t] >= 0
                BY <4>3, <4>4, <4>5 DEF Bit
            <4> QED
                BY <3>1, <4>1, <4>2, <4>6 DEF Edge, Bit
        <3>2. CASE u # t
            <4>1. g[w][u] = waitGraph[w][u]
                BY <3>2, <1>3, <1>5
            <4>2. AsHolder(m, hold, u, w) <=> AsHolder(m, holders[tag], u, w)
                BY <3>2, <1>1 DEF AsHolder
            <4> QED
                BY <4>1, <4>2, <1>6, <1>9, <1>11, SameEdge
        <3> QED
            BY <3>1, <3>2
    <2>3. u \in Members(q) => hold[u] = holders[tag][u]
        BY <1>1
    <2> DEFINE after == holders'[tag]
    <2>4. after[u] = IF u \in Front(q, n) THEN Granted(hold[u], req[u].mode) ELSE hold[u]
        BY <1>7
    <2>5. w \notin Front(q, n)
        OBVIOUS
    <2> HIDE DEF after
    <2>6. Edge(g[w][u], AsHolder(m, after, u, w), AsWaiter(m, req[u].mode, SubSeq(q, n + 1, Len(q)), u, w), MayLock(u)')
        BY <1>2, <2>1, <2>2, <2>3, <2>4, <2>5, SweepKeepsEdge
    <2> QED
        BY <2>6, <1>7, <1>11 DEF after
<1> QED
    BY <1>10, <1>11

(* The abort of a victim takes its row and the edges to it as a waiter     *)
(* away, and sweeps the queue.                                             *)
LEMMA GraphAfterAbort ==
    ASSUME LInv, GraphExact, NEW r \in resolving, ResolveAbort(r)
    PROVE  GraphExact'
<1> DEFINE v == r.victim
           tag == req[v].tag
           q == waiters[tag]
           waitOn == [waitingOn EXCEPT ![v] = 0]
           ch == [waitCh EXCEPT ![v] = "deadlock"]
<1>1. v \in Txns /\ tag \in Tags /\ waitingOn[v] # 0 /\ UNCHANGED <<pc, req>>
    BY AbortEffect
<1>2. PICK p \in DOMAIN q : \E n \in 0..Len(DeleteAt(q, p)) :
         /\ q[p] = v
         /\ DeleteAt(q, p) \in Seq(Txns) /\ Injective(DeleteAt(q, p))
         /\ Members(DeleteAt(q, p)) = Members(q) \ {v}
         /\ Front(DeleteAt(q, p), n) \subseteq Members(q) \ {v}
         /\ SweepGrants(tag, holders[tag], DeleteAt(q, p), EdgesAfterAbort(v, q, p), lockCount, waitOn, ch, n)
    BY AbortEffect
<1> DEFINE d == DeleteAt(q, p)
           g == EdgesAfterAbort(v, q, p)
<1>3. PICK n \in 0..Len(d) :
         /\ q[p] = v
         /\ d \in Seq(Txns) /\ Injective(d)
         /\ Members(d) = Members(q) \ {v}
         /\ Front(d, n) \subseteq Members(q) \ {v}
         /\ SweepGrants(tag, holders[tag], d, g, lockCount, waitOn, ch, n)
    BY <1>2
<1>4. q \in Seq(Txns) /\ Injective(q)
    BY <1>1 DEF TypeOK, LInv, IInv, WaitersConsistent, QueueDistinct, Injective
<1>5. DOMAIN waitGraph \in SUBSET Txns /\ \A w \in DOMAIN waitGraph : waitGraph[w] \in [Txns -> Int]
    BY DEF LInv, IInv, TypeOK
<1> HIDE DEF v, tag, waitOn, ch
<1>6. /\ DOMAIN g = DOMAIN waitGraph \ {v}
      /\ \A w \in DOMAIN waitGraph \ {v} :
            g[w] = IF Before(q, v, w) /\ ~Compatible(req[w].mode, req[v].mode)
                   THEN [waitGraph[w] EXCEPT ![v] = @ - 1] ELSE waitGraph[w]
    <2>1. \A w : Before(q, v, w) <=> w \in {q[j] : j \in (p + 1)..Len(q)}
        BY <1>3, <1>4, BehindPosition
    <2> QED
        BY <2>1 DEF EdgesAfterAbort
<1>7. /\ \A u \in Txns : holders'[tag][u] = IF u \in Front(d, n) THEN Granted(holders[tag][u], req[u].mode)
                                                              ELSE holders[tag][u]
      /\ \A b \in Tags \ {tag} : holders'[b] = holders[b] /\ waiters'[b] = waiters[b]
      /\ waiters'[tag] = SubSeq(d, n + 1, Len(d))
      /\ DOMAIN waitGraph' = (DOMAIN waitGraph \ {v}) \ Front(d, n)
      /\ \A w \in (DOMAIN waitGraph \ {v}) \ Front(d, n) : waitGraph'[w] = g[w]
    BY <1>3, <1>6 DEF SweepGrants
<1> HIDE DEF g
<1> SUFFICES ASSUME NEW w \in (DOMAIN waitGraph \ {v}) \ Front(d, n), NEW u \in Txns
             PROVE  Edge(g[w][u],
                         AsHolder(req[w].mode, holders'[req[w].tag], u, w),
                         AsWaiter(req[w].mode, req[u].mode, waiters'[req[w].tag], u, w),
                         MayLock(u))
    BY <1>1, <1>7 DEF GraphExact, MayLock
<1>8. w \in Txns /\ w # v /\ req[w].tag \in Tags /\ waitingOn[w] # 0 /\ waitGraph[w] \in [Txns -> Int]
    BY <1>5 DEF LInv, IInv, TypeOK, WaitersConsistent
<1>9. Edge(waitGraph[w][u],
           AsHolder(req[w].mode, holders[req[w].tag], u, w),
           AsWaiter(req[w].mode, req[u].mode, waiters[req[w].tag], u, w),
           MayLock(u))
    BY DEF GraphExact
<1>10. CASE req[w].tag # tag
    <2>1. w \notin Members(q)
        BY <1>1, <1>8, <1>10 DEF LInv, IInv, WaitersConsistent
    <2>2. ~Before(q, v, w)
        BY <2>1, BeforeMembers
    <2>3. g[w] = waitGraph[w] /\ holders'[req[w].tag] = holders[req[w].tag] /\ waiters'[req[w].tag] = waiters[req[w].tag]
        BY <2>2, <1>6, <1>7, <1>8, <1>10
    <2> QED
        BY <2>3, <1>9
<1>11. CASE req[w].tag = tag
    <2> DEFINE m == req[w].mode
               hold == holders[tag]
    <2>1. w \in Members(q) /\ w \in Members(d)
        BY <1>1, <1>3, <1>8, <1>11 DEF LInv, IInv, WaitersConsistent
    <2>2. Edge(g[w][u], AsHolder(m, hold, u, w), AsWaiter(m, req[u].mode, d, u, w), MayLock(u))
        <3>1. CASE u = v
            <4>1. ~AsWaiter(m, req[v].mode, d, v, w)
                BY <1>3, BeforeMembers DEF AsWaiter
            <4>2. g[w][v] = waitGraph[w][v] - Bit(AsWaiter(m, req[v].mode, q, v, w))
                <5>1. CASE AsWaiter(m, req[v].mode, q, v, w)
                    <6>1. g[w] = [waitGraph[w] EXCEPT ![v] = @ - 1]
                        BY <5>1, <1>6, <1>8 DEF AsWaiter
                    <6> QED
                        BY <5>1, <6>1, <1>1, <1>8 DEF Bit
                <5>2. CASE ~AsWaiter(m, req[v].mode, q, v, w)
                    <6>1. g[w] = waitGraph[w] /\ waitGraph[w][v] \in Int
                        BY <5>2, <1>1, <1>6, <1>8 DEF AsWaiter
                    <6> QED
                        BY <5>2, <6>1 DEF Bit
                <5> QED
                    BY <5>1, <5>2
            <4> DEFINE h == AsHolder(m, hold, v, w)
                       a == AsWaiter(m, req[v].mode, q, v, w)
            <4>3. Edge(waitGraph[w][v], h, a, MayLock(v))
                BY <3>1, <1>9, <1>11
            <4> HIDE DEF h, a, m
            <4>4. Edge(g[w][v], h, FALSE, MayLock(v))
                BY <4>2, <4>3 DEF Edge, Bit, a
            <4> QED
                BY <3>1, <4>1, <4>4 DEF h, Edge, Bit
        <3>2. CASE u # v
            <4>1. g[w][u] = waitGraph[w][u]
                BY <3>2, <1>6, <1>8
            <4>2. AsWaiter(m, req[u].mode, d, u, w) <=> AsWaiter(m, req[u].mode, q, u, w)
                BY <3>2, <1>3, <1>4, <1>8, DeleteOrder DEF AsWaiter
            <4> QED
                BY <4>1, <4>2, <1>9, <1>11, SameEdge
        <3> QED
            BY <3>1, <3>2
    <2> DEFINE after == holders'[tag]
    <2>3. after[u] = IF u \in Front(d, n) THEN Granted(hold[u], req[u].mode) ELSE hold[u]
        BY <1>7
    <2>4. hold[u] = holders[tag][u] /\ w \notin Front(d, n) /\ Members(d) \subseteq Members(waiters[tag])
        BY <1>3
    <2> HIDE DEF after, hold, d
    <2>5. Edge(g[w][u], AsHolder(m, after, u, w), AsWaiter(m, req[u].mode, SubSeq(d, n + 1, Len(d)), u, w), MayLock(u))
        BY <1>1, <1>3, <2>1, <2>2, <2>3, <2>4, SweepKeepsEdge
    <2> QED
        BY <2>5, <1>7, <1>11 DEF after
<1> QED
    BY <1>10, <1>11

(* Every step keeps the graph exact. *)
LEMMA GraphNext == LInv /\ GraphExact /\ [Next]_vars => GraphExact'
<1> SUFFICES ASSUME LInv, GraphExact, [Next]_vars PROVE GraphExact'
    OBVIOUS
<1>1. ASSUME UNCHANGED <<holders, waiters, waitGraph, req>>, \A u \in Txns : MayLock(u)' => MayLock(u)
      PROVE  GraphExact'
    BY <1>1, GraphAfterMove
<1>2. ASSUME NEW t \in Txns, ClientStep(t) PROVE GraphExact'
    <2>1. CASE \E tag \in Tags, mode \in Modes : LockNow(t, tag, mode) \/ LockEnqueue(t, tag, mode)
        BY <2>1, GraphAfterLockNow, GraphAfterEnqueue
    <2>2. CASE LockReturns(t)
        <3>1. /\ pc[t] = "blocked" /\ waitCh[t] # "empty"
              /\ pc' = [pc EXCEPT ![t] = "running"] /\ req' = [req EXCEPT ![t] = NoRequest]
              /\ UNCHANGED <<holders, waiters, waitGraph>>
            BY <2>2 DEF LockReturns
        <3>2. waitingOn[t] = 0
            BY <3>1 DEF LInv, IInv, WaitersConsistent
        <3>3. \A u \in Txns : (MayLock(u)' => MayLock(u)) /\ (waitingOn[u] # 0 => req'[u] = req[u])
            BY <3>1, <3>2 DEF LInv, IInv, TypeOK, MayLock
        <3> QED
            BY <3>1, <3>3, GraphAfterMove
    <2>3. CASE EndTransaction(t)
        <3>1. /\ pc[t] = "running" /\ pc' = [pc EXCEPT ![t] = AfterRelease(heldLocks[t])]
              /\ UNCHANGED <<holders, waiters, waitGraph, req>>
            BY <2>3 DEF EndTransaction, tableVars
        <3>2. \A u \in Txns : MayLock(u)' => MayLock(u)
            BY <3>1 DEF LInv, IInv, TypeOK, MayLock
        <3> QED
            BY <3>1, <3>2, <1>1
    <2>4. CASE \E tag \in Tags : Unlock(t, tag)
        BY <2>4, GraphAfterUnlock
    <2> QED
        BY <1>2, <2>1, <2>2, <2>3, <2>4 DEF ClientStep
<1>3. ASSUME NEW t \in Txns, ArmTimer(t) PROVE GraphExact'
    <2>1. pc[t] = "enqueued" /\ pc' = [pc EXCEPT ![t] = "blocked"] /\ UNCHANGED <<holders, waiters, waitGraph, req>>
        BY <1>3 DEF ArmTimer, tableVars
    <2>2. \A u \in Txns : MayLock(u)' => MayLock(u)
        BY <2>1 DEF LInv, IInv, TypeOK, MayLock
    <2> QED
        BY <2>1, <2>2, <1>1
<1>4. ASSUME UNCHANGED <<tableVars, clientVars>> PROVE GraphExact'
    <2>1. UNCHANGED <<holders, waiters, waitGraph, req, pc>>
        BY <1>4 DEF tableVars, clientVars
    <2> QED
        BY <2>1, <1>1 DEF MayLock
<1>5. ASSUME NEW r \in resolving, ResolveAbort(r) PROVE GraphExact'
    BY <1>5, GraphAfterAbort
<1>6. ASSUME NEW t \in Txns, DetectorPicks(t) PROVE UNCHANGED <<tableVars, clientVars>>
    BY <1>6 DEF DetectorPicks
<1>7. ASSUME NEW t \in Txns, NEW id \in 1..MaxCalls, TimerFires(t, id) PROVE UNCHANGED <<tableVars, clientVars>>
    BY <1>7 DEF TimerFires
<1>8. ASSUME NEW r \in resolving, ResolveHandled(r) PROVE UNCHANGED <<tableVars, clientVars>>
    BY <1>8 DEF ResolveHandled
<1>9. ASSUME UNCHANGED vars PROVE UNCHANGED <<tableVars, clientVars>>
    BY <1>9 DEF vars
<1> QED
    BY <1>2, <1>3, <1>4, <1>5, <1>6, <1>7, <1>8, <1>9 DEF Next, TimerStep, ResolveStep, Finished

(* The wait graph is exact: lock, unlock, the sweep and the abort of a     *)
(* victim, each changing its own part of the graph, never lose the edge of *)
(* a conflict (the Asserts "Waiter should wait for incompatible holder"),  *)
(* and an edge without a conflict only ever points at a transaction that   *)
(* will not wait again, so that every cycle the detector can find is a     *)
(* deadlock.                                                               *)
THEOREM WaitGraphCorrect == Spec => []WaitGraphExact
<1>1. Spec => [](LInv /\ GraphExact)
    <2>1. Init => LInv /\ GraphExact
        BY LocksInit, GraphInit
    <2>2. LInv /\ GraphExact /\ [Next]_vars => LInv' /\ GraphExact'
        BY LocksNext, GraphNext
    <2> QED
        BY <2>1, <2>2, PTL DEF Spec
<1>2. ASSUME LInv, GraphExact PROVE WaitGraphExact
    <2>1. ASSUME NEW w \in DOMAIN waitGraph, NEW u \in Txns
          PROVE  /\ waitGraph[w][u] >= Bit(BlocksAsHolder(u, w)) + Bit(BlocksAsWaiter(u, w))
                 /\ waitGraph[w][u] > 0 => \/ BlocksAsHolder(u, w) \/ BlocksAsWaiter(u, w)
                                           \/ pc[u] \in {"releasing", "done"}
        <3>1. BlocksAsHolder(u, w) <=> AsHolder(req[w].mode, holders[req[w].tag], u, w)
            BY DEF BlocksAsHolder, AsHolder
        <3>2. BlocksAsWaiter(u, w) <=> AsWaiter(req[w].mode, req[u].mode, waiters[req[w].tag], u, w)
            BY DEF BlocksAsWaiter, AsWaiter, Before
        <3>3. Edge(waitGraph[w][u], BlocksAsHolder(u, w), BlocksAsWaiter(u, w), MayLock(u))
            BY <1>2, <3>1, <3>2, SameEdge DEF GraphExact
        <3> QED
            BY <3>3 DEF Edge, Bit, MayLock
    <2> QED
        BY <2>1 DEF WaitGraphExact, GraphHasConflicts, GraphHasOnlyConflicts
<1> QED
    BY <1>1, <1>2, PTL

============================================================================
