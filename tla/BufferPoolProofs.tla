-------------------------- MODULE BufferPoolProofs --------------------------
(***************************************************************************)
(* Proofs about BufferPool, for any number of goroutines, pages, frames,   *)
(* failed reads and writes and flushes: frames, pins and page locks are    *)
(* accounted for, the users of a page share one frame, and nothing but a   *)
(* client's change alters what a page holds.                               *)
(***************************************************************************)
EXTENDS BufferPool, FiniteSetTheorems, SequenceTheorems, TLAPS

-----------------------------------------------------------------------------
(* Lists of frames *)

(* The entries of a sequence are its range. *)
LEMMA ListRange ==
    ASSUME NEW s \in Seq(Frames)
    PROVE  /\ Len(s) \in Nat /\ DOMAIN s = 1 .. Len(s)
           /\ Range(s) \subseteq Frames
           /\ \A f \in Frames : f \in Range(s) <=> \E i \in 1 .. Len(s) : s[i] = f
           /\ \A i \in 1 .. Len(s) : s[i] \in Range(s)
<1>1. Len(s) \in Nat /\ DOMAIN s = 1 .. Len(s) /\ \A i \in 1 .. Len(s) : s[i] \in Frames
    OBVIOUS
<1>2. Range(s) = {s[i] : i \in 1 .. Len(s)}
    BY RangeEquality
<1>3. \A f \in Frames : f \in Range(s) <=> \E i \in 1 .. Len(s) : s[i] = f
    BY <1>2
<1>4. Range(s) \subseteq Frames
    BY <1>1, <1>2
<1>5. \A i \in 1 .. Len(s) : s[i] \in Range(s)
    BY <1>2
<1> QED
    BY <1>1, <1>3, <1>4, <1>5

(* Unlinking a frame takes it out of the list and leaves the others in.    *)
LEMMA UnlinkFrame ==
    ASSUME NEW s \in Seq(Frames), IsInjective(s), NEW f \in Range(s)
    PROVE  /\ Unlink(s, f) \in Seq(Frames)
           /\ IsInjective(Unlink(s, f))
           /\ Range(Unlink(s, f)) = Range(s) \ {f}
           /\ Len(Unlink(s, f)) = Len(s) - 1
<1> DEFINE i == CHOOSE i \in DOMAIN s : s[i] = f
           r == RemoveAt(s, i)
<1>1. Len(s) \in Nat /\ DOMAIN s = 1 .. Len(s)
    BY ListRange
<1>2. i \in 1 .. Len(s) /\ s[i] = f
    <2>1. \E j \in DOMAIN s : s[j] = f
        BY <1>1, ListRange
    <2> QED
        BY <1>1, <2>1
<1>3. Unlink(s, f) = r
    BY DEF Unlink
<1> HIDE DEF i
<1>4. /\ SubSeq(s, 1, i - 1) \in Seq(Frames) /\ Len(SubSeq(s, 1, i - 1)) = i - 1
      /\ \A j \in 1 .. (i - 1) : SubSeq(s, 1, i - 1)[j] = s[j]
    BY <1>1, <1>2
<1>5. /\ SubSeq(s, i + 1, Len(s)) \in Seq(Frames) /\ Len(SubSeq(s, i + 1, Len(s))) = Len(s) - i
      /\ \A j \in 1 .. (Len(s) - i) : SubSeq(s, i + 1, Len(s))[j] = s[i + j]
    <2> DEFINE q == SubSeq(s, i + 1, Len(s))
    <2>1. \A j \in (i + 1) .. Len(s) : s[j] \in Frames
        BY <1>1, <1>2
    <2>2. /\ q \in Seq(Frames) /\ Len(q) = IF i + 1 <= Len(s) THEN Len(s) - (i + 1) + 1 ELSE 0
          /\ \A j \in 1 .. (Len(s) - (i + 1) + 1) : q[j] = s[(i + 1) + j - 1]
        BY <1>1, <1>2, <2>1, SubSeqProperties
    <2> HIDE DEF q
    <2>3. Len(q) = Len(s) - i
        <3>1. CASE i + 1 <= Len(s)
            <4>1. Len(q) = Len(s) - (i + 1) + 1
                BY <2>2, <3>1
            <4> QED
                BY <1>1, <1>2, <4>1
        <3>2. CASE ~(i + 1 <= Len(s))
            <4>1. Len(q) = 0
                BY <2>2, <3>2
            <4>2. i = Len(s)
                <5>1. i \in Int /\ Len(s) \in Int /\ i <= Len(s)
                    BY <1>1, <1>2
                <5> QED
                    BY <3>2, <5>1
            <4> QED
                BY <1>1, <4>1, <4>2
        <3> QED
            BY <3>1, <3>2
    <2>4. ASSUME NEW j \in 1 .. (Len(s) - i) PROVE q[j] = s[i + j]
        <3>1. j \in 1 .. (Len(s) - (i + 1) + 1) /\ (i + 1) + j - 1 = i + j
            BY <1>1, <1>2
        <3> QED
            BY <2>2, <3>1
    <2> QED
        BY <2>2, <2>3, <2>4 DEF q
<1>6. r \in Seq(Frames) /\ Len(r) = Len(s) - 1
    <2>1. r \in Seq(Frames) /\ Len(r) = (i - 1) + (Len(s) - i)
        BY <1>4, <1>5, ConcatProperties DEF RemoveAt
    <2> QED
        BY <1>1, <1>2, <2>1
<1>7. \A j \in 1 .. (Len(s) - 1) : r[j] = IF j < i THEN s[j] ELSE s[j + 1]
    <2> SUFFICES ASSUME NEW j \in 1 .. (Len(s) - 1) PROVE r[j] = IF j < i THEN s[j] ELSE s[j + 1]
        OBVIOUS
    <2>1. r[j] = IF j <= i - 1 THEN SubSeq(s, 1, i - 1)[j] ELSE SubSeq(s, i + 1, Len(s))[j - (i - 1)]
        <3>1. j \in 1 .. ((i - 1) + (Len(s) - i))
            BY <1>1, <1>2
        <3> DEFINE a == SubSeq(s, 1, i - 1)
                   b == SubSeq(s, i + 1, Len(s))
        <3>2. a \in Seq(Frames) /\ Len(a) = i - 1 /\ b \in Seq(Frames) /\ Len(b) = Len(s) - i
            BY <1>4, <1>5
        <3>3. r = a \o b
            BY DEF RemoveAt
        <3> HIDE DEF a, b, r
        <3>4. \A k \in 1 .. (Len(a) + Len(b)) : (a \o b)[k] = IF k <= Len(a) THEN a[k] ELSE b[k - Len(a)]
            BY <3>2, ConcatProperties
        <3>5. r[j] = IF j <= i - 1 THEN a[j] ELSE b[j - (i - 1)]
            BY <3>1, <3>2, <3>3, <3>4
        <3> QED
            BY <3>5 DEF a, b
    <2>2. CASE j < i
        BY <1>1, <1>2, <1>4, <2>1, <2>2
    <2>3. CASE ~(j < i)
        <3>1. j - (i - 1) \in 1 .. (Len(s) - i) /\ i + (j - (i - 1)) = j + 1 /\ ~(j <= i - 1)
            BY <1>1, <1>2, <2>3
        <3> QED
            BY <1>5, <2>1, <2>3, <3>1
    <2> QED
        BY <2>2, <2>3
<1> HIDE DEF r
<1>8. \A a, b \in 1 .. Len(s) : s[a] = s[b] => a = b
    BY <1>1 DEF IsInjective
<1>9. IsInjective(r)
    <2>1. DOMAIN r = 1 .. (Len(s) - 1)
        BY <1>1, <1>2, <1>6
    <2> SUFFICES ASSUME NEW a \in 1 .. (Len(s) - 1), NEW b \in 1 .. (Len(s) - 1), r[a] = r[b] PROVE a = b
        BY <2>1 DEF IsInjective
    <2>2. a \in 1 .. Len(s) /\ a + 1 \in 1 .. Len(s) /\ b \in 1 .. Len(s) /\ b + 1 \in 1 .. Len(s)
        BY <1>1
    <2>3. (IF a < i THEN a ELSE a + 1) = (IF b < i THEN b ELSE b + 1)
        BY <1>7, <1>8, <2>2
    <2> QED
        BY <1>2, <2>3
<1>10. Range(r) = Range(s) \ {f}
    <2>1. ASSUME NEW g \in Range(r) PROVE g \in Range(s) \ {f}
        <3>1. PICK j \in 1 .. (Len(s) - 1) : r[j] = g
            BY <1>6, ListRange
        <3>2. j \in 1 .. Len(s) /\ j + 1 \in 1 .. Len(s)
            BY <1>1
        <3>3. PICK k \in 1 .. Len(s) : s[k] = g /\ k # i
            <4>1. CASE j < i
                BY <1>2, <1>7, <3>1, <3>2, <4>1
            <4>2. CASE ~(j < i)
                <5>1. s[j + 1] = g /\ j + 1 # i
                    BY <1>2, <1>7, <3>1, <4>2
                <5> QED
                    BY <3>2, <5>1
            <4> QED
                BY <4>1, <4>2
        <3>4. g # f
            BY <1>2, <1>8, <3>3
        <3> QED
            BY <3>3, <3>4, ListRange
    <2>2. ASSUME NEW g \in Range(s) \ {f} PROVE g \in Range(r)
        <3>1. PICK k \in 1 .. Len(s) : s[k] = g
            BY ListRange
        <3>2. k # i
            BY <1>2, <3>1
        <3>3. \E j \in 1 .. (Len(s) - 1) : r[j] = g
            <4>1. CASE k < i
                <5>1. k \in 1 .. (Len(s) - 1)
                    BY <1>1, <1>2, <4>1
                <5> QED
                    BY <1>7, <3>1, <4>1, <5>1
            <4>2. CASE k > i
                <5>1. k - 1 \in 1 .. (Len(s) - 1) /\ ~(k - 1 < i) /\ (k - 1) + 1 = k
                    BY <1>1, <1>2, <4>2
                <5>2. r[k - 1] = g
                    BY <1>7, <3>1, <5>1
                <5> QED
                    BY <5>1, <5>2
            <4> QED
                BY <1>2, <3>2, <4>1, <4>2
        <3> QED
            BY <1>6, <3>3, ListRange
    <2> QED
        BY <2>1, <2>2
<1> QED
    BY <1>3, <1>6, <1>9, <1>10

(* Pushing a frame to the front of a list it is not on. *)
LEMMA PushFrame ==
    ASSUME NEW s \in Seq(Frames), IsInjective(s), NEW f \in Frames, f \notin Range(s)
    PROVE  /\ <<f>> \o s \in Seq(Frames)
           /\ IsInjective(<<f>> \o s)
           /\ Range(<<f>> \o s) = Range(s) \cup {f}
           /\ Len(<<f>> \o s) = Len(s) + 1
<1> DEFINE r == <<f>> \o s
<1>1. /\ Len(s) \in Nat /\ r \in Seq(Frames) /\ Len(r) = Len(s) + 1 /\ r[1] = f
      /\ \A i \in 1 .. Len(s) : r[i + 1] = s[i]
    OBVIOUS
<1> HIDE DEF r
<1>2. \A a, b \in 1 .. Len(s) : s[a] = s[b] => a = b
    BY ListRange DEF IsInjective
<1>3. \A i \in 2 .. Len(r) : i - 1 \in 1 .. Len(s) /\ r[i] = s[i - 1] /\ r[i] \in Range(s)
    <2> SUFFICES ASSUME NEW i \in 2 .. Len(r)
                 PROVE  i - 1 \in 1 .. Len(s) /\ r[i] = s[i - 1] /\ r[i] \in Range(s)
        OBVIOUS
    <2>1. i - 1 \in 1 .. Len(s) /\ (i - 1) + 1 = i
        BY <1>1
    <2>2. r[i] = s[i - 1]
        BY <1>1, <2>1
    <2> QED
        BY <2>1, <2>2, ListRange
<1>4. IsInjective(r)
    <2>1. DOMAIN r = 1 .. Len(r)
        BY <1>1
    <2> SUFFICES ASSUME NEW a \in 1 .. Len(r), NEW b \in 1 .. Len(r), r[a] = r[b] PROVE a = b
        BY <2>1 DEF IsInjective
    <2>2. CASE a = 1 \/ b = 1
        BY <1>1, <1>3, <2>2
    <2>3. CASE a # 1 /\ b # 1
        <3>1. a \in 2 .. Len(r) /\ b \in 2 .. Len(r)
            BY <1>1, <2>3
        <3>2. a - 1 = b - 1
            BY <1>2, <1>3, <3>1
        <3> QED
            BY <3>1, <3>2
    <2> QED
        BY <2>2, <2>3
<1>5. Range(r) = Range(s) \cup {f}
    <2>1. ASSUME NEW g \in Range(r) PROVE g \in Range(s) \cup {f}
        <3>1. PICK i \in 1 .. Len(r) : r[i] = g
            BY <1>1, ListRange
        <3>2. i = 1 \/ i \in 2 .. Len(r)
            BY <1>1
        <3> QED
            BY <1>1, <1>3, <3>1, <3>2
    <2>2. ASSUME NEW g \in Range(s) PROVE g \in Range(r)
        <3>1. PICK i \in 1 .. Len(s) : s[i] = g
            BY ListRange
        <3>2. i + 1 \in 1 .. Len(r) /\ r[i + 1] = g
            BY <1>1, <3>1
        <3> QED
            BY <1>1, <3>2, ListRange
    <2>3. f \in Range(r)
        <3>1. 1 \in 1 .. Len(r)
            BY <1>1
        <3> QED
            BY <1>1, <3>1, ListRange
    <2> QED
        BY <2>1, <2>2, <2>3
<1> QED
    BY <1>1, <1>4, <1>5 DEF r

(* Two lists without a common frame, one after the other. *)
LEMMA TwoLists ==
    ASSUME NEW s \in Seq(Frames), NEW u \in Seq(Frames)
    PROVE  /\ s \o u \in Seq(Frames)
           /\ Range(s \o u) = Range(s) \cup Range(u)
           /\ Len(s \o u) = Len(s) + Len(u)
           /\ IsInjective(s) /\ IsInjective(u) /\ Range(s) \cap Range(u) = {} => IsInjective(s \o u)
<1> DEFINE r == s \o u
           m == Len(s)
           n == Len(u)
<1>1. /\ m \in Nat /\ n \in Nat /\ r \in Seq(Frames) /\ Len(r) = m + n
      /\ (\A i \in 1 .. m : r[i] = s[i]) /\ \A i \in 1 .. n : r[m + i] = u[i]
    OBVIOUS
<1>2. \A g \in Frames : (g \in Range(s) <=> \E i \in 1 .. m : s[i] = g) /\ (g \in Range(u) <=> \E i \in 1 .. n : u[i] = g)
             /\ (g \in Range(r) <=> \E i \in 1 .. (m + n) : r[i] = g)
    <2>1. \A g \in Frames : g \in Range(s) <=> \E i \in 1 .. m : s[i] = g
        BY ListRange
    <2>2. \A g \in Frames : g \in Range(u) <=> \E i \in 1 .. n : u[i] = g
        BY ListRange
    <2>3. \A g \in Frames : g \in Range(r) <=> \E i \in 1 .. Len(r) : r[i] = g
        BY <1>1, ListRange, Zenon
    <2> HIDE DEF r, m, n
    <2> QED
        BY <1>1, <2>1, <2>2, <2>3
<1>9. Range(r) \subseteq Frames /\ Range(s) \subseteq Frames /\ Range(u) \subseteq Frames
    BY <1>1, ListRange
<1>3. DOMAIN r = 1 .. (m + n) /\ DOMAIN s = 1 .. m /\ DOMAIN u = 1 .. n
    BY <1>1
<1> HIDE DEF r, m, n
<1>4. \A i \in 1 .. (m + n) : \/ i \in 1 .. m /\ r[i] = s[i]
                              \/ \E j \in 1 .. n : i = m + j /\ r[i] = u[j]
    <2> SUFFICES ASSUME NEW i \in 1 .. (m + n), i \notin 1 .. m
                 PROVE  \E j \in 1 .. n : i = m + j /\ r[i] = u[j]
        BY <1>1
    <2>1. i - m \in 1 .. n /\ i = m + (i - m)
        BY <1>1
    <2> QED
        BY <1>1, <2>1
<1>5. Range(r) = Range(s) \cup Range(u)
    <2>1. ASSUME NEW g \in Range(r) PROVE g \in Range(s) \cup Range(u)
        BY <1>2, <1>4, <1>9
    <2>2. ASSUME NEW g \in Range(s) PROVE g \in Range(r)
        <3>1. PICK i \in 1 .. m : s[i] = g
            BY <1>2, <1>9
        <3>2. i \in 1 .. (m + n) /\ r[i] = g
            BY <1>1, <3>1
        <3> QED
            BY <1>2, <1>9, <3>2
    <2>3. ASSUME NEW g \in Range(u) PROVE g \in Range(r)
        <3>1. PICK i \in 1 .. n : u[i] = g
            BY <1>2, <1>9
        <3>2. m + i \in 1 .. (m + n) /\ r[m + i] = g
            BY <1>1, <3>1
        <3> QED
            BY <1>2, <1>9, <3>2
    <2> QED
        BY <2>1, <2>2, <2>3
<1>6. ASSUME IsInjective(s), IsInjective(u), Range(s) \cap Range(u) = {} PROVE IsInjective(r)
    <2>1. (\A i, j \in 1 .. m : s[i] = s[j] => i = j) /\ \A i, j \in 1 .. n : u[i] = u[j] => i = j
        BY <1>3, <1>6 DEF IsInjective
    <2>2. \A i \in 1 .. m : \A j \in 1 .. n : s[i] # u[j]
        <3>1. (\A i \in 1 .. m : s[i] \in Range(s)) /\ \A j \in 1 .. n : u[j] \in Range(u)
            BY ListRange DEF m, n
        <3> QED
            BY <1>6, <3>1
    <2> SUFFICES ASSUME NEW a \in 1 .. (m + n), NEW b \in 1 .. (m + n), r[a] = r[b] PROVE a = b
        BY <1>3 DEF IsInjective
    <2> QED
        BY <1>4, <2>1, <2>2
<1> QED
    BY <1>1, <1>5, <1>6 DEF r, m, n

-----------------------------------------------------------------------------
(***************************************************************************)
(* The inductive invariant.  The properties say what the pool promises;    *)
(* they are kept because                                                   *)
(*   - the inOld flag of a frame tells which list it is on;                *)
(*   - the map leads to listed frames that hold the page, and a frame that *)
(*     has a page is listed or in the hands of one goroutine;              *)
(*   - a goroutine that replaces a frame's page is the only one to hold    *)
(*     the frame, and one that uses a page holds a listed frame;           *)
(*   - unless a read has failed, a page is locked by the one call that     *)
(*     evicts or loads it, and is in no frame of the map meanwhile.        *)
(***************************************************************************)
VictimHeld(t) == pc[t] \in {"victim", "writeback", "clean", "release"}

\* Every frame is at most once on one list, the one inOld names, and no frame is created in excess.
ListsOK ==
    /\ IsInjective(oldList) /\ IsInjective(youngList)
    /\ Range(oldList) \subseteq inOld
    /\ Range(youngList) \cap inOld = {}
    /\ Len(oldList) + Len(youngList) + numBaking <= NumPages

\* The map leads to listed frames that hold the page.
MapOK ==
    /\ \A p \in Pages : pages[p] # NoFrame => pages[p] \in Listed /\ pageId[pages[p]] = p
    /\ \A f \in Listed : pageId[f] \in Pages
    /\ \A f \in Frames : pageId[f] # NoPage => f \in Listed \/ \E t \in Threads : Baking(t) /\ mine[t] = f

\* What goroutine t has in hand, by where it is.
ClientOK(t) ==
    /\ pc[t] # "idle" => want[t] \in Pages
    /\ pc[t] \in {"idle", "lock", "look", "evict"} => mine[t] = NoFrame
    /\ Baking(t) => mine[t] \in Frames \ Listed /\ \A u \in Threads \ {t} : mine[u] # mine[t]
    /\ pc[t] = "got" => mine[t] \in Listed \cup {NoFrame}
    /\ pc[t] \in {"pinned", "unpin"} => mine[t] \in Listed
    /\ VictimHeld(t) => pageId[mine[t]] \in Pages
    /\ pc[t] \in {"load", "reading", "publish"} \/ Pinning(t) => pageId[mine[t]] = want[t]
    /\ t \in changed => pc[t] = "pinned"

\* So it is for all goroutines.
ClientsOK == \A t \in Threads : ClientOK(t)

\* Who has pinned frame f.
Holders(f) == {t \in Threads : mine[t] = f}

\* The calls of GetPage that numBaking counts.
InBaking == {t \in Threads : Baking(t)}

\* The counters count them.
Counts ==
    /\ numBaking = Cardinality(InBaking)
    /\ \A f \in Frames : refCount[f] = Cardinality(Holders(f))

\* What the flusher has chosen are frames with a page.
FlushOK ==
    /\ flushPc \in {"write", "written"} => dirtyPages # <<>>
    /\ \A i \in 1 .. Len(dirtyPages) : pageId[dirtyPages[i]] \in Pages

\* No page is locked by nobody.
LocksHeld == \A p \in pageLock : \E t \in Threads : Owns(t, p)

\* A page that is evicted or loaded is locked.
OwnersLock == \A p \in Pages : \A t \in Threads : Owns(t, p) => p \in pageLock

\* At most one call evicts or loads a page.
OneOwner == \A p \in Pages : \A t, u \in Threads : Owns(t, p) /\ Owns(u, p) => t = u

\* A page that t evicts or loads is not in the map.
OutOfMap(t) ==
    /\ VictimHeld(t) => pageId[mine[t]] # want[t] /\ pages[pageId[mine[t]]] = NoFrame
    /\ pc[t] = "evict" \/ Baking(t) => pages[want[t]] = NoFrame

\* A listed frame is the one the map leads to.
InMap == \A f \in Listed : pages[pageId[f]] = f

\* A page has one frame, unless a read has failed.
Exclusive ==
    "readFailed" \notin mishaps =>
        OwnersLock /\ OneOwner /\ (\A t \in Threads : OutOfMap(t)) /\ InMap

\* The inductive invariant.
PInv == TypeOK /\ ListsOK /\ MapOK /\ ClientsOK /\ Counts /\ FlushOK /\ LocksHeld /\ Exclusive

\* Where a goroutine can be.
Labels == InGetPage \cup {"idle", "pinned", "unpin"}

(* An empty pool satisfies the invariant. *)
LEMMA PoolInit == Init => PInv
<1> SUFFICES ASSUME Init PROVE PInv
    OBVIOUS
<1>1. /\ oldList = <<>> /\ youngList = <<>> /\ Range(<<>>) = {} /\ Listed = {} /\ dirtyPages = <<>>
      /\ IsInjective(<<>>) /\ Len(<<>>) = 0
    BY DEF Init, Listed, Range, IsInjective
<1>2. TypeOK
    <2>1. Torn \in Values /\ \A p \in Pages : <<p, 0>> \in Values
        BY PoolAssumption DEF Values
    <2>2. <<>> \in Seq(Frames)
        OBVIOUS
    <2> QED
        BY <1>1, <2>1, <2>2, PoolAssumption DEF Init, TypeOK
<1>3. NumPages \in Nat
    BY PoolAssumption, FS_CardinalityType DEF NumPages
<1>4. ListsOK
    BY <1>1, <1>3 DEF Init, ListsOK
<1>5. MapOK /\ FlushOK /\ LocksHeld /\ ClientsOK
    BY <1>1 DEF Init, MapOK, FlushOK, LocksHeld, ClientsOK, ClientOK, Baking, Pinning, VictimHeld
<1>6. Counts
    <2>1. InBaking = {} /\ \A f \in Frames : Holders(f) = {}
        BY PoolAssumption DEF Init, InBaking, Holders, Baking
    <2> QED
        BY <2>1, FS_EmptySet DEF Init, Counts
<1>7. Exclusive
    BY <1>1 DEF Init, Exclusive, OwnersLock, OneOwner, OutOfMap, InMap, Owns, VictimHeld, Baking, InGetPage
<1> QED
    BY <1>2, <1>4, <1>5, <1>6, <1>7 DEF PInv

-----------------------------------------------------------------------------
(* What a step of one goroutine leaves alone *)

(* No step of t moves another goroutine or changes the page of its frame. *)
Others(t) ==
    \A u \in Threads \ {t} :
        /\ pc'[u] = pc[u] /\ want'[u] = want[u] /\ mine'[u] = mine[u]
        /\ mine[u] \in Frames => pageId'[mine[u]] = pageId[mine[u]]

(* So the others own what they owned, and are where they were. *)
LEMMA OthersStay ==
    ASSUME PInv, NEW t \in Threads, Others(t), NEW u \in Threads \ {t}
    PROVE  /\ Baking(u)' <=> Baking(u)
           /\ VictimHeld(u)' <=> VictimHeld(u)
           /\ Pinning(u)' <=> Pinning(u)
           /\ \A p \in Pages : Owns(u, p)' <=> Owns(u, p)
<1>1. pc'[u] = pc[u] /\ want'[u] = want[u] /\ mine'[u] = mine[u]
    BY DEF Others
<1>2. VictimHeld(u) => mine[u] \in Frames
    BY DEF PInv, ClientsOK, ClientOK, VictimHeld, Baking
<1>3. VictimHeld(u) => pageId'[mine[u]] = pageId[mine[u]]
    BY <1>2 DEF Others
<1> QED
    BY <1>1, <1>3 DEF Baking, VictimHeld, Pinning, Owns

(* The others keep their part of the invariant as long as the frames they  *)
(* use stay listed and those they replace are left to them.                *)
LEMMA OthersOK ==
    ASSUME PInv, NEW t \in Threads, Others(t), ClientOK(t)',
           \A u \in Threads \ {t} :
               /\ u \in changed' <=> u \in changed
               /\ mine[u] \in Listed => mine[u] \in Listed'
               /\ Baking(u) => mine[u] \notin Listed' /\ mine'[t] # mine[u]
    PROVE  ClientsOK'
<1> SUFFICES ASSUME NEW u \in Threads \ {t} PROVE ClientOK(u)'
    BY DEF ClientsOK
<1>1. /\ pc'[u] = pc[u] /\ want'[u] = want[u] /\ mine'[u] = mine[u]
      /\ mine[u] \in Frames => pageId'[mine[u]] = pageId[mine[u]]
    BY DEF Others
<1>2. (Baking(u)' <=> Baking(u)) /\ (VictimHeld(u)' <=> VictimHeld(u)) /\ (Pinning(u)' <=> Pinning(u))
    BY OthersStay
<1>3. ClientOK(u) /\ mine[u] \in Frames \cup {NoFrame}
    BY DEF PInv, ClientsOK, TypeOK
<1>4. Baking(u) => \A w \in Threads \ {u} : mine'[w] # mine'[u]
    BY <1>1, <1>3 DEF ClientOK, Others
<1>5. VictimHeld(u) => Baking(u)
    BY DEF VictimHeld, Baking
<1>6. pc[u] \in {"load", "reading", "publish"} => Baking(u)
    BY DEF Baking
<1>7. Pinning(u) => mine[u] \in Frames
    BY <1>3 DEF Pinning
<1>8. Baking(u) => mine'[u] \in Frames \ Listed'
    BY <1>1, <1>3 DEF ClientOK
<1>9. VictimHeld(u)' => pageId'[mine'[u]] \in Pages
    BY <1>1, <1>2, <1>3, <1>5 DEF ClientOK
<1>10. pc'[u] \in {"load", "reading", "publish"} \/ Pinning(u)' => pageId'[mine'[u]] = want'[u]
    BY <1>1, <1>2, <1>3, <1>6, <1>7 DEF ClientOK
<1>11. /\ pc'[u] # "idle" => want'[u] \in Pages
       /\ pc'[u] \in {"idle", "lock", "look", "evict"} => mine'[u] = NoFrame
       /\ pc'[u] = "got" => mine'[u] \in Listed' \cup {NoFrame}
       /\ pc'[u] \in {"pinned", "unpin"} => mine'[u] \in Listed'
       /\ u \in changed' => pc'[u] = "pinned"
    BY <1>1, <1>3 DEF ClientOK
<1> QED
    BY <1>2, <1>4, <1>8, <1>9, <1>10, <1>11 DEF ClientOK

(* A locked page has an owner afterwards if t locks only pages it then     *)
(* owns, and unlocks the pages it gives up.                                *)
LEMMA LocksStep ==
    ASSUME PInv, NEW t \in Threads, Others(t),
           \A p \in pageLock' : p \in Pages /\ (Owns(t, p)' \/ (p \in pageLock /\ ~Owns(t, p)))
    PROVE  LocksHeld'
<1> SUFFICES ASSUME NEW p \in pageLock', ~Owns(t, p)' PROVE \E u \in Threads : Owns(u, p)'
    BY DEF LocksHeld
<1>1. p \in pageLock /\ ~Owns(t, p) /\ p \in Pages
    OBVIOUS
<1>2. PICK u \in Threads : Owns(u, p)
    BY <1>1 DEF PInv, LocksHeld
<1> QED
    BY <1>1, <1>2, OthersStay

(* Locking and unlocking keep the owners apart if t takes only pages       *)
(* nobody has locked, and unlocks only its own.                            *)
LEMMA OwnersStep ==
    ASSUME PInv, NEW t \in Threads, Others(t), "readFailed" \notin mishaps,
           \A p \in Pages : Owns(t, p)' => p \in pageLock' /\ (Owns(t, p) \/ p \notin pageLock),
           \A p \in Pages : p \in pageLock => p \in pageLock' \/ Owns(t, p)
    PROVE  OwnersLock' /\ OneOwner'
<1>1. OwnersLock /\ OneOwner
    BY DEF PInv, Exclusive
<1>2. \A p \in Pages : \A u \in Threads \ {t} : Owns(u, p)' <=> Owns(u, p)
    BY OthersStay
<1>3. ASSUME NEW p \in Pages, NEW u \in Threads, Owns(u, p)' PROVE p \in pageLock'
    <2>1. CASE u = t
        BY <1>3, <2>1
    <2>2. CASE u # t
        BY <1>1, <1>2, <1>3, <2>2 DEF OwnersLock, OneOwner
    <2> QED
        BY <2>1, <2>2
<1>4. ASSUME NEW p \in Pages, NEW u \in Threads \ {t}, Owns(t, p)', Owns(u, p)' PROVE FALSE
    BY <1>1, <1>2, <1>4 DEF OwnersLock, OneOwner
<1>5. ASSUME NEW p \in Pages, NEW u \in Threads, NEW w \in Threads, Owns(u, p)', Owns(w, p)' PROVE u = w
    BY <1>1, <1>2, <1>4, <1>5 DEF OneOwner
<1> QED
    BY <1>3, <1>5 DEF OwnersLock, OneOwner

(* Pages that others evict or load stay out of the map if t maps only      *)
(* pages it owns.                                                          *)
LEMMA OthersOutOfMap ==
    ASSUME PInv, NEW t \in Threads, Others(t), "readFailed" \notin mishaps,
           \A p \in Pages : pages'[p] = pages[p] \/ pages'[p] = NoFrame \/ Owns(t, p),
           NEW u \in Threads \ {t}
    PROVE  OutOfMap(u)'
<1>1. OneOwner /\ OutOfMap(u) /\ ClientOK(u)
    BY DEF PInv, Exclusive, ClientsOK
<1>2. pc'[u] = pc[u] /\ want'[u] = want[u] /\ mine'[u] = mine[u]
    BY DEF Others
<1>3. \A p \in Pages : Owns(u, p) => pages'[p] = pages[p] \/ pages'[p] = NoFrame
    BY <1>1 DEF OneOwner
<1>4. (Baking(u)' <=> Baking(u)) /\ (VictimHeld(u)' <=> VictimHeld(u))
    BY OthersStay
<1>5. ASSUME VictimHeld(u) PROVE pageId'[mine[u]] # want[u] /\ pages'[pageId'[mine[u]]] = NoFrame
    <2>1. mine[u] \in Frames /\ pageId'[mine[u]] = pageId[mine[u]] /\ pageId[mine[u]] \in Pages
        BY <1>1, <1>5 DEF ClientOK, Baking, VictimHeld, Others
    <2>2. Owns(u, pageId[mine[u]])
        BY <1>5 DEF Owns, VictimHeld
    <2> QED
        BY <1>1, <1>3, <1>5, <2>1, <2>2 DEF OutOfMap
<1>6. ASSUME pc[u] = "evict" \/ Baking(u) PROVE pages'[want[u]] = NoFrame
    <2>1. want[u] \in Pages
        BY <1>1, <1>6 DEF ClientOK, Baking
    <2>2. Owns(u, want[u])
        BY <1>6 DEF Owns, Baking, InGetPage
    <2> QED
        BY <1>1, <1>3, <1>6, <2>1, <2>2 DEF OutOfMap
<1> QED
    BY <1>2, <1>4, <1>5, <1>6 DEF OutOfMap

(* What the lists, the map and the counts are about *)
poolVars == <<pageId, refCount, inOld, pages, oldList, youngList, numBaking, mine, flushPc, dirtyPages>>

(* A step that only moves a goroutine leaves lists, map and counts right.  *)
LEMMA QuietStep ==
    ASSUME PInv, NEW t \in Threads, UNCHANGED poolVars,
           \A u \in Threads : Baking(u)' <=> Baking(u)
    PROVE  ListsOK' /\ MapOK' /\ Counts' /\ FlushOK' /\ Listed' = Listed
<1>1. UNCHANGED pageId /\ UNCHANGED refCount /\ UNCHANGED inOld /\ UNCHANGED pages /\ UNCHANGED oldList
      /\ UNCHANGED youngList /\ UNCHANGED numBaking /\ UNCHANGED mine /\ UNCHANGED flushPc /\ UNCHANGED dirtyPages
    BY DEF poolVars
<1>2. Listed' = Listed
    BY <1>1 DEF Listed
<1>3. InBaking' = InBaking /\ \A f \in Frames : Holders(f)' = Holders(f)
    BY <1>1 DEF InBaking, Holders
<1>4. ListsOK' /\ FlushOK'
    BY <1>1 DEF PInv, ListsOK, FlushOK
<1>5. Counts'
    BY <1>1, <1>3 DEF PInv, Counts
<1>6. MapOK'
    BY <1>1, <1>2 DEF PInv, MapOK
<1> QED
    BY <1>2, <1>4, <1>5, <1>6

-----------------------------------------------------------------------------
(* Steps that touch neither lists, map nor pins *)

(* What such a step of t has to show, from what it does to t alone. *)
LEMMA QuietInv ==
    ASSUME PInv, NEW t \in Threads, Others(t), UNCHANGED poolVars, mishaps' = mishaps,
           TypeOK', ClientOK(t)', Baking(t)' <=> Baking(t),
           \A u \in Threads \ {t} : u \in changed' <=> u \in changed,
           \A p \in pageLock' : Owns(t, p)' \/ (p \in pageLock /\ ~Owns(t, p)),
           "readFailed" \notin mishaps =>
               /\ \A p \in Pages : Owns(t, p)' => p \in pageLock' /\ (Owns(t, p) \/ p \notin pageLock)
               /\ \A p \in Pages : p \in pageLock => p \in pageLock' \/ Owns(t, p)
               /\ OutOfMap(t)'
    PROVE  PInv'
<1>1. \A u \in Threads : Baking(u)' <=> Baking(u)
    BY OthersStay
<1>2. ListsOK' /\ MapOK' /\ Counts' /\ FlushOK' /\ Listed' = Listed
    BY <1>1, QuietStep
<1>3. mine' = mine /\ pages' = pages /\ pageId' = pageId
    BY DEF poolVars
<1>4. ClientsOK'
    <2>1. \A u \in Threads \ {t} : Baking(u) => mine[u] \notin Listed /\ mine[t] # mine[u]
        BY DEF PInv, ClientsOK, ClientOK
    <2> QED
        BY <1>2, <1>3, <2>1, OthersOK
<1>5. LocksHeld'
    <2>1. pageLock' \subseteq Pages
        BY DEF TypeOK
    <2> QED
        BY <2>1, LocksStep
<1>6. Exclusive'
    <2> SUFFICES ASSUME "readFailed" \notin mishaps
                 PROVE  OwnersLock' /\ OneOwner' /\ (\A u \in Threads : OutOfMap(u)') /\ InMap'
        BY DEF Exclusive
    <2>1. OwnersLock' /\ OneOwner'
        BY OwnersStep
    <2>2. \A u \in Threads \ {t} : OutOfMap(u)'
        BY <1>3, OthersOutOfMap
    <2>3. InMap'
        BY <1>2, <1>3 DEF PInv, Exclusive, InMap
    <2> QED
        BY <2>1, <2>2, <2>3
<1> QED
    BY <1>2, <1>4, <1>5, <1>6 DEF PInv

(* Only t moves, and wants another page at most. *)
LEMMA OnlyMoves ==
    ASSUME PInv, NEW t \in Threads, NEW l, pc' = [pc EXCEPT ![t] = l], mine' = mine, pageId' = pageId,
           want' = want \/ \E p : want' = [want EXCEPT ![t] = p]
    PROVE  Others(t) /\ pc'[t] = l
BY DEF PInv, TypeOK, Others

(* Steps that change no more than a label, and contents or flags of the    *)
(* frame a goroutine is replacing.                                         *)
LEMMA MoveInv ==
    ASSUME PInv, NEW t \in Threads,
           \/ Miss(t) \/ CleanVictim(t) \/ DirtyVictim(t) \/ WriteBack(t) \/ MarkClean(t)
           \/ ReadStarts(t) \/ ReadPage(t)
    PROVE  PInv'
<1>1. PICK l \in Labels :
        /\ pc' = [pc EXCEPT ![t] = l]
        /\ \/ pc[t] = "look" /\ l = "evict" /\ pages[want[t]] = NoFrame
           \/ VictimHeld(t) /\ l \in {"writeback", "clean", "release"}
           \/ pc[t] \in {"load", "reading"} /\ l \in {"reading", "publish"}
    <2>1. {"evict", "writeback", "clean", "release", "reading", "publish"} \subseteq Labels
        BY DEF Labels, InGetPage
    <2>2. CASE Miss(t)
        BY <2>1, <2>2 DEF Miss, Goto
    <2>3. CASE CleanVictim(t) \/ DirtyVictim(t) \/ WriteBack(t) \/ MarkClean(t)
        BY <2>1, <2>3 DEF CleanVictim, DirtyVictim, WriteBack, MarkClean, Goto, VictimHeld
    <2>4. CASE ReadStarts(t) \/ ReadPage(t)
        BY <2>1, <2>4 DEF ReadStarts, ReadPage, Goto
    <2> QED
        BY <2>2, <2>3, <2>4
<1>2. /\ UNCHANGED <<pageId, refCount, inOld, pages, oldList, youngList, numBaking, mine, flushPc, dirtyPages>>
      /\ UNCHANGED <<want, pageLock, changed, mishaps, flushOid, writes, faults, flushes>>
    BY DEF Miss, CleanVictim, DirtyVictim, WriteBack, MarkClean, ReadStarts, ReadPage, frameVars, shardVars, flushVars,
           counters
<1>3. Others(t) /\ pc'[t] = l /\ UNCHANGED poolVars
    BY <1>1, <1>2, OnlyMoves DEF poolVars
<1>4. TypeOK /\ ClientOK(t)
    BY DEF PInv, ClientsOK
<1>5. TypeOK'
    <2>1. pc' \in [Threads -> Labels]
        BY <1>1, <1>4 DEF TypeOK, Labels
    <2>2. isDirty' \subseteq Frames
        BY <1>4 DEF TypeOK, Miss, CleanVictim, DirtyVictim, WriteBack, MarkClean, ReadStarts, ReadPage, frameVars
    <2>3. Baking(t) => mine[t] \in Frames /\ want[t] \in Pages
        BY <1>4 DEF ClientOK, Baking
    <2>4. bytes' \in [Frames -> Values]
        <3>1. bytes \in [Frames -> Values] /\ disk \in [Pages -> Values] /\ Torn \in Values
            BY <1>4 DEF TypeOK, Values
        <3> QED
            BY <2>3, <3>1
               DEF Miss, CleanVictim, DirtyVictim, WriteBack, MarkClean, ReadStarts, ReadPage, frameVars, Baking
    <2>5. disk' \in [Pages -> Values]
        <3>1. bytes \in [Frames -> Values] /\ disk \in [Pages -> Values]
            BY <1>4 DEF TypeOK
        <3> QED
            BY <2>3, <3>1
               DEF Miss, CleanVictim, DirtyVictim, WriteBack, MarkClean, ReadStarts, ReadPage, Baking
    <2> QED
        BY <1>2, <1>4, <2>1, <2>2, <2>4, <2>5 DEF TypeOK, Labels
<1>6. Listed' = Listed
    BY <1>2 DEF Listed
<1>7. ClientOK(t)' /\ (Baking(t)' <=> Baking(t))
    BY <1>1, <1>2, <1>3, <1>4, <1>6 DEF ClientOK, Baking, Pinning, VictimHeld
<1>8. \A p \in Pages : Owns(t, p)' <=> Owns(t, p)
    BY <1>1, <1>2, <1>3 DEF Owns, VictimHeld, InGetPage
<1>9. pageLock \subseteq Pages
    BY <1>4 DEF TypeOK
<1>10. \A p \in pageLock' : Owns(t, p)' \/ (p \in pageLock /\ ~Owns(t, p))
    BY <1>2, <1>8, <1>9
<1>11. ASSUME "readFailed" \notin mishaps
       PROVE  /\ \A p \in Pages : Owns(t, p)' => p \in pageLock' /\ (Owns(t, p) \/ p \notin pageLock)
              /\ \A p \in Pages : p \in pageLock => p \in pageLock' \/ Owns(t, p)
              /\ OutOfMap(t)'
    <2>1. OwnersLock /\ OutOfMap(t)
        BY <1>11 DEF PInv, Exclusive
    <2>2. OutOfMap(t)'
        BY <1>1, <1>2, <1>3, <2>1 DEF OutOfMap, VictimHeld, Baking
    <2> QED
        BY <1>2, <1>8, <2>1, <2>2 DEF OwnersLock
<1> QED
    BY <1>2, <1>3, <1>5, <1>7, <1>10, <1>11, QuietInv

(* A new call, and a client's use of the page it has pinned. *)
LEMMA UseInv ==
    ASSUME PInv, NEW t \in Threads,
           (\E p \in Pages : GetPage(t, p)) \/ Modify(t) \/ UnpinMark(t)
    PROVE  PInv'
<1>1. PICK l \in {"lock", "pinned", "unpin"} :
        /\ pc' = [pc EXCEPT ![t] = l]
        /\ \/ pc[t] = "idle" /\ l = "lock"
           \/ pc[t] = "pinned" /\ l \in {"pinned", "unpin"}
    BY DEF GetPage, Modify, UnpinMark, Goto, PInv, TypeOK
<1>2. /\ UNCHANGED <<pageId, refCount, inOld, pages, oldList, youngList, numBaking, mine, flushPc, dirtyPages>>
      /\ UNCHANGED <<pageLock, mishaps, flushOid, faults, flushes, disk>>
    BY DEF GetPage, Modify, UnpinMark, frameVars, shardVars, flushVars, counters
<1>3. \/ l = "lock" /\ changed' = changed /\ \E p \in Pages : want' = [want EXCEPT ![t] = p]
      \/ l = "pinned" /\ want' = want /\ changed' = changed \cup {t}
      \/ l = "unpin" /\ want' = want /\ changed' = changed \ {t}
    <2>1. pc \in [Threads -> Labels]
        BY DEF PInv, TypeOK, Labels
    <2>2. pc'[t] = l
        BY <1>1, <2>1
    <2> QED
        BY <1>1, <2>1, <2>2 DEF GetPage, Modify, UnpinMark, Goto
<1>4. Others(t) /\ pc'[t] = l /\ UNCHANGED poolVars
    BY <1>1, <1>2, <1>3, OnlyMoves DEF poolVars
<1>5. TypeOK /\ ClientOK(t)
    BY DEF PInv, ClientsOK
<1>6. TypeOK'
    <2>1. pc' \in [Threads -> Labels]
        BY <1>1, <1>5 DEF TypeOK, Labels, InGetPage
    <2>2. want' \in [Threads -> Pages \cup {NoPage}] /\ changed' \subseteq Threads
        BY <1>3, <1>5 DEF TypeOK
    <2>3. pc[t] = "pinned" => mine[t] \in Frames /\ want[t] \in Pages
        <3>1. Listed \subseteq Frames
            BY <1>5, ListRange DEF TypeOK, Listed
        <3> QED
            BY <1>5, <3>1 DEF ClientOK
    <2>4. isDirty' \subseteq Frames
        BY <1>5, <2>3 DEF TypeOK, GetPage, Modify, UnpinMark, frameVars
    <2>5. writes' \in 0 .. MaxWrites
        BY <1>5, PoolAssumption DEF TypeOK, GetPage, Modify, UnpinMark, counters
    <2>6. bytes' \in [Frames -> Values]
        <3>1. bytes \in [Frames -> Values]
            BY <1>5 DEF TypeOK
        <3>2. CASE Modify(t)
            <4>1. writes + 1 \in 0 .. MaxWrites
                BY <1>5, <3>2, PoolAssumption DEF TypeOK, Modify
            <4>2. <<want[t], writes + 1>> \in Values
                BY <2>3, <3>2, <4>1 DEF Values, Modify
            <4> QED
                BY <2>3, <3>1, <3>2, <4>2 DEF Modify
        <3>3. CASE ~Modify(t)
            BY <3>1, <3>3 DEF GetPage, UnpinMark, frameVars
        <3> QED
            BY <3>2, <3>3
    <2> QED
        BY <1>2, <1>5, <2>1, <2>2, <2>4, <2>5, <2>6 DEF TypeOK, Labels
<1>7. Listed' = Listed
    BY <1>2 DEF Listed
<1>8. ClientOK(t)' /\ ~Baking(t) /\ ~Baking(t)'
    <2>1. want \in [Threads -> Pages \cup {NoPage}]
        BY <1>5 DEF TypeOK
    <2>2. want'[t] \in Pages /\ (l # "lock" => want'[t] = want[t])
        BY <1>1, <1>3, <1>5, <2>1 DEF ClientOK
    <2> QED
        BY <1>1, <1>2, <1>3, <1>4, <1>5, <1>7, <2>2 DEF ClientOK, Baking, Pinning, VictimHeld
<1>9. \A p \in Pages : ~Owns(t, p)' /\ ~Owns(t, p)
    BY <1>1, <1>4 DEF Owns, InGetPage
<1>10. \A p \in pageLock' : Owns(t, p)' \/ (p \in pageLock /\ ~Owns(t, p))
    BY <1>2, <1>5, <1>9 DEF TypeOK
<1>11. OutOfMap(t)'
    BY <1>1, <1>4, <1>8 DEF OutOfMap, VictimHeld, Baking
<1>12. \A u \in Threads \ {t} : u \in changed' <=> u \in changed
    BY <1>3
<1> QED
    BY <1>2, <1>4, <1>6, <1>8, <1>9, <1>10, <1>11, <1>12, QuietInv

(* A lock taken or given up changes one page and one owner. *)
LEMMA LockInv ==
    ASSUME PInv, NEW t \in Threads, LockPage(t) \/ ReleaseVictim(t) \/ Return(t)
    PROVE  PInv'
<1>1. TypeOK /\ ClientOK(t)
    BY DEF PInv, ClientsOK
<1>2. pc \in [Threads -> Labels] /\ want \in [Threads -> Pages \cup {NoPage}] /\ pageLock \subseteq Pages
    BY <1>1 DEF TypeOK, Labels
<1>3. PICK l \in Labels :
        /\ pc' = [pc EXCEPT ![t] = l]
        /\ \/ pc[t] = "lock" /\ l = "look" /\ want' = want /\ want[t] \notin pageLock
                 /\ pageLock' = pageLock \cup {want[t]}
           \/ pc[t] = "release" /\ l = "retarget" /\ want' = want /\ pageLock' = pageLock \ {pageId[mine[t]]}
           \/ pc[t] = "got" /\ l = "idle" /\ want' = [want EXCEPT ![t] = NoPage] /\ pageLock' = pageLock \ {want[t]}
                 /\ mine[t] = NoFrame
           \/ pc[t] = "got" /\ l = "pinned" /\ want' = want /\ pageLock' = pageLock \ {want[t]} /\ mine[t] # NoFrame
    BY DEF LockPage, ReleaseVictim, Return, Goto, Labels, InGetPage
<1>4. /\ UNCHANGED <<pageId, refCount, inOld, pages, oldList, youngList, numBaking, mine, flushPc, dirtyPages>>
      /\ UNCHANGED <<bytes, isDirty, mishaps, flushOid, writes, faults, flushes, disk, changed>>
    BY DEF LockPage, ReleaseVictim, Return, frameVars, flushVars, counters
<1>5. Others(t) /\ pc'[t] = l /\ UNCHANGED poolVars
    BY <1>3, <1>4, OnlyMoves DEF poolVars
<1>6. want[t] \in Pages /\ (l # "idle" => want'[t] = want[t])
    BY <1>1, <1>3 DEF ClientOK
<1>7. TypeOK'
    <2>1. pc' \in [Threads -> Labels]
        BY <1>2, <1>3
    <2>2. want' \in [Threads -> Pages \cup {NoPage}] /\ pageLock' \subseteq Pages
        BY <1>2, <1>3, <1>6
    <2> QED
        BY <1>1, <1>4, <2>1, <2>2 DEF TypeOK, Labels
<1>8. Listed' = Listed
    BY <1>4 DEF Listed
<1>9. ClientOK(t)' /\ (Baking(t)' <=> Baking(t))
    BY <1>1, <1>3, <1>4, <1>5, <1>6, <1>8 DEF ClientOK, Baking, Pinning, VictimHeld
<1>10. CASE LockPage(t)
    <2>1. pc[t] = "lock" /\ l = "look" /\ want[t] \notin pageLock /\ pageLock' = pageLock \cup {want[t]} /\ want' = want
        BY <1>2, <1>3, <1>10 DEF LockPage
    <2>2. \A p \in Pages : ~Owns(t, p) /\ (Owns(t, p)' <=> p = want[t])
        BY <1>5, <2>1 DEF Owns, InGetPage
    <2>3. OutOfMap(t)'
        BY <1>5, <2>1 DEF OutOfMap, VictimHeld, Baking
    <2> QED
        BY <1>2, <1>4, <1>5, <1>6, <1>7, <1>9, <2>1, <2>2, <2>3, QuietInv
<1>11. CASE ReleaseVictim(t)
    <2>1. pc[t] = "release" /\ l = "retarget" /\ pageLock' = pageLock \ {pageId[mine[t]]} /\ want' = want
        BY <1>2, <1>3, <1>11 DEF ReleaseVictim
    <2>2. \A p \in Pages : (Owns(t, p) <=> p = want[t] \/ p = pageId[mine[t]]) /\ (Owns(t, p)' <=> p = want[t])
        BY <1>5, <2>1 DEF Owns, InGetPage
    <2>3. \A p \in pageLock' : Owns(t, p)' \/ (p \in pageLock /\ ~Owns(t, p))
        BY <1>2, <2>1, <2>2
    <2>4. ASSUME "readFailed" \notin mishaps
          PROVE  /\ \A p \in Pages : Owns(t, p)' => p \in pageLock' /\ (Owns(t, p) \/ p \notin pageLock)
                 /\ \A p \in Pages : p \in pageLock => p \in pageLock' \/ Owns(t, p)
                 /\ OutOfMap(t)'
        <3>1. OwnersLock /\ OutOfMap(t)
            BY <2>4 DEF PInv, Exclusive
        <3>2. want[t] \in pageLock /\ want[t] # pageId[mine[t]] /\ pages[want[t]] = NoFrame
            BY <1>6, <2>1, <2>2, <3>1 DEF OwnersLock, OutOfMap, VictimHeld, Baking
        <3>3. OutOfMap(t)'
            BY <1>4, <1>5, <2>1, <3>2 DEF OutOfMap, VictimHeld, Baking
        <3> QED
            BY <2>1, <2>2, <3>2, <3>3
    <2> QED
        BY <1>4, <1>5, <1>7, <1>9, <2>3, <2>4, QuietInv
<1>12. CASE Return(t)
    <2>1. pc[t] = "got" /\ l \in {"idle", "pinned"} /\ pageLock' = pageLock \ {want[t]}
        BY <1>2, <1>3, <1>12 DEF Return
    <2>2. \A p \in Pages : (Owns(t, p) <=> p = want[t]) /\ ~Owns(t, p)'
        BY <1>5, <2>1 DEF Owns, InGetPage
    <2>3. OutOfMap(t)'
        BY <1>5, <2>1 DEF OutOfMap, VictimHeld, Baking
    <2>4. \A p \in pageLock' : Owns(t, p)' \/ (p \in pageLock /\ ~Owns(t, p))
        BY <1>2, <2>1, <2>2
    <2>5. \A p \in Pages : p \in pageLock => p \in pageLock' \/ Owns(t, p)
        BY <2>1, <2>2
    <2> QED
        BY <1>4, <1>5, <1>7, <1>9, <2>2, <2>3, <2>4, <2>5, QuietInv
<1> QED
    BY <1>10, <1>11, <1>12

-----------------------------------------------------------------------------
(* Steps that move a frame between lists, goroutines and pages *)

(* What such a step of t has to show. *)
LEMMA StepInv ==
    ASSUME PInv, NEW t \in Threads, Others(t),
           TypeOK', ListsOK', MapOK', ClientOK(t)', Counts', FlushOK', changed' = changed,
           \A u \in Threads \ {t} :
               /\ mine[u] \in Listed => mine[u] \in Listed'
               /\ Baking(u) => mine[u] \notin Listed' /\ mine'[t] # mine[u],
           \A p \in pageLock' : Owns(t, p)' \/ (p \in pageLock /\ ~Owns(t, p)),
           "readFailed" \notin mishaps' =>
               /\ "readFailed" \notin mishaps
               /\ \A p \in Pages : Owns(t, p)' => p \in pageLock' /\ (Owns(t, p) \/ p \notin pageLock)
               /\ \A p \in Pages : p \in pageLock => p \in pageLock' \/ Owns(t, p)
               /\ \A p \in Pages : pages'[p] = pages[p] \/ pages'[p] = NoFrame \/ Owns(t, p)
               /\ OutOfMap(t)' /\ InMap'
    PROVE  PInv'
<1>1. ClientsOK'
    BY OthersOK
<1>2. LocksHeld'
    <2>1. pageLock' \subseteq Pages
        BY DEF TypeOK
    <2> QED
        BY <2>1, LocksStep
<1>3. Exclusive'
    <2> SUFFICES ASSUME "readFailed" \notin mishaps'
                 PROVE  OwnersLock' /\ OneOwner' /\ (\A u \in Threads : OutOfMap(u)') /\ InMap'
        BY DEF Exclusive
    <2>1. OwnersLock' /\ OneOwner'
        BY OwnersStep
    <2>2. \A u \in Threads \ {t} : OutOfMap(u)'
        BY OthersOutOfMap
    <2> QED
        BY <2>1, <2>2
<1> QED
    BY <1>1, <1>2, <1>3 DEF PInv

(* A goroutine starts or stops replacing a page, or does neither. *)
LEMMA BakingMoves ==
    ASSUME PInv, NEW t \in Threads, Others(t)
    PROVE  /\ numBaking \in Nat
           /\ (Baking(t)' <=> Baking(t)) => Cardinality(InBaking') = numBaking
           /\ ~Baking(t) /\ Baking(t)' => Cardinality(InBaking') = numBaking + 1
           /\ Baking(t) /\ ~Baking(t)' => Cardinality(InBaking') = numBaking - 1 /\ numBaking > 0
<1>1. numBaking \in Nat /\ numBaking = Cardinality(InBaking) /\ IsFiniteSet(InBaking)
    BY PoolAssumption, FS_Subset DEF PInv, TypeOK, Counts, InBaking
<1>2. \A u \in Threads \ {t} : Baking(u)' <=> Baking(u)
    BY OthersStay
<1>3. (Baking(t) <=> t \in InBaking) /\ (Baking(t)' <=> t \in InBaking')
    BY DEF InBaking
<1>4. Baking(t)' => InBaking' = InBaking \cup {t}
    BY <1>2 DEF InBaking
<1>5. ~Baking(t)' => InBaking' = InBaking \ {t}
    BY <1>2 DEF InBaking
<1>6. Cardinality(InBaking \cup {t}) = IF t \in InBaking THEN numBaking ELSE numBaking + 1
    BY <1>1, FS_AddElement
<1>7. Cardinality(InBaking \ {t}) = IF t \in InBaking THEN numBaking - 1 ELSE numBaking
    BY <1>1, FS_RemoveElement
<1>8. t \in InBaking => numBaking > 0
    <2>1. numBaking = 0 => InBaking = {}
        BY <1>1, FS_EmptySet
    <2> QED
        BY <1>1, <2>1
<1> QED
    BY <1>1, <1>3, <1>4, <1>5, <1>6, <1>7, <1>8

(* A goroutine takes or gives up a frame. *)
LEMMA HoldersMove ==
    ASSUME PInv, NEW t \in Threads, NEW g \in Frames \cup {NoFrame}, mine' = [mine EXCEPT ![t] = g],
           NEW f \in Frames
    PROVE  /\ refCount[f] \in Nat
           /\ (mine[t] = f <=> g = f) => Cardinality(Holders(f)') = refCount[f]
           /\ mine[t] # f /\ g = f => Cardinality(Holders(f)') = refCount[f] + 1
           /\ mine[t] = f /\ g # f => Cardinality(Holders(f)') = refCount[f] - 1 /\ refCount[f] > 0
<1>1. refCount[f] \in Nat /\ refCount[f] = Cardinality(Holders(f)) /\ IsFiniteSet(Holders(f))
    BY PoolAssumption, FS_Subset DEF PInv, TypeOK, Counts, Holders
<1>2. mine \in [Threads -> Frames \cup {NoFrame}]
    BY DEF PInv, TypeOK
<1>3. Holders(f)' = IF g = f THEN Holders(f) \cup {t} ELSE Holders(f) \ {t}
    BY <1>2 DEF Holders
<1>4. Cardinality(Holders(f) \cup {t}) = IF t \in Holders(f) THEN refCount[f] ELSE refCount[f] + 1
    BY <1>1, FS_AddElement
<1>5. Cardinality(Holders(f) \ {t}) = IF t \in Holders(f) THEN refCount[f] - 1 ELSE refCount[f]
    BY <1>1, FS_RemoveElement
<1>6. t \in Holders(f) <=> mine[t] = f
    BY DEF Holders
<1>7. t \in Holders(f) => refCount[f] > 0
    <2>1. refCount[f] = 0 => Holders(f) = {}
        BY <1>1, FS_EmptySet
    <2> QED
        BY <1>1, <2>1
<1> QED
    BY <1>1, <1>3, <1>4, <1>5, <1>6, <1>7

(* A frame nobody has pinned is held by nobody, and a frame that is being  *)
(* replaced by one goroutine.                                              *)
LEMMA HoldersOf ==
    ASSUME PInv, NEW f \in Frames
    PROVE  /\ refCount[f] = 0 => \A u \in Threads : mine[u] # f
           /\ \A t \in Threads : Baking(t) /\ mine[t] = f => refCount[f] = 1
<1>1. refCount[f] = Cardinality(Holders(f)) /\ IsFiniteSet(Holders(f))
    BY PoolAssumption, FS_Subset DEF PInv, Counts, Holders
<1>2. refCount[f] = 0 => Holders(f) = {}
    BY <1>1, FS_EmptySet
<1>3. ASSUME NEW t \in Threads, Baking(t), mine[t] = f PROVE refCount[f] = 1
    <2>1. Holders(f) = {t}
        BY <1>3 DEF PInv, ClientsOK, ClientOK, Holders
    <2> QED
        BY <1>1, <2>1, FS_Singleton
<1> QED
    BY <1>2, <1>3 DEF Holders

(* Listed frames are frames. *)
LEMMA ListedFrames ==
    ASSUME PInv
    PROVE  /\ Listed \subseteq Frames /\ NoFrame \notin Listed /\ NoFrame \notin Frames /\ NoPage \notin Pages
           /\ Len(oldList) \in Nat /\ Len(youngList) \in Nat /\ NumPages \in Nat
           /\ \A f \in Listed : IF f \in inOld THEN f \in Range(oldList) /\ f \notin Range(youngList)
                                               ELSE f \in Range(youngList) /\ f \notin Range(oldList)
<1>1. oldList \in Seq(Frames) /\ youngList \in Seq(Frames)
    BY DEF PInv, TypeOK
<1>2. NumPages \in Nat
    BY PoolAssumption, FS_CardinalityType DEF NumPages
<1>3. Listed \subseteq Frames /\ Len(oldList) \in Nat /\ Len(youngList) \in Nat
    BY <1>1, ListRange DEF Listed
<1> QED
    BY <1>2, <1>3, PoolAssumption DEF PInv, ListsOK, Listed

(* A hit moves the frame to the front of the young list. *)
LEMMA HitLists ==
    ASSUME PInv, NEW f \in Listed,
           oldList' = IF f \in inOld THEN Unlink(oldList, f) ELSE oldList,
           youngList' = <<f>> \o (IF f \in inOld THEN youngList ELSE Unlink(youngList, f)),
           inOld' = inOld \ {f}, numBaking' = numBaking
    PROVE  /\ oldList' \in Seq(Frames) /\ youngList' \in Seq(Frames)
           /\ ListsOK' /\ Listed' = Listed
<1>1. oldList \in Seq(Frames) /\ youngList \in Seq(Frames) /\ f \in Frames /\ numBaking \in Nat
    BY ListedFrames DEF PInv, TypeOK
<1>2. /\ IsInjective(oldList) /\ IsInjective(youngList) /\ Range(oldList) \subseteq inOld
      /\ Range(youngList) \cap inOld = {}
      /\ Len(oldList) + Len(youngList) + numBaking <= NumPages
      /\ Len(oldList) \in Nat /\ Len(youngList) \in Nat /\ NumPages \in Nat
    BY ListedFrames DEF PInv, ListsOK
<1>3. CASE f \in inOld
    <2>1. f \in Range(oldList) /\ f \notin Range(youngList) /\ oldList' = Unlink(oldList, f)
          /\ youngList' = <<f>> \o youngList
        BY <1>3, ListedFrames
    <2>2. /\ oldList' \in Seq(Frames) /\ IsInjective(oldList') /\ Range(oldList') = Range(oldList) \ {f}
          /\ Len(oldList') = Len(oldList) - 1
        BY <1>1, <1>2, <2>1, UnlinkFrame
    <2>3. /\ youngList' \in Seq(Frames) /\ IsInjective(youngList') /\ Range(youngList') = Range(youngList) \cup {f}
          /\ Len(youngList') = Len(youngList) + 1
        BY <1>1, <1>2, <2>1, PushFrame
    <2>4. Len(oldList') + Len(youngList') + numBaking' <= NumPages
        BY <1>1, <1>2, <2>2, <2>3
    <2>5. Range(oldList') \subseteq inOld' /\ Range(youngList') \cap inOld' = {} /\ NumPages' = NumPages
        BY <1>2, <2>2, <2>3 DEF NumPages
    <2>6. Listed' = Listed
        BY <2>1, <2>2, <2>3 DEF Listed
    <2> QED
        BY <2>2, <2>3, <2>4, <2>5, <2>6 DEF ListsOK
<1>4. CASE f \notin inOld
    <2> DEFINE y == Unlink(youngList, f)
    <2>1. f \in Range(youngList) /\ f \notin Range(oldList) /\ oldList' = oldList /\ youngList' = <<f>> \o y
        BY <1>4, ListedFrames
    <2>2. /\ y \in Seq(Frames) /\ IsInjective(y) /\ Range(y) = Range(youngList) \ {f} /\ Len(y) = Len(youngList) - 1
        BY <1>1, <1>2, <2>1, UnlinkFrame
    <2> HIDE DEF y
    <2>3. /\ youngList' \in Seq(Frames) /\ IsInjective(youngList') /\ Range(youngList') = Range(y) \cup {f}
          /\ Len(youngList') = Len(y) + 1
        <3>1. f \notin Range(y)
            BY <2>2
        <3> DEFINE z == <<f>> \o y
        <3>2. z \in Seq(Frames) /\ IsInjective(z) /\ Range(z) = Range(y) \cup {f} /\ Len(z) = Len(y) + 1
            BY <1>1, <2>2, <3>1, PushFrame
        <3>3. youngList' = z
            BY <2>1
        <3> HIDE DEF z
        <3> QED
            BY <3>2, <3>3, Zenon
    <2>4. Range(youngList') = Range(youngList) /\ Len(youngList') = Len(youngList)
        <3>1. Range(youngList') = Range(youngList)
            BY <2>1, <2>2, <2>3
        <3>2. Len(youngList') = (Len(youngList) - 1) + 1
            BY <2>2, <2>3
        <3> QED
            BY <1>2, <3>1, <3>2
    <2>5. Range(oldList') \subseteq inOld' /\ Range(youngList') \cap inOld' = {} /\ NumPages' = NumPages
        BY <1>2, <2>1, <2>4 DEF NumPages
    <2>6. Listed' = Listed
        BY <2>1, <2>4 DEF Listed
    <2> QED
        BY <1>1, <1>2, <2>1, <2>3, <2>4, <2>5, <2>6 DEF ListsOK
<1> QED
    BY <1>3, <1>4

(* An eviction takes the frame off its list. *)
LEMMA EvictLists ==
    ASSUME PInv, NEW f \in Listed,
           oldList' = IF f \in inOld THEN Unlink(oldList, f) ELSE oldList,
           youngList' = IF f \in inOld THEN youngList ELSE Unlink(youngList, f),
           inOld' = inOld, numBaking' = numBaking + 1
    PROVE  /\ oldList' \in Seq(Frames) /\ youngList' \in Seq(Frames)
           /\ ListsOK' /\ Listed' = Listed \ {f}
<1>1. oldList \in Seq(Frames) /\ youngList \in Seq(Frames) /\ f \in Frames /\ numBaking \in Nat
    BY ListedFrames DEF PInv, TypeOK
<1>2. /\ IsInjective(oldList) /\ IsInjective(youngList) /\ Range(oldList) \subseteq inOld
      /\ Range(youngList) \cap inOld = {}
      /\ Len(oldList) + Len(youngList) + numBaking <= NumPages
      /\ Len(oldList) \in Nat /\ Len(youngList) \in Nat /\ NumPages \in Nat
    BY ListedFrames DEF PInv, ListsOK
<1>3. CASE f \in inOld
    <2>1. f \in Range(oldList) /\ f \notin Range(youngList) /\ oldList' = Unlink(oldList, f) /\ youngList' = youngList
        BY <1>3, ListedFrames
    <2>2. /\ oldList' \in Seq(Frames) /\ IsInjective(oldList') /\ Range(oldList') = Range(oldList) \ {f}
          /\ Len(oldList') = Len(oldList) - 1
        BY <1>1, <1>2, <2>1, UnlinkFrame
    <2>3. Range(oldList') \subseteq inOld' /\ Range(youngList') \cap inOld' = {} /\ NumPages' = NumPages
        BY <1>2, <2>1, <2>2 DEF NumPages
    <2>4. Listed' = Listed \ {f}
        BY <2>1, <2>2 DEF Listed
    <2>5. Len(oldList') + Len(youngList') + numBaking' <= NumPages
        <3>1. \/ Len(oldList') = Len(oldList) - 1 /\ Len(youngList') = Len(youngList)
              \/ Len(oldList') = Len(oldList) /\ Len(youngList') = Len(youngList) - 1
            BY <2>1, <2>2
        <3>2. \A a, b \in Int : (\/ a = Len(oldList) - 1 /\ b = Len(youngList)
                                 \/ a = Len(oldList) /\ b = Len(youngList) - 1)
                                => a + b + (numBaking + 1) <= NumPages
            BY <1>1, <1>2
        <3>3. Len(oldList') \in Int /\ Len(youngList') \in Int
            BY <1>2, <3>1
        <3> QED
            BY <3>1, <3>2, <3>3, Zenon
    <2> QED
        BY <1>1, <1>2, <2>1, <2>2, <2>3, <2>4, <2>5 DEF ListsOK
<1>4. CASE f \notin inOld
    <2>1. f \in Range(youngList) /\ f \notin Range(oldList) /\ oldList' = oldList /\ youngList' = Unlink(youngList, f)
        BY <1>4, ListedFrames
    <2>2. /\ youngList' \in Seq(Frames) /\ IsInjective(youngList') /\ Range(youngList') = Range(youngList) \ {f}
          /\ Len(youngList') = Len(youngList) - 1
        BY <1>1, <1>2, <2>1, UnlinkFrame
    <2>3. Range(oldList') \subseteq inOld' /\ Range(youngList') \cap inOld' = {} /\ NumPages' = NumPages
        BY <1>2, <2>1, <2>2 DEF NumPages
    <2>4. Listed' = Listed \ {f}
        BY <2>1, <2>2 DEF Listed
    <2>5. Len(oldList') + Len(youngList') + numBaking' <= NumPages
        <3>1. \/ Len(oldList') = Len(oldList) - 1 /\ Len(youngList') = Len(youngList)
              \/ Len(oldList') = Len(oldList) /\ Len(youngList') = Len(youngList) - 1
            BY <2>1, <2>2
        <3>2. \A a, b \in Int : (\/ a = Len(oldList) - 1 /\ b = Len(youngList)
                                 \/ a = Len(oldList) /\ b = Len(youngList) - 1)
                                => a + b + (numBaking + 1) <= NumPages
            BY <1>1, <1>2
        <3>3. Len(oldList') \in Int /\ Len(youngList') \in Int
            BY <1>2, <3>1
        <3> QED
            BY <3>1, <3>2, <3>3, Zenon
    <2> QED
        BY <1>1, <1>2, <2>1, <2>2, <2>3, <2>4, <2>5 DEF ListsOK
<1> QED
    BY <1>3, <1>4

(* A frame enters the list its flag names. *)
LEMMA EnterLists ==
    ASSUME PInv, NEW f \in Frames \ Listed, numBaking' = numBaking - 1, numBaking > 0,
           \/ /\ inOld' = inOld
              /\ oldList' = IF f \in inOld THEN <<f>> \o oldList ELSE oldList
              /\ youngList' = IF f \in inOld THEN youngList ELSE <<f>> \o youngList
           \/ inOld' = inOld \cup {f} /\ oldList' = <<f>> \o oldList /\ youngList' = youngList
    PROVE  /\ oldList' \in Seq(Frames) /\ youngList' \in Seq(Frames)
           /\ ListsOK' /\ Listed' = Listed \cup {f}
<1>1. oldList \in Seq(Frames) /\ youngList \in Seq(Frames) /\ numBaking \in Nat
    BY DEF PInv, TypeOK
<1>2. /\ IsInjective(oldList) /\ IsInjective(youngList) /\ Range(oldList) \subseteq inOld
      /\ Range(youngList) \cap inOld = {}
      /\ Len(oldList) + Len(youngList) + numBaking <= NumPages
      /\ Len(oldList) \in Nat /\ Len(youngList) \in Nat /\ NumPages \in Nat
    BY ListedFrames DEF PInv, ListsOK
<1>3. f \notin Range(oldList) /\ f \notin Range(youngList)
    BY DEF Listed
<1>4. CASE oldList' = <<f>> \o oldList /\ youngList' = youngList /\ inOld' = inOld \cup {f}
    <2>1. /\ oldList' \in Seq(Frames) /\ IsInjective(oldList') /\ Range(oldList') = Range(oldList) \cup {f}
          /\ Len(oldList') = Len(oldList) + 1
        BY <1>1, <1>2, <1>3, <1>4, PushFrame
    <2>2. Range(oldList') \subseteq inOld' /\ Range(youngList') \cap inOld' = {} /\ NumPages' = NumPages
        BY <1>2, <1>3, <1>4, <2>1 DEF NumPages
    <2>3. Len(oldList') + Len(youngList') + numBaking' <= NumPages
        BY <1>1, <1>2, <1>4, <2>1
    <2> QED
        BY <1>1, <1>2, <1>4, <2>1, <2>2, <2>3 DEF ListsOK, Listed
<1>5. CASE oldList' = oldList /\ youngList' = <<f>> \o youngList /\ inOld' = inOld /\ f \notin inOld
    <2>1. /\ youngList' \in Seq(Frames) /\ IsInjective(youngList') /\ Range(youngList') = Range(youngList) \cup {f}
          /\ Len(youngList') = Len(youngList) + 1
        BY <1>1, <1>2, <1>3, <1>5, PushFrame
    <2>2. Range(oldList') \subseteq inOld' /\ Range(youngList') \cap inOld' = {} /\ NumPages' = NumPages
        BY <1>2, <1>3, <1>5, <2>1 DEF NumPages
    <2>3. Len(oldList') + Len(youngList') + numBaking' <= NumPages
        BY <1>1, <1>2, <1>5, <2>1
    <2> QED
        BY <1>1, <1>2, <1>5, <2>1, <2>2, <2>3 DEF ListsOK, Listed
<1>6. f \in inOld => inOld \cup {f} = inOld
    OBVIOUS
<1> QED
    BY <1>4, <1>5, <1>6

(* getPageFromPool finds the page. *)
LEMMA HitInv ==
    ASSUME PInv, NEW t \in Threads, Hit(t)
    PROVE  PInv'
<1> DEFINE f == pages[want[t]]
<1>1. /\ pc[t] = "look" /\ f # NoFrame /\ pc' = [pc EXCEPT ![t] = "got"]
      /\ refCount' = [refCount EXCEPT ![f] = refCount[f] + 1]
      /\ oldList' = IF f \in inOld THEN Unlink(oldList, f) ELSE oldList
      /\ youngList' = <<f>> \o (IF f \in inOld THEN youngList ELSE Unlink(youngList, f))
      /\ inOld' = inOld \ {f} /\ mine' = [mine EXCEPT ![t] = f]
      /\ UNCHANGED <<pageId, bytes, isDirty, pages, numBaking, pageLock, disk, want, changed, mishaps>>
      /\ UNCHANGED <<flushPc, dirtyPages, flushOid, writes, faults, flushes>>
    BY DEF Hit, Goto, flushVars, counters
<1>2. TypeOK /\ ClientOK(t)
    BY DEF PInv, ClientsOK
<1>3. want[t] \in Pages /\ mine[t] = NoFrame /\ f \in Listed /\ pageId[f] = want[t] /\ f \in Frames
    <2>1. want[t] \in Pages /\ mine[t] = NoFrame
        BY <1>1, <1>2 DEF ClientOK
    <2>2. f \in Listed /\ pageId[f] = want[t]
        BY <1>1, <2>1 DEF PInv, MapOK
    <2> QED
        BY <2>1, <2>2, ListedFrames
<1> HIDE DEF f
<1>4. oldList' \in Seq(Frames) /\ youngList' \in Seq(Frames) /\ ListsOK' /\ Listed' = Listed
    BY <1>1, <1>3, HitLists
<1>5. pc'[t] = "got" /\ mine'[t] = f /\ refCount \in [Frames -> Nat]
    BY <1>1, <1>2 DEF TypeOK
<1>6. Others(t)
    BY <1>1, <1>2 DEF TypeOK, Others
<1>7. TypeOK'
    <2>1. pc' \in [Threads -> Labels]
        BY <1>1, <1>2 DEF TypeOK, Labels, InGetPage
    <2>2. refCount' \in [Frames -> Nat] /\ mine' \in [Threads -> Frames \cup {NoFrame}] /\ inOld' \subseteq Frames
        BY <1>1, <1>2, <1>3 DEF TypeOK
    <2> QED
        BY <1>1, <1>2, <1>4, <2>1, <2>2 DEF TypeOK, Labels
<1>8. ClientOK(t)' /\ ~Baking(t) /\ ~Baking(t)'
    <2>1. t \notin changed'
        BY <1>1, <1>2 DEF ClientOK
    <2> QED
        BY <1>1, <1>3, <1>4, <1>5, <2>1 DEF ClientOK, Baking, Pinning, VictimHeld
<1>9. Counts'
    <2>1. numBaking' = Cardinality(InBaking')
        BY <1>1, <1>6, <1>8, BakingMoves
    <2>2. ASSUME NEW g \in Frames PROVE refCount'[g] = Cardinality(Holders(g)')
        <3>1. /\ mine[t] # g
              /\ refCount[g] \in Nat
              /\ (mine[t] = g <=> f = g) => Cardinality(Holders(g)') = refCount[g]
              /\ mine[t] # g /\ f = g => Cardinality(Holders(g)') = refCount[g] + 1
            BY <1>1, <1>3, HoldersMove, ListedFrames, ZenonT(60)
        <3>2. refCount'[g] = IF f = g THEN refCount[g] + 1 ELSE refCount[g]
            BY <1>1, <1>3, <1>5
        <3> QED
            BY <3>1, <3>2
    <2> QED
        BY <2>1, <2>2 DEF Counts
<1>10. MapOK'
    <2>1. \A u \in Threads : Baking(u) => Baking(u)' /\ mine'[u] = mine[u]
        BY <1>6, <1>8, OthersStay DEF Others
    <2> QED
        BY <1>1, <1>4, <2>1 DEF PInv, MapOK
<1>11. FlushOK'
    BY <1>1 DEF PInv, FlushOK
<1>12. \A u \in Threads \ {t} :
           /\ mine[u] \in Listed => mine[u] \in Listed'
           /\ Baking(u) => mine[u] \notin Listed' /\ mine'[t] # mine[u]
    BY <1>3, <1>4, <1>5 DEF PInv, ClientsOK, ClientOK
<1>13. \A p \in Pages : Owns(t, p)' <=> Owns(t, p)
    BY <1>1, <1>5 DEF Owns, InGetPage
<1>14. \A p \in pageLock' : Owns(t, p)' \/ (p \in pageLock /\ ~Owns(t, p))
    BY <1>1, <1>2, <1>13 DEF TypeOK
<1>15. ASSUME "readFailed" \notin mishaps'
       PROVE  /\ "readFailed" \notin mishaps
              /\ \A p \in Pages : Owns(t, p)' => p \in pageLock' /\ (Owns(t, p) \/ p \notin pageLock)
              /\ OutOfMap(t)' /\ InMap'
    <2>1. "readFailed" \notin mishaps /\ OwnersLock /\ InMap
        BY <1>1, <1>15 DEF PInv, Exclusive
    <2>2. OutOfMap(t)'
        BY <1>5, <1>8 DEF OutOfMap, VictimHeld
    <2>3. InMap'
        BY <1>1, <1>4, <2>1 DEF InMap
    <2> QED
        BY <1>1, <1>13, <2>1, <2>2, <2>3 DEF OwnersLock
<1> QED
    BY <1>1, <1>4, <1>6, <1>7, <1>8, <1>9, <1>10, <1>11, <1>12, <1>14, <1>15, StepInv

(* evictPage creates a frame. *)
LEMMA NewFrameInv ==
    ASSUME PInv, NEW t \in Threads, NewFrame(t)
    PROVE  PInv'
<1>1. PICK f \in Frames \ (Listed \cup Range(mine)) :
          /\ pageId' = [pageId EXCEPT ![f] = NoPage]
          /\ isDirty' = isDirty \ {f}
          /\ refCount' = [refCount EXCEPT ![f] = 1]
          /\ inOld' = inOld \cup {f}
          /\ mine' = [mine EXCEPT ![t] = f]
    BY DEF NewFrame
<1>2. /\ pc[t] = "evict" /\ HasRoom /\ numBaking' = numBaking + 1 /\ pc' = [pc EXCEPT ![t] = "retarget"]
      /\ UNCHANGED <<bytes, pages, oldList, youngList, pageLock, disk, want, changed, mishaps>>
      /\ UNCHANGED <<flushPc, dirtyPages, flushOid, writes, faults, flushes>>
    BY DEF NewFrame, Goto, flushVars, counters
<1>3. TypeOK /\ ClientOK(t)
    BY DEF PInv, ClientsOK
<1>4. want[t] \in Pages /\ mine[t] = NoFrame
    BY <1>2, <1>3 DEF ClientOK
<1>5. \A u \in Threads : mine[u] # f
    <2>1. DOMAIN mine = Threads
        BY <1>3 DEF TypeOK
    <2> QED
        BY <1>1, <2>1 DEF Range
<1>6. pageId' = pageId
    <2>1. pageId[f] = NoPage
        BY <1>1, <1>5 DEF PInv, MapOK
    <2> QED
        BY <1>1, <1>3, <2>1 DEF TypeOK
<1>7. pc'[t] = "retarget" /\ mine'[t] = f /\ refCount \in [Frames -> Nat]
    BY <1>1, <1>2, <1>3 DEF TypeOK
<1>8. Others(t)
    BY <1>1, <1>2, <1>3, <1>6 DEF TypeOK, Others
<1>9. Listed' = Listed
    BY <1>2 DEF Listed
<1>10. ListsOK'
    <2>1. f \notin Range(youngList)
        BY <1>1 DEF Listed
    <2>2. Len(oldList) + Len(youngList) + numBaking < NumPages /\ numBaking \in Nat
        BY <1>2, <1>3 DEF HasRoom, TypeOK
    <2>3. Len(oldList) + Len(youngList) + (numBaking + 1) <= NumPages
        BY <2>2, ListedFrames
    <2>4. Range(oldList) \subseteq inOld' /\ Range(youngList) \cap inOld' = {}
        BY <1>1, <2>1 DEF PInv, ListsOK
    <2>5. Len(oldList') + Len(youngList') + numBaking' <= NumPages' /\ UNCHANGED <<oldList, youngList>>
        BY <1>2, <2>3 DEF NumPages
    <2> QED
        BY <2>4, <2>5 DEF PInv, ListsOK
<1>11. TypeOK'
    <2>1. pc' \in [Threads -> Labels]
        BY <1>2, <1>3 DEF TypeOK, Labels, InGetPage
    <2>2. /\ refCount' \in [Frames -> Nat] /\ mine' \in [Threads -> Frames \cup {NoFrame}] /\ inOld' \subseteq Frames
          /\ isDirty' \subseteq Frames /\ numBaking' \in Nat
        BY <1>1, <1>2, <1>3 DEF TypeOK
    <2> QED
        BY <1>2, <1>3, <1>6, <2>1, <2>2 DEF TypeOK, Labels
<1>12. ClientOK(t)' /\ ~Baking(t) /\ Baking(t)'
    <2>1. t \notin changed'
        BY <1>2, <1>3 DEF ClientOK
    <2>2. \A u \in Threads \ {t} : mine'[u] # f
        BY <1>5, <1>8 DEF Others
    <2> QED
        BY <1>1, <1>2, <1>4, <1>7, <1>9, <2>1, <2>2 DEF ClientOK, Baking, Pinning, VictimHeld
<1>13. Counts'
    <2>1. numBaking' = Cardinality(InBaking')
        BY <1>2, <1>8, <1>12, BakingMoves
    <2>2. refCount[f] = 0
        <3>1. Holders(f) = {}
            BY <1>5 DEF Holders
        <3> QED
            BY <3>1, FS_EmptySet DEF PInv, Counts
    <2>3. ASSUME NEW g \in Frames PROVE refCount'[g] = Cardinality(Holders(g)')
        <3>1. /\ mine[t] # g /\ refCount[g] \in Nat
              /\ (mine[t] = g <=> f = g) => Cardinality(Holders(g)') = refCount[g]
              /\ mine[t] # g /\ f = g => Cardinality(Holders(g)') = refCount[g] + 1
            BY <1>1, <1>4, HoldersMove, ListedFrames, ZenonT(60)
        <3>2. refCount'[g] = IF f = g THEN 1 ELSE refCount[g]
            BY <1>1, <1>7
        <3> QED
            BY <2>2, <3>1, <3>2
    <2> QED
        BY <2>1, <2>3 DEF Counts
<1>14. MapOK'
    <2>1. \A u \in Threads : Baking(u) => Baking(u)' /\ mine'[u] = mine[u]
        BY <1>8, <1>12, OthersStay DEF Others
    <2> QED
        BY <1>2, <1>6, <1>9, <2>1 DEF PInv, MapOK
<1>15. FlushOK'
    BY <1>2, <1>6 DEF PInv, FlushOK
<1>16. \A u \in Threads \ {t} :
           /\ mine[u] \in Listed => mine[u] \in Listed'
           /\ Baking(u) => mine[u] \notin Listed' /\ mine'[t] # mine[u]
    BY <1>5, <1>7, <1>9 DEF PInv, ClientsOK, ClientOK
<1>17. \A p \in Pages : Owns(t, p)' <=> Owns(t, p)
    BY <1>2, <1>7 DEF Owns, InGetPage
<1>18. \A p \in pageLock' : Owns(t, p)' \/ (p \in pageLock /\ ~Owns(t, p))
    BY <1>2, <1>3, <1>17 DEF TypeOK
<1>19. ASSUME "readFailed" \notin mishaps'
       PROVE  /\ "readFailed" \notin mishaps
              /\ \A p \in Pages : Owns(t, p)' => p \in pageLock' /\ (Owns(t, p) \/ p \notin pageLock)
              /\ OutOfMap(t)' /\ InMap'
    <2>1. "readFailed" \notin mishaps /\ OwnersLock /\ InMap /\ OutOfMap(t)
        BY <1>2, <1>19 DEF PInv, Exclusive
    <2>2. OutOfMap(t)'
        BY <1>2, <1>7, <2>1 DEF OutOfMap, VictimHeld
    <2>3. InMap'
        BY <1>2, <1>6, <1>9, <2>1 DEF InMap
    <2> QED
        BY <1>2, <1>17, <2>1, <2>2, <2>3 DEF OwnersLock
<1> QED
    BY <1>2, <1>8, <1>10, <1>11, <1>12, <1>13, <1>14, <1>15, <1>16, <1>18, <1>19, StepInv

(* A victim is listed, unpinned and its page unlocked. *)
LEMMA VictimFacts ==
    ASSUME PInv, NEW f \in Frames, IsVictim(f)
    PROVE  f \in Listed /\ refCount[f] = 0 /\ pageId[f] \in Pages \ pageLock
<1> DEFINE lru == youngList \o oldList
<1>1. youngList \in Seq(Frames) /\ oldList \in Seq(Frames)
    BY DEF PInv, TypeOK
<1>2. lru \in Seq(Frames) /\ Range(lru) = Range(youngList) \cup Range(oldList)
    BY <1>1, TwoLists
<1>3. PICK i \in 1 .. Len(lru) : lru[i] = f /\ Evictable(f)
    BY DEF IsVictim
<1> HIDE DEF lru
<1>4. f \in Listed
    BY <1>2, <1>3, ListRange DEF Listed
<1> QED
    BY <1>3, <1>4 DEF Evictable, PInv, MapOK

(* evictPage takes a victim. *)
LEMMA EvictInv ==
    ASSUME PInv, NEW t \in Threads, Evict(t)
    PROVE  PInv'
<1>1. PICK f \in Frames :
          /\ IsVictim(f)
          /\ refCount' = [refCount EXCEPT ![f] = 1]
          /\ pageLock' = pageLock \cup {pageId[f]}
          /\ pages' = [pages EXCEPT ![pageId[f]] = NoFrame]
          /\ oldList' = IF f \in inOld THEN Unlink(oldList, f) ELSE oldList
          /\ youngList' = IF f \in inOld THEN youngList ELSE Unlink(youngList, f)
          /\ mine' = [mine EXCEPT ![t] = f]
    BY DEF Evict
<1> DEFINE q == pageId[f]
<1>2. /\ pc[t] = "evict" /\ numBaking' = numBaking + 1 /\ pc' = [pc EXCEPT ![t] = "victim"]
      /\ UNCHANGED <<pageId, bytes, isDirty, inOld, disk, want, changed, mishaps>>
      /\ UNCHANGED <<flushPc, dirtyPages, flushOid, writes, faults, flushes>>
    BY DEF Evict, Goto, flushVars, counters
<1>3. TypeOK /\ ClientOK(t)
    BY DEF PInv, ClientsOK
<1>4. want[t] \in Pages /\ mine[t] = NoFrame
    BY <1>2, <1>3 DEF ClientOK
<1>5. f \in Listed /\ refCount[f] = 0 /\ q \in Pages /\ q \notin pageLock /\ \A u \in Threads : mine[u] # f
    BY <1>1, VictimFacts, HoldersOf
<1>6. oldList' \in Seq(Frames) /\ youngList' \in Seq(Frames) /\ ListsOK' /\ Listed' = Listed \ {f}
    BY <1>1, <1>2, <1>5, EvictLists
<1>7. /\ pc'[t] = "victim" /\ mine'[t] = f /\ refCount \in [Frames -> Nat] /\ pageLock' = pageLock \cup {q}
      /\ pages'[q] = NoFrame /\ \A p \in Pages \ {q} : pages'[p] = pages[p]
    BY <1>1, <1>2, <1>3, <1>5 DEF TypeOK
<1>8. Others(t)
    BY <1>1, <1>2, <1>3 DEF TypeOK, Others
<1>9. TypeOK'
    <2>1. pc' \in [Threads -> Labels]
        BY <1>2, <1>3 DEF TypeOK, Labels, InGetPage
    <2>2. /\ refCount' \in [Frames -> Nat] /\ mine' \in [Threads -> Frames \cup {NoFrame}]
          /\ pages' \in [Pages -> Frames \cup {NoFrame}] /\ pageLock' \subseteq Pages /\ numBaking' \in Nat
        BY <1>1, <1>2, <1>3, <1>5 DEF TypeOK
    <2> QED
        BY <1>2, <1>3, <1>6, <2>1, <2>2 DEF TypeOK, Labels
<1> HIDE DEF q
<1>10. ClientOK(t)' /\ ~Baking(t) /\ Baking(t)'
    <2>1. t \notin changed'
        BY <1>2, <1>3 DEF ClientOK
    <2>2. \A u \in Threads \ {t} : mine'[u] # f
        BY <1>5, <1>8 DEF Others
    <2>3. pageId'[f] \in Pages
        BY <1>2, <1>5 DEF q
    <2> QED
        BY <1>2, <1>4, <1>6, <1>7, <2>1, <2>2, <2>3 DEF ClientOK, Baking, Pinning, VictimHeld
<1>11. Counts'
    <2>1. numBaking' = Cardinality(InBaking')
        BY <1>2, <1>8, <1>10, BakingMoves
    <2>2. ASSUME NEW g \in Frames PROVE refCount'[g] = Cardinality(Holders(g)')
        <3>1. /\ mine[t] # g /\ refCount[g] \in Nat
              /\ (mine[t] = g <=> f = g) => Cardinality(Holders(g)') = refCount[g]
              /\ mine[t] # g /\ f = g => Cardinality(Holders(g)') = refCount[g] + 1
            BY <1>1, <1>4, HoldersMove, ListedFrames, ZenonT(60)
        <3>2. refCount'[g] = IF f = g THEN 1 ELSE refCount[g]
            BY <1>1, <1>7
        <3> QED
            BY <1>5, <3>1, <3>2
    <2> QED
        BY <2>1, <2>2 DEF Counts
<1>12. \A u \in Threads : Baking(u) => Baking(u)' /\ mine'[u] = mine[u]
    BY <1>8, <1>10, OthersStay DEF Others
<1>13. MapOK'
    <2>1. ASSUME NEW p \in Pages, pages'[p] # NoFrame PROVE pages'[p] \in Listed' /\ pageId'[pages'[p]] = p
        <3>1. p # q /\ pages'[p] = pages[p] /\ pages[p] # NoFrame
            BY <1>7, <2>1
        <3>2. pages[p] \in Listed /\ pageId[pages[p]] = p
            BY <3>1 DEF PInv, MapOK
        <3> QED
            BY <1>2, <1>6, <3>1, <3>2 DEF q
    <2>2. \A g \in Listed' : pageId'[g] \in Pages
        BY <1>2, <1>6 DEF PInv, MapOK
    <2>3. ASSUME NEW g \in Frames, pageId'[g] # NoPage
          PROVE  g \in Listed' \/ \E u \in Threads : Baking(u)' /\ mine'[u] = g
        BY <1>2, <1>6, <1>7, <1>10, <1>12, <2>3, SMTT(30) DEF PInv, MapOK
    <2> QED
        BY <2>1, <2>2, <2>3 DEF MapOK
<1>14. FlushOK'
    BY <1>2 DEF PInv, FlushOK
<1>15. \A u \in Threads \ {t} :
           /\ mine[u] \in Listed => mine[u] \in Listed'
           /\ Baking(u) => mine[u] \notin Listed' /\ mine'[t] # mine[u]
    BY <1>5, <1>6, <1>7 DEF PInv, ClientsOK, ClientOK
<1>16. \A p \in Pages : (Owns(t, p) <=> p = want[t]) /\ (Owns(t, p)' <=> p = want[t] \/ p = q)
    BY <1>2, <1>7 DEF Owns, InGetPage, q
<1>17. \A p \in pageLock' : Owns(t, p)' \/ (p \in pageLock /\ ~Owns(t, p))
    BY <1>3, <1>5, <1>7, <1>16 DEF TypeOK
<1>18. ASSUME "readFailed" \notin mishaps'
       PROVE  /\ "readFailed" \notin mishaps
              /\ \A p \in Pages : Owns(t, p)' => p \in pageLock' /\ (Owns(t, p) \/ p \notin pageLock)
              /\ OutOfMap(t)' /\ InMap'
    <2>1. "readFailed" \notin mishaps /\ OwnersLock /\ InMap /\ OutOfMap(t)
        BY <1>2, <1>18 DEF PInv, Exclusive
    <2>2. want[t] \in pageLock /\ want[t] # q /\ pages[want[t]] = NoFrame
        BY <1>2, <1>4, <1>5, <1>16, <2>1 DEF OwnersLock, OutOfMap
    <2>3. OutOfMap(t)'
        <3>1. pageId'[mine'[t]] = q /\ want'[t] = want[t] /\ pages'[want[t]] = NoFrame
            BY <1>2, <1>4, <1>7, <2>2 DEF q
        <3> QED
            BY <1>7, <2>2, <3>1 DEF OutOfMap, VictimHeld
    <2>4. InMap'
        <3> SUFFICES ASSUME NEW g \in Listed \ {f} PROVE pages'[pageId[g]] = g
            BY <1>2, <1>6 DEF InMap
        <3>1. pages[pageId[g]] = g /\ pages[q] = f /\ pageId[g] \in Pages
            BY <1>5, <2>1 DEF InMap, q, PInv, MapOK
        <3>2. pageId[g] # q
            BY <3>1
        <3> QED
            BY <1>7, <3>1, <3>2
    <2> QED
        BY <1>7, <1>16, <2>1, <2>2, <2>3, <2>4, <1>5
<1>19. /\ \A p \in Pages : p \in pageLock => p \in pageLock'
       /\ \A p \in Pages : pages'[p] = pages[p] \/ pages'[p] = NoFrame
    BY <1>7
<1> QED
    BY <1>2, <1>6, <1>8, <1>9, <1>10, <1>11, <1>13, <1>14, <1>15, <1>17, <1>18, <1>19, StepInv

(* A failed write or read gives the frame back to the pool. *)
LEMMA RollbackInv ==
    ASSUME PInv, NEW t \in Threads, WriteBackFails(t) \/ ReadFails(t)
    PROVE  PInv'
<1> DEFINE f == mine[t]
           q == pageId[f]
<1>1. /\ pc[t] \in {"writeback", "load"} /\ pc' = [pc EXCEPT ![t] = "got"]
      /\ faults < MaxFaults /\ faults' = faults + 1
      /\ RollbackEviction(f) /\ mine' = [mine EXCEPT ![t] = NoFrame]
      /\ UNCHANGED <<pageId, bytes, isDirty, inOld, disk, want, changed, flushPc, dirtyPages, flushOid, writes, flushes>>
      /\ mishaps' = IF pc[t] = "load" THEN mishaps \cup {"readFailed"} ELSE mishaps
    BY DEF WriteBackFails, ReadFails, Goto, flushVars
<1>2. TypeOK /\ ClientOK(t)
    BY DEF PInv, ClientsOK
<1>3. Baking(t) /\ f \in Frames \ Listed /\ want[t] \in Pages /\ q \in Pages /\ \A u \in Threads \ {t} : mine[u] # f
    <2>1. Baking(t) /\ (pc[t] = "writeback" => VictimHeld(t))
        BY <1>1 DEF Baking, VictimHeld
    <2> QED
        BY <1>1, <1>2, <2>1 DEF ClientOK
<1>4. pc'[t] = "got" /\ mine'[t] = NoFrame /\ refCount \in [Frames -> Nat] /\ want'[t] = want[t]
    BY <1>1, <1>2 DEF TypeOK
<1>5. Others(t)
    BY <1>1, <1>2 DEF TypeOK, Others
<1>6. ~Baking(t)'
    BY <1>4 DEF Baking
<1>7. numBaking \in Nat /\ numBaking > 0 /\ Cardinality(InBaking') = numBaking - 1
    BY <1>3, <1>5, <1>6, BakingMoves
<1> HIDE DEF f
<1>8. /\ refCount' = [refCount EXCEPT ![f] = 0] /\ pageLock' = pageLock \ {q}
      /\ numBaking' = numBaking - 1 /\ pages' = [pages EXCEPT ![q] = f]
      /\ oldList' = IF f \in inOld THEN <<f>> \o oldList ELSE oldList
      /\ youngList' = IF f \in inOld THEN youngList ELSE <<f>> \o youngList
    BY <1>1, <1>7 DEF RollbackEviction, PutBack
<1>9. oldList' \in Seq(Frames) /\ youngList' \in Seq(Frames) /\ ListsOK' /\ Listed' = Listed \cup {f}
    BY <1>1, <1>3, <1>7, <1>8, EnterLists
<1>10. pages'[q] = f /\ \A p \in Pages \ {q} : pages'[p] = pages[p]
    BY <1>2, <1>3, <1>8 DEF TypeOK
<1>11. TypeOK'
    <2>1. pc' \in [Threads -> Labels] /\ faults' \in 0 .. MaxFaults
        BY <1>1, <1>2, PoolAssumption DEF TypeOK, Labels, InGetPage
    <2>2. /\ refCount' \in [Frames -> Nat] /\ mine' \in [Threads -> Frames \cup {NoFrame}]
          /\ pages' \in [Pages -> Frames \cup {NoFrame}] /\ pageLock' \subseteq Pages /\ numBaking' \in Nat
        BY <1>1, <1>2, <1>3, <1>7, <1>8 DEF TypeOK
    <2>3. mishaps' \subseteq {"readFailed", "frameReused"}
        BY <1>1, <1>2 DEF TypeOK
    <2> QED
        BY <1>1, <1>2, <1>9, <2>1, <2>2, <2>3 DEF TypeOK, Labels
<1>12. ClientOK(t)'
    <2>1. t \notin changed'
        BY <1>1, <1>2 DEF ClientOK
    <2> QED
        BY <1>3, <1>4, <2>1 DEF ClientOK, Baking, Pinning, VictimHeld
<1>13. Counts'
    <2>1. numBaking' = Cardinality(InBaking')
        BY <1>7, <1>8
    <2>2. ASSUME NEW g \in Frames PROVE refCount'[g] = Cardinality(Holders(g)')
        <3>1. /\ refCount[g] \in Nat /\ NoFrame # g
              /\ (mine[t] = g <=> NoFrame = g) => Cardinality(Holders(g)') = refCount[g]
              /\ mine[t] = g /\ NoFrame # g => Cardinality(Holders(g)') = refCount[g] - 1
            <4>1. NoFrame \in Frames \cup {NoFrame} /\ mine' = [mine EXCEPT ![t] = NoFrame]
                BY <1>1
            <4>2. NoFrame # g
                BY ListedFrames
            <4> QED
                BY <4>1, <4>2, HoldersMove
        <3>2. refCount'[g] = IF f = g THEN 0 ELSE refCount[g]
            BY <1>3, <1>4, <1>8
        <3>3. f = g => refCount[g] = 1
            BY <1>3, HoldersOf DEF f
        <3> QED
            BY <3>1, <3>2, <3>3 DEF f
    <2> QED
        BY <2>1, <2>2 DEF Counts
<1>14. MapOK'
    <2>1. ASSUME NEW p \in Pages, pages'[p] # NoFrame PROVE pages'[p] \in Listed' /\ pageId'[pages'[p]] = p
        <3>1. CASE p = q
            BY <1>1, <1>9, <1>10, <3>1
        <3>2. CASE p # q
            BY <1>1, <1>9, <1>10, <2>1, <3>2 DEF PInv, MapOK
        <3> QED
            BY <3>1, <3>2
    <2>2. \A g \in Listed' : pageId'[g] \in Pages
        BY <1>1, <1>3, <1>9 DEF PInv, MapOK
    <2>3. ASSUME NEW g \in Frames, pageId'[g] # NoPage
          PROVE  g \in Listed' \/ \E u \in Threads : Baking(u)' /\ mine'[u] = g
        <3>1. g \in Listed \/ \E u \in Threads : Baking(u) /\ mine[u] = g
            BY <1>1, <2>3 DEF PInv, MapOK
        <3>2. \A u \in Threads \ {t} : Baking(u) => Baking(u)' /\ mine'[u] = mine[u]
            BY <1>5, OthersStay DEF Others
        <3> QED
            BY <1>9, <3>1, <3>2 DEF f
    <2> QED
        BY <2>1, <2>2, <2>3 DEF MapOK
<1>15. FlushOK'
    BY <1>1 DEF PInv, FlushOK
<1>16. \A u \in Threads \ {t} :
           /\ mine[u] \in Listed => mine[u] \in Listed'
           /\ Baking(u) => mine[u] \notin Listed' /\ mine'[t] # mine[u]
    BY <1>3, <1>4, <1>9, ListedFrames DEF PInv, ClientsOK, ClientOK
<1>17. \A p \in Pages : (Owns(t, p) <=> p = want[t] \/ p = q) /\ (Owns(t, p)' <=> p = want[t])
    <2>1. pc[t] = "load" => q = want[t]
        BY <1>2 DEF ClientOK, f
    <2> QED
        BY <1>1, <1>4, <2>1 DEF Owns, InGetPage, f
<1>18. \A p \in pageLock' : Owns(t, p)' \/ (p \in pageLock /\ ~Owns(t, p))
    BY <1>2, <1>8, <1>17 DEF TypeOK
<1>19. ASSUME "readFailed" \notin mishaps'
       PROVE  /\ "readFailed" \notin mishaps
              /\ \A p \in Pages : Owns(t, p)' => p \in pageLock' /\ (Owns(t, p) \/ p \notin pageLock)
              /\ OutOfMap(t)' /\ InMap'
    <2>1. "readFailed" \notin mishaps /\ pc[t] = "writeback"
        BY <1>1, <1>19
    <2>2. OwnersLock /\ InMap /\ OutOfMap(t)
        BY <2>1 DEF PInv, Exclusive
    <2>3. want[t] \in pageLock /\ want[t] # q /\ pages[q] = NoFrame
        BY <1>3, <1>17, <2>1, <2>2 DEF OwnersLock, OutOfMap, VictimHeld, f
    <2>4. OutOfMap(t)'
        BY <1>4, <1>6 DEF OutOfMap, VictimHeld
    <2>5. InMap'
        <3> SUFFICES ASSUME NEW g \in Listed \cup {f} PROVE pages'[pageId[g]] = g
            BY <1>1, <1>9 DEF InMap
        <3>1. CASE g = f
            BY <1>10, <3>1
        <3>2. CASE g # f
            <4>1. g \in Listed /\ pages[pageId[g]] = g /\ pageId[g] \in Pages /\ g # NoFrame
                BY <2>2, <3>2, ListedFrames DEF InMap, PInv, MapOK
            <4>2. pageId[g] # q
                BY <2>3, <4>1
            <4> QED
                BY <1>10, <4>1, <4>2
        <3> QED
            BY <3>1, <3>2
    <2> QED
        BY <1>8, <1>17, <2>1, <2>3, <2>4, <2>5
<1>20. /\ \A p \in Pages : p \in pageLock => p \in pageLock' \/ Owns(t, p)
       /\ \A p \in Pages : pages'[p] = pages[p] \/ Owns(t, p)
    BY <1>8, <1>10, <1>17
<1> QED
    BY <1>1, <1>5, <1>9, <1>11, <1>12, <1>13, <1>14, <1>15, <1>16, <1>18, <1>19, <1>20, StepInv

(* The frame is given its new page while only the loader has it. *)
LEMMA RetargetInv ==
    ASSUME PInv, NEW t \in Threads, Retarget(t)
    PROVE  PInv'
<1> DEFINE f == mine[t]
<1>1. /\ pc[t] = "retarget" /\ pc' = [pc EXCEPT ![t] = "load"]
      /\ pageId' = [pageId EXCEPT ![f] = want[t]]
      /\ UNCHANGED <<bytes, isDirty, refCount, inOld, pages, oldList, youngList, numBaking, pageLock, disk>>
      /\ UNCHANGED <<want, mine, changed, mishaps, flushPc, dirtyPages, flushOid, writes, faults, flushes>>
    BY DEF Retarget, Goto, shardVars, flushVars, counters
<1>2. TypeOK /\ ClientOK(t)
    BY DEF PInv, ClientsOK
<1>3. Baking(t) /\ f \in Frames \ Listed /\ want[t] \in Pages /\ \A u \in Threads \ {t} : mine[u] # f
    <2>1. Baking(t)
        BY <1>1 DEF Baking
    <2> QED
        BY <1>1, <1>2, <2>1 DEF ClientOK
<1>4. pc'[t] = "load" /\ mine'[t] = f /\ pageId'[f] = want[t] /\ \A g \in Frames \ {f} : pageId'[g] = pageId[g]
    BY <1>1, <1>2, <1>3 DEF TypeOK
<1>5. Others(t)
    BY <1>1, <1>2, <1>3 DEF TypeOK, Others
<1>6. Baking(t)'
    BY <1>4 DEF Baking
<1> HIDE DEF f
<1>7. Listed' = Listed /\ ListsOK'
    BY <1>1 DEF Listed, PInv, ListsOK, NumPages
<1>8. TypeOK'
    <2>1. pc' \in [Threads -> Labels]
        BY <1>1, <1>2 DEF TypeOK, Labels, InGetPage
    <2>2. pageId' \in [Frames -> Pages \cup {NoPage}]
        BY <1>1, <1>2, <1>3 DEF TypeOK
    <2> QED
        BY <1>1, <1>2, <2>1, <2>2 DEF TypeOK, Labels
<1>9. ClientOK(t)'
    <2>1. t \notin changed'
        BY <1>1, <1>2 DEF ClientOK
    <2>2. want' = want /\ mine' = mine
        BY <1>1
    <2>3. \A u \in Threads \ {t} : mine'[u] # f
        BY <1>3, <2>2
    <2> QED
        BY <1>3, <1>4, <1>7, <2>1, <2>2, <2>3 DEF ClientOK, Baking, Pinning, VictimHeld
<1>10. Counts'
    <2>1. numBaking' = Cardinality(InBaking')
        BY <1>1, <1>3, <1>5, <1>6, BakingMoves
    <2>2. \A g \in Frames : Holders(g)' = Holders(g)
        BY <1>1 DEF Holders
    <2> QED
        BY <1>1, <2>1, <2>2 DEF PInv, Counts
<1>11. MapOK'
    <2>1. \A p \in Pages : pages'[p] # NoFrame => pages'[p] \in Listed' /\ pageId'[pages'[p]] = p
        BY <1>1, <1>3, <1>4, <1>7, ListedFrames DEF PInv, MapOK
    <2>2. \A g \in Listed' : pageId'[g] \in Pages
        BY <1>3, <1>4, <1>7, ListedFrames DEF PInv, MapOK
    <2>3. \A g \in Frames : pageId'[g] # NoPage => g \in Listed' \/ \E u \in Threads : Baking(u)' /\ mine'[u] = g
        <3>1. \A u \in Threads : Baking(u) => Baking(u)' /\ mine'[u] = mine[u]
            BY <1>1, <1>5, <1>6, OthersStay
        <3> QED
            BY <1>4, <1>6, <1>7, <3>1 DEF PInv, MapOK
    <2> QED
        BY <2>1, <2>2, <2>3 DEF MapOK
<1>12. FlushOK'
    <2>1. \A i \in 1 .. Len(dirtyPages) : dirtyPages[i] \in Frames
        BY <1>2 DEF TypeOK
    <2>2. \A i \in 1 .. Len(dirtyPages) : pageId'[dirtyPages[i]] \in Pages
        BY <1>3, <1>4, <2>1 DEF PInv, FlushOK
    <2> QED
        BY <1>1, <2>2 DEF PInv, FlushOK
<1>13. \A u \in Threads \ {t} :
           /\ mine[u] \in Listed => mine[u] \in Listed'
           /\ Baking(u) => mine[u] \notin Listed' /\ mine'[t] # mine[u]
    BY <1>3, <1>4, <1>7 DEF PInv, ClientsOK, ClientOK
<1>14. \A p \in Pages : Owns(t, p)' <=> Owns(t, p)
    BY <1>1, <1>4 DEF Owns, InGetPage
<1>15. \A p \in pageLock' : Owns(t, p)' \/ (p \in pageLock /\ ~Owns(t, p))
    BY <1>1, <1>2, <1>14 DEF TypeOK
<1>16. ASSUME "readFailed" \notin mishaps'
       PROVE  /\ "readFailed" \notin mishaps
              /\ \A p \in Pages : Owns(t, p)' => p \in pageLock' /\ (Owns(t, p) \/ p \notin pageLock)
              /\ OutOfMap(t)' /\ InMap'
    <2>1. "readFailed" \notin mishaps /\ OwnersLock /\ InMap /\ OutOfMap(t)
        BY <1>1, <1>16 DEF PInv, Exclusive
    <2>2. OutOfMap(t)'
        BY <1>1, <1>3, <1>4, <2>1 DEF OutOfMap, VictimHeld
    <2>3. InMap'
        BY <1>1, <1>3, <1>4, <1>7, <2>1, ListedFrames DEF InMap
    <2> QED
        BY <1>1, <1>14, <2>1, <2>2, <2>3 DEF OwnersLock
<1> QED
    BY <1>1, <1>5, <1>7, <1>8, <1>9, <1>10, <1>11, <1>12, <1>13, <1>15, <1>16, StepInv

(* The loaded frame enters the pool. *)
LEMMA PublishInv ==
    ASSUME PInv, NEW t \in Threads, Publish(t)
    PROVE  PInv'
<1> DEFINE f == mine[t]
           q == want[t]
<1>1. /\ pc[t] = "publish" /\ pc' = [pc EXCEPT ![t] = "got"]
      /\ isDirty' = isDirty \ {f} /\ inOld' = inOld \cup {f} /\ oldList' = <<f>> \o oldList
      /\ youngList' = youngList /\ pages' = [pages EXCEPT ![q] = f] /\ numBaking' = numBaking - 1
      /\ UNCHANGED <<pageId, bytes, refCount, pageLock, disk, want, mine, changed, mishaps>>
      /\ UNCHANGED <<flushPc, dirtyPages, flushOid, writes, faults, flushes>>
    BY DEF Publish, Goto, flushVars, counters
<1>2. TypeOK /\ ClientOK(t)
    BY DEF PInv, ClientsOK
<1>3. Baking(t) /\ f \in Frames \ Listed /\ q \in Pages /\ pageId[f] = q /\ \A u \in Threads \ {t} : mine[u] # f
    <2>1. Baking(t)
        BY <1>1 DEF Baking
    <2> QED
        BY <1>1, <1>2, <2>1 DEF ClientOK
<1>4. pc'[t] = "got" /\ mine'[t] = f /\ want'[t] = q
    BY <1>1, <1>2 DEF TypeOK
<1>5. Others(t)
    BY <1>1, <1>2 DEF TypeOK, Others
<1>6. ~Baking(t)'
    BY <1>4 DEF Baking
<1>7. numBaking \in Nat /\ numBaking > 0 /\ Cardinality(InBaking') = numBaking - 1
    BY <1>3, <1>5, <1>6, BakingMoves
<1> HIDE DEF f, q
<1>8. oldList' \in Seq(Frames) /\ youngList' \in Seq(Frames) /\ ListsOK' /\ Listed' = Listed \cup {f}
    BY <1>1, <1>3, <1>7, EnterLists
<1>9. pages'[q] = f /\ \A p \in Pages \ {q} : pages'[p] = pages[p]
    BY <1>1, <1>2, <1>3 DEF TypeOK
<1>10. TypeOK'
    <2>1. pc' \in [Threads -> Labels]
        BY <1>1, <1>2 DEF TypeOK, Labels, InGetPage
    <2>2. /\ pages' \in [Pages -> Frames \cup {NoFrame}] /\ numBaking' \in Nat
          /\ inOld' \subseteq Frames /\ isDirty' \subseteq Frames
        BY <1>1, <1>2, <1>3, <1>7 DEF TypeOK
    <2> QED
        BY <1>1, <1>2, <1>8, <2>1, <2>2 DEF TypeOK, Labels
<1>11. ClientOK(t)'
    <2>1. t \notin changed'
        BY <1>1, <1>2 DEF ClientOK
    <2>2. pageId'[f] = q
        BY <1>1, <1>3
    <2> QED
        BY <1>3, <1>4, <1>8, <2>1, <2>2 DEF ClientOK, Baking, Pinning, VictimHeld
<1>12. Counts'
    <2>1. \A g \in Frames : Holders(g)' = Holders(g)
        BY <1>1 DEF Holders
    <2> QED
        BY <1>1, <1>7, <2>1 DEF PInv, Counts
<1>13. MapOK'
    <2>1. ASSUME NEW p \in Pages, pages'[p] # NoFrame PROVE pages'[p] \in Listed' /\ pageId'[pages'[p]] = p
        <3>1. CASE p = q
            BY <1>1, <1>3, <1>8, <1>9, <3>1
        <3>2. CASE p # q
            BY <1>1, <1>8, <1>9, <2>1, <3>2 DEF PInv, MapOK
        <3> QED
            BY <3>1, <3>2
    <2>2. \A g \in Listed' : pageId'[g] \in Pages
        BY <1>1, <1>3, <1>8 DEF PInv, MapOK
    <2>3. ASSUME NEW g \in Frames, pageId'[g] # NoPage
          PROVE  g \in Listed' \/ \E u \in Threads : Baking(u)' /\ mine'[u] = g
        <3>1. g \in Listed \/ \E u \in Threads : Baking(u) /\ mine[u] = g
            BY <1>1, <2>3 DEF PInv, MapOK
        <3>2. \A u \in Threads \ {t} : Baking(u) => Baking(u)' /\ mine'[u] = mine[u]
            BY <1>5, OthersStay DEF Others
        <3> QED
            BY <1>8, <3>1, <3>2 DEF f
    <2> QED
        BY <2>1, <2>2, <2>3 DEF MapOK
<1>14. FlushOK'
    BY <1>1 DEF PInv, FlushOK
<1>15. \A u \in Threads \ {t} :
           /\ mine[u] \in Listed => mine[u] \in Listed'
           /\ Baking(u) => mine[u] \notin Listed' /\ mine'[t] # mine[u]
    BY <1>3, <1>4, <1>8 DEF PInv, ClientsOK, ClientOK
<1>16. \A p \in Pages : (Owns(t, p) <=> p = q) /\ (Owns(t, p)' <=> p = q)
    BY <1>1, <1>4 DEF Owns, InGetPage, q
<1>17. \A p \in pageLock' : Owns(t, p)' \/ (p \in pageLock /\ ~Owns(t, p))
    BY <1>1, <1>2, <1>16 DEF TypeOK
<1>18. ASSUME "readFailed" \notin mishaps'
       PROVE  /\ "readFailed" \notin mishaps
              /\ \A p \in Pages : Owns(t, p)' => p \in pageLock' /\ (Owns(t, p) \/ p \notin pageLock)
              /\ OutOfMap(t)' /\ InMap'
    <2>1. "readFailed" \notin mishaps /\ OwnersLock /\ InMap /\ OutOfMap(t)
        BY <1>1, <1>18 DEF PInv, Exclusive
    <2>2. pages[q] = NoFrame
        BY <1>3, <2>1 DEF OutOfMap, q
    <2>3. OutOfMap(t)'
        BY <1>4, <1>6 DEF OutOfMap, VictimHeld
    <2>4. InMap'
        <3> SUFFICES ASSUME NEW g \in Listed \cup {f} PROVE pages'[pageId[g]] = g
            BY <1>1, <1>8 DEF InMap
        <3>1. CASE g = f
            BY <1>3, <1>9, <3>1
        <3>2. CASE g # f
            <4>1. g \in Listed /\ pages[pageId[g]] = g /\ pageId[g] \in Pages /\ g # NoFrame
                BY <2>1, <3>2, ListedFrames DEF InMap, PInv, MapOK
            <4>2. pageId[g] # q
                BY <2>2, <4>1
            <4> QED
                BY <1>9, <4>1, <4>2
        <3> QED
            BY <3>1, <3>2
    <2> QED
        BY <1>1, <1>16, <2>1, <2>3, <2>4 DEF OwnersLock
<1>19. /\ \A p \in Pages : p \in pageLock => p \in pageLock'
       /\ \A p \in Pages : pages'[p] = pages[p] \/ Owns(t, p)
    BY <1>1, <1>9, <1>16
<1> QED
    BY <1>1, <1>5, <1>8, <1>10, <1>11, <1>12, <1>13, <1>14, <1>15, <1>17, <1>18, <1>19, StepInv

(* UnpinPage gives up the pin. *)
LEMMA UnpinInv ==
    ASSUME PInv, NEW t \in Threads, UnpinCount(t)
    PROVE  PInv'
<1> DEFINE f == mine[t]
<1>1. /\ pc[t] = "unpin" /\ pc' = [pc EXCEPT ![t] = "idle"]
      /\ refCount' = [refCount EXCEPT ![f] = refCount[f] - 1]
      /\ mine' = [mine EXCEPT ![t] = NoFrame] /\ want' = [want EXCEPT ![t] = NoPage]
      /\ UNCHANGED <<pageId, bytes, isDirty, inOld, pages, oldList, youngList, numBaking, pageLock, disk, changed>>
      /\ UNCHANGED <<mishaps, flushPc, dirtyPages, flushOid, writes, faults, flushes>>
    BY DEF UnpinCount, Goto, shardVars, flushVars, counters
<1>2. TypeOK /\ ClientOK(t)
    BY DEF PInv, ClientsOK
<1>3. f \in Listed /\ f \in Frames
    BY <1>1, <1>2, ListedFrames DEF ClientOK
<1>4. pc'[t] = "idle" /\ mine'[t] = NoFrame /\ refCount \in [Frames -> Nat]
    BY <1>1, <1>2 DEF TypeOK
<1>5. Others(t)
    BY <1>1, <1>2 DEF TypeOK, Others
<1>6. ~Baking(t) /\ ~Baking(t)'
    BY <1>1, <1>4 DEF Baking
<1>7. Listed' = Listed /\ ListsOK'
    BY <1>1 DEF Listed, PInv, ListsOK, NumPages
<1>8. ASSUME NEW g \in Frames
      PROVE  refCount'[g] = Cardinality(Holders(g)') /\ (g = f => refCount[g] > 0)
    <2>1. NoFrame \in Frames \cup {NoFrame} /\ NoFrame # g
        BY ListedFrames
    <2>2. /\ refCount[g] \in Nat
          /\ (mine[t] = g <=> NoFrame = g) => Cardinality(Holders(g)') = refCount[g]
          /\ mine[t] = g /\ NoFrame # g => Cardinality(Holders(g)') = refCount[g] - 1 /\ refCount[g] > 0
        BY <1>1, <2>1, HoldersMove
    <2>3. refCount'[g] = IF mine[t] = g THEN refCount[g] - 1 ELSE refCount[g]
        BY <1>1, <1>3, <1>4
    <2> QED
        BY <2>1, <2>2, <2>3
<1>9. TypeOK'
    <2>1. pc' \in [Threads -> Labels]
        BY <1>1, <1>2 DEF TypeOK, Labels, InGetPage
    <2>2. mine' \in [Threads -> Frames \cup {NoFrame}] /\ want' \in [Threads -> Pages \cup {NoPage}]
        BY <1>1, <1>2 DEF TypeOK
    <2>3. refCount' \in [Frames -> Nat]
        <3>1. refCount[f] - 1 \in Nat
            BY <1>3, <1>4, <1>8
        <3> QED
            BY <1>1, <1>4, <3>1
    <2> QED
        BY <1>1, <1>2, <2>1, <2>2, <2>3 DEF TypeOK, Labels
<1>10. ClientOK(t)'
    <2>1. t \notin changed'
        BY <1>1, <1>2 DEF ClientOK
    <2> QED
        BY <1>4, <2>1 DEF ClientOK, Baking, Pinning, VictimHeld
<1>11. Counts'
    <2>1. numBaking' = Cardinality(InBaking')
        BY <1>1, <1>5, <1>6, BakingMoves
    <2> QED
        BY <1>8, <2>1 DEF Counts
<1>12. MapOK'
    <2>1. \A u \in Threads : Baking(u) => Baking(u)' /\ mine'[u] = mine[u]
        BY <1>5, <1>6, OthersStay DEF Others
    <2> QED
        BY <1>1, <1>7, <2>1 DEF PInv, MapOK
<1>13. FlushOK'
    BY <1>1 DEF PInv, FlushOK
<1>14. \A u \in Threads \ {t} :
           /\ mine[u] \in Listed => mine[u] \in Listed'
           /\ Baking(u) => mine[u] \notin Listed' /\ mine'[t] # mine[u]
    BY <1>4, <1>7, ListedFrames DEF PInv, ClientsOK, ClientOK
<1>15. \A p \in Pages : ~Owns(t, p)' /\ ~Owns(t, p)
    BY <1>1, <1>4 DEF Owns, InGetPage
<1>16. \A p \in pageLock' : Owns(t, p)' \/ (p \in pageLock /\ ~Owns(t, p))
    BY <1>1, <1>2, <1>15 DEF TypeOK
<1>17. ASSUME "readFailed" \notin mishaps'
       PROVE  "readFailed" \notin mishaps /\ OutOfMap(t)' /\ InMap'
    <2>1. "readFailed" \notin mishaps /\ InMap
        BY <1>1, <1>17 DEF PInv, Exclusive
    <2>2. OutOfMap(t)'
        BY <1>4 DEF OutOfMap, VictimHeld, Baking
    <2>3. InMap'
        BY <1>1, <1>7, <2>1 DEF InMap
    <2> QED
        BY <2>1, <2>2, <2>3
<1> QED
    BY <1>1, <1>5, <1>7, <1>9, <1>10, <1>11, <1>12, <1>13, <1>14, <1>15, <1>16, <1>17, StepInv

-----------------------------------------------------------------------------
(* FlushAllPages *)

(* The flusher changes contents, flags and its own state; what it collects *)
(* has a page, and keeps one when the frame is reused.                     *)
LEMMA FlushInv ==
    ASSUME PInv, Collect \/ FlushStep
    PROVE  PInv'
<1>1. TypeOK /\ FlushOK
    BY DEF PInv
<1>2. /\ UNCHANGED <<pageId, bytes, refCount, inOld, pages, oldList, youngList, numBaking, pageLock>>
      /\ UNCHANGED <<pc, want, mine, changed, writes>>
      /\ mishaps' = mishaps \/ mishaps' = mishaps \cup {"frameReused"}
    BY DEF Collect, FlushStep, OpenFile, WriteFrame, MarkFlushed, FlushReturns, frameVars, shardVars, clientVars, counters
<1>3. /\ flushPc = "open" /\ dirtyPages # <<>> => pageId[Head(dirtyPages)][1] \in Nat
      /\ flushPc \in {"write", "written"} => Head(dirtyPages) \in Frames
    <2>1. dirtyPages # <<>> => Head(dirtyPages) \in Frames /\ pageId[Head(dirtyPages)] \in Pages
        <3>1. ASSUME dirtyPages # <<>> PROVE 1 \in 1 .. Len(dirtyPages) /\ Head(dirtyPages) = dirtyPages[1]
                                             /\ dirtyPages[1] \in Frames
            BY <1>1, <3>1 DEF TypeOK
        <3> QED
            BY <1>1, <3>1 DEF FlushOK
    <2>2. \A p \in Pages : p[1] \in Nat
        BY PoolAssumption
    <2> QED
        BY <1>1, <2>1, <2>2 DEF FlushOK
<1>4. /\ flushPc' \in {"idle", "open", "write", "written"} /\ flushes' \in 0 .. MaxFlushes /\ faults' \in 0 .. MaxFaults
      /\ flushOid' \in Nat /\ isDirty' \subseteq Frames /\ disk' \in [Pages -> Values]
    <2>1. CASE Collect
        BY <1>1, <2>1, PoolAssumption DEF Collect, TypeOK, frameVars, counters
    <2>2. CASE OpenFile
        BY <1>1, <1>3, <2>2 DEF OpenFile, TypeOK, frameVars, counters
    <2>3. CASE WriteFrame
        <3>1. bytes[Head(dirtyPages)] \in Values
            BY <1>1, <1>3, <2>3 DEF WriteFrame, TypeOK
        <3> QED
            BY <1>1, <2>3, <3>1 DEF WriteFrame, TypeOK, frameVars, counters
    <2>4. CASE MarkFlushed
        BY <1>1, <2>4 DEF MarkFlushed, TypeOK, counters
    <2>5. CASE FlushReturns
        BY <1>1, <2>5, PoolAssumption DEF FlushReturns, TypeOK, frameVars
    <2> QED
        BY <2>1, <2>2, <2>3, <2>4, <2>5 DEF FlushStep
<1>5. /\ dirtyPages' \in Seq(Frames)
      /\ flushPc' \in {"write", "written"} => dirtyPages' # <<>>
      /\ \A i \in 1 .. Len(dirtyPages') : pageId[dirtyPages'[i]] \in Pages
    <2>1. CASE Collect
        <3> DEFINE lists == oldList \o youngList
        <3>1. PICK n \in 1 .. Len(lists) : \E at \in [1 .. n -> 1 .. Len(lists)] :
                    dirtyPages' = [i \in 1 .. n |-> lists[at[i]]]
            BY <2>1 DEF Collect
        <3>2. PICK at \in [1 .. n -> 1 .. Len(lists)] : dirtyPages' = [i \in 1 .. n |-> lists[at[i]]]
            BY <3>1
        <3>3. lists \in Seq(Frames) /\ Range(lists) = Listed
            BY <1>1, TwoLists DEF TypeOK, Listed
        <3> HIDE DEF lists
        <3>4. \A i \in 1 .. n : lists[at[i]] \in Frames /\ lists[at[i]] \in Listed
            BY <3>3, ListRange
        <3>5. n \in Nat
            BY <3>3
        <3>6. dirtyPages' \in Seq(Frames) /\ Len(dirtyPages') = n
            <4>1. dirtyPages' \in [1 .. n -> Frames]
                BY <3>2, <3>4
            <4> QED
                BY <3>5, <4>1
        <3>7. \A i \in 1 .. n : pageId[dirtyPages'[i]] \in Pages
            BY <3>2, <3>4 DEF PInv, MapOK
        <3> QED
            BY <2>1, <3>6, <3>7 DEF Collect
    <2>2. CASE OpenFile
        BY <1>1, <2>2 DEF OpenFile, TypeOK, FlushOK
    <2>3. CASE WriteFrame
        BY <1>1, <2>3 DEF WriteFrame, TypeOK, FlushOK
    <2>4. CASE MarkFlushed
        <3>1. dirtyPages \in Seq(Frames) /\ dirtyPages # <<>> /\ dirtyPages' = Tail(dirtyPages) /\ flushPc' = "open"
            BY <1>1, <2>4 DEF MarkFlushed, TypeOK, FlushOK
        <3>2. /\ Tail(dirtyPages) \in Seq(Frames) /\ Len(Tail(dirtyPages)) = Len(dirtyPages) - 1
              /\ \A i \in 1 .. Len(Tail(dirtyPages)) : /\ i + 1 \in 1 .. Len(dirtyPages)
                                                       /\ Tail(dirtyPages)[i] = dirtyPages[i + 1]
            BY <3>1
        <3> QED
            BY <1>1, <3>1, <3>2 DEF FlushOK
    <2>5. CASE FlushReturns
        BY <2>5 DEF FlushReturns
    <2> QED
        BY <2>1, <2>2, <2>3, <2>4, <2>5 DEF FlushStep
<1>6. TypeOK'
    <2>1. mishaps' \subseteq {"readFailed", "frameReused"}
        BY <1>1, <1>2 DEF TypeOK
    <2> QED
        BY <1>1, <1>2, <1>4, <1>5, <2>1 DEF TypeOK
<1>7. FlushOK'
    BY <1>2, <1>5 DEF FlushOK
<1>8. Listed' = Listed /\ ListsOK'
    BY <1>2 DEF Listed, PInv, ListsOK, NumPages
<1>9. /\ \A t \in Threads : (Baking(t)' <=> Baking(t)) /\ (Pinning(t)' <=> Pinning(t)) /\ (VictimHeld(t)' <=> VictimHeld(t))
      /\ \A t \in Threads : \A p \in Pages : Owns(t, p)' <=> Owns(t, p)
    BY <1>2 DEF Baking, Pinning, VictimHeld, Owns
<1>10. MapOK' /\ ClientsOK'
    BY <1>2, <1>8, <1>9 DEF PInv, MapOK, ClientsOK, ClientOK
<1>11. Counts'
    <2>1. InBaking' = InBaking /\ \A f \in Frames : Holders(f)' = Holders(f)
        BY <1>2, <1>9 DEF InBaking, Holders
    <2> QED
        BY <1>2, <2>1 DEF PInv, Counts
<1>12. LocksHeld'
    BY <1>1, <1>2, <1>9 DEF PInv, LocksHeld, TypeOK
<1>13. Exclusive'
    <2> SUFFICES ASSUME "readFailed" \notin mishaps'
                 PROVE  OwnersLock' /\ OneOwner' /\ (\A t \in Threads : OutOfMap(t)') /\ InMap'
        BY DEF Exclusive
    <2>1. OwnersLock /\ OneOwner /\ (\A t \in Threads : OutOfMap(t)) /\ InMap
        BY <1>2 DEF PInv, Exclusive
    <2>2. OwnersLock' /\ OneOwner'
        BY <1>2, <1>9, <2>1 DEF OwnersLock, OneOwner
    <2>3. (\A t \in Threads : OutOfMap(t)') /\ InMap'
        BY <1>2, <1>8, <1>9, <2>1 DEF OutOfMap, InMap
    <2> QED
        BY <2>2, <2>3
<1> QED
    BY <1>6, <1>7, <1>8, <1>10, <1>11, <1>12, <1>13 DEF PInv

-----------------------------------------------------------------------------
(* Every step keeps the invariant. *)
LEMMA PoolNext ==
    ASSUME PInv, [Next]_vars
    PROVE  PInv'
<1>1. ASSUME NEW t \in Threads, (\E p \in Pages : GetPage(t, p)) \/ ClientStep(t) \/ Modify(t)
      PROVE  PInv'
    <2>1. CASE (\E p \in Pages : GetPage(t, p)) \/ Modify(t) \/ UnpinMark(t)
        BY <2>1, UseInv
    <2>2. CASE LockPage(t) \/ ReleaseVictim(t) \/ Return(t)
        BY <2>2, LockInv
    <2>3. CASE \/ Miss(t) \/ CleanVictim(t) \/ DirtyVictim(t) \/ WriteBack(t) \/ MarkClean(t)
               \/ ReadStarts(t) \/ ReadPage(t)
        BY <2>3, MoveInv
    <2>4. CASE Hit(t)
        BY <2>4, HitInv
    <2>5. CASE NewFrame(t)
        BY <2>5, NewFrameInv
    <2>6. CASE Evict(t)
        BY <2>6, EvictInv
    <2>7. CASE WriteBackFails(t) \/ ReadFails(t)
        BY <2>7, RollbackInv
    <2>8. CASE Retarget(t)
        BY <2>8, RetargetInv
    <2>9. CASE Publish(t)
        BY <2>9, PublishInv
    <2>10. CASE UnpinCount(t)
        BY <2>10, UnpinInv
    <2> QED
        BY <1>1, <2>1, <2>2, <2>3, <2>4, <2>5, <2>6, <2>7, <2>8, <2>9, <2>10 DEF ClientStep, Evicting
<1>2. CASE Collect \/ FlushStep
    BY <1>2, FlushInv
<1>3. CASE UNCHANGED vars
    <2>1. /\ UNCHANGED <<pageId, bytes, refCount, inOld, pages, oldList, youngList, numBaking, pageLock>>
          /\ UNCHANGED <<pc, want, mine, changed, writes, mishaps, isDirty, disk, flushPc, dirtyPages, flushOid>>
          /\ UNCHANGED <<faults, flushes>>
        BY <1>3 DEF vars, frameVars, shardVars, clientVars, flushVars, counters
    <2>2. TypeOK' /\ ListsOK' /\ FlushOK'
        BY <2>1 DEF PInv, TypeOK, ListsOK, FlushOK, NumPages
    <2>3. Listed' = Listed /\ InBaking' = InBaking /\ \A f \in Frames : Holders(f)' = Holders(f)
        BY <2>1 DEF Listed, InBaking, Holders, Baking
    <2>4. /\ \A t \in Threads : /\ (Baking(t)' <=> Baking(t)) /\ (Pinning(t)' <=> Pinning(t))
                                /\ (VictimHeld(t)' <=> VictimHeld(t))
          /\ \A t \in Threads : \A p \in Pages : Owns(t, p)' <=> Owns(t, p)
        BY <2>1 DEF Baking, Pinning, VictimHeld, Owns
    <2>5. MapOK' /\ ClientsOK' /\ Counts'
        BY <2>1, <2>3, <2>4 DEF PInv, MapOK, ClientsOK, ClientOK, Counts
    <2>6. LocksHeld'
        BY <2>1, <2>4 DEF PInv, LocksHeld, TypeOK
    <2>7. Exclusive'
        BY <2>1, <2>3, <2>4 DEF PInv, Exclusive, OwnersLock, OneOwner, OutOfMap, InMap
    <2> QED
        BY <2>2, <2>5, <2>6, <2>7 DEF PInv
<1> QED
    BY <1>1, <1>2, <1>3 DEF Next

(* The inductive invariant holds of every reachable state. *)
THEOREM PoolInvariant == Spec => []PInv
BY PoolInit, PoolNext, PTL DEF Spec

(* The fields of frames, shard and goroutines have their types. *)
THEOREM PoolTypes == Spec => []TypeOK
<1>1. PInv => TypeOK
    BY DEF PInv
<1> QED
    BY <1>1, PoolInvariant, PTL

(* No hit, eviction, failed read or failed write-back of evictPage and     *)
(* rollbackEviction loses or duplicates a frame, a pin or a page lock.     *)
THEOREM PoolAccounts == Spec => []ResourcesAccountedFor
<1>1. ASSUME PInv PROVE FramesAccountedFor
    <2> DEFINE lists == oldList \o youngList
    <2>1. oldList \in Seq(Frames) /\ youngList \in Seq(Frames) /\ Range(oldList) \cap Range(youngList) = {}
        BY <1>1 DEF PInv, TypeOK, ListsOK
    <2>2. Range(lists) = Listed /\ Len(lists) = Len(oldList) + Len(youngList) /\ IsInjective(lists)
        BY <1>1, <2>1, TwoLists DEF PInv, ListsOK, Listed
    <2>3. numBaking = Cardinality(InBaking) /\ Len(lists) + numBaking <= NumPages
        BY <1>1, <2>2 DEF PInv, Counts, ListsOK
    <2>4. \A t \in InBaking : mine[t] \notin Listed /\ \A u \in Threads \ {t} : mine[u] # mine[t]
        BY <1>1 DEF PInv, ClientsOK, ClientOK, InBaking
    <2> QED
        BY <2>2, <2>3, <2>4 DEF FramesAccountedFor, InBaking
<1>2. ASSUME PInv PROVE PinsAreCounted
    <2> SUFFICES ASSUME NEW f \in Frames
                 PROVE  refCount[f] = Cardinality({t \in Threads : mine[t] = f /\ (Pinning(t) \/ Baking(t))})
        BY DEF PinsAreCounted
    <2>1. ASSUME NEW t \in Threads, mine[t] = f PROVE Pinning(t) \/ Baking(t)
        <3>1. pc[t] \in Labels /\ ClientOK(t) /\ mine[t] # NoFrame
            BY <1>2, <2>1, ListedFrames DEF PInv, TypeOK, Labels, ClientsOK
        <3> QED
            BY <3>1 DEF ClientOK, Labels, InGetPage, Pinning, Baking
    <2>2. {t \in Threads : mine[t] = f /\ (Pinning(t) \/ Baking(t))} = Holders(f)
        BY <2>1 DEF Holders
    <2> QED
        BY <1>2, <2>2 DEF PInv, Counts
<1>3. ASSUME PInv PROVE PageLocksOwned
    BY <1>3 DEF PInv, LocksHeld, Exclusive, OwnersLock, OneOwner, PageLocksOwned
<1>4. PInv => ResourcesAccountedFor
    BY <1>1, <1>2, <1>3 DEF ResourcesAccountedFor
<1> QED
    BY <1>4, PoolInvariant, PTL

(* The users of a page that GetPage has handed out share the one frame the *)
(* map leads to, unless a read has failed.                                 *)
THEOREM PagesShared == Spec => []OneFramePerPage
<1>1. ASSUME PInv PROVE OneFramePerPage
    <2> SUFFICES ASSUME "readFailed" \notin mishaps, NEW t \in Threads, Pinning(t)
                 PROVE  pages[want[t]] = mine[t] /\ pageId[mine[t]] = want[t]
        BY DEF OneFramePerPage
    <2>1. ClientOK(t) /\ InMap
        BY <1>1 DEF PInv, ClientsOK, Exclusive
    <2>2. mine[t] \in Listed /\ pageId[mine[t]] = want[t]
        BY <2>1 DEF ClientOK, Pinning
    <2> QED
        BY <2>1, <2>2 DEF InMap
<1> QED
    BY <1>1, PoolInvariant, PTL

-----------------------------------------------------------------------------
(***************************************************************************)
(* Contents of pages.  A frame is the home of its page while it is listed  *)
(* or its eviction has not unlocked the page.  As long as no read failed   *)
(* and no reused frame was flushed, a home that is neither dirty nor being *)
(* changed has the bytes of the file, and so have a victim that has been   *)
(* written back, a frame that has just been read and the frame the flusher *)
(* has just written: it is safe to forget the first and the last, and to   *)
(* hand out the second.                                                    *)
(***************************************************************************)
Homed(f) == f \in Listed \/ \E t \in Threads : VictimHeld(t) /\ mine[t] = f

\* No client has changed f since it was last marked dirty.
NoWriter(f) == \A t \in changed : mine[t] # f

\* f has the bytes of the file.
InSync(f) == bytes[f] = disk[pageId[f]]

\* t has just written back or read its frame.
Settled(t) == pc[t] \in {"clean", "release", "publish"}

\* Clean frames can be forgotten.
Synced ==
    mishaps = {} =>
        /\ \A f \in Frames : Homed(f) /\ f \notin isDirty /\ NoWriter(f) => InSync(f)
        /\ flushPc = "written" /\ Homed(Head(dirtyPages)) => InSync(Head(dirtyPages))
        /\ \A t \in Threads : Settled(t) => InSync(mine[t])

(* A page has one home; a page that is being loaded has none. *)
LEMMA Homes ==
    ASSUME PInv, mishaps = {}
    PROVE  /\ \A f \in Frames : Homed(f) => pageId[f] \in Pages
           /\ \A f, g \in Frames : Homed(f) /\ Homed(g) /\ pageId[f] = pageId[g] => f = g
           /\ \A t \in Threads : Baking(t) => mine[t] \in Frames /\ (Homed(mine[t]) <=> VictimHeld(t))
           /\ \A t \in Threads : Baking(t) /\ ~VictimHeld(t) =>
                  \A f \in Frames : Homed(f) => pageId[f] # want[t]
           /\ \A f \in Frames : pageId[f] \in Pages /\ ~BeingReused(f) => Homed(f)
<1>1. OwnersLock /\ OneOwner /\ (\A t \in Threads : OutOfMap(t) /\ ClientOK(t)) /\ InMap /\ MapOK
    BY DEF PInv, Exclusive, ClientsOK
<1>2. \A t \in Threads : VictimHeld(t) => Baking(t)
    BY DEF VictimHeld, Baking
<1>3. ASSUME NEW f \in Frames, Homed(f) PROVE pageId[f] \in Pages
    BY <1>1, <1>3 DEF Homed, MapOK, ClientOK
<1>4. ASSUME NEW f \in Frames, NEW t \in Threads, VictimHeld(t), mine[t] = f
      PROVE  pages[pageId[f]] = NoFrame /\ Owns(t, pageId[f])
    BY <1>1, <1>4 DEF OutOfMap, Owns, VictimHeld
<1>5. ASSUME NEW f \in Frames, f \in Listed PROVE pages[pageId[f]] = f /\ f # NoFrame
    BY <1>1, <1>5, ListedFrames DEF InMap
<1>6. ASSUME NEW f \in Frames, NEW g \in Frames, Homed(f), Homed(g), pageId[f] = pageId[g] PROVE f = g
    <2>1. CASE f \in Listed \/ g \in Listed
        BY <1>4, <1>5, <1>6, <2>1 DEF Homed
    <2>2. CASE f \notin Listed /\ g \notin Listed
        <3>1. PICK t \in Threads : VictimHeld(t) /\ mine[t] = f
            BY <1>6, <2>2 DEF Homed
        <3>2. PICK u \in Threads : VictimHeld(u) /\ mine[u] = g
            BY <1>6, <2>2 DEF Homed
        <3>3. Owns(t, pageId[f]) /\ Owns(u, pageId[f]) /\ pageId[f] \in Pages
            BY <1>3, <1>4, <1>6, <3>1, <3>2
        <3> QED
            BY <1>1, <3>1, <3>2, <3>3 DEF OneOwner
    <2> QED
        BY <2>1, <2>2
<1>7. ASSUME NEW t \in Threads, Baking(t) PROVE mine[t] \in Frames /\ (Homed(mine[t]) <=> VictimHeld(t))
    <2>1. mine[t] \in Frames \ Listed /\ \A u \in Threads \ {t} : mine[u] # mine[t]
        BY <1>1, <1>7 DEF ClientOK
    <2> QED
        BY <2>1 DEF Homed
<1>8. ASSUME NEW t \in Threads, Baking(t), ~VictimHeld(t), NEW f \in Frames, Homed(f) PROVE pageId[f] # want[t]
    <2>1. pages[want[t]] = NoFrame /\ want[t] \in Pages /\ Owns(t, want[t])
        BY <1>1, <1>8 DEF OutOfMap, ClientOK, Owns, Baking, InGetPage
    <2>2. CASE f \in Listed
        BY <1>5, <2>1, <2>2
    <2>3. CASE f \notin Listed
        <3>1. PICK u \in Threads : VictimHeld(u) /\ mine[u] = f
            BY <1>8, <2>3 DEF Homed
        <3>2. Owns(u, pageId[f]) /\ u # t
            BY <1>4, <1>8, <3>1
        <3> QED
            BY <1>1, <2>1, <3>2 DEF OneOwner
    <2> QED
        BY <2>2, <2>3
<1>9. ASSUME NEW f \in Frames, pageId[f] \in Pages, ~BeingReused(f) PROVE Homed(f)
    <2>1. pageId[f] # NoPage
        BY <1>9, ListedFrames
    <2>2. f \in Listed \/ \E t \in Threads : Baking(t) /\ mine[t] = f
        BY <1>1, <2>1 DEF MapOK
    <2> QED
        BY <1>9, <2>2 DEF Homed, BeingReused, Baking, VictimHeld
<1> QED
    BY <1>3, <1>6, <1>7, <1>8, <1>9

(* What Contents gives: the bytes of the home, or else of the file. *)
PagesHold ==
    mishaps = {} =>
        \A p \in Pages :
            /\ \A f \in Frames : Homed(f) /\ pageId[f] = p => Contents(p) = bytes[f]
            /\ (\A f \in Frames : Homed(f) => pageId[f] # p) => Contents(p) = disk[p]

\* The contents of a page are in its frame, or else in the file.
LEMMA ContentsOf == PInv /\ Synced => PagesHold
<1> SUFFICES ASSUME PInv, Synced, mishaps = {}, NEW p \in Pages
             PROVE  /\ \A f \in Frames : Homed(f) /\ pageId[f] = p => Contents(p) = bytes[f]
                    /\ (\A f \in Frames : Homed(f) => pageId[f] # p) => Contents(p) = disk[p]
    BY DEF PagesHold
<1>1. \A g \in HomeFrames(p) : g \in Frames /\ Homed(g) /\ pageId[g] = p
    <2> SUFFICES ASSUME NEW g \in HomeFrames(p) PROVE g \in Frames /\ Homed(g) /\ pageId[g] = p
        OBVIOUS
    <2>1. CASE pages[p] = g
        <3>1. g \in Frames /\ g # NoFrame
            BY ListedFrames DEF HomeFrames
        <3> QED
            BY <2>1, <3>1 DEF PInv, MapOK, Homed
    <2>2. CASE pages[p] # g
        BY <2>2 DEF HomeFrames, Homed, VictimHeld
    <2> QED
        BY <2>1, <2>2
<1>2. ASSUME NEW f \in Frames, Homed(f), pageId[f] = p PROVE Contents(p) = bytes[f]
    <2>1. HomeFrames(p) \subseteq {f}
        BY <1>1, <1>2, Homes
    <2>2. CASE f \in HomeFrames(p)
        <3>1. HomeFrames(p) = {f} /\ (CHOOSE g \in {f} : TRUE) = f
            BY <2>1, <2>2
        <3> QED
            BY <3>1 DEF Contents
    <2>3. CASE f \notin HomeFrames(p)
        <3>1. pages[p] # f
            BY <2>3 DEF HomeFrames
        <3>2. f \notin Listed
            BY <1>2, <3>1 DEF PInv, Exclusive, InMap
        <3>3. PICK t \in Threads : VictimHeld(t) /\ mine[t] = f
            BY <1>2, <3>2 DEF Homed
        <3>4. Settled(t)
            BY <1>2, <2>3, <3>3 DEF HomeFrames, VictimHeld, Settled
        <3>5. bytes[f] = disk[p]
            BY <1>2, <3>3, <3>4 DEF Synced, InSync
        <3> QED
            BY <2>1, <2>3, <3>5 DEF Contents
    <2> QED
        BY <2>2, <2>3
<1>3. ASSUME \A f \in Frames : Homed(f) => pageId[f] # p PROVE Contents(p) = disk[p]
    <2>1. HomeFrames(p) = {}
        BY <1>1, <1>3
    <2> QED
        BY <2>1 DEF Contents
<1> QED
    BY <1>2, <1>3

(* Frames that are homes stay homes, with their bytes; the file changes    *)
(* only where a home covers it.                                            *)
SameHomes ==
    /\ \A f \in Frames : Homed(f)' <=> Homed(f)
    /\ \A f \in Frames : Homed(f) => pageId'[f] = pageId[f] /\ bytes'[f] = bytes[f]
    /\ \A p \in Pages : disk'[p] = disk[p] \/ \E f \in Frames : Homed(f) /\ pageId[f] = p

(* Frames become or cease to be homes with the bytes of the file. *)
SyncedHomes ==
    /\ UNCHANGED <<pageId, bytes, disk>>
    /\ \A f \in Frames : (Homed(f)' <=> Homed(f)) \/ InSync(f)

(* Either way no page changes. *)
LEMMA HomesKept ==
    ASSUME PInv, mishaps = {}, mishaps' = {}, PagesHold, PagesHold', SameHomes \/ SyncedHomes, NEW p \in Pages
    PROVE  Contents(p)' = Contents(p)
<1>1. /\ \A f \in Frames : Homed(f) /\ pageId[f] = p => Contents(p) = bytes[f]
      /\ (\A f \in Frames : Homed(f) => pageId[f] # p) => Contents(p) = disk[p]
    BY DEF PagesHold
<1>2. /\ \A f \in Frames : Homed(f)' /\ pageId'[f] = p => Contents(p)' = bytes'[f]
      /\ (\A f \in Frames : Homed(f)' => pageId'[f] # p) => Contents(p)' = disk'[p]
    BY DEF PagesHold
<1>3. CASE SameHomes
    <2>1. CASE \E f \in Frames : Homed(f) /\ pageId[f] = p
        BY <1>1, <1>2, <1>3, <2>1 DEF SameHomes
    <2>2. CASE \A f \in Frames : Homed(f) => pageId[f] # p
        <3>1. \A f \in Frames : Homed(f)' => pageId'[f] # p
            BY <1>3, <2>2 DEF SameHomes
        <3>2. disk'[p] = disk[p]
            BY <1>3, <2>2 DEF SameHomes
        <3> QED
            BY <1>1, <1>2, <2>2, <3>1, <3>2
    <2> QED
        BY <2>1, <2>2
<1>4. CASE SyncedHomes
    <2>1. pageId' = pageId /\ bytes' = bytes /\ disk' = disk
        BY <1>4 DEF SyncedHomes
    <2>2. \A f \in Frames : pageId[f] = p => (Homed(f)' <=> Homed(f)) \/ bytes[f] = disk[p]
        BY <1>4 DEF SyncedHomes, InSync
    <2>3. CASE \E f \in Frames : pageId[f] = p /\ Homed(f) /\ Homed(f)'
        BY <1>1, <1>2, <2>1, <2>3
    <2>4. CASE \A f \in Frames : pageId[f] = p => ~(Homed(f) /\ Homed(f)')
        <3>1. Contents(p) = disk[p]
            BY <1>1, <2>2, <2>4
        <3>2. Contents(p)' = disk[p]
            BY <1>2, <2>1, <2>2, <2>4
        <3> QED
            BY <3>1, <3>2
    <2> QED
        BY <2>3, <2>4
<1> QED
    BY <1>3, <1>4

(* Steps that change no bytes keep homes in sync with the file if they     *)
(* forget only flags and changes of homes that are.                        *)
LEMMA SyncKept ==
    ASSUME PInv, Synced, mishaps = {}, bytes' = bytes, disk' = disk, PInv',
           \A f \in Frames : Homed(f)' => Homed(f) /\ pageId'[f] = pageId[f],
           \A f \in Frames : Homed(f)' /\ f \notin isDirty' /\ NoWriter(f)' =>
               (f \notin isDirty /\ NoWriter(f)) \/ InSync(f),
           flushPc' = "written" => flushPc = "written" /\ dirtyPages' = dirtyPages,
           \A t \in Threads : Settled(t)' =>
               mine'[t] = mine[t] /\ pageId'[mine[t]] = pageId[mine[t]] /\ InSync(mine[t])
    PROVE  Synced'
<1>1. \A f \in Frames : InSync(f) /\ pageId'[f] = pageId[f] => InSync(f)'
    BY DEF InSync
<1>2. \A f \in Frames : Homed(f)' /\ f \notin isDirty' /\ NoWriter(f)' => InSync(f)'
    BY <1>1 DEF Synced
<1>3. ASSUME flushPc' = "written", Homed(Head(dirtyPages))' PROVE InSync(Head(dirtyPages))'
    <2>1. flushPc = "written" /\ dirtyPages' = dirtyPages /\ Head(dirtyPages) \in Frames
        BY <1>3, SMTT(30) DEF PInv, TypeOK, FlushOK
    <2>2. PICK h \in Frames : h = Head(dirtyPages) /\ h = Head(dirtyPages')
        BY <2>1
    <2>3. Homed(h)'
        BY <1>3, <2>2 DEF Homed
    <2>4. InSync(h) /\ pageId'[h] = pageId[h]
        BY <2>1, <2>2, <2>3 DEF Synced
    <2> QED
        BY <1>1, <2>2, <2>4 DEF InSync
<1>4. \A t \in Threads : Settled(t)' => InSync(mine[t])'
    BY DEF InSync
<1> QED
    BY <1>2, <1>3, <1>4 DEF Synced

(* The homes after a step of t: listed frames, its victim, and the victims *)
(* of the others.                                                          *)
LEMMA HomedMoves ==
    ASSUME PInv, NEW t \in Threads, Others(t), NEW f \in Frames
    PROVE  /\ Homed(f)' <=> \/ f \in Listed' \/ (VictimHeld(t)' /\ mine'[t] = f)
                            \/ \E u \in Threads \ {t} : VictimHeld(u) /\ mine[u] = f
           /\ Homed(f) <=> \/ f \in Listed \/ (VictimHeld(t) /\ mine[t] = f)
                           \/ \E u \in Threads \ {t} : VictimHeld(u) /\ mine[u] = f
<1>1. \A u \in Threads \ {t} : (VictimHeld(u)' <=> VictimHeld(u)) /\ mine'[u] = mine[u]
    BY OthersStay DEF Others
<1> QED
    BY <1>1 DEF Homed

(* A step of t that moves frames and leaves bytes alone. *)
LEMMA ListSync ==
    ASSUME PInv, Synced, mishaps = {}, PInv', NEW t \in Threads, Others(t),
           pc[t] # "pinned", ~Settled(t)', UNCHANGED <<bytes, disk, changed, flushPc, dirtyPages>>,
           \A f \in Frames : Homed(f)' => Homed(f) /\ pageId'[f] = pageId[f] /\ (f \in isDirty' <=> f \in isDirty)
    PROVE  Synced'
<1>1. \A f \in Frames : NoWriter(f)' <=> NoWriter(f)
    <2>1. t \notin changed /\ changed \subseteq Threads /\ changed' = changed
        BY DEF PInv, ClientsOK, ClientOK, TypeOK
    <2>2. \A u \in changed : mine'[u] = mine[u]
        BY <2>1 DEF Others
    <2> QED
        BY <2>1, <2>2 DEF NoWriter
<1>2. \A u \in Threads : Settled(u)' =>
          mine'[u] = mine[u] /\ pageId'[mine[u]] = pageId[mine[u]] /\ InSync(mine[u])
    <2> SUFFICES ASSUME NEW u \in Threads \ {t}, Settled(u)'
                 PROVE  mine'[u] = mine[u] /\ pageId'[mine[u]] = pageId[mine[u]] /\ InSync(mine[u])
        OBVIOUS
    <2>1. Settled(u) /\ mine'[u] = mine[u]
        BY DEF Settled, Others
    <2>2. mine[u] \in Frames
        BY <2>1 DEF PInv, ClientsOK, ClientOK, Settled, Baking
    <2> QED
        BY <2>1, <2>2 DEF Others, Synced
<1> QED
    BY <1>1, <1>2, SyncKept

(* Steps that move a goroutine or set a flag. *)
LEMMA LabelSync ==
    ASSUME PInv, Synced, mishaps = {}, PInv', NEW t \in Threads,
           \/ (\E p \in Pages : GetPage(t, p)) \/ LockPage(t) \/ Miss(t) \/ CleanVictim(t) \/ DirtyVictim(t)
           \/ MarkClean(t) \/ Return(t) \/ UnpinMark(t)
    PROVE  Synced' /\ SameHomes
<1>1. UNCHANGED <<pageId, bytes, disk, mine, flushPc, dirtyPages, oldList, youngList>>
    BY DEF GetPage, LockPage, Miss, CleanVictim, DirtyVictim, MarkClean, Return, UnpinMark, frameVars, shardVars, flushVars
<1>2. TypeOK /\ ClientOK(t)
    BY DEF PInv, ClientsOK
<1>3. PICK l \in Labels :
        /\ pc' = [pc EXCEPT ![t] = l]
        /\ \/ pc[t] \notin {"victim", "clean"} /\ l \in {"lock", "look", "evict", "idle", "pinned", "unpin"} /\ ~VictimHeld(t)
           \/ pc[t] = "victim" /\ l = "release" /\ mine[t] \notin isDirty
           \/ pc[t] = "victim" /\ l = "writeback"
           \/ pc[t] = "clean" /\ l = "release"
    <2>1. {"lock", "look", "evict", "idle", "pinned", "unpin", "release", "writeback"} \subseteq Labels
        BY DEF Labels, InGetPage
    <2>2. CASE CleanVictim(t) \/ DirtyVictim(t) \/ MarkClean(t)
        BY <2>1, <2>2 DEF CleanVictim, DirtyVictim, MarkClean, Goto
    <2>3. CASE (\E p \in Pages : GetPage(t, p)) \/ LockPage(t) \/ Miss(t) \/ UnpinMark(t)
        BY <2>1, <2>3 DEF GetPage, LockPage, Miss, UnpinMark, Goto, VictimHeld
    <2>4. CASE Return(t)
        BY <2>1, <2>4 DEF Return, Goto, VictimHeld
    <2> QED
        BY <2>2, <2>3, <2>4
<1>4. pc'[t] = l /\ \A u \in Threads \ {t} : pc'[u] = pc[u]
    BY <1>2, <1>3 DEF TypeOK
<1>5. \A u \in Threads : VictimHeld(u)' <=> VictimHeld(u)
    BY <1>3, <1>4 DEF VictimHeld
<1>6. \A f \in Frames : Homed(f)' <=> Homed(f)
    BY <1>1, <1>5 DEF Homed, Listed
<1>7. SameHomes
    BY <1>1, <1>6 DEF SameHomes
<1>8. ASSUME NEW u \in Threads, Settled(u)' PROVE InSync(mine[u])
    <2>1. CASE Settled(u)
        BY <2>1 DEF Synced
    <2>2. CASE ~Settled(u)
        <3>1. u = t /\ pc[t] = "victim" /\ mine[t] \notin isDirty
            BY <1>3, <1>4, <1>8, <2>2 DEF Settled
        <3>2. Homed(mine[t]) /\ mine[t] \in Frames /\ \A w \in Threads \ {t} : mine[w] # mine[t]
            BY <1>2, <3>1 DEF Homed, VictimHeld, ClientOK, Baking
        <3>3. NoWriter(mine[t])
            BY <1>2, <3>1, <3>2 DEF NoWriter, ClientOK, TypeOK
        <3> QED
            BY <3>1, <3>2, <3>3 DEF Synced
    <2> QED
        BY <2>1, <2>2
<1>9. ASSUME NEW f \in Frames, f \notin isDirty', NoWriter(f)' PROVE (f \notin isDirty /\ NoWriter(f)) \/ InSync(f)
    <2>1. CASE MarkClean(t)
        <3>1. isDirty' = isDirty \ {mine[t]} /\ changed' = changed /\ Settled(t)
            BY <2>1 DEF MarkClean, Settled
        <3>2. InSync(mine[t])
            BY <3>1 DEF Synced
        <3> QED
            BY <1>1, <1>9, <3>1, <3>2 DEF NoWriter
    <2>2. CASE UnpinMark(t)
        <3>1. changed' = changed \ {t} /\ isDirty' = IF t \in changed THEN isDirty \cup {mine[t]} ELSE isDirty
            BY <2>2 DEF UnpinMark
        <3>2. f \notin isDirty /\ (t \in changed => mine[t] # f)
            BY <1>9, <3>1
        <3> QED
            BY <1>1, <1>9, <3>1, <3>2 DEF NoWriter
    <2>3. CASE ~MarkClean(t) /\ ~UnpinMark(t)
        <3>1. isDirty' = isDirty /\ changed' = changed
            BY <2>3 DEF GetPage, LockPage, Miss, CleanVictim, DirtyVictim, Return, frameVars
        <3> QED
            BY <1>1, <1>9, <3>1 DEF NoWriter
    <2> QED
        BY <2>1, <2>2, <2>3
<1>10. Synced'
    BY <1>1, <1>6, <1>8, <1>9, SyncKept
<1> QED
    BY <1>7, <1>10

(* Hits, evictions and their failure move homes; new frames are none. *)
LEMMA FrameSync ==
    ASSUME PInv, Synced, mishaps = {}, PInv', NEW t \in Threads,
           Hit(t) \/ NewFrame(t) \/ Evict(t) \/ WriteBackFails(t) \/ Retarget(t) \/ UnpinCount(t)
    PROVE  Synced' /\ SameHomes
<1>1. TypeOK /\ ClientOK(t) /\ mine \in [Threads -> Frames \cup {NoFrame}] /\ pc \in [Threads -> Labels]
    BY DEF PInv, ClientsOK, TypeOK, Labels
<1>2. UNCHANGED <<bytes, disk, changed, flushPc, dirtyPages>>
    BY DEF Hit, NewFrame, Evict, WriteBackFails, Retarget, UnpinCount, flushVars
<1>3. pc[t] # "pinned" /\ pc'[t] \in {"got", "retarget", "victim", "load", "idle"}
    BY <1>1 DEF Hit, NewFrame, Evict, WriteBackFails, Retarget, UnpinCount, Goto
<1>4. SUFFICES /\ Others(t)
               /\ \A f \in Frames : Homed(f)' <=> Homed(f)
               /\ \A f \in Frames : Homed(f) => pageId'[f] = pageId[f] /\ (f \in isDirty' <=> f \in isDirty)
    <2>1. ~Settled(t)'
        BY <1>3 DEF Settled
    <2>2. SameHomes
        BY <1>2, <1>4 DEF SameHomes
    <2>3. Synced'
        BY <1>2, <1>3, <1>4, <2>1, ListSync
    <2> QED
        BY <2>2, <2>3
<1>5. CASE Hit(t)
    <2> DEFINE f == pages[want[t]]
    <2>1. /\ pc[t] = "look" /\ f # NoFrame /\ pc' = [pc EXCEPT ![t] = "got"]
          /\ oldList' = IF f \in inOld THEN Unlink(oldList, f) ELSE oldList
          /\ youngList' = <<f>> \o (IF f \in inOld THEN youngList ELSE Unlink(youngList, f))
          /\ inOld' = inOld \ {f} /\ mine' = [mine EXCEPT ![t] = f]
          /\ UNCHANGED <<pageId, isDirty, numBaking, want>>
        BY <1>5 DEF Hit, Goto
    <2>2. f \in Listed
        BY <1>1, <2>1 DEF ClientOK, PInv, MapOK
    <2> HIDE DEF f
    <2>3. Listed' = Listed
        BY <2>1, <2>2, HitLists
    <2>4. Others(t) /\ ~VictimHeld(t) /\ ~VictimHeld(t)'
        BY <1>1, <2>1 DEF Others, VictimHeld
    <2> QED
        BY <2>1, <2>3, <2>4, HomedMoves
<1>6. CASE NewFrame(t)
    <2>1. PICK f \in Frames \ (Listed \cup Range(mine)) :
              /\ pageId' = [pageId EXCEPT ![f] = NoPage] /\ isDirty' = isDirty \ {f} /\ mine' = [mine EXCEPT ![t] = f]
        BY <1>6 DEF NewFrame
    <2>2. /\ pc[t] = "evict" /\ pc' = [pc EXCEPT ![t] = "retarget"] /\ UNCHANGED <<oldList, youngList, want>>
        BY <1>6 DEF NewFrame, Goto
    <2>3. \A u \in Threads : mine[u] # f
        BY <1>1, <2>1 DEF Range
    <2>4. ~Homed(f) /\ \A g \in Frames \ {f} : pageId'[g] = pageId[g]
        BY <1>1, <2>1, <2>3 DEF Homed, TypeOK
    <2>5. Others(t) /\ ~VictimHeld(t) /\ ~VictimHeld(t)' /\ Listed' = Listed
        BY <1>1, <2>1, <2>2, <2>3, <2>4 DEF Others, VictimHeld, Listed
    <2> QED
        BY <2>1, <2>4, <2>5, HomedMoves
<1>7. CASE Evict(t)
    <2>1. PICK f \in Frames :
              /\ IsVictim(f)
              /\ oldList' = IF f \in inOld THEN Unlink(oldList, f) ELSE oldList
              /\ youngList' = IF f \in inOld THEN youngList ELSE Unlink(youngList, f)
              /\ mine' = [mine EXCEPT ![t] = f]
        BY <1>7 DEF Evict
    <2>2. /\ pc[t] = "evict" /\ pc' = [pc EXCEPT ![t] = "victim"] /\ numBaking' = numBaking + 1
          /\ UNCHANGED <<pageId, isDirty, inOld, want>>
        BY <1>7 DEF Evict, Goto
    <2>3. f \in Listed
        BY <2>1, VictimFacts
    <2>4. Listed' = Listed \ {f}
        BY <2>1, <2>2, <2>3, EvictLists
    <2>5. Others(t) /\ ~VictimHeld(t) /\ VictimHeld(t)' /\ mine'[t] = f
        BY <1>1, <2>1, <2>2 DEF Others, VictimHeld
    <2> QED
        BY <2>2, <2>3, <2>4, <2>5, HomedMoves
<1>8. CASE WriteBackFails(t)
    <2> DEFINE f == mine[t]
    <2>1. /\ pc[t] = "writeback" /\ pc' = [pc EXCEPT ![t] = "got"]
          /\ RollbackEviction(f) /\ mine' = [mine EXCEPT ![t] = NoFrame]
          /\ UNCHANGED <<pageId, isDirty, inOld, want>>
        BY <1>8 DEF WriteBackFails, Goto
    <2>2. Others(t) /\ VictimHeld(t) /\ ~VictimHeld(t)' /\ Baking(t) /\ ~Baking(t)'
        BY <1>1, <2>1 DEF Others, VictimHeld, Baking
    <2>3. f \in Frames \ Listed
        BY <1>1, <2>2 DEF ClientOK
    <2>4. numBaking \in Nat /\ numBaking > 0
        BY <2>2, BakingMoves
    <2>5. /\ numBaking' = numBaking - 1
          /\ oldList' = IF f \in inOld THEN <<f>> \o oldList ELSE oldList
          /\ youngList' = IF f \in inOld THEN youngList ELSE <<f>> \o youngList
        BY <2>1, <2>4 DEF RollbackEviction, PutBack
    <2> HIDE DEF f
    <2>6. Listed' = Listed \cup {f}
        BY <2>1, <2>3, <2>4, <2>5, EnterLists
    <2> QED
        BY <2>1, <2>2, <2>6, HomedMoves DEF f
<1>9. CASE Retarget(t)
    <2> DEFINE f == mine[t]
    <2>1. /\ pc[t] = "retarget" /\ pc' = [pc EXCEPT ![t] = "load"] /\ pageId' = [pageId EXCEPT ![f] = want[t]]
          /\ UNCHANGED <<isDirty, oldList, youngList, want, mine>>
        BY <1>9 DEF Retarget, Goto, shardVars
    <2>2. Baking(t) /\ ~VictimHeld(t) /\ ~VictimHeld(t)'
        BY <1>1, <2>1 DEF VictimHeld, Baking
    <2>3. ~Homed(f) /\ \A g \in Frames \ {f} : pageId'[g] = pageId[g]
        BY <1>1, <2>1, <2>2, Homes DEF TypeOK
    <2>4. Others(t) /\ Listed' = Listed
        BY <1>1, <2>1, <2>2 DEF Others, Listed, ClientOK, TypeOK
    <2> QED
        BY <2>1, <2>2, <2>3, <2>4, HomedMoves
<1>10. CASE UnpinCount(t)
    <2>1. /\ pc[t] = "unpin" /\ pc' = [pc EXCEPT ![t] = "idle"]
          /\ mine' = [mine EXCEPT ![t] = NoFrame] /\ want' = [want EXCEPT ![t] = NoPage]
          /\ UNCHANGED <<pageId, isDirty, oldList, youngList>>
        BY <1>10 DEF UnpinCount, Goto, shardVars
    <2>2. Others(t) /\ ~VictimHeld(t) /\ ~VictimHeld(t)' /\ Listed' = Listed
        BY <1>1, <2>1 DEF Others, VictimHeld, Listed, TypeOK
    <2> QED
        BY <2>1, <2>2, HomedMoves
<1> QED
    BY <1>5, <1>6, <1>7, <1>8, <1>9, <1>10

(* The flusher has the latch of a frame. *)
LEMMA LatchedFrame ==
    ASSUME PInv, flushPc = "written"
    PROVE  Head(dirtyPages) \in Frames
<1>1. dirtyPages \in Seq(Frames) /\ dirtyPages # <<>>
    BY DEF PInv, TypeOK, FlushOK
<1> QED
    BY <1>1

(* The page of a victim is unlocked once the file has its bytes. *)
LEMMA ReleaseSync ==
    ASSUME PInv, Synced, mishaps = {}, PInv', NEW t \in Threads, ReleaseVictim(t)
    PROVE  Synced' /\ SyncedHomes
<1>1. /\ pc[t] = "release" /\ pc' = [pc EXCEPT ![t] = "retarget"]
      /\ UNCHANGED <<pageId, bytes, disk, changed, flushPc, dirtyPages, isDirty, oldList, youngList, mine, want>>
    BY DEF ReleaseVictim, Goto, frameVars, flushVars
<1>2. /\ Others(t) /\ Listed' = Listed /\ VictimHeld(t) /\ ~VictimHeld(t)' /\ Settled(t) /\ ~Settled(t)'
    BY <1>1 DEF PInv, TypeOK, Others, Listed, VictimHeld, Settled
<1>3. \A f \in Frames : /\ Homed(f)' => Homed(f)
                        /\ Homed(f) => Homed(f)' \/ f = mine[t]
    BY <1>2, HomedMoves
<1>4. InSync(mine[t])
    BY <1>2 DEF Synced
<1>5. SyncedHomes
    BY <1>1, <1>3, <1>4 DEF SyncedHomes
<1>6. Synced'
    BY <1>1, <1>2, <1>3, ListSync
<1> QED
    BY <1>5, <1>6

(* A frame enters the pool with the bytes that were read. *)
LEMMA PublishSync ==
    ASSUME PInv, Synced, mishaps = {}, PInv', NEW t \in Threads, Publish(t)
    PROVE  Synced' /\ SyncedHomes
<1> DEFINE f == mine[t]
<1>1. /\ pc[t] = "publish" /\ pc' = [pc EXCEPT ![t] = "got"]
      /\ isDirty' = isDirty \ {f} /\ inOld' = inOld \cup {f} /\ oldList' = <<f>> \o oldList
      /\ youngList' = youngList /\ numBaking' = numBaking - 1
      /\ UNCHANGED <<pageId, bytes, disk, want, mine, changed, flushPc, dirtyPages>>
    BY DEF Publish, Goto, flushVars
<1>2. /\ Others(t) /\ ~VictimHeld(t) /\ ~VictimHeld(t)' /\ Settled(t) /\ ~Settled(t)' /\ Baking(t) /\ ~Baking(t)'
    BY <1>1 DEF PInv, TypeOK, Others, VictimHeld, Settled, Baking
<1>3. f \in Frames \ Listed
    BY <1>2 DEF PInv, ClientsOK, ClientOK
<1>4. numBaking > 0
    BY <1>2, BakingMoves
<1> HIDE DEF f
<1>5. Listed' = Listed \cup {f}
    BY <1>1, <1>3, <1>4, EnterLists
<1>6. \A g \in Frames : Homed(g)' <=> Homed(g) \/ g = f
    BY <1>2, <1>3, <1>5, HomedMoves
<1>7. InSync(f) /\ \A g \in Frames : InSync(g)' <=> InSync(g)
    BY <1>1, <1>2 DEF Synced, InSync, f
<1>8. SyncedHomes
    BY <1>1, <1>6, <1>7 DEF SyncedHomes
<1>9. \A g \in Frames : Homed(g)' /\ g \notin isDirty' /\ NoWriter(g)' => InSync(g)'
    BY <1>1, <1>6, <1>7 DEF Synced, NoWriter
<1>10. ASSUME flushPc' = "written", Homed(Head(dirtyPages))' PROVE InSync(Head(dirtyPages))'
    <2>1. PICK h \in Frames : h = Head(dirtyPages) /\ h = Head(dirtyPages') /\ flushPc = "written"
        BY <1>1, <1>10, LatchedFrame
    <2>2. Homed(h)'
        BY <1>10, <2>1 DEF Homed
    <2>3. InSync(h)
        BY <1>6, <1>7, <2>1, <2>2 DEF Synced
    <2> QED
        BY <1>7, <2>1, <2>3 DEF InSync
<1>11. ASSUME NEW u \in Threads, Settled(u)' PROVE InSync(mine[u])'
    <2>1. u # t /\ Settled(u) /\ mine'[u] = mine[u]
        BY <1>2, <1>11 DEF Settled, Others
    <2> QED
        BY <1>1, <2>1 DEF Synced, InSync
<1> QED
    BY <1>8, <1>9, <1>10, <1>11 DEF Synced

(* What a write of the bytes of the home of a page to the file keeps. *)
LEMMA WriteSync ==
    ASSUME PInv, Synced, mishaps = {}, NEW f \in Frames, Homed(f), disk' = [disk EXCEPT ![pageId[f]] = bytes[f]],
           bytes' = bytes, pageId' = pageId
    PROVE  /\ InSync(f)'
           /\ \A g \in Frames : InSync(g) /\ (Homed(g) \/ \E t \in Threads : pc[t] = "publish" /\ mine[t] = g) => InSync(g)'
           /\ \A p \in Pages : disk'[p] = disk[p] \/ p = pageId[f]
<1>1. disk \in [Pages -> Values] /\ pageId[f] \in Pages
    BY Homes DEF PInv, TypeOK
<1>2. InSync(f)'
    BY <1>1 DEF InSync
<1>3. ASSUME NEW g \in Frames, InSync(g), Homed(g) PROVE InSync(g)'
    <2>1. CASE g = f
        BY <1>2, <2>1
    <2>2. CASE g # f
        <3>1. pageId[g] # pageId[f] /\ pageId[g] \in Pages
            BY <1>3, <2>2, Homes
        <3> QED
            BY <1>1, <1>3, <3>1 DEF InSync
    <2> QED
        BY <2>1, <2>2
<1>4. ASSUME NEW g \in Frames, InSync(g), NEW t \in Threads, pc[t] = "publish", mine[t] = g PROVE InSync(g)'
    <2>1. Baking(t) /\ ~VictimHeld(t) /\ pageId[g] = want[t] /\ want[t] \in Pages
        BY <1>4 DEF Baking, VictimHeld, PInv, ClientsOK, ClientOK
    <2>2. pageId[f] # pageId[g]
        BY <2>1, Homes
    <2> QED
        BY <1>1, <1>4, <2>1, <2>2 DEF InSync
<1> QED
    BY <1>1, <1>2, <1>3, <1>4

(* evictPage writes the victim back. *)
LEMMA WriteBackSync ==
    ASSUME PInv, Synced, mishaps = {}, PInv', NEW t \in Threads, WriteBack(t)
    PROVE  Synced' /\ SameHomes
<1>1. /\ pc[t] = "writeback" /\ pc' = [pc EXCEPT ![t] = "clean"] /\ disk' = [disk EXCEPT ![pageId[mine[t]]] = bytes[mine[t]]]
      /\ UNCHANGED <<pageId, bytes, isDirty, oldList, youngList, want, mine, changed, flushPc, dirtyPages>>
    BY DEF WriteBack, Goto, frameVars, shardVars, flushVars
<1>2. Others(t) /\ VictimHeld(t) /\ VictimHeld(t)' /\ Baking(t) /\ Listed' = Listed
    BY <1>1 DEF PInv, TypeOK, Others, VictimHeld, Baking, Listed
<1>3. PICK f \in Frames : f = mine[t] /\ Homed(f)
    BY <1>2, Homes
<1>4. \A g \in Frames : Homed(g)' <=> Homed(g)
    BY <1>1, <1>2, HomedMoves
<1>5. /\ InSync(f)'
      /\ \A g \in Frames : InSync(g) /\ (Homed(g) \/ \E u \in Threads : pc[u] = "publish" /\ mine[u] = g) => InSync(g)'
      /\ \A p \in Pages : disk'[p] = disk[p] \/ p = pageId[f]
    BY <1>1, <1>3, WriteSync
<1>6. SameHomes
    BY <1>1, <1>3, <1>4, <1>5 DEF SameHomes
<1>7. \A g \in Frames : Homed(g)' /\ g \notin isDirty' /\ NoWriter(g)' => InSync(g)'
    BY <1>1, <1>4, <1>5 DEF Synced, NoWriter
<1>8. ASSUME flushPc' = "written", Homed(Head(dirtyPages))' PROVE InSync(Head(dirtyPages))'
    <2>1. PICK h \in Frames : h = Head(dirtyPages) /\ h = Head(dirtyPages') /\ flushPc = "written"
        BY <1>1, <1>8, LatchedFrame
    <2>2. Homed(h)'
        BY <1>8, <2>1 DEF Homed
    <2>3. InSync(h)'
        BY <1>4, <1>5, <2>1, <2>2 DEF Synced
    <2> QED
        BY <2>1, <2>3 DEF InSync
<1>9. ASSUME NEW u \in Threads, Settled(u)' PROVE InSync(mine[u])'
    <2>1. CASE u = t
        BY <1>1, <1>3, <1>5, <2>1 DEF InSync
    <2>2. CASE u # t
        <3>1. Settled(u) /\ mine'[u] = mine[u] /\ Baking(u)
            BY <1>2, <1>9, <2>2 DEF Settled, Others, Baking
        <3>2. mine[u] \in Frames /\ (Homed(mine[u]) \/ pc[u] = "publish") /\ InSync(mine[u])
            BY <3>1, Homes DEF Settled, VictimHeld, Synced
        <3>3. PICK g \in Frames : g = mine[u] /\ g = mine'[u]
            BY <3>1, <3>2
        <3>4. InSync(g)'
            BY <1>5, <3>2, <3>3
        <3> QED
            BY <3>3, <3>4 DEF InSync
    <2> QED
        BY <2>1, <2>2
<1> QED
    BY <1>6, <1>7, <1>8, <1>9 DEF Synced

(* Reading into a frame nobody else has, and changing one's own page. *)
LEMMA BytesSync ==
    ASSUME PInv, Synced, mishaps = {}, PInv', NEW t \in Threads, ReadStarts(t) \/ ReadPage(t) \/ Modify(t)
    PROVE  Synced' /\ (SameHomes \/ Modify(t))
<1> DEFINE f == mine[t]
<1>1. /\ UNCHANGED <<pageId, isDirty, disk, oldList, youngList, want, mine, flushPc, dirtyPages>>
      /\ \E b : bytes' = [bytes EXCEPT ![f] = b]
    BY DEF ReadStarts, ReadPage, Modify, shardVars, flushVars
<1>2. TypeOK /\ ClientOK(t)
    BY DEF PInv, ClientsOK
<1>3. \/ pc[t] \in {"load", "reading"} /\ pc'[t] \in {"reading", "publish"} /\ changed' = changed
      \/ Modify(t) /\ pc[t] = "pinned" /\ pc' = pc /\ changed' = changed \cup {t} /\ ~Latched(f)
    BY <1>2 DEF ReadStarts, ReadPage, Modify, Goto, TypeOK
<1>4. Others(t) /\ ~VictimHeld(t) /\ ~VictimHeld(t)' /\ Listed' = Listed
    <2>1. \A u \in Threads \ {t} : pc'[u] = pc[u]
        BY <1>2 DEF ReadStarts, ReadPage, Modify, Goto, TypeOK
    <2> QED
        BY <1>1, <1>3, <2>1 DEF Others, VictimHeld, Listed
<1>5. \A g \in Frames : Homed(g)' <=> Homed(g)
    BY <1>4, HomedMoves
<1>6. \A g \in Frames \ {f} : bytes'[g] = bytes[g]
    BY <1>1, <1>2 DEF TypeOK
<1>7. \A g \in Frames \ {f} : InSync(g)' <=> InSync(g)
    BY <1>1, <1>6 DEF InSync
<1>8. pc[t] \in {"load", "reading"} => ~Homed(f)
    BY <1>4, Homes DEF Baking
<1>9. SameHomes \/ Modify(t)
    BY <1>1, <1>3, <1>5, <1>6, <1>8 DEF SameHomes
<1>10. ASSUME NEW g \in Frames, Homed(g)', g \notin isDirty', NoWriter(g)' PROVE InSync(g)'
    <2>1. g # f
        BY <1>1, <1>3, <1>5, <1>8, <1>10 DEF NoWriter
    <2>2. NoWriter(g)
        BY <1>1, <1>3, <1>10 DEF NoWriter
    <2> QED
        BY <1>1, <1>5, <1>7, <1>10, <2>1, <2>2 DEF Synced
<1>11. ASSUME flushPc' = "written", Homed(Head(dirtyPages))' PROVE InSync(Head(dirtyPages))'
    <2>1. PICK h \in Frames : h = Head(dirtyPages) /\ h = Head(dirtyPages') /\ flushPc = "written"
        BY <1>1, <1>11, LatchedFrame
    <2>2. Homed(h)'
        BY <1>11, <2>1 DEF Homed
    <2>3. h # f
        BY <1>3, <1>5, <1>8, <2>1, <2>2 DEF Latched
    <2>4. InSync(h)'
        BY <1>5, <1>7, <2>1, <2>2, <2>3 DEF Synced
    <2> QED
        BY <2>1, <2>4 DEF InSync
<1>12. ASSUME NEW u \in Threads, Settled(u)' PROVE InSync(mine[u])'
    <2>1. CASE u = t
        <3>1. pc'[t] = "publish" /\ ReadPage(t)
            BY <1>2, <1>3, <1>12, <2>1 DEF Settled, ReadStarts, ReadPage, Modify, Goto, TypeOK
        <3>2. bytes' = [bytes EXCEPT ![f] = disk[want[t]]] /\ f \in Frames /\ pageId[f] = want[t]
            BY <1>2, <3>1 DEF ReadPage, ClientOK, Baking
        <3>3. bytes'[f] = disk[pageId[f]]
            BY <1>2, <3>2 DEF TypeOK
        <3> QED
            BY <1>1, <2>1, <3>3 DEF InSync
    <2>2. CASE u # t
        <3>1. Settled(u) /\ mine'[u] = mine[u] /\ Baking(u)
            BY <1>4, <1>12, <2>2 DEF Settled, Others, Baking
        <3>2. mine[u] \in Frames /\ mine[u] # f
            BY <2>2, <3>1 DEF PInv, ClientsOK, ClientOK
        <3>3. PICK g \in Frames \ {f} : g = mine[u] /\ g = mine'[u]
            BY <3>1, <3>2
        <3>4. InSync(g)'
            BY <1>7, <3>1, <3>3 DEF Synced
        <3> QED
            BY <3>3, <3>4 DEF InSync
    <2> QED
        BY <2>1, <2>2
<1> QED
    BY <1>9, <1>10, <1>11, <1>12 DEF Synced

(* FlushAllPages writes homes, and marks clean what it has written. *)
LEMMA FlushSync ==
    ASSUME PInv, Synced, mishaps = {}, mishaps' = {}, PInv', Collect \/ FlushStep
    PROVE  Synced' /\ SameHomes
<1>1. UNCHANGED <<pageId, bytes, oldList, youngList, pc, want, mine, changed>>
    BY DEF Collect, FlushStep, OpenFile, WriteFrame, MarkFlushed, FlushReturns, frameVars, shardVars, clientVars
<1>2. \A g \in Frames : Homed(g)' <=> Homed(g)
    BY <1>1 DEF Homed, Listed, VictimHeld
<1>3. \A g \in Frames : NoWriter(g)' <=> NoWriter(g)
    BY <1>1 DEF NoWriter
<1>4. \A u \in Threads : (Settled(u)' <=> Settled(u)) /\ (Settled(u) => InSync(mine[u]))
    BY <1>1 DEF Settled, Synced
<1>5. CASE WriteFrame
    <2>1. /\ flushPc = "write" /\ FlushTarget \in Pages /\ disk' = [disk EXCEPT ![FlushTarget] = bytes[Head(dirtyPages)]]
          /\ UNCHANGED <<isDirty, dirtyPages>>
          /\ FlushTarget = pageId[Head(dirtyPages)] /\ ~BeingReused(Head(dirtyPages))
        BY <1>5 DEF WriteFrame, frameVars
    <2>2. PICK f \in Frames : f = Head(dirtyPages)
        BY <2>1, SMTT(30) DEF PInv, TypeOK, FlushOK
    <2>3. Homed(f)
        BY <2>1, <2>2, Homes
    <2>4. /\ InSync(f)'
          /\ \A g \in Frames : InSync(g) /\ (Homed(g) \/ \E u \in Threads : pc[u] = "publish" /\ mine[u] = g) => InSync(g)'
          /\ \A p \in Pages : disk'[p] = disk[p] \/ p = pageId[f]
        BY <1>1, <2>1, <2>2, <2>3, WriteSync
    <2>5. SameHomes
        BY <1>1, <1>2, <2>2, <2>3, <2>4 DEF SameHomes
    <2>6. \A g \in Frames : Homed(g)' /\ g \notin isDirty' /\ NoWriter(g)' => InSync(g)'
        BY <1>2, <1>3, <2>1, <2>4 DEF Synced
    <2>7. InSync(Head(dirtyPages))'
        BY <2>1, <2>2, <2>4 DEF InSync
    <2>8. ASSUME NEW u \in Threads, Settled(u)' PROVE InSync(mine[u])'
        <3>1. Baking(u) /\ Settled(u)
            BY <1>4, <2>8 DEF Settled, Baking
        <3>2. mine[u] \in Frames /\ (Homed(mine[u]) \/ pc[u] = "publish") /\ InSync(mine[u])
            BY <1>4, <3>1, Homes DEF Settled, VictimHeld
        <3>3. PICK g \in Frames : g = mine[u] /\ g = mine'[u]
            BY <1>1, <3>2
        <3>4. InSync(g)'
            BY <2>4, <3>2, <3>3
        <3> QED
            BY <3>3, <3>4 DEF InSync
    <2> QED
        BY <2>5, <2>6, <2>7, <2>8 DEF Synced
<1>6. CASE ~WriteFrame
    <2>1. disk' = disk /\ flushPc' # "written"
        BY <1>6 DEF Collect, FlushStep, OpenFile, MarkFlushed, FlushReturns
    <2>2. SameHomes
        BY <1>1, <1>2, <2>1 DEF SameHomes
    <2>3. ASSUME NEW g \in Frames, Homed(g)', g \notin isDirty', NoWriter(g)'
          PROVE  (g \notin isDirty /\ NoWriter(g)) \/ InSync(g)
        <3>1. CASE MarkFlushed
            <4>1. flushPc = "written" /\ isDirty' = isDirty \ {Head(dirtyPages)}
                BY <3>1 DEF MarkFlushed
            <4> QED
                BY <1>2, <1>3, <2>3, <4>1 DEF Synced
        <3>2. CASE ~MarkFlushed
            <4>1. isDirty' = isDirty
                BY <1>6, <3>2 DEF Collect, FlushStep, OpenFile, FlushReturns, frameVars
            <4> QED
                BY <1>3, <2>3, <4>1
        <3> QED
            BY <3>1, <3>2
    <2>4. Synced'
        BY <1>1, <1>2, <1>4, <2>1, <2>3, SyncKept
    <2> QED
        BY <2>2, <2>4
<1> QED
    BY <1>5, <1>6

-----------------------------------------------------------------------------
(* No step but Modify changes a page while the bytes are in sync. *)
StepKeeps == SameHomes \/ SyncedHomes \/ \E t \in Threads : Modify(t)

(* Every step keeps homes in sync with the file and pages as they are. *)
LEMMA SyncNext ==
    ASSUME PInv, Synced, Next, PInv'
    PROVE  Synced' /\ (mishaps' = {} => mishaps = {} /\ StepKeeps)
<1>1. mishaps \subseteq mishaps'
    BY ZenonT(60) DEF Next, GetPage, ClientStep, LockPage, Hit, Miss, Evicting, NewFrame, Evict, CleanVictim, DirtyVictim, WriteBack,
           WriteBackFails, MarkClean, ReleaseVictim, Retarget, ReadStarts, ReadPage, ReadFails, Publish, Return, UnpinMark,
           UnpinCount, Modify, Collect, FlushStep, OpenFile, WriteFrame, MarkFlushed, FlushReturns
<1>2. mishaps' # {} => Synced'
    BY DEF Synced
<1> SUFFICES ASSUME mishaps' = {} PROVE Synced' /\ mishaps = {} /\ StepKeeps
    BY <1>2
<1>3. mishaps = {}
    BY <1>1
<1>4. ASSUME NEW t \in Threads, (\E p \in Pages : GetPage(t, p)) \/ ClientStep(t) \/ Modify(t)
      PROVE  Synced' /\ StepKeeps
    <2>1. CASE \/ (\E p \in Pages : GetPage(t, p)) \/ LockPage(t) \/ Miss(t) \/ CleanVictim(t) \/ DirtyVictim(t)
               \/ MarkClean(t) \/ Return(t) \/ UnpinMark(t)
        BY <1>3, <2>1, LabelSync DEF StepKeeps
    <2>2. CASE Hit(t) \/ NewFrame(t) \/ Evict(t) \/ WriteBackFails(t) \/ Retarget(t) \/ UnpinCount(t)
        BY <1>3, <2>2, FrameSync DEF StepKeeps
    <2>3. CASE ReleaseVictim(t)
        BY <1>3, <2>3, ReleaseSync DEF StepKeeps
    <2>4. CASE Publish(t)
        BY <1>3, <2>4, PublishSync DEF StepKeeps
    <2>5. CASE WriteBack(t)
        BY <1>3, <2>5, WriteBackSync DEF StepKeeps
    <2>6. CASE ReadStarts(t) \/ ReadPage(t) \/ Modify(t)
        BY <1>3, <2>6, BytesSync DEF StepKeeps
    <2>7. ~ReadFails(t)
        BY DEF ReadFails
    <2> QED
        BY <1>4, <2>1, <2>2, <2>3, <2>4, <2>5, <2>6, <2>7 DEF ClientStep, Evicting
<1>5. CASE Collect \/ FlushStep
    BY <1>3, <1>5, FlushSync DEF StepKeeps
<1> QED
    BY <1>3, <1>4, <1>5, SMTT(30) DEF Next

(* In an empty pool no frame is a home. *)
LEMMA SyncInit == Init => Synced
<1> SUFFICES ASSUME Init PROVE Synced
    OBVIOUS
<1>1. Listed = {}
    BY DEF Init, Listed, Range
<1>2. \A f : ~Homed(f)
    BY <1>1 DEF Init, Homed, VictimHeld
<1> QED
    BY <1>2 DEF Init, Synced, Settled

(* The invariant of the contents holds of every reachable state. *)
THEOREM ContentsInvariant == Spec => [](PInv /\ Synced)
<1>1. Init => PInv /\ Synced
    BY PoolInit, SyncInit
<1>2. ASSUME PInv, Synced, [Next]_vars PROVE PInv' /\ Synced'
    <2>1. PInv'
        BY <1>2, PoolNext
    <2>2. CASE Next
        BY <1>2, <2>1, <2>2, SyncNext
    <2>3. CASE UNCHANGED vars
        <3>1. /\ UNCHANGED <<pageId, bytes, disk, isDirty, oldList, youngList, pc, mine, changed, mishaps>>
              /\ UNCHANGED <<flushPc, dirtyPages>>
            BY <2>3 DEF vars, frameVars, shardVars, clientVars, flushVars
        <3>2. \A f \in Frames : (Homed(f)' <=> Homed(f)) /\ (NoWriter(f)' <=> NoWriter(f))
            BY <3>1 DEF Homed, Listed, VictimHeld, NoWriter
        <3>3. \A t \in Threads : Settled(t)' <=> Settled(t)
            BY <3>1 DEF Settled
        <3>4. CASE mishaps = {}
            <4>1. \A t \in Threads : Settled(t) => InSync(mine[t])
                BY <1>2, <3>4 DEF Synced
            <4> QED
                BY <1>2, <2>1, <3>1, <3>2, <3>3, <3>4, <4>1, SyncKept
        <3>5. mishaps' # {} => Synced'
            BY DEF Synced
        <3> QED
            BY <2>1, <3>1, <3>4, <3>5
    <2> QED
        BY <1>2, <2>1, <2>2, <2>3
<1> QED
    BY <1>1, <1>2, PTL DEF Spec

(* Loading, evicting, failing to write back and flushing change no page:   *)
(* no change is lost and no page gets the bytes of another, as long as no  *)
(* read failed and FlushAllPages wrote no frame that was being reused.     *)
THEOREM ContentsKept == Spec => OnlyClientsChangePages
<1> DEFINE Kept == mishaps' = {} =>
                     \A p \in Pages : Contents(p)' = Contents(p)
                                      \/ \E t \in changed' : pc[t] = "pinned" /\ want[t] = p
<1>1. ASSUME PInv, Synced, PInv', PagesHold, PagesHold', Next PROVE Kept
    <2> SUFFICES ASSUME mishaps' = {}, NEW p \in Pages
                 PROVE  Contents(p)' = Contents(p) \/ \E t \in changed' : pc[t] = "pinned" /\ want[t] = p
        OBVIOUS
    <2>1. mishaps = {} /\ StepKeeps
        BY <1>1, SyncNext
    <2>2. CASE SameHomes \/ SyncedHomes
        BY <1>1, <2>1, <2>2, HomesKept
    <2>3. CASE \E t \in Threads : Modify(t)
        <3>1. PICK t \in Threads : Modify(t)
            BY <2>3
        <3>2. /\ pc[t] = "pinned" /\ t \in changed' /\ \E b : bytes' = [bytes EXCEPT ![mine[t]] = b]
              /\ UNCHANGED <<pageId, disk, oldList, youngList, pc, mine>>
            BY <3>1 DEF Modify, shardVars
        <3>3. CASE want[t] = p
            BY <3>2, <3>3
        <3>4. CASE want[t] # p
            <4>1. pageId[mine[t]] = want[t]
                BY <1>1, <3>2, ListedFrames DEF PInv, ClientsOK, ClientOK, Pinning
            <4>2. \A f \in Frames : (Homed(f)' <=> Homed(f)) /\ pageId'[f] = pageId[f]
                                    /\ (pageId[f] = p => bytes'[f] = bytes[f])
                BY <1>1, <3>2, <3>4, <4>1 DEF Homed, Listed, VictimHeld, PInv, TypeOK
            <4>3. /\ \A f \in Frames : Homed(f) /\ pageId[f] = p => Contents(p) = bytes[f]
                  /\ (\A f \in Frames : Homed(f) => pageId[f] # p) => Contents(p) = disk[p]
                BY <1>1, <2>1 DEF PagesHold
            <4>4. /\ \A f \in Frames : Homed(f)' /\ pageId'[f] = p => Contents(p)' = bytes'[f]
                  /\ (\A f \in Frames : Homed(f)' => pageId'[f] # p) => Contents(p)' = disk'[p]
                BY <1>1 DEF PagesHold
            <4>5. disk' = disk
                BY <3>2
            <4> QED
                BY <4>2, <4>3, <4>4, <4>5
        <3> QED
            BY <3>3, <3>4
    <2> QED
        BY <2>1, <2>2, <2>3 DEF StepKeeps
<1>2. PInv /\ Synced /\ PInv' /\ PagesHold /\ PagesHold' /\ [Next]_vars => [Kept]_vars
    BY <1>1
<1>3. PInv /\ Synced => PagesHold
    BY ContentsOf
<1>4. OnlyClientsChangePages <=> [][Kept]_vars
    BY DEF OnlyClientsChangePages
<1> HIDE DEF Kept
<1> QED
    BY <1>2, <1>3, <1>4, ContentsInvariant, PTL DEF Spec

=============================================================================
