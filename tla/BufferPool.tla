----------------------------- MODULE BufferPool -----------------------------
(***************************************************************************)
(* One shard of the buffer pool (storage/buffer_pool.go): client           *)
(* goroutines that get, change and unpin pages, the eviction they do when  *)
(* they miss, and the goroutine that runs FlushAllPages.  Shards share     *)
(* nothing but the files, and a page belongs to one shard for good.        *)
(*                                                                         *)
(* A page identifier is a pair <<object, page number>>.  The bytes of a    *)
(* page are the number of the write that produced them and the page it was *)
(* meant for; Torn stands for bytes that are being overwritten by a read.  *)
(* The wait for the log before a write-back is in Recovery.                *)
(***************************************************************************)
EXTENDS Naturals, FiniteSets, Sequences, SequencesExt

CONSTANTS Threads,     \* client goroutines
          Pages,       \* pages of the files, <<object, page number>>
          Frames,      \* frames of the shard
          MaxWrites,   \* bound on the changes clients make
          MaxFaults,   \* bound on the reads and writes that fail
          MaxFlushes,  \* bound on the calls of FlushAllPages
          NoPage,      \* common.InvalidObjectID
          NoFrame      \* nil

ASSUME PoolAssumption ==
    /\ IsFiniteSet(Threads)
    /\ IsFiniteSet(Frames) /\ Frames # {}
    /\ MaxWrites \in Nat /\ MaxFaults \in Nat /\ MaxFlushes \in Nat
    /\ Pages \subseteq Nat \X Nat
    /\ NoPage \notin Pages
    /\ NoFrame \notin Frames

\* Capacity of the shard.
NumPages == Cardinality(Frames)

VARIABLES
    pageId,     \* page of a frame
    bytes,      \* contents of a frame
    isDirty,    \* frames marked dirty
    refCount,   \* pins of a frame
    inOld,      \* list a frame is on, or was on before it was taken
    pages,      \* the map from pages to frames
    oldList,    \* frames, front first
    youngList,
    numBaking,  \* frames taken by a miss and not yet on a list
    pageLock,   \* pages locked by a GetPage or an eviction
    disk,       \* contents of the files
    pc,         \* where a client is
    want,       \* the page its GetPage asks for
    mine,       \* the frame it evicts or has pinned
    changed,    \* whether it has changed the page it has pinned
    flushPc,    \* where FlushAllPages is
    dirtyPages, \* frames it has collected and not yet written
    flushOid,   \* object whose file it has opened
    writes, faults, flushes,   \* how often clients wrote, I/O failed, flushes ran
    mishaps     \* history: events after which contents are not promised

frameVars == <<pageId, bytes, isDirty, refCount, inOld>>
shardVars == <<pages, oldList, youngList, numBaking, pageLock>>
clientVars == <<pc, want, mine, changed>>
flushVars == <<flushPc, dirtyPages, flushOid>>
counters == <<writes, faults, flushes>>
vars == <<frameVars, shardVars, disk, clientVars, flushVars, counters, mishaps>>

Torn == <<NoPage, 0>>

Init ==
    /\ pageId = [f \in Frames |-> NoPage]
    /\ bytes = [f \in Frames |-> Torn]
    /\ isDirty = {}
    /\ refCount = [f \in Frames |-> 0]
    /\ inOld = Frames
    /\ pages = [p \in Pages |-> NoFrame]
    /\ oldList = <<>> /\ youngList = <<>>
    /\ numBaking = 0
    /\ pageLock = {}
    /\ disk = [p \in Pages |-> <<p, 0>>]
    /\ pc = [t \in Threads |-> "idle"]
    /\ want = [t \in Threads |-> NoPage]
    /\ mine = [t \in Threads |-> NoFrame]
    /\ changed = {}
    /\ flushPc = "idle" /\ dirtyPages = <<>> /\ flushOid = 0
    /\ writes = 0 /\ faults = 0 /\ flushes = 0
    /\ mishaps = {}

Goto(t, l) == pc' = [pc EXCEPT ![t] = l]
Listed == Range(oldList) \cup Range(youngList)

\* list.Remove of the element of frame f.
Unlink(l, f) == IF f \in Range(l) THEN RemoveAt(l, CHOOSE i \in DOMAIN l : l[i] = f) ELSE l

-----------------------------------------------------------------------------
(* GetPage *)

\* A client asks for a page.  Clients hold one pin at a time.
GetPage(t, p) ==
    /\ pc[t] = "idle"
    /\ want' = [want EXCEPT ![t] = p]
    /\ Goto(t, "lock")
    /\ UNCHANGED <<frameVars, shardVars, disk, mine, changed, flushVars, counters, mishaps>>

\* Mutant: the page is taken whether it is locked or not.
LockPage_NoWait(t) ==
    /\ pc[t] = "lock"
    /\ pageLock' = pageLock \cup {want[t]}
    /\ Goto(t, "look")
    /\ UNCHANGED <<frameVars, pages, oldList, youngList, numBaking, disk, want, mine,
                   changed, flushVars, counters, mishaps>>

\* pageLock.LoadOrStore succeeds; until then the goroutine spins.
LockPage(t) ==
    /\ pc[t] = "lock"
    /\ want[t] \notin pageLock
    /\ pageLock' = pageLock \cup {want[t]}
    /\ Goto(t, "look")
    /\ UNCHANGED <<frameVars, pages, oldList, youngList, numBaking, disk, want, mine,
                   changed, flushVars, counters, mishaps>>

\* Mutant: a hit does not pin.
Hit_NoPin(t) ==
    /\ pc[t] = "look"
    /\ pages[want[t]] # NoFrame
    /\ LET f == pages[want[t]] IN
       /\ oldList' = IF f \in inOld THEN Unlink(oldList, f) ELSE oldList
       /\ youngList' = <<f>> \o (IF f \in inOld THEN youngList ELSE Unlink(youngList, f))
       /\ inOld' = inOld \ {f}
       /\ mine' = [mine EXCEPT ![t] = f]
    /\ Goto(t, "got")
    /\ UNCHANGED <<pageId, bytes, isDirty, refCount, pages, numBaking, pageLock, disk, want,
                   changed, flushVars, counters, mishaps>>

\* getPageFromPool finds the page: it is pinned and becomes the youngest.
Hit(t) ==
    /\ pc[t] = "look"
    /\ pages[want[t]] # NoFrame
    /\ LET f == pages[want[t]] IN
       /\ refCount' = [refCount EXCEPT ![f] = @ + 1]
       /\ oldList' = IF f \in inOld THEN Unlink(oldList, f) ELSE oldList
       /\ youngList' = <<f>> \o (IF f \in inOld THEN youngList ELSE Unlink(youngList, f))
       /\ inOld' = inOld \ {f}
       /\ mine' = [mine EXCEPT ![t] = f]
    /\ Goto(t, "got")
    /\ UNCHANGED <<pageId, bytes, isDirty, pages, numBaking, pageLock, disk, want, changed,
                   flushVars, counters, mishaps>>

Miss(t) ==
    /\ pc[t] = "look"
    /\ pages[want[t]] = NoFrame
    /\ Goto(t, "evict")
    /\ UNCHANGED <<frameVars, shardVars, disk, want, mine, changed, flushVars, counters, mishaps>>

HasRoom == Len(oldList) + Len(youngList) + numBaking < NumPages

\* evictPage creates a frame: the shard is not full.
NewFrame(t) ==
    /\ pc[t] = "evict"
    /\ HasRoom
    /\ \E f \in Frames \ (Listed \cup Range(mine)) :
       /\ pageId' = [pageId EXCEPT ![f] = NoPage]
       /\ isDirty' = isDirty \ {f}
       /\ refCount' = [refCount EXCEPT ![f] = 1]
       /\ inOld' = inOld \cup {f}
       /\ mine' = [mine EXCEPT ![t] = f]
    /\ numBaking' = numBaking + 1
    /\ Goto(t, "retarget")
    /\ UNCHANGED <<bytes, pages, oldList, youngList, pageLock, disk, want, changed,
                   flushVars, counters, mishaps>>

\* findVictim looks from the back of the old list, then of the young one, for a
\* frame nobody has pinned and whose page nobody has locked.
Evictable(f) == refCount[f] = 0 /\ pageId[f] \notin pageLock
IsVictim(f) ==
    LET lru == youngList \o oldList
    IN  \E i \in 1 .. Len(lru) : /\ lru[i] = f /\ Evictable(f)
                                /\ \A j \in (i + 1) .. Len(lru) : ~Evictable(lru[j])

\* evictPage takes the victim out of the pool, pinned and with its page locked.
Evict(t) ==
    /\ pc[t] = "evict"
    /\ ~HasRoom
    /\ \E f \in Frames :
       /\ IsVictim(f)
       /\ refCount' = [refCount EXCEPT ![f] = 1]
       /\ pageLock' = pageLock \cup {pageId[f]}
       /\ pages' = [pages EXCEPT ![pageId[f]] = NoFrame]
       /\ oldList' = IF f \in inOld THEN Unlink(oldList, f) ELSE oldList
       /\ youngList' = IF f \in inOld THEN youngList ELSE Unlink(youngList, f)
       /\ mine' = [mine EXCEPT ![t] = f]
    /\ numBaking' = numBaking + 1
    /\ Goto(t, "victim")
    /\ UNCHANGED <<pageId, bytes, isDirty, inOld, disk, want, changed, flushVars, counters, mishaps>>

\* The frame goes to the front of its list, under the page its pageId names.
PutBack(f) ==
    /\ oldList' = IF f \in inOld THEN <<f>> \o oldList ELSE oldList
    /\ youngList' = IF f \in inOld THEN youngList ELSE <<f>> \o youngList
    /\ pages' = [pages EXCEPT ![pageId[f]] = f]

\* Mutant: numBaking is not restored.
RollbackEviction_KeepsBaking(f) ==
    /\ refCount' = [refCount EXCEPT ![f] = 0]
    /\ PutBack(f)
    /\ pageLock' = pageLock \ {pageId[f]}
    /\ UNCHANGED numBaking

\* rollbackEviction; numBaking is never decreased below zero.
RollbackEviction(f) ==
    /\ refCount' = [refCount EXCEPT ![f] = 0]
    /\ PutBack(f)
    /\ pageLock' = pageLock \ {pageId[f]}
    /\ numBaking' = IF numBaking > 0 THEN numBaking - 1 ELSE 0

\* The victim is clean, or it is written back.
CleanVictim(t) ==
    /\ pc[t] = "victim"
    /\ mine[t] \notin isDirty
    /\ Goto(t, "release")
    /\ UNCHANGED <<frameVars, shardVars, disk, want, mine, changed, flushVars, counters, mishaps>>

\* Mutant: the victim's page is unlocked before it is written back.
DirtyVictim_Unlocks(t) ==
    /\ pc[t] = "victim"
    /\ mine[t] \in isDirty
    /\ pageLock' = pageLock \ {pageId[mine[t]]}
    /\ Goto(t, "writeback")
    /\ UNCHANGED <<frameVars, pages, oldList, youngList, numBaking, disk, want, mine, changed,
                   flushVars, counters, mishaps>>

DirtyVictim(t) ==
    /\ pc[t] = "victim"
    /\ mine[t] \in isDirty
    /\ Goto(t, "writeback")
    /\ UNCHANGED <<frameVars, shardVars, disk, want, mine, changed, flushVars, counters, mishaps>>

WriteBack(t) ==
    /\ pc[t] = "writeback"
    /\ disk' = [disk EXCEPT ![pageId[mine[t]]] = bytes[mine[t]]]
    /\ Goto(t, "clean")
    /\ UNCHANGED <<frameVars, shardVars, want, mine, changed, flushVars, counters, mishaps>>

\* GetDBFile or WritePage fails: the victim goes back and the call fails.
WriteBackFails(t) ==
    /\ pc[t] = "writeback"
    /\ faults < MaxFaults
    /\ faults' = faults + 1
    /\ RollbackEviction(mine[t])
    /\ mine' = [mine EXCEPT ![t] = NoFrame]
    /\ Goto(t, "got")
    /\ UNCHANGED <<pageId, bytes, isDirty, inOld, disk, want, changed, flushVars,
                   writes, flushes, mishaps>>

MarkClean(t) ==
    /\ pc[t] = "clean"
    /\ isDirty' = isDirty \ {mine[t]}
    /\ Goto(t, "release")
    /\ UNCHANGED <<pageId, bytes, refCount, inOld, shardVars, disk, want, mine, changed,
                   flushVars, counters, mishaps>>

\* pageLock.Delete of the victim's page: it may be loaded again from now on.
ReleaseVictim(t) ==
    /\ pc[t] = "release"
    /\ pageLock' = pageLock \ {pageId[mine[t]]}
    /\ Goto(t, "retarget")
    /\ UNCHANGED <<frameVars, pages, oldList, youngList, numBaking, disk, want, mine, changed,
                   flushVars, counters, mishaps>>

\* newPage.pageId = pageID, while the bytes are still the victim's.
Retarget(t) ==
    /\ pc[t] = "retarget"
    /\ pageId' = [pageId EXCEPT ![mine[t]] = want[t]]
    /\ Goto(t, "load")
    /\ UNCHANGED <<bytes, isDirty, refCount, inOld, shardVars, disk, want, mine, changed,
                   flushVars, counters, mishaps>>

\* ReadPage fills the frame without its latch: a flush may see any mixture.
ReadStarts(t) ==
    /\ pc[t] = "load"
    /\ bytes' = [bytes EXCEPT ![mine[t]] = Torn]
    /\ Goto(t, "reading")
    /\ UNCHANGED <<pageId, isDirty, refCount, inOld, shardVars, disk, want, mine, changed,
                   flushVars, counters, mishaps>>

ReadPage(t) ==
    /\ pc[t] = "reading"
    /\ bytes' = [bytes EXCEPT ![mine[t]] = disk[want[t]]]
    /\ Goto(t, "publish")
    /\ UNCHANGED <<pageId, isDirty, refCount, inOld, shardVars, disk, want, mine, changed,
                   flushVars, counters, mishaps>>

\* GetDBFile or ReadPage fails: the frame goes into the pool under the new page
\* with whatever bytes it has, and the page is unlocked, a first time.
ReadFails(t) ==
    /\ pc[t] = "load"
    /\ faults < MaxFaults
    /\ faults' = faults + 1
    /\ RollbackEviction(mine[t])
    /\ mine' = [mine EXCEPT ![t] = NoFrame]
    /\ mishaps' = mishaps \cup {"readFailed"}
    /\ Goto(t, "got")
    /\ UNCHANGED <<pageId, bytes, isDirty, inOld, disk, want, changed, flushVars, writes, flushes>>

\* The loaded frame enters the old list and the map.
Publish(t) ==
    /\ pc[t] = "publish"
    /\ isDirty' = isDirty \ {mine[t]}
    /\ inOld' = inOld \cup {mine[t]}
    /\ oldList' = <<mine[t]>> \o oldList
    /\ pages' = [pages EXCEPT ![want[t]] = mine[t]]
    /\ numBaking' = numBaking - 1
    /\ Goto(t, "got")
    /\ UNCHANGED <<pageId, bytes, refCount, youngList, pageLock, disk, want, mine, changed,
                   flushVars, counters, mishaps>>

\* The deferred pageLock.Delete; GetPage returns a frame or an error.
Return(t) ==
    /\ pc[t] = "got"
    /\ pageLock' = pageLock \ {want[t]}
    /\ IF mine[t] = NoFrame
       THEN Goto(t, "idle") /\ want' = [want EXCEPT ![t] = NoPage]
       ELSE Goto(t, "pinned") /\ UNCHANGED want
    /\ UNCHANGED <<frameVars, pages, oldList, youngList, numBaking, disk, mine, changed,
                   flushVars, counters, mishaps>>

-----------------------------------------------------------------------------
(* Use and UnpinPage *)

\* FlushAllPages holds the latch of a frame while it writes it.
Latched(f) == flushPc = "written" /\ Head(dirtyPages) = f

\* A client changes the page under its latch.
Modify(t) ==
    /\ pc[t] = "pinned"
    /\ writes < MaxWrites
    /\ ~Latched(mine[t])
    /\ bytes' = [bytes EXCEPT ![mine[t]] = <<want[t], writes + 1>>]
    /\ changed' = changed \cup {t}
    /\ writes' = writes + 1
    /\ UNCHANGED <<pageId, isDirty, refCount, inOld, shardVars, disk, pc, want, mine, flushVars,
                   faults, flushes, mishaps>>

\* UnpinPage: the dirty flag first, then the count.
UnpinMark(t) ==
    /\ pc[t] = "pinned"
    /\ isDirty' = IF t \in changed THEN isDirty \cup {mine[t]} ELSE isDirty
    /\ changed' = changed \ {t}
    /\ Goto(t, "unpin")
    /\ UNCHANGED <<pageId, bytes, refCount, inOld, shardVars, disk, want, mine, flushVars,
                   counters, mishaps>>

UnpinCount(t) ==
    /\ pc[t] = "unpin"
    /\ refCount' = [refCount EXCEPT ![mine[t]] = @ - 1]
    /\ mine' = [mine EXCEPT ![t] = NoFrame]
    /\ want' = [want EXCEPT ![t] = NoPage]
    /\ Goto(t, "idle")
    /\ UNCHANGED <<pageId, bytes, isDirty, inOld, shardVars, disk, changed, flushVars,
                   counters, mishaps>>

-----------------------------------------------------------------------------
(* FlushAllPages *)

\* It collects dirty frames under the shard's mutex, in the order of the lists,
\* those whose LSN the log has flushed, and keeps them without a pin.
Collect ==
    /\ flushPc = "idle"
    /\ flushes < MaxFlushes
    /\ LET lists == oldList \o youngList IN
       \E n \in 1 .. Len(lists) : \E at \in [1 .. n -> 1 .. Len(lists)] :
          /\ \A i, j \in 1 .. n : i < j => at[i] < at[j]
          /\ \A i \in 1 .. n : lists[at[i]] \in isDirty
          /\ dirtyPages' = [i \in 1 .. n |-> lists[at[i]]]
    /\ flushPc' = "open"
    /\ flushes' = flushes + 1
    /\ UNCHANGED <<frameVars, shardVars, disk, clientVars, flushOid, writes, faults, mishaps>>

\* GetDBFile(pf.pageId.Oid).
OpenFile ==
    /\ flushPc = "open"
    /\ dirtyPages # <<>>
    /\ flushOid' = pageId[Head(dirtyPages)][1]
    /\ flushPc' = "write"
    /\ UNCHANGED <<frameVars, shardVars, disk, clientVars, dirtyPages, counters, mishaps>>

FlushTarget == <<flushOid, pageId[Head(dirtyPages)][2]>>

\* A goroutine is loading another page into the frame.
BeingReused(f) ==
    \E t \in Threads : /\ mine[t] = f
                       /\ pc[t] \in {"retarget", "load", "reading", "publish"}

\* Under the latch, which eviction does not take: WritePage(pf.pageId.PageNum)
\* into the opened file.
WriteFrame ==
    /\ flushPc = "write"
    /\ FlushTarget \in Pages
    /\ LET f == Head(dirtyPages) IN
       /\ disk' = [disk EXCEPT ![FlushTarget] = bytes[f]]
       /\ mishaps' = IF FlushTarget # pageId[f] \/ BeingReused(f)
                     THEN mishaps \cup {"frameReused"} ELSE mishaps
    /\ flushPc' = "written"
    /\ UNCHANGED <<frameVars, shardVars, clientVars, dirtyPages, flushOid, counters>>

MarkFlushed ==
    /\ flushPc = "written"
    /\ isDirty' = isDirty \ {Head(dirtyPages)}
    /\ dirtyPages' = Tail(dirtyPages)
    /\ flushPc' = "open"
    /\ flushOid' = 0
    /\ UNCHANGED <<pageId, bytes, refCount, inOld, shardVars, disk, clientVars, counters, mishaps>>

\* All written, or the first failure: the page is beyond the file's end or I/O fails.
FlushReturns ==
    /\ \/ flushPc = "open" /\ dirtyPages = <<>> /\ faults' = faults
       \/ flushPc = "write" /\ FlushTarget \notin Pages /\ faults' = faults
       \/ flushPc \in {"open", "write"} /\ dirtyPages # <<>>
            /\ faults < MaxFaults /\ faults' = faults + 1
    /\ flushPc' = "idle"
    /\ dirtyPages' = <<>>
    /\ flushOid' = 0
    /\ UNCHANGED <<frameVars, shardVars, disk, clientVars, writes, flushes, mishaps>>

-----------------------------------------------------------------------------
Evicting(t) ==
    \/ NewFrame(t) \/ Evict(t)
    \/ CleanVictim(t) \/ DirtyVictim(t) \/ WriteBack(t) \/ WriteBackFails(t)
    \/ MarkClean(t) \/ ReleaseVictim(t) \/ Retarget(t)
    \/ ReadStarts(t) \/ ReadPage(t) \/ ReadFails(t) \/ Publish(t)

\* What a client that has called GetPage goes on to do.
ClientStep(t) ==
    LockPage(t) \/ Hit(t) \/ Miss(t) \/ Evicting(t) \/ Return(t)
    \/ UnpinMark(t) \/ UnpinCount(t)

FlushStep == OpenFile \/ WriteFrame \/ MarkFlushed \/ FlushReturns

Next ==
    \/ \E t \in Threads :
         (\E p \in Pages : GetPage(t, p)) \/ ClientStep(t) \/ Modify(t)
    \/ Collect
    \/ FlushStep

Spec == Init /\ [][Next]_vars

-----------------------------------------------------------------------------
(* Properties *)

Values == {Torn} \cup (Pages \X (0 .. MaxWrites))
InGetPage == {"lock", "look", "evict", "victim", "writeback", "clean", "release",
              "retarget", "load", "reading", "publish", "got"}

\* Types of the fields of frames, shard and goroutines.
TypeOK ==
    /\ pageId \in [Frames -> Pages \cup {NoPage}]
    /\ bytes \in [Frames -> Values]
    /\ isDirty \subseteq Frames
    /\ refCount \in [Frames -> Nat]
    /\ inOld \subseteq Frames
    /\ pages \in [Pages -> Frames \cup {NoFrame}]
    /\ oldList \in Seq(Frames) /\ youngList \in Seq(Frames)
    /\ numBaking \in Nat
    /\ pageLock \subseteq Pages
    /\ disk \in [Pages -> Values]
    /\ pc \in [Threads -> InGetPage \cup {"idle", "pinned", "unpin"}]
    /\ want \in [Threads -> Pages \cup {NoPage}]
    /\ mine \in [Threads -> Frames \cup {NoFrame}]
    /\ changed \subseteq Threads
    /\ flushPc \in {"idle", "open", "write", "written"}
    /\ dirtyPages \in Seq(Frames)
    /\ flushOid \in Nat
    /\ writes \in 0 .. MaxWrites /\ faults \in 0 .. MaxFaults /\ flushes \in 0 .. MaxFlushes
    /\ mishaps \subseteq {"readFailed", "frameReused"}

Baking(t) == pc[t] \in {"victim", "writeback", "clean", "release", "retarget",
                        "load", "reading", "publish"}
Pinning(t) == pc[t] \in {"got", "pinned", "unpin"} /\ mine[t] # NoFrame

\* Every frame is on one list, once, or in the hands of one goroutine that is
\* replacing its page, however evictions, failures and hits interleave: frames
\* neither leak nor multiply, and numBaking counts the second kind.
FramesAccountedFor ==
    LET lists == oldList \o youngList
        baking == {t \in Threads : Baking(t)}
    IN  /\ IsInjective(lists)
        /\ numBaking = Cardinality(baking)
        /\ \A t \in baking : /\ mine[t] \notin Range(lists)
                             /\ \A u \in Threads \ {t} : mine[u] # mine[t]
        /\ Len(lists) + numBaking <= NumPages

\* The pin count of a frame is the number of goroutines that use it, also after
\* a failed eviction has set it to zero: no frame is replaced under a user and
\* none is pinned for ever.
PinsAreCounted ==
    \A f \in Frames :
        refCount[f] = Cardinality({t \in Threads : mine[t] = f /\ (Pinning(t) \/ Baking(t))})

\* While a goroutine has a page pinned, the map leads to its frame and the frame
\* holds that page, so all users of a page share one frame: the two cases the
\* comment in GetPage wants to exclude, unless a read has failed.
OneFramePerPage ==
    "readFailed" \notin mishaps =>
        \A t \in Threads : Pinning(t) => /\ pages[want[t]] = mine[t]
                                         /\ pageId[mine[t]] = want[t]

Owns(t, p) ==
    \/ pc[t] \in InGetPage \ {"lock"} /\ want[t] = p
    \/ pc[t] \in {"victim", "writeback", "clean", "release"} /\ pageId[mine[t]] = p

\* A locked page belongs to a call in progress, so no failed or finished call
\* leaves a page that every later GetPage would spin on; and unless a read has
\* failed it belongs to one call only, whose later Delete is its own.
PageLocksOwned ==
    /\ \A p \in pageLock : \E t \in Threads : Owns(t, p)
    /\ "readFailed" \notin mishaps =>
         \A p \in Pages : \A t, u \in Threads :
             Owns(t, p) /\ Owns(u, p) => p \in pageLock /\ t = u

\* No hit, eviction, failed read or failed write-back, in any interleaving, loses
\* or duplicates a frame, a pin or a page lock: the pool never runs dry and no
\* GetPage spins on a page for ever.
ResourcesAccountedFor == FramesAccountedFor /\ PinsAreCounted /\ PageLocksOwned

\* The contents of a page: those of its frame, of the frame being evicted until
\* that is written back, or of the file.
HomeFrames(p) ==
    {f \in Frames : \/ pages[p] = f
                    \/ \E t \in Threads : /\ mine[t] = f /\ pageId[f] = p
                                          /\ pc[t] \in {"victim", "writeback"}}
Contents(p) == IF HomeFrames(p) = {} THEN disk[p] ELSE bytes[CHOOSE f \in HomeFrames(p) : TRUE]

\* Loading, eviction, failed evictions and flushing never change what a page
\* holds: only a client that has it pinned does.  No change is lost and no page
\* takes the bytes of another, as long as no read failed and FlushAllPages did
\* not write a frame that was being reused.
OnlyClientsChangePages ==
    [][mishaps' = {} =>
         \A p \in Pages : Contents(p)' = Contents(p)
                          \/ \E t \in changed' : pc[t] = "pinned" /\ want[t] = p]_vars
=============================================================================
