------------------------------ MODULE Segment ------------------------------
(***************************************************************************)
(* The life of one time segment of a database                              *)
(* (banyand/internal/storage/segment.go): the reference count that queries *)
(* and sync sessions take on it, the lazy re-opening of a closed segment,  *)
(* and the four maintenance loops that close or delete it: the idle closer,*)
(* retention, forced clean-up of the oldest segment, and the deletion that *)
(* the lifecycle service asks for.  All of them work on the counter with   *)
(* single atomic instructions, so every atomic load, add and CAS of the    *)
(* code is a step of its own here.                                         *)
(*                                                                         *)
(* A segment that was deleted can be created again for the same time range *)
(* and so on the same directory: a generation is one in-memory object.     *)
(***************************************************************************)
EXTENDS Integers, FiniteSets

CONSTANTS
    Selectors,     \* goroutines in selectSegments or segments(true)
    Creators,      \* goroutines in createSegment (writes, sync receivers)
    IdleClosers,   \* the rotation goroutine running closeIdleSegments
    Retainers,     \* the retention task, under retentionGate
    Oldests,       \* forced clean-up: DeleteOldestSegment, under retentionGate
    Expirers,      \* DeleteExpiredSegments calls of the lifecycle service
    Collectors,    \* the metrics collector
    Closers,       \* database.Close
    OpenFaults,    \* whether opening the index or a shard can fail
    MaxGen         \* how many times the segment can be created

Users == Selectors \cup Creators
Deleters == Retainers \cup Expirers
Sweepers == IdleClosers \cup Deleters \cup Collectors   \* use segments(false)
Procs == Users \cup Sweepers \cup Oldests \cup Closers
Gen == 1 .. MaxGen

None == "none"

\* Every goroutine has one task.
ASSUME SegmentAssumption ==
    /\ MaxGen \in Nat \ {0}
    /\ OpenFaults \in BOOLEAN
    /\ IsFiniteSet(Procs) /\ None \notin Procs
    /\ Users \cap (Sweepers \cup Oldests \cup Closers) = {}
    /\ Sweepers \cap (Oldests \cup Closers) = {} /\ Oldests \cap Closers = {}
    /\ Collectors \cap Deleters = {}

VARIABLES
    refCount,       \* refCount[g]: the atomic counter
    index,          \* index[g]: TRUE while the series index is open
    shards,         \* shards[g]: the tables in sLst: "empty", "open", or "closed" and still there
    leaked,         \* leaked[g]: they were opened, and nobody counted the segment
    mustBeDeleted,  \* mustBeDeleted[g]
    idle,           \* idle[g]: lastAccessed is older than idleTimeout
    mu,             \* the goroutine inside initialize with s.mu held, or None
    listed,         \* the generation in sc.lst, 0 when there is none
    gens,           \* generations created so far
    dir,            \* the segment directory exists
    gate,           \* the holder of retentionGate, or None
    closed,         \* database.closed
    panicked,       \* MkdirPanicIfExist found the directory
    pc, seg, ret    \* each goroutine: where it is, its segment, where DecRef returns

open == <<index, shards, leaked>>
counters == <<refCount, open, mustBeDeleted, idle>>
vars == <<counters, mu, listed, gens, dir, gate, closed, panicked, pc, seg, ret>>
shared == <<mu, listed, gens, dir, gate, closed, panicked>>

PCs == {"start", "enter", "load", "add", "init", "store", "hold",
        "tryadd", "visit", "unlist", "lock", "release", "drain",
        "dec", "cas", "cleanup", "done"}

\* Every variable stays in its range; in particular DecRef never takes the counter below
\* zero.
TypeOK ==
    /\ refCount \in [Gen -> Nat]
    /\ index \in [Gen -> BOOLEAN]
    /\ shards \in [Gen -> {"empty", "open", "closed"}]
    /\ leaked \in [Gen -> BOOLEAN]
    /\ mustBeDeleted \in [Gen -> BOOLEAN]
    /\ idle \in [Gen -> BOOLEAN]
    /\ mu \in Procs \cup {None}
    /\ listed \in 0 .. MaxGen
    /\ gens \in 0 .. MaxGen
    /\ dir \in BOOLEAN
    /\ gate \in Procs \cup {None}
    /\ closed \in BOOLEAN
    /\ panicked \in BOOLEAN
    /\ pc \in [Procs -> PCs]
    /\ seg \in [Procs -> 0 .. MaxGen]
    /\ ret \in [Procs -> PCs]

\* The controller opened on an empty location, or with one segment on disk that
\* openSegment initialized.
Init ==
    /\ listed \in {0, 1}
    /\ gens = listed
    /\ dir = (listed = 1)
    /\ refCount = [g \in Gen |-> IF g = listed THEN 1 ELSE 0]
    /\ index = [g \in Gen |-> g = listed]
    /\ shards = [g \in Gen |-> IF g = listed THEN "open" ELSE "empty"]
    /\ leaked = [g \in Gen |-> FALSE]
    /\ mustBeDeleted = [g \in Gen |-> FALSE]
    /\ idle = [g \in Gen |-> FALSE]
    /\ mu = None
    /\ gate = None
    /\ closed = FALSE
    /\ panicked = FALSE
    /\ pc = [p \in Procs |-> "start"]
    /\ seg = [p \in Procs |-> 0]
    /\ ret = [p \in Procs |-> "done"]

Goto(p, l) == pc' = [pc EXCEPT ![p] = l]

(***************************************************************************)
(* The controller's RWMutex.  selectSegments and segments hold the read    *)
(* lock while they take the reference; createSegment calls incRef after    *)
(* create has released the lock.  As in Go, a goroutine blocked in Lock    *)
(* ("lock") keeps new readers out.                                         *)
(***************************************************************************)
RLocked == {p \in Procs \ Creators : pc[p] \in {"load", "add", "init", "store", "tryadd"}}
WLocked == {p \in Oldests \cup Closers : pc[p] \notin {"start", "enter", "lock", "done"}}
CanRLock == WLocked = {} /\ \A p \in Procs : pc[p] # "lock"
CanLock == WLocked = {} /\ RLocked = {}

----------------------------------------------------------------------------
(* Users *)

\* SelectSegments and CreateSegmentIfNotExist look at database.closed first.
CheckOpen(p) ==
    /\ p \in Users
    /\ pc[p] = "start"
    /\ Goto(p, IF closed THEN "done" ELSE "enter")
    /\ UNCHANGED <<counters, shared, seg, ret>>

\* selectSegments / segments(true): find the segment in lst, incRef's Store.
SelectSegment(p) ==
    /\ p \in Selectors
    /\ pc[p] = "enter"
    /\ CanRLock
    /\ IF listed = 0
       THEN Goto(p, "done") /\ UNCHANGED <<seg, idle>>
       ELSE /\ Goto(p, "load")
            /\ seg' = [seg EXCEPT ![p] = listed]
            /\ idle' = [idle EXCEPT ![listed] = FALSE]
    /\ UNCHANGED <<refCount, open, mustBeDeleted, shared, ret>>

\* create found a segment containing the timestamp.
CreateFound(p) ==
    /\ p \in Creators
    /\ pc[p] = "enter"
    /\ CanLock
    /\ listed # 0
    /\ Goto(p, "load")
    /\ seg' = [seg EXCEPT ![p] = listed]
    /\ idle' = [idle EXCEPT ![listed] = FALSE]
    /\ UNCHANGED <<refCount, open, mustBeDeleted, shared, ret>>

\* create makes the directory, panicking if it is there, and opens it, still without
\* tables; a segment that cannot be opened is not listed, and its directory stays.
CreateNew(p) ==
    /\ p \in Creators
    /\ pc[p] = "enter"
    /\ CanLock
    /\ listed = 0
    /\ \/ /\ dir
          /\ panicked' = TRUE
          /\ Goto(p, "done")
          /\ UNCHANGED <<counters, listed, gens, dir, seg>>
       \/ /\ ~dir /\ OpenFaults
          /\ dir' = TRUE
          /\ Goto(p, "start")
          /\ UNCHANGED <<counters, listed, gens, seg, panicked>>
       \/ /\ ~dir /\ gens < MaxGen
          /\ LET g == gens + 1 IN
             /\ gens' = g
             /\ listed' = g
             /\ refCount' = [refCount EXCEPT ![g] = 1]
             /\ index' = [index EXCEPT ![g] = TRUE]
             /\ seg' = [seg EXCEPT ![p] = g]
          /\ dir' = TRUE
          /\ Goto(p, "load")
          /\ UNCHANGED <<shards, leaked, mustBeDeleted, idle, panicked>>
    /\ UNCHANGED <<mu, gate, closed, ret>>

\* incRef: the load decides between re-opening and adding ...
LoadRef(p) ==
    /\ p \in Users
    /\ pc[p] = "load"
    /\ Goto(p, IF refCount[seg[p]] <= 0 THEN "init" ELSE "add")
    /\ UNCHANGED <<counters, shared, seg, ret>>

\* ... and the add is a second atomic instruction.
AddRef(p) ==
    /\ p \in Users
    /\ pc[p] = "add"
    /\ refCount' = [refCount EXCEPT ![seg[p]] = @ + 1]
    /\ Goto(p, "hold")
    /\ UNCHANGED <<open, mustBeDeleted, idle, shared, seg, ret>>

\* initialize, under s.mu: a segment re-opened meanwhile is returned as it is; otherwise
\* the index is opened, or fails to and incRef returns the error.
InitializeOpen(p) ==
    /\ p \in Users
    /\ pc[p] = "init"
    /\ mu = None
    /\ \/ /\ refCount[seg[p]] > 0
          /\ Goto(p, "hold")
          /\ UNCHANGED <<index, mu, dir>>
       \/ /\ refCount[seg[p]] <= 0
          /\ Goto(p, "store")
          /\ mu' = p
          /\ index' = [index EXCEPT ![seg[p]] = TRUE]
          /\ dir' = TRUE
       \/ /\ refCount[seg[p]] <= 0 /\ OpenFaults
          /\ Goto(p, "start")
          /\ dir' \in {dir, TRUE}
          /\ UNCHANGED <<index, mu>>
    /\ UNCHANGED <<refCount, shards, leaked, mustBeDeleted, idle, listed, gens, gate, closed,
                   panicked, seg, ret>>

\* loadShards: tables that sLst still has are taken as they are (a segment that is
\* re-opened has tables on disk).
LoadShards(g) == IF shards[g] = "empty" THEN "open" ELSE shards[g]

\* The shards are loaded, and the store that ends initialize overwrites whatever the
\* counter holds.
InitializeStore(p) ==
    /\ p \in Users
    /\ pc[p] = "store"
    /\ refCount' = [refCount EXCEPT ![seg[p]] = 1]
    /\ shards' = [shards EXCEPT ![seg[p]] = LoadShards(seg[p])]
    /\ leaked' = [leaked EXCEPT ![seg[p]] = FALSE]
    /\ mu' = None
    /\ Goto(p, "hold")
    /\ UNCHANGED <<index, mustBeDeleted, idle, listed, gens, dir, gate, closed, panicked,
                   seg, ret>>

\* Mutant: the index is not closed when a shard fails to load.
InitializeFailLeak(p) ==
    /\ OpenFaults
    /\ p \in Users
    /\ pc[p] = "store"
    /\ mu' = None
    /\ Goto(p, "start")
    /\ UNCHANGED <<counters, listed, gens, dir, gate, closed, panicked, seg, ret>>

\* A shard fails to load: the index is closed, the shards loaded before it stay in sLst,
\* and incRef returns the error.
InitializeFail(p) ==
    /\ OpenFaults
    /\ p \in Users
    /\ pc[p] = "store"
    /\ LET g == seg[p] IN
       /\ index' = [index EXCEPT ![g] = FALSE]
       /\ \E loaded \in {shards[g], LoadShards(g)} :
             /\ shards' = [shards EXCEPT ![g] = loaded]
             /\ leaked' = [leaked EXCEPT ![g] = (loaded = "open")]
    /\ mu' = None
    /\ Goto(p, "start")
    /\ UNCHANGED <<refCount, mustBeDeleted, idle, listed, gens, dir, gate, closed, panicked,
                   seg, ret>>

\* CreateTSTableIfNotExist, under s.mu; it does not look at the counter.
CreateTSTable(p) ==
    /\ p \in Creators
    /\ pc[p] = "hold"
    /\ mu = None
    /\ shards[seg[p]] = "empty"
    /\ shards' = [shards EXCEPT ![seg[p]] = "open"]
    /\ leaked' = [leaked EXCEPT ![seg[p]] = (refCount[seg[p]] <= 0)]
    /\ UNCHANGED <<refCount, index, mustBeDeleted, idle, shared, pc, seg, ret>>

\* Call DecRef; it continues at l.
CallDecRef(p, l) ==
    /\ pc' = [pc EXCEPT ![p] = "dec"]
    /\ ret' = [ret EXCEPT ![p] = l]

\* The query or session is over.
Release(p) ==
    /\ p \in Users
    /\ pc[p] = "hold"
    /\ CallDecRef(p, "start")
    /\ UNCHANGED <<counters, shared, seg>>

----------------------------------------------------------------------------
(* DecRef and performCleanup, run by every goroutine *)

\* The first test: a segment already at zero that must be deleted.
DecRefCheck(p) ==
    /\ pc[p] = "dec"
    /\ Goto(p, IF refCount[seg[p]] <= 0 /\ mustBeDeleted[seg[p]] THEN "cleanup" ELSE "cas")
    /\ UNCHANGED <<counters, shared, seg, ret>>

\* Mutant: the clean-up is decided on the value after the swap, off by one.
DecRefCASOffByOne(p) ==
    /\ pc[p] = "cas"
    /\ LET g == seg[p] IN
       IF refCount[g] <= 0
       THEN Goto(p, ret[p]) /\ UNCHANGED refCount
       ELSE /\ refCount' = [refCount EXCEPT ![g] = @ - 1]
            /\ Goto(p, IF refCount[g] = 0 THEN "cleanup" ELSE ret[p])
    /\ UNCHANGED <<open, mustBeDeleted, idle, shared, seg, ret>>

\* The CAS loop: nothing to give back at zero, clean up on one to zero.
DecRefCAS(p) ==
    /\ pc[p] = "cas"
    /\ LET g == seg[p] IN
       IF refCount[g] <= 0
       THEN Goto(p, ret[p]) /\ UNCHANGED refCount
       ELSE /\ refCount' = [refCount EXCEPT ![g] = @ - 1]
            /\ Goto(p, IF refCount[g] = 1 THEN "cleanup" ELSE ret[p])
    /\ UNCHANGED <<open, mustBeDeleted, idle, shared, seg, ret>>

\* performCleanup, under s.mu: index and shards are closed; sLst is emptied unless the
\* directory goes too.
PerformCleanup(p) ==
    /\ pc[p] = "cleanup"
    /\ mu = None
    /\ LET g == seg[p] IN
       IF refCount[g] > 0 /\ ~mustBeDeleted[g]
       THEN UNCHANGED <<open, dir>>
       ELSE /\ index' = [index EXCEPT ![g] = FALSE]
            /\ shards' = [shards EXCEPT ![g] =
                             IF mustBeDeleted[g] /\ @ # "empty" THEN "closed" ELSE "empty"]
            /\ leaked' = [leaked EXCEPT ![g] = FALSE]
            /\ dir' = (dir /\ ~mustBeDeleted[g])
    /\ Goto(p, ret[p])
    /\ UNCHANGED <<refCount, mustBeDeleted, idle, mu, listed, gens, gate, closed, panicked,
                   seg, ret>>

----------------------------------------------------------------------------
(* Maintenance *)

\* retentionGate: a busy gate skips the run, which is not taking this step.
GateFree(p) == p \in Retainers \cup Oldests => gate = None
TakeGate(p) == gate' = IF p \in Retainers \cup Oldests THEN p ELSE gate

\* segments(false): the segment is counted only if it is open right now.
SweepLoad(p) ==
    /\ p \in Sweepers
    /\ pc[p] = "start"
    /\ p \in Collectors => ~closed
    /\ CanRLock
    /\ listed # 0
    /\ GateFree(p)
    /\ TakeGate(p)
    /\ seg' = [seg EXCEPT ![p] = listed]
    /\ Goto(p, IF refCount[listed] > 0 THEN "tryadd" ELSE "visit")
    /\ UNCHANGED <<counters, mu, listed, gens, dir, closed, panicked, ret>>

\* Mutant: segments(false) hands the segment out without counting it.
SweepAddUncounted(p) ==
    /\ p \in Sweepers
    /\ pc[p] = "tryadd"
    /\ Goto(p, "visit")
    /\ UNCHANGED <<counters, shared, seg, ret>>

SweepAdd(p) ==
    /\ p \in Sweepers
    /\ pc[p] = "tryadd"
    /\ refCount' = [refCount EXCEPT ![seg[p]] = @ + 1]
    /\ Goto(p, "visit")
    /\ UNCHANGED <<open, mustBeDeleted, idle, shared, seg, ret>>

\* Mutant: the closer only gives back its own reference.
VisitIdleOnce(p) ==
    /\ p \in IdleClosers
    /\ pc[p] = "visit"
    /\ CallDecRef(p, "start")
    /\ UNCHANGED <<counters, shared, seg>>

\* closeIdleSegments: one DecRef more for a segment that is idle and open.
VisitIdle(p) ==
    /\ p \in IdleClosers
    /\ pc[p] = "visit"
    /\ CallDecRef(p, IF idle[seg[p]] /\ refCount[seg[p]] > 0 THEN "release" ELSE "start")
    /\ UNCHANGED <<counters, shared, seg>>

\* collect: skips the DecRef of a segment it sees closed.
VisitCollect(p) ==
    /\ p \in Collectors
    /\ pc[p] = "visit"
    /\ IF refCount[seg[p]] <= 0
       THEN Goto(p, "start") /\ UNCHANGED ret
       ELSE CallDecRef(p, "start")
    /\ UNCHANGED <<counters, shared, seg>>

\* remove(deadline) and deleteExpiredSegments leave a live segment alone ...
VisitKeep(p) ==
    /\ p \in Deleters
    /\ pc[p] = "visit"
    /\ CallDecRef(p, "done")
    /\ UNCHANGED <<counters, shared, seg>>

\* ... and call delete on an expired one.
VisitExpired(p) ==
    /\ p \in Deleters
    /\ pc[p] = "visit"
    /\ mustBeDeleted' = [mustBeDeleted EXCEPT ![seg[p]] = TRUE]
    /\ CallDecRef(p, "unlist")
    /\ UNCHANGED <<refCount, open, idle, shared, seg>>

\* The call of Lock by remove, deleteExpiredSegments or close.
RequestLock(p) ==
    /\ \/ p \in Deleters /\ pc[p] = "unlist"
       \/ p \in Closers /\ pc[p] = "enter"
    /\ Goto(p, "lock")
    /\ UNCHANGED <<counters, shared, seg, ret>>

\* removeSeg, under the write lock (held all along by removeOldest): by id, so
\* whatever generation is listed.
Unlist(p) ==
    /\ \/ p \in Deleters /\ pc[p] = "lock" /\ CanLock
       \/ p \in Oldests /\ pc[p] = "unlist"
    /\ listed' = 0
    /\ Goto(p, IF p \in Oldests THEN "done" ELSE "release")
    /\ UNCHANGED <<counters, mu, gens, dir, gate, closed, panicked, seg, ret>>

\* The DecRef that ends a visit.
SweepRelease(p) ==
    /\ p \in Sweepers
    /\ pc[p] = "release"
    /\ CallDecRef(p, IF p \in Deleters THEN "done" ELSE "start")
    /\ UNCHANGED <<counters, shared, seg>>

\* removeOldest: gate and write lock, then delete (other segments remain).
RemoveOldest(p) ==
    /\ p \in Oldests
    /\ pc[p] = "start"
    /\ ~closed
    /\ CanLock
    /\ listed # 0
    /\ GateFree(p)
    /\ TakeGate(p)
    /\ seg' = [seg EXCEPT ![p] = listed]
    /\ mustBeDeleted' = [mustBeDeleted EXCEPT ![listed] = TRUE]
    /\ CallDecRef(p, "unlist")
    /\ UNCHANGED <<refCount, open, idle, mu, listed, gens, dir, closed, panicked>>

\* The deferred receive from retentionGate; the task may run again.
ReleaseGate(p) ==
    /\ p \in Deleters \cup Oldests
    /\ pc[p] = "done"
    /\ gate' = IF gate = p THEN None ELSE gate
    /\ Goto(p, "start")
    /\ UNCHANGED <<counters, mu, listed, gens, dir, closed, panicked, seg, ret>>

\* idleTimeout passes without an incRef.
Age ==
    /\ IdleClosers # {}
    /\ \E g \in 1 .. gens : ~idle[g] /\ idle' = [idle EXCEPT ![g] = TRUE]
    /\ UNCHANGED <<refCount, open, mustBeDeleted, shared, pc, seg, ret>>

\* database.Close: no new callers, then DecRef each segment down to zero.
StartClose(p) ==
    /\ p \in Closers
    /\ pc[p] = "start"
    /\ ~closed
    /\ closed' = TRUE
    /\ Goto(p, "enter")
    /\ UNCHANGED <<counters, mu, listed, gens, dir, gate, panicked, seg, ret>>

CloseLock(p) ==
    /\ p \in Closers
    /\ pc[p] = "lock"
    /\ CanLock
    /\ seg' = [seg EXCEPT ![p] = listed]
    /\ Goto(p, IF listed = 0 THEN "done" ELSE "drain")
    /\ UNCHANGED <<counters, shared, ret>>

\* Mutant: Close leaves a segment that is in use alone.
CloseDrainUnused(p) ==
    /\ p \in Closers
    /\ pc[p] = "drain"
    /\ IF refCount[seg[p]] = 1
       THEN CallDecRef(p, "drain") /\ UNCHANGED listed
       ELSE Goto(p, "done") /\ listed' = 0 /\ UNCHANGED ret
    /\ UNCHANGED <<counters, mu, gens, dir, gate, closed, panicked, seg>>

CloseDrain(p) ==
    /\ p \in Closers
    /\ pc[p] = "drain"
    /\ IF refCount[seg[p]] > 0
       THEN CallDecRef(p, "drain") /\ UNCHANGED listed
       ELSE Goto(p, "done") /\ listed' = 0 /\ UNCHANGED ret
    /\ UNCHANGED <<counters, mu, gens, dir, gate, closed, panicked, seg>>

----------------------------------------------------------------------------
UserStep(p) ==
    \/ CheckOpen(p) \/ SelectSegment(p) \/ CreateFound(p) \/ CreateNew(p)
    \/ LoadRef(p) \/ AddRef(p)
    \/ InitializeOpen(p) \/ InitializeStore(p) \/ InitializeFail(p)
    \/ CreateTSTable(p) \/ Release(p)

DecRefStep(p) == DecRefCheck(p) \/ DecRefCAS(p) \/ PerformCleanup(p)

SweepStep(p) ==
    \/ SweepLoad(p) \/ SweepAdd(p)
    \/ VisitIdle(p) \/ VisitCollect(p) \/ VisitKeep(p) \/ VisitExpired(p)
    \/ RequestLock(p) \/ Unlist(p) \/ SweepRelease(p) \/ RemoveOldest(p) \/ ReleaseGate(p)

CloseStep(p) == StartClose(p) \/ CloseLock(p) \/ CloseDrain(p)

Next ==
    \/ Age
    \/ \E p \in Procs : UserStep(p) \/ DecRefStep(p) \/ SweepStep(p) \/ CloseStep(p)

\* A goroutine inside a call keeps running, and queries and sessions end; starting a
\* call is a choice, except for the idle closer, which a ticker starts again and again.
\* Go's mutexes hand over to a waiter, so the wait for s.mu ends: hence SF.
Fairness ==
    \A p \in Procs :
        /\ WF_vars((pc[p] = "start" => p \in IdleClosers)
                   /\ (UserStep(p) \/ DecRefStep(p) \/ SweepStep(p) \/ CloseStep(p)))
        /\ WF_vars(Release(p)) /\ SF_vars(PerformCleanup(p))

Spec == Init /\ [][Next]_vars
FairSpec == Spec /\ Fairness

----------------------------------------------------------------------------
(* Properties *)

Holders(g) == {p \in Users : pc[p] = "hold" /\ seg[p] = g}

\* A segment that can be used, and one that has something open to close: its index, or
\* tables that were opened for somebody who counted.
Ready(g) == index[g] /\ shards[g] = "open"
Loaded(g) == index[g] \/ (shards[g] = "open" /\ ~leaked[g])

\* A segment in the hands of a query or sync session is open: its index and
\* shards were not closed by the idle closer, retention or forced clean-up
\* (selectSegments/createSegment against DecRef and performCleanup).
HeldSegmentOpen ==
    ~closed => \A g \in Gen : Holders(g) # {} => Ready(g)

\* A segment removed by retention or forced clean-up is closed for good: at the
\* latest when the last query that uses it ends (delete, DecRef, performCleanup).
DeletedSegmentIsReclaimed ==
    \A g \in Gen : mustBeDeleted[g] ~> (~Loaded(g) /\ refCount[g] = 0)

\* No index and no table is left open behind the counter: what nobody counts is about
\* to be counted or closed by a goroutine that is inside initialize or DecRef.  The
\* exceptions are the tables a failed initialize leaves in sLst, and those that
\* CreateTSTableIfNotExist opens for a session whose reference the idle closer took.
NoOrphanIndex ==
    \A g \in Gen : Loaded(g) /\ refCount[g] <= 0 =>
        \E p \in Procs : seg[p] = g /\ pc[p] \in {"store", "cleanup"}

\* A segment that nobody asks for any more is eventually closed by the idle
\* closer, whatever references the races of its earlier life left behind, except for
\* the tables that were opened while nobody counted: closeIdleSegments does not see them.
IdleSegmentCloses ==
    \A g \in Gen : []<>(~idle[g]) \/ <>[](~Loaded(g))

\* database.Close closes the segment for good, whoever still uses it, so that the
\* directory can be opened again (segmentController.close).
CloseClosesSegment == closed ~> [](\A g \in Gen : ~Loaded(g))
=============================================================================
