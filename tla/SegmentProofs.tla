--------------------------- MODULE SegmentProofs ---------------------------
(***************************************************************************)
(* Proofs about Segment, for any number of goroutines of each kind and any *)
(* number of generations.                                                  *)
(***************************************************************************)
EXTENDS Segment, FiniteSetTheorems, TLAPS

\* A goroutine inside a call has a segment, and DecRef returns to its caller.
SegKnown ==
    \A p \in Procs :
        /\ ret[p] \in {"start", "done", "release", "unlist", "drain"}
        /\ \/ pc[p] \in {"start", "enter", "done"}
           \/ pc[p] = "lock" /\ p \in Closers
           \/ seg[p] \in Gen

OrphanInv == TypeOK /\ SegKnown /\ NoOrphanIndex

-----------------------------------------------------------------------------
(* No orphan index *)

\* A step of p, as the other goroutines see it.
OthersStay(p) == \A q \in Procs \ {p} : pc'[q] = pc[q] /\ seg'[q] = seg[q]

\* The counters stay what they are, and so do the places where a segment is
\* about to be counted or closed.
LEMMA OrphanFrame ==
    ASSUME OrphanInv, NEW p \in Procs, pc[p] \notin {"store", "cleanup"},
           OthersStay(p), UNCHANGED <<refCount, open>>
    PROVE  NoOrphanIndex'
BY DEF OrphanInv, NoOrphanIndex, Loaded, open, OthersStay

\* A call of a user.
LEMMA UserOrphan ==
    ASSUME OrphanInv, NEW p \in Procs, UserStep(p)
    PROVE  OrphanInv'
<1> USE DEF Goto, CallDecRef, counters, open, shared
<1>0. TypeOK /\ SegKnown /\ NoOrphanIndex
  BY Zenon DEF OrphanInv
<1>1. CASE CheckOpen(p)
  <2>1. TypeOK'
    BY Zenon, <1>0, <1>1 DEF TypeOK, SegKnown, CheckOpen, PCs
  <2>2. SegKnown'
    BY Zenon, <1>0, <1>1 DEF TypeOK, SegKnown, CheckOpen
  <2>3. pc[p] \notin {"store", "cleanup"} /\ OthersStay(p) /\ UNCHANGED <<refCount, open>>
    BY Zenon, <1>0, <1>1 DEF TypeOK, OthersStay, CheckOpen
  <2>4. NoOrphanIndex'
    BY Zenon, <2>3, OrphanFrame
  <2> QED BY Zenon, <2>1, <2>2, <2>4 DEF OrphanInv
<1>2. CASE SelectSegment(p)
  <2>1. TypeOK'
    BY ZenonT(30), <1>0, <1>2 DEF TypeOK, SegKnown, SelectSegment, Gen, PCs
  <2>2. SegKnown'
    <3>1. listed # 0 => listed \in Gen
      BY <1>0 DEF TypeOK, Gen
    <3> QED
      BY Zenon, <1>0, <1>2, <3>1 DEF TypeOK, SegKnown, SelectSegment
  <2>3. pc[p] \notin {"store", "cleanup"} /\ OthersStay(p) /\ UNCHANGED <<refCount, open>>
    BY Zenon, <1>0, <1>2 DEF TypeOK, OthersStay, SelectSegment
  <2>4. NoOrphanIndex'
    BY Zenon, <2>3, OrphanFrame
  <2> QED BY Zenon, <2>1, <2>2, <2>4 DEF OrphanInv
<1>3. CASE CreateFound(p)
  <2>1. TypeOK'
    BY Zenon, <1>0, <1>3 DEF TypeOK, SegKnown, CreateFound, Gen, PCs
  <2>2. SegKnown'
    BY <1>0, <1>3 DEF TypeOK, SegKnown, CreateFound, Gen
  <2>3. pc[p] \notin {"store", "cleanup"} /\ OthersStay(p) /\ UNCHANGED <<refCount, open>>
    BY Zenon, <1>0, <1>3 DEF TypeOK, OthersStay, CreateFound
  <2>4. NoOrphanIndex'
    BY Zenon, <2>3, OrphanFrame
  <2> QED BY Zenon, <2>1, <2>2, <2>4 DEF OrphanInv
<1>4. CASE CreateNew(p)
  <2>0. pc[p] = "enter" /\ UNCHANGED <<mu, gate, closed, ret>>
    BY Zenon, <1>4 DEF CreateNew
  <2>1. CASE /\ UNCHANGED <<counters, listed, gens, seg>>
             /\ pc' = [pc EXCEPT ![p] = "done"] \/ pc' = [pc EXCEPT ![p] = "start"]
             /\ dir' \in {dir, TRUE} /\ panicked' \in {panicked, TRUE}
    <3>1. TypeOK' /\ SegKnown'
      BY Zenon, <1>0, <2>0, <2>1 DEF TypeOK, SegKnown, PCs
    <3>2. pc[p] \notin {"store", "cleanup"} /\ OthersStay(p) /\ UNCHANGED <<refCount, open>>
      BY Zenon, <1>0, <2>0, <2>1 DEF TypeOK, OthersStay
    <3> QED
      BY Zenon, <3>1, <3>2, OrphanFrame DEF OrphanInv
  <2>2. CASE /\ gens < MaxGen /\ gens' = gens + 1 /\ listed' = gens + 1
             /\ refCount' = [refCount EXCEPT ![gens + 1] = 1]
             /\ index' = [index EXCEPT ![gens + 1] = TRUE]
             /\ seg' = [seg EXCEPT ![p] = gens + 1]
             /\ pc' = [pc EXCEPT ![p] = "load"] /\ dir' = TRUE
             /\ UNCHANGED <<shards, leaked, mustBeDeleted, idle, panicked>>
    <3>1. gens < MaxGen
      BY Zenon, <2>2
    <3>2. gens + 1 \in Gen /\ gens + 1 \in 0 .. MaxGen /\ 1 \in Nat
      BY <1>0, <3>1, SegmentAssumption DEF TypeOK, Gen
    <3>3. TypeOK'
      BY ZenonT(30), <1>0, <2>0, <2>2, <3>2 DEF TypeOK, PCs
    <3>4. SegKnown'
      BY Zenon, <1>0, <2>0, <2>2, <3>2 DEF TypeOK, SegKnown
    <3>5. NoOrphanIndex'
      BY <1>0, <2>0, <2>2, <3>2 DEF TypeOK, NoOrphanIndex, Loaded
    <3> QED
      BY Zenon, <3>3, <3>4, <3>5 DEF OrphanInv
  <2> QED BY Zenon, <1>4, <2>1, <2>2 DEF CreateNew
<1>5. CASE LoadRef(p)
  <2>1. TypeOK'
    BY Zenon, <1>0, <1>5 DEF TypeOK, SegKnown, LoadRef, PCs
  <2>2. SegKnown'
    BY Zenon, <1>0, <1>5 DEF TypeOK, SegKnown, LoadRef
  <2>3. pc[p] \notin {"store", "cleanup"} /\ OthersStay(p) /\ UNCHANGED <<refCount, open>>
    BY Zenon, <1>0, <1>5 DEF TypeOK, OthersStay, LoadRef
  <2>4. NoOrphanIndex'
    BY Zenon, <2>3, OrphanFrame
  <2> QED BY Zenon, <2>1, <2>2, <2>4 DEF OrphanInv
<1>6. CASE AddRef(p)
  <2>1. TypeOK'
    BY <1>0, <1>6 DEF TypeOK, SegKnown, AddRef, PCs
  <2>2. SegKnown'
    BY Zenon, <1>0, <1>6 DEF TypeOK, SegKnown, AddRef
  <2>3. NoOrphanIndex'
    BY <1>0, <1>6 DEF TypeOK, SegKnown, NoOrphanIndex, Loaded, AddRef
  <2> QED BY Zenon, <2>1, <2>2, <2>3 DEF OrphanInv
<1>7. CASE InitializeOpen(p)
  <2>1. TypeOK'
    BY Zenon, <1>0, <1>7 DEF TypeOK, SegKnown, InitializeOpen, PCs
  <2>2. SegKnown'
    BY Zenon, <1>0, <1>7 DEF TypeOK, SegKnown, InitializeOpen
  <2>3. CASE UNCHANGED index
    <3>1. pc[p] \notin {"store", "cleanup"} /\ OthersStay(p) /\ UNCHANGED <<refCount, open>>
      BY Zenon, <1>0, <1>7, <2>3 DEF TypeOK, OthersStay, InitializeOpen
    <3> QED
      BY Zenon, <2>1, <2>2, <3>1, OrphanFrame DEF OrphanInv
  <2>4. CASE ~UNCHANGED index
    <3>1. /\ index' = [index EXCEPT ![seg[p]] = TRUE] /\ UNCHANGED <<refCount, shards, leaked, seg>>
          /\ pc' = [pc EXCEPT ![p] = "store"] /\ pc[p] = "init"
      BY Zenon, <1>7, <2>4 DEF InitializeOpen
    <3>2. NoOrphanIndex'
      BY <1>0, <3>1 DEF TypeOK, NoOrphanIndex, Loaded
    <3> QED
      BY Zenon, <2>1, <2>2, <3>2 DEF OrphanInv
  <2> QED BY Zenon, <2>3, <2>4
<1>8. CASE InitializeStore(p)
  <2>0. seg[p] \in Gen /\ 1 \in Nat /\ None \in Procs \cup {None}
    BY Zenon, <1>0, <1>8, SegmentAssumption DEF SegKnown, InitializeStore
  <2>1. LoadShards(seg[p]) \in {"empty", "open", "closed"}
    BY Zenon, <1>0, <2>0 DEF TypeOK, LoadShards
  <2>2. TypeOK'
    BY ZenonT(30), <1>0, <1>8, <2>0, <2>1 DEF TypeOK, InitializeStore, PCs
  <2>3. SegKnown'
    BY Zenon, <1>0, <1>8 DEF TypeOK, SegKnown, InitializeStore
  <2>4. NoOrphanIndex'
    BY <1>0, <1>8, <2>0 DEF TypeOK, NoOrphanIndex, Loaded, InitializeStore
  <2> QED BY Zenon, <2>2, <2>3, <2>4 DEF OrphanInv
<1>9. CASE InitializeFail(p)
  <2>0. seg[p] \in Gen /\ pc[p] = "store"
    BY Zenon, <1>0, <1>9 DEF SegKnown, InitializeFail
  <2>1. PICK loaded \in {shards[seg[p]], LoadShards(seg[p])} :
          /\ shards' = [shards EXCEPT ![seg[p]] = loaded]
          /\ leaked' = [leaked EXCEPT ![seg[p]] = (loaded = "open")]
    BY Zenon, <1>9 DEF InitializeFail
  <2>2. loaded \in {"empty", "open", "closed"} /\ (loaded = "open") \in BOOLEAN
    BY Zenon, <1>0, <2>0 DEF TypeOK, LoadShards
  <2>3. /\ index' = [index EXCEPT ![seg[p]] = FALSE] /\ mu' = None
        /\ pc' = [pc EXCEPT ![p] = "start"]
        /\ UNCHANGED <<refCount, mustBeDeleted, idle, listed, gens, dir, gate, closed, panicked,
                       seg, ret>>
    BY Zenon, <1>9 DEF InitializeFail
  <2>4. TypeOK'
    BY ZenonT(30), <1>0, <2>0, <2>1, <2>2, <2>3 DEF TypeOK, PCs
  <2>5. SegKnown'
    BY Zenon, <1>0, <2>3 DEF TypeOK, SegKnown
  <2>6. ~Loaded(seg[p])'
    BY <1>0, <2>0, <2>1, <2>3 DEF TypeOK, Loaded
  <2>7. ASSUME NEW g \in Gen, g # seg[p]
        PROVE  Loaded(g)' => Loaded(g)
    BY <1>0, <2>1, <2>3, <2>7 DEF TypeOK, Loaded
  <2>8. NoOrphanIndex'
    BY <1>0, <2>0, <2>3, <2>6, <2>7 DEF TypeOK, NoOrphanIndex
  <2> QED BY Zenon, <2>4, <2>5, <2>8 DEF OrphanInv
<1>10. CASE Release(p)
  <2>1. TypeOK'
    BY Zenon, <1>0, <1>10 DEF TypeOK, SegKnown, Release, PCs
  <2>2. SegKnown'
    BY Zenon, <1>0, <1>10 DEF TypeOK, SegKnown, Release
  <2>3. pc[p] \notin {"store", "cleanup"} /\ OthersStay(p) /\ UNCHANGED <<refCount, open>>
    BY Zenon, <1>0, <1>10 DEF TypeOK, OthersStay, Release
  <2>4. NoOrphanIndex'
    BY Zenon, <2>3, OrphanFrame
  <2> QED BY Zenon, <2>1, <2>2, <2>4 DEF OrphanInv
<1>11. CASE CreateTSTable(p)
  <2>0. seg[p] \in Gen
    BY Zenon, <1>0, <1>11 DEF SegKnown, CreateTSTable
  <2>1. TypeOK'
    <3>1. (refCount[seg[p]] <= 0) \in BOOLEAN
      BY <1>0, <2>0 DEF TypeOK
    <3>2. shards' \in [Gen -> {"empty", "open", "closed"}] /\ leaked' \in [Gen -> BOOLEAN]
      BY Zenon, <1>0, <1>11, <2>0, <3>1 DEF TypeOK, CreateTSTable
    <3> QED
      BY Zenon, <1>0, <1>11, <3>2 DEF TypeOK, CreateTSTable
  <2>2. SegKnown'
    BY Zenon, <1>0, <1>11 DEF SegKnown, CreateTSTable
  <2>3. NoOrphanIndex'
    BY <1>0, <1>11, <2>0 DEF TypeOK, NoOrphanIndex, Loaded, CreateTSTable
  <2> QED BY Zenon, <2>1, <2>2, <2>3 DEF OrphanInv
<1> QED
  BY Zenon, <1>1, <1>2, <1>3, <1>4, <1>5, <1>6, <1>7, <1>8, <1>9, <1>10, <1>11 DEF UserStep

\* DecRef and performCleanup.
LEMMA DecRefOrphan ==
    ASSUME OrphanInv, NEW p \in Procs, DecRefStep(p)
    PROVE  OrphanInv'
<1> USE DEF Goto, counters, open, shared
<1>0. TypeOK /\ SegKnown /\ NoOrphanIndex
  BY Zenon DEF OrphanInv
<1>1. CASE DecRefCheck(p)
  <2>1. TypeOK'
    BY Zenon, <1>0, <1>1 DEF TypeOK, SegKnown, DecRefCheck, PCs
  <2>2. SegKnown'
    BY Zenon, <1>0, <1>1 DEF TypeOK, SegKnown, DecRefCheck
  <2>3. pc[p] \notin {"store", "cleanup"} /\ OthersStay(p) /\ UNCHANGED <<refCount, open>>
    BY Zenon, <1>0, <1>1 DEF TypeOK, OthersStay, DecRefCheck
  <2>4. NoOrphanIndex'
    BY Zenon, <2>3, OrphanFrame
  <2> QED BY Zenon, <2>1, <2>2, <2>4 DEF OrphanInv
<1>2. CASE DecRefCAS(p)
  <2>1. TypeOK'
    BY <1>0, <1>2 DEF TypeOK, SegKnown, DecRefCAS, PCs
  <2>2. SegKnown'
    BY Zenon, <1>0, <1>2 DEF TypeOK, SegKnown, DecRefCAS
  <2>3. NoOrphanIndex'
    BY <1>0, <1>2 DEF TypeOK, SegKnown, NoOrphanIndex, Loaded, DecRefCAS
  <2> QED BY Zenon, <2>1, <2>2, <2>3 DEF OrphanInv
<1>3. CASE PerformCleanup(p)
  <2>1. TypeOK'
    BY Zenon, <1>0, <1>3 DEF TypeOK, SegKnown, PerformCleanup, PCs
  <2>2. SegKnown'
    BY Zenon, <1>0, <1>3 DEF TypeOK, SegKnown, PerformCleanup
  <2>3. NoOrphanIndex'
    BY <1>0, <1>3 DEF TypeOK, SegKnown, NoOrphanIndex, Loaded, PerformCleanup
  <2> QED BY Zenon, <2>1, <2>2, <2>3 DEF OrphanInv
<1> QED BY Zenon, <1>1, <1>2, <1>3 DEF DecRefStep

\* The maintenance loops.
LEMMA SweepOrphan ==
    ASSUME OrphanInv, NEW p \in Procs, SweepStep(p)
    PROVE  OrphanInv'
<1> USE DEF Goto, CallDecRef, counters, open, shared
<1>0. TypeOK /\ SegKnown /\ NoOrphanIndex
  BY Zenon DEF OrphanInv
<1>1. CASE SweepLoad(p)
  <2>1. TypeOK'
    BY Zenon, <1>0, <1>1 DEF TypeOK, SegKnown, SweepLoad, Gen, TakeGate, PCs
  <2>2. SegKnown'
    BY <1>0, <1>1 DEF TypeOK, SegKnown, SweepLoad, Gen, TakeGate
  <2>3. pc[p] \notin {"store", "cleanup"} /\ OthersStay(p) /\ UNCHANGED <<refCount, open>>
    BY Zenon, <1>0, <1>1 DEF TypeOK, OthersStay, SweepLoad
  <2>4. NoOrphanIndex'
    BY Zenon, <2>3, OrphanFrame
  <2> QED BY Zenon, <2>1, <2>2, <2>4 DEF OrphanInv
<1>2. CASE SweepAdd(p)
  <2>1. TypeOK'
    BY <1>0, <1>2 DEF TypeOK, SegKnown, SweepAdd, PCs
  <2>2. SegKnown'
    BY Zenon, <1>0, <1>2 DEF TypeOK, SegKnown, SweepAdd
  <2>3. NoOrphanIndex'
    BY <1>0, <1>2 DEF TypeOK, SegKnown, NoOrphanIndex, Loaded, SweepAdd
  <2> QED BY Zenon, <2>1, <2>2, <2>3 DEF OrphanInv
<1>3. CASE VisitIdle(p)
  <2>1. TypeOK'
    BY Zenon, <1>0, <1>3 DEF TypeOK, SegKnown, VisitIdle, PCs
  <2>2. SegKnown'
    BY Zenon, <1>0, <1>3 DEF TypeOK, SegKnown, VisitIdle
  <2>3. pc[p] \notin {"store", "cleanup"} /\ OthersStay(p) /\ UNCHANGED <<refCount, open>>
    BY Zenon, <1>0, <1>3 DEF TypeOK, OthersStay, VisitIdle
  <2>4. NoOrphanIndex'
    BY Zenon, <2>3, OrphanFrame
  <2> QED BY Zenon, <2>1, <2>2, <2>4 DEF OrphanInv
<1>4. CASE VisitCollect(p)
  <2>1. TypeOK'
    BY Zenon, <1>0, <1>4 DEF TypeOK, SegKnown, VisitCollect, PCs
  <2>2. SegKnown'
    BY Zenon, <1>0, <1>4 DEF TypeOK, SegKnown, VisitCollect
  <2>3. pc[p] \notin {"store", "cleanup"} /\ OthersStay(p) /\ UNCHANGED <<refCount, open>>
    BY Zenon, <1>0, <1>4 DEF TypeOK, OthersStay, VisitCollect
  <2>4. NoOrphanIndex'
    BY Zenon, <2>3, OrphanFrame
  <2> QED BY Zenon, <2>1, <2>2, <2>4 DEF OrphanInv
<1>5. CASE VisitKeep(p)
  <2>1. TypeOK'
    BY Zenon, <1>0, <1>5 DEF TypeOK, SegKnown, VisitKeep, PCs
  <2>2. SegKnown'
    BY Zenon, <1>0, <1>5 DEF TypeOK, SegKnown, VisitKeep
  <2>3. pc[p] \notin {"store", "cleanup"} /\ OthersStay(p) /\ UNCHANGED <<refCount, open>>
    BY Zenon, <1>0, <1>5 DEF TypeOK, OthersStay, VisitKeep
  <2>4. NoOrphanIndex'
    BY Zenon, <2>3, OrphanFrame
  <2> QED BY Zenon, <2>1, <2>2, <2>4 DEF OrphanInv
<1>6. CASE VisitExpired(p)
  <2>1. TypeOK'
    BY Zenon, <1>0, <1>6 DEF TypeOK, SegKnown, VisitExpired, PCs
  <2>2. SegKnown'
    BY Zenon, <1>0, <1>6 DEF TypeOK, SegKnown, VisitExpired
  <2>3. pc[p] \notin {"store", "cleanup"} /\ OthersStay(p) /\ UNCHANGED <<refCount, open>>
    BY Zenon, <1>0, <1>6 DEF TypeOK, OthersStay, VisitExpired
  <2>4. NoOrphanIndex'
    BY Zenon, <2>3, OrphanFrame
  <2> QED BY Zenon, <2>1, <2>2, <2>4 DEF OrphanInv
<1>7. CASE RequestLock(p)
  <2>1. TypeOK'
    BY Zenon, <1>0, <1>7 DEF TypeOK, SegKnown, RequestLock, PCs
  <2>2. SegKnown'
    BY Zenon, <1>0, <1>7 DEF TypeOK, SegKnown, RequestLock
  <2>3. pc[p] \notin {"store", "cleanup"} /\ OthersStay(p) /\ UNCHANGED <<refCount, open>>
    BY Zenon, <1>0, <1>7 DEF TypeOK, OthersStay, RequestLock
  <2>4. NoOrphanIndex'
    BY Zenon, <2>3, OrphanFrame
  <2> QED BY Zenon, <2>1, <2>2, <2>4 DEF OrphanInv
<1>8. CASE Unlist(p)
  <2>1. TypeOK'
    BY <1>0, <1>8, SegmentAssumption DEF TypeOK, SegKnown, Unlist, Sweepers, Deleters, PCs
  <2>2. SegKnown'
    BY Zenon, <1>0, <1>8, SegmentAssumption DEF TypeOK, SegKnown, Unlist, Sweepers, Deleters
  <2>3. pc[p] \notin {"store", "cleanup"} /\ OthersStay(p) /\ UNCHANGED <<refCount, open>>
    BY Zenon, <1>0, <1>8 DEF TypeOK, OthersStay, Unlist
  <2>4. NoOrphanIndex'
    BY Zenon, <2>3, OrphanFrame
  <2> QED BY Zenon, <2>1, <2>2, <2>4 DEF OrphanInv
<1>9. CASE SweepRelease(p)
  <2>1. TypeOK'
    BY Zenon, <1>0, <1>9 DEF TypeOK, SegKnown, SweepRelease, PCs
  <2>2. SegKnown'
    BY Zenon, <1>0, <1>9 DEF TypeOK, SegKnown, SweepRelease
  <2>3. pc[p] \notin {"store", "cleanup"} /\ OthersStay(p) /\ UNCHANGED <<refCount, open>>
    BY Zenon, <1>0, <1>9 DEF TypeOK, OthersStay, SweepRelease
  <2>4. NoOrphanIndex'
    BY Zenon, <2>3, OrphanFrame
  <2> QED BY Zenon, <2>1, <2>2, <2>4 DEF OrphanInv
<1>10. CASE RemoveOldest(p)
  <2>1. TypeOK'
    BY Zenon, <1>0, <1>10 DEF TypeOK, SegKnown, RemoveOldest, Gen, TakeGate, PCs
  <2>2. SegKnown'
    BY <1>0, <1>10 DEF TypeOK, SegKnown, RemoveOldest, Gen, TakeGate
  <2>3. pc[p] \notin {"store", "cleanup"} /\ OthersStay(p) /\ UNCHANGED <<refCount, open>>
    BY Zenon, <1>0, <1>10 DEF TypeOK, OthersStay, RemoveOldest
  <2>4. NoOrphanIndex'
    BY Zenon, <2>3, OrphanFrame
  <2> QED BY Zenon, <2>1, <2>2, <2>4 DEF OrphanInv
<1>11. CASE ReleaseGate(p)
  <2>1. TypeOK'
    BY Zenon, <1>0, <1>11 DEF TypeOK, SegKnown, ReleaseGate, PCs
  <2>2. SegKnown'
    BY Zenon, <1>0, <1>11 DEF TypeOK, SegKnown, ReleaseGate
  <2>3. pc[p] \notin {"store", "cleanup"} /\ OthersStay(p) /\ UNCHANGED <<refCount, open>>
    BY Zenon, <1>0, <1>11 DEF TypeOK, OthersStay, ReleaseGate
  <2>4. NoOrphanIndex'
    BY Zenon, <2>3, OrphanFrame
  <2> QED BY Zenon, <2>1, <2>2, <2>4 DEF OrphanInv
<1> QED BY Zenon, <1>1, <1>2, <1>3, <1>4, <1>5, <1>6, <1>7, <1>8, <1>9, <1>10, <1>11 DEF SweepStep

\* database.Close.
LEMMA CloseOrphan ==
    ASSUME OrphanInv, NEW p \in Procs, CloseStep(p)
    PROVE  OrphanInv'
<1> USE DEF Goto, CallDecRef, counters, open, shared
<1>0. TypeOK /\ SegKnown /\ NoOrphanIndex
  BY Zenon DEF OrphanInv
<1>1. CASE StartClose(p)
  <2>1. TypeOK'
    BY Zenon, <1>0, <1>1 DEF TypeOK, SegKnown, StartClose, PCs
  <2>2. SegKnown'
    BY Zenon, <1>0, <1>1 DEF TypeOK, SegKnown, StartClose
  <2>3. pc[p] \notin {"store", "cleanup"} /\ OthersStay(p) /\ UNCHANGED <<refCount, open>>
    BY Zenon, <1>0, <1>1 DEF TypeOK, OthersStay, StartClose
  <2>4. NoOrphanIndex'
    BY Zenon, <2>3, OrphanFrame
  <2> QED BY Zenon, <2>1, <2>2, <2>4 DEF OrphanInv
<1>2. CASE CloseLock(p)
  <2>1. TypeOK'
    BY Zenon, <1>0, <1>2 DEF TypeOK, SegKnown, CloseLock, Gen, PCs
  <2>2. SegKnown'
    BY <1>0, <1>2 DEF TypeOK, SegKnown, CloseLock, Gen
  <2>3. pc[p] \notin {"store", "cleanup"} /\ OthersStay(p) /\ UNCHANGED <<refCount, open>>
    BY Zenon, <1>0, <1>2 DEF TypeOK, OthersStay, CloseLock
  <2>4. NoOrphanIndex'
    BY Zenon, <2>3, OrphanFrame
  <2> QED BY Zenon, <2>1, <2>2, <2>4 DEF OrphanInv
<1>3. CASE CloseDrain(p)
  <2>1. TypeOK'
    <3>1. CASE refCount[seg[p]] > 0
      BY Zenon, <1>0, <1>3, <3>1 DEF TypeOK, CloseDrain, PCs
    <3>2. CASE ~(refCount[seg[p]] > 0)
      <4>1. 0 \in 0 .. MaxGen
        BY SegmentAssumption
      <4> QED
        BY Zenon, <1>0, <1>3, <3>2, <4>1 DEF TypeOK, CloseDrain, PCs
    <3> QED
      BY Zenon, <3>1, <3>2
  <2>2. SegKnown'
    BY Zenon, <1>0, <1>3 DEF TypeOK, SegKnown, CloseDrain
  <2>3. pc[p] \notin {"store", "cleanup"} /\ OthersStay(p) /\ UNCHANGED <<refCount, open>>
    BY Zenon, <1>0, <1>3 DEF TypeOK, OthersStay, CloseDrain
  <2>4. NoOrphanIndex'
    BY Zenon, <2>3, OrphanFrame
  <2> QED BY Zenon, <2>1, <2>2, <2>4 DEF OrphanInv
<1> QED BY Zenon, <1>1, <1>2, <1>3 DEF CloseStep

\* Every step keeps the invariant.
LEMMA NextOrphan ==
    ASSUME OrphanInv, [Next]_vars
    PROVE  OrphanInv'
<1>1. CASE Age
  BY Zenon, <1>1 DEF Age, OrphanInv, TypeOK, SegKnown, NoOrphanIndex, Loaded, open, shared, Gen
<1>2. CASE UNCHANGED vars
  BY Zenon, <1>2 DEF vars, counters, open, OrphanInv, TypeOK, SegKnown, NoOrphanIndex, Loaded
<1> QED
  BY Zenon, <1>1, <1>2, UserOrphan, DecRefOrphan, SweepOrphan, CloseOrphan DEF Next

\* The invariant holds at the start.
LEMMA InitOrphan ==
    ASSUME Init
    PROVE  OrphanInv
<1>1. listed \in 0 .. MaxGen /\ 0 \in 0 .. MaxGen /\ 0 \in Nat /\ 1 \in Nat /\ ~(1 <= 0)
  BY SegmentAssumption DEF Init
<1>2. TypeOK
  BY Zenon, <1>1 DEF Init, TypeOK, PCs
<1>3. SegKnown
  BY Zenon DEF Init, SegKnown
<1>4. NoOrphanIndex
  BY Zenon, <1>1 DEF Init, NoOrphanIndex, Loaded
<1> QED
  BY Zenon, <1>2, <1>3, <1>4 DEF OrphanInv

\* No index stays open behind the counter of its segment, whatever goroutines
\* enter, leave, re-open, delete or close it, and whatever fails to open: one
\* that nobody counts is about to be counted by initialize or closed by
\* performCleanup.  The same holds of the tables, except for those that a failed
\* initialize or a session without its reference opened.
THEOREM NoOrphanIndexes == Spec => []NoOrphanIndex
<1>1. OrphanInv /\ [Next]_vars => OrphanInv'
  BY Zenon, NextOrphan
<1>2. OrphanInv => NoOrphanIndex
  BY Zenon DEF OrphanInv
<1> QED
  BY InitOrphan, <1>1, <1>2, PTL DEF Spec

-----------------------------------------------------------------------------
(* A held segment is open *)

\* A stage that keeps its segments open: queries, metrics, retention and forced
\* clean-up, but no idle closer, sync session or lifecycle service.
KeptOpen == Creators = {} /\ IdleClosers = {} /\ Expirers = {}

\* p has the segment and has not counted itself yet.
Entering(p) == pc[p] \in {"load", "add", "tryadd"}
\* p counted itself and has not given that back.
Owning(p) == /\ p \in Procs \ (Oldests \cup Closers)
             /\ pc[p] \in {"hold", "visit", "unlist", "lock", "release", "dec", "cas"}
\* p is in delete, about to give up the reference the segment started with.
Deleting(p) == p \in Retainers \cup Oldests /\ pc[p] \in {"dec", "cas"} /\ ret[p] = "unlist"
\* p gave it up and has not taken the segment off the list.
Reclaiming(p) == \/ p \in Retainers /\ pc[p] \in {"unlist", "lock"}
                 \/ p \in Oldests /\ pc[p] \in {"cleanup", "unlist"}
\* p is inside removeOldest, with the write lock.
Evicting(p) == p \in Oldests /\ pc[p] \in {"dec", "cas", "cleanup", "unlist"}

Owners == {p \in Procs : Owning(p)}
Quiesced == \A p \in Procs : ~Entering(p)
\* The reference the segment started with is still counted.
Base == gens = 1 /\ (mustBeDeleted[1] => \E p \in Procs : Deleting(p))

\* Where p can be.
Place(p) ==
    /\ seg[p] \in {0, gens}
    /\ pc[p] \notin {"start", "enter", "done"} => seg[p] = 1
    /\ p \in Closers => pc[p] = "start"
    /\ p \in Selectors =>
         /\ pc[p] \in {"start", "enter", "load", "add", "hold", "dec", "cas", "cleanup", "done"}
         /\ pc[p] \in {"dec", "cas", "cleanup"} => ret[p] = "start"
    /\ p \in Collectors =>
         /\ pc[p] \in {"start", "tryadd", "visit", "dec", "cas", "cleanup"}
         /\ pc[p] \in {"dec", "cas", "cleanup"} => ret[p] = "start"
    /\ p \in Retainers =>
         /\ pc[p] \in {"start", "tryadd", "visit", "unlist", "lock", "release", "dec", "cas",
                       "cleanup", "done"}
         /\ pc[p] \in {"dec", "cas"} => ret[p] \in {"unlist", "done"}
         /\ pc[p] = "cleanup" => ret[p] = "done"
    /\ p \in Oldests =>
         /\ pc[p] \in {"start", "dec", "cas", "cleanup", "unlist", "done"}
         /\ pc[p] \in {"dec", "cas", "cleanup"} => ret[p] = "unlist"

Places == gens \in {0, 1} /\ listed \in {0, gens} /\ \A p \in Procs : Place(p)

\* retentionGate admits one deletion at a time.
Gated == \A p \in Retainers \cup Oldests : pc[p] # "start" => gate = p

\* A deletion starts on a listed segment, and nobody enters an unlisted one.
Locked ==
    /\ \A p \in Procs : Evicting(p) => listed = 1 /\ Quiesced
    /\ listed = 0 => Quiesced
    /\ \A p \in Procs : Deleting(p) => mustBeDeleted[1]
    /\ listed = 1 /\ mustBeDeleted[1] => \E p \in Procs : Deleting(p) \/ Reclaiming(p)
    /\ \A p \in Retainers : pc[p] = "visit" => listed = 1

\* The counter covers those who count on it, and the last one out cleans up.
Counted ==
    /\ refCount[1] >= Cardinality(Owners)
    /\ Base => refCount[1] >= Cardinality(Owners) + 1
    /\ Base \/ Owners # {} => Ready(1)
    /\ (\E p \in Procs : pc[p] = "cleanup") =>
         /\ ~Base /\ Owners = {} /\ Quiesced
         /\ listed = 0 \/ \E p \in Oldests : Reclaiming(p)

Steady == Places /\ Gated /\ Locked /\ Counted
OpenInv == OrphanInv /\ (~closed => Steady)

\* Only p moves.
Moves(p) == \A q \in Procs : q # p => pc'[q] = pc[q] /\ seg'[q] = seg[q] /\ ret'[q] = ret[q]

\* p takes a step that counts nothing.
Quiet(p) ==
    /\ Moves(p) /\ UNCHANGED <<refCount, open, mustBeDeleted, listed, gens>>
    /\ Owning(p)' <=> Owning(p)
    /\ Deleting(p)' <=> Deleting(p)
    /\ Reclaiming(p)' <=> Reclaiming(p)
    /\ Evicting(p)' <=> Evicting(p)
    /\ Entering(p)' => Entering(p)
    /\ pc'[p] # "cleanup"
    /\ p \in Retainers /\ pc'[p] = "visit" => pc[p] = "visit"

\* Which goroutines there are.
LEMMA Tasks ==
    ASSUME KeptOpen
    PROVE  /\ Users = Selectors /\ Deleters = Retainers
           /\ Sweepers = Retainers \cup Collectors
           /\ Procs = Selectors \cup Retainers \cup Collectors \cup Oldests \cup Closers
           /\ \A p \in Selectors : p \notin Retainers \cup Collectors \cup Oldests \cup Closers
           /\ \A p \in Retainers : p \notin Collectors \cup Oldests \cup Closers
           /\ \A p \in Collectors : p \notin Oldests \cup Closers
           /\ \A p \in Oldests : p \notin Closers
           /\ None \notin Procs /\ 1 \in Gen
BY SegmentAssumption DEF KeptOpen, Users, Deleters, Sweepers, Procs, Gen

\* What the goroutines that do not move are doing.
LEMMA OthersKeep ==
    ASSUME NEW p \in Procs, Moves(p)
    PROVE  \A q \in Procs : q # p =>
             /\ Owning(q)' <=> Owning(q)
             /\ Deleting(q)' <=> Deleting(q)
             /\ Reclaiming(q)' <=> Reclaiming(q)
             /\ Evicting(q)' <=> Evicting(q)
             /\ Entering(q)' <=> Entering(q)
BY Zenon DEF Moves, Owning, Deleting, Reclaiming, Evicting, Entering

\* Where the goroutines can be depends on the one that moves.
LEMMA PlacesFrame ==
    ASSUME Places, NEW p \in Procs, Moves(p), gens' = gens, listed' \in {0, gens}, Place(p)'
    PROVE  Places'
<1>1. ASSUME NEW q \in Procs, q # p
      PROVE  Place(q)'
  BY Zenon, <1>1 DEF Places, Place, Moves
<1> QED
  BY Zenon, <1>1 DEF Places

\* The gate is kept by the goroutine that holds it.
LEMMA GatedFrame ==
    ASSUME Gated, NEW p \in Procs, Moves(p), gate' = gate, KeptOpen,
           p \in Retainers \cup Oldests => pc[p] # "start"
    PROVE  Gated'
BY Zenon, Tasks DEF Gated, Moves

\* A quiet step.
LEMMA QuietStep ==
    ASSUME Locked, Counted, NEW p \in Procs, Quiet(p), KeptOpen
    PROVE  Locked' /\ Counted'
<1>0. /\ Moves(p) /\ UNCHANGED <<refCount, open, mustBeDeleted, listed, gens>>
  BY Zenon DEF Quiet
<1>1. \A q \in Procs : /\ Owning(q)' <=> Owning(q)
                       /\ Deleting(q)' <=> Deleting(q)
                       /\ Reclaiming(q)' <=> Reclaiming(q)
                       /\ Evicting(q)' <=> Evicting(q)
                       /\ Entering(q)' => Entering(q)
                       /\ pc'[q] = "cleanup" => pc[q] = "cleanup"
                       /\ q \in Retainers /\ pc'[q] = "visit" => pc[q] = "visit"
  BY Zenon, <1>0, OthersKeep DEF Quiet, Moves
<1>2. Owners' = Owners
  BY Zenon, <1>1 DEF Owners
<1>3. Quiesced => Quiesced'
  BY Zenon, <1>1 DEF Quiesced
<1>4. Base' <=> Base
  BY Zenon, <1>0, <1>1 DEF Base
<1>5. Locked'
  BY Zenon, <1>0, <1>1, <1>3, Tasks DEF Locked
<1>6. Counted'
  BY Zenon, <1>0, <1>1, <1>2, <1>3, <1>4, Tasks DEF Counted, Ready, open
<1> QED
  BY Zenon, <1>5, <1>6

\* The goroutines are finitely many, so their counts are numbers.
LEMMA OwnersCount ==
    /\ IsFiniteSet(Owners) /\ Cardinality(Owners) \in Nat
    /\ Owners # {} => Cardinality(Owners) >= 1
    /\ Cardinality(Owners) = 0 => Owners = {}
    /\ \A p \in Owners : Cardinality(Owners) = 1 => Owners = {p}
    /\ \A p \in Owners : Cardinality(Owners \ {p}) = Cardinality(Owners) - 1
    /\ \A p : p \notin Owners => Cardinality(Owners \cup {p}) = Cardinality(Owners) + 1
<1>1. IsFiniteSet(Owners)
  BY Zenon, SegmentAssumption, FS_Subset DEF Owners
<1>2. Cardinality(Owners) \in Nat /\ (Cardinality(Owners) = 0 <=> Owners = {})
  BY Zenon, <1>1, FS_CardinalityType, FS_EmptySet
<1>3. Owners # {} => Cardinality(Owners) >= 1
  BY <1>2
<1>4. ASSUME NEW p \in Owners, Cardinality(Owners) = 1
      PROVE  Owners = {p}
  <2>1. Cardinality(Owners \ {p}) = Cardinality(Owners) - 1 /\ IsFiniteSet(Owners \ {p})
    BY Zenon, <1>1, FS_RemoveElement
  <2>2. Cardinality(Owners \ {p}) = 0
    BY <1>4, <2>1
  <2>3. Owners \ {p} = {}
    BY Zenon, <2>1, <2>2, FS_EmptySet
  <2> QED
    BY Zenon, <2>3
<1> QED
  BY Zenon, <1>1, <1>2, <1>3, <1>4, FS_RemoveElement, FS_AddElement

\* A segment that somebody counts on has a positive counter.
LEMMA CountedPositive ==
    ASSUME TypeOK, KeptOpen, Counted, Base \/ Owners # {}
    PROVE  refCount[1] \in Nat /\ refCount[1] > 0 /\ ~(refCount[1] <= 0)
<1>1. refCount[1] \in Nat
  BY Zenon, Tasks DEF TypeOK
<1>2. refCount[1] >= Cardinality(Owners) /\ (Base => refCount[1] >= Cardinality(Owners) + 1)
  BY Zenon DEF Counted
<1>3. Cardinality(Owners) \in Nat /\ (Owners # {} => Cardinality(Owners) >= 1)
  BY Zenon, OwnersCount
<1> QED
  BY <1>1, <1>2, <1>3

\* A listed segment that is not being evicted is open and counted.
LEMMA ListedCounted ==
    ASSUME KeptOpen, Places, Locked, Counted, listed = 1, \A p \in Procs : ~Evicting(p)
    PROVE  /\ Base \/ Owners # {}
           /\ \A p \in Procs : pc[p] # "cleanup"
<1>1. gens = 1 /\ listed # 0
  BY DEF Places
<1>2. ASSUME mustBeDeleted[1], \A p \in Procs : ~Deleting(p)
      PROVE  Owners # {}
  <2>1. PICK p \in Procs : Reclaiming(p)
    BY Zenon, <1>2 DEF Locked
  <2>2. p \in Retainers /\ pc[p] \in {"unlist", "lock"}
    BY Zenon, <2>1 DEF Reclaiming, Evicting
  <2>3. p \in Owners
    BY Zenon, <2>2, Tasks DEF Owners, Owning
  <2> QED
    BY Zenon, <2>3
<1>3. Base \/ Owners # {}
  BY Zenon, <1>1, <1>2 DEF Base
<1> QED
  BY Zenon, <1>3, <1>1 DEF Counted

\* Whoever is about to count itself finds the segment listed and open.
LEMMA EnteringCounted ==
    ASSUME KeptOpen, Places, Locked, Counted, NEW q \in Procs, Entering(q)
    PROVE  /\ listed = 1 /\ listed # 0 /\ (Base \/ Owners # {})
           /\ \A p \in Procs : pc[p] # "cleanup" /\ ~Evicting(p)
<1>1. ~Quiesced
  BY Zenon DEF Quiesced
<1>2. listed = 1 /\ listed # 0
  BY Zenon, <1>1 DEF Locked, Places
<1>3. \A p \in Procs : ~Evicting(p)
  BY Zenon, <1>1 DEF Locked
<1> QED
  BY Zenon, <1>2, <1>3, ListedCounted

\* removeOldest has not given the first reference up before its DecRef.
LEMMA OldestBase ==
    ASSUME Places, NEW p \in Procs, p \in Retainers \cup Oldests, Deleting(p)
    PROVE  Base
<1>1. seg[p] = 1 /\ seg[p] \in {0, gens}
  BY Zenon DEF Places, Place, Deleting
<1>2. gens = 1
  BY <1>1
<1> QED
  BY Zenon, <1>2 DEF Base

\* The write lock is free of removeOldest whenever a reader or another writer gets it.
LEMMA NotEvicting ==
    ASSUME WLocked = {}
    PROVE  \A p \in Procs : ~Evicting(p)
BY Zenon DEF WLocked, Evicting

\* Steps that count nothing.
LEMMA QuietOpen ==
    ASSUME KeptOpen, OrphanInv, Steady, ~closed, NEW p \in Procs,
           \/ CheckOpen(p) \/ LoadRef(p) \/ Release(p) \/ DecRefCheck(p)
           \/ VisitCollect(p) \/ VisitKeep(p) \/ RequestLock(p) \/ SweepRelease(p)
           \/ ReleaseGate(p)
           \/ SelectSegment(p) /\ listed = 0
    PROVE  Steady'
<1> USE DEF Goto, CallDecRef, counters, open, shared
<1>0. /\ TypeOK /\ Places /\ Gated /\ Locked /\ Counted /\ Place(p)
      /\ pc \in [Procs -> PCs] /\ ret \in [Procs -> PCs]
  BY Zenon DEF OrphanInv, Steady, Places, TypeOK
<1>a. ASSUME UNCHANGED <<refCount, open, mustBeDeleted, listed, gens, gate, seg>>, Moves(p),
             Quiet(p), Place(p)', p \in Retainers \cup Oldests => pc[p] # "start"
      PROVE  Steady'
  <2>1. Places'
    BY Zenon, <1>0, <1>a, PlacesFrame DEF Places
  <2>2. Gated'
    BY Zenon, <1>0, <1>a, GatedFrame
  <2> QED
    BY Zenon, <1>0, <1>a, <2>1, <2>2, QuietStep DEF Steady
<1>1. CASE CheckOpen(p)
  <2>1. /\ UNCHANGED <<refCount, open, mustBeDeleted, listed, gens, gate, seg>>
        /\ p \in Selectors /\ pc[p] = "start" /\ pc'[p] = "enter" /\ Moves(p)
    BY Zenon, <1>0, <1>1, Tasks DEF CheckOpen, Moves
  <2>2. Quiet(p)
    BY Zenon, <2>1, Tasks DEF Quiet, Owning, Deleting, Reclaiming, Evicting, Entering
  <2>3. Place(p)'
    BY Zenon, <1>0, <2>1, Tasks DEF Place
  <2> QED
    BY Zenon, <1>a, <2>1, <2>2, <2>3, Tasks
<1>2. CASE LoadRef(p)
  <2>1. p \in Selectors /\ pc[p] = "load" /\ seg[p] = 1
    BY Zenon, <1>0, <1>2, Tasks DEF LoadRef, Place
  <2>2. ~(refCount[1] <= 0)
    BY Zenon, <1>0, <2>1, EnteringCounted, CountedPositive DEF Entering
  <2>3. /\ UNCHANGED <<refCount, open, mustBeDeleted, listed, gens, gate, seg>>
        /\ pc'[p] = "add" /\ Moves(p)
    BY Zenon, <1>0, <1>2, <2>1, <2>2, Tasks DEF LoadRef, Moves
  <2>4. Quiet(p)
    BY Zenon, <2>1, <2>3, Tasks DEF Quiet, Owning, Deleting, Reclaiming, Evicting, Entering
  <2>5. Place(p)'
    BY Zenon, <1>0, <2>1, <2>3, Tasks DEF Place
  <2> QED
    BY Zenon, <1>a, <2>1, <2>3, <2>4, <2>5, Tasks
<1>3. CASE Release(p)
  <2>1. /\ UNCHANGED <<refCount, open, mustBeDeleted, listed, gens, gate, seg>>
        /\ p \in Selectors /\ pc[p] = "hold" /\ pc'[p] = "dec" /\ ret'[p] = "start" /\ Moves(p)
    BY Zenon, <1>0, <1>3, Tasks DEF Release, Moves
  <2>2. Quiet(p)
    BY Zenon, <2>1, Tasks DEF Quiet, Owning, Deleting, Reclaiming, Evicting, Entering
  <2>3. Place(p)'
    BY Zenon, <1>0, <2>1, Tasks DEF Place
  <2> QED
    BY Zenon, <1>a, <2>1, <2>2, <2>3, Tasks
<1>4. CASE DecRefCheck(p)
  <2>1. pc[p] = "dec" /\ seg[p] = 1 /\ p \notin Closers
    BY Zenon, <1>0, <1>4 DEF DecRefCheck, Place
  <2>2. Base \/ Owners # {}
    <3>1. CASE p \in Oldests
      BY Zenon, <1>0, <2>1, <3>1, OldestBase DEF Place, Deleting
    <3>2. CASE p \notin Oldests
      BY Zenon, <2>1, <3>2 DEF Owners, Owning
    <3> QED
      BY Zenon, <3>1, <3>2
  <2>3. ~(refCount[1] <= 0)
    BY Zenon, <1>0, <2>2, CountedPositive
  <2>4. /\ UNCHANGED <<refCount, open, mustBeDeleted, listed, gens, gate, seg, ret>>
        /\ pc'[p] = "cas" /\ Moves(p)
    BY Zenon, <1>0, <1>4, <2>1, <2>3 DEF DecRefCheck, Moves
  <2>5. Quiet(p)
    BY Zenon, <2>1, <2>4 DEF Quiet, Owning, Deleting, Reclaiming, Evicting, Entering
  <2>6. Place(p)'
    BY Zenon, <1>0, <2>1, <2>4 DEF Place
  <2> QED
    BY Zenon, <1>a, <2>1, <2>4, <2>5, <2>6
<1>5. CASE VisitCollect(p)
  <2>1. p \in Collectors /\ pc[p] = "visit" /\ seg[p] = 1
    BY Zenon, <1>0, <1>5 DEF VisitCollect, Place
  <2>2. p \in Owners
    BY Zenon, <2>1, Tasks DEF Owners, Owning
  <2>3. ~(refCount[1] <= 0)
    BY Zenon, <1>0, <2>2, CountedPositive
  <2>4. /\ UNCHANGED <<refCount, open, mustBeDeleted, listed, gens, gate, seg>>
        /\ pc'[p] = "dec" /\ ret'[p] = "start" /\ Moves(p)
    BY Zenon, <1>0, <1>5, <2>1, <2>3 DEF VisitCollect, Moves
  <2>5. Quiet(p)
    BY Zenon, <2>1, <2>4, Tasks DEF Quiet, Owning, Deleting, Reclaiming, Evicting, Entering
  <2>6. Place(p)'
    BY Zenon, <1>0, <2>1, <2>4, Tasks DEF Place
  <2> QED
    BY Zenon, <1>a, <2>1, <2>4, <2>5, <2>6
<1>6. CASE VisitKeep(p)
  <2>1. /\ UNCHANGED <<refCount, open, mustBeDeleted, listed, gens, gate, seg>>
        /\ p \in Retainers /\ pc[p] = "visit" /\ pc'[p] = "dec" /\ ret'[p] = "done" /\ Moves(p)
    BY Zenon, <1>0, <1>6, Tasks DEF VisitKeep, Moves
  <2>2. Quiet(p)
    BY Zenon, <2>1, Tasks DEF Quiet, Owning, Deleting, Reclaiming, Evicting, Entering
  <2>3. Place(p)'
    BY Zenon, <1>0, <2>1, Tasks DEF Place
  <2> QED
    BY Zenon, <1>a, <2>1, <2>2, <2>3
<1>7. CASE RequestLock(p)
  <2>1. /\ UNCHANGED <<refCount, open, mustBeDeleted, listed, gens, gate, seg>>
        /\ p \in Retainers /\ pc[p] = "unlist" /\ pc'[p] = "lock" /\ Moves(p)
    BY Zenon, <1>0, <1>7, Tasks DEF RequestLock, Moves, Place
  <2>2. Quiet(p)
    BY Zenon, <2>1, Tasks DEF Quiet, Owning, Deleting, Reclaiming, Evicting, Entering
  <2>3. Place(p)'
    BY Zenon, <1>0, <2>1, Tasks DEF Place
  <2> QED
    BY Zenon, <1>a, <2>1, <2>2, <2>3
<1>8. CASE SweepRelease(p)
  <2>1. /\ UNCHANGED <<refCount, open, mustBeDeleted, listed, gens, gate, seg>>
        /\ p \in Retainers /\ pc[p] = "release" /\ pc'[p] = "dec" /\ ret'[p] = "done" /\ Moves(p)
    BY Zenon, <1>0, <1>8, Tasks DEF SweepRelease, Moves, Place
  <2>2. Quiet(p)
    BY Zenon, <2>1, Tasks DEF Quiet, Owning, Deleting, Reclaiming, Evicting, Entering
  <2>3. Place(p)'
    BY Zenon, <1>0, <2>1, Tasks DEF Place
  <2> QED
    BY Zenon, <1>a, <2>1, <2>2, <2>3
<1>9. CASE ReleaseGate(p)
  <2>1. /\ UNCHANGED <<refCount, open, mustBeDeleted, listed, gens, seg>>
        /\ gate' = (IF gate = p THEN None ELSE gate)
        /\ p \in Retainers \cup Oldests /\ pc[p] = "done" /\ pc'[p] = "start" /\ Moves(p)
    BY Zenon, <1>0, <1>9, Tasks DEF ReleaseGate, Moves
  <2>2. Quiet(p)
    BY Zenon, <2>1, Tasks DEF Quiet, Owning, Deleting, Reclaiming, Evicting, Entering
  <2>3. Place(p)'
    BY Zenon, <1>0, <2>1, Tasks DEF Place
  <2>4. \A q \in Retainers \cup Oldests : q # p => pc[q] = "start"
    BY Zenon, <1>0, <2>1 DEF Gated
  <2>5. Gated'
    BY Zenon, <2>1, <2>4, Tasks DEF Gated, Moves
  <2>6. Places'
    BY Zenon, <1>0, <2>1, <2>3, PlacesFrame DEF Places
  <2> QED
    BY Zenon, <1>0, <2>2, <2>5, <2>6, QuietStep DEF Steady
<1>10. CASE SelectSegment(p) /\ listed = 0
  <2>1. /\ UNCHANGED <<refCount, open, mustBeDeleted, listed, gens, gate, seg>>
        /\ p \in Selectors /\ pc[p] = "enter" /\ pc'[p] = "done" /\ Moves(p)
    BY Zenon, <1>0, <1>10, Tasks DEF SelectSegment, Moves
  <2>2. Quiet(p)
    BY Zenon, <2>1, Tasks DEF Quiet, Owning, Deleting, Reclaiming, Evicting, Entering
  <2>3. Place(p)'
    BY Zenon, <1>0, <2>1, Tasks DEF Place
  <2> QED
    BY Zenon, <1>a, <2>1, <2>2, <2>3, Tasks
<1> QED
  BY Zenon, <1>1, <1>2, <1>3, <1>4, <1>5, <1>6, <1>7, <1>8, <1>9, <1>10

\* A query or a sweep finds the segment in the list.
LEMMA EnterOpen ==
    ASSUME KeptOpen, OrphanInv, Steady, NEW p \in Procs,
           (SelectSegment(p) /\ listed # 0) \/ SweepLoad(p)
    PROVE  Steady'
<1> USE DEF Goto, counters, open, shared
<1>0. /\ TypeOK /\ Places /\ Gated /\ Locked /\ Counted /\ Place(p)
      /\ pc \in [Procs -> PCs] /\ seg \in [Procs -> 0 .. MaxGen]
  BY Zenon DEF OrphanInv, Steady, Places, TypeOK
<1>1. WLocked = {} /\ listed # 0
  BY Zenon DEF SelectSegment, SweepLoad, CanRLock
<1>2. listed = 1 /\ gens = 1
  BY <1>0, <1>1 DEF Places
<1>3. (Base \/ Owners # {}) /\ \A q \in Procs : pc[q] # "cleanup" /\ ~Evicting(q)
  BY Zenon, <1>0, <1>1, <1>2, NotEvicting, ListedCounted
<1>4. refCount[1] > 0
  BY Zenon, <1>0, <1>3, CountedPositive
<1>5. /\ UNCHANGED <<refCount, open, mustBeDeleted, listed, gens>>
      /\ seg'[p] = 1 /\ Moves(p) /\ pc[p] \in {"start", "enter"}
      /\ \/ p \in Selectors /\ pc'[p] = "load" /\ gate' = gate
         \/ p \in Collectors /\ pc'[p] = "tryadd" /\ gate' = gate
         \/ p \in Retainers /\ pc'[p] = "tryadd" /\ gate' = p /\ gate = None
  <2>1. CASE SelectSegment(p)
    BY Zenon, <1>0, <1>1, <1>2, <2>1, Tasks DEF SelectSegment, Moves
  <2>2. CASE SweepLoad(p)
    BY Zenon, <1>0, <1>2, <1>4, <2>2, Tasks DEF SweepLoad, Moves, GateFree, TakeGate
  <2> QED
    BY Zenon, <1>2, <2>1, <2>2
<1>6. Places'
  <2>1. Place(p)'
    BY Zenon, <1>2, <1>5, Tasks DEF Place
  <2> QED
    BY Zenon, <1>0, <1>2, <1>5, <2>1, PlacesFrame
<1>7. Gated'
  <2>1. CASE gate' = gate /\ p \notin Retainers \cup Oldests
    BY Zenon, <1>0, <1>5, <2>1, GatedFrame
  <2>2. CASE gate' = p /\ gate = None
    BY Zenon, <1>0, <1>5, <2>2, Tasks DEF Gated, Moves
  <2> QED
    BY Zenon, <1>5, <2>1, <2>2, Tasks
<1>8. \A q \in Procs : /\ Owning(q)' <=> Owning(q)
                       /\ Deleting(q)' <=> Deleting(q)
                       /\ Reclaiming(q)' <=> Reclaiming(q)
                       /\ ~Evicting(q)' /\ pc'[q] # "cleanup"
                       /\ q \in Retainers /\ pc'[q] = "visit" => pc[q] = "visit"
  <2>1. ASSUME NEW q \in Procs, q # p
        PROVE  /\ Owning(q)' <=> Owning(q)
               /\ Deleting(q)' <=> Deleting(q)
               /\ Reclaiming(q)' <=> Reclaiming(q)
               /\ ~Evicting(q)' /\ pc'[q] # "cleanup"
               /\ q \in Retainers /\ pc'[q] = "visit" => pc[q] = "visit"
    BY Zenon, <1>3, <1>5, <2>1, OthersKeep DEF Moves
  <2>2. /\ ~Owning(p)' /\ ~Owning(p) /\ ~Deleting(p)' /\ ~Deleting(p)
        /\ ~Reclaiming(p)' /\ ~Reclaiming(p) /\ ~Evicting(p)'
        /\ pc'[p] # "cleanup" /\ pc'[p] # "visit"
    BY Zenon, <1>5, Tasks DEF Owning, Deleting, Reclaiming, Evicting
  <2> QED
    BY Zenon, <2>1, <2>2
<1>9. Owners' = Owners /\ (Base' <=> Base)
  BY Zenon, <1>5, <1>8 DEF Owners, Base
<1>10. Locked'
  BY Zenon, <1>0, <1>1, <1>5, <1>8, Tasks DEF Locked
<1>11. Counted'
  BY Zenon, <1>0, <1>5, <1>8, <1>9 DEF Counted, Ready, open
<1> QED
  BY Zenon, <1>6, <1>7, <1>10, <1>11 DEF Steady

\* Who enters counts itself.
LEMMA AddOpen ==
    ASSUME KeptOpen, OrphanInv, Steady, NEW p \in Procs, AddRef(p) \/ SweepAdd(p)
    PROVE  Steady'
<1> USE DEF Goto, counters, open, shared
<1>0. /\ TypeOK /\ Places /\ Gated /\ Locked /\ Counted /\ Place(p)
      /\ pc \in [Procs -> PCs] /\ refCount \in [Gen -> Nat] /\ 1 \in Gen
  BY Zenon, Tasks DEF OrphanInv, Steady, Places, TypeOK
<1>1. /\ Entering(p) /\ seg[p] = 1
  BY Zenon, <1>0 DEF AddRef, SweepAdd, Entering, Place
<1>2. /\ UNCHANGED <<open, mustBeDeleted, listed, gens, gate, seg>>
      /\ refCount'[1] = refCount[1] + 1 /\ Moves(p)
      /\ \/ p \in Selectors /\ pc'[p] = "hold"
         \/ p \in Retainers \cup Collectors /\ pc'[p] = "visit"
  <2>1. refCount' = [refCount EXCEPT ![seg[p]] = @ + 1]
    BY Zenon DEF AddRef, SweepAdd
  <2>2. refCount'[1] = refCount[1] + 1
    BY <1>0, <1>1, <2>1
  <2> QED
    BY Zenon, <1>0, <2>2, Tasks DEF AddRef, SweepAdd, Moves
<1>3. /\ listed = 1 /\ listed # 0 /\ (Base \/ Owners # {})
      /\ \A q \in Procs : pc[q] # "cleanup" /\ ~Evicting(q)
  BY Zenon, <1>0, <1>1, EnteringCounted
<1>4. Places'
  <2>1. Place(p)'
    BY Zenon, <1>0, <1>1, <1>2, Tasks DEF Place, Entering
  <2>2. listed' \in {0, gens}
    BY Zenon, <1>0, <1>2 DEF Places
  <2> QED
    BY Zenon, <1>0, <1>2, <2>1, <2>2, PlacesFrame
<1>5. Gated'
  BY Zenon, <1>0, <1>1, <1>2, GatedFrame DEF Entering
<1>6. /\ \A q \in Procs : q # p => (Owning(q)' <=> Owning(q))
      /\ Owning(p)' /\ ~Owning(p)
      /\ \A q \in Procs : /\ Deleting(q)' <=> Deleting(q)
                          /\ Reclaiming(q)' <=> Reclaiming(q)
                          /\ ~Evicting(q)' /\ pc'[q] # "cleanup"
  <2>1. ASSUME NEW q \in Procs, q # p
        PROVE  /\ Owning(q)' <=> Owning(q)
               /\ Deleting(q)' <=> Deleting(q)
               /\ Reclaiming(q)' <=> Reclaiming(q)
               /\ ~Evicting(q)' /\ pc'[q] # "cleanup"
    BY Zenon, <1>2, <1>3, <2>1, OthersKeep DEF Moves
  <2>2. /\ Owning(p)' /\ ~Owning(p) /\ ~Deleting(p)' /\ ~Deleting(p)
        /\ ~Reclaiming(p)' /\ ~Reclaiming(p) /\ ~Evicting(p)' /\ pc'[p] # "cleanup"
    BY Zenon, <1>1, <1>2, Tasks DEF Owning, Deleting, Reclaiming, Evicting, Entering
  <2> QED
    BY Zenon, <2>1, <2>2
<1>7. Owners' = Owners \cup {p} /\ p \notin Owners /\ (Base' <=> Base)
  BY Zenon, <1>2, <1>6 DEF Owners, Base
<1>8. Locked'
  BY Zenon, <1>0, <1>2, <1>3, <1>6 DEF Locked
<1>9. Counted'
  <2>1. Cardinality(Owners') = Cardinality(Owners) + 1 /\ Cardinality(Owners) \in Nat
    BY Zenon, <1>7, OwnersCount
  <2>2. /\ refCount[1] >= Cardinality(Owners)
        /\ Base => refCount[1] >= Cardinality(Owners) + 1
        /\ Ready(1) /\ refCount[1] \in Nat
    BY Zenon, <1>0, <1>3 DEF Counted, Ready, open
  <2>3. /\ refCount'[1] >= Cardinality(Owners')
        /\ Base => refCount'[1] >= Cardinality(Owners') + 1
    BY <1>2, <2>1, <2>2
  <2> QED
    BY Zenon, <1>2, <1>6, <1>7, <2>2, <2>3 DEF Counted, Ready, open
<1> QED
  BY Zenon, <1>4, <1>5, <1>8, <1>9 DEF Steady

\* A deletion starts: retention finds the segment expired, or removeOldest runs.
LEMMA DeleteOpen ==
    ASSUME KeptOpen, OrphanInv, Steady, NEW p \in Procs, VisitExpired(p) \/ RemoveOldest(p)
    PROVE  Steady'
<1> USE DEF Goto, CallDecRef, counters, open, shared
<1>0. /\ TypeOK /\ Places /\ Gated /\ Locked /\ Counted /\ Place(p)
      /\ pc \in [Procs -> PCs] /\ ret \in [Procs -> PCs] /\ seg \in [Procs -> 0 .. MaxGen]
      /\ mustBeDeleted \in [Gen -> BOOLEAN] /\ 1 \in Gen
  BY Zenon, Tasks DEF OrphanInv, Steady, Places, TypeOK
<1>1. listed # 0
  BY <1>0, Tasks DEF VisitExpired, RemoveOldest, Locked
<1>2. listed = 1 /\ gens = 1
  BY <1>0, <1>1 DEF Places
<1>3. /\ UNCHANGED <<refCount, open, listed, gens>>
      /\ pc'[p] = "dec" /\ ret'[p] = "unlist" /\ seg'[p] = 1 /\ Moves(p) /\ mustBeDeleted'[1]
      /\ \/ p \in Retainers /\ pc[p] = "visit" /\ gate = p /\ gate' = p
         \/ p \in Oldests /\ pc[p] = "start" /\ gate = None /\ gate' = p /\ Quiesced
  <2>1. CASE VisitExpired(p)
    <3>1. p \in Retainers /\ pc[p] = "visit" /\ seg[p] = 1 /\ gate = p
      BY Zenon, <1>0, <2>1, Tasks DEF VisitExpired, Place, Gated
    <3> QED
      BY Zenon, <1>0, <2>1, <3>1 DEF VisitExpired, Moves
  <2>2. CASE RemoveOldest(p)
    <3>1. Quiesced
      BY Zenon, <2>2, Tasks DEF RemoveOldest, CanLock, RLocked, Quiesced, Entering, KeptOpen
    <3> QED
      BY Zenon, <1>0, <1>2, <2>2, <3>1 DEF RemoveOldest, Moves, GateFree, TakeGate
  <2> QED
    BY Zenon, <2>1, <2>2
<1>4. \A q \in Procs : q \in Retainers \cup Oldests /\ q # p => pc[q] = "start"
  BY Zenon, <1>0, <1>3, Tasks DEF Gated
<1>5. \A q \in Procs : ~Deleting(q) /\ ~Reclaiming(q)
  BY Zenon, <1>3, <1>4, Tasks DEF Deleting, Reclaiming
<1>6. Base
  BY Zenon, <1>0, <1>2, <1>5 DEF Base, Locked
<1>7. Places'
  <2>1. Place(p)'
    BY Zenon, <1>2, <1>3, Tasks DEF Place
  <2> QED
    BY Zenon, <1>0, <1>2, <1>3, <2>1, PlacesFrame
<1>8. Gated'
  BY Zenon, <1>3, <1>4, Tasks DEF Gated, Moves
<1>9. /\ Deleting(p)' /\ (Owning(p)' <=> Owning(p)) /\ ~Reclaiming(p)' /\ ~Entering(p)'
      /\ Evicting(p)' => p \in Oldests
  BY Zenon, <1>3, Tasks DEF Deleting, Owning, Reclaiming, Entering, Evicting
<1>10. \A q \in Procs : q # p => /\ Owning(q)' <=> Owning(q)
                                 /\ Evicting(q)' <=> Evicting(q)
                                 /\ Entering(q)' <=> Entering(q)
                                 /\ pc'[q] = pc[q]
  BY Zenon, <1>3, OthersKeep DEF Moves
<1>11. Owners' = Owners /\ (Quiesced => Quiesced')
  BY Zenon, <1>9, <1>10 DEF Owners, Quiesced
<1>12. Locked'
  <2>1. ASSUME NEW q \in Procs, Evicting(q)'
        PROVE  listed' = 1 /\ Quiesced'
    BY Zenon, <1>0, <1>2, <1>3, <1>9, <1>10, <1>11, <2>1, Tasks DEF Locked
  <2> QED
    BY Zenon, <1>1, <1>2, <1>3, <1>9, <2>1 DEF Locked
<1>13. Counted'
  <2>1. \A q \in Procs : pc'[q] # "cleanup"
    BY Zenon, <1>0, <1>3, <1>6, <1>10 DEF Counted
  <2> QED
    BY Zenon, <1>0, <1>3, <1>6, <1>11, <2>1 DEF Counted, Ready, open
<1> QED
  BY Zenon, <1>7, <1>8, <1>12, <1>13 DEF Steady

\* The segment leaves the list.
LEMMA UnlistOpen ==
    ASSUME KeptOpen, OrphanInv, Steady, NEW p \in Procs, Unlist(p)
    PROVE  Steady'
<1> USE DEF Goto, counters, open, shared
<1>0. /\ TypeOK /\ Places /\ Gated /\ Locked /\ Counted /\ Place(p)
      /\ pc \in [Procs -> PCs]
  BY Zenon, Tasks DEF OrphanInv, Steady, Places, TypeOK
<1>1. /\ UNCHANGED <<refCount, open, mustBeDeleted, gens, gate, seg, ret>>
      /\ listed' = 0 /\ Moves(p)
      /\ \/ p \in Retainers /\ pc[p] = "lock" /\ pc'[p] = "release" /\ CanLock
         \/ p \in Oldests /\ pc[p] = "unlist" /\ pc'[p] = "done"
  BY Zenon, <1>0, Tasks DEF Unlist, Moves
<1>2. Quiesced
  <2>1. CASE CanLock
    BY Zenon, <2>1 DEF CanLock, RLocked, Quiesced, Entering, KeptOpen
  <2>2. CASE p \in Oldests /\ pc[p] = "unlist"
    BY Zenon, <1>0, <2>2 DEF Locked, Evicting
  <2> QED
    BY Zenon, <1>1, <2>1, <2>2
<1>3. \A q \in Retainers \cup Oldests : q # p => pc[q] = "start"
  BY Zenon, <1>0, <1>1 DEF Gated
<1>4. Places'
  <2>1. Place(p)'
    BY Zenon, <1>0, <1>1, Tasks DEF Place
  <2> QED
    BY Zenon, <1>0, <1>1, <2>1, PlacesFrame
<1>5. Gated'
  BY Zenon, <1>0, <1>1, GatedFrame
<1>6. /\ (Owning(p)' <=> Owning(p)) /\ ~Deleting(p)' /\ ~Deleting(p) /\ ~Evicting(p)'
      /\ ~Entering(p)' /\ pc'[p] # "cleanup" /\ pc'[p] # "visit"
  BY Zenon, <1>1, Tasks DEF Owning, Deleting, Evicting, Entering
<1>7. \A q \in Procs : q # p => /\ Owning(q)' <=> Owning(q)
                                /\ Deleting(q)' <=> Deleting(q)
                                /\ Evicting(q)' <=> Evicting(q)
                                /\ Entering(q)' <=> Entering(q)
                                /\ pc'[q] = pc[q]
  BY Zenon, <1>1, OthersKeep DEF Moves
<1>8. Owners' = Owners /\ Quiesced' /\ (Base' <=> Base)
  BY Zenon, <1>1, <1>2, <1>6, <1>7 DEF Owners, Quiesced, Base
<1>9. Locked'
  <2>1. \A q \in Procs : ~Evicting(q)'
    BY Zenon, <1>3, <1>6, <1>7 DEF Evicting
  <2>2. \A q \in Retainers : pc'[q] # "visit"
    BY Zenon, <1>3, <1>6, <1>7, Tasks
  <2>3. \A q \in Procs : Deleting(q)' => mustBeDeleted'[1]
    BY Zenon, <1>0, <1>1, <1>6, <1>7 DEF Locked
  <2>4. listed' # 1
    BY <1>1
  <2> QED
    BY Zenon, <1>8, <2>1, <2>2, <2>3, <2>4 DEF Locked
<1>10. Counted'
  BY Zenon, <1>0, <1>1, <1>6, <1>7, <1>8 DEF Counted, Ready, open
<1> QED
  BY Zenon, <1>4, <1>5, <1>9, <1>10 DEF Steady

\* A goroutine gives its own reference back; the last one goes on to clean up.
LEMMA GiveBackOpen ==
    ASSUME KeptOpen, OrphanInv, Steady, NEW p \in Procs, DecRefCAS(p), ~Deleting(p)
    PROVE  Steady'
<1> USE DEF Goto, counters, open, shared
<1>0. /\ TypeOK /\ Places /\ Gated /\ Locked /\ Counted /\ Place(p)
      /\ pc \in [Procs -> PCs] /\ refCount \in [Gen -> Nat] /\ 1 \in Gen
  BY Zenon, Tasks DEF OrphanInv, Steady, Places, TypeOK
<1>1. /\ pc[p] = "cas" /\ seg[p] = 1 /\ gens = 1 /\ p \notin Oldests \cup Closers
      /\ ret[p] \in {"start", "done"}
  <2>1. pc[p] = "cas" /\ seg[p] = 1 /\ seg[p] \in {0, gens}
    BY Zenon, <1>0 DEF DecRefCAS, Place
  <2>2. p \notin Oldests \cup Closers /\ ret[p] \in {"start", "done"}
    BY Zenon, <1>0, <2>1, Tasks DEF Place, Deleting
  <2> QED
    BY <2>1, <2>2
<1>2. p \in Owners /\ p \in Procs
  BY Zenon, <1>1 DEF Owners, Owning
<1>3. refCount[1] \in Nat /\ refCount[1] > 0 /\ ~(refCount[1] <= 0)
  BY Zenon, <1>0, <1>2, CountedPositive
<1>4. /\ UNCHANGED <<open, mustBeDeleted, listed, gens, gate, seg, ret>> /\ Moves(p)
      /\ refCount'[1] = refCount[1] - 1
      /\ pc'[p] = (IF refCount[1] = 1 THEN "cleanup" ELSE ret[p])
  <2>1. /\ UNCHANGED <<open, mustBeDeleted, listed, gens, gate, seg, ret>>
        /\ refCount' = [refCount EXCEPT ![1] = @ - 1]
        /\ pc' = [pc EXCEPT ![p] = IF refCount[1] = 1 THEN "cleanup" ELSE ret[p]]
    BY Zenon, <1>1, <1>3 DEF DecRefCAS
  <2>2. refCount'[1] = refCount[1] - 1
    BY <1>0, <2>1
  <2> QED
    BY Zenon, <1>0, <2>1, <2>2 DEF Moves
<1>5. Places'
  <2>1. Place(p)'
    BY Zenon, <1>0, <1>1, <1>4, Tasks DEF Place
  <2>2. listed' \in {0, gens}
    BY Zenon, <1>0, <1>4 DEF Places
  <2> QED
    BY Zenon, <1>0, <1>4, <2>1, <2>2, PlacesFrame
<1>6. Gated'
  BY Zenon, <1>0, <1>1, <1>4, GatedFrame
<1>7. /\ ~Owning(p)' /\ ~Deleting(p)' /\ ~Reclaiming(p)' /\ ~Reclaiming(p)
      /\ ~Evicting(p)' /\ ~Entering(p)' /\ pc'[p] # "visit"
  BY Zenon, <1>1, <1>4, Tasks DEF Owning, Deleting, Reclaiming, Evicting, Entering
<1>8. \A q \in Procs : q # p => /\ Owning(q)' <=> Owning(q)
                                /\ Deleting(q)' <=> Deleting(q)
                                /\ Reclaiming(q)' <=> Reclaiming(q)
                                /\ Evicting(q)' <=> Evicting(q)
                                /\ Entering(q)' <=> Entering(q)
                                /\ pc'[q] = pc[q]
  BY Zenon, <1>4, OthersKeep DEF Moves
<1>9. Owners' = Owners \ {p} /\ (Quiesced => Quiesced') /\ (Base' <=> Base)
  BY Zenon, <1>4, <1>7, <1>8 DEF Owners, Quiesced, Base
<1>10. Locked'
  <2>1. \A q \in Procs : Evicting(q)' => listed' = 1 /\ Quiesced'
    BY Zenon, <1>0, <1>4, <1>7, <1>8, <1>9 DEF Locked
  <2>2. listed' = 0 => Quiesced'
    BY Zenon, <1>0, <1>4, <1>9 DEF Locked
  <2>3. \A q \in Procs : Deleting(q)' => mustBeDeleted'[1]
    BY Zenon, <1>0, <1>4, <1>7, <1>8 DEF Locked
  <2>4. listed' = 1 /\ mustBeDeleted'[1] => \E q \in Procs : Deleting(q)' \/ Reclaiming(q)'
    BY Zenon, <1>0, <1>4, <1>7, <1>8 DEF Locked
  <2>5. \A q \in Retainers : pc'[q] = "visit" => listed' = 1
    BY Zenon, <1>0, <1>4, <1>7, <1>8, Tasks DEF Locked
  <2> QED
    BY Zenon, <2>1, <2>2, <2>3, <2>4, <2>5 DEF Locked
<1>11. Counted'
  <2>1. /\ Cardinality(Owners') = Cardinality(Owners) - 1 /\ Cardinality(Owners) \in Nat
        /\ Cardinality(Owners) >= 1
    BY Zenon, <1>2, <1>9, OwnersCount
  <2>2. /\ refCount[1] >= Cardinality(Owners)
        /\ Base => refCount[1] >= Cardinality(Owners) + 1
    BY Zenon, <1>0 DEF Counted
  <2>3. /\ refCount'[1] >= Cardinality(Owners')
        /\ Base => refCount'[1] >= Cardinality(Owners') + 1
    BY <1>3, <1>4, <2>1, <2>2
  <2>4. \A q \in Procs : q # p => pc'[q] # "cleanup"
    BY Zenon, <1>0, <1>2, <1>8 DEF Counted
  <2>5. ASSUME pc'[p] = "cleanup"
        PROVE  /\ ~Base /\ Owners' = {} /\ Quiesced
               /\ listed = 0 \/ \E q \in Oldests : Reclaiming(q) /\ q \in Procs
    <3>1. refCount[1] = 1
      BY Zenon, <1>1, <1>4, <2>5
    <3>2. ~Base /\ Cardinality(Owners) = 1
      BY <1>3, <2>1, <2>2, <3>1
    <3>3. Owners = {p} /\ Owners' = {}
      BY Zenon, <1>2, <1>9, <3>2, OwnersCount
    <3>4. mustBeDeleted[1] /\ \A q \in Procs : ~Deleting(q)
      BY Zenon, <1>1, <3>2 DEF Base
    <3>5. CASE listed = 0
      BY Zenon, <1>0, <3>2, <3>3, <3>5 DEF Locked
    <3>6. CASE listed = 1
      <4>1. PICK q \in Procs : Reclaiming(q)
        BY Zenon, <1>0, <3>4, <3>6 DEF Locked
      <4>2. q # p
        BY Zenon, <1>7, <4>1
      <4>3. q \notin Owners
        BY Zenon, <3>3, <4>2
      <4>4. q \in Oldests
        BY Zenon, <4>1, <4>3, Tasks DEF Owners, Owning, Reclaiming
      <4>5. Evicting(q)
        BY Zenon, <4>1, <4>4, Tasks DEF Evicting, Reclaiming
      <4> QED
        BY Zenon, <1>0, <3>2, <3>3, <4>1, <4>4, <4>5 DEF Locked
    <3> QED
      BY Zenon, <1>0, <1>1, <3>5, <3>6 DEF Places
  <2>6. (\E q \in Procs : pc'[q] = "cleanup") =>
          /\ ~Base' /\ Owners' = {} /\ Quiesced'
          /\ listed' = 0 \/ \E q \in Oldests : Reclaiming(q)'
    BY Zenon, <1>1, <1>4, <1>8, <1>9, <2>4, <2>5
  <2>7. Base' \/ Owners' # {} => Ready(1)'
    BY Zenon, <1>0, <1>2, <1>4 DEF Counted, Ready, open
  <2> QED
    BY Zenon, <1>9, <2>3, <2>6, <2>7 DEF Counted, Ready, open
<1> QED
  BY Zenon, <1>5, <1>6, <1>10, <1>11 DEF Steady

\* A deletion gives up the reference the segment started with.
LEMMA GiveUpOpen ==
    ASSUME KeptOpen, OrphanInv, Steady, NEW p \in Procs, DecRefCAS(p), Deleting(p)
    PROVE  Steady'
<1> USE DEF Goto, counters, open, shared
<1>0. /\ TypeOK /\ Places /\ Gated /\ Locked /\ Counted /\ Place(p)
      /\ pc \in [Procs -> PCs] /\ refCount \in [Gen -> Nat] /\ 1 \in Gen
  BY Zenon, Tasks DEF OrphanInv, Steady, Places, TypeOK
<1>1. /\ pc[p] = "cas" /\ seg[p] = 1 /\ ret[p] = "unlist" /\ gate = p
      /\ p \in Retainers \cup Oldests /\ Base /\ mustBeDeleted[1]
  BY Zenon, <1>0, OldestBase DEF DecRefCAS, Deleting, Place, Gated, Locked
<1>2. /\ refCount[1] \in Nat /\ refCount[1] > 0 /\ ~(refCount[1] <= 0)
      /\ refCount[1] >= Cardinality(Owners) + 1 /\ Cardinality(Owners) \in Nat
  BY Zenon, <1>0, <1>1, CountedPositive, OwnersCount DEF Counted
<1>3. p \in Retainers => refCount[1] # 1
  <2>1. p \in Retainers => p \in Owners
    BY Zenon, <1>1, Tasks DEF Owners, Owning
  <2>2. p \in Retainers => Cardinality(Owners) >= 1
    BY Zenon, <2>1, OwnersCount
  <2> QED
    BY <1>2, <2>2
<1>4. /\ UNCHANGED <<open, mustBeDeleted, listed, gens, gate, seg, ret>> /\ Moves(p)
      /\ refCount'[1] = refCount[1] - 1
      /\ pc'[p] = (IF refCount[1] = 1 THEN "cleanup" ELSE "unlist")
  <2>1. /\ UNCHANGED <<open, mustBeDeleted, listed, gens, gate, seg, ret>>
        /\ refCount' = [refCount EXCEPT ![1] = @ - 1]
        /\ pc' = [pc EXCEPT ![p] = IF refCount[1] = 1 THEN "cleanup" ELSE "unlist"]
    BY Zenon, <1>1, <1>2 DEF DecRefCAS
  <2>2. refCount'[1] = refCount[1] - 1
    BY <1>0, <2>1
  <2> QED
    BY Zenon, <1>0, <2>1, <2>2 DEF Moves
<1>5. Places'
  <2>1. Place(p)'
    BY Zenon, <1>0, <1>1, <1>3, <1>4, Tasks DEF Place
  <2>2. listed' \in {0, gens}
    BY Zenon, <1>0, <1>4 DEF Places
  <2> QED
    BY Zenon, <1>0, <1>4, <2>1, <2>2, PlacesFrame
<1>6. Gated'
  BY Zenon, <1>0, <1>1, <1>4, GatedFrame
<1>7. /\ (Owning(p)' <=> Owning(p)) /\ ~Deleting(p)' /\ Reclaiming(p)'
      /\ (Evicting(p)' <=> Evicting(p)) /\ ~Entering(p)' /\ pc'[p] # "visit"
  BY Zenon, <1>1, <1>3, <1>4, Tasks DEF Owning, Deleting, Reclaiming, Evicting, Entering
<1>8. \A q \in Procs : q # p => /\ Owning(q)' <=> Owning(q)
                                /\ Deleting(q)' <=> Deleting(q)
                                /\ Evicting(q)' <=> Evicting(q)
                                /\ Entering(q)' <=> Entering(q)
                                /\ pc'[q] = pc[q]
  BY Zenon, <1>4, OthersKeep DEF Moves
<1>9. \A q \in Procs : ~Deleting(q)'
  <2>1. \A q \in Procs : q # p => ~Deleting(q)
    BY Zenon, <1>0, <1>1 DEF Gated, Deleting
  <2> QED
    BY Zenon, <1>7, <1>8, <2>1
<1>10. Owners' = Owners /\ (Quiesced => Quiesced') /\ ~Base'
  BY Zenon, <1>1, <1>4, <1>7, <1>8, <1>9 DEF Owners, Quiesced, Base
<1>11. Locked'
  <2>1. \A q \in Procs : Evicting(q)' => listed' = 1 /\ Quiesced'
    BY Zenon, <1>0, <1>4, <1>7, <1>8, <1>10 DEF Locked
  <2>2. listed' = 0 => Quiesced'
    BY Zenon, <1>0, <1>4, <1>10 DEF Locked
  <2>3. \A q \in Retainers : pc'[q] = "visit" => listed' = 1
    BY Zenon, <1>0, <1>4, <1>7, <1>8, Tasks DEF Locked
  <2> QED
    BY Zenon, <1>7, <1>9, <2>1, <2>2, <2>3 DEF Locked
<1>12. Counted'
  <2>1. refCount'[1] >= Cardinality(Owners')
    BY <1>2, <1>4, <1>10
  <2>2. \A q \in Procs : q # p => pc'[q] # "cleanup"
    BY Zenon, <1>0, <1>1, <1>8 DEF Counted
  <2>3. ASSUME pc'[p] = "cleanup"
        PROVE  Owners' = {} /\ Quiesced' /\ p \in Oldests
    <3>1. refCount[1] = 1
      BY Zenon, <1>4, <2>3
    <3>2. Cardinality(Owners) = 0
      BY <1>2, <3>1
    <3>3. p \in Oldests
      BY Zenon, <1>1, <1>3, <3>1
    <3>4. Quiesced
      BY Zenon, <1>0, <1>1, <3>3 DEF Locked, Evicting
    <3> QED
      BY Zenon, <1>10, <3>2, <3>3, <3>4, OwnersCount
  <2>4. Owners' # {} => Ready(1)'
    BY Zenon, <1>0, <1>4, <1>10 DEF Counted, Ready, open
  <2> QED
    BY Zenon, <1>7, <1>10, <2>1, <2>2, <2>3, <2>4 DEF Counted, Ready, open
<1> QED
  BY Zenon, <1>5, <1>6, <1>11, <1>12 DEF Steady

\* performCleanup closes a segment that nobody counts on.
LEMMA CleanupOpen ==
    ASSUME KeptOpen, OrphanInv, Steady, NEW p \in Procs, PerformCleanup(p)
    PROVE  Steady'
<1> USE DEF Goto, counters, open, shared
<1>0. /\ TypeOK /\ Places /\ Gated /\ Locked /\ Counted /\ Place(p)
      /\ pc \in [Procs -> PCs]
  BY Zenon, Tasks DEF OrphanInv, Steady, Places, TypeOK
<1>1. /\ UNCHANGED <<refCount, mustBeDeleted, listed, gens, gate, seg, ret>> /\ Moves(p)
      /\ pc[p] = "cleanup" /\ pc'[p] = ret[p]
  BY Zenon, <1>0 DEF PerformCleanup, Moves
<1>2. /\ ~Base /\ Owners = {} /\ Quiesced
      /\ listed = 0 \/ \E q \in Oldests : Reclaiming(q)
  BY Zenon, <1>0, <1>1 DEF Counted
<1>3. \/ p \in Selectors \cup Collectors /\ ret[p] = "start"
      \/ p \in Retainers /\ ret[p] = "done"
      \/ p \in Oldests /\ ret[p] = "unlist"
  BY Zenon, <1>0, <1>1, Tasks DEF Place
<1>4. Places'
  <2>1. Place(p)'
    BY Zenon, <1>0, <1>1, <1>3, Tasks DEF Place
  <2>2. listed' \in {0, gens}
    BY Zenon, <1>0, <1>1 DEF Places
  <2> QED
    BY Zenon, <1>0, <1>1, <2>1, <2>2, PlacesFrame
<1>5. Gated'
  BY Zenon, <1>0, <1>1, GatedFrame
<1>6. /\ ~Owning(p)' /\ ~Deleting(p)' /\ ~Deleting(p) /\ (Reclaiming(p)' <=> Reclaiming(p))
      /\ (Evicting(p)' <=> Evicting(p)) /\ ~Entering(p)' /\ pc'[p] # "visit"
  BY Zenon, <1>1, <1>3, Tasks DEF Owning, Deleting, Reclaiming, Evicting, Entering
<1>7. \A q \in Procs : q # p => /\ Owning(q)' <=> Owning(q)
                                /\ Deleting(q)' <=> Deleting(q)
                                /\ Reclaiming(q)' <=> Reclaiming(q)
                                /\ Evicting(q)' <=> Evicting(q)
                                /\ Entering(q)' <=> Entering(q)
                                /\ pc'[q] = pc[q]
  BY Zenon, <1>1, OthersKeep DEF Moves
<1>8. Owners' = {} /\ Quiesced' /\ ~Base'
  BY Zenon, <1>1, <1>2, <1>6, <1>7 DEF Owners, Quiesced, Base
<1>9. Locked'
  <2>1. \A q \in Procs : Evicting(q)' => listed' = 1
    BY Zenon, <1>0, <1>1, <1>6, <1>7 DEF Locked
  <2>2. \A q \in Procs : Deleting(q)' => mustBeDeleted'[1]
    BY Zenon, <1>0, <1>1, <1>6, <1>7 DEF Locked
  <2>3. listed' = 1 /\ mustBeDeleted'[1] => \E q \in Procs : Deleting(q)' \/ Reclaiming(q)'
    BY Zenon, <1>0, <1>1, <1>6, <1>7 DEF Locked
  <2>4. \A q \in Retainers : pc'[q] = "visit" => listed' = 1
    BY Zenon, <1>0, <1>1, <1>6, <1>7, Tasks DEF Locked
  <2> QED
    BY Zenon, <1>8, <2>1, <2>2, <2>3, <2>4 DEF Locked
<1>10. Counted'
  <2>1. listed' = 0 \/ \E q \in Oldests : Reclaiming(q)'
    BY Zenon, <1>1, <1>2, <1>6, <1>7, Tasks
  <2>2. refCount'[1] >= Cardinality(Owners')
    BY Zenon, <1>0, <1>1, <1>2, <1>8 DEF Counted
  <2> QED
    BY Zenon, <1>8, <2>1, <2>2 DEF Counted
<1> QED
  BY Zenon, <1>4, <1>5, <1>9, <1>10 DEF Steady

\* Every step keeps the invariant, up to the moment database.Close begins.
LEMMA NextOpen ==
    ASSUME KeptOpen, OpenInv, [Next]_vars
    PROVE  OpenInv'
<1>0. OrphanInv /\ OrphanInv'
  BY Zenon, NextOrphan DEF OpenInv
<1> SUFFICES ASSUME ~closed'
             PROVE  Steady'
  BY Zenon, <1>0 DEF OpenInv
<1>1. CASE UNCHANGED vars
  <2>1. Steady
    BY Zenon, <1>1 DEF OpenInv, vars
  <2> QED
    BY Zenon, <1>1, <2>1 DEF vars, counters, open, Steady, Places, Place, Gated, Locked, Counted,
       Ready, Base, Owners, Owning, Deleting, Reclaiming, Evicting, Entering, Quiesced
<1>2. CASE Age
  BY Zenon, <1>2 DEF Age, KeptOpen
<1>3. ASSUME NEW p \in Procs, UserStep(p) \/ DecRefStep(p) \/ SweepStep(p) \/ CloseStep(p)
      PROVE  Steady'
  <2>1. closed => closed'
    BY ZenonT(30), <1>3 DEF UserStep, DecRefStep, SweepStep, CloseStep, CheckOpen, SelectSegment, CreateFound,
       CreateNew, LoadRef, AddRef, InitializeOpen, InitializeStore, InitializeFail,
       CreateTSTable, Release, DecRefCheck, DecRefCAS, PerformCleanup, SweepLoad, SweepAdd, VisitIdle, VisitCollect,
       VisitKeep, VisitExpired, RequestLock, Unlist, SweepRelease, RemoveOldest, ReleaseGate,
       StartClose, CloseLock, CloseDrain, shared
  <2>2. ~closed /\ Steady /\ Place(p)
    BY Zenon, <2>1 DEF OpenInv, Steady, Places
  <2>3. /\ ~CreateFound(p) /\ ~CreateNew(p) /\ ~CreateTSTable(p) /\ ~VisitIdle(p)
    BY Zenon DEF KeptOpen, CreateFound, CreateNew, CreateTSTable, VisitIdle
  <2>4. ~InitializeOpen(p) /\ ~InitializeStore(p) /\ ~InitializeFail(p)
    BY Zenon, <2>2, Tasks DEF Place, InitializeOpen, InitializeStore, InitializeFail
  <2>5. ~CloseLock(p) /\ ~CloseDrain(p) /\ ~StartClose(p)
    BY Zenon, <2>2 DEF Place, CloseLock, CloseDrain, StartClose
  <2> QED
    BY ZenonT(60), <1>0, <1>3, <2>2, <2>3, <2>4, <2>5, QuietOpen, EnterOpen, AddOpen, DeleteOpen,
       UnlistOpen, GiveBackOpen, GiveUpOpen, CleanupOpen
       DEF UserStep, DecRefStep, SweepStep, CloseStep
<1> QED
  BY Zenon, <1>1, <1>2, <1>3 DEF Next

\* The invariant holds at the start.
LEMMA InitOpen ==
    ASSUME KeptOpen, Init
    PROVE  OpenInv
<1>1. OrphanInv
  BY Zenon, InitOrphan
<1>2. Owners = {} /\ Quiesced /\ \A p \in Procs : ~Deleting(p) /\ ~Evicting(p)
  BY Zenon DEF Init, Owners, Owning, Quiesced, Entering, Deleting, Evicting
<1>3. Places
  BY Zenon DEF Init, Places, Place
<1>4. Gated
  BY Zenon, Tasks DEF Init, Gated
<1>5. Locked
  BY Zenon, <1>2, Tasks DEF Init, Locked
<1>6. Counted
  <2>1. Cardinality(Owners) = 0
    BY Zenon, <1>2, FS_EmptySet
  <2>2. /\ refCount[1] = (IF listed = 1 THEN 1 ELSE 0) /\ (listed = 1 => Ready(1))
        /\ gens = listed /\ \A p \in Procs : pc[p] # "cleanup"
    BY Zenon, Tasks DEF Init, Ready
  <2>3. refCount[1] >= Cardinality(Owners) /\ (Base => refCount[1] >= Cardinality(Owners) + 1)
    BY <2>1, <2>2 DEF Base
  <2> QED
    BY Zenon, <1>2, <2>2, <2>3 DEF Counted, Ready, open, Base
<1> QED
  BY Zenon, <1>1, <1>3, <1>4, <1>5, <1>6 DEF OpenInv, Steady

\* A segment in the hands of a query is open, for any number of queries and of
\* retention, clean-up, metrics and Close goroutines, in a stage that keeps its
\* segments open: DecRef and performCleanup never close an index or a table
\* under a query that selectSegments handed the segment to.
THEOREM HeldSegmentsStayOpen ==
    ASSUME KeptOpen
    PROVE  Spec => []HeldSegmentOpen
<1>1. Init => OpenInv
  BY InitOpen
<1>2. OpenInv /\ [Next]_vars => OpenInv'
  BY NextOpen
<1>3. OpenInv => HeldSegmentOpen
  <2> SUFFICES ASSUME OpenInv, ~closed, NEW g \in Gen, NEW p \in Users, pc[p] = "hold", seg[p] = g
               PROVE  Ready(g)
    BY Zenon DEF HeldSegmentOpen, Holders
  <2>1. p \in Procs /\ Place(p) /\ Counted /\ p \in Selectors
    BY Zenon, Tasks DEF OpenInv, Steady, Places
  <2>2. g = 1
    BY Zenon, <2>1 DEF Place
  <2>3. p \in Owners
    BY Zenon, <2>1, Tasks DEF Owners, Owning
  <2> QED
    BY Zenon, <2>1, <2>2, <2>3 DEF Counted, Ready, open
<1> QED
  BY <1>1, <1>2, <1>3, PTL DEF Spec
=============================================================================
