-------------------------- MODULE TSTableContract --------------------------
(***************************************************************************)
(* No row is lost: TSTable keeps the rows it introduced, what a manifest   *)
(* recorded can be recovered at every moment, and the table implements the *)
(* contract of a shard.  Like TSTableProofs, for any number of rows,       *)
(* parts, epochs, readers, sessions and crashes, and for MaxClose = 0.     *)
(* The last section begins the proof that no row is there twice, step by   *)
(* step; TSTableStale completes it.                                        *)
(***************************************************************************)
EXTENDS TSTableProofs

-----------------------------------------------------------------------------
(* Where the rows are, in memory and on disk *)

\* What loop p merged or shipped contains what it consumed.
Merged(p) ==
    pc[p] \in {"merge", "send"} => Rows(work[p]) \subseteq (Rows(out[p]) \cup shipped)

\* Where the rows are: in the current snapshot or shipped, and also in the
\* snapshot that is about to replace it.
RowsInv ==
    /\ \A i \in ID : rows[i] \subseteq sent
    /\ "syncer" \notin Loops => shipped = {}
    /\ \A p \in Loops : \A i \in work[p] : i <= curPartID
    /\ \A p \in Loops : Merged(p)
    /\ NothingDropped
    /\ ipc = "replace" => Visible \subseteq (Rows(IDs(Snapshot("next"))) \cup shipped)
    /\ ipc = "applied" => held["table"] # 0
    /\ status = "down" => introduced = {} /\ work = [p \in Loops |-> {}]

\* The parts I are in the live manifest; they hold the durable rows and those
\* whose sync session was answered as complete.
Named(I) ==
    /\ liveEpoch = 0 => I = {}
    /\ liveEpoch # 0 => I \subseteq names[liveEpoch]
Kept(I) == (durable \cup acked) \subseteq (Rows(I) \cup shipped)

\* The live manifest is the newest one, and a new one will be newer still.
ManifestsOrdered ==
    /\ liveEpoch = 0 => manifests = {}
    /\ liveEpoch # 0 => Newest(liveEpoch)
    /\ \A f \in manifests : f <= epoch /\ (ipc \in {"idle", "replace", "persist"} => f < epoch)
    /\ ipc = "replace" => held["next"] = epoch /\ held["introducer"] = held["table"]
    /\ ipc = "persist" => held["table"] = epoch

\* The file parts of the current snapshot hold the durable rows, and the live
\* manifest names them.  Between the replacement of the snapshot and the new
\* manifest it is the snapshot the introducer still holds whose parts are named.
DurableFiles ==
    /\ Kept(Files("table"))
    /\ ipc # "persist" => Named(Files("table"))
    /\ ipc = "persist" => Named(Files("introducer")) /\ Kept(Files("introducer"))
    /\ ipc = "replace" => /\ Kept(Files("next"))
                          /\ persist \/ Named(Files("next"))

DurableInv ==
    /\ \A f \in deletableEpochs : f < liveEpoch
    /\ status = "up" => ManifestsOrdered /\ DurableFiles
    /\ status = "down" => liveEpoch = 0 /\ deletableEpochs = {} /\ Kept(Recoverable)

-----------------------------------------------------------------------------
(* Kinds of steps *)

\* The introducer does nothing, or goes on after an introduction.
IntroQuiet ==
    \/ /\ UNCHANGED <<ipc, epoch, persist, acked>>
       /\ SameSnapshot("table") /\ SameSnapshot("next") /\ SameSnapshot("introducer")
    \/ /\ ipc \in {"applied", "clean"} /\ SameSnapshot("table")
       /\ acked' \subseteq (acked \cup Rows(Files("table")))
       /\ \/ ipc' = "clean" /\ epoch' = epoch
          \/ ipc' = "idle" /\ epoch' = epoch + 1

\* Only deletable manifests go, and only new parts get rows.
DiskQuiet ==
    /\ UNCHANGED <<names, introduced, durable, liveEpoch>>
    /\ manifests' \subseteq manifests /\ deletableEpochs' \subseteq deletableEpochs
    /\ \A f \in manifests : f \in manifests' \/ f \in deletableEpochs
    /\ curPartID' \in Nat /\ curPartID <= curPartID'
    /\ \A i \in ID : i <= curPartID => rows'[i] = rows[i]
    /\ \A i \in ID : rows'[i] \subseteq sent'
    /\ sent' \in SUBSET Writes /\ sent \subseteq sent'
    /\ shipped \subseteq shipped' /\ ("syncer" \notin Loops => shipped' = shipped)

LoopQuiet(p) ==
    \/ /\ work'[p] = work[p] /\ out'[p] = out[p]
       /\ pc'[p] \in {"merge", "send"} => pc[p] \in {"merge", "send"}
    \/ (\A i \in work'[p] : i <= curPartID') /\ Merged(p)'

\* A step that leaves the current snapshot alone.
Quiet ==
    /\ status = "up" /\ status' = "up"
    /\ IntroQuiet /\ DiskQuiet
    /\ \A p \in Loops : LoopQuiet(p)

\* A step that builds the next snapshot, with the parts S.
Builds(S) ==
    /\ status = "up" /\ status' = "up" /\ ipc = "idle" /\ ipc' = "replace"
    /\ SameSnapshot("table") /\ held'["introducer"] = held["table"]
    /\ held'["next"] = epoch /\ parts'[epoch] = S
    /\ UNCHANGED <<epoch, rows, manifests, names, liveEpoch, deletableEpochs, sent,
                   introduced, durable, acked, shipped, curPartID, work, out>>
    /\ \A p \in Loops : pc'[p] \in {"merge", "send"} => pc[p] \in {"merge", "send"}
    /\ Visible \subseteq (Rows(IDs(S)) \cup shipped)
    /\ Rows(Files("table")) \subseteq (Rows(FileIDs(S)) \cup shipped)
    /\ persist' \/ FileIDs(S) = Files("table")

-----------------------------------------------------------------------------
(* Rows and snapshots *)

\* A row of some parts is a row of one of them.
LEMMA InRows ==
    \A I, x : x \in Rows(I) <=> \E i \in I : x \in rows[i]
BY Zenon DEF Rows

\* What the durable rows rest on: the parts that the current snapshot, or the
\* one before it, has in the live manifest.
LEMMA Recovers ==
    ASSUME IInv, DurableInv
    PROVE  DurableRecoverable /\ SyncCompleteSurvives /\ LiveManifestKept
<1>1. CASE status = "down"
  BY Zenon, <1>1
     DEF DurableInv, DurableRecoverable, SyncCompleteSurvives, LiveManifestKept, Kept
<1>2. CASE status = "up"
  <2>1. PICK h \in Holder : Named(Files(h)) /\ Kept(Files(h))
    BY Zenon, <1>2, Numbers DEF IInv, DurableInv, DurableFiles
  <2>2. ASSUME NEW i \in Files(h)
        PROVE  i \in Recoverable
    <3>1. i \in ID /\ dir[i] = "full"
      BY Zenon, HeldParts
    <3>2. liveEpoch # 0 /\ liveEpoch \in Epoch /\ i \in names[liveEpoch]
      BY Zenon, <2>1 DEF Named, IInv, TypeOK
    <3>3. Newest(liveEpoch)
      BY Zenon, <1>2, <3>2 DEF DurableInv, ManifestsOrdered
    <3> QED
      BY Zenon, <3>1, <3>2, <3>3 DEF Recoverable
  <2>3. DurableRecoverable /\ SyncCompleteSurvives
    BY Zenon, <2>1, <2>2, InRows DEF DurableRecoverable, SyncCompleteSurvives, Kept
  <2>4. LiveManifestKept
    BY Zenon, <1>2 DEF DurableInv, ManifestsOrdered, LiveManifestKept, Newest
  <2> QED
    BY Zenon, <2>3, <2>4
<1> QED
  BY Zenon, <1>1, <1>2 DEF IInv, TypeOK
-----------------------------------------------------------------------------
(* Steps that leave the current snapshot alone *)

\* Parts up to curPartID keep their rows.
LEMMA RowsStay ==
    ASSUME DiskQuiet, NEW I, \A i \in I : i \in ID /\ i <= curPartID
    PROVE  UNION {rows'[i] : i \in I} = Rows(I)
BY Zenon DEF DiskQuiet, Rows

\* Such a step keeps the rows where they are.
LEMMA QuietRows ==
    ASSUME IInv, RowsInv, Quiet
    PROVE  RowsInv' /\ Visible' = Visible
<1> USE DEF IDs
<1>1. DiskQuiet /\ status = "up" /\ status' = "up"
  BY Zenon DEF Quiet
<1>2. {"table", "next", "introducer"} \subseteq Holder
  BY Zenon, Numbers DEF IInv
<1>3. Visible' = Visible
  <2>1. Snapshot("table")' = Snapshot("table")
    BY Zenon, SameParts DEF Quiet, IntroQuiet
  <2>2. UNION {rows'[i] : i \in IDs(Snapshot("table"))} = Rows(IDs(Snapshot("table")))
    BY Zenon, <1>1, <1>2, HeldParts, RowsStay
  <2> QED
    BY Zenon, <2>1, <2>2 DEF Visible, Rows
<1>4. shipped \subseteq shipped' /\ introduced' = introduced
  BY Zenon, <1>1 DEF DiskQuiet
<1>5. NothingDropped'
  BY Zenon, <1>1, <1>3, <1>4 DEF NothingDropped, RowsInv, Running
<1>6. ASSUME ipc' = "replace"
      PROVE  Visible' \subseteq (Rows(IDs(Snapshot("next"))) \cup shipped)'
  <2>1. ipc = "replace" /\ SameSnapshot("next")
    BY Zenon, <1>6 DEF Quiet, IntroQuiet
  <2>2. Snapshot("next")' = Snapshot("next")
    BY Zenon, <2>1, SameParts
  <2>3. UNION {rows'[i] : i \in IDs(Snapshot("next"))} = Rows(IDs(Snapshot("next")))
    BY Zenon, <1>1, <1>2, HeldParts, RowsStay
  <2>4. Rows(IDs(Snapshot("next")))' = Rows(IDs(Snapshot("next")))
    BY Zenon, <2>2, <2>3 DEF Rows
  <2> QED
    BY Zenon, <1>3, <1>4, <2>1, <2>4 DEF RowsInv
<1>7. ASSUME NEW p \in Loops
      PROVE  (\A i \in work'[p] : i <= curPartID') /\ Merged(p)'
  <2>1. CASE (\A i \in work'[p] : i <= curPartID') /\ Merged(p)'
    BY Zenon, <2>1
  <2>2. CASE /\ work'[p] = work[p] /\ out'[p] = out[p]
             /\ pc'[p] \in {"merge", "send"} => pc[p] \in {"merge", "send"}
    <3>1. /\ work[p] \subseteq ID /\ out[p] \subseteq ID
          /\ \A i \in work[p] \cup out[p] : i <= curPartID
      BY Zenon DEF IInv, TypeOK, IDsBelow, RowsInv
    <3>2. /\ curPartID \in Nat /\ curPartID' \in Nat /\ curPartID <= curPartID'
          /\ \A i \in ID : i \in Nat
      BY Zenon, <1>1, Numbers DEF IInv, DiskQuiet
    <3>3. \A i \in work[p] : i <= curPartID'
      BY <3>1, <3>2
    <3>4. /\ UNION {rows'[i] : i \in work[p]} = Rows(work[p])
          /\ UNION {rows'[i] : i \in out[p]} = Rows(out[p])
      BY Zenon, <1>1, <3>1, RowsStay
    <3>5. Merged(p)
      BY Zenon DEF RowsInv
    <3>6. /\ Rows(work[p])' = Rows(work[p])
          /\ Rows(out[p])' = Rows(out[p])
      BY Zenon, <2>2, <3>4 DEF Rows
    <3> QED
      BY Zenon, <1>4, <2>2, <3>3, <3>5, <3>6 DEF Merged
  <2> QED
    BY Zenon, <2>1, <2>2 DEF Quiet, LoopQuiet
<1>8. /\ \A i \in ID : rows'[i] \subseteq sent'
      /\ "syncer" \notin Loops => shipped' = {}
      /\ ipc' = "applied" => held'["table"] # 0
  BY Zenon, <1>1 DEF DiskQuiet, RowsInv, Quiet, IntroQuiet, SameSnapshot
<1> QED
  BY Zenon, <1>1, <1>3, <1>5, <1>6, <1>7, <1>8 DEF RowsInv

\* And it keeps what is durable on disk.
LEMMA QuietDurable ==
    ASSUME IInv, DurableInv, Quiet
    PROVE  DurableInv'
<1>1. DiskQuiet /\ IntroQuiet /\ status = "up" /\ status' = "up"
  BY Zenon DEF Quiet
<1>2. {"table", "next", "introducer"} \subseteq Holder
  BY Zenon, Numbers DEF IInv
<1>3. ASSUME NEW h \in Holder, SameSnapshot(h)
      PROVE  /\ Named(Files(h)) => Named(Files(h))'
             /\ Kept(Files(h)) /\ acked' \subseteq (acked \cup Rows(Files(h))) => Kept(Files(h))'
  <2>1. Files(h)' = Files(h)
    BY Zenon, <1>3, SameParts
  <2>2. UNION {rows'[i] : i \in Files(h)} = Rows(Files(h))
    BY Zenon, <1>1, HeldParts, RowsStay
  <2>3. Rows(Files(h))' = Rows(Files(h))
    BY Zenon, <2>1, <2>2 DEF Rows
  <2> QED
    BY Zenon, <1>1, <2>1, <2>3 DEF Named, Kept, DiskQuiet
<1>4. DurableFiles'
  <2>1. DurableFiles /\ SameSnapshot("table")
    BY Zenon, <1>1 DEF DurableInv, IntroQuiet
  <2>2. Kept(Files("table"))' /\ (Named(Files("table")) => Named(Files("table"))')
    <3>1. acked' \subseteq (acked \cup Rows(Files("table")))
      BY Zenon, <1>1 DEF IntroQuiet
    <3> QED
      BY Zenon, <1>2, <1>3, <2>1, <3>1 DEF DurableFiles
  <2>3. CASE ipc \in {"applied", "clean"} /\ ipc' \in {"clean", "idle"}
    BY Zenon, <2>1, <2>2, <2>3 DEF DurableFiles
  <2>4. CASE /\ UNCHANGED <<ipc, epoch, persist, acked>>
             /\ SameSnapshot("next") /\ SameSnapshot("introducer")
    <3>1. /\ Named(Files("next")) => Named(Files("next"))'
          /\ Kept(Files("next")) => Kept(Files("next"))'
          /\ Named(Files("introducer")) => Named(Files("introducer"))'
          /\ Kept(Files("introducer")) => Kept(Files("introducer"))'
      BY Zenon, <1>2, <1>3, <2>4
    <3> QED
      BY Zenon, <2>1, <2>2, <2>4, <3>1 DEF DurableFiles
  <2> QED
    BY Zenon, <1>1, <2>3, <2>4 DEF IntroQuiet
<1>5. \A f \in deletableEpochs' : f < liveEpoch'
  BY Zenon, <1>1 DEF DurableInv, DiskQuiet
<1>6. ManifestsOrdered'
  <2>1. ManifestsOrdered /\ liveEpoch' = liveEpoch /\ manifests' \subseteq manifests
    BY Zenon, <1>1 DEF DurableInv, DiskQuiet
  <2>2. (liveEpoch = 0 => manifests' = {}) /\ (liveEpoch # 0 => Newest(liveEpoch)')
    <3>1. liveEpoch \notin deletableEpochs /\ liveEpoch \in Nat
      BY DEF DurableInv, IInv, TypeOK, Epoch
    <3> QED
      BY Zenon, <1>1, <2>1, <3>1 DEF ManifestsOrdered, Newest, DiskQuiet
  <2>3. epoch \in Nat /\ \A f \in manifests : f \in Nat
    BY Numbers DEF IInv, TypeOK, Epoch
  <2>4. \A f \in manifests' :
           f <= epoch' /\ (ipc' \in {"idle", "replace", "persist"} => f < epoch')
    BY <1>1, <2>1, <2>3 DEF ManifestsOrdered, IntroQuiet
  <2>5. /\ ipc' = "replace" => held'["next"] = epoch' /\ held'["introducer"] = held'["table"]
        /\ ipc' = "persist" => held'["table"] = epoch'
    BY Zenon, <1>1, <2>1 DEF ManifestsOrdered, IntroQuiet, SameSnapshot
  <2> QED
    BY Zenon, <2>1, <2>2, <2>4, <2>5 DEF ManifestsOrdered
<1> QED
  BY Zenon, <1>1, <1>4, <1>5, <1>6 DEF DurableInv
\* A step that touches neither the snapshots nor the introducer nor the
\* manifests is quiet as far as these go.
LEMMA StillQuiet ==
    ASSUME UNCHANGED <<parts, held, ipc, epoch, persist, acked>>
    PROVE  IntroQuiet
BY Zenon DEF IntroQuiet, SameSnapshot

\* Nothing on disk but the directories changes.
LEMMA SameDiskQuiet ==
    ASSUME IInv, RowsInv,
           UNCHANGED <<names, introduced, durable, liveEpoch, manifests, deletableEpochs,
                       curPartID, rows, sent, shipped>>
    PROVE  DiskQuiet
<1>1. /\ curPartID \in Nat /\ sent \in SUBSET Writes
      /\ \A i \in ID : rows[i] \subseteq sent
  BY Zenon, Numbers DEF IInv, TypeOK, RowsInv
<1> QED
  BY <1>1 DEF DiskQuiet

\* Removals, received parts and flushed files.
LEMMA DirectoriesQuiet ==
    ASSUME IInv, RowsInv,
           \/ \E i \in ID : MustRMAll(i)
           \/ \E r \in Receivers : FinishSync(r) \/ AbortSync(r)
           \/ \E i \in ID : MustFlush(i)
    PROVE  Quiet
<1>1. /\ UNCHANGED <<parts, held, ipc, epoch, persist, acked>>
      /\ UNCHANGED <<names, introduced, durable, liveEpoch, manifests, deletableEpochs,
                     curPartID, rows, sent, shipped>>
      /\ UNCHANGED <<pc, work, out, status>>
  BY Zenon DEF MustRMAll, FinishSync, AbortSync, MustFlush, loops, gc, intro, history, counts
<1>2. status = "up"
  BY Zenon DEF IInv, TypeOK, DownEmpty, MustRMAll, FinishSync, AbortSync, MustFlush, Running
<1>3. IntroQuiet /\ DiskQuiet
  BY Zenon, <1>1, StillQuiet, SameDiskQuiet
<1>4. \A p \in Loops : LoopQuiet(p)
  BY Zenon, <1>1 DEF LoopQuiet
<1> QED
  BY Zenon, <1>1, <1>2, <1>3, <1>4 DEF Quiet

\* A part that is completed by a merge, and the steps of a flush.
LEMMA RoundsQuiet ==
    ASSUME IInv, RowsInv,
           \/ \E p \in Loops : FinishMerge(p)
           \/ StartFlush
           \/ \E i \in ID : MustFlushDone(i)
    PROVE  Quiet
<1>1. /\ UNCHANGED <<parts, held, ipc, epoch, persist, acked>>
      /\ UNCHANGED <<names, introduced, durable, liveEpoch, manifests, deletableEpochs,
                     curPartID, rows, sent, shipped>>
      /\ UNCHANGED status
  BY Zenon DEF FinishMerge, StartFlush, MustFlushDone, disk, loops, gc, intro, history, counts
<1>2. status = "up"
  BY Zenon DEF IInv, TypeOK, FinishMerge, StartFlush, MustFlushDone, Running
<1>3. IntroQuiet /\ DiskQuiet
  BY Zenon, <1>1, StillQuiet, SameDiskQuiet
<1>4. /\ pc \in [Loops -> {"idle", "ready", "merge", "flush", "send", "sendFlush",
                           "applied", "done"}]
      /\ work \in [Loops -> SUBSET ID] /\ out \in [Loops -> SUBSET ID]
  BY Zenon DEF IInv, TypeOK
<1>5. ASSUME NEW q \in Loops
      PROVE  LoopQuiet(q)
  <2>1. CASE \E p \in Loops : FinishMerge(p)
    BY Zenon, <1>4, <2>1 DEF FinishMerge, LoopQuiet
  <2>2. CASE StartFlush
    <3>1. \A i \in MemIDs(Snapshot("flusher")) : i <= curPartID
      <4>1. "flusher" \in Holder
        BY Zenon, <2>2, Numbers DEF StartFlush, IInv
      <4>2. \A i \in MemIDs(Snapshot("flusher")) : i \in IDs(Snapshot("flusher"))
        <5>1. \A i : PartID(<<"mem", i>>) = i
          BY Zenon DEF PartID
        <5> QED
          BY Zenon, <5>1 DEF IDs, MemIDs
      <4> QED
        BY Zenon, <4>1, <4>2, HeldParts
    <3>2. work'[q] = (IF q = "flusher" THEN MemIDs(Snapshot("flusher")) ELSE work[q])
          /\ pc'[q] = (IF q = "flusher" THEN "flush" ELSE pc[q]) /\ out' = out
      BY Zenon, <1>4, <2>2 DEF StartFlush
    <3> QED
      BY Zenon, <1>1, <3>1, <3>2 DEF LoopQuiet, Merged
  <2>3. CASE \E i \in ID : MustFlushDone(i)
    <3>1. PICK i \in ID : MustFlushDone(i)
      BY Zenon, <2>3
    <3>2. CASE q = "flusher"
      <4>1. work'[q] \subseteq work[q] /\ pc'[q] \in {"flush", "sendFlush"}
        BY <1>4, <3>1, <3>2 DEF MustFlushDone
      <4>2. \A j \in work[q] : j <= curPartID
        BY Zenon DEF RowsInv
      <4> QED
        BY Zenon, <1>1, <4>1, <4>2 DEF LoopQuiet, Merged
    <3>3. CASE q # "flusher"
      BY <1>4, <3>1, <3>3 DEF MustFlushDone, LoopQuiet
    <3> QED
      BY Zenon, <3>2, <3>3
  <2> QED
    BY Zenon, <2>1, <2>2, <2>3
<1> QED
  BY Zenon, <1>1, <1>2, <1>3, <1>5 DEF Quiet
\* A part with the next identifier gets rows that were sent.
LEMMA NewPartQuiet ==
    ASSUME IInv, RowsInv, NEW R, curPartID < MaxPart,
           curPartID' = curPartID + 1, rows' = [rows EXCEPT ![curPartID + 1] = R],
           R \subseteq sent', sent' \in SUBSET Writes, sent \subseteq sent',
           UNCHANGED <<names, introduced, durable, liveEpoch, manifests, deletableEpochs,
                       shipped>>
    PROVE  DiskQuiet
<1>1. curPartID \in Nat /\ \A i \in ID : i \in Nat
  BY Zenon, Numbers DEF IInv
<1>2. rows \in [ID -> SUBSET Writes] /\ \A i \in ID : rows[i] \subseteq sent
  BY Zenon DEF IInv, TypeOK, RowsInv
<1>3. \A i \in ID : i <= curPartID => rows'[i] = rows[i]
  BY <1>1, <1>2
<1>4. \A i \in ID : rows'[i] \subseteq sent'
  BY Zenon, <1>2
<1>5. curPartID' \in Nat /\ curPartID <= curPartID'
  BY <1>1
<1> QED
  BY Zenon, <1>3, <1>4, <1>5 DEF DiskQuiet

\* Rows arrive.
LEMMA ArrivalQuiet ==
    ASSUME IInv, RowsInv, NEW w \in Writes,
           MustAddMemPart(w) \/ \E r \in Receivers : CreatePartHandler(r, w)
    PROVE  Quiet
<1>1. /\ UNCHANGED <<parts, held, ipc, epoch, persist, acked>>
      /\ UNCHANGED <<names, introduced, durable, liveEpoch, manifests, deletableEpochs,
                     shipped>>
      /\ UNCHANGED <<pc, work, out, status>>
      /\ status = "up" /\ curPartID < MaxPart /\ curPartID' = curPartID + 1
      /\ rows' = [rows EXCEPT ![curPartID + 1] = {w}] /\ sent' = sent \cup {w}
  BY Zenon DEF MustAddMemPart, CreatePartHandler, loops, gc, intro, counts
<1>2. sent \in SUBSET Writes
  BY Zenon DEF IInv, TypeOK
<1>3. IntroQuiet /\ DiskQuiet
  BY Zenon, <1>1, <1>2, StillQuiet, NewPartQuiet
<1>4. \A p \in Loops : LoopQuiet(p)
  BY Zenon, <1>1 DEF LoopQuiet
<1> QED
  BY Zenon, <1>1, <1>3, <1>4 DEF Quiet

\* A merge writes the rows of the parts it consumes into a new part.
LEMMA StartMergeQuiet ==
    ASSUME IInv, RowsInv, NEW p \in Loops, NEW G \in SUBSET ID, StartMerge(p, G)
    PROVE  Quiet
<1>1. /\ UNCHANGED <<parts, held, ipc, epoch, persist, acked>>
      /\ UNCHANGED <<names, introduced, durable, liveEpoch, manifests, deletableEpochs,
                     shipped, sent, status>>
      /\ curPartID < MaxPart /\ curPartID' = curPartID + 1
      /\ rows' = [rows EXCEPT ![curPartID + 1] = Rows(G)]
      /\ out' = [out EXCEPT ![p] = {curPartID + 1}] /\ work' = [work EXCEPT ![p] = G]
      /\ pc' = [pc EXCEPT ![p] = "merge"]
  BY Zenon DEF StartMerge, gc, intro, counts, history
<1>2. status = "up"
  BY Zenon DEF IInv, TypeOK, StartMerge, Running
<1>3. sent \in SUBSET Writes /\ rows \in [ID -> SUBSET Writes] /\ curPartID + 1 \in ID
  <2>1. curPartID \in 0..MaxPart /\ MaxPart \in Nat
    BY Zenon, TSTableAssumption DEF IInv, TypeOK
  <2> QED
    BY <1>1, <2>1 DEF IInv, TypeOK, ID
<1>4. Rows(G) \subseteq sent
  BY Zenon, InRows DEF RowsInv
<1>5. IntroQuiet /\ DiskQuiet
  BY Zenon, <1>1, <1>3, <1>4, StillQuiet, NewPartQuiet
<1>6. \A i \in G : i <= curPartID /\ i \in ID
  <2>1. p \in Holder /\ G \subseteq Mergeable(p)
    BY Zenon, Numbers DEF IInv, StartMerge
  <2>2. Mergeable(p) \subseteq IDs(Snapshot(p))
    <3>1. \A i : PartID(<<"mem", i>>) = i /\ PartID(<<"file", i>>) = i
      BY Zenon DEF PartID
    <3> QED
      BY Zenon, <3>1 DEF IDs, MemIDs, FileIDs, Mergeable
  <2> QED
    BY Zenon, <2>1, <2>2, HeldParts
<1>7. /\ pc \in [Loops -> {"idle", "ready", "merge", "flush", "send", "sendFlush",
                           "applied", "done"}]
      /\ work \in [Loops -> SUBSET ID] /\ out \in [Loops -> SUBSET ID]
  BY Zenon DEF IInv, TypeOK
<1>8. ASSUME NEW q \in Loops, q # p
      PROVE  LoopQuiet(q)
  BY Zenon, <1>1, <1>7, <1>8 DEF LoopQuiet
<1>9. LoopQuiet(p)
  <2>1. work'[p] = G /\ out'[p] = {curPartID + 1} /\ rows'[curPartID + 1] = Rows(G)
    BY Zenon, <1>1, <1>3, <1>7
  <2>2. curPartID \in Nat /\ \A i \in G : i \in Nat
    BY Zenon, <1>6, Numbers DEF IInv
  <2>3. \A i \in work'[p] : i <= curPartID'
    BY <1>1, <1>6, <2>1, <2>2
  <2>4. UNION {rows'[i] : i \in G} = Rows(G)
    BY Zenon, <1>5, <1>6, RowsStay
  <2>5. Rows(work[p])' = Rows(G)
    BY Zenon, <2>1, <2>4 DEF Rows
  <2>6. Rows(out[p])' = Rows(G)
    <3>1. Rows(out[p])' = UNION {rows'[i] : i \in {curPartID + 1}}
      BY Zenon, <2>1 DEF Rows
    <3> QED
      BY Zenon, <2>1, <3>1
  <2> QED
    BY Zenon, <2>3, <2>5, <2>6 DEF LoopQuiet, Merged
<1> QED
  BY Zenon, <1>1, <1>2, <1>5, <1>8, <1>9 DEF Quiet

\* The syncer ships the parts it will ask to remove.
LEMMA SyncQuiet ==
    ASSUME IInv, RowsInv, SyncSnapshot
    PROVE  Quiet
<1> DEFINE F == FileIDs(Snapshot("syncer"))
<1>1. /\ UNCHANGED <<parts, held, ipc, epoch, persist, acked>>
      /\ UNCHANGED <<names, introduced, durable, liveEpoch, manifests, deletableEpochs,
                     curPartID, rows, sent, status, out>>
      /\ shipped' = shipped \cup Rows(F) /\ "syncer" \in Loops
      /\ work' = [work EXCEPT !["syncer"] = F] /\ pc' = [pc EXCEPT !["syncer"] = "send"]
  BY Zenon DEF SyncSnapshot, gc, intro, counts, disk
<1>2. status = "up"
  BY Zenon DEF IInv, TypeOK, SyncSnapshot, Running
<1>3. IntroQuiet
  BY Zenon, <1>1, StillQuiet
<1>4. DiskQuiet
  <2>1. /\ curPartID \in Nat /\ sent \in SUBSET Writes
        /\ \A i \in ID : rows[i] \subseteq sent
    BY Zenon, Numbers DEF IInv, TypeOK, RowsInv
  <2> QED
    BY <1>1, <2>1 DEF DiskQuiet
<1>5. \A i \in F : i <= curPartID
  BY Zenon, <1>1, Numbers, HeldParts DEF Files, IInv
<1>6. ASSUME NEW q \in Loops
      PROVE  LoopQuiet(q)
  <2>1. /\ pc \in [Loops -> {"idle", "ready", "merge", "flush", "send", "sendFlush",
                             "applied", "done"}]
        /\ work \in [Loops -> SUBSET ID]
    BY Zenon DEF IInv, TypeOK
  <2>2. CASE q = "syncer"
    <3>1. work'[q] = F
      BY Zenon, <1>1, <2>1, <2>2
    <3>2. Rows(work[q])' \subseteq shipped'
      BY ZenonT(30), <1>1, <3>1 DEF Rows
    <3> QED
      BY Zenon, <1>1, <1>5, <3>1, <3>2 DEF LoopQuiet, Merged
  <2>3. CASE q # "syncer"
    BY Zenon, <1>1, <2>1, <2>3 DEF LoopQuiet
  <2> QED
    BY Zenon, <2>2, <2>3
<1> QED
  BY Zenon, <1>1, <1>2, <1>3, <1>4, <1>6 DEF Quiet
\* A query or a loop pins the current snapshot.
LEMMA AcquireQuiet ==
    ASSUME IInv, RowsInv,
           \/ \E r \in Readers : Acquire(r)
           \/ \E p \in Loops : TakeSnapshot(p)
    PROVE  Quiet
<1>1. PICK h \in Loops \cup Readers : CurrentSnapshot(h)
  BY Zenon DEF Acquire, TakeSnapshot
<1>2. /\ UNCHANGED <<parts, ipc, epoch, persist, acked>>
      /\ UNCHANGED <<names, introduced, durable, liveEpoch, manifests, deletableEpochs,
                     curPartID, rows, sent, shipped>>
      /\ UNCHANGED <<work, out, status>>
      /\ \/ pc' = pc
         \/ \E p \in Loops : pc' = [pc EXCEPT ![p] = "ready"]
  BY Zenon DEF Acquire, TakeSnapshot, disk, loops, gc, intro, history
<1>3. status = "up"
  BY Zenon DEF IInv, TypeOK, Acquire, TakeSnapshot, Running
<1>4. SameSnapshot("table") /\ SameSnapshot("next") /\ SameSnapshot("introducer")
  <2>1. h \notin {"table", "next", "introducer"} /\ held \in [Holder -> {0} \cup Epoch]
    BY Zenon, TSTableAssumption DEF IInv, TypeOK
  <2> QED
    BY <1>1, <1>2, <2>1 DEF CurrentSnapshot, SameSnapshot
<1>5. IntroQuiet /\ DiskQuiet
  BY Zenon, <1>2, <1>4, SameDiskQuiet DEF IntroQuiet
<1>6. ASSUME NEW q \in Loops
      PROVE  LoopQuiet(q)
  BY Zenon, <1>2 DEF LoopQuiet, IInv, TypeOK
<1> QED
  BY Zenon, <1>2, <1>3, <1>5, <1>6 DEF Quiet

\* A query or a loop releases its snapshot.
LEMMA ReleaseQuiet ==
    ASSUME IInv, RowsInv,
           \/ \E r \in Readers : ReleaseReader(r)
           \/ \E p \in Loops : FailRound(p) \/ Release(p)
    PROVE  Quiet
<1>1. PICK h \in Loops \cup Readers : DecRef(held[h]) /\ held' = [held EXCEPT ![h] = 0]
  BY Zenon DEF ReleaseReader, FailRound, Release, EndRound
<1>2. /\ UNCHANGED <<ipc, epoch, persist, acked>>
      /\ UNCHANGED <<names, introduced, durable, liveEpoch, manifests, deletableEpochs,
                     curPartID, rows, sent, shipped>>
      /\ UNCHANGED status
      /\ \/ UNCHANGED <<pc, work, out>>
         \/ \E p \in Loops : /\ pc' = [pc EXCEPT ![p] = "idle"]
                             /\ work' = [work EXCEPT ![p] = {}]
                             /\ out' = [out EXCEPT ![p] = {}]
  BY ZenonT(30) DEF ReleaseReader, FailRound, Release, EndRound, disk, loops, gc, intro, history
<1>3. status = "up"
  <2>1. status \in {"up", "closing", "down"} /\ status # "closing"
    BY Zenon DEF IInv, TypeOK
  <2>2. CASE \E p \in Loops : FailRound(p) \/ Release(p)
    BY Zenon, <2>1, <2>2 DEF FailRound, Release, Running
  <2>3. CASE \E r \in Readers : held[r] # 0
    BY Zenon, <2>1, <2>3 DEF IInv, DownEmpty, Holder
  <2> QED
    BY Zenon, <2>2, <2>3 DEF ReleaseReader
<1>4. SameSnapshot("table") /\ SameSnapshot("next") /\ SameSnapshot("introducer")
  <2>1. /\ h \notin {"table", "next", "introducer"} /\ h \in Holder
        /\ {"table", "next", "introducer"} \subseteq Holder
    BY Zenon, TSTableAssumption, Numbers DEF IInv
  <2>2. held \in [Holder -> {0} \cup Epoch] /\ TypeOK /\ Counted
    BY Zenon DEF IInv, TypeOK
  <2>3. ASSUME NEW g \in {"table", "next", "introducer"}
        PROVE  SameSnapshot(g)
    <3>1. g \in Holder /\ g # h
      BY Zenon, <2>1
    <3>2. held[g] # 0 => parts'[held[g]] = parts[held[g]]
      BY Zenon, <1>1, <2>1, <2>2, <3>1, OthersKept
    <3> QED
      BY Zenon, <1>1, <2>2, <3>1, <3>2 DEF SameSnapshot
  <2> QED
    BY Zenon, <2>3
<1>5. IntroQuiet /\ DiskQuiet
  BY Zenon, <1>2, <1>4, SameDiskQuiet DEF IntroQuiet
<1>6. ASSUME NEW q \in Loops
      PROVE  LoopQuiet(q)
  BY Zenon, <1>2 DEF LoopQuiet, Merged, IInv, TypeOK
<1> QED
  BY Zenon, <1>2, <1>3, <1>5, <1>6 DEF Quiet

\* The introducer goes on after an introduction.
LEMMA AppliedQuiet ==
    ASSUME IInv, RowsInv, Applied
    PROVE  Quiet
<1> DEFINE finished == {r \in Receivers : session[r] # 0 /\
                                          <<"file", session[r]>> \in parts[held["table"]]}
<1>1. /\ DecRef(held["introducer"]) /\ held' = [held EXCEPT !["introducer"] = 0]
      /\ UNCHANGED <<names, introduced, durable, liveEpoch, manifests, deletableEpochs,
                     curPartID, rows, sent, shipped>>
      /\ UNCHANGED <<work, out, status>> /\ ipc = "applied"
      /\ pc' = [p \in Loops |->
                  IF p # client THEN pc[p]
                  ELSE IF p = "flusher" /\ work[p] # {} THEN "ready" ELSE "done"]
      /\ \/ ipc' = "idle" /\ epoch' = epoch + 1
         \/ ipc' = "clean" /\ epoch' = epoch
      /\ acked' = acked \cup Rows({session[r] : r \in finished})
  BY Zenon DEF Applied, disk, gc
<1>2. status = "up"
  BY Zenon DEF IInv, TypeOK, Applied, Running
<1>3. SameSnapshot("table")
  <2>1. "introducer" \in Holder /\ "table" \in Holder /\ held \in [Holder -> {0} \cup Epoch]
    BY Zenon, Numbers DEF IInv, TypeOK
  <2>2. held["table"] # 0 => parts'[held["table"]] = parts[held["table"]]
    BY Zenon, <1>1, <2>1, OthersKept DEF IInv
  <2> QED
    BY Zenon, <1>1, <2>1, <2>2 DEF SameSnapshot
<1>4. acked' \subseteq (acked \cup Rows(Files("table")))
  <2>1. Snapshot("table") = parts[held["table"]]
    BY Zenon, <1>1 DEF RowsInv, Snapshot
  <2>2. \A r \in finished : session[r] \in Files("table")
    BY Zenon, <2>1 DEF Files, FileIDs, IInv, TypeOK
  <2>3. {session[r] : r \in finished} \subseteq Files("table")
    BY Zenon, <2>2
  <2> HIDE DEF finished
  <2>4. Rows({session[r] : r \in finished}) \subseteq Rows(Files("table"))
    BY Zenon, <2>3 DEF Rows
  <2> QED
    BY Zenon, <1>1, <2>4
<1>5. IntroQuiet /\ DiskQuiet
  BY Zenon, <1>1, <1>3, <1>4, SameDiskQuiet DEF IntroQuiet
<1>6. ASSUME NEW q \in Loops
      PROVE  LoopQuiet(q)
  BY Zenon, <1>1 DEF LoopQuiet
<1> QED
  BY Zenon, <1>1, <1>2, <1>5, <1>6 DEF Quiet

\* gc.clean removes manifests that are no longer live.
LEMMA CleanQuiet ==
    ASSUME IInv, RowsInv, Clean
    PROVE  Quiet
<1>1. /\ UNCHANGED <<names, introduced, durable, liveEpoch, curPartID, rows, sent, shipped>>
      /\ UNCHANGED <<pc, work, out, status, parts, held>> /\ ipc = "clean"
      /\ ipc' = "idle" /\ epoch' = epoch + 1 /\ acked' = acked
  BY Zenon DEF Clean, counts, loops, history
<1>2. PICK D \in SUBSET deletableEpochs : /\ manifests' = manifests \ D
                                          /\ deletableEpochs' = deletableEpochs \ D
  BY Zenon DEF Clean
<1>3. status = "up"
  BY Zenon DEF IInv, TypeOK, Clean, Running
<1>4. IntroQuiet
  BY Zenon, <1>1 DEF IntroQuiet, SameSnapshot
<1>5. DiskQuiet
  <2>1. /\ curPartID \in Nat /\ sent \in SUBSET Writes
        /\ \A i \in ID : rows[i] \subseteq sent
    BY Zenon, Numbers DEF IInv, TypeOK, RowsInv
  <2> QED
    BY <1>1, <1>2, <2>1 DEF DiskQuiet
<1>6. \A q \in Loops : LoopQuiet(q)
  BY Zenon, <1>1 DEF LoopQuiet
<1> QED
  BY Zenon, <1>1, <1>3, <1>4, <1>5, <1>6 DEF Quiet

-----------------------------------------------------------------------------
(* Building the next snapshot *)

\* introducePart adds to the current snapshot.
LEMMA PartBuilds ==
    ASSUME IInv, NEW w \in Part, IntroducePart(w)
    PROVE  Builds(Snapshot("table") \cup {w})
<1> DEFINE S == Snapshot("table") \cup {w}
<1>1. /\ status = "up" /\ ipc = "idle" /\ ipc' = "replace" /\ persist' = (Kind(w) = "file")
      /\ SameSnapshot("table") /\ held'["introducer"] = held["table"]
      /\ held'["next"] = epoch /\ parts'[epoch] = (Snapshot("table") \ {}) \cup {w}
  BY IntroduceBuilds DEF IntroducePart
<1>2. UNCHANGED <<epoch, rows, manifests, names, liveEpoch, deletableEpochs, sent,
                  introduced, durable, acked, shipped, curPartID, work, out, pc, status>>
  BY Zenon DEF IntroducePart, disk, loops, gc, history
<1>3. Visible \subseteq Rows(IDs(S))
  BY Zenon DEF Visible, Rows, IDs
<1>4. Files("table") \subseteq FileIDs(S)
  BY Zenon DEF Files, FileIDs
<1>5. Rows(Files("table")) \subseteq Rows(FileIDs(S))
  BY Zenon, <1>4, InRows
<1>6. Kind(w) # "file" => FileIDs(S) = Files("table")
  BY DEF Files, FileIDs, Kind
<1>7. parts'[epoch] = S
  BY Zenon, <1>1
<1> QED
  BY Zenon, <1>1, <1>2, <1>3, <1>5, <1>6, <1>7 DEF Builds

\* introduceFlushed replaces memory parts by file parts with the same rows.
LEMMA FlushedBuilds ==
    ASSUME IInv, IntroduceFlushed
    PROVE  \E S : Builds(S)
<1> DEFINE hit == {w \in Snapshot("table") : PartID(w) \in out["flusher"]}
           S == (Snapshot("table") \ hit) \cup {<<"file", PartID(w)>> : w \in hit}
<1>1. /\ status = "up" /\ ipc = "idle" /\ ipc' = "replace" /\ persist' = TRUE
      /\ SameSnapshot("table") /\ held'["introducer"] = held["table"]
      /\ held'["next"] = epoch /\ parts'[epoch] = S
  BY Zenon, IntroduceBuilds DEF IntroduceFlushed
<1>2. /\ UNCHANGED <<epoch, rows, manifests, names, liveEpoch, deletableEpochs, sent,
                     introduced, durable, acked, shipped, curPartID, work, out, status>>
      /\ "flusher" \in Loops /\ pc' = [pc EXCEPT !["flusher"] = "applied"]
  BY Zenon DEF IntroduceFlushed, disk, gc, history
<1>3. \A p \in Loops : pc'[p] \in {"merge", "send"} => pc[p] \in {"merge", "send"}
  BY Zenon, <1>2 DEF IInv, TypeOK
<1>4. \A i : PartID(<<"file", i>>) = i
  BY Zenon DEF PartID
<1>5. IDs(Snapshot("table")) \subseteq IDs(S)
  <2>1. ASSUME NEW w \in Snapshot("table")
        PROVE  \E v \in S : PartID(v) = PartID(w)
    <3>1. CASE w \in hit
      <4>1. <<"file", PartID(w)>> \in S
        BY Zenon, <3>1
      <4> QED
        BY Zenon, <1>4, <4>1
    <3>2. CASE w \notin hit
      BY Zenon, <3>2
    <3> QED
      BY Zenon, <3>1, <3>2
  <2> QED
    BY Zenon, <2>1 DEF IDs
<1>6. Files("table") \subseteq FileIDs(S)
  <2>1. ASSUME NEW i \in ID, <<"file", i>> \in Snapshot("table")
        PROVE  <<"file", i>> \in S
    <3>1. CASE <<"file", i>> \in hit
      <4>1. <<"file", PartID(<<"file", i>>)>> \in S
        BY Zenon, <3>1
      <4> QED
        BY Zenon, <1>4, <4>1
    <3>2. CASE <<"file", i>> \notin hit
      BY Zenon, <2>1, <3>2
    <3> QED
      BY Zenon, <3>1, <3>2
  <2> QED
    BY Zenon, <2>1 DEF Files, FileIDs
<1> HIDE DEF S, hit
<1>7. Visible = Rows(IDs(Snapshot("table")))
  BY Zenon DEF Visible, IDs
<1>8. Visible \subseteq Rows(IDs(S)) /\ Rows(Files("table")) \subseteq Rows(FileIDs(S))
  BY Zenon, <1>5, <1>6, <1>7, InRows
<1>9. Builds(S)
  BY Zenon, <1>1, <1>2, <1>3, <1>8 DEF Builds
<1> QED
  BY Zenon, <1>9

\* introduceMerged and introduceSync drop the consumed parts, whose rows are
\* in the outcome or were shipped.
LEMMA MergedBuilds ==
    ASSUME IInv, RowsInv, NEW p \in Loops, IntroduceMerged(p)
    PROVE  \E S : Builds(S)
<1> DEFINE hit == {w \in Snapshot("table") : PartID(w) \in work[p]}
           S == (Snapshot("table") \ hit) \cup {<<"file", i>> : i \in out[p]}
<1>1. /\ status = "up" /\ ipc = "idle" /\ ipc' = "replace" /\ persist' = TRUE
      /\ SameSnapshot("table") /\ held'["introducer"] = held["table"]
      /\ held'["next"] = epoch /\ parts'[epoch] = S
  BY Zenon, IntroduceBuilds DEF IntroduceMerged
<1>2. /\ UNCHANGED <<epoch, rows, manifests, names, liveEpoch, deletableEpochs, sent,
                     introduced, durable, acked, shipped, curPartID, work, out, status>>
      /\ pc' = [pc EXCEPT ![p] = "applied"] /\ pc[p] = "send"
  BY Zenon DEF IntroduceMerged, disk, gc, history
<1>3. \A q \in Loops : pc'[q] \in {"merge", "send"} => pc[q] \in {"merge", "send"}
  BY Zenon, <1>2 DEF IInv, TypeOK
<1>4. \A i : PartID(<<"file", i>>) = i
  BY Zenon DEF PartID
<1>5. Rows(work[p]) \subseteq (Rows(out[p]) \cup shipped) /\ out[p] \subseteq ID
  BY Zenon, <1>2 DEF RowsInv, Merged, IInv, TypeOK
<1>6. \A w \in Snapshot("table") : PartID(w) \in work[p] \/ w \in S
  BY Zenon
<1>7. \A i \in out[p] : <<"file", i>> \in S
  BY Zenon
<1> HIDE DEF S, hit
<1>8. out[p] \subseteq FileIDs(S) /\ out[p] \subseteq IDs(S)
  BY Zenon, <1>4, <1>5, <1>7 DEF FileIDs, IDs
<1>9. ASSUME NEW x, x \in Visible
      PROVE  x \in Rows(IDs(S)) \/ x \in shipped
  <2>1. PICK w \in Snapshot("table") : x \in rows[PartID(w)]
    BY Zenon, <1>9 DEF Visible, Rows
  <2>2. CASE PartID(w) \in work[p]
    BY Zenon, <1>5, <1>8, <2>1, <2>2, InRows
  <2>3. CASE w \in S
    <3>1. PartID(w) \in IDs(S)
      BY Zenon, <2>3 DEF IDs
    <3> QED
      BY Zenon, <2>1, <3>1, InRows
  <2> QED
    BY Zenon, <1>6, <2>2, <2>3
<1>10. ASSUME NEW x, x \in Rows(Files("table"))
       PROVE  x \in Rows(FileIDs(S)) \/ x \in shipped
  <2>1. PICK i \in Files("table") : x \in rows[i]
    BY Zenon, <1>10, InRows
  <2>2. i \in ID /\ <<"file", i>> \in Snapshot("table")
    BY Zenon DEF Files, FileIDs
  <2>3. CASE i \in work[p]
    BY Zenon, <1>5, <1>8, <2>1, <2>3, InRows
  <2>4. CASE <<"file", i>> \in S
    <3>1. i \in FileIDs(S)
      BY Zenon, <2>2, <2>4 DEF FileIDs
    <3> QED
      BY Zenon, <2>1, <3>1, InRows
  <2> QED
    BY Zenon, <1>4, <1>6, <2>2, <2>3, <2>4
<1>11. Builds(S)
  BY Zenon, <1>1, <1>2, <1>3, <1>9, <1>10 DEF Builds
<1> QED
  BY Zenon, <1>11
\* Building a snapshot keeps the rows where they are, and what is durable.
LEMMA BuildsInv ==
    ASSUME IInv, RowsInv, NEW S, Builds(S)
    PROVE  RowsInv' /\ Visible' = Visible /\ (DurableInv => DurableInv')
<1>1. /\ Snapshot("table")' = Snapshot("table") /\ Files("table")' = Files("table")
      /\ UNCHANGED <<epoch, rows, manifests, names, liveEpoch, deletableEpochs, sent,
                     introduced, durable, acked, shipped, curPartID, work, out>>
      /\ status = "up" /\ status' = "up" /\ ipc = "idle" /\ ipc' = "replace"
  BY Zenon, SameParts DEF Builds
<1>2. Visible' = Visible
  BY Zenon, <1>1 DEF Visible, Rows
<1>3. Snapshot("next")' = S
  <2>1. epoch # 0
    BY Numbers DEF IInv
  <2> QED
    BY Zenon, <2>1 DEF Builds, Snapshot
<1>4. Files("next")' = FileIDs(S)
  BY Zenon, <1>3 DEF Files, FileIDs
<1>5. RowsInv'
  <2>1. NothingDropped'
    BY Zenon, <1>1, <1>2 DEF NothingDropped, Running, RowsInv
  <2>2. Visible' \subseteq (Rows(IDs(Snapshot("next"))) \cup shipped)'
    <3>1. Rows(IDs(Snapshot("next")))' = Rows(IDs(S))
      BY Zenon, <1>1, <1>3 DEF Rows, IDs
    <3> QED
      BY Zenon, <1>1, <1>2, <3>1 DEF Builds
  <2>3. \A p \in Loops : Merged(p)'
    <3>1. \A p \in Loops : Rows(work[p])' = Rows(work[p]) /\ Rows(out[p])' = Rows(out[p])
      BY Zenon, <1>1 DEF Rows
    <3> QED
      BY Zenon, <1>1, <3>1 DEF Merged, RowsInv, Builds
  <2> QED
    BY Zenon, <1>1, <2>1, <2>2, <2>3 DEF RowsInv
<1>6. ASSUME DurableInv
      PROVE  DurableInv'
  <2>1. ManifestsOrdered /\ DurableFiles /\ \A f \in deletableEpochs' : f < liveEpoch'
    BY Zenon, <1>1, <1>6 DEF DurableInv
  <2>2. ManifestsOrdered'
    <3>1. Newest(liveEpoch)' <=> Newest(liveEpoch)
      BY Zenon, <1>1 DEF Newest
    <3>2. held'["next"] = epoch' /\ held'["introducer"] = held'["table"]
      BY Zenon, <1>1 DEF Builds, SameSnapshot
    <3> QED
      BY Zenon, <1>1, <2>1, <3>1, <3>2 DEF ManifestsOrdered
  <2>3. Kept(Files("table"))' /\ Named(Files("table"))'
    <3>1. Rows(Files("table"))' = Rows(Files("table"))
      BY Zenon, <1>1 DEF Rows
    <3> QED
      BY Zenon, <1>1, <2>1, <3>1 DEF DurableFiles, Kept, Named
  <2>4. Kept(Files("next"))'
    <3>1. Rows(Files("next"))' = Rows(FileIDs(S))
      BY Zenon, <1>1, <1>4 DEF Rows
    <3>2. Rows(Files("table")) \subseteq (Rows(FileIDs(S)) \cup shipped)
      BY Zenon DEF Builds
    <3> QED
      BY Zenon, <1>1, <2>1, <3>1, <3>2 DEF DurableFiles, Kept
  <2>5. persist' \/ Named(Files("next"))'
    <3>1. persist' \/ FileIDs(S) = Files("table")
      BY Zenon DEF Builds
    <3>2. CASE FileIDs(S) = Files("table")
      BY Zenon, <1>1, <1>4, <2>1, <3>2 DEF DurableFiles, Named
    <3> QED
      BY Zenon, <3>1, <3>2
  <2>6. DurableFiles'
    BY Zenon, <1>1, <2>3, <2>4, <2>5 DEF DurableFiles
  <2> QED
    BY Zenon, <1>1, <2>1, <2>2, <2>6 DEF DurableInv
<1> QED
  BY Zenon, <1>2, <1>5, <1>6

-----------------------------------------------------------------------------
(* The other steps of the introducer *)

\* The new snapshot has all rows of the old one that were not shipped.
LEMMA ReplaceRows ==
    ASSUME IInv, RowsInv, ReplaceSnapshot
    PROVE  RowsInv' /\ Visible \subseteq (Visible' \cup shipped)
<1>1. /\ UNCHANGED <<status, rows, sent, shipped, curPartID, pc, work, out>>
      /\ introduced' = introduced \cup Rows(IDs(Snapshot("next")))
      /\ Snapshot("table")' = Snapshot("next") /\ ipc = "replace" /\ ipc' # "replace"
      /\ status = "up" /\ held'["table"] # 0
  BY Zenon, ReplaceSnapshots
<1>2. Visible' = Rows(IDs(Snapshot("next")))
  BY Zenon, <1>1 DEF Visible, Rows, IDs
<1>3. Visible \subseteq (Visible' \cup shipped)
  BY Zenon, <1>1, <1>2 DEF RowsInv
<1>4. NothingDropped'
  BY Zenon, <1>1, <1>2, <1>3 DEF NothingDropped, Running, RowsInv
<1>5. \A p \in Loops : Merged(p)'
  <2>1. \A p \in Loops : Rows(work[p])' = Rows(work[p]) /\ Rows(out[p])' = Rows(out[p])
    BY Zenon, <1>1 DEF Rows
  <2> QED
    BY Zenon, <1>1, <2>1 DEF Merged, RowsInv
<1> QED
  BY Zenon, <1>1, <1>3, <1>4, <1>5 DEF RowsInv

\* Until the manifest is written, the durable rows rest on the old snapshot.
LEMMA ReplaceDurable ==
    ASSUME IInv, DurableInv, ReplaceSnapshot
    PROVE  DurableInv'
<1>1. /\ UNCHANGED <<status, rows, manifests, names, liveEpoch, deletableEpochs, epoch,
                     durable, acked, shipped>>
      /\ Files("table")' = Files("next") /\ held'["table"] = held["next"]
      /\ SameSnapshot("introducer") /\ status = "up" /\ ipc = "replace"
      /\ ipc' = IF persist THEN "persist" ELSE "applied"
  BY Zenon, ReplaceSnapshots
<1>2. ManifestsOrdered /\ DurableFiles /\ \A f \in deletableEpochs' : f < liveEpoch'
  BY Zenon, <1>1 DEF DurableInv
<1>3. Files("introducer")' = Files("introducer")
  BY Zenon, <1>1, SameParts
<1>4. Files("introducer") = Files("table")
  BY Zenon, <1>1, <1>2 DEF ManifestsOrdered, Files, Snapshot
<1>5. Named(Files("introducer"))' /\ Kept(Files("introducer"))'
  <2>1. Rows(Files("introducer"))' = Rows(Files("table"))
    BY Zenon, <1>1, <1>3, <1>4 DEF Rows
  <2> QED
    BY Zenon, <1>1, <1>2, <1>3, <1>4, <2>1 DEF DurableFiles, Named, Kept
<1>6. Kept(Files("table"))' /\ (~persist => Named(Files("table"))')
  <2>1. Rows(Files("table"))' = Rows(Files("next"))
    BY Zenon, <1>1 DEF Rows
  <2> QED
    BY Zenon, <1>1, <1>2, <2>1 DEF DurableFiles, Named, Kept
<1>7. DurableFiles'
  BY Zenon, <1>1, <1>5, <1>6 DEF DurableFiles
<1>8. ManifestsOrdered'
  <2>1. Newest(liveEpoch)' <=> Newest(liveEpoch)
    BY Zenon, <1>1 DEF Newest
  <2>2. ipc' # "replace" /\ held'["table"] = epoch'
    BY Zenon, <1>1, <1>2 DEF ManifestsOrdered
  <2> QED
    BY Zenon, <1>1, <1>2, <2>1, <2>2 DEF ManifestsOrdered
<1> QED
  BY Zenon, <1>1, <1>2, <1>7, <1>8 DEF DurableInv
\* persistSnapshot leaves the rows alone.
LEMMA PersistRows ==
    ASSUME IInv, RowsInv, PersistSnapshot
    PROVE  RowsInv' /\ Visible' = Visible
<1>1. /\ UNCHANGED <<status, rows, parts, held, sent, shipped, introduced, curPartID, pc,
                     work, out>>
      /\ ipc' = "applied" /\ held["table"] # 0
  BY Zenon DEF PersistSnapshot, counts, loops, IInv, SnapshotBuilt
<1>2. Visible' = Visible
  BY <1>1 DEF Visible, Rows, Snapshot
<1>3. NothingDropped'
  BY Zenon, <1>1, <1>2 DEF NothingDropped, Running, RowsInv
<1>4. \A p \in Loops : Merged(p)'
  <2>1. \A p \in Loops : Rows(work[p])' = Rows(work[p]) /\ Rows(out[p])' = Rows(out[p])
    BY Zenon, <1>1 DEF Rows
  <2> QED
    BY Zenon, <1>1, <2>1 DEF Merged, RowsInv
<1> QED
  BY Zenon, <1>1, <1>2, <1>3, <1>4 DEF RowsInv

\* The new manifest is newer than all others and names the current snapshot.
LEMMA PersistDurable ==
    ASSUME IInv, DurableInv, PersistSnapshot
    PROVE  DurableInv' /\ durable' = durable \cup Rows(Files("table"))
<1> DEFINE e == held["table"]
<1>1. /\ UNCHANGED <<status, rows, parts, held, epoch, shipped, acked>>
      /\ ipc = "persist" /\ ipc' = "applied" /\ liveEpoch' = e
      /\ manifests' = manifests \cup {e}
      /\ names' = [names EXCEPT ![e] = {PartID(w) : w \in parts[e]}]
      /\ durable' = durable \cup Rows(FileIDs(parts[e]))
      /\ deletableEpochs' = IF liveEpoch > 0 THEN deletableEpochs \cup {liveEpoch}
                                             ELSE deletableEpochs
  BY Zenon DEF PersistSnapshot, counts
<1>2. /\ status = "up" /\ e \in Epoch /\ e # 0 /\ e \in Nat /\ "table" \in Holder
      /\ names \in [Epoch -> SUBSET ID]
  BY ZenonT(30), <1>1, Numbers DEF IInv, TypeOK, SnapshotBuilt, PersistSnapshot, Running
<1>3. e = epoch /\ \A f \in manifests : f \in Nat /\ f < e
  BY <1>1, <1>2, Numbers DEF IInv, TypeOK, Epoch, DurableInv, ManifestsOrdered
<1>4. Snapshot("table") = parts[e] /\ Snapshot("table")' = parts[e]
  BY Zenon, <1>1, <1>2 DEF Snapshot
<1>5. Files("table")' = Files("table") /\ Files("table") = FileIDs(parts[e])
  BY Zenon, <1>4 DEF Files, FileIDs
<1>6. ManifestsOrdered'
  <2>1. Newest(liveEpoch)'
    BY <1>1, <1>2, <1>3 DEF Newest
  <2>2. \A f \in manifests' : f <= epoch'
    BY <1>1, <1>2, <1>3
  <2> QED
    BY ZenonT(30), <1>1, <1>2, <2>1, <2>2 DEF ManifestsOrdered
<1>7. DurableFiles'
  <2>1. Files("table") \subseteq IDs(Snapshot("table"))
    BY Zenon, <1>2, HeldParts
  <2>2. names'[e] = IDs(Snapshot("table"))
    BY Zenon, <1>1, <1>2, <1>4 DEF IDs
  <2>3. Named(Files("table"))'
    BY Zenon, <1>1, <1>2, <1>5, <2>1, <2>2 DEF Named
  <2>4. Kept(Files("table"))
    BY Zenon, <1>2 DEF DurableInv, DurableFiles
  <2>5. Rows(Files("table"))' = Rows(Files("table"))
    BY Zenon, <1>1, <1>5 DEF Rows
  <2>6. Kept(Files("table"))'
    BY Zenon, <1>1, <1>5, <2>4, <2>5 DEF Kept
  <2> QED
    BY Zenon, <1>1, <2>3, <2>6 DEF DurableFiles
<1>8. \A f \in deletableEpochs' : f < liveEpoch'
  <2>1. liveEpoch \in Nat /\ \A f \in deletableEpochs : f \in Nat /\ f < liveEpoch
    BY TSTableAssumption DEF IInv, TypeOK, Epoch, DurableInv
  <2>2. liveEpoch > 0 => liveEpoch < e
    BY <1>2, <1>3, <2>1 DEF DurableInv, ManifestsOrdered, Newest
  <2>3. \A f \in deletableEpochs : f < e
    BY <1>2, <2>1, <2>2
  <2> QED
    BY ZenonT(30), <1>1, <2>2, <2>3
<1> QED
  BY Zenon, <1>1, <1>2, <1>5, <1>6, <1>7, <1>8 DEF DurableInv

-----------------------------------------------------------------------------
(* Crash and recovery *)

\* A crash forgets what was in memory; the disk stays.
LEMMA CrashRows ==
    ASSUME IInv, RowsInv, Crash
    PROVE  /\ RowsInv' /\ (DurableInv => DurableInv')
           /\ Recoverable' = Recoverable /\ status' = "down"
           /\ Rows(Recoverable)' = Rows(Recoverable)
<1>1. /\ UNCHANGED <<dir, rows, manifests, names, sent, durable, acked, shipped>>
      /\ status' = "down" /\ introduced' = {} /\ ipc' = "idle" /\ curPartID' = 0
      /\ work' = [p \in Loops |-> {}] /\ pc' = [p \in Loops |-> "idle"]
      /\ liveEpoch' = 0 /\ deletableEpochs' = {}
  BY Zenon DEF Crash, Forget, disk
<1>2. Recoverable' = Recoverable
  BY Zenon, <1>1 DEF Recoverable, Newest
<1>3. Rows(Recoverable)' = Rows(Recoverable)
  BY Zenon, <1>1, <1>2 DEF Rows
<1>4. RowsInv'
  <2>1. NothingDropped'
    BY Zenon, <1>1 DEF NothingDropped, Running
  <2>2. \A p \in Loops : Merged(p)' /\ work'[p] = {}
    BY Zenon, <1>1 DEF Merged
  <2> QED
    BY Zenon, <1>1, <2>1, <2>2 DEF RowsInv
<1>5. ASSUME DurableInv
      PROVE  DurableInv'
  <2>1. (durable \cup acked) \subseteq (Rows(Recoverable) \cup shipped)
    BY Zenon, <1>5, Recovers DEF DurableRecoverable, SyncCompleteSurvives
  <2>2. Kept(Recoverable)'
    BY Zenon, <1>1, <1>3, <2>1 DEF Kept
  <2> QED
    BY Zenon, <1>1, <2>2 DEF DurableInv
<1> QED
  BY Zenon, <1>1, <1>2, <1>3, <1>4, <1>5

\* Without faults, initTSTable starts empty only if nothing can be recovered.
LEMMA InitEmptyRows ==
    ASSUME IInv, RowsInv, InitTSTableEmpty
    PROVE  /\ RowsInv' /\ (~Faults /\ DurableInv => DurableInv')
           /\ status = "down" /\ status' = "up" /\ sent' = sent /\ Visible' = {}
           /\ ~Faults => Rows(Recoverable) = {} /\ durable' = durable
<1>1. /\ UNCHANGED <<rows, sent, acked, shipped, introduced, liveEpoch,
                     deletableEpochs, pc, work, out, curPartID, held, ipc>>
      /\ status = "down" /\ status' = "up"
      /\ ~Faults => ~Loadable /\ manifests' = {} /\ durable' = durable
  BY Zenon DEF InitTSTableEmpty, counts, gc
<1>2. /\ held["table"] = 0 /\ ipc = "idle" /\ \A p \in Loops : pc[p] = "idle"
      /\ introduced = {}
  BY Zenon, <1>1, Numbers DEF IInv, DownEmpty, RowsInv
<1>3. ~Faults => Recoverable = {}
  BY Zenon, <1>1 DEF Recoverable, Newest, Loadable
<1>4. ~Faults => Rows(Recoverable) = {}
  BY <1>3, InRows
<1>5. Snapshot("table")' = {}
  BY Zenon, <1>1, <1>2 DEF Snapshot
<1>6. Visible' = {}
  BY Zenon, <1>5 DEF Visible, Rows
<1>7. RowsInv'
  <2>1. NothingDropped'
    BY Zenon, <1>1, <1>2 DEF NothingDropped
  <2>2. \A p \in Loops : Merged(p)'
    BY Zenon, <1>1, <1>2 DEF Merged
  <2> QED
    BY Zenon, <1>1, <1>2, <2>1, <2>2 DEF RowsInv
<1>8. ASSUME ~Faults, DurableInv
      PROVE  DurableInv'
  <2>1. liveEpoch = 0 /\ deletableEpochs = {} /\ Kept(Recoverable)
    BY Zenon, <1>1, <1>8 DEF DurableInv
  <2>2. (durable \cup acked) \subseteq shipped
    BY Zenon, <1>4, <1>8, <2>1 DEF Kept
  <2>3. Files("table")' = {}
    BY Zenon, <1>5 DEF Files, FileIDs
  <2>4. Kept(Files("table"))' /\ Named(Files("table"))'
    BY Zenon, <1>1, <1>8, <2>1, <2>2, <2>3 DEF Kept, Named
  <2>5. DurableFiles' /\ ManifestsOrdered'
    BY Zenon, <1>1, <1>2, <1>8, <2>1, <2>4 DEF DurableFiles, ManifestsOrdered
  <2> QED
    BY Zenon, <1>1, <2>1, <2>5 DEF DurableInv
<1> QED
  BY Zenon, <1>1, <1>4, <1>6, <1>7, <1>8
\* loadSnapshot shows the parts it loads; without faults these are all that
\* the newest manifest and the directories still offer.
LEMMA LoadRows ==
    ASSUME IInv, RowsInv, NEW e \in Epoch, NEW bad \in SUBSET ID, LoadSnapshot(e, bad)
    PROVE  /\ RowsInv' /\ status = "down" /\ status' = "up" /\ sent' = sent
           /\ ~Faults => Visible' = Rows(Recoverable) /\ durable' = durable
           /\ ~Faults /\ DurableInv => DurableInv'
<1> DEFINE found == {i \in names[e] : dir[i] = "full"}
           load == found \ bad
<1>1. /\ UNCHANGED <<rows, sent, acked, shipped, pc, work, out, ipc>>
      /\ status = "down" /\ status' = "up" /\ bad \subseteq found
      /\ ~Faults => Newest(e) /\ bad = {} /\ durable' = durable
      /\ manifests' = {f \in manifests : f <= e}
      /\ curPartID' \in {m \in load \cup {0} : \A i \in load : i <= m}
      /\ liveEpoch' = e /\ epoch' = e + 1
      /\ introduced' = Rows(load)
  BY Zenon DEF LoadSnapshot
<1>2. /\ load = {} => UNCHANGED <<names, deletableEpochs, parts, held>>
      /\ load # {} => /\ bad = {} => names' = names /\ deletableEpochs' = {}
                      /\ parts' = [parts EXCEPT ![e] = {"file"} \X load]
                      /\ held' = [held EXCEPT !["table"] = e]
  BY Zenon DEF LoadSnapshot, counts
<1>3. /\ held \in [Holder -> {0} \cup Epoch] /\ parts \in [Epoch -> SUBSET Part]
      /\ names[e] \subseteq ID /\ load \subseteq ID
  BY Zenon DEF IInv, TypeOK
<1>4. /\ held["table"] = 0 /\ ipc = "idle" /\ \A p \in Loops : pc[p] = "idle"
      /\ \A p \in Loops : work[p] = {}
      /\ "table" \in Holder /\ e # 0 /\ e \in Nat
  BY <1>1, Numbers, TSTableAssumption DEF IInv, DownEmpty, RowsInv, Epoch
<1> HIDE DEF load
<1>5. Snapshot("table")' = {"file"} \X load
  <2>1. CASE load = {}
    <3>1. Snapshot("table")' = {}
      BY Zenon, <1>2, <1>4, <2>1 DEF Snapshot
    <3> QED
      BY Zenon, <2>1, <3>1
  <2>2. CASE load # {}
    <3>1. held'["table"] = e /\ parts'[e] = {"file"} \X load
      BY Zenon, <1>2, <1>3, <1>4, <2>2
    <3> QED
      BY Zenon, <1>4, <3>1 DEF Snapshot
  <2> QED
    BY Zenon, <2>1, <2>2
<1>6. IDs({"file"} \X load) = load /\ FileIDs({"file"} \X load) = load
  <2>1. \A w \in {"file"} \X load : PartID(w) \in load
    BY Zenon DEF PartID
  <2>2. \A i \in load : <<"file", i>> \in {"file"} \X load /\ PartID(<<"file", i>>) = i
    BY Zenon DEF PartID
  <2>3. IDs({"file"} \X load) = load
    BY Zenon, <2>1, <2>2 DEF IDs
  <2>4. FileIDs({"file"} \X load) = load
    BY Zenon, <1>3 DEF FileIDs
  <2> QED
    BY Zenon, <2>3, <2>4
<1>7. Visible' = Rows(load)
  <2>1. Visible' = Rows(IDs({"file"} \X load))
    BY Zenon, <1>1, <1>5 DEF Visible, Rows, IDs
  <2> QED
    BY Zenon, <1>6, <2>1
<1>8. RowsInv'
  <2>1. NothingDropped'
    BY Zenon, <1>1, <1>7 DEF NothingDropped
  <2>2. \A p \in Loops : Merged(p)' /\ work'[p] = {}
    BY Zenon, <1>1, <1>4 DEF Merged
  <2> QED
    BY Zenon, <1>1, <1>4, <2>1, <2>2 DEF RowsInv
<1>9. ASSUME ~Faults
      PROVE  bad = {} /\ load = Recoverable /\ durable' = durable
  <2>1. bad = {} /\ load = found
    BY Zenon, <1>1, <1>9 DEF load
  <2>2. \A f \in Epoch : Newest(f) <=> f = e
    BY <1>1, <1>9 DEF Newest, Epoch
  <2>3. Recoverable = found
    BY Zenon, <1>3, <2>2 DEF Recoverable
  <2> QED
    BY Zenon, <1>1, <1>9, <2>1, <2>3
<1>10. ASSUME ~Faults, DurableInv
       PROVE  DurableInv'
  <2>1. deletableEpochs = {} /\ Kept(Recoverable)
    BY Zenon, <1>1, <1>10 DEF DurableInv
  <2>2. deletableEpochs' = {} /\ names' = names
    BY Zenon, <1>2, <1>9, <1>10, <2>1
  <2>3. Files("table")' = load
    <3>1. Files("table")' = FileIDs({"file"} \X load)
      BY Zenon, <1>5 DEF Files, FileIDs
    <3> QED
      BY Zenon, <1>6, <3>1
  <2>4. Kept(Files("table"))'
    <3>1. Rows(Files("table"))' = Rows(load)
      BY Zenon, <1>1, <2>3 DEF Rows
    <3> QED
      BY Zenon, <1>1, <1>9, <1>10, <2>1, <3>1 DEF Kept
  <2>5. Named(Files("table"))'
    BY Zenon, <1>1, <1>4, <2>2, <2>3 DEF Named, load
  <2>6. DurableFiles'
    BY Zenon, <1>1, <1>4, <2>4, <2>5 DEF DurableFiles
  <2>7. ManifestsOrdered'
    <3>0. manifests \subseteq Nat /\ Newest(e)
      BY <1>1, <1>10 DEF IInv, TypeOK, Epoch
    <3>1. manifests' = manifests /\ Newest(e) /\ \A f \in manifests : f <= e /\ f \in Nat
      BY Zenon, <1>1, <3>0 DEF Newest
    <3>2. Newest(liveEpoch)'
      BY Zenon, <1>1, <3>1 DEF Newest
    <3> QED
      BY <1>1, <1>4, <3>1, <3>2 DEF ManifestsOrdered
  <2> QED
    BY Zenon, <1>1, <2>2, <2>6, <2>7 DEF DurableInv
<1> QED
  BY Zenon, <1>1, <1>7, <1>8, <1>9, <1>10

-----------------------------------------------------------------------------
(* All steps *)

\* Every step is of one of the kinds above.
LEMMA StepKinds ==
    ASSUME MaxClose = 0, IInv, RowsInv, [Next]_vars
    PROVE  \/ Quiet \/ (\E S : Builds(S)) \/ ReplaceSnapshot \/ PersistSnapshot \/ Crash
           \/ InitTSTableEmpty \/ (\E e \in Epoch, bad \in SUBSET ID : LoadSnapshot(e, bad))
           \/ UNCHANGED vars
<1>1. CASE \E w \in Part : IntroducePart(w)
  BY Zenon, <1>1, PartBuilds
<1>2. CASE IntroduceFlushed
  BY Zenon, <1>2, FlushedBuilds
<1>3. CASE \E p \in Loops : IntroduceMerged(p)
  BY Zenon, <1>3, MergedBuilds
<1>4. CASE \E p \in Loops : TakeSnapshot(p)
  BY Zenon, <1>4, AcquireQuiet
<1>5. CASE \E p \in Loops : \E G \in SUBSET ID : StartMerge(p, G)
  BY Zenon, <1>5, StartMergeQuiet
<1>6. CASE (\E p \in Loops : FinishMerge(p)) \/ StartFlush \/ \E i \in ID : MustFlushDone(i)
  BY Zenon, <1>6, RoundsQuiet
<1>7. CASE \E p \in Loops : FailRound(p) \/ Release(p)
  BY Zenon, <1>7, ReleaseQuiet
<1>8. CASE \E i \in ID : MustFlush(i)
  BY Zenon, <1>8, DirectoriesQuiet
<1>9. CASE SyncSnapshot
  BY Zenon, <1>9, SyncQuiet
<1>10. CASE \E w \in Writes : MustAddMemPart(w)
  BY Zenon, <1>10, ArrivalQuiet
<1>11. CASE \E r \in Receivers, w \in Writes : CreatePartHandler(r, w)
  BY Zenon, <1>11, ArrivalQuiet
<1>12. CASE \E r \in Receivers : FinishSync(r) \/ AbortSync(r)
  BY Zenon, <1>12, DirectoriesQuiet
<1>13. CASE \E r \in Readers : Acquire(r)
  BY Zenon, <1>13, AcquireQuiet
<1>14. CASE \E r \in Readers : ReleaseReader(r)
  BY Zenon, <1>14, ReleaseQuiet
<1>15. CASE \E i \in ID : MustRMAll(i)
  BY Zenon, <1>15, DirectoriesQuiet
<1>16. CASE Applied
  BY Zenon, <1>16, AppliedQuiet
<1>17. CASE Clean
  BY Zenon, <1>17, CleanQuiet
<1>18. /\ ~ DrainExit /\ ~ CloseTable /\ ~ StartClose
       /\ \A w \in Part : ~ DropQueued(w)
       /\ \A p \in Loops : ~ Abandon(p)
  BY DEF IInv, DrainExit, CloseTable, StartClose, DropQueued, Abandon
<1> QED
  BY SMTT(90), <1>1, <1>2, <1>3, <1>4, <1>5, <1>6, <1>7, <1>8, <1>9, <1>10, <1>11, <1>12,
     <1>13, <1>14, <1>15, <1>16, <1>17, <1>18
     DEF Next, Introducer, LoopStep, Flush
\* Nothing happens.
LEMMA StutterInv ==
    ASSUME IInv, RowsInv, UNCHANGED vars
    PROVE  RowsInv' /\ (DurableInv => DurableInv')
<1>1. /\ UNCHANGED <<parts, held, ipc, epoch, persist, acked>>
      /\ UNCHANGED <<names, introduced, durable, liveEpoch, manifests, deletableEpochs,
                     curPartID, rows, sent, shipped>>
      /\ UNCHANGED <<pc, work, out, status, dir>>
  BY Zenon DEF vars, disk, counts, loops, gc, intro, history
<1>2. CASE status = "up"
  <2>1. IntroQuiet /\ DiskQuiet
    BY Zenon, <1>1, StillQuiet, SameDiskQuiet
  <2>2. Quiet
    BY Zenon, <1>1, <1>2, <2>1 DEF Quiet, LoopQuiet
  <2> QED
    BY Zenon, <2>2, QuietRows, QuietDurable
<1>3. CASE status = "down"
  <2>1. \A p \in Loops : Rows(work[p])' = Rows(work[p]) /\ Rows(out[p])' = Rows(out[p])
    BY Zenon, <1>1 DEF Rows
  <2>2. \A p \in Loops : Merged(p)'
    BY Zenon, <1>1, <2>1 DEF Merged, RowsInv
  <2>3. ipc' # "replace" /\ NothingDropped'
    BY Zenon, <1>1, <1>3 DEF IInv, DownEmpty, NothingDropped, Running
  <2>4. RowsInv'
    BY Zenon, <1>1, <2>2, <2>3 DEF RowsInv
  <2>5. ASSUME DurableInv
        PROVE  DurableInv'
    <3>1. Recoverable' = Recoverable
      BY Zenon, <1>1 DEF Recoverable, Newest
    <3>2. Rows(Recoverable)' = Rows(Recoverable)
      BY Zenon, <1>1, <3>1 DEF Rows
    <3> QED
      BY Zenon, <1>1, <1>3, <2>5, <3>2 DEF DurableInv, Kept
  <2> QED
    BY Zenon, <2>4, <2>5
<1> QED
  BY Zenon, <1>2, <1>3 DEF IInv, TypeOK

\* A new table has no rows.
LEMMA InitRows == Init => RowsInv /\ DurableInv
<1> SUFFICES ASSUME Init
             PROVE  RowsInv /\ DurableInv
  BY Zenon
<1>1. held["table"] = 0 /\ \A p \in Loops : pc[p] = "idle" /\ work[p] = {}
  BY Zenon DEF Init, Holder
<1>2. Snapshot("table") = {}
  BY Zenon, <1>1 DEF Snapshot
<1>3. Files("table") = {}
  BY Zenon, <1>2 DEF Files, FileIDs
<1>4. RowsInv
  BY Zenon, <1>1 DEF Init, RowsInv, Merged, NothingDropped
<1>5. DurableFiles /\ ManifestsOrdered
  BY Zenon, <1>3 DEF Init, DurableFiles, ManifestsOrdered, Kept, Named
<1> QED
  BY Zenon, <1>4, <1>5 DEF Init, DurableInv

\* Every step keeps the rows where they are.
LEMMA NextRows ==
    ASSUME MaxClose = 0, IInv, RowsInv, [Next]_vars
    PROVE  RowsInv'
BY ZenonT(30), StepKinds, QuietRows, BuildsInv, ReplaceRows, PersistRows, CrashRows, InitEmptyRows,
   LoadRows, StutterInv

\* Without faults, every step keeps what is durable.
LEMMA NextDurable ==
    ASSUME MaxClose = 0, ~Faults, IInv, RowsInv, DurableInv, [Next]_vars
    PROVE  DurableInv'
BY ZenonT(30), StepKinds, QuietDurable, BuildsInv, ReplaceDurable, PersistDurable, CrashRows,
   InitEmptyRows, LoadRows, StutterInv

\* The rows invariant holds in every reachable state.
THEOREM RowsInvariance == MaxClose = 0 => (Spec => [](IInv /\ RowsInv))
<1> SUFFICES ASSUME MaxClose = 0
             PROVE  Spec => [](IInv /\ RowsInv)
  BY Zenon
<1>1. Init => IInv /\ RowsInv
  BY Zenon, InitInv, InitRows
<1>2. IInv /\ RowsInv /\ [Next]_vars => IInv' /\ RowsInv'
  BY Zenon, NextInv, NextRows
<1> QED
  BY <1>1, <1>2, PTL DEF Spec

\* Without faults, the durability invariant holds in every reachable state.
THEOREM DurableInvariance ==
    MaxClose = 0 /\ ~Faults => (Spec => [](IInv /\ RowsInv /\ DurableInv))
<1> SUFFICES ASSUME MaxClose = 0, ~Faults
             PROVE  Spec => [](IInv /\ RowsInv /\ DurableInv)
  BY Zenon
<1>1. Init => IInv /\ RowsInv /\ DurableInv
  BY Zenon, InitInv, InitRows
<1>2. IInv /\ RowsInv /\ DurableInv /\ [Next]_vars => IInv' /\ RowsInv' /\ DurableInv'
  BY Zenon, NextInv, NextRows, NextDurable
<1> QED
  BY <1>1, <1>2, PTL DEF Spec

\* An introduced row stays visible until it is shipped: flushes, merges and
\* syncs that worked on a stale snapshot lose nothing that was introduced
\* meanwhile, also when metadata becomes unreadable during a recovery.
THEOREM NothingIsDropped == MaxClose = 0 => (Spec => []NothingDropped)
<1>1. RowsInv => NothingDropped
  BY Zenon DEF RowsInv
<1> QED
  BY <1>1, RowsInvariance, PTL

\* A row that a manifest recorded in a file part can be recovered at every
\* moment at which the process may die: between the replacement of a snapshot
\* and its manifest, before and after gc.clean, and during a recovery.
THEOREM DurableRowsRecoverable == MaxClose = 0 /\ ~Faults => (Spec => []DurableRecoverable)
<1>1. IInv /\ DurableInv => DurableRecoverable
  BY Zenon, Recovers
<1> QED
  BY <1>1, DurableInvariance, PTL

\* A row whose sync session was answered as complete is in the table after
\* every restart: the answer of FinishSync comes after the manifest.
THEOREM SyncedRowsSurvive == MaxClose = 0 /\ ~Faults => (Spec => []SyncCompleteSurvives)
<1>1. IInv /\ DurableInv => SyncCompleteSurvives
  BY Zenon, Recovers
<1> QED
  BY <1>1, DurableInvariance, PTL

\* The manifest that the garbage collector regards as live is on disk, and
\* initTSTable would read it.
THEOREM LiveManifestStays == MaxClose = 0 /\ ~Faults => (Spec => []LiveManifestKept)
<1>1. IInv /\ DurableInv => LiveManifestKept
  BY Zenon, Recovers
<1> QED
  BY <1>1, DurableInvariance, PTL
-----------------------------------------------------------------------------
(* The contract of the shard *)

\* The rows the contract calls visible.
Shown == IF Running THEN Visible ELSE Rows(Recoverable)

\* Visible rows were sent by somebody.
LEMMA ShownSent == IInv /\ RowsInv => Shown \in SUBSET sent
<1> SUFFICES ASSUME IInv, RowsInv
             PROVE  Shown \in SUBSET sent
  BY Zenon
<1>1. \A i \in ID : rows[i] \subseteq sent
  BY Zenon DEF RowsInv
<1>2. IDs(Snapshot("table")) \subseteq ID
  BY Zenon, Numbers, HeldParts DEF IInv
<1>3. Rows(IDs(Snapshot("table"))) \subseteq sent /\ Rows(Recoverable) \subseteq sent
  BY <1>1, <1>2, InRows DEF Recoverable
<1>4. Visible \subseteq sent
  BY Zenon, <1>3 DEF Visible, IDs
<1> QED
  BY Zenon, <1>3, <1>4 DEF Shown

\* Also after a step.
LEMMA ShownSentNext == IInv' /\ RowsInv' => (Shown \in SUBSET sent)'
BY ShownSent, PTL

\* A step of the table is a step of the contract, or none.
LEMMA ContractStep ==
    ASSUME MaxClose = 0, ~Faults, "syncer" \notin Loops,
           IInv, RowsInv, DurableInv, [Next]_vars, IInv', RowsInv'
    PROVE  \/ UNCHANGED <<Running, sent, Shown, durable>>
           \/ /\ Running /\ sent' \in SUBSET Writes /\ sent \subseteq sent'
              /\ UNCHANGED <<Running, Shown, durable>>
           \/ /\ Running /\ Shown' \in SUBSET sent /\ Shown \subseteq Shown'
              /\ UNCHANGED <<Running, sent, durable>>
           \/ /\ Running /\ durable' \in SUBSET Shown /\ durable \subseteq durable'
              /\ UNCHANGED <<Running, sent, Shown>>
           \/ /\ Running /\ ~Running' /\ Shown' \in SUBSET sent /\ durable \subseteq Shown'
              /\ UNCHANGED <<sent, durable>>
           \/ /\ ~Running /\ Running' /\ UNCHANGED <<sent, Shown, durable>>
<1>1. CASE Quiet
  <2>1. /\ status = "up" /\ status' = "up" /\ Visible' = Visible /\ durable' = durable
        /\ sent' \in SUBSET Writes /\ sent \subseteq sent'
    BY Zenon, <1>1, QuietRows DEF Quiet, DiskQuiet
  <2> QED
    BY Zenon, <2>1 DEF Running, Shown
<1>2. CASE \E S : Builds(S)
  <2>1. /\ status = "up" /\ status' = "up" /\ Visible' = Visible
        /\ UNCHANGED <<sent, durable>>
    BY Zenon, <1>2, BuildsInv DEF Builds
  <2> QED
    BY Zenon, <2>1 DEF Running, Shown
<1>3. CASE ReplaceSnapshot
  <2>1. status = "up" /\ UNCHANGED <<status, sent, durable>>
    BY Zenon, <1>3, ReplaceSnapshots
  <2>2. Visible \subseteq Visible'
    BY Zenon, <1>3, ReplaceRows DEF RowsInv
  <2>3. Visible' \in SUBSET sent
    <3>1. Shown' \in SUBSET sent'
      BY Zenon, ShownSentNext
    <3> QED
      BY Zenon, <2>1, <3>1 DEF Shown, Running
  <2> QED
    BY Zenon, <2>1, <2>2, <2>3 DEF Running, Shown
<1>4. CASE PersistSnapshot
  <2>1. status = "up" /\ UNCHANGED <<status, sent>>
    BY Zenon, <1>4 DEF PersistSnapshot, IInv, TypeOK, Running
  <2>2. Visible' = Visible /\ durable' = durable \cup Rows(Files("table"))
    BY Zenon, <1>4, PersistRows, PersistDurable
  <2>3. Rows(Files("table")) \subseteq Visible
    <3>1. Files("table") \subseteq IDs(Snapshot("table"))
      BY Zenon, Numbers, HeldParts DEF IInv
    <3>2. Rows(Files("table")) \subseteq Rows(IDs(Snapshot("table")))
      BY Zenon, <3>1, InRows
    <3> QED
      BY Zenon, <3>2 DEF Visible, IDs
  <2>4. durable \subseteq Rows(Files("table"))
    BY Zenon, <2>1 DEF DurableInv, DurableFiles, Kept, RowsInv
  <2> QED
    BY Zenon, <2>1, <2>2, <2>3, <2>4 DEF Running, Shown
<1>5. CASE Crash
  <2>1. /\ status' = "down" /\ UNCHANGED <<sent, durable>>
        /\ Rows(Recoverable)' = Rows(Recoverable)
    BY Zenon, <1>5, CrashRows DEF Crash
  <2>2. Shown' = Rows(Recoverable)
    BY Zenon, <2>1 DEF Shown, Running
  <2>3. durable \subseteq Rows(Recoverable)
    BY Zenon, Recovers DEF DurableRecoverable, RowsInv
  <2>4. Shown' \in SUBSET sent
    <3>1. Shown' \in SUBSET sent'
      BY Zenon, ShownSentNext
    <3> QED
      BY Zenon, <2>1, <3>1
  <2>5. CASE status = "down"
    BY Zenon, <2>1, <2>2, <2>5 DEF Running, Shown
  <2>6. CASE status # "down"
    BY Zenon, <2>1, <2>2, <2>3, <2>4, <2>6 DEF Running
  <2> QED
    BY Zenon, <2>5, <2>6
<1>6. CASE InitTSTableEmpty
  <2>1. /\ status = "down" /\ status' = "up" /\ UNCHANGED <<sent, durable>>
        /\ Visible' = {} /\ Rows(Recoverable) = {}
    BY Zenon, <1>6, InitEmptyRows
  <2> QED
    BY Zenon, <2>1 DEF Running, Shown
<1>7. CASE \E e \in Epoch, bad \in SUBSET ID : LoadSnapshot(e, bad)
  <2>1. /\ status = "down" /\ status' = "up" /\ UNCHANGED <<sent, durable>>
        /\ Visible' = Rows(Recoverable)
    BY Zenon, <1>7, LoadRows
  <2> QED
    BY Zenon, <2>1 DEF Running, Shown
<1>8. CASE UNCHANGED vars
  <2>1. UNCHANGED <<status, sent, durable, rows, held, parts, dir, manifests, names>>
    BY Zenon, <1>8 DEF vars, disk, counts, history
  <2>2. Recoverable' = Recoverable /\ Snapshot("table")' = Snapshot("table")
    BY Zenon, <2>1 DEF Recoverable, Newest, Snapshot
  <2>3. Visible' = Visible /\ Rows(Recoverable)' = Rows(Recoverable)
    BY Zenon, <2>1, <2>2 DEF Visible, Rows
  <2> QED
    BY Zenon, <2>1, <2>3 DEF Running, Shown
<1> QED
  BY ZenonT(30), StepKinds, <1>1, <1>2, <1>3, <1>4, <1>5, <1>6, <1>7, <1>8

\* The table of a data node (no syncer) implements the contract of the shard:
\* a visible row stays visible until the process stops, a durable one stays for
\* good, and a restart brings back the durable rows and none that nobody sent.
THEOREM TableImplementsContract ==
    MaxClose = 0 /\ ~Faults /\ "syncer" \notin Loops => (Spec => ImplementsContract)
<1> SUFFICES ASSUME MaxClose = 0, ~Faults, "syncer" \notin Loops
             PROVE  Spec => ImplementsContract
  BY Zenon
<1>1. Init => Contract!Init
  <2> SUFFICES ASSUME Init
               PROVE  Contract!Init
    BY Zenon
  <2>1. status = "up" /\ held["table"] = 0 /\ sent = {} /\ durable = {}
    BY Zenon DEF Init, Holder
  <2>2. Visible = {}
    BY Zenon, <2>1 DEF Visible, Snapshot, Rows
  <2> QED
    BY Zenon, <2>1, <2>2 DEF Contract!Init, Running
<1>2. IInv /\ RowsInv /\ DurableInv /\ [Next]_vars => [Contract!Next]_(Contract!vars)
  <2> SUFFICES ASSUME IInv, RowsInv, DurableInv, [Next]_vars
               PROVE  [Contract!Next]_(Contract!vars)
    BY Zenon
  <2>1. IInv' /\ RowsInv'
    BY Zenon, NextInv, NextRows
  <2>2. Running \in BOOLEAN /\ Running' \in BOOLEAN
    BY Zenon DEF Running
  <2> QED
    BY Zenon, <2>1, <2>2, ContractStep
       DEF Contract!Next, Contract!vars, Contract!Offer, Contract!Show, Contract!Harden,
           Contract!Stop, Contract!Start, Shown
<1> QED
  BY <1>1, <1>2, DurableInvariance, PTL DEF Spec, ImplementsContract, Contract!Spec

-----------------------------------------------------------------------------
(* Pinning and releasing snapshots *)

\* A holder that drops its snapshot leaves those of the others alone.
LEMMA ReleaseKeeps ==
    ASSUME IInv, NEW h \in Holder, DecRef(held[h]), held' = [held EXCEPT ![h] = 0]
    PROVE  /\ \A g \in Holder : g # h => Snapshot(g)' = Snapshot(g)
           /\ \A e \in Epoch : parts'[e] \subseteq parts[e]
<1>1. ASSUME NEW g \in Holder, g # h
      PROVE  Snapshot(g)' = Snapshot(g)
  <2>1. held'[g] = held[g]
    BY Zenon, <1>1 DEF IInv, TypeOK
  <2>2. held[g] # 0 => parts'[held[g]] = parts[held[g]]
    BY Zenon, <1>1, OthersKept DEF IInv
  <2> QED
    BY Zenon, <2>1, <2>2 DEF Snapshot
<1>2. \A e \in Epoch : parts'[e] \subseteq parts[e]
  BY Zenon, DecRefParts DEF IInv
<1> QED
  BY Zenon, <1>1, <1>2

\* Holders of the same snapshot see the same parts.
LEMMA SameEpoch ==
    ASSUME NEW g, NEW h, held'[g] = held[h], parts' = parts
    PROVE  Snapshot(g)' = Snapshot(h)
BY Zenon DEF Snapshot

\* Pinning the current snapshot changes no other holder's.
LEMMA AcquireKeeps ==
    ASSUME IInv, NEW h \in Holder, h # "table", held' = [held EXCEPT ![h] = held["table"]],
           parts' = parts
    PROVE  /\ \A g \in Holder : g # h => Snapshot(g)' = Snapshot(g)
           /\ Snapshot(h)' = Snapshot("table")
<1>1. held'[h] = held["table"] /\ \A g \in Holder : g # h => held'[g] = held[g]
  BY Zenon DEF IInv, TypeOK
<1>2. ASSUME NEW g \in Holder, g # h
      PROVE  Snapshot(g)' = Snapshot(g)
  BY Zenon, <1>1, <1>2, SameEpoch
<1>3. Snapshot(h)' = Snapshot("table")
  BY Zenon, <1>1, SameEpoch
<1> QED
  BY Zenon, <1>2, <1>3

-----------------------------------------------------------------------------
(* No row twice *)

\* No row is in two parts with identifiers in I.
Apart(I) == \A i, j \in I : i # j => rows[i] \cap rows[j] = {}

\* The snapshot that the next introduction starts from.
Latest == IF ipc = "replace" THEN Snapshot("next") ELSE Snapshot("table")

\* The parts that sync sessions receive, and all that are in the table or will
\* be introduced into it as they are.
Receiving == {i \in ID : dir[i] = "partial" /\ \E r \in Receivers : session[r] = i}
Live == IDs(Latest \cup queued) \cup Receiving

\* A merge has one outcome, with rows of the parts it consumes.
OneOutcome(p) ==
    pc[p] \in {"merge", "send"} => \A i \in out[p] :
        rows[i] \subseteq Rows(work[p]) /\ \A j \in out[p] : j = i

\* No row is in two parts of the table.  Until the first crash, and until the
\* recovery from it, the same is true of the parts that a manifest names: their
\* identifiers are not given to other parts.
Once ==
    /\ crashes = 0 => Running
    /\ Apart(Live) /\ Apart(IDs(Snapshot("table")))
    /\ \A p \in Loops : OneOutcome(p)
    /\ crashes = 0 \/ ~Running => \A e \in manifests : Apart(names[e])
    /\ crashes = 0 => \A e \in manifests : \A i \in names[e] : i <= curPartID
OnceInv == crashes <= 1 => Once

\* A loop that goes on has the outcome it had, or one that merges.
LoopOnce(p) ==
    \/ /\ work'[p] = work[p] /\ out'[p] = out[p]
       /\ pc'[p] \in {"merge", "send"} => pc[p] \in {"merge", "send"}
    \/ OneOutcome(p)'

\* Such parts have identifiers up to curPartID.
LEMMA LiveIDs ==
    ASSUME IInv
    PROVE  \A i \in Live : i \in ID /\ i <= curPartID
<1>1. queued \subseteq Part /\ \A w \in queued : PartID(w) \in ID /\ PartID(w) <= curPartID
  BY Zenon, Numbers DEF IInv, TypeOK, IDsBelow
<1>2. \A h \in {"table", "next"} : \A i \in IDs(Snapshot(h)) : i \in ID /\ i <= curPartID
  BY Zenon, HeldParts, Numbers DEF IInv
<1>3. \A i \in Receiving : i \in ID /\ i <= curPartID
  BY Zenon DEF Receiving, IInv, IDsBelow
<1>4. \A w \in Latest : PartID(w) \in ID /\ PartID(w) <= curPartID
  BY Zenon, <1>2 DEF Latest, IDs
<1> QED
  BY Zenon, <1>1, <1>3, <1>4 DEF Live, IDs

\* A step that leaves the current snapshot alone, and the rows of the parts
\* that come have not been there before.
LEMMA OnceQuiet ==
    ASSUME IInv, RowsInv, Once, Quiet, crashes' = crashes,
           \A i \in Live' : i \in Live \/ rows'[i] \cap sent = {},
           \A i, j \in Live' : i \in Live \/ j \in Live \/ i = j,
           \A p \in Loops : LoopOnce(p)
    PROVE  Once'
<1>1. \A i \in ID : i <= curPartID => rows'[i] = rows[i] /\ rows[i] \subseteq sent
  BY Zenon DEF Quiet, DiskQuiet, RowsInv
<1>2. ASSUME NEW I, Apart(I), \A i \in I : i \in ID /\ i <= curPartID
      PROVE  \A i, j \in I : i # j => rows'[i] \cap rows'[j] = {}
  <2>1. \A i \in I : rows'[i] = rows[i]
    BY Zenon, <1>1, <1>2
  <2>2. \A i, j \in I : i # j => rows[i] \cap rows[j] = {}
    BY Zenon, <1>2 DEF Apart
  <2> QED
    BY Zenon, <2>1, <2>2
<1>3. Apart(Live)'
  <2> SUFFICES ASSUME NEW i \in Live', NEW j \in Live', i # j
               PROVE  rows'[i] \cap rows'[j] = {}
    BY Zenon DEF Apart
  <2>1. \A k \in Live : rows'[k] = rows[k] /\ rows[k] \subseteq sent
    BY Zenon, <1>1, LiveIDs
  <2>2. CASE i \in Live /\ j \in Live
    BY Zenon, <1>2, <2>2, LiveIDs DEF Once
  <2>3. CASE i \notin Live \/ j \notin Live
    BY Zenon, <2>1, <2>3
  <2> QED
    BY Zenon, <2>2, <2>3
<1>4. Apart(IDs(Snapshot("table")))'
  <2>1. IDs(Snapshot("table"))' = IDs(Snapshot("table"))
    <3>1. SameSnapshot("table")
      BY Zenon DEF Quiet, IntroQuiet
    <3> QED
      BY Zenon, <3>1, SameParts DEF IDs
  <2>2. \A i \in IDs(Snapshot("table")) : i \in ID /\ i <= curPartID
    BY Zenon, HeldParts, Numbers DEF IInv
  <2>3. \A i, j \in IDs(Snapshot("table")) : i # j => rows'[i] \cap rows'[j] = {}
    BY Zenon, <1>2, <2>2 DEF Once
  <2> QED
    BY Zenon, <2>1, <2>3 DEF Apart
<1>5. ASSUME NEW p \in Loops
      PROVE  OneOutcome(p)'
  <2> SUFFICES ASSUME work'[p] = work[p], out'[p] = out[p], pc[p] \in {"merge", "send"}
               PROVE  \A i \in out[p] : /\ rows'[i] \subseteq Rows(work[p])'
                                        /\ \A j \in out[p] : j = i
    BY Zenon DEF LoopOnce, OneOutcome
  <2>1. work[p] \subseteq ID /\ \A i \in work[p] : i <= curPartID
    BY Zenon DEF IInv, TypeOK, RowsInv
  <2>2. out[p] \subseteq ID /\ \A i \in out[p] : i <= curPartID
    BY Zenon DEF IInv, TypeOK, IDsBelow
  <2>3. Rows(work[p])' = Rows(work[p])
    BY Zenon, <1>1, <2>1 DEF Rows
  <2>4. \A i \in out[p] : rows[i] \subseteq Rows(work[p]) /\ \A j \in out[p] : j = i
    BY Zenon DEF Once, OneOutcome
  <2>5. \A i \in out[p] : rows'[i] = rows[i]
    BY Zenon, <1>1, <2>2
  <2> QED
    BY Zenon, <2>3, <2>4, <2>5
<1>6. /\ names' = names /\ manifests' \subseteq manifests /\ Running' /\ Running
      /\ curPartID <= curPartID' /\ curPartID' \in Nat
  BY Zenon DEF Quiet, DiskQuiet, Running
<1>7. ASSUME crashes = 0, NEW e \in manifests
      PROVE  /\ \A i, j \in names[e] : i # j => rows'[i] \cap rows'[j] = {}
             /\ \A i \in names[e] : i <= curPartID'
  <2>1. Apart(names[e]) /\ \A i \in names[e] : i \in ID /\ i <= curPartID
    BY Zenon, <1>7 DEF Once, IInv, TypeOK
  <2>2. \A i \in Nat : i <= curPartID => i <= curPartID'
    BY <1>6, Numbers DEF IInv
  <2>3. \A i \in ID : i \in Nat
    BY Zenon, Numbers DEF IInv
  <2> QED
    BY Zenon, <1>2, <2>1, <2>2, <2>3
<1> QED
  BY Zenon, <1>3, <1>4, <1>5, <1>6, <1>7 DEF Once, Apart

\* The snapshot to build upon stays.
LEMMA LatestQuiet ==
    ASSUME IntroQuiet
    PROVE  Latest' = Latest
<1>1. SameSnapshot("table")
  BY Zenon DEF IntroQuiet
<1> QED
  BY Zenon, <1>1, SameParts DEF IntroQuiet, Latest

\* No part comes.
LEMMA OnceSame ==
    ASSUME IInv, RowsInv, Once, Quiet, crashes' = crashes, queued' = queued,
           \A r \in Receivers : session'[r] \in {0, session[r]},
           \A i \in ID : dir'[i] = "partial" =>
               dir[i] = "partial" \/ \A r \in Receivers : session[r] # i,
           \A p \in Loops : LoopOnce(p)
    PROVE  Once'
<1>1. Latest' = Latest
  BY Zenon, LatestQuiet DEF Quiet
<1>2. IDs(Latest \cup queued)' = IDs(Latest \cup queued)
  BY Zenon, <1>1 DEF IDs
<1>3. Receiving' \subseteq Receiving
  <2>1. \A i \in ID : i # 0
    BY Zenon, Numbers DEF IInv
  <2> QED
    BY Zenon, <2>1 DEF Receiving
<1>4. \A i \in Live' : i \in Live
  BY Zenon, <1>2, <1>3 DEF Live
<1> QED
  BY Zenon, <1>4, OnceQuiet

\* Snapshots are taken and released, a flush begins, parts are shipped, and
\* the introducer goes on.
LEMMA RoundsOnce ==
    ASSUME IInv, RowsInv, Once,
           \/ \E r \in Readers : Acquire(r) \/ ReleaseReader(r)
           \/ \E p \in Loops : TakeSnapshot(p) \/ FailRound(p) \/ Release(p)
           \/ StartFlush \/ SyncSnapshot \/ Applied \/ Clean
    PROVE  Once'
<1>0. /\ pc \in [Loops -> {"idle", "ready", "merge", "flush", "send", "sendFlush",
                           "applied", "done"}]
      /\ work \in [Loops -> SUBSET ID] /\ out \in [Loops -> SUBSET ID]
  BY Zenon DEF IInv, TypeOK
<1>1. Quiet
  BY Zenon, AcquireQuiet, ReleaseQuiet, RoundsQuiet, SyncQuiet, AppliedQuiet, CleanQuiet
<1>2. UNCHANGED <<crashes, queued, dir>>
  BY Zenon DEF Acquire, ReleaseReader, TakeSnapshot, FailRound, Release, StartFlush,
               SyncSnapshot, Applied, Clean, history, disk
<1>3. \A r \in Receivers : session'[r] \in {0, session[r]}
  <2>1. CASE Applied
    BY Zenon, <2>1 DEF Applied
  <2>2. CASE ~Applied
    BY Zenon, <2>2 DEF Acquire, ReleaseReader, TakeSnapshot, FailRound, Release, StartFlush,
                       SyncSnapshot, Clean
  <2> QED
    BY Zenon, <2>1, <2>2
<1>4. ASSUME NEW q \in Loops
      PROVE  LoopOnce(q)
  <2>1. CASE (\E r \in Readers : Acquire(r) \/ ReleaseReader(r)) \/ Clean
    BY Zenon, <2>1 DEF Acquire, ReleaseReader, Clean, loops, LoopOnce
  <2>2. CASE \E p \in Loops : TakeSnapshot(p)
    <3>1. PICK p \in Loops : TakeSnapshot(p)
      BY Zenon, <2>2
    <3>2. UNCHANGED <<work, out>> /\ pc'[q] \in {"ready", pc[q]}
      BY Zenon, <1>0, <3>1 DEF TakeSnapshot
    <3> QED
      BY Zenon, <3>2 DEF LoopOnce
  <2>3. CASE \E p \in Loops : FailRound(p) \/ Release(p)
    <3>1. PICK p \in Loops : FailRound(p) \/ Release(p)
      BY Zenon, <2>3
    <3>2. /\ pc' = [pc EXCEPT ![p] = "idle"] /\ work' = [work EXCEPT ![p] = {}]
          /\ out' = [out EXCEPT ![p] = {}]
      BY Zenon, <3>1 DEF FailRound, Release, EndRound
    <3>3. \/ pc'[q] = "idle"
          \/ pc'[q] = pc[q] /\ work'[q] = work[q] /\ out'[q] = out[q]
      BY Zenon, <1>0, <3>2
    <3> QED
      BY Zenon, <3>3 DEF LoopOnce, OneOutcome
  <2>4. CASE StartFlush
    <3>1. \/ pc'[q] = "flush"
          \/ pc'[q] = pc[q] /\ work'[q] = work[q] /\ out'[q] = out[q]
      BY Zenon, <1>0, <2>4 DEF StartFlush
    <3> QED
      BY Zenon, <3>1 DEF LoopOnce, OneOutcome
  <2>5. CASE SyncSnapshot
    <3>1. out' = out /\ (q # "syncer" => pc'[q] = pc[q] /\ work'[q] = work[q])
      BY Zenon, <1>0, <2>5 DEF SyncSnapshot
    <3>2. q = "syncer" => out[q] = {}
      BY Zenon DEF IInv, RoundClean
    <3> QED
      BY Zenon, <3>1, <3>2 DEF LoopOnce, OneOutcome
  <2>6. CASE Applied
    <3>1. UNCHANGED <<work, out>> /\ pc'[q] \in {pc[q], "ready", "done"}
      BY Zenon, <2>6 DEF Applied
    <3> QED
      BY Zenon, <3>1 DEF LoopOnce
  <2> QED
    BY Zenon, <2>1, <2>2, <2>3, <2>4, <2>5, <2>6
<1> QED
  BY Zenon, <1>1, <1>2, <1>3, <1>4, OnceSame

\* A merge takes a new identifier for the rows of the parts it consumes.
LEMMA MergeOnce ==
    ASSUME IInv, RowsInv, Once, NEW p \in Loops, NEW G \in SUBSET ID, StartMerge(p, G)
    PROVE  Once'
<1>i. PICK i \in ID : i = curPartID + 1
  BY Zenon, CounterID DEF StartMerge, IInv
<1>0. /\ dir \in [ID -> {"none", "partial", "full"}] /\ rows \in [ID -> SUBSET Writes]
      /\ pc \in [Loops -> {"idle", "ready", "merge", "flush", "send", "sendFlush",
                           "applied", "done"}]
      /\ work \in [Loops -> SUBSET ID] /\ out \in [Loops -> SUBSET ID]
  BY Zenon DEF IInv, TypeOK
<1>1. /\ UNCHANGED <<crashes, queued, session>> /\ G \subseteq Mergeable(p)
      /\ pc' = [pc EXCEPT ![p] = "merge"] /\ work' = [work EXCEPT ![p] = G]
      /\ out' = [out EXCEPT ![p] = {i}] /\ dir' = [dir EXCEPT ![i] = "partial"]
      /\ rows' = [rows EXCEPT ![i] = Rows(G)]
  BY Zenon, <1>i DEF StartMerge, history
<1>2. Quiet
  BY Zenon, StartMergeQuiet
<1>3. \A j \in Nat : j <= curPartID => j # i
  BY Zenon, <1>i, NextID DEF IInv
<1>4. \A r \in Receivers : session[r] # i
  BY Zenon, <1>3, Numbers DEF IInv, IDsBelow
<1>5. \A j \in ID : dir'[j] = "partial" =>
           dir[j] = "partial" \/ \A r \in Receivers : session[r] # j
  BY Zenon, <1>0, <1>1, <1>4
<1>6. \A j \in G : rows'[j] = rows[j]
  <2>1. \A j \in Mergeable(p) : j \in IDs(Snapshot(p))
    <3>1. \A k, j : PartID(<<k, j>>) = j
      BY Zenon DEF PartID
    <3> QED
      BY Zenon, <3>1 DEF Mergeable, MemIDs, FileIDs, IDs
  <2>2. \A j \in Mergeable(p) : j \in ID /\ j \in Nat /\ j <= curPartID
    BY Zenon, <2>1, HeldParts, Numbers DEF IInv
  <2> QED
    BY Zenon, <1>0, <1>1, <1>3, <2>2
<1>7. Rows(work[p])' = Rows(G)
  <2>1. work'[p] = G
    BY Zenon, <1>0, <1>1
  <2> QED
    BY Zenon, <1>6, <2>1 DEF Rows
<1>8. OneOutcome(p)'
  <2>1. out'[p] = {i} /\ rows'[i] = Rows(G)
    BY Zenon, <1>0, <1>1
  <2> QED
    BY Zenon, <1>7, <2>1 DEF OneOutcome
<1>9. \A q \in Loops : q # p => pc'[q] = pc[q] /\ work'[q] = work[q] /\ out'[q] = out[q]
  BY Zenon, <1>0, <1>1
<1>10. \A q \in Loops : LoopOnce(q)
  BY Zenon, <1>8, <1>9 DEF LoopOnce
<1> QED
  BY Zenon, <1>1, <1>2, <1>5, <1>10, OnceSame

\* Rows that were never there arrive, in memory or in a sync session.
LEMMA ArrivalOnce ==
    ASSUME IInv, RowsInv, Once, NEW w \in Writes,
           MustAddMemPart(w) \/ \E r \in Receivers : CreatePartHandler(r, w)
    PROVE  Once'
<1>i. PICK i \in ID : i = curPartID + 1
  BY Zenon, CounterID DEF MustAddMemPart, CreatePartHandler, IInv
<1>0. /\ dir \in [ID -> {"none", "partial", "full"}] /\ rows \in [ID -> SUBSET Writes]
      /\ session \in [Receivers -> {0} \cup ID]
  BY Zenon DEF IInv, TypeOK
<1>1. /\ UNCHANGED <<crashes, pc, work, out>>
      /\ rows' = [rows EXCEPT ![i] = {w}] /\ w \notin sent
  BY Zenon, <1>i DEF MustAddMemPart, CreatePartHandler, loops
<1>2. Quiet
  BY Zenon, ArrivalQuiet
<1>3. Latest' = Latest
  BY Zenon, <1>2, LatestQuiet DEF Quiet
<1>4. rows'[i] \cap sent = {}
  BY Zenon, <1>0, <1>1
<1>5. \A j \in Live' : j \in Live \/ j = i
  <2>1. CASE MustAddMemPart(w)
    <3>1. queued' = queued \cup {<<"mem", i>>} /\ UNCHANGED <<dir, session>>
      BY Zenon, <1>i, <2>1 DEF MustAddMemPart
    <3>2. Receiving' = Receiving
      BY Zenon, <3>1 DEF Receiving
    <3>3. PartID(<<"mem", i>>) = i
      BY Zenon DEF PartID
    <3> QED
      BY Zenon, <1>3, <3>1, <3>2, <3>3 DEF Live, IDs
  <2>2. CASE \E r \in Receivers : CreatePartHandler(r, w)
    <3>1. PICK r \in Receivers : CreatePartHandler(r, w)
      BY Zenon, <2>2
    <3>2. queued' = queued /\ dir' = [dir EXCEPT ![i] = "partial"]
          /\ session' = [session EXCEPT ![r] = i]
      BY Zenon, <1>i, <3>1 DEF CreatePartHandler
    <3>3. \A j \in ID : j # i => dir'[j] = dir[j]
      BY Zenon, <1>0, <3>2
    <3>4. \A s \in Receivers : session'[s] \in {i, session[s]}
      BY Zenon, <1>0, <3>2
    <3>5. \A j \in Receiving' : j \in Receiving \/ j = i
      BY Zenon, <3>3, <3>4 DEF Receiving
    <3>6. IDs(Latest \cup queued)' = IDs(Latest \cup queued)
      BY Zenon, <1>3, <3>2 DEF IDs
    <3> QED
      BY Zenon, <3>5, <3>6 DEF Live
  <2> QED
    BY Zenon, <2>1, <2>2
<1>6. \A q \in Loops : LoopOnce(q)
  BY Zenon, <1>1 DEF LoopOnce
<1> QED
  BY Zenon, <1>1, <1>2, <1>4, <1>5, <1>6, OnceQuiet

\* A received part is complete and waits for the introducer.
LEMMA FinishSyncOnce ==
    ASSUME IInv, RowsInv, Once, NEW r \in Receivers, FinishSync(r)
    PROVE  Once'
<1>i. PICK i \in ID : i = session[r] /\ i # 0
  BY Zenon, Numbers DEF FinishSync, IInv, TypeOK
<1>1. /\ UNCHANGED <<crashes, session, pc, work, out>> /\ dir[i] = "partial"
      /\ dir' = [dir EXCEPT ![i] = "full"] /\ queued' = queued \cup {<<"file", i>>}
  BY Zenon, <1>i DEF FinishSync, loops, history
<1>2. Quiet
  BY Zenon, DirectoriesQuiet
<1>3. Latest' = Latest
  BY Zenon, <1>2, LatestQuiet DEF Quiet
<1>4. i \in Receiving
  BY Zenon, <1>i, <1>1 DEF Receiving
<1>5. Receiving' \subseteq Receiving
  <2>1. \A j \in ID : dir'[j] = "partial" => dir[j] = "partial"
    BY Zenon, <1>1 DEF IInv, TypeOK
  <2> QED
    BY Zenon, <1>1, <2>1 DEF Receiving
<1>6. \A j \in Live' : j \in Live
  <2>1. PartID(<<"file", i>>) = i
    BY Zenon DEF PartID
  <2> QED
    BY Zenon, <1>1, <1>3, <1>4, <1>5, <2>1 DEF Live, IDs
<1>7. \A q \in Loops : LoopOnce(q)
  BY Zenon, <1>1 DEF LoopOnce
<1> QED
  BY Zenon, <1>1, <1>2, <1>6, <1>7, OnceQuiet

\* The introducer puts a snapshot in place that has no row twice.
LEMMA SwapOnce ==
    ASSUME Once, UNCHANGED <<rows, manifests, names, curPartID, work, out, status, crashes>>,
           \A p \in Loops : pc'[p] \in {"merge", "send"} => pc[p] \in {"merge", "send"},
           Apart(Live)', Apart(IDs(Snapshot("table")))'
    PROVE  Once'
<1>1. ASSUME NEW p \in Loops
      PROVE  OneOutcome(p)'
  <2>1. Rows(work[p])' = Rows(work[p])
    BY Zenon DEF Rows
  <2>2. OneOutcome(p)
    BY Zenon DEF Once
  <2> QED
    BY Zenon, <2>1, <2>2 DEF OneOutcome
<1>2. Running' = Running
  BY Zenon DEF Running
<1>3. \A e \in manifests : Apart(names[e])' = Apart(names[e])
  BY Zenon DEF Apart
<1>4. crashes' = 0 \/ ~Running' => \A e \in manifests' : Apart(names[e])'
  BY Zenon, <1>2, <1>3 DEF Once
<1>5. crashes' = 0 => Running' /\ \A e \in manifests' : \A i \in names'[e] : i <= curPartID'
  BY Zenon, <1>2 DEF Once
<1> QED
  BY Zenon, <1>1, <1>4, <1>5 DEF Once

\* The next snapshot, the queue and the sessions have no row twice.
LEMMA BuildsOnce ==
    ASSUME IInv, RowsInv, Once, NEW S, Builds(S), crashes' = crashes,
           Apart(IDs(S \cup queued') \cup Receiving')
    PROVE  Once'
<1>1. /\ UNCHANGED <<rows, manifests, names, curPartID, work, out>>
      /\ status = "up" /\ status' = "up" /\ ipc' = "replace" /\ SameSnapshot("table")
      /\ \A p \in Loops : pc'[p] \in {"merge", "send"} => pc[p] \in {"merge", "send"}
  BY Zenon DEF Builds
<1>2. Latest' = S
  <2>1. epoch # 0
    BY Numbers DEF IInv
  <2>2. Snapshot("next")' = S
    BY Zenon, <2>1 DEF Builds, Snapshot
  <2> QED
    BY Zenon, <1>1, <2>2 DEF Latest
<1>3. Live' = IDs(S \cup queued') \cup Receiving'
  BY Zenon, <1>2 DEF Live, IDs
<1>4. Apart(Live)'
  BY Zenon, <1>1, <1>3 DEF Apart
<1>5. Apart(IDs(Snapshot("table")))'
  <2>1. IDs(Snapshot("table"))' = IDs(Snapshot("table"))
    BY Zenon, <1>1, SameParts DEF IDs
  <2> QED
    BY Zenon, <1>1, <2>1 DEF Once, Apart
<1> QED
  BY Zenon, <1>1, <1>4, <1>5, SwapOnce

\* The parts that came together with those of the table are apart.
LEMMA ApartSubset ==
    ASSUME Once, NEW I, I \subseteq Live
    PROVE  Apart(I)
BY Zenon DEF Once, Apart

\* introducePart takes a part from the queue to the table.
LEMMA PartOnce ==
    ASSUME IInv, RowsInv, Once, NEW w \in Part, IntroducePart(w)
    PROVE  Once'
<1> DEFINE S == Snapshot("table") \cup {w}
<1>1. /\ Builds(S) /\ UNCHANGED <<crashes, dir, session>>
      /\ w \in queued /\ queued' = queued \ {w} /\ ipc = "idle"
  BY Zenon, PartBuilds DEF IntroducePart, Introduce, disk, history
<1>2. Latest = Snapshot("table") /\ Receiving' = Receiving
  BY Zenon, <1>1 DEF Latest, Receiving
<1>3. S \cup queued' \subseteq Latest \cup queued
  BY Zenon, <1>1, <1>2
<1> HIDE DEF S
<1>4. IDs(S \cup queued') \cup Receiving' \subseteq Live
  BY Zenon, <1>2, <1>3 DEF Live, IDs
<1> QED
  BY Zenon, <1>1, <1>4, ApartSubset, BuildsOnce

\* introduceFlushed puts a file part in the place of the memory part with the
\* same identifier.
LEMMA FlushedOnce ==
    ASSUME IInv, RowsInv, Once, IntroduceFlushed
    PROVE  Once'
<1> DEFINE hit == {w \in Snapshot("table") : PartID(w) \in out["flusher"]}
           T == (Snapshot("table") \ hit) \cup {<<"file", PartID(w)>> : w \in hit}
<1>1. PICK S : Builds(S)
  BY Zenon, FlushedBuilds
<1>2. parts'[epoch] = T /\ ipc = "idle"
  BY Zenon, IntroduceBuilds DEF IntroduceFlushed
<1>3. S = T
  BY Zenon, <1>1, <1>2 DEF Builds
<1>4. UNCHANGED <<crashes, dir, session, queued>>
  BY Zenon DEF IntroduceFlushed, disk, history
<1>5. Latest = Snapshot("table") /\ Receiving' = Receiving
  BY Zenon, <1>2, <1>4 DEF Latest, Receiving
<1>6. \A v \in T : \E w \in Snapshot("table") : PartID(v) = PartID(w)
  <2>1. \A i : PartID(<<"file", i>>) = i
    BY Zenon DEF PartID
  <2> QED
    BY Zenon, <2>1
<1> HIDE DEF hit, T
<1>7. IDs(S \cup queued') \cup Receiving' \subseteq Live
  BY Zenon, <1>3, <1>4, <1>5, <1>6 DEF Live, IDs
<1> QED
  BY Zenon, <1>1, <1>4, <1>7, ApartSubset, BuildsOnce

\* replaceSnapshot makes the next snapshot the current one.
LEMMA ReplaceOnce ==
    ASSUME IInv, Once, ReplaceSnapshot
    PROVE  Once'
<1>1. /\ Snapshot("table")' = Snapshot("next") /\ ipc = "replace" /\ status = "up"
      /\ ipc' = (IF persist THEN "persist" ELSE "applied")
      /\ UNCHANGED <<status, rows, manifests, names, curPartID, pc, work, out>>
  BY Zenon, ReplaceSnapshots
<1>2. UNCHANGED <<crashes, dir, session, queued>>
  BY Zenon DEF ReplaceSnapshot, disk
<1>3. Latest' = Latest /\ Snapshot("table")' = Latest
  BY Zenon, <1>1 DEF Latest
<1>4. Live' = Live
  BY Zenon, <1>2, <1>3 DEF Live, IDs, Receiving
<1>5. Apart(Live)'
  BY Zenon, <1>1, <1>4 DEF Once, Apart
<1>6. IDs(Snapshot("table"))' \subseteq Live'
  BY Zenon, <1>3, <1>4 DEF Live, IDs
<1>7. Apart(IDs(Snapshot("table")))'
  BY Zenon, <1>5, <1>6 DEF Apart
<1> QED
  BY Zenon, <1>1, <1>2, <1>5, <1>7, SwapOnce

\* persistSnapshot writes the identifiers of the current snapshot.
LEMMA PersistOnce ==
    ASSUME IInv, Once, PersistSnapshot
    PROVE  Once'
<1> DEFINE e == held["table"]
<1>1. /\ UNCHANGED <<status, rows, curPartID, crashes, dir, session, queued, pc, work, out>>
      /\ UNCHANGED <<held, parts>> /\ ipc = "persist" /\ ipc' = "applied" /\ status = "up"
      /\ manifests' = manifests \cup {e}
      /\ names' = [names EXCEPT ![e] = {PartID(w) : w \in parts[e]}]
  BY Zenon DEF PersistSnapshot, counts, loops, Running, IInv, TypeOK
<1>2. e \in Epoch /\ e # 0 /\ names \in [Epoch -> SUBSET ID] /\ manifests \subseteq Epoch
  BY Zenon, <1>1, Numbers DEF IInv, TypeOK, SnapshotBuilt
<1>3. Snapshot("table")' = Snapshot("table") /\ Snapshot("table") = parts[e]
  BY Zenon, <1>1, <1>2 DEF Snapshot
<1>4. Latest' = Latest
  BY Zenon, <1>1, <1>3 DEF Latest
<1>5. Live' = Live
  BY Zenon, <1>1, <1>4 DEF Live, IDs, Receiving
<1>6. Apart(Live)' /\ Apart(IDs(Snapshot("table")))'
  <2>1. IDs(Snapshot("table"))' = IDs(Snapshot("table"))
    BY Zenon, <1>3 DEF IDs
  <2> QED
    BY Zenon, <1>1, <1>5, <2>1 DEF Once, Apart
<1>7. ASSUME NEW p \in Loops
      PROVE  OneOutcome(p)'
  <2>1. Rows(work[p])' = Rows(work[p])
    BY Zenon, <1>1 DEF Rows
  <2>2. OneOutcome(p)
    BY Zenon DEF Once
  <2> QED
    BY Zenon, <1>1, <2>1, <2>2 DEF OneOutcome
<1>8. names'[e] = IDs(Snapshot("table")) /\ \A f \in manifests : f # e => names'[f] = names[f]
  BY Zenon, <1>1, <1>2, <1>3 DEF IDs
<1>9. ASSUME crashes = 0, NEW f \in manifests'
      PROVE  /\ \A i, j \in names'[f] : i # j => rows[i] \cap rows[j] = {}
             /\ \A i \in names'[f] : i <= curPartID
  <2>1. CASE f = e
    <3>1. Apart(IDs(Snapshot("table")))
      BY Zenon DEF Once
    <3>2. \A i \in IDs(Snapshot("table")) : i <= curPartID
      BY Zenon, HeldParts, Numbers DEF IInv
    <3>3. names'[f] = IDs(Snapshot("table"))
      BY Zenon, <1>8, <2>1
    <3>4. \A i, j \in names'[f] : i # j => rows[i] \cap rows[j] = {}
      BY Zenon, <3>1, <3>3 DEF Apart
    <3> QED
      BY Zenon, <3>2, <3>3, <3>4
  <2>2. CASE f # e
    <3>1. f \in manifests /\ names'[f] = names[f]
      BY Zenon, <1>1, <1>8, <2>2
    <3>2. Apart(names[f]) /\ \A i \in names[f] : i <= curPartID
      BY Zenon, <1>9, <3>1 DEF Once
    <3> QED
      BY Zenon, <3>1, <3>2 DEF Apart
  <2> QED
    BY Zenon, <2>1, <2>2
<1>10. Running'
  BY Zenon, <1>1 DEF Running
<1> HIDE DEF e
<1>11. crashes' = 0 \/ ~Running' => \A f \in manifests' : Apart(names[f])'
  BY Zenon, <1>1, <1>9, <1>10 DEF Apart
<1>12. crashes' = 0 => \A f \in manifests' : \A i \in names'[f] : i <= curPartID'
  BY Zenon, <1>1, <1>9
<1> QED
  BY Zenon, <1>6, <1>7, <1>10, <1>11, <1>12 DEF Once

\* Nothing happens.
LEMMA StutterOnce ==
    ASSUME IInv, Once, UNCHANGED vars
    PROVE  Once'
<1>1. /\ UNCHANGED <<rows, manifests, names, curPartID, work, out, status, crashes>>
      /\ UNCHANGED <<held, parts, ipc, queued, dir, session, pc>>
  BY Zenon DEF vars, disk, counts, loops, intro, history
<1>2. \A h : Snapshot(h)' = Snapshot(h)
  BY Zenon, <1>1 DEF Snapshot
<1>3. Latest' = Latest
  BY Zenon, <1>1, <1>2 DEF Latest
<1>4. Live' = Live /\ IDs(Snapshot("table"))' = IDs(Snapshot("table"))
  BY Zenon, <1>1, <1>2, <1>3 DEF Live, IDs, Receiving
<1>5. Apart(Live)' /\ Apart(IDs(Snapshot("table")))'
  BY Zenon, <1>1, <1>4 DEF Once, Apart
<1> QED
  BY Zenon, <1>1, <1>5, SwapOnce

\* No loop has begun, nothing is on its way, and the table has file parts only.
Fresh ==
    /\ \A p \in Loops : pc[p] = "idle"
    /\ queued = {} /\ ipc = "idle"
    /\ \A r \in Receivers : session[r] = 0
    /\ \A w \in Snapshot("table") : Kind(w) = "file"

\* A crash leaves nothing in memory, and a recovery loads file parts.
LEMMA RestartFresh ==
    ASSUME IInv, \/ Crash \/ InitTSTableEmpty
                 \/ \E e \in Epoch, bad \in SUBSET ID : LoadSnapshot(e, bad)
    PROVE  Fresh'
<1>1. CASE Crash
  <2>1. /\ pc' = [p \in Loops |-> "idle"] /\ queued' = {} /\ ipc' = "idle"
        /\ session' = [r \in Receivers |-> 0] /\ held' = [h \in Holder |-> 0]
    BY Zenon, <1>1 DEF Crash, Forget
  <2>2. Snapshot("table")' = {}
    BY Zenon, <2>1, Numbers DEF Snapshot, IInv
  <2> QED
    BY Zenon, <2>1, <2>2 DEF Fresh
<1>2. CASE InitTSTableEmpty \/ \E e \in Epoch, bad \in SUBSET ID : LoadSnapshot(e, bad)
  <2>1. UNCHANGED <<pc, queued, ipc, session>> /\ status = "down"
    BY Zenon, <1>2 DEF InitTSTableEmpty, LoadSnapshot
  <2>2. /\ pc = [p \in Loops |-> "idle"] /\ queued = {} /\ ipc = "idle"
        /\ session = [r \in Receivers |-> 0] /\ held = [h \in Holder |-> 0]
        /\ "table" \in Holder
    BY Zenon, <2>1, Numbers DEF IInv, DownEmpty
  <2>3. \A w \in Snapshot("table")' : Kind(w) = "file"
    <3>1. CASE UNCHANGED <<held, parts>>
      <4>1. Snapshot("table")' = {}
        BY Zenon, <2>2, <3>1 DEF Snapshot
      <4> QED
        BY Zenon, <4>1
    <3>2. CASE \E e \in Epoch : \E I : /\ parts' = [parts EXCEPT ![e] = {"file"} \X I]
                                       /\ held' = [held EXCEPT !["table"] = e]
      <4>1. PICK e \in Epoch : \E I : /\ parts' = [parts EXCEPT ![e] = {"file"} \X I]
                                      /\ held' = [held EXCEPT !["table"] = e]
        BY Zenon, <3>2
      <4>2. PICK I : /\ parts' = [parts EXCEPT ![e] = {"file"} \X I]
                     /\ held' = [held EXCEPT !["table"] = e]
        BY Zenon, <4>1
      <4>3. held \in [Holder -> {0} \cup Epoch] /\ parts \in [Epoch -> SUBSET Part]
        BY Zenon DEF IInv, TypeOK
      <4>4. held'["table"] = e /\ parts'[e] = {"file"} \X I
        BY Zenon, <2>2, <4>2, <4>3
      <4>5. Snapshot("table")' \subseteq {"file"} \X I
        BY Zenon, <4>4 DEF Snapshot
      <4>6. \A w \in {"file"} \X I : Kind(w) = "file"
        BY Zenon DEF Kind
      <4> QED
        BY Zenon, <4>5, <4>6
    <3> QED
      BY ZenonT(30), <1>2, <3>1, <3>2 DEF InitTSTableEmpty, LoadSnapshot, counts
  <2> QED
    BY Zenon, <2>1, <2>2, <2>3 DEF Fresh
<1> QED
  BY Zenon, <1>1, <1>2

\* A table in which nothing is on its way.
FreshApart ==
    /\ Fresh /\ Apart(IDs(Snapshot("table")))
    /\ crashes = 0 => Running /\ manifests = {}
    /\ ~Running => \A e \in manifests : Apart(names[e])

\* It has no row twice,
LEMMA FreshOnce == FreshApart => Once
<1> SUFFICES ASSUME FreshApart
             PROVE  Once
  BY Zenon
<1>1. Latest = Snapshot("table") /\ queued = {} /\ \A p \in Loops : OneOutcome(p)
  BY Zenon DEF FreshApart, Fresh, Latest, OneOutcome
<1>2. Receiving = {}
  <2>1. 0 \notin ID
    BY DEF ID
  <2> QED
    BY Zenon, <2>1 DEF FreshApart, Fresh, Receiving
<1>3. Live = IDs(Snapshot("table"))
  BY Zenon, <1>1, <1>2 DEF Live, IDs
<1> QED
  BY Zenon, <1>1, <1>3 DEF FreshApart, Once

\* also when a step leads to it.
LEMMA FreshOnceNext == FreshApart' => Once'
BY FreshOnce, PTL

\* A crash leaves the manifests; the recovery from the first one loads parts
\* that one manifest names.
LEMMA RestartOnce ==
    ASSUME IInv, OnceInv, \/ Crash \/ InitTSTableEmpty
                          \/ \E e \in Epoch, bad \in SUBSET ID : LoadSnapshot(e, bad)
    PROVE  OnceInv'
<1> SUFFICES ASSUME crashes' <= 1
             PROVE  FreshApart'
  BY Zenon, FreshOnceNext DEF OnceInv
<1>0. Fresh'
  BY Zenon, RestartFresh
<1>1. CASE Crash
  <2>1. crashes' # 0 /\ crashes = 0
    BY <1>1 DEF Crash, IInv, TypeOK
  <2>2. Once
    BY <2>1 DEF OnceInv
  <2>3. UNCHANGED <<rows, manifests, names>> /\ held' = [h \in Holder |-> 0]
    BY Zenon, <1>1 DEF Crash, Forget, disk
  <2>4. Snapshot("table")' = {}
    BY Zenon, <2>3, Numbers DEF Snapshot, IInv
  <2>5. Apart(IDs(Snapshot("table")))'
    BY Zenon, <2>4 DEF Apart, IDs
  <2>6. \A e \in manifests' : Apart(names[e])'
    BY Zenon, <2>1, <2>2, <2>3 DEF Once, Apart
  <2> QED
    BY Zenon, <1>0, <2>1, <2>5, <2>6 DEF FreshApart
<1>2. CASE InitTSTableEmpty \/ \E e \in Epoch, bad \in SUBSET ID : LoadSnapshot(e, bad)
  <2>1. status = "down" /\ status' = "up" /\ crashes' = crashes /\ rows' = rows
    BY Zenon, <1>2 DEF InitTSTableEmpty, LoadSnapshot
  <2>2. Once /\ ~Running /\ Running'
    BY Zenon, <2>1 DEF OnceInv, Running
  <2>3. crashes' # 0
    BY Zenon, <2>1, <2>2 DEF Once
  <2>4. held["table"] = 0 /\ "table" \in Holder
    BY Zenon, <2>1, Numbers DEF IInv, DownEmpty
  <2>5. Apart(IDs(Snapshot("table")))'
    <3>1. CASE UNCHANGED <<held, parts>>
      <4>1. Snapshot("table")' = {}
        BY Zenon, <2>4, <3>1 DEF Snapshot
      <4> QED
        BY Zenon, <4>1 DEF Apart, IDs
    <3>2. CASE ~UNCHANGED <<held, parts>>
      <4>1. PICK e \in Epoch, bad \in SUBSET ID : LoadSnapshot(e, bad)
        BY Zenon, <1>2, <3>2 DEF InitTSTableEmpty, counts
      <4>2. PICK I \in SUBSET names[e] : /\ parts' = [parts EXCEPT ![e] = {"file"} \X I]
                                         /\ held' = [held EXCEPT !["table"] = e]
        <5> DEFINE load == {i \in names[e] : dir[i] = "full"} \ bad
        <5>1. /\ parts' = [parts EXCEPT ![e] = {"file"} \X load]
              /\ held' = [held EXCEPT !["table"] = e]
          BY Zenon, <3>2, <4>1 DEF LoadSnapshot, counts
        <5>2. load \in SUBSET names[e]
          BY Zenon
        <5> HIDE DEF load
        <5> QED
          BY Zenon, <5>1, <5>2
      <4>3. held \in [Holder -> {0} \cup Epoch] /\ parts \in [Epoch -> SUBSET Part]
        BY Zenon DEF IInv, TypeOK
      <4>4. held'["table"] = e /\ parts'[e] = {"file"} \X I
        BY Zenon, <2>4, <4>2, <4>3
      <4>5. Snapshot("table")' \subseteq {"file"} \X I
        BY Zenon, <4>4 DEF Snapshot
      <4>6. \A w \in {"file"} \X I : PartID(w) \in names[e]
        BY Zenon DEF PartID
      <4>7. IDs(Snapshot("table"))' \subseteq names[e]
        BY Zenon, <4>5, <4>6 DEF IDs
      <4>8. e \in manifests
        BY Zenon, <4>1 DEF LoadSnapshot
      <4>9. Apart(names[e])
        BY Zenon, <2>2, <4>8 DEF Once
      <4> QED
        BY Zenon, <2>1, <4>7, <4>9 DEF Apart
    <3> QED
      BY Zenon, <3>1, <3>2
  <2> QED
    BY Zenon, <1>0, <2>2, <2>3, <2>5 DEF FreshApart
<1> QED
  BY Zenon, <1>1, <1>2
=============================================================================
