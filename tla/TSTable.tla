------------------------------ MODULE TSTable ------------------------------
(***************************************************************************)
(* The storage engine of one shard: the tsTable of banyand/measure.        *)
(*                                                                         *)
(* Rows arrive in memory parts and in file parts shipped by a liaison.     *)
(* One introducer goroutine owns the sequence of snapshots; the flusher    *)
(* turns memory parts into file parts, the merger turns several file parts *)
(* into one, the syncer of a liaison table ships file parts away.  Those   *)
(* loops work for a long time on a snapshot that is stale when they finish *)
(* and hand the outcome to the introducer.  Snapshots and parts are        *)
(* reference counted; a merged part removes its directory in a goroutine   *)
(* of its own once its last snapshot is gone.  A manifest (.snp file) per  *)
(* persisted epoch names the parts of the table, and initTSTable rebuilds  *)
(* the table from the newest manifest and the part directories.            *)
(*                                                                         *)
(* The content of a part is the set of writes it holds.  A part is named   *)
(* by <<kind, id>>: the memory part i and the file part i flushed from it  *)
(* share the identifier, hence the rows.                                   *)
(***************************************************************************)
EXTENDS Integers, FiniteSets

CONSTANTS
    Writes,      \* rows that clients write or a liaison ships
    Readers,     \* queries and backups, which pin a snapshot
    Receivers,   \* chunked-sync sessions that ship a part into the table
    Loops,       \* {"flusher", "merger"} or {"flusher", "syncer"}
    MaxPart,     \* bound: part identifiers
    MaxEpoch,    \* bound: snapshot epochs
    MaxCrash,    \* bound: crashes
    MaxClose,    \* bound: graceful closes
    Faults       \* may a merge, a manifest or metadata become unreadable?

ID == 1..MaxPart
Epoch == 1..MaxEpoch
Part == {"mem", "file"} \X ID
Holder == {"table", "introducer", "next"} \cup Loops \cup Readers

ASSUME TSTableAssumption ==
    /\ IsFiniteSet(Writes) /\ IsFiniteSet(Readers) /\ IsFiniteSet(Receivers)
    /\ Loops \subseteq {"flusher", "merger", "syncer"}
    /\ {"table", "introducer", "next"} \cap (Loops \cup Readers) = {}
    /\ Loops \cap Readers = {}
    /\ MaxPart \in Nat /\ MaxEpoch \in Nat
    /\ MaxCrash \in Nat /\ MaxClose \in Nat /\ Faults \in BOOLEAN

\* startLoop runs a merger, startLoopWithConditionalMerge a syncer; no table
\* runs both, so that at most one loop consumes file parts.
ASSUME OneConsumer == ~({"merger", "syncer"} \subseteq Loops)

VARIABLES
    \* the file system under the shard's root
    dir,         \* part directory: absent, without metadata.json, or complete
    rows,        \* the writes in the part with this identifier
    manifests,   \* epochs with a .snp file
    names,       \* the part identifiers a .snp file lists
    removing,    \* directories a decRef goroutine has yet to remove
    \* the tsTable in memory
    status,      \* up, closing (loopCloser notified) or down
    curPartID, epoch,
    parts, sref, \* the parts and the reference count of a snapshot
    held,        \* the snapshot a holder keeps a reference to; 0 for nil
    ref,         \* the reference count of a partWrapper
    removable,   \* partWrapper.removable
    liveEpoch, deletableEpochs,
    queued,      \* wrappers waiting in tst.introductions
    session,     \* the part a sync session writes; 0 for none
    ipc,         \* the step of the introducer
    persist,     \* the current introduction replaces with persisted = true
    client,      \* the loop that waits for applied
    pc, work, out, \* a loop's step, the parts it consumes, the ones it made
    done,        \* memory parts the flusher merged in this round
    seen,        \* the epoch flusherLoop, mergeLoop or syncLoop handled last
    \* what happened
    sent, introduced, durable, shipped, acked,
    crashes, closes

disk == <<dir, rows, manifests, names>>
counts == <<parts, sref, held, ref, removable, removing>>
loops == <<pc, work, out, done, seen>>
gc == <<liveEpoch, deletableEpochs>>
intro == <<ipc, persist, client, epoch>>
history == <<sent, introduced, durable, shipped, acked, crashes, closes>>
vars == <<disk, counts, loops, gc, intro, history,
          status, curPartID, queued, session>>

Kind(w) == w[1]
PartID(w) == w[2]
MemIDs(S) == {i \in ID : <<"mem", i>> \in S}
FileIDs(S) == {i \in ID : <<"file", i>> \in S}
Rows(I) == UNION {rows[i] : i \in I}
Snapshot(h) == IF held[h] = 0 THEN {} ELSE parts[held[h]]

\* The rows a query of the current snapshot sees.
Visible == Rows({PartID(w) : w \in Snapshot("table")})

\* The manifest that initTSTable reads, and the parts it would load now.
Newest(e) == e \in manifests /\ \A f \in manifests : f <= e
Recoverable == {i \in ID : dir[i] = "full" /\ \E e \in Epoch : Newest(e) /\ i \in names[e]}

Running == status # "down"

-----------------------------------------------------------------------------
(***************************************************************************)
(* Reference counts.                                                       *)
(***************************************************************************)

\* Mutant: currentSnapshot forgets incRef.
CurrentSnapshotUncounted(h) ==
    /\ held' = [held EXCEPT ![h] = held["table"]]
    /\ sref' = sref

\* tst.currentSnapshot: a reference to the current snapshot, or nil.
CurrentSnapshot(h) ==
    LET e == held["table"] IN
    /\ held' = [held EXCEPT ![h] = e]
    /\ sref' = IF e = 0 THEN sref ELSE [sref EXCEPT ![e] = @ + 1]

\* Mutant: the removable flag is not looked at.
DecRefKeepDir(e) ==
    /\ sref' = IF e = 0 THEN sref ELSE [sref EXCEPT ![e] = @ - 1]
    /\ removing' = removing
    /\ IF e # 0 /\ sref[e] = 1
         THEN /\ ref' = [w \in Part |-> IF w \in parts[e] THEN ref[w] - 1 ELSE ref[w]]
              /\ parts' = [parts EXCEPT ![e] = {}]
         ELSE UNCHANGED <<ref, parts>>

\* snapshot.decRef: the last reference releases the parts, and a removable
\* file part that loses its last reference starts the removal goroutine.
DecRef(e) ==
    /\ sref' = IF e = 0 THEN sref ELSE [sref EXCEPT ![e] = @ - 1]
    /\ IF e # 0 /\ sref[e] = 1
         THEN /\ ref' = [w \in Part |-> IF w \in parts[e] THEN ref[w] - 1 ELSE ref[w]]
              /\ removing' = removing \cup
                   {i \in FileIDs(parts[e] \cap removable) : ref[<<"file", i>>] = 1}
              /\ parts' = [parts EXCEPT ![e] = {}]
         ELSE UNCHANGED <<ref, removing, parts>>

\* A snapshot that was built by copyAllTo, merge or remove: the parts it
\* shares with its predecessor gain a reference, the new ones bring their own.
NextSnapshot(shared, fresh) ==
    /\ parts' = [parts EXCEPT ![epoch] = shared \cup fresh]
    /\ ref' = [w \in Part |-> IF w \in shared THEN ref[w] + 1 ELSE ref[w]]

\* The removal goroutine of partWrapper.decRef.
MustRMAll(i) ==
    /\ i \in removing
    /\ removing' = removing \ {i}
    /\ dir' = [dir EXCEPT ![i] = "none"]
    /\ UNCHANGED <<rows, manifests, names, parts, sref, held, ref, removable, loops,
                   gc, intro, history, status, curPartID, queued, session>>

Acquire(r) ==
    /\ Running /\ held[r] = 0 /\ held["table"] # 0
    /\ ipc # "persist"                          \* replaceSnapshot holds the lock
    /\ CurrentSnapshot(r)
    /\ UNCHANGED <<disk, parts, ref, removable, removing, loops, gc, intro, history,
                   status, curPartID, queued, session>>

\* Mutant: a query releases its snapshot twice.
ReleaseReaderTwice(r) ==
    /\ held[r] # 0
    /\ DecRef(held[r])
    /\ UNCHANGED <<held, disk, removable, loops, gc, intro, history,
                   status, curPartID, queued, session>>

ReleaseReader(r) ==
    /\ held[r] # 0
    /\ DecRef(held[r])
    /\ held' = [held EXCEPT ![r] = 0]
    /\ UNCHANGED <<disk, removable, loops, gc, intro, history,
                   status, curPartID, queued, session>>

-----------------------------------------------------------------------------
(***************************************************************************)
(* Arrival of rows.                                                        *)
(***************************************************************************)

\* mustAddDataPoints / mustAddMemPart, up to the wait in the select.
MustAddMemPart(w) ==
    /\ status = "up" /\ w \in Writes \ sent /\ curPartID < MaxPart
    /\ LET i == curPartID + 1 IN
       /\ curPartID' = i
       /\ rows' = [rows EXCEPT ![i] = {w}]
       /\ ref' = [ref EXCEPT ![<<"mem", i>>] = 1]
       /\ queued' = queued \cup {<<"mem", i>>}
    /\ sent' = sent \cup {w}
    /\ UNCHANGED <<dir, manifests, names, parts, sref, held, removable, removing,
                   loops, gc, intro, introduced, durable, shipped, acked, crashes,
                   closes, status, session>>

\* syncCallback.CreatePartHandler: the session's part gets an identifier and
\* its directory, and the chunks are written into it.
CreatePartHandler(r, w) ==
    /\ status = "up" /\ session[r] = 0 /\ w \in Writes \ sent /\ curPartID < MaxPart
    /\ LET i == curPartID + 1 IN
       /\ curPartID' = i
       /\ rows' = [rows EXCEPT ![i] = {w}]
       /\ dir' = [dir EXCEPT ![i] = "partial"]
       /\ session' = [session EXCEPT ![r] = i]
    /\ sent' = sent \cup {w}
    /\ UNCHANGED <<manifests, names, counts, loops, gc, intro, introduced, durable,
                   shipped, acked, crashes, closes, status, queued>>

\* syncPartContext.FinishSync: metadata.json is written last, then
\* mustAddFilePart opens the part and waits in its select.
FinishSync(r) ==
    LET i == session[r] IN
    /\ Running /\ i # 0 /\ dir[i] = "partial"
    /\ dir' = [dir EXCEPT ![i] = "full"]
    /\ ref' = [ref EXCEPT ![<<"file", i>>] = 1]
    /\ queued' = queued \cup {<<"file", i>>}
    /\ UNCHANGED <<rows, manifests, names, parts, sref, held, removable, removing,
                   loops, gc, intro, history, status, curPartID, session>>

\* syncPartContext.Close on a session that never finished.
AbortSync(r) ==
    LET i == session[r] IN
    /\ Running /\ i # 0 /\ dir[i] = "partial"
    /\ dir' = [dir EXCEPT ![i] = "none"]
    /\ session' = [session EXCEPT ![r] = 0]
    /\ UNCHANGED <<rows, manifests, names, counts, loops, gc, intro, history,
                   status, curPartID, queued>>

\* The CloseNotify branch of mustAddMemPart and mustAddFilePart.  FinishSync
\* then returns without an error, as it does after an introduction.
DropQueued(w) ==
    /\ status = "closing" /\ w \in queued
    /\ queued' = queued \ {w}
    /\ ref' = [ref EXCEPT ![w] = 0]
    /\ session' = [r \in Receivers |-> IF Kind(w) = "file" /\ session[r] = PartID(w)
                                         THEN 0 ELSE session[r]]
    /\ acked' = IF Kind(w) = "file" THEN acked \cup rows[PartID(w)] ELSE acked
    /\ UNCHANGED <<disk, parts, sref, held, removable, removing, loops, gc, intro,
                   sent, introduced, durable, shipped, crashes, closes, status,
                   curPartID>>

-----------------------------------------------------------------------------
(***************************************************************************)
(* The introducer: receive and build the next snapshot; swap it in; write  *)
(* the manifest while the table is still locked; signal applied and drop   *)
(* the old snapshot; remove outdated manifests.                            *)
(***************************************************************************)

\* The build step shared by the introductions: cur is pinned, the new
\* snapshot has the parts of cur without gone, and fresh.
Introduce(gone, fresh, mustPersist, p) ==
    /\ Running /\ ipc = "idle" /\ epoch <= MaxEpoch
    /\ held' = [held EXCEPT !["introducer"] = held["table"], !["next"] = epoch]
    /\ sref' = [e \in Epoch |-> CASE e = epoch -> 1
                                  [] e = held["table"] -> sref[e] + 1
                                  [] OTHER -> sref[e]]
    /\ NextSnapshot(Snapshot("table") \ gone, fresh)
    /\ ipc' = "replace" /\ persist' = mustPersist /\ client' = p

\* Mutant: no introduction of a single part writes a manifest.
IntroducePartVolatile(w) ==
    /\ w \in queued
    /\ Introduce({}, {w}, FALSE, "none")
    /\ queued' = queued \ {w}
    /\ UNCHANGED <<disk, removable, removing, loops, gc, epoch, history, status,
                   curPartID, session>>

\* introducePart of a memory part or of a received file part.
IntroducePart(w) ==
    /\ w \in queued
    /\ Introduce({}, {w}, Kind(w) = "file", "none")
    /\ queued' = queued \ {w}
    /\ UNCHANGED <<disk, removable, removing, loops, gc, epoch, history, status,
                   curPartID, session>>

\* Mutant: the flushed snapshot is built from the one the flusher read.
IntroduceFlushedStale ==
    /\ "flusher" \in Loops /\ pc["flusher"] = "sendFlush"
    /\ Introduce(Snapshot("table") \ {w \in Snapshot("flusher") : Kind(w) = "file"},
                 {<<"file", i>> : i \in out["flusher"]}, TRUE, "flusher")
    /\ pc' = [pc EXCEPT !["flusher"] = "applied"]
    /\ UNCHANGED <<disk, removable, removing, work, out, done, seen, gc, epoch,
                   history, status, curPartID, queued, session>>

\* Mutant: the memory parts stay in the snapshot.
IntroduceFlushedKeep ==
    /\ "flusher" \in Loops /\ pc["flusher"] = "sendFlush"
    /\ Introduce({}, {}, TRUE, "flusher")
    /\ pc' = [pc EXCEPT !["flusher"] = "applied"]
    /\ UNCHANGED <<disk, removable, removing, work, out, done, seen, gc, epoch,
                   history, status, curPartID, queued, session>>

\* introduceFlushed: snapshot.merge replaces each memory part whose
\* identifier was flushed by the file part of that identifier.
IntroduceFlushed ==
    LET cur == Snapshot("table")
        hit == {w \in cur : PartID(w) \in out["flusher"]}
    IN
    /\ "flusher" \in Loops /\ pc["flusher"] = "sendFlush"
    /\ Introduce(hit, {<<"file", PartID(w)>> : w \in hit}, TRUE, "flusher")
    /\ pc' = [pc EXCEPT !["flusher"] = "applied"]
    /\ UNCHANGED <<disk, removable, removing, work, out, done, seen, gc, epoch,
                   history, status, curPartID, queued, session>>

\* Mutant: the consumed parts stay in the snapshot.
IntroduceMergedKeep(p) ==
    /\ pc[p] = "send"
    /\ Introduce({}, {<<"file", i>> : i \in out[p]}, TRUE, p)
    /\ pc' = [pc EXCEPT ![p] = "applied"]
    /\ UNCHANGED <<disk, removable, removing, work, out, done, seen, gc, epoch,
                   history, status, curPartID, queued, session>>

\* Mutant: every file part of the current snapshot is dropped, not only the
\* consumed ones.
IntroduceMergedAll(p) ==
    LET hit == {w \in Snapshot("table") : Kind(w) = "file"} IN
    /\ pc[p] = "send"
    /\ Introduce(hit, {<<"file", i>> : i \in out[p]}, TRUE, p)
    /\ removable' = removable \cup hit
    /\ pc' = [pc EXCEPT ![p] = "applied"]
    /\ UNCHANGED <<disk, removing, work, out, done, seen, gc, epoch,
                   history, status, curPartID, queued, session>>

\* introduceMerged and introduceSync: snapshot.remove drops the consumed
\* parts, which become removable; a merge adds its outcome.
IntroduceMerged(p) ==
    LET hit == {w \in Snapshot("table") : PartID(w) \in work[p]} IN
    /\ pc[p] = "send"
    /\ Introduce(hit, {<<"file", i>> : i \in out[p]}, TRUE, p)
    /\ removable' = removable \cup hit
    /\ pc' = [pc EXCEPT ![p] = "applied"]
    /\ UNCHANGED <<disk, removing, work, out, done, seen, gc, epoch,
                   history, status, curPartID, queued, session>>

\* Mutant: the manifest is never written.
ReplaceSnapshotVolatile ==
    /\ Running /\ ipc = "replace"
    /\ DecRef(held["table"])
    /\ held' = [held EXCEPT !["table"] = held["next"], !["next"] = 0]
    /\ introduced' = introduced \cup Rows({PartID(w) : w \in Snapshot("next")})
    /\ ipc' = IF persist /\ client \in {"none", "flusher"} THEN "persist" ELSE "applied"
    /\ UNCHANGED <<disk, removable, loops, gc, persist, client, epoch, sent, durable,
                   shipped, acked, crashes, closes, status, curPartID, queued, session>>

\* replaceSnapshot, under tst.Lock: the table's reference moves to the new
\* snapshot.
ReplaceSnapshot ==
    /\ Running /\ ipc = "replace"
    /\ DecRef(held["table"])
    /\ held' = [held EXCEPT !["table"] = held["next"], !["next"] = 0]
    /\ introduced' = introduced \cup Rows({PartID(w) : w \in Snapshot("next")})
    /\ ipc' = IF persist THEN "persist" ELSE "applied"
    /\ UNCHANGED <<disk, removable, loops, gc, persist, client, epoch, sent, durable,
                   shipped, acked, crashes, closes, status, curPartID, queued, session>>

\* Mutant: registerSnapshot hands the new epoch to the garbage collector.
PersistSnapshotDeletable ==
    LET e == held["table"] IN
    /\ Running /\ ipc = "persist"
    /\ manifests' = manifests \cup {e}
    /\ names' = [names EXCEPT ![e] = {PartID(w) : w \in parts[e]}]
    /\ deletableEpochs' = deletableEpochs \cup {e}
    /\ liveEpoch' = e
    /\ durable' = durable \cup Rows(FileIDs(parts[e]))
    /\ ipc' = "applied"
    /\ UNCHANGED <<dir, rows, counts, loops, persist, client, epoch, sent, introduced,
                   shipped, acked, crashes, closes, status, curPartID, queued, session>>

\* persistSnapshot: mustWriteSnapshot (a rename makes the manifest appear at
\* once) and gc.registerSnapshot.  The manifest names memory parts as well.
PersistSnapshot ==
    LET e == held["table"] IN
    /\ Running /\ ipc = "persist"
    /\ manifests' = manifests \cup {e}
    /\ names' = [names EXCEPT ![e] = {PartID(w) : w \in parts[e]}]
    /\ deletableEpochs' = IF liveEpoch > 0 THEN deletableEpochs \cup {liveEpoch}
                                           ELSE deletableEpochs
    /\ liveEpoch' = e
    /\ durable' = durable \cup Rows(FileIDs(parts[e]))
    /\ ipc' = "applied"
    /\ UNCHANGED <<dir, rows, counts, loops, persist, client, epoch, sent, introduced,
                   shipped, acked, crashes, closes, status, curPartID, queued, session>>

\* close(applied), which lets the waiting loop or session go on, and the
\* deferred cur.decRef().
Applied ==
    LET e == held["table"]
        finished == {r \in Receivers : session[r] # 0 /\ <<"file", session[r]>> \in parts[e]}
    IN
    /\ Running /\ ipc = "applied"
    /\ DecRef(held["introducer"])
    /\ held' = [held EXCEPT !["introducer"] = 0]
    /\ session' = [r \in Receivers |-> IF r \in finished THEN 0 ELSE session[r]]
    /\ acked' = acked \cup Rows({session[r] : r \in finished})
    /\ done' = IF client = "flusher" THEN done \cup work["flusher"] ELSE done
    /\ pc' = [p \in Loops |->
                IF p # client THEN pc[p]
                ELSE IF p = "flusher" /\ work[p] # {} THEN "ready" ELSE "done"]
    /\ ipc' = IF client = "none" THEN "idle" ELSE "clean"
    /\ epoch' = IF client = "none" THEN epoch + 1 ELSE epoch
    /\ UNCHANGED <<disk, removable, work, out, seen, gc, persist, client, sent,
                   introduced, durable, shipped, crashes, closes, status, curPartID,
                   queued>>

\* gc.clean after a flush or a merge: a manifest that cannot be deleted, or
\* that a crash spares, stays deletable.
Clean ==
    /\ Running /\ ipc = "clean"
    /\ \E D \in SUBSET deletableEpochs :
         /\ manifests' = manifests \ D
         /\ deletableEpochs' = deletableEpochs \ D
    /\ epoch' = epoch + 1
    /\ ipc' = "idle"
    /\ UNCHANGED <<dir, rows, names, counts, loops, liveEpoch, persist, client, history,
                   status, curPartID, queued, session>>

\* The introducer saw CloseNotify, found no more introductions to drain,
\* cleans and returns.
DrainExit ==
    /\ status = "closing" /\ ipc = "idle"
    /\ manifests' = manifests \ deletableEpochs
    /\ deletableEpochs' = {}
    /\ ipc' = "exited"
    /\ UNCHANGED <<dir, rows, names, counts, loops, liveEpoch, persist, client, epoch,
                   history, status, curPartID, queued, session>>

-----------------------------------------------------------------------------
(***************************************************************************)
(* flusherLoop, mergeLoop and syncLoop.                                    *)
(***************************************************************************)

\* Mutant: the flusher's epoch comparison is off by one.
TakeSnapshotLate(p) ==
    /\ Running /\ pc[p] = "idle" /\ held["table"] # 0 /\ ipc # "persist"
    /\ held["table"] > seen[p] + 1
    /\ CurrentSnapshot(p)
    /\ pc' = [pc EXCEPT ![p] = "ready"]
    /\ UNCHANGED <<disk, parts, ref, removable, removing, work, out, done, seen, gc,
                   intro, history, status, curPartID, queued, session>>

\* A loop wakes up for a snapshot it has not handled and pins it.
TakeSnapshot(p) ==
    /\ Running /\ pc[p] = "idle" /\ held["table"] # 0 /\ ipc # "persist"
    /\ IF p = "flusher" THEN held["table"] > seen[p] ELSE held["table"] # seen[p]
    /\ CurrentSnapshot(p)
    /\ pc' = [pc EXCEPT ![p] = "ready"]
    /\ UNCHANGED <<disk, parts, ref, removable, removing, work, out, done, seen, gc,
                   intro, history, status, curPartID, queued, session>>

\* Mutant: the merger takes memory parts too.
MergeableAny(p) == {PartID(w) : w \in Snapshot(p)} \ done

\* The parts a merge may consume: mergeMemParts takes groups of memory parts
\* (those of one segment), getPartsToMerge file parts chosen by the policy.
Mergeable(p) ==
    IF p = "flusher" THEN MemIDs(Snapshot(p)) \ done ELSE FileIDs(Snapshot(p))

\* mergeParts creates the directory of the new part ...
StartMerge(p, G) ==
    /\ Running /\ pc[p] = "ready" /\ p # "syncer" /\ curPartID < MaxPart
    /\ G \subseteq Mergeable(p) /\ Cardinality(G) >= 2
    /\ LET i == curPartID + 1 IN
       /\ curPartID' = i
       /\ dir' = [dir EXCEPT ![i] = "partial"]
       /\ rows' = [rows EXCEPT ![i] = Rows(G)]
       /\ out' = [out EXCEPT ![p] = {i}]
    /\ work' = [work EXCEPT ![p] = G]
    /\ pc' = [pc EXCEPT ![p] = "merge"]
    /\ UNCHANGED <<manifests, names, counts, done, seen, gc, intro, history, status,
                   queued, session>>

\* ... and completes it with metadata.json.
FinishMerge(p) ==
    /\ Running /\ pc[p] = "merge"
    /\ dir' = [i \in ID |-> IF i \in out[p] THEN "full" ELSE dir[i]]
    /\ ref' = [w \in Part |-> IF Kind(w) = "file" /\ PartID(w) \in out[p] THEN 1 ELSE ref[w]]
    /\ pc' = [pc EXCEPT ![p] = "send"]
    /\ UNCHANGED <<rows, manifests, names, parts, sref, held, removable, removing, work,
                   out, done, seen, gc, intro, history, status, curPartID, queued,
                   session>>

\* The end of a round: the loop drops its snapshot.
EndRound(p, e) ==
    /\ DecRef(held[p])
    /\ held' = [held EXCEPT ![p] = 0]
    /\ pc' = [pc EXCEPT ![p] = "idle"]
    /\ work' = [work EXCEPT ![p] = {}]
    /\ out' = [out EXCEPT ![p] = {}]
    /\ seen' = [seen EXCEPT ![p] = e]
    /\ done' = IF p = "flusher" THEN {} ELSE done

\* mergeBlocks stops when the table closes (the flusher's merges do not), or
\* on a read error; the directory without metadata.json stays behind.  The
\* syncer gives up when it knows no data node.  Either way the epoch is not
\* marked as handled, and the round is repeated.
FailRound(p) ==
    /\ Running
    /\ \/ pc[p] = "merge" /\ (Faults \/ (p = "merger" /\ status = "closing"))
       \/ p = "syncer" /\ pc[p] = "ready" /\ FileIDs(Snapshot(p)) # {}
    /\ EndRound(p, seen[p])
    /\ UNCHANGED <<disk, removable, gc, intro, history, status, curPartID, queued,
                   session>>

\* flush: every memory part of the snapshot goes to a file part of its own,
\* one after the other; the introduction carries all of them.
StartFlush ==
    LET M == MemIDs(Snapshot("flusher")) IN
    /\ Running /\ "flusher" \in Loops /\ pc["flusher"] = "ready" /\ done = {} /\ M # {}
    /\ work' = [work EXCEPT !["flusher"] = M]
    /\ pc' = [pc EXCEPT !["flusher"] = "flush"]
    /\ UNCHANGED <<disk, counts, out, done, seen, gc, intro, history, status, curPartID,
                   queued, session>>

MustFlush(i) ==
    /\ Running /\ "flusher" \in Loops /\ pc["flusher"] = "flush" /\ i \in work["flusher"]
    /\ \A j \in work["flusher"] : dir[j] = "none"
    /\ dir' = [dir EXCEPT ![i] = "partial"]
    /\ UNCHANGED <<rows, manifests, names, counts, loops, gc, intro, history, status,
                   curPartID, queued, session>>

MustFlushDone(i) ==
    /\ Running /\ "flusher" \in Loops /\ pc["flusher"] = "flush" /\ i \in work["flusher"]
    /\ dir[i] = "partial"
    /\ dir' = [dir EXCEPT ![i] = "full"]
    /\ ref' = [ref EXCEPT ![<<"file", i>>] = 1]
    /\ work' = [work EXCEPT !["flusher"] = @ \ {i}]
    /\ out' = [out EXCEPT !["flusher"] = @ \cup {i}]
    /\ pc' = [pc EXCEPT !["flusher"] = IF work["flusher"] = {i} THEN "sendFlush" ELSE @]
    /\ UNCHANGED <<rows, manifests, names, parts, sref, held, removable, removing, done,
                   seen, gc, intro, history, status, curPartID, queued, session>>

\* syncSnapshot: all file parts of the snapshot are streamed to the data nodes
\* (or kept under failed-parts) before the introduction removes them.
SyncSnapshot ==
    LET F == FileIDs(Snapshot("syncer")) IN
    /\ Running /\ "syncer" \in Loops /\ pc["syncer"] = "ready" /\ F # {}
    /\ work' = [work EXCEPT !["syncer"] = F]
    /\ shipped' = shipped \cup Rows(F)
    /\ pc' = [pc EXCEPT !["syncer"] = "send"]
    /\ UNCHANGED <<disk, counts, out, done, seen, gc, intro, sent, introduced, durable,
                   acked, crashes, closes, status, curPartID, queued, session>>

\* The round is over, or there was nothing to do in this snapshot.
Release(p) ==
    /\ Running
    /\ \/ pc[p] = "done"
       \/ /\ pc[p] = "ready"
          /\ CASE p = "flusher" -> done # {} \/ MemIDs(Snapshot(p)) = {}
               [] p = "merger" -> TRUE
               [] p = "syncer" -> FileIDs(Snapshot(p)) = {}
    /\ EndRound(p, held[p])
    /\ UNCHANGED <<disk, removable, gc, intro, history, status, curPartID, queued,
                   session>>

\* The CloseNotify branch of a loop that waits for the introducer.  The parts
\* it wrote stay on disk.
Abandon(p) ==
    /\ status = "closing" /\ pc[p] \in {"send", "sendFlush"}
    /\ EndRound(p, held[p])
    /\ UNCHANGED <<disk, removable, gc, intro, history, status, curPartID, queued,
                   session>>

-----------------------------------------------------------------------------
(***************************************************************************)
(* Close, crash, and initTSTable.                                          *)
(***************************************************************************)

StartClose ==
    /\ status = "up" /\ closes < MaxClose
    /\ status' = "closing" /\ closes' = closes + 1
    /\ UNCHANGED <<disk, counts, loops, gc, intro, sent, introduced, durable, shipped,
                   acked, crashes, curPartID, queued, session>>

\* What dies with the tsTable object.
Forget ==
    /\ status' = "down"
    /\ parts' = [e \in Epoch |-> {}] /\ sref' = [e \in Epoch |-> 0]
    /\ held' = [h \in Holder |-> 0]
    /\ ref' = [w \in Part |-> 0] /\ removable' = {}
    /\ liveEpoch' = 0 /\ deletableEpochs' = {}
    /\ queued' = {} /\ session' = [r \in Receivers |-> 0]
    /\ ipc' = "idle" /\ persist' = FALSE /\ client' = "none"
    /\ pc' = [p \in Loops |-> "idle"] /\ done' = {} /\ seen' = [p \in Loops |-> 0]
    /\ work' = [p \in Loops |-> {}] /\ out' = [p \in Loops |-> {}]
    /\ curPartID' = 0 /\ introduced' = {}

\* tsTable.Close after CloseThenWait: the last reference to the snapshot.
\* Close itself waits for the loops only.  Queries and sessions are over because
\* they hold references to the segment, whose last one closes its tables; a
\* database.Close that comes before them ends with the process, as in Crash.
\* Removal goroutines survive Close, since the process goes on.
CloseTable ==
    /\ status = "closing" /\ ipc = "exited" /\ queued = {}
    /\ \A p \in Loops : pc[p] = "idle"
    /\ \A r \in Readers : held[r] = 0
    /\ \A r \in Receivers : session[r] = 0
    /\ removing' = removing \cup
         {i \in FileIDs(Snapshot("table") \cap removable) : ref[<<"file", i>>] = 1}
    /\ Forget
    /\ UNCHANGED <<disk, epoch, sent, durable, shipped, acked, crashes, closes>>

\* The process dies; the directories and manifests stay as they are.
Crash ==
    /\ crashes < MaxCrash
    /\ crashes' = crashes + 1
    /\ removing' = {}
    /\ Forget
    /\ UNCHANGED <<disk, epoch, sent, durable, shipped, acked, closes>>

Loadable == manifests # {} /\ \E i \in ID : dir[i] = "full"

\* initTSTable with no usable part or no manifest, or after it failed to read
\* each of the manifests, which then stay: start empty, with a new epoch taken
\* from the clock.
InitTSTableEmpty ==
    /\ status = "down" /\ (Loadable => Faults)
    /\ status' = "up"
    /\ dir' = [i \in ID |-> "none"]
    /\ manifests' = IF Loadable THEN manifests ELSE {}
    /\ durable' = IF Loadable THEN {} ELSE durable
    /\ epoch' = epoch + 1
    /\ seen' = [p \in Loops |-> IF p = "flusher" THEN epoch ELSE 0]
    /\ UNCHANGED <<rows, names, counts, pc, work, out, done, gc, ipc, persist, client,
                   sent, introduced, shipped, acked, crashes, closes, curPartID, queued,
                   session>>

\* Mutant: directories the manifest does not name are left alone.
LoadSnapshotKeepOrphans(e, bad) ==
    LET load == {i \in names[e] : dir[i] = "full"} IN
    /\ status = "down" /\ Newest(e) /\ load # {} /\ bad = {}
    /\ status' = "up"
    /\ curPartID' \in {m \in load : \A i \in load : i <= m}
    /\ liveEpoch' = e
    /\ parts' = [parts EXCEPT ![e] = {"file"} \X load]
    /\ sref' = [sref EXCEPT ![e] = 1]
    /\ held' = [held EXCEPT !["table"] = e]
    /\ ref' = [w \in Part |-> IF w \in {"file"} \X load THEN 1 ELSE 0]
    /\ epoch' = e + 1
    /\ seen' = [p \in Loops |-> IF p = "flusher" THEN e ELSE 0]
    /\ introduced' = Rows(load)
    /\ UNCHANGED <<disk, removable, removing, deletableEpochs, pc, work, out, done, ipc,
                   persist, client, sent, durable, shipped, acked, crashes, closes,
                   queued, session>>

\* initTSTable and loadSnapshot: the newest manifest decides which directories
\* are parts of the table; the others are removed.  Manifests that cannot be
\* read are skipped, and removed once an older one is loaded.  bad are the parts
\* whose metadata cannot be read any more when loadSnapshot validates it again:
\* they are removed and the manifest is written, and registered, once more.
LoadSnapshot(e, bad) ==
    LET found == {i \in names[e] : dir[i] = "full"}
        load == found \ bad
    IN
    /\ status = "down" /\ Loadable /\ e \in manifests /\ bad \subseteq found
    /\ ~Newest(e) \/ bad # {} => Faults
    /\ status' = "up"
    /\ manifests' = {f \in manifests : f <= e}
    /\ dir' = [i \in ID |-> IF i \in load THEN "full" ELSE "none"]
    /\ curPartID' \in {m \in load \cup {0} : \A i \in load : i <= m}
    /\ liveEpoch' = e
    /\ IF load = {}
         THEN UNCHANGED <<names, deletableEpochs, counts>>
         ELSE /\ names' = IF bad = {} THEN names ELSE [names EXCEPT ![e] = load]
              /\ deletableEpochs' = IF bad = {} THEN {} ELSE {e}
              /\ parts' = [parts EXCEPT ![e] = {"file"} \X load]
              /\ sref' = [sref EXCEPT ![e] = 1]
              /\ held' = [held EXCEPT !["table"] = e]
              /\ ref' = [w \in Part |-> IF w \in {"file"} \X load THEN 1 ELSE 0]
              /\ UNCHANGED <<removable, removing>>
    /\ epoch' = e + 1
    /\ seen' = [p \in Loops |-> IF p = "flusher" THEN e ELSE 0]
    /\ introduced' = Rows(load)
    /\ durable' = IF Newest(e) /\ bad = {} THEN durable ELSE durable \cap Rows(load)
    /\ UNCHANGED <<rows, pc, work, out, done, ipc, persist, client, sent,
                   shipped, acked, crashes, closes, queued, session>>

-----------------------------------------------------------------------------
Init ==
    /\ dir = [i \in ID |-> "none"] /\ rows = [i \in ID |-> {}]
    /\ manifests = {} /\ names = [e \in Epoch |-> {}] /\ removing = {}
    /\ status = "up" /\ curPartID = 0 /\ epoch = 1
    /\ parts = [e \in Epoch |-> {}] /\ sref = [e \in Epoch |-> 0]
    /\ held = [h \in Holder |-> 0]
    /\ ref = [w \in Part |-> 0] /\ removable = {}
    /\ liveEpoch = 0 /\ deletableEpochs = {}
    /\ queued = {} /\ session = [r \in Receivers |-> 0]
    /\ ipc = "idle" /\ persist = FALSE /\ client = "none"
    /\ pc = [p \in Loops |-> "idle"] /\ done = {} /\ seen = [p \in Loops |-> 0]
    /\ work = [p \in Loops |-> {}] /\ out = [p \in Loops |-> {}]
    /\ sent = {} /\ introduced = {} /\ durable = {} /\ shipped = {} /\ acked = {}
    /\ crashes = 0 /\ closes = 0

Introducer ==
    \/ \E w \in Part : IntroducePart(w)
    \/ IntroduceFlushed
    \/ \E p \in Loops : IntroduceMerged(p)
    \/ ReplaceSnapshot
    \/ PersistSnapshot
    \/ Applied
    \/ Clean
    \/ DrainExit

LoopStep(p) ==
    \/ TakeSnapshot(p)
    \/ \E G \in SUBSET ID : StartMerge(p, G)
    \/ FinishMerge(p)
    \/ FailRound(p)
    \/ Release(p)
    \/ Abandon(p)

Flush ==
    \/ StartFlush
    \/ \E i \in ID : MustFlush(i)
    \/ \E i \in ID : MustFlushDone(i)

Next ==
    \/ Introducer
    \/ \E p \in Loops : LoopStep(p)
    \/ Flush
    \/ SyncSnapshot
    \/ \E w \in Writes : MustAddMemPart(w)
    \/ \E r \in Receivers, w \in Writes : CreatePartHandler(r, w)
    \/ \E r \in Receivers : FinishSync(r)
    \/ \E r \in Receivers : AbortSync(r)
    \/ \E w \in Part : DropQueued(w)
    \/ \E r \in Readers : Acquire(r)
    \/ \E r \in Readers : ReleaseReader(r)
    \/ \E i \in ID : MustRMAll(i)
    \/ StartClose
    \/ CloseTable
    \/ Crash
    \/ InitTSTableEmpty
    \/ \E e \in Epoch, bad \in SUBSET ID : LoadSnapshot(e, bad)

Spec == Init /\ [][Next]_vars

\* Every goroutine is scheduled: the introducer, the loops (flusherLoop is
\* woken by the epoch watcher and by its timer), the removals and the recovery.
FairSpec ==
    /\ Spec
    /\ WF_vars(Introducer)
    /\ \A p \in Loops : WF_vars(LoopStep(p))
    /\ WF_vars(Flush)
    /\ \A i \in ID : WF_vars(MustRMAll(i))
    /\ \A r \in Readers : WF_vars(ReleaseReader(r))

-----------------------------------------------------------------------------
(***************************************************************************)
(* Properties.                                                             *)
(***************************************************************************)

\* Every variable stays in its range; in particular no reference count of a
\* snapshot or of a partWrapper ever drops below zero.
TypeOK ==
    /\ dir \in [ID -> {"none", "partial", "full"}] /\ rows \in [ID -> SUBSET Writes]
    /\ manifests \in SUBSET Epoch /\ names \in [Epoch -> SUBSET ID]
    /\ removing \in SUBSET ID /\ status \in {"up", "closing", "down"}
    /\ curPartID \in 0..MaxPart /\ epoch \in Nat \ {0}
    /\ parts \in [Epoch -> SUBSET Part] /\ sref \in [Epoch -> Nat]
    /\ held \in [Holder -> {0} \cup Epoch]
    /\ ref \in [Part -> Nat] /\ removable \in SUBSET Part
    /\ liveEpoch \in {0} \cup Epoch /\ deletableEpochs \in SUBSET Epoch
    /\ queued \in SUBSET Part /\ session \in [Receivers -> {0} \cup ID]
    /\ ipc \in {"idle", "replace", "persist", "applied", "clean", "exited"}
    /\ persist \in BOOLEAN /\ client \in Loops \cup {"none"}
    /\ pc \in [Loops -> {"idle", "ready", "merge", "flush", "send", "sendFlush",
                         "applied", "done"}]
    /\ work \in [Loops -> SUBSET ID] /\ out \in [Loops -> SUBSET ID]
    /\ done \in SUBSET ID /\ seen \in [Loops -> Nat]
    /\ sent \in SUBSET Writes /\ introduced \in SUBSET Writes
    /\ durable \in SUBSET Writes /\ shipped \in SUBSET Writes /\ acked \in SUBSET Writes
    /\ crashes \in Nat /\ closes \in Nat

\* A snapshot that somebody holds (a query, a backup, a flush or a merge in
\* progress) is not released under the holder; each of its parts is open, its
\* files are complete, and no removal of its directory is under way, whatever
\* was merged, flushed or synced meanwhile.
HeldPartsUsable ==
    \A h \in Holder : held[h] # 0 =>
        /\ sref[held[h]] > 0
        /\ \A w \in parts[held[h]] :
             /\ ref[w] > 0
             /\ Kind(w) = "file" => dir[PartID(w)] = "full" /\ PartID(w) \notin removing

\* An introduced row stays visible in the current snapshot until the syncer
\* has shipped it: neither a flush nor a merge that worked on a stale snapshot
\* loses what was introduced in between.
NothingDropped ==
    Running => introduced \subseteq (Visible \cup shipped)

\* No row is in two parts of the current snapshot, so that no query counts it
\* twice.
NoRowTwice ==
    \A v, w \in Snapshot("table") : v # w => rows[PartID(v)] \cap rows[PartID(w)] = {}

\* A row that a manifest once recorded in a file part is recoverable at every
\* moment at which the process may die.
DurableRecoverable ==
    durable \subseteq (Rows(Recoverable) \cup shipped)

\* While a table with parts is open or was closed, the manifest the garbage
\* collector regards as live is the newest one on disk.
LiveManifestKept ==
    liveEpoch # 0 => liveEpoch \in manifests /\ \A e \in manifests : e <= liveEpoch

\* A new identifier, which a merge or a sync session takes after a recovery
\* too, has no directory yet: mustInitForFilePart cannot panic.
NoDirCollision ==
    Running => \A i \in ID : i > curPartID => dir[i] = "none"

\* A memory part that is to be flushed has no directory yet: the
\* MkdirPanicIfExist of mustFlush cannot panic.
FlushDirFresh ==
    "flusher" \in Loops /\ pc["flusher"] = "flush" =>
        \A i \in work["flusher"] : dir[i] # "full"

\* What a loop hands to the introducer still refers to the current snapshot:
\* the parts it consumed are there, and in the kind it read them in.
IntroductionFits ==
    \A p \in Loops :
        /\ pc[p] = "send" => \A i \in work[p] :
              <<IF p = "flusher" THEN "mem" ELSE "file", i>> \in Snapshot("table")
        /\ pc[p] = "sendFlush" => \A i \in out[p] : <<"mem", i>> \in Snapshot("table")

\* A row whose sync session was answered as complete is in the table after
\* every restart.
SyncCompleteSurvives ==
    acked \subseteq (Rows(Recoverable) \cup shipped)

\* A row in memory reaches a manifest, unless the process dies first.
RowsBecomeDurable ==
    \A w \in Writes : (w \in introduced) ~> (w \in durable \/ w \notin introduced)

\* The directory of a part that was merged away disappears, unless the process
\* dies first.
MergedPartsVanish ==
    \A i \in ID : (Running /\ <<"file", i>> \in removable)
                    ~> (dir[i] = "none" \/ <<"file", i>> \notin removable)

\* The shard's contract, with the rows of the current snapshot as the visible
\* ones; while the table is down, those that initTSTable will load.
Contract == INSTANCE ShardContract WITH
    Row <- Writes, running <- Running, offered <- sent, durable <- durable,
    visible <- IF Running THEN Visible ELSE Rows(Recoverable)

\* The table implements the contract: flushes and merges that end on a later
\* snapshot than they began with, manifests, removals and recovery never take
\* a visible row away between restarts, nor a durable one at a restart.
ImplementsContract == Contract!Spec
=============================================================================
