------------------------------- MODULE Handoff -------------------------------
(***************************************************************************)
(* The hand-off queues of a liaison (banyand/trace/handoff_controller.go,  *)
(* handoff_storage.go) and the part of the trace syncer that fills them.   *)
(*                                                                         *)
(* A sync round ships the parts of a shard's table to the nodes the        *)
(* selector returns; for the owners that are neither among those nodes nor *)
(* healthy in the monitor's last poll, the files of the parts are hard     *)
(* linked into a queue directory per node.  A replay worker sends what is  *)
(* queued for a node once the monitor sees it healthy, and removes it.     *)
(*                                                                         *)
(* Simplifications.                                                        *)
(*  - An item is the data of one part of one type.  The directory it goes  *)
(*    to, <partID>/<partType>, is its key: part numbers count per table,   *)
(*    and one controller serves the tables of all shards and groups, so    *)
(*    items of different tables may have the same key.  Items are numbered *)
(*    in the order in which listPending sorts their keys.                  *)
(*  - The selector places every shard on all active nodes (copies >= the   *)
(*    number of nodes), so LocateAll returns them or fails when none is.   *)
(*  - The status and trigger channels only decide the order in which a     *)
(*    tick of the worker visits the nodes; a tick visits them in any order.*)
(*  - inFlightSends is written by the replay worker alone, so the item it  *)
(*    marks is the one the worker is busy with and its check never hits.   *)
(*  - A .node_info that cannot be created is one that stays empty.         *)
(*  - What the nodes of a round answer, and what the round does with a     *)
(*    part some of them refused, is the subject of PartSync.               *)
(***************************************************************************)
EXTENDS Integers, FiniteSetsExt

CONSTANTS
    Nodes,      \* data-node-list
    Parts,      \* parts the tables of this liaison hold over time
    Tables,     \* shard tables, each with a syncer
    Table,      \* [Parts -> Tables]
    Item,       \* [Parts -> sets of numbers]: the core and sidx items of a part
    Key,        \* [items -> Nat]: the directory <partID>/<partType> in a queue
    Number,     \* [items -> Nat]: the partID of it
    Size,       \* [items -> Nat]: CompressedSizeBytes
    Dropped,    \* parts whose group may be deleted
    MaxSize,    \* maxTotalSizeBytes; 0 disables the limit
    Batch,      \* replayBatchSize
    MaxFlips,   \* bound on nodes going down or up
    MaxCrash    \* bound on restarts of the liaison

Items == UNION {Item[p] : p \in Parts}

\* Two parts have no data in common; the directories of their items they may well share.
ASSUME HandoffAssumption ==
    /\ MaxSize \in Nat /\ Batch \in Nat \ {0} /\ MaxFlips \in Nat /\ MaxCrash \in Nat
    /\ Dropped \subseteq Parts /\ IsFiniteSet(Nodes)
    /\ Items \subseteq Nat /\ IsFiniteSet(Items)
    /\ Table \in [Parts -> Tables]
    /\ \A p, q \in Parts : p # q => Item[p] \cap Item[q] = {}
    /\ \A i \in Items : Size[i] \in Nat /\ Key[i] \in Nat /\ Number[i] \in Nat
    /\ \A i, j \in Items : i < j => Key[i] <= Key[j] /\ Number[i] <= Number[j]

VARIABLES
    disk,       \* [Nodes -> [Items -> ...]]: "none", "queued", "bare" without .handoff_meta,
                \* "torn" with it, but without some files
    dirs,       \* pairs <<n, number>>: the queue of n has a directory for that part number
    info,       \* [Nodes -> ...]: .node_info is not there ("none"), "empty" or "written"
    loaded,     \* nodeQueues
    total,      \* currentTotalSize
    healthy,    \* healthyNodes, as of the last poll
    up,         \* the queue client's active nodes
    table,      \* parts in the shard tables
    coming,     \* parts not yet flushed into a table
    sync,       \* the syncer of each table: its step, the parts and nodes of the round, the
                \* pairs <<node, item>> to enqueue and the one that holds a reservation
    replay,     \* the replay worker: its step, nodes and items to do, the item it has read in
                \* the directory of the current one (full: with all its files), the size it
                \* has read there later
    delivered,  \* pairs <<n, i>>: node n acknowledged a replay of item i
    deleted,    \* the group of Dropped has been deleted
    flips, crashes

files == <<disk, dirs, info>>
queues == <<files, loaded, total>>
cluster == <<up, flips>>
shard == <<table, coming>>
vars == <<queues, healthy, cluster, shard, sync, replay, delivered, deleted, crashes>>

SyncIdle == [pc |-> "idle", parts |-> {}, nodes |-> {}, todo |-> {}, entry |-> {}]
ReplayIdle == [pc |-> "idle", nodes |-> {}, at |-> 0, items |-> {},
               data |-> {}, full |-> {}, size |-> 0]

ItemsOf(ps) == UNION {Item[p] : p \in ps}

\* The largest item.
Largest == Max({0} \cup {Size[i] : i \in Items})

\* The bytes of the items of a set of pairs: byte b[2] of the item of pair b[1].
Bytes(s) == Cardinality({b \in s \X (1 .. Largest) : b[2] <= Size[b[1][2]]})

\* The directories with a metadata file, those of them with all their files, what is
\* in a directory, and what the syncers have reserved space for.
Queued == {e \in Nodes \X Items : disk[e[1]][e[2]] \in {"queued", "torn"}}
Whole == {e \in Nodes \X Items : disk[e[1]][e[2]] = "queued"}
Pending(n) == {i \in Items : disk[n][i] # "none"}
At(n, k) == {e \in Nodes \X Items : e[1] = n /\ Key[e[2]] = k}
Reserved == UNION {sync[t].entry : t \in Tables}

\* updateTotalSize with a negative delta.
Less(size) == IF size > total THEN 0 ELSE total - size

Init ==
    /\ disk = [n \in Nodes |-> [i \in Items |-> "none"]]
    /\ dirs = {} /\ total = 0 /\ loaded = {} /\ info = [n \in Nodes |-> "none"]
    /\ up = Nodes /\ healthy = Nodes /\ flips = 0
    /\ table = {} /\ coming = Parts
    /\ sync = [t \in Tables |-> SyncIdle] /\ replay = ReplayIdle
    /\ delivered = {} /\ deleted = FALSE /\ crashes = 0

-----------------------------------------------------------------------------
(* The syncer *)

\* A flush leaves a new file part in the table.
Flush(p) ==
    /\ p \in coming
    /\ ~(deleted /\ p \in Dropped)
    /\ coming' = coming \ {p} /\ table' = table \cup {p}
    /\ UNCHANGED <<queues, healthy, cluster, sync, replay, delivered, deleted, crashes>>

\* syncSnapshot: every file part of the snapshot, if the selector has a node.
CollectPartsToSync(t) ==
    /\ sync[t].pc = "idle" /\ up # {}
    /\ LET parts == {p \in table : Table[p] = t} IN
       /\ parts # {}
       /\ sync' = [sync EXCEPT ![t] = [SyncIdle EXCEPT !.pc = "ship", !.parts = parts]]
    /\ UNCHANGED <<queues, healthy, cluster, shard, replay, delivered, deleted, crashes>>

\* executeSyncOperation: the parts go to each node the selector returns now.
Ship(t) ==
    /\ sync[t].pc = "ship"
    /\ sync' = [sync EXCEPT ![t] = [@ EXCEPT !.pc = "offline", !.nodes = up]]
    /\ UNCHANGED <<queues, healthy, cluster, shard, replay, delivered, deleted, crashes>>

\* nodesForShard: the selector's answer, or the configured list when it fails.
NodesForShard(resolved) == IF resolved /\ up # {} THEN up ELSE Nodes

\* calculateOfflineNodes.
CalculateOfflineNodes(t) ==
    /\ sync[t].pc = "offline"
    /\ \E resolved \in BOOLEAN :
          LET offline == (NodesForShard(resolved) \ sync[t].nodes) \ healthy IN
          sync' = [sync EXCEPT ![t] = [@ EXCEPT
                      !.pc = IF offline = {} THEN "introduce" ELSE "filter", !.nodes = offline]]
    /\ UNCHANGED <<queues, healthy, cluster, shard, replay, delivered, deleted, crashes>>

\* filterNodesForShard asks the selector again.
FilterNodesForShard(t) ==
    /\ sync[t].pc = "filter"
    /\ \E resolved \in BOOLEAN :
          LET todo == (sync[t].nodes \cap NodesForShard(resolved)) \X ItemsOf(sync[t].parts) IN
          sync' = [sync EXCEPT ![t] = [@ EXCEPT
                      !.pc = IF todo = {} THEN "introduce" ELSE "reserve",
                      !.nodes = {}, !.todo = todo]]
    /\ UNCHANGED <<queues, healthy, cluster, shard, replay, delivered, deleted, crashes>>

\* The round of t goes on with the pairs left.
EnqueueRest(t, rest) ==
    sync' = [sync EXCEPT ![t] = [@ EXCEPT
                !.pc = IF rest = {} THEN "introduce" ELSE "reserve",
                !.todo = rest, !.entry = {}]]

\* Mutant: the new item is not counted.
TryReserveSizeLate(t) ==
    /\ sync[t].pc = "reserve"
    /\ \E e \in sync[t].todo :
          IF MaxSize > 0 /\ total > MaxSize
          THEN EnqueueRest(t, sync[t].todo \ {e}) /\ UNCHANGED total
          ELSE /\ total' = total + Size[e[2]]
               /\ sync' = [sync EXCEPT ![t] = [@ EXCEPT !.pc = "enqueue", !.entry = {e}]]
    /\ UNCHANGED <<files, loaded, healthy, cluster, shard, replay, delivered, deleted, crashes>>

\* tryReserveSize, at the head of enqueueForNode: the pair is reserved or refused.
TryReserveSize(t) ==
    /\ sync[t].pc = "reserve"
    /\ \E e \in sync[t].todo :
          IF MaxSize > 0 /\ total + Size[e[2]] > MaxSize
          THEN EnqueueRest(t, sync[t].todo \ {e}) /\ UNCHANGED total
          ELSE /\ total' = total + Size[e[2]]
               /\ sync' = [sync EXCEPT ![t] = [@ EXCEPT !.pc = "enqueue", !.entry = {e}]]
    /\ UNCHANGED <<files, loaded, healthy, cluster, shard, replay, delivered, deleted, crashes>>

\* A directory for the key of e exists.
Occupied(e) == \E f \in At(e[1], Key[e[2]]) : disk[f[1]][f[2]] # "none"

\* newHandoffNodeQueue: .node_info is written when it is not there, which may fail.
WriteNodeInfo(n) ==
    \E i \in {"written", "empty"} :
        info' = [info EXCEPT ![n] = IF @ = "none" THEN i ELSE @]

\* The rest of enqueueForNode, under hc.mu: the queue of the node and the directory of
\* the part number, then nothing to do for a key that exists; otherwise the links and
\* then the metadata file, or an error that removes both and returns the reservation.
EnqueueForNode(t) ==
    /\ sync[t].pc = "enqueue"
    /\ \E e \in sync[t].entry :
          /\ loaded' = loaded \cup {e[1]} /\ WriteNodeInfo(e[1])
          /\ dirs' = dirs \cup {<<e[1], Number[e[2]]>>}
          /\ \/ Occupied(e) /\ UNCHANGED <<disk, total>>
             \/ /\ ~Occupied(e)
                /\ disk' = [disk EXCEPT ![e[1]][e[2]] = "queued"]
                /\ UNCHANGED total
             \/ /\ ~Occupied(e)
                /\ total' = Less(Size[e[2]])
                /\ UNCHANGED disk
          /\ EnqueueRest(t, sync[t].todo \ {e})
    /\ UNCHANGED <<healthy, cluster, shard, replay, delivered, deleted, crashes>>

\* handleSyncIntroductions: the parts of the round leave the table.
HandleSyncIntroductions(t) ==
    /\ sync[t].pc = "introduce"
    /\ table' = table \ sync[t].parts
    /\ sync' = [sync EXCEPT ![t] = SyncIdle]
    /\ UNCHANGED <<queues, healthy, cluster, coming, replay, delivered, deleted, crashes>>

-----------------------------------------------------------------------------
(* The replay worker *)

\* A tick of replayWorkerLoop: the nodes with pending items.
Tick ==
    /\ replay.pc = "idle"
    /\ LET work == {n \in loaded : Pending(n) # {}} IN
       /\ work # {}
       /\ replay' = [ReplayIdle EXCEPT !.pc = "visit", !.nodes = work]
    /\ UNCHANGED <<queues, healthy, cluster, shard, sync, delivered, deleted, crashes>>

\* The worker is done with a node, and with the tick after the last one.
NextNode(left) == [ReplayIdle EXCEPT !.pc = IF left = {} THEN "idle" ELSE "visit", !.nodes = left]

\* replayBatchForNode: the first items in listPending's order; an unhealthy
\* node is passed over.
ReplayBatchForNode ==
    /\ replay.pc = "visit"
    /\ \E n \in replay.nodes :
          LET left == replay.nodes \ {n}
              before(i) == {j \in Pending(n) : j < i} IN
          replay' = IF n \notin healthy \/ Pending(n) = {}
                    THEN NextNode(left)
                    ELSE [ReplayIdle EXCEPT !.pc = "read", !.nodes = left, !.at = n,
                             !.items = {i \in Pending(n) : Cardinality(before(i)) < Batch}]
    /\ UNCHANGED <<queues, healthy, cluster, shard, sync, delivered, deleted, crashes>>

\* The item of the batch the worker is busy with, the pairs its directory may hold, and
\* what it does after it.
Current == Min(replay.items)
Here == At(replay.at, Key[Current])

NextItem ==
    LET rest == replay.items \ {Current} IN
    IF rest = {} THEN NextNode(replay.nodes)
    ELSE [replay EXCEPT !.pc = "read", !.items = rest,
                            !.data = {}, !.full = {}, !.size = 0]

\* readPartFromHandoff: it needs the metadata file and the part's own metadata; other
\* files are not missed.
ReadPartFromHandoff ==
    /\ replay.pc = "read"
    /\ \/ /\ Here \cap Queued # {}
          /\ replay' = [replay EXCEPT !.pc = "send", !.data = {e[2] : e \in Here \cap Queued},
                                                    !.full = {e[2] : e \in Here \cap Whole}]
       \/ Here \cap Whole = {} /\ replay' = NextItem
    /\ UNCHANGED <<queues, healthy, cluster, shard, sync, delivered, deleted, crashes>>

\* sendPartToNode succeeds.
SendPartToNode ==
    /\ replay.pc = "send" /\ replay.at \in up
    /\ delivered' = delivered \cup {<<replay.at, i>> : i \in replay.full}
    /\ replay' = [replay EXCEPT !.pc = "measure"]
    /\ UNCHANGED <<queues, healthy, cluster, shard, sync, deleted, crashes>>

\* Mutant: an item is completed whatever the node answers.
SendPartToNodeIgnoresError ==
    /\ replay.pc = "send"
    /\ replay' = [replay EXCEPT !.pc = "measure"]
    /\ UNCHANGED <<queues, healthy, cluster, shard, sync, delivered, deleted, crashes>>

\* sendPartToNode fails: no client, or an answer that is lost after the node
\* took the part; the item stays queued.
SendPartToNodeFails ==
    /\ replay.pc = "send"
    /\ replay' = NextItem
    /\ UNCHANGED <<queues, healthy, cluster, shard, sync, delivered, deleted, crashes>>

\* completeSend reads the size in the metadata, if there is one ...
CompleteSendMeasure ==
    /\ replay.pc = "measure"
    /\ replay' = [replay EXCEPT !.pc = "complete", !.size = Bytes(Here \cap Queued)]
    /\ UNCHANGED <<queues, healthy, cluster, shard, sync, delivered, deleted, crashes>>

\* complete: the directories go, and those of part numbers that have none left.
Complete(gone) ==
    /\ disk' = [n \in Nodes |-> [i \in Items |->
                   IF <<n, i>> \in gone THEN "none" ELSE disk[n][i]]]
    /\ dirs' = {d \in dirs : \/ \A e \in gone : d # <<e[1], Number[e[2]]>>
                             \/ \E i \in Items : Number[i] = d[2] /\ disk'[d[1]][i] # "none"}

\* newHandoffController: loadExistingQueues adds up the sizes it finds in the queues
\* whose .node_info it can read, startMonitor takes the active nodes.
NewHandoffController ==
    /\ loaded' = {n \in Nodes : info'[n] = "written"}
    /\ total' = Bytes({e \in Queued' : e[1] \in loaded'})
    /\ healthy' = up
    /\ sync' = [t \in Tables |-> SyncIdle] /\ replay' = ReplayIdle

\* ... removes the directory, whatever it holds by now; when the one of the part number
\* is gone, ReadDir panics, and the liaison starts again ...
CompleteSendRemove ==
    /\ replay.pc = "complete"
    /\ UNCHANGED <<info, cluster, shard, delivered, deleted, crashes>>
    /\ \/ /\ <<replay.at, Number[Current]>> \in dirs
          /\ Complete(Here)
          /\ replay' = [replay EXCEPT !.pc = "subtract"]
          /\ UNCHANGED <<loaded, total, healthy, sync>>
       \/ /\ <<replay.at, Number[Current]>> \notin dirs
          /\ UNCHANGED <<disk, dirs>>
          /\ NewHandoffController

\* ... and subtracts that size.
CompleteSendSubtract ==
    /\ replay.pc = "subtract"
    /\ total' = Less(replay.size)
    /\ replay' = NextItem
    /\ UNCHANGED <<files, loaded, healthy, cluster, shard, sync, delivered, deleted, crashes>>

-----------------------------------------------------------------------------
(* Monitor, group deletion, restarts and the cluster *)

\* Mutant: nodes that come back are not seen.
CheckStatusDownOnly ==
    /\ healthy' = healthy \cap up
    /\ UNCHANGED <<queues, cluster, shard, sync, replay, delivered, deleted, crashes>>

\* checkAndNotifyStatusChanges.
CheckStatus ==
    /\ healthy' = up
    /\ UNCHANGED <<queues, cluster, shard, sync, replay, delivered, deleted, crashes>>

\* What a crash leaves of the directory of e when it is being removed: complete stops
\* before the metadata file or after it, or before the directory of the part number.
HalfRemoved(e) ==
    \E left \in {"none", "bare", "torn"} : disk' = [disk EXCEPT ![e[1]][e[2]] = left]

\* deletePartsByGroup, then the group's tables go; a round under way goes on.
\* When the worker's complete gets in between the metadata and the removal of the
\* directory it is to complete, the removal panics and what comes after it stays.
DeletePartsByGroup ==
    /\ ~deleted /\ Dropped # {}
    /\ UNCHANGED <<info, cluster, coming, delivered>>
    /\ LET gone == {e \in Queued : e[1] \in loaded /\ e[2] \in ItemsOf(Dropped)} IN
       \/ /\ Complete(gone)
          /\ total' = Less(Bytes(gone))
          /\ UNCHANGED <<loaded, healthy, sync, replay, crashes>>
       \/ /\ replay.pc = "complete"
          /\ \E e \in gone \cap Here, some \in SUBSET gone :
                e \in some /\ Complete(some) /\ <<e[1], Number[e[2]]>> \notin dirs'
          /\ NewHandoffController /\ UNCHANGED crashes
       \/ /\ crashes < MaxCrash /\ crashes' = crashes + 1
          /\ \E some \in SUBSET gone : Complete(some)
          /\ NewHandoffController
       \/ /\ crashes < MaxCrash /\ crashes' = crashes + 1
          /\ \E e \in gone : HalfRemoved(e) /\ UNCHANGED dirs
          /\ NewHandoffController
    /\ deleted' = TRUE
    /\ table' = table \ Dropped

\* Mutant: the counter starts from zero.
RestartEmpty ==
    /\ crashes < MaxCrash /\ crashes' = crashes + 1
    /\ total' = 0 /\ healthy' = up /\ loaded' = {n \in Nodes : info[n] = "written"}
    /\ sync' = [t \in Tables |-> SyncIdle] /\ replay' = ReplayIdle
    /\ UNCHANGED <<files, cluster, shard, delivered, deleted>>

\* What a crash leaves of enqueueForNode for e: .node_info alone, maybe empty, the
\* directory of the part number, or the links without their metadata file.
HalfEnqueued(e) ==
    /\ WriteNodeInfo(e[1])
    /\ \/ UNCHANGED <<disk, dirs>>
       \/ /\ dirs' = dirs \cup {<<e[1], Number[e[2]]>>}
          /\ \/ UNCHANGED disk
             \/ ~Occupied(e) /\ disk' = [disk EXCEPT ![e[1]][e[2]] = "bare"]

\* The process stops anywhere, and is started again.
Restart ==
    /\ crashes < MaxCrash /\ crashes' = crashes + 1
    /\ \/ UNCHANGED files
       \/ \E t \in Tables : sync[t].pc = "enqueue" /\ \E e \in sync[t].entry : HalfEnqueued(e)
       \/ /\ replay.pc = "complete"
          /\ \E e \in Here \cap Queued : HalfRemoved(e) /\ UNCHANGED <<dirs, info>>
    /\ NewHandoffController
    /\ UNCHANGED <<cluster, shard, delivered, deleted>>

\* A node leaves the queue client's active set, or joins it.
Flip(n) ==
    /\ flips < MaxFlips /\ flips' = flips + 1
    /\ up' = IF n \in up THEN up \ {n} ELSE up \cup {n}
    /\ UNCHANGED <<queues, healthy, shard, sync, replay, delivered, deleted, crashes>>

Next ==
    \/ \E p \in Parts : Flush(p)
    \/ \E t \in Tables :
          \/ CollectPartsToSync(t) \/ Ship(t) \/ CalculateOfflineNodes(t)
          \/ FilterNodesForShard(t) \/ TryReserveSize(t) \/ EnqueueForNode(t)
          \/ HandleSyncIntroductions(t)
    \/ Tick \/ ReplayBatchForNode \/ ReadPartFromHandoff
    \/ SendPartToNode \/ SendPartToNodeFails
    \/ CompleteSendMeasure \/ CompleteSendRemove \/ CompleteSendSubtract
    \/ CheckStatus \/ DeletePartsByGroup \/ Restart
    \/ \E n \in Nodes : Flip(n)

Spec == Init /\ [][Next]_vars

\* The worker and the monitor keep running; a send that is possible again and
\* again succeeds at last.
FairSpec ==
    /\ Spec
    /\ WF_vars(Tick) /\ WF_vars(ReplayBatchForNode) /\ WF_vars(ReadPartFromHandoff)
    /\ WF_vars(SendPartToNode \/ SendPartToNodeFails) /\ SF_vars(SendPartToNode)
    /\ WF_vars(CompleteSendMeasure) /\ WF_vars(CompleteSendRemove)
    /\ WF_vars(CompleteSendSubtract) /\ WF_vars(CheckStatus)

-----------------------------------------------------------------------------
(* Properties *)

\* Type invariant; the size of the queues (currentTotalSize) is never negative, and a
\* directory holds the items of one table at a time.
TypeOK ==
    /\ disk \in [Nodes -> [Items -> {"none", "bare", "torn", "queued"}]]
    /\ \A n \in Nodes : \A i, j \in Pending(n) : Key[i] = Key[j] => i = j
    /\ total \in Nat /\ loaded \subseteq Nodes /\ info \in [Nodes -> {"none", "empty", "written"}]
    /\ healthy \subseteq Nodes /\ up \subseteq Nodes
    /\ table \subseteq Parts /\ coming \subseteq Parts
    /\ \A t \in Tables :
          /\ sync[t].pc \in {"idle", "ship", "offline", "filter", "reserve", "enqueue", "introduce"}
          /\ sync[t].parts \subseteq Parts /\ sync[t].nodes \subseteq Nodes
          /\ sync[t].entry \subseteq sync[t].todo /\ sync[t].todo \subseteq Nodes \X Items
    /\ replay.pc \in {"idle", "visit", "read", "send", "measure", "complete", "subtract"}
    /\ replay.nodes \subseteq Nodes /\ replay.size \in Nat
    /\ replay.items \subseteq Items
    /\ replay.data \subseteq Items /\ replay.full \subseteq replay.data
    /\ delivered \subseteq Nodes \X Items

\* Some queue has lost its name: a restart passes it over until the next item for its
\* node.
Nameless == \E n \in Nodes : info[n] = "empty"

\* The queues stay within maxTotalSizeBytes (tryReserveSize, the recovery in
\* loadExistingQueues and the subtractions of completeSend), whichever shards enqueue at
\* the same time.  A group deletion that overlaps completeSend subtracts an item twice:
\* the excess is then at most the largest one.
WithinLimit ==
    MaxSize > 0 /\ ~Nameless => Bytes(Queued) <= MaxSize + (IF deleted THEN Largest ELSE 0)

\* The size on which tryReserveSize decides covers what is queued, and what is
\* reserved for the items being linked.
AccountCoversQueue ==
    ~deleted /\ ~Nameless =>
        Bytes(Queued \cup {e \in Reserved : disk[e[1]][e[2]] = "none"}) <= total

\* The worker is to complete an item of a group that has been deleted since, and e is in
\* the directory it read that item from.
Reused(e) ==
    /\ deleted /\ replay.pc = "complete" /\ e \in Here
    /\ replay.data \cap ItemsOf(Dropped) # {}

\* A queued item goes only when its node has acknowledged that very item or when its own
\* group is deleted, also when parts of several shards compete for one directory
\* (completeSend is reached only after a successful send, enqueue does not touch a
\* directory that exists).  The one exception is an item that was put where a deleted
\* group had one which the worker had already sent: completeSend removes by part number.
KeptUntilDelivered ==
    [][\A e \in Whole : \/ e \in Whole' \cup delivered
                        \/ deleted' # deleted /\ e[2] \in ItemsOf(Dropped)
                        \/ Reused(e)]_vars

\* What is queued for a node that recovers for good is replayed and removed
\* (replayWorkerLoop), unless its queue has lost its name.
QueuedReplayed ==
    \A n \in Nodes, i \in Items :
        <>[](n \in up) => []<>(disk[n][i] # "queued" \/ info[n] = "empty")

=============================================================================
