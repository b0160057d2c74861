# BanyanDB in TLA+

TLA+ models of the storage, replication and repair paths of BanyanDB, checked with TLC and,
for the core, proved with TLAPS. BanyanDB is a time-series database: *liaison* nodes accept
writes and queries, *data* nodes store the data. The models follow the Go code function by
function; `PROJECT.json` maps every definition to the lines it stands for.

## The system and its parts

```
 client --> liaison: write queue (TSTable: flusher + syncer)
               |  rounds, retries, failed-parts (PartSync)
               |  queues for offline owners, replay (Handoff)
               |  connections, probes, selector (NodeClient)
               |  one session per node and round (ChunkedSync)
               v
            data node: time segment (Segment) > shard > table (TSTable: flusher + merger)
                |                                             ^ queries, backups hold snapshots
                +-- property shard <-- repair (PropertyRepair) --> property shard of a replica
                                          ^ started by gossip (Gossip)
```

| Part | State | Operations that change it | What makes it hard | Module |
|---|---|---|---|---|
| Shard table, `banyand/measure` | snapshot (epoch, parts), reference counts, part directories, manifests (`.snp`), `curPartID` | add memory part, receive file part, flush, merge, sync, replace and persist snapshot, clean, close, recover | loops finish on stale snapshots; a crash between any two file operations; removal in a goroutine | TSTable |
| Time segment, `banyand/internal/storage` | atomic `refCount`, open index, `mustBeDeleted`, list, directory, `retentionGate` | select, create, re-open, release, idle close, retention, forced clean-up, collect, close | lock-free counter read and changed in separate instructions | Segment |
| Chunked sync, `banyand/queue/pub`, `banyand/queue/sub` | packing cursor, retry count, reorder buffer, part context | read, send, resend, reorder, time out, complete | corruption, reordering, duplicates, broken streams, unreadable files | ChunkedSync |
| Sync rounds, `measure/syncer.go`, `storage/failed_parts_handler.go` | parts of the round, failures per node, `failed-parts` | initial sync, retry, copy, introduce, close, restart | partial failure on several nodes, size limit, numbers reused after a restart | PartSync |
| Hand-off, `banyand/trace/handoff_*.go` | queue directory per offline node, size account, monitor's view of the nodes | reserve, enqueue, replay, complete, delete a group, recover | node health read at several moments; a deletion or a crash inside a replay | Handoff |
| Connections, `pkg/grpchelper`, `banyand/queue/pub` | registered, active and evicted node, reconnect and removal goroutines, probes, selector entries | register, evict, reconnect, activate, fail over, remove, reload credentials, probe | goroutines of earlier connections of the same name | NodeClient |
| Property repair, `banyand/property/db` | documents, Merkle trees, tree readers, pages | build, compare slots and leaves, exchange documents | streams merged leaf by leaf; documents change while trees are compared | PropertyRepair, PropertyVersion |
| Gossip, `banyand/property/gossip` | propagation and its count, origin per node, node list | start, repair with the next node, hand on, abort | nodes down or without a tree, lost requests | Gossip |

`PROJECT.json` lists all components, also those without a model and why, and the hazards with
the line where each one bites.

## Modules

**TSTable** models one shard table. A part is `<<kind, id>>`, `rows[id]` the set of writes it
holds. `dir`, `manifests` and `names` are the disk; the other variables are memory and are
lost in `Crash`. The introducer is a small state machine (`ipc`): it applies an introduction
(`IntroducePart`, `IntroduceFlushed`, `IntroduceMerged`), swaps the snapshot
(`ReplaceSnapshot`), writes the manifest (`PersistSnapshot`), answers its client and cleans.
Flusher, merger and syncer are loops with `pc`, the identifiers they read (`work`) and
produced (`out`); they take a reference to a snapshot (`TakeSnapshot`) and hand their outcome
over much later. `DecRef` releases a snapshot, its parts and, for merged parts, starts the
removal `MustRMAll`. `CreatePartHandler`, `FinishSync` and `AbortSync` are sync sessions on
the receiving side. `CloseTable` waits for the loops, as the code does, and comes after queries
and sessions, because these hold references to the segment that closes its tables with its last
one. `LoadSnapshot` and `InitTSTableEmpty` are `initTSTable`: the newest manifest decides, an
older one when it cannot be read, and none when none can be read; manifests are written under
another name and renamed, so the last two need `Faults`. The watcher between introducer and
loops is left out: a loop may start as soon as the epoch is newer than the one it has seen.

**ShardContract** is what a shard promises about rows, without parts, snapshots or files.
`TSTable!ImplementsContract` states that TSTable implements it under the mapping *visible =
rows of the current snapshot, or of what a recovery will load*.

**Segment** models one time segment with every atomic instruction of `incRef`, `initialize`,
`DecRef` and `performCleanup` as a step of its own. Goroutines are processes with a `pc`; a
generation is one in-memory `segment` object, since the same time range can be created again.
`index` is the series index and `shards` the tables in `sLst`, which are opened and closed apart:
`InitializeOpen` opens the index, `InitializeStore` loads the tables, `InitializeFail` closes the
index and leaves the tables that were loaded, and `CreateTSTable` is the table a session asks
for. `leaked` marks tables that were opened while nobody counted the segment.

**ChunkedSync** models one session between client and server over a FIFO stream that may break. The
layout of a session says to which part each read belongs; chunks carry positions of that layout. The
server receives a chunk (`ReceiveExpected`, or one of the steps that refuse, buffer or ignore it),
writes it position by position (`WritePiece`; `job` is where it is), answers and goes on to a
buffered chunk (`ChunkProcessed`). A *setting* chooses chunk size, unreadable parts, corruption, the
server's mode and version, and whether the chunks come from the client of this repository or from a
peer that sends them in any order, for which the server's reordering is written and tested.

**PartSync** models the rounds in which a liaison hands its parts to the nodes. A session is
one step whose outcome is any that ChunkedSync allows: a list of failed parts, or an error
after any of the parts were stored. The exception is a session in which no part can be read,
which sends nothing and waits (`SessionWaits`) until the connection is lost or the table closed
(`SessionBroken`). It keeps part identity and part number apart. An entry of `failed-parts` has
its part, the bytes that are linked and its modification time; making room for a part may skip
entries that cannot be examined, fail, or be cut short by a crash (`CutShort`).

**Handoff** models the queues the trace liaison keeps for owners that are offline. A sync round
reads the health of the nodes three times (`Ship`, `CalculateOfflineNodes`,
`FilterNodesForShard`), reserves the size (`TryReserveSize`) and links the files
(`EnqueueForNode`); the replay worker reads, sends, measures, removes and subtracts in separate
steps. The tables of all shards and groups (`Tables`, each with a syncer) share one controller,
and the directory of an item in a queue is its part number and type (`Key`): items of two tables
may want the same directory, and the worker completes by directory. `disk[n][i]` is what is there
of an item: `bare` has no metadata file, `torn` has it but lacks other files, as crashes inside the
copy and the removal leave them. `info[n]` is the file `.node_info`, without which a restart does
not know the queue, `loaded` the queues the process knows. `NewHandoffController` recovers the
queues and the account.

**NodeClient** models one remote node as a liaison sees it. What runs under `ConnManager.mu` is
one step; the reconnect goroutine (`LoopDials`, `LoopActivates`, `LoopFails`, `LoopStops`), the
removal goroutine, `ReconnectAll`, `checkWritable` and its probe are split where they hold no
lock. `sel` is the number of the node's entries in the selector. A connection that a late
reconnect goroutine does not hand over stays open, as in the code.

**PropertyVersion** defines which of two versions of a document wins. **PropertyRepair** models
a repair stream between client and server: tree summaries, pages of leaves, the buffered leaf
reader of the client and its merge, documents in both directions, and the trees rebuilt at the
end. A hash is the content it stands for. `shard.repair` is two steps, the search and the write,
since it holds no lock in between (`SearchOlder`, `Repaired`). `Rank` is the order of the strings
`group/name/id` in which the client compares leaves; the leaves themselves are sorted by group,
name and id, and where the two differ the client asks for documents it has. The stream takes any
number of messages: flow control is left out. **Gossip** extends it with the propagation that
starts the repairs.

`MCTSTable`, `MCChunkedSync`, `MCPartSync`, `MCHandoff` and `MCGossip` give constants their values
for TLC. `TSTableProofs`, `TSTableContract`, `TSTableStale`, `SegmentProofs`, `ChunkedSyncProofs`,
`PartSyncProofs`, `HandoffProofs` and `NodeClientProofs` hold the proofs. Operators whose comment
begins with "Mutant" are deliberate mistakes; each property is shown to fail when one of them
replaces the real definition. `TypeOK` is part of a run for TSTable, whose proofs rest on it; in the
other modules it documents the variables, and the proofs begin with it.

## Runs

| Run | Checks | Bounds |
|---|---|---|
| `table_rounds` | `NoRowTwice`, `IntroductionFits`, `FlushDirFresh`, `SyncCompleteSurvives`, and that rows become durable and merged directories vanish | 2 writes, a session, 4 identifiers, 5 epochs |
| `table_recovery` | `HeldPartsUsable`, `DurableRecoverable`, `NoDirCollision`, `LiveManifestKept`, `TypeOK`, and refinement of ShardContract | 2 writes, a reader, a session, a crash, a close, 6 epochs |
| `table_liaison` | `NothingDropped`, `DurableRecoverable` with flusher and syncer | 3 writes, a crash, 5 epochs |
| `segment_hot` | `HeldSegmentOpen`; deletion and `Close` complete | 2 queries, retention, forced clean-up, close |
| `segment_cold` | `NoOrphanIndex`, `IdleSegmentCloses` | a query, a session, idle closer, metrics, indexes and tables that fail to open |
| `chunked_sync` | `ReportedPartsDelivered`, `IntroducedPartsWhole`, `SessionEnds` | 3 parts, 4 to 5 reads, 3 retries, buffer and gap of 2 |
| `part_sync` | `HandedOver`, `FailedPartsBounded`, `RemovesNoMoreThanNeeded`, `PartsLeaveTable` | 2 nodes, an old entry and two new parts of sizes 1, 1 and 2, limits 0, 2 and 3, 2 attempts, one stop, entries that cannot be examined or removed |
| `handoff` | `WithinLimit`, `AccountCoversQueue`, `KeptUntilDelivered`, `QueuedReplayed` | 2 nodes, two tables whose parts have the same number, one of two items and one of a larger item, limit 2, 2 changes of health, a crash anywhere, also inside a copy, a removal or the write of `.node_info`, a group deletion |
| `node_client` | `ActiveIsOpen`, `SelectorFollowsActive`, `MarkHasProbe`, `NodeReturns`, `RemovedNodeLeaves` | 2 addresses, a publisher, 3 live connections, 2 evictions, 2 probes, 2 changes of health, a deletion or change of address, a reload |
| `property_gossip` | `Converged`, `TreesAgree`, `NoStepBack`, `GossipConverges`, `PropagationEnds` | 4 entities in 2 slots, pages and batches of 1; 2 replicas that differ in any way on three entities and in three ways on the fourth, 3 replicas with a node down or without a tree, a write, a broken stream, two propagations |

What they show: a table loses no row that was introduced, and no durable row in a crash; what a
query holds stays readable; a segment in use stays open; a session that is reported as complete
delivered all its data; a part leaves a liaison only when every owner has it or it was set aside,
and it does leave unless it waits behind a session that has nothing to send; a queued item is sent
before it is removed, unless it was put where a deleted one had been; a node that comes back is
used again; a repair leaves both replicas with the newest version, and a propagation all of them.

Why the bounds are enough: the interesting cases of the table need a merge of two flushed parts, a
flush or a session that ends after it, and a stop in between, which is four identifiers and five or
six epochs; a third write only adds further rounds of the same kind. A reference-count race needs
two users and one closer. A reorder buffer of two and sessions of three chunks reach both limits and
every order. Two nodes and two parts give all patterns of partial failure; with the limit of 2 the
larger part evicts both of the smaller ones or one of them evicts it, and with the limit of 3 one
entry goes or none. In Handoff the limit of 2 admits both items of the one part or the item of the
other, on one node, and never all; that the two parts have the same number makes their first items
compete for a directory; and two changes of health take a node down and back inside a round. In
NodeClient two evictions let a goroutine of the first outlive it beside the second; a third change
of health, in which an address returns and dies again, takes 13 minutes and changes nothing. In a
repair, one slot has its leaves in the order of the comparison and the other has not, and slots of
two entities and pages of one leaf make every leaf the first, last or missing one of its page on
either side; three nodes are the smallest ring in which the propagation returns to a node.

Deadlock is not checked: every model stops when its bounds are used up, and a system without
work is idle.

### Runs that end in a violation

| Run | What happens |
|---|---|
| `chunk_lost_after_mismatch` | A reordering server counts a chunk with a bad checksum as processed; its retry is ignored as a duplicate and the session succeeds without the data. |
| `repair_tie` | The client keeps a leaf of the previous slot, asks for a document it has, and takes the server's state of the same revision, where the documentation gives the client precedence. |

Each is a finding in `PROJECT.json` with the text it contradicts. `chunked_sync` keeps to
the other side of the first (no corruption towards a reordering server), and `Converged`
accepts either state of a revision.

### Further disagreements the models show

Not kept as runs; each is reproduced by the change of constants in parentheses.

- `segment.go:445`, with the `DecRef` of `segment.go:196`: the idle closer releases a reference
  that belongs to a running query or sync session, or closes the segment between the load and the
  add of `incRef` (Segment with `Selectors = {s1}`, `IdleClosers = {i}` and nobody else:
  `HeldSegmentOpen` fails). `segment_hot` has therefore no idle closer.
- `segment.go:191`: when a shard fails to load, `initialize` closes the index only. The tables it
  had loaded stay in `sLst` while the counter is zero, and `closeIdleSegments` passes over a
  segment at zero, so they stay open until the segment is used again. The same happens to a table
  that `CreateTSTableIfNotExist` opens for a session whose reference the idle closer took
  (`segment_cold` without `~leaked` in `Loaded`: `NoOrphanIndex` fails).
- `flusher.go:214`, `tstable.go:219`: a manifest names memory parts too. After a crash a merge
  takes such a number, and a second crash before its introduction makes recovery load the merged
  part beside its sources (TSTable with 3 writes, `MaxCrash = 2`, `MaxPart = 3`, `MaxEpoch = 4`:
  `NoRowTwice` fails).
- `tstable.go:231`: recovery drops an unreadable part and registers its epoch with the cleaner
  twice; the live manifest becomes deletable (`Faults = TRUE`, `MaxCrash = 1`, `MaxClose = 1`:
  `LiveManifestKept` fails). When none of the manifests can be read the table starts empty: the
  part directories are deleted and the manifests stay.
- `failed_parts_handler.go:242`, `tstable.go:219`: after a restart a new part has the number of
  an old entry of `failed-parts`, is taken for copied, and leaves the table. So does a part of
  which a crash or a failed link left half a directory (`HandedOver` without the reason `exists`).
- `mustAddFilePart` drops a part while the table closes and the session is still answered as
  complete (`MaxClose = 1`: `SyncCompleteSurvives` fails); a flush given up at close starts again
  and meets its own directory, which panics (`MaxClose = 1`: `FlushDirFresh` fails); a graceful
  close does not flush memory parts.
- A read failure discards the data of other parts in the same chunk (setting `SharedChunk`:
  `ReportedPartsDelivered` fails); where no part can be read no chunk is sent, and client and
  server wait for each other (setting `NothingReadable`: `SessionEnds` fails). A retry sends one
  part, so one part that cannot be read is enough: the syncer then waits until the connection is
  lost or the table is closed, and its parts stay (`PartsLeaveTable` without its conclusion).
- A server that refuses a chunk because of the gap or a full buffer answers `OUT_OF_ORDER` with an
  error text, which the client takes as final: it does not send the chunk again.
- `handoff_storage.go:250`: queue directories are named by part number and type, and part numbers
  count per table. A part whose number is taken in a queue, by a part of another shard or group,
  is not queued (`handoff_storage.go:136`): the enqueue succeeds, keeps its reservation, and the
  part leaves its table. No property promises otherwise. And when a group is deleted after the
  worker sent one of its items, and the freed directory is used for an item of another shard,
  `completeSend` removes that item unsent (`Reused` in `KeptUntilDelivered`).
- A crash before `.node_info` has its content leaves an empty file that is never written again:
  every start passes over the queue until an item for that node is enqueued (`info`; the
  properties leave such queues out). A directory whose removal was cut short while
  it had its metadata is sent again without the files that are gone.
- `handoff_storage.go:270`: `complete` reads the part's directory after it removed the item, and
  panics when a group deletion and the worker's `complete` get in each other's way so that it is
  gone. The model restarts the liaison there.
- An owner that goes down between the syncer's reads of the node health gets neither the part
  nor a queue entry; a repeated enqueue keeps the size it reserved; a batch filled with
  directories without metadata hides the items behind it (`Batch = 1`: `QueuedReplayed` fails).
- `connmanager.go:460`: the reconnect goroutine ends when the credentials cannot be read, and the
  node stays evicted; `NodeReturns` assumes readable credentials. A goroutine that has dialed and
  finds its node no longer evictable returns without closing the connection
  (`connmanager.go:467`). After a failed `checkWritable` the probe and `OnInactive` race for the
  selector's entry: a probe that has just found the node healthy adds it after the connection
  manager has taken it out, and the selector then has an entry of a node that is not active;
  `SelectorFollowsActive` is stated up to that point.
- `docs/concept/property-repair.md:192` says a node without a tree is skipped; the code aborts
  the propagation. The comment at `gossip/client.go:40` lists one hop more than
  `MaxPropagationCount` makes. A repair in flight can undo a deletion of the same revision. A
  server that cannot read its slots or its shard returns without an error (`ServerGivesUp`), and
  the repair counts as done.

Exposures that no property covers: `create` over a directory that is still being removed panics
(`segment.go:566`, Segment with `MaxGen = 2`); `DeleteExpiredSegments` does not take the
`retentionGate` (`segment.go:647`); a creation may race with `Close` (`tsdb.go:254`); the stream
table writes its manifest outside the lock (`stream/introducer.go:250`); a part larger than the
limit empties `failed-parts` before it is refused (`failed_parts_handler.go:341`).

## Fairness

TSTable: weak fairness of introducer, loops, removals and readers. They are goroutines that wait
only on channels the others serve; the flusher is also woken by a timer. Writers, crashes and closes
are not fair. Segment: weak fairness of every goroutine inside a call and of the idle closer, which
a ticker starts; weak fairness of `Release`, that is, queries and sessions end; strong fairness of
`PerformCleanup`, because Go's mutex hands over to a waiter. ChunkedSync: weak fairness of client
and server; the stream may break at any time but need not. PartSync: weak fairness of the sync loop,
started by the flusher and a timer, and of the restart of a closed liaison; that a session which
sends something ends is `SessionEnds`. A session that waits is not fair, unless the table closes,
which cancels it. Handoff: weak fairness of each step of the replay worker and of the monitor, both
driven by tickers, and strong fairness of a successful send: a node that is up does not refuse for
ever. The syncer, crashes and changes of health are not fair. NodeClient: weak fairness of the
goroutines, of the failover that a failed call starts and of the re-registration by the metadata
watcher. Gossip: weak fairness of the handlers and of the two sides of a stream; starts, writes and
broken streams are not fair.

## Proofs

All are checked by TLAPS with SMT (Z3), Zenon and the temporal prover, from nothing but the named
assumptions on the constants (`TSTableAssumption`, `SegmentAssumption`, `ChunkedSyncAssumption`,
`PartSyncAssumption`, `HandoffAssumption`, `NodeClientAssumption`).

**The table** (`TSTableProofs`), for every number of writes, readers, sessions, identifiers,
epochs and crashes, with and without faults:
- `TypeCorrect`: `Spec => []TypeOK`, so no reference count drops below zero;
- `HeldPartsStayUsable`: `Spec => []HeldPartsUsable`: what a query, flush, merge or backup holds
  stays open and complete on disk;
- `NewIdentifiersFree`: `Spec => []NoDirCollision`;
- `Invariance`: `Spec => []IInv`, on which they rest.

They assume `MaxClose = 0`: the table is not opened again in the same process. A removal
goroutine of a closed table may run beside the new one, and that it cannot meet a reused
number needs an argument about all directories left behind (TLC checks it in
`table_recovery`).

`HeldPartsUsable` is not inductive. It needs *counting* (`Counted`: a snapshot's count is at
least the number of its holders, a part's count at least the number of snapshots with it), so
that a `DecRef` reaches zero only when nobody else is left; *freshness* (`EpochFresh`: a new
snapshot meets no old holder); *ownership* (`FilesComplete`, `BuildingOwned`: a file part on its
way into a snapshot is complete, in no snapshot, and in the hands of one loop), so that an
introduction brings only complete parts; *numbering* (`IDsBelow`), so that a new part meets no
directory; and what a dead process leaves (`DownEmpty`) and a round starts with (`RoundClean`,
`SnapshotBuilt`). The module has the invariant and what the proofs share, then one lemma per
action.

**The rows of the table** (`TSTableContract`, on top of the proofs above), again for every number of
writes, readers, sessions, identifiers, epochs and crashes, and for `MaxClose = 0`:
- `NothingIsDropped`: `Spec => []NothingDropped`, with and without faults;
- `DurableRowsRecoverable`: `Spec => []DurableRecoverable`, without faults;
- `SyncedRowsSurvive`: `Spec => []SyncCompleteSurvives`, without faults;
- `LiveManifestStays`: `Spec => []LiveManifestKept`, without faults;
- `TableImplementsContract`: `Spec => ImplementsContract`, for a table without syncer (a data
  node's) and without faults: every step of TSTable is a step of ShardContract or a stutter.

With `Faults` a recovery may find metadata or manifests unreadable, delete parts, fall back to an
older manifest or start empty, so that durability cannot hold; a syncer ships rows away, so that
they do not stay visible as the contract says.

They rest on two further invariants (`RowsInvariance`, `DurableInvariance`). `RowsInv` says where
the rows are: every introduced row is in the current snapshot or shipped, and while a snapshot
waits to replace the current one, also in that one; the part a round has merged, or the parts it
has shipped, contain what it consumed. `DurableInv` says what a crash would find: the file parts of
the current snapshot hold the durable rows, and those answered as synced, and the live manifest
names them. Between `replaceSnapshot` and `persistSnapshot` it names those of the snapshot just
replaced, so durability then rests on the introducer still holding that snapshot, whose parts
keep their directories (`HeldPartsUsable`, through `Counted`). The live manifest is the newest,
and only older ones are deletable (`ManifestsOrdered`).

Most steps are handled at once: a step is `Quiet` when it leaves the current snapshot alone,
deletes at most deletable manifests and gives rows to new parts only (`QuietRows`, `QuietDurable`),
and `Builds` when it puts together the next snapshot (`BuildsInv`). Replacing,
recording, crashing, starting and loading have lemmas of their own; `StepKinds` is the case
distinction.

**Stale snapshots** (`TSTableStale`), for the same constants and `MaxClose = 0`, with and without
faults, for a data node's table and a liaison's:
- `ConsumedStillThere`: `Spec => []IntroductionFits`: a loop hands over its outcome long after it
  took its snapshot, and the parts it consumed are still in the current one, in the kind it read;
- `FlushMeetsNoDirectory`: `Spec => []FlushDirFresh`: the `MkdirPanicIfExist` of a flush meets no
  complete directory, also after crashes.

They rest on `StaleInv` (`StaleInvariance`). `RoundFits` is the ownership that the code relies on
without saying so: the flusher alone consumes memory parts, the merger or the syncer file parts, so
the parts of its kind that a loop has seen and not yet consumed (`Wanted`) stay in the current
snapshot, and in one that waits to replace it. After a flush has merged memory parts and goes on to
flush the others, `Wanted` leaves out the merged ones. That the merger and the syncer do not meet is
`OneConsumer`, an assumption on `Loops`: `startLoop` starts a merger and
`startLoopWithConditionalMerge` a syncer, and no table starts both. `KindsApart` says that an
identifier belongs to a memory part or to a file part, so that consuming the one cannot take the
other; `DirsApart`, that the identifier of a memory part has a directory only while that part is
flushed.

On top of it, for the same constants:
- `RowsStayOnce`: `Spec => [](crashes <= 1 => NoRowTwice)`: up to the second crash no row is in two
  parts of the current snapshot. The bound is exact, as two crashes can double rows (see above).

`OnceInv` strengthens it (its first half, with the steps that need no more than `RowsInv`, closes
`TSTableContract`). Two parts share no row (`Apart`) if they are in the snapshot that the next
introduction starts from, or queued, or being received (`Live`): these enter the table beside what
is there. A merged part does share rows with its sources; it has only rows of theirs
(`OneOutcome`), and `IntroductionFits` says that they are in the snapshot they are taken out of.
For the first crash, every manifest on disk names parts without common rows, and only numbers that
have been given out; recovery lowers `curPartID`, and from then on a number that a manifest names
may be given again, which is where the proof stops and the second crash does its damage.

**Sync sessions** (`ChunkedSyncProofs`), for every layout, chunk size, number of retries, size of
buffer and gap, every setting of the server, and for the client of this repository as for a peer
that sends chunks in any order and more than once:
- `WholePartsIntroduced`: `Spec /\ []Undisturbed => []IntroducedPartsWhole`;
- `ReportedIsDelivered`: `Spec /\ []Undisturbed => []ReportedPartsDelivered`.

`Undisturbed` leaves out what the code gets wrong. A read may fail, but not when its
part shares the buffer with another one, which is then discarded with it (setting `SharedChunk`),
and not after data of its part was sent, which the server then takes for a whole part; and chunks
may be corrupted, but not on their way to a reordering server (run `chunk_lost_after_mismatch`).
Broken streams, handlers that cannot be created, buffer timeouts and full buffers are all
included. `ChunkedSyncAssumption` numbers the parts in the order of the session:
`streamPartsAsChunks` reads the files part by part.

Neither property is inductive. `Server` says what the part being written holds: its data so far,
in order, and nothing of a part that was introduced. That nothing is missing of it when the next
part begins (`PartFinished`) needs to know which read comes next (`PieceNext`), and that has a
different reason for the two kinds of client. The client of this repository waits for each answer:
`Turns` lists the places at which the two sides can be, and at each of them what the
server has is what the client has sent, with or without the chunk on its way. It follows that the
server never sees a chunk of this client out of turn (`AskedInTurn`), and that a switch of session
never drops data (`ReceiveSame`). For the other peer `AnyOrder` says that the chunks below the
expected index, and no others, are written, and that what was answered as received is written, in
hand or in the buffer (`Kept`); so when everything was answered as received nothing is buffered,
and all is written (`AllTaken`).

**Sync rounds** (`PartSyncProofs`): `PartsAreHandedOver`, `Spec => []HandedOver`, for any nodes,
parts, sizes, limits, attempts and stops. `HandedOver` speaks of parts that have left; the
invariant `RoundInv` follows the parts of a round before they leave. While sessions run, a part is
on the nodes that are done or among the failures noted for them; while parts are retried, each
one is to do, still failing or handed over; while they are copied, still failing or handed over;
when the round is introduced, handed over. A session that waits changes none of this; when it is
broken off its parts are failures. A part that was handed over stays so, because nodes
lose nothing and an entry evicted from `failed-parts` or damaged is noted in `gone`.

Two theorems are about the directory `failed-parts`, on top of that invariant:
- `FailedPartsStayBounded`: `Spec => []FailedPartsBounded`, if what an earlier process left there is
  within the limit (`OldPartsFit`; the code looks at the size only when it copies, so a directory
  that starts above the limit stays so until then). A size is the number of the bytes, which makes
  the total of a set of entries a cardinality instead of a recursive sum.
- `OldestGoFirst`: `Spec => RemovesNoMoreThanNeeded`.

Both rest on `Pass`, which says what a call of `CopyToFailedPartsDir` does to the directory wherever
it stops: some of the oldest entries are gone, but for those skipped; the next one may be left
with less than it had; the new one is there with all, some or none of its bytes, and only if all of
them fit. Only a pass changes the directory (`OnlyPasses`). That an entry which is gone is older
than those that stay needs the entries to have different times (`Dated`).

**Hand-off** (`HandoffProofs`): `ItemsAreKept`, `Spec => KeptUntilDelivered`, for any nodes, tables,
parts, part numbers, sizes, limit, batch and restarts. `HandoffAssumption` says that two parts have
no data in common, not that their directories differ. The worker removes a directory some steps
after it read and sent what was there. Two invariants carry this over: `Acknowledged`, that what was
sent is acknowledged, and `InHand`, that the directory still holds what was read, or that a
group deletion has taken it away. The syncers keep `InHand` because they do not touch a
directory that exists (`EnqueueKeeps`); what a deletion breaks is the exception `Reused`
(`RemovesDelivered`).

`AccountCovers`, `Spec => []AccountCoversQueue`, and `QueuesStayWithinLimit`, `Spec =>
[]WithinLimit`, are about the size that the controller keeps beside the directories, up to the first
queue that has lost its name (`Nameless`), which a restart does not count. Neither is inductive: the
size is raised before the files are linked and lowered after they are removed. The invariant
`Account` has the sizes in between: what the rounds of all tables have reserved (`Reserved`), and
what the worker has read in the metadata and not yet subtracted, less what is still in that
directory (`Due`, `Excess`). The account is at least the bytes on disk and these, and at most the
limit; once a group was deleted, which may take the item that the worker holds out of the account
twice, one of the two is off by at most the largest item. A restart counts anew (`Recount`). Sizes
are cardinalities of sets of bytes here too (`BytesUnion`, `BytesWithout`), which needs finitely
many items, as `HandoffAssumption` says.

**The segment** (`SegmentProofs`), for any number of goroutines of each kind and of generations:
- `NoOrphanIndexes`: `Spec => []NoOrphanIndex`, whatever goroutines there are and whatever fails to
  open: nothing is left open behind the counter, neither index nor tables, but for the tables that
  `leaked` marks. It is inductive together with `TypeOK` and `SegKnown`, which says that a goroutine
  inside a call has a segment and where its `DecRef` returns to.
- `HeldSegmentsStayOpen`: `Spec => []HeldSegmentOpen` under `KeptOpen`: no idle closer, no sync
  session and no lifecycle service, as in `segment_hot`. The
  assumption is needed: TLC refutes the property with an idle closer alone, and with a sync session
  or a lifecycle deletion beside retention or forced clean-up. (A session also holds a new segment
  before it has a table.)

The second needs an account of who counts (`Counted`): the counter is at least the number of
goroutines that counted themselves and have not given that back (`Owners`), and one more while
the reference the segment started with has not been given up by a deletion (`Base`). `DecRef`
therefore reaches zero only when nobody is left, and then nobody can enter either: a segment
whose deletion gave up that reference is either still listed with the deleter among the owners,
or listed under the write lock of `removeOldest`, or unlisted under that lock (`Locked`); and the
gate admits one deletion at a time (`Gated`). The window between the load and the add of `incRef`
is closed by the read lock.

**Connections** (`NodeClientProofs`), for any addresses, publishers, connections, evictions and
probes: `ActiveClientsAreOpen` (`Spec => []ActiveIsOpen`), `SelectorIsPaired`
(`Spec => []SelectorFollowsActive`) and `MarksHaveProbes` (`Spec => []MarkHasProbe`). The
strengthening is `Dialed`: a connection that a reconnect goroutine has dialed and not yet handed
over is open and nobody else's, so that a late goroutine activates an open connection and closes
none that is active; and `Quiet`: before the first failed check there is no probe.

Only model-checked: liveness (fairness is out of the prover's reach), the refinement of a table
that is closed and opened again, and everything about the property modules, whose invariant would
have to describe the merge of two paged leaf streams at every point.

## Not modelled

Encodings, query plans, command line, HTTP gateway, backup tools and generated code: pure
functions or I/O without shared state. The map covers the protocols above, a small share of
the repository: most of its lines are such code, or one of the parts below.

State machines that have no module: the segment controller (time ranges, rotation, retention
deadlines, disk watermarks); the stream and trace variants of the table, whose loops are those
of TSTable but whose manifest, element index and two-table transaction differ; the schema store,
its cache and the barrier; the circuit breaker and the lookup table of the node selector; TopN
windows; lifecycle migration with its progress file; identifiers, memory protector and process
groups. They share no state with the parts modelled here, apart from the calls these make.

Within the modelled parts: the contents of blocks, time ranges of segments, sizes that choose
which parts to merge (any two or more file parts may merge), metrics and logging, the wording of
errors. Two deleters of a segment at once, and a creation that races with `Close`, are in the
model but in no run. fsync is taken at its word. One propagation of a shard and one repair run at
a time. Shutdown of the connection manager is left out. A property tree is
built in one step from the documents of its shard: the files it passes through are left out.
