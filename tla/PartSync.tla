------------------------------ MODULE PartSync ------------------------------
(***************************************************************************)
(* How the write queue of a liaison hands the parts of one shard to the    *)
(* data nodes: the sync round of banyand/measure/syncer.go and the handler *)
(* of parts that a node would not take,                                    *)
(* banyand/internal/storage/failed_parts_handler.go.                       *)
(*                                                                         *)
(* A round sends every part of the current snapshot to every node, retries *)
(* what failed part by part on the nodes that failed it, links what still  *)
(* fails into the directory failed-parts and then removes ALL the parts of *)
(* the round from the table.  One session of the chunked sync protocol     *)
(* (module ChunkedSync) is one step here, unless none of its parts can be  *)
(* read: such a session waits, and nothing in the code ends the wait but   *)
(* the closing of the table or the loss of the connection.                 *)
(*                                                                         *)
(* A part keeps its identity in Parts; its number comes from curPartID,    *)
(* which a restart sets to the largest number still in the table.          *)
(***************************************************************************)
EXTENDS Integers, Sequences, FiniteSetsExt

CONSTANTS
    Nodes,
    Size,        \* the bytes of the parts, in the order in which they are written
    Old,         \* how many of them are in failed-parts already
    Limits,      \* the values of maxTotalSizeBytes, 0 for none
    MaxRetries,  \* DefaultMaxRetries
    MaxStops     \* bound on crashes and closes

Parts == DOMAIN Size

ASSUME PartSyncAssumption ==
    /\ Size \in Seq(Nat \ {0}) /\ Old \in 0 .. Len(Size) /\ Limits \subseteq Nat
    /\ MaxRetries \in Nat \ {0} /\ MaxStops \in Nat

VARIABLES
    limit,       \* maxTotalSizeBytes
    id,          \* the number of a part, 0 before it is written
    curPartID,
    table,       \* the parts of the snapshot, which its manifest names
    failedParts, \* the entries of the directory failed-parts
    clock,       \* the modification time of the youngest entry so far
    taken,       \* taken[n]: the parts that node n has introduced
    sync,        \* the running round
    closing,     \* loopCloser has been notified
    stops,
    gone,        \* history: the parts that failed-parts does not keep, and why
    skipped      \* history: the entries that the last eviction could not examine

kept == <<failedParts, clock, gone, skipped>>
vars == <<limit, id, curPartID, table, kept, taken, sync, closing, stops>>

Idle == [pc |-> "idle", parts |-> {}, nodes |-> {}, perNodeFailures |-> [n \in Nodes |-> {}],
         waiting |-> {}, todo |-> {}, part |-> {}, attempt |-> 0, stillFailing |-> {}]

\* A directory in failed-parts, with the bytes that are linked there and its
\* modification time.
Entry(p, bytes, time) == [part |-> p, size |-> bytes, at |-> time]

Init ==
    /\ limit \in Limits
    /\ id = [p \in Parts |-> IF p <= Old THEN p ELSE 0] /\ curPartID = Old
    /\ table = {} /\ failedParts = {Entry(p, Size[p], p) : p \in 1 .. Old} /\ clock = Old
    /\ taken = [n \in Nodes |-> {}]
    /\ sync = Idle /\ closing = FALSE /\ stops = 0 /\ gone = {} /\ skipped = {}

\* A memory part becomes a file part of the current snapshot.
AddPart(p) ==
    /\ ~closing /\ id[p] = 0 /\ \A q \in 1 .. p - 1 : id[q] # 0
    /\ curPartID' = curPartID + 1
    /\ id' = [id EXCEPT ![p] = curPartID']
    /\ table' = table \cup {p}
    /\ UNCHANGED <<limit, kept, taken, sync, closing, stops>>

\* syncLoop, trySync: a new snapshot has parts, and the shard has nodes.
SyncSnapshot ==
    /\ sync.pc = "idle" /\ table # {}
    /\ sync' = [Idle EXCEPT !.pc = "sync", !.parts = table, !.nodes = Nodes]
    /\ UNCHANGED <<limit, id, curPartID, table, kept, taken, closing, stops>>

\* The rest of the round, once every node had its session.
AfterInitialSync(s) ==
    LET failed == UNION {s.perNodeFailures[n] : n \in Nodes} IN
    IF s.nodes # {} THEN s
    ELSE IF failed = {} THEN [s EXCEPT !.pc = "introduce"]
    ELSE [s EXCEPT !.pc = "retry", !.todo = failed]

\* A session with node n: it reports the parts it could not read, or it breaks off,
\* which fails all its parts whatever the node has stored.
SyncPartsToNode(n) ==
    /\ sync.pc = "sync" /\ n \in sync.nodes /\ sync.waiting = {}
    /\ \E failed \in SUBSET sync.parts :
       \E stored \in {sync.parts \ failed} \cup (IF failed = sync.parts THEN SUBSET failed ELSE {}) :
          /\ taken' = [taken EXCEPT ![n] = @ \cup stored]
          /\ sync' = AfterInitialSync([sync EXCEPT !.nodes = @ \ {n}, !.perNodeFailures[n] = failed])
    /\ UNCHANGED <<limit, id, curPartID, table, kept, closing, stops>>

\* RetryFailedParts: the next part, in the order of a Go map, or the end of the retries.
AfterRetry(s) ==
    IF s.todo # {} THEN s
    ELSE IF s.stillFailing = {} THEN [s EXCEPT !.pc = "introduce"]
    ELSE [s EXCEPT !.pc = "copy"]

Retrying(p) ==
    /\ sync.pc = "retry" /\ p \in sync.todo /\ sync.waiting = {}
    /\ sync.part \subseteq {p}

Synced(s, p) == AfterRetry([s EXCEPT !.todo = @ \ {p}, !.part = {}, !.attempt = 0])
GivenUp(s, p) == Synced([s EXCEPT !.stillFailing = @ \cup {p}], p)

\* One of the nodes has failed part p again.
StillFailed(s, p) ==
    IF s.attempt + 1 = MaxRetries THEN GivenUp(s, p)
    ELSE [s EXCEPT !.part = {p}, !.attempt = @ + 1]

\* Mutant: a retry that succeeds on one node counts as success.
RetryPartAnyNode(p) ==
    /\ Retrying(p)
    /\ LET on == {n \in Nodes : p \in sync.perNodeFailures[n]} IN
       \E stored \in SUBSET on :
          /\ taken' = [n \in Nodes |-> IF n \in stored THEN taken[n] \cup {p} ELSE taken[n]]
          /\ sync' = IF stored # {} THEN Synced(sync, p) ELSE StillFailed(sync, p)
    /\ UNCHANGED <<limit, id, curPartID, table, kept, closing, stops>>

\* One attempt of retryPartWithBackoff: part p goes to every node that failed it in the
\* first place; a session that fails may have stored it.
RetryPart(p) ==
    /\ Retrying(p)
    /\ LET on == {n \in Nodes : p \in sync.perNodeFailures[n]} IN
       \E ok \in SUBSET on : \E late \in SUBSET (on \ ok) :
          /\ taken' = [n \in Nodes |-> IF n \in ok \cup late THEN taken[n] \cup {p} ELSE taken[n]]
          /\ sync' = IF ok = on THEN Synced(sync, p) ELSE StillFailed(sync, p)
    /\ UNCHANGED <<limit, id, curPartID, table, kept, closing, stops>>

\* The wait before an attempt is cancelled.
RetryCancelled(p) ==
    /\ Retrying(p) /\ closing
    /\ sync' = GivenUp(sync, p)
    /\ UNCHANGED <<limit, id, curPartID, table, kept, taken, closing, stops>>

\* No part of the session can be read, so no chunk is sent: the client waits for the
\* result of the session, and the server for its first chunk.
SessionWaits(n) ==
    /\ \/ /\ sync.pc = "sync" /\ n \in sync.nodes /\ sync.waiting = {}
          /\ sync' = [sync EXCEPT !.waiting = {n}]
       \/ \E p \in Parts :
             /\ Retrying(p) /\ p \in sync.perNodeFailures[n]
             /\ sync' = [sync EXCEPT !.waiting = {n}, !.part = {p}]
    /\ UNCHANGED <<limit, id, curPartID, table, kept, taken, closing, stops>>

\* The connection is lost, or loopCloser cancels the context: the session has failed, and
\* an attempt goes on with the other nodes.
SessionBroken(n) ==
    /\ n \in sync.waiting
    /\ LET s == [sync EXCEPT !.waiting = {}] IN
       \/ /\ s.pc = "sync"
          /\ sync' = AfterInitialSync([s EXCEPT !.nodes = @ \ {n}, !.perNodeFailures[n] = s.parts])
          /\ UNCHANGED taken
       \/ /\ s.pc = "retry"
          /\ \E p \in s.part :
             \E stored \in SUBSET {m \in Nodes \ {n} : p \in s.perNodeFailures[m]} :
                /\ taken' = [m \in Nodes |-> IF m \in stored THEN taken[m] \cup {p} ELSE taken[m]]
                /\ sync' = StillFailed(s, p)
    /\ UNCHANGED <<limit, id, curPartID, table, kept, closing, stops>>

-----------------------------------------------------------------------------
(* CopyToFailedPartsDir *)

\* The bytes below the directories of a set of entries: byte b[2] of entry b[1].
TotalSize(entries) == Cardinality(UNION {{e} \X (1 .. e.size) : e \in entries})

\* Mutant: the size of the part itself is forgotten.
FitsForgetful(p, entries) == limit = 0 \/ TotalSize(entries) <= limit

Fits(p, entries) == limit = 0 \/ TotalSize(entries) + Size[p] <= limit

\* The entries that a pass over failed-parts cannot examine, when it has to make room.
Skips(p) == IF Fits(p, failedParts) THEN {{}} ELSE SUBSET failedParts

\* What is left of failed-parts when the entries up to time t are gone.
Younger(t, skips) == {e \in failedParts : e \in skips \/ e.at > t}

\* Mutant: the newest entries go first.
RemoveNewest(p, skips) ==
    LET older(t) == {e \in failedParts : e \in skips \/ e.at < clock + 1 - t}
        enough == {t \in 0 .. clock : Fits(p, older(t))}
    IN IF enough = {} THEN skips ELSE older(Min(enough))

\* The entries left when the oldest are removed, one by one, until part p fits.
RemoveOldest(p, skips) ==
    LET enough == {t \in 0 .. clock : Fits(p, Younger(t, skips))}
    IN IF enough = {} THEN skips ELSE Younger(Min(enough), skips)

\* What may be left of an entry when its removal is the last thing that was done: all, some
\* or none of its files.
Torn(e) == {{}, {e}} \cup {{Entry(e.part, bytes, clock + 1)} : bytes \in 0 .. e.size - 1}

Whole(p) == \E e \in failedParts : e.part = p /\ e.size = Size[p]
Exists(p) == \E e \in failedParts : id[e.part] = id[p]

CopyDone(p) ==
    LET s == [sync EXCEPT !.stillFailing = @ \ {p}] IN
    sync' = IF s.stillFailing = {} THEN [s EXCEPT !.pc = "introduce"] ELSE s

\* The directory has these entries now; those that it had are removed or damaged.
Leaves(entries, skips, why) ==
    /\ failedParts' = entries
    /\ clock' = clock + 1
    /\ gone' = gone \cup why \cup {<<e.part, "removed">> : e \in failedParts \ entries}
    /\ skipped' = skips

Copying(p) == sync.pc = "copy" /\ p \in sync.stillFailing

\* The name is in use: nothing is copied.
AlreadyExists(p) ==
    /\ Copying(p) /\ Exists(p)
    /\ gone' = gone \cup (IF Whole(p) THEN {} ELSE {<<p, "exists">>})
    /\ CopyDone(p)
    /\ UNCHANGED <<limit, id, curPartID, table, failedParts, clock, skipped, taken, closing, stops>>

LinkPart(p) ==
    /\ Copying(p) /\ ~Exists(p)
    /\ \E skips \in Skips(p) :
       LET left == RemoveOldest(p, skips) IN
       IF Fits(p, left)
       THEN Leaves(left \cup {Entry(p, Size[p], clock + 1)}, skips, {})
       ELSE Leaves(left, skips, {<<p, "failed">>})
    /\ CopyDone(p)
    /\ UNCHANGED <<limit, id, curPartID, table, taken, closing, stops>>

\* The removal stops at an entry, the older ones being gone, or the linking of part p
\* stops with some of its files linked.
CutShort(p, why) ==
    /\ Copying(p) /\ ~Exists(p)
    /\ \E skips \in Skips(p) :
       LET left == RemoveOldest(p, skips) IN
       \/ \E e \in failedParts \ left : \E torn \in Torn(e) :
             Leaves(Younger(e.at, skips) \cup torn, skips, why)
       \/ /\ Fits(p, left)
          /\ \E bytes \in 0 .. Size[p] - 1 :
                Leaves(left \cup {Entry(p, bytes, clock + 1)}, skips, why)

\* The source or the directory cannot be examined, an entry not removed, or a link not
\* made: what was done stays.
CopyFails(p) ==
    /\ \/ /\ Copying(p) /\ ~Exists(p)
          /\ gone' = gone \cup {<<p, "failed">>}
          /\ UNCHANGED <<failedParts, clock, skipped>>
       \/ CutShort(p, {<<p, "failed">>})
    /\ CopyDone(p)
    /\ UNCHANGED <<limit, id, curPartID, table, taken, closing, stops>>

-----------------------------------------------------------------------------

\* Mutant: only the parts that every node has are removed.
IntroduceDelivered ==
    /\ sync.pc = "introduce"
    /\ table' = table \ {p \in sync.parts : \A n \in Nodes : p \in taken[n]}
    /\ sync' = Idle
    /\ UNCHANGED <<limit, id, curPartID, kept, taken, closing, stops>>

\* sendSyncIntroduction: the introducer removes all the parts of the round.
Introduce ==
    /\ sync.pc = "introduce"
    /\ table' = table \ sync.parts
    /\ sync' = Idle
    /\ UNCHANGED <<limit, id, curPartID, kept, taken, closing, stops>>

Close ==
    /\ ~closing /\ stops < MaxStops
    /\ closing' = TRUE /\ stops' = stops + 1
    /\ UNCHANGED <<limit, id, curPartID, table, kept, taken, sync>>

\* Opening the table again: the largest number of a part that is left.
Reopen ==
    /\ curPartID' = Max({id[p] : p \in table} \cup {0})
    /\ sync' = Idle /\ closing' = FALSE
    /\ UNCHANGED <<limit, id, table, taken>>

\* The loop has ended, at its select or with errClosed instead of an introduction.
Restart ==
    /\ closing /\ sync.pc \in {"idle", "introduce"}
    /\ Reopen
    /\ UNCHANGED <<kept, stops>>

\* A crash may cut the copying of a part short.
Crash ==
    /\ stops < MaxStops /\ stops' = stops + 1
    /\ UNCHANGED kept \/ \E p \in sync.stillFailing : CutShort(p, {})
    /\ Reopen

PartStep(p) ==
    \/ RetryPart(p) \/ RetryCancelled(p)
    \/ AlreadyExists(p) \/ LinkPart(p) \/ CopyFails(p)

Round ==
    \/ SyncSnapshot \/ Introduce
    \/ \E n \in Nodes : SyncPartsToNode(n)
    \/ \E p \in Parts : PartStep(p)

Next ==
    \/ Round \/ Close \/ Restart \/ Crash
    \/ \E n \in Nodes : SessionWaits(n) \/ SessionBroken(n)
    \/ \E p \in Parts : AddPart(p)

Spec == Init /\ [][Next]_vars

\* The loop runs on a goroutine of its own; flushes and a timer start its rounds, a session
\* that sends chunks ends, Close cancels one that waits, and a closed liaison is started
\* again.
FairSpec ==
    /\ Spec /\ WF_vars(Round) /\ WF_vars(Restart)
    /\ WF_vars(closing /\ \E n \in Nodes : SessionBroken(n))

-----------------------------------------------------------------------------
(* Properties *)

\* Every variable stays in its range; in particular retryPartWithBackoff makes no more
\* than maxRetries attempts and a node fails only parts of the round.
TypeOK ==
    /\ limit \in Limits /\ curPartID \in 0 .. Cardinality(Parts)
    /\ id \in [Parts -> 0 .. Cardinality(Parts)]
    /\ table \subseteq Parts /\ taken \in [Nodes -> SUBSET Parts]
    /\ \A e \in failedParts :
          e.part \in Parts /\ e.size \in 0 .. Size[e.part] /\ e.at \in 1 .. clock
    /\ sync.pc \in {"idle", "sync", "retry", "copy", "introduce"}
    /\ sync.attempt \in 0 .. MaxRetries - 1
    /\ sync.perNodeFailures \in [Nodes -> SUBSET sync.parts]
    /\ closing \in BOOLEAN /\ stops \in 0 .. MaxStops
    /\ gone \subseteq Parts \X {"removed", "failed", "exists"}

Left(p) == id[p] # 0 /\ p \notin table
OnEveryNode(p) == \A n \in Nodes : p \in taken[n]
GoneBecause(reasons) == {p \in Parts : \E r \in reasons : <<p, r>> \in gone}

\* A part leaves the table of the liaison only when every node has it or failed-parts
\* was asked to keep it: the retries of syncer.go mistake no failure for success,
\* whichever nodes fail which parts and whenever the liaison stops.
HandedOver ==
    \A p \in Parts : Left(p) =>
        \/ OnEveryNode(p) \/ Whole(p)
        \/ p \in GoneBecause({"removed", "failed", "exists"})

\* The directory failed-parts never outgrows maxTotalSizeBytes.
FailedPartsBounded ==
    limit > 0 => TotalSize(failedParts) <= limit

\* CopyToFailedPartsDir removes the oldest entries only, apart from those it could not
\* examine, and no entry that could have stayed beside them and the younger ones,
\* whether the copy succeeds, fails or is cut short.
RemovesNoMoreThanNeeded ==
    [][\A e \in failedParts \ failedParts' :
          /\ \A d \in failedParts \cap failedParts' : d.at > e.at \/ d \in skipped'
          /\ \E p \in sync.stillFailing :
                ~Fits(p, {d \in failedParts : d \in skipped' \/ d.at >= e.at})]_vars

\* Every part leaves the table in the end, whichever sessions and retries fail, except
\* behind a session in which no part can be read: it has no timeout, so syncLoop waits
\* with it until the connection is lost or the table is closed.
PartsLeaveTable ==
    \A p \in Parts : <>[](p \in table) => <>[](sync.waiting # {})
=============================================================================
