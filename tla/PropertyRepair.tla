--------------------------- MODULE PropertyRepair ---------------------------
(***************************************************************************)
(* A repair of one shard of properties between two replicas                *)
(* (banyand/property/db/repair_gossip.go): the client streams the summary  *)
(* of its Merkle tree to the server, the server answers page by page with  *)
(* the leaves of the slots that differ, the client merges these with its   *)
(* own leaves, and documents go both ways.  The trees are those of the     *)
(* last build (repair.go), documents are read when they are sent.  Gossip  *)
(* starts the repairs.                                                     *)
(*                                                                         *)
(* Simplifications.                                                        *)
(*  - Entities are numbered in the order of their leaves, which are sorted *)
(*    by group, name and id; a sha value is what it is the hash of.        *)
(*  - Documents are not expired from the index during the repair.          *)
(*  - The client's slots travel in one message.                            *)
(*  - The stream takes any number of messages: flow control does not stop  *)
(*    a side that sends.                                                   *)
(*  - A write of shard.repair that is under way when the stream breaks is  *)
(*    lost.                                                                *)
(***************************************************************************)
EXTENDS PropertyVersion, FiniteSets, FiniteSetsExt, Sequences, SequencesExt

CONSTANTS
    Count,      \* number of entities
    SlotCount,  \* treeSlotCount
    Slot,       \* [Entities -> Slots]: the hash of an entity modulo treeSlotCount
    Rank,       \* [Entities -> Nat]: the order of "group/name/id" as strings, which is
                \* not that of the leaves when a name has a character below '/'
    Replicas,   \* data nodes
    PageSize,   \* gossipMerkleTreeReadPageSize
    BatchSize   \* repairBatchSearchSize

Entities == 1..Count
Slots == 1..SlotCount

ASSUME RepairAssumption ==
    /\ PageSize \in Nat \ {0} /\ BatchSize \in Nat \ {0}
    /\ Count \in Nat /\ SlotCount \in Nat /\ Slot \in [Entities -> Slots]
    /\ Rank \in [Entities -> Nat] /\ \A d, e \in Entities : Rank[d] = Rank[e] => d = e

VARIABLES
    db,         \* [Replicas -> [Entities -> version]]
    tree,       \* the same, as of the last build of each replica's tree
    built,      \* replicas that have built a tree
    client,     \* the client: replica and peer, step, how the repair ended, no page yet
                \* (firstTreeSummaryResp), nodes of the page it works on, slot it compares
                \* and notProcessingClientNode (0: none)
    reader,     \* its tree reader: paging (slot, or 0 after a read of the root, and
                \* leaves left) and leaf buffer (slot and leaves)
    server,     \* the server: step, pages still to send
    toServer, toClient,         \* the stream
    older,      \* what shard.repair has found on each replica, until it writes
    updated,    \* replicas with hasPropertyUpdated
    start,      \* db when the repair began, for the properties
    written,    \* entities written since then, newer than their leaf by then, or left
                \* out because a read or a repair failed
    budget      \* writes and failures still allowed, bounds of the model

stream == <<toServer, toClient>>
shards == <<db, tree, built>>
sides == <<client, reader, server, older>>
vars == <<shards, sides, stream, updated, start, written, budget>>

Srv == client.peer
NoReader == [node |-> 0, left |-> 0, slot |-> 0, buf |-> <<>>]
NotFound == [n \in Replicas |-> <<>>]
NoClient == [at |-> "none", peer |-> "none", pc |-> "idle", end |-> "ok", first |-> TRUE,
             nodes |-> <<>>, cur |-> 0, pending |-> 0]

\* Trees are as old as the documents, where there is one.
InitRepair ==
    /\ tree = [n \in Replicas |-> IF n \in built THEN db[n] ELSE [e \in Entities |-> None]]
    /\ client = NoClient /\ reader = NoReader /\ server = [pc |-> "idle", pages |-> <<>>]
    /\ toServer = <<>> /\ toClient = <<>> /\ older = NotFound /\ updated = {}
    /\ start = db /\ written = {}

-----------------------------------------------------------------------------
(* The tree file *)

\* The leaves of a slot, in order.
Leaves(n, s) == SelectSeq([e \in Entities |-> e], LAMBDA e : Slot[e] = s /\ tree[n][e] # None)
SlotsOf(n) == {Slot[e] : e \in {f \in Entities : tree[n][f] # None}}
SlotSha(n, s) == [e \in {f \in Entities : Slot[f] = s} |-> tree[n][e]]

\* repairTreeReaderPage.nextPage
NextPage(left, count) == IF left - count <= 0 THEN left ELSE left - count

\* The pages in which the leaves of a slot are read: nextPage leaves at most
\* count of them for the second.
Pages(seq, count) ==
    LET k == NextPage(Len(seq), count) IN
    IF seq = <<>> THEN <<>>
    ELSE IF k = Len(seq) THEN <<seq>>
    ELSE <<SubSeq(seq, 1, k)>> \o <<SubSeq(seq, k + 1, Len(seq))>>

\* repairBufferLeafReader.readNodes with repairTreeFileReader.read: the page goes
\* on if the last read was of this slot, and starts over otherwise.
ReadNodes(rd, s, force) ==
    LET leaves == Leaves(client.at, s)
        left == IF rd.node # s \/ force THEN Len(leaves) ELSE rd.left
        k == NextPage(left, BatchSize)
        from == Len(leaves) - left IN
    [node |-> s, left |-> left - k, slot |-> s, buf |-> SubSeq(leaves, from + 1, from + k)]

\* repairBufferLeafReader.next up to the leaf it returns, the head of buf if any.
Fill(rd, s) ==
    LET opened == IF rd.slot # s THEN ReadNodes(rd, s, TRUE) ELSE rd IN
    IF opened.buf = <<>> THEN ReadNodes(opened, s, FALSE) ELSE opened

\* findSlotNodeByRoot reads the slots from the start.
FindSlot(rd) == [rd EXCEPT !.node = 0]

\* Mutant: the rest of a slot is what is left of one page.
RestOfPage(rd, s) == Fill(rd, s).buf

\* The leaves readingReduceLeafAndSendProperties gets from next, and the reader then.
Rest(rd, s) ==
    LET leaves == Leaves(client.at, s)
        r == Fill(rd, s) IN
    r.buf \o IF r.node = s THEN SubSeq(leaves, Len(leaves) - r.left + 1, Len(leaves)) ELSE leaves
Drained(s) == [node |-> s, left |-> 0, slot |-> s, buf |-> <<>>]

-----------------------------------------------------------------------------
(* Messages *)

Root(v) == [type |-> "root", tree |-> v]
TreeSlots(v) == [type |-> "slots", sha |-> v]
Compare(found, match) == [type |-> "compare", found |-> found, match |-> match]
Differ(nodes) == [type |-> "differ", nodes |-> nodes]
Sync(e, v, from) == [type |-> "sync", entity |-> e, version |-> v, from |-> from]
Missing(e) == [type |-> "missing", entity |-> e]
Wait == [type |-> "wait"]

\* queryPropertyAndSendToServer for some leaves.
Send(leaves) == [i \in 1..Len(leaves) |-> Sync(leaves[i], db[client.at][leaves[i]], "sync")]

\* The server takes no more messages once Repair has returned.
ToServer(msgs) == toServer' = IF server.pc = "done" THEN <<>> ELSE toServer \o msgs

\* A failure: of the stream, of a read or of a write.
Fails == budget.breaks > 0 /\ budget' = [budget EXCEPT !.breaks = @ - 1]

-----------------------------------------------------------------------------
(* Summary and comparison of the trees *)

\* repairGossipClient.Rev: the root goes out.  Without a tree the propagation ends; a
\* stream that cannot be opened is an error like any other.
Rev(n, m) ==
    /\ client.pc = "idle"
    /\ LET c == [NoClient EXCEPT !.at = n, !.peer = m] IN
       \/ /\ n \in built
          /\ client' = [c EXCEPT !.pc = "root"] /\ server' = [pc |-> "root", pages |-> <<>>]
          /\ toServer' = <<Root(tree[n])>> /\ UNCHANGED budget
       \/ /\ n \in built /\ Fails
          /\ client' = [c EXCEPT !.pc = "done", !.end = "error"]
          /\ UNCHANGED <<server, toServer>>
       \/ /\ n \notin built
          /\ client' = [c EXCEPT !.pc = "done", !.end = "abort"]
          /\ UNCHANGED <<server, toServer, budget>>
    /\ reader' = NoReader /\ start' = db
    /\ written' = {e \in Entities : \E k \in {n, m} : db[k][e] # tree[k][e]}
    /\ UNCHANGED <<shards, toClient, older, updated>>

\* handleTreeRootRequest
HandleTreeRootRequest ==
    /\ server.pc = "root" /\ toServer # <<>>
    /\ LET match == Head(toServer).tree = tree[Srv]
           found == Srv \in built IN
       /\ toClient' = <<Compare(found, match)>>
       /\ server' = [server EXCEPT !.pc = IF found /\ ~match THEN "slots" ELSE "done"]
    /\ toServer' = Tail(toServer)
    /\ UNCHANGED <<shards, client, reader, older, updated, start, written, budget>>

\* The rest of sendTreeSummary.
SendTreeSummary ==
    /\ client.pc = "root" /\ toClient # <<>>
    /\ toClient' = Tail(toClient)
    /\ LET m == Head(toClient) IN
       IF m.found /\ ~m.match
       THEN /\ client' = [client EXCEPT !.pc = "recv"]
            /\ reader' = FindSlot(reader)
            /\ ToServer(<<TreeSlots([s \in SlotsOf(client.at) |-> SlotSha(client.at, s)])>>)
       ELSE /\ client' = [client EXCEPT !.pc = "done", !.end = IF m.found THEN "ok" ELSE "abort"]
            /\ UNCHANGED <<reader, toServer>>
    /\ UNCHANGED <<shards, server, older, updated, start, written, budget>>

Leaf(n, e) == [slot |-> Slot[e], exists |-> TRUE, entity |-> e, sha |-> tree[n][e]]
NoSlot(s) == [slot |-> s, exists |-> FALSE, entity |-> 0, sha |-> None]

\* The pages of sendDifferSlots: the leaves of each slot that differs or that the
\* client lacks, then the slots the server lacks, then an empty page.
DifferPages(clientSlots) ==
    LET mismatch(s) == s \in SlotsOf(Srv)
                       /\ (s \in DOMAIN clientSlots => clientSlots[s] # SlotSha(Srv, s))
        missing(s) == s \in DOMAIN clientSlots \ SlotsOf(Srv)
        allSlots == [s \in Slots |-> s]
        noSlots == [i \in 1..Len(SelectSeq(allSlots, missing)) |->
                       NoSlot(SelectSeq(allSlots, missing)[i])]
        ofSlot(s) == LET ps == Pages(Leaves(Srv, s), PageSize) IN
                     [i \in 1..Len(ps) |-> [j \in 1..Len(ps[i]) |-> Leaf(Srv, ps[i][j])]] IN
    FlattenSeq([s \in Slots |-> IF mismatch(s) THEN ofSlot(s) ELSE <<>>])
    \o (IF noSlots = <<>> THEN <<>> ELSE <<noSlots>>) \o <<<<>>>>

\* repairGossipServer.Repair once it has the slots.
CompareSlots ==
    /\ server.pc = "slots" /\ toServer # <<>>
    /\ server' = [pc |-> "send", pages |-> DifferPages(Head(toServer).sha)]
    /\ toServer' = Tail(toServer)
    /\ UNCHANGED <<shards, client, reader, toClient, older, updated, start, written, budget>>

-----------------------------------------------------------------------------
(* The server *)

\* sendDifferSlots sends a page and waits.
SendDiffer ==
    /\ server.pc = "send" /\ server.pages # <<>>
    /\ toClient' = Append(toClient, Differ(Head(server.pages)))
    /\ server' = [pc |-> "wait", pages |-> Tail(server.pages)]
    /\ UNCHANGED <<shards, client, reader, toServer, older, updated, start, written, budget>>

\* Mutant: the tree is left to the scheduler.
BuiltLater(n) == tree

\* buildingTree of a replica that took a document.
Built(n) == IF n \in updated THEN [tree EXCEPT ![n] = db[n]] ELSE tree

\* Repair returns after the answer to the last page: the tree is built, then the
\* stream ends.
ServerReturns ==
    /\ server.pc = "send" /\ server.pages = <<>>
    /\ server' = [server EXCEPT !.pc = "done"]
    /\ tree' = Built(Srv) /\ updated' = updated \ {Srv}
    /\ toServer' = <<>>
    /\ UNCHANGED <<db, built, client, reader, toClient, older, start, written, budget>>

\* shard.repair searches what the replica has of the entity of the document that came
\* in, and writes later, without a lock in between.
Search(n, channel) ==
    /\ channel # <<>> /\ Head(channel).type = "sync" /\ older[n] = <<>>
    /\ older' = [older EXCEPT ![n] = <<db[n][Head(channel).entity]>>]

SearchOlder ==
    /\ \/ server.pc = "wait" /\ Search(Srv, toServer)
       \/ client.pc = "recv" /\ Search(client.at, toClient)
    /\ UNCHANGED <<shards, client, reader, server, stream, updated, start, written, budget>>

\* shard.repair after its search, when what it found is not kept.
WriteNewer(n, m) ==
    /\ db' = [db EXCEPT ![n][m.entity] = Repaired(older[n][1], @, m.version)]
    /\ updated' = updated \cup {n}

\* The document is taken, or the server's newer one goes back.
ProcessPropertySync(m) ==
    /\ older[Srv] # <<>> /\ older' = [older EXCEPT ![Srv] = <<>>]
    /\ IF Keeps(older[Srv][1], m.version)
       THEN /\ toClient' = Append(toClient, Sync(m.entity, older[Srv][1], "sync"))
            /\ UNCHANGED <<db, updated>>
       ELSE WriteNewer(Srv, m) /\ UNCHANGED toClient

\* The server's document, if it still has one.
ProcessPropertyMissing(m) ==
    LET own == db[Srv][m.entity] IN
    /\ toClient' = IF own = None THEN toClient
                   ELSE Append(toClient, Sync(m.entity, own, "missing"))
    /\ UNCHANGED <<db, older, updated>>

\* recvMsgAndWaitReadNextDiffer, one message.
Receive ==
    /\ server.pc = "wait" /\ toServer # <<>>
    /\ toServer' = Tail(toServer)
    /\ LET m == Head(toServer) IN
       \/ /\ m.type = "wait"
          /\ server' = [server EXCEPT !.pc = "send"]
          /\ UNCHANGED <<db, older, updated, toClient>>
       \/ m.type = "missing" /\ ProcessPropertyMissing(m) /\ UNCHANGED server
       \/ m.type = "sync" /\ ProcessPropertySync(m) /\ UNCHANGED server
    /\ UNCHANGED <<tree, built, client, reader, start, written, budget>>

-----------------------------------------------------------------------------
(* The client *)

\* A page of differ nodes arrives; an empty one sends what is left of the slot
\* being compared and the leaf not processed yet, and ends the repair if it is the
\* first.
ReceiveDiffer ==
    /\ client.pc = "recv" /\ toClient # <<>> /\ Head(toClient).type = "differ"
    /\ toClient' = Tail(toClient)
    /\ IF Head(toClient).nodes # <<>>
       THEN /\ client' = [client EXCEPT !.pc = "nodes", !.nodes = Head(toClient).nodes,
                                        !.first = FALSE]
            /\ UNCHANGED <<reader, toServer>>
       ELSE IF client.first
       THEN /\ client' = [client EXCEPT !.pc = "done"]
            /\ UNCHANGED <<reader, toServer>>
       ELSE /\ client' = [client EXCEPT !.cur = 0]
            /\ reader' = IF client.cur = 0 THEN reader ELSE Drained(client.cur)
            /\ ToServer((IF client.cur = 0 THEN <<>> ELSE Send(Rest(reader, client.cur)))
                        \o (IF client.pending = 0 THEN <<>> ELSE Send(<<client.pending>>))
                        \o <<Wait>>)
    /\ UNCHANGED <<shards, server, older, updated, start, written, budget>>

\* The client goes to the next node of the page, after the last to RequestPage.
NextNode(c) == [c EXCEPT !.nodes = Tail(@), !.pc = IF Len(c.nodes) = 1 THEN "page" ELSE "nodes"]

\* Mutant: no answer to a page that is not the last.
RequestPageSilently ==
    /\ client.pc = "page"
    /\ client' = [client EXCEPT !.pc = "recv"]
    /\ UNCHANGED <<shards, reader, server, stream, older, updated, start, written, budget>>

\* WaitNextDiffer, after a page with nodes.
RequestPage ==
    /\ client.pc = "page"
    /\ client' = [client EXCEPT !.pc = "recv"] /\ ToServer(<<Wait>>)
    /\ UNCHANGED <<shards, reader, server, toClient, older, updated, start, written, budget>>

\* handleDifferSummaryFromServer up to readingClientNodeAndCompare: the slots the
\* server lacks are sent whole; when the slot changes, so is the rest of the old
\* one; the leaves of a slot the client lacks are asked for.
HandleNode ==
    /\ client.pc = "nodes"
    /\ LET d == Head(client.nodes)
           old == IF client.cur \in {0, d.slot} THEN <<>> ELSE Rest(reader, client.cur)
           known == d.slot \in SlotsOf(client.at) IN
       \/ /\ ~d.exists /\ known
          /\ ToServer(Send(Rest(FindSlot(reader), d.slot)))
          /\ reader' = Drained(d.slot) /\ client' = NextNode(client)
       \/ /\ ~d.exists /\ ~known
          /\ reader' = FindSlot(reader) /\ client' = NextNode(client)
          /\ UNCHANGED toServer
       \/ /\ d.exists /\ client.cur = d.slot
          /\ client' = [client EXCEPT !.pc = "compare"]
          /\ UNCHANGED <<reader, toServer>>
       \/ /\ d.exists /\ client.cur # d.slot /\ known
          /\ ToServer(Send(old))
          /\ client' = [client EXCEPT !.pc = "compare", !.cur = d.slot]
          /\ reader' = FindSlot(IF client.cur = 0 THEN reader ELSE Drained(client.cur))
       \/ /\ d.exists /\ client.cur # d.slot /\ ~known
          /\ ToServer(Send(old) \o <<Missing(d.entity)>>)
          /\ client' = NextNode(client)
          /\ reader' = FindSlot(IF client.cur = 0 THEN reader ELSE Drained(client.cur))
    /\ UNCHANGED <<shards, server, toClient, older, updated, start, written, budget>>

\* readingClientNodeAndCompare for the client's next leaf, 0 when there is none;
\* it goes on while the client's leaf is the smaller.
ReadingClientNodeAndCompare ==
    /\ client.pc = "compare"
    /\ LET d == Head(client.nodes)
           filled == Fill(reader, client.cur)
           read == client.pending = 0
           mine == IF ~read THEN client.pending
                   ELSE IF filled.buf = <<>> THEN 0 ELSE Head(filled.buf) IN
       /\ reader' = IF read THEN [filled EXCEPT !.buf = IF @ = <<>> THEN @ ELSE Tail(@)] ELSE reader
       /\ \/ /\ mine = 0
             /\ ToServer(<<Missing(d.entity)>>)
             /\ client' = NextNode(client)
          \/ /\ mine = d.entity
             /\ ToServer(IF d.sha # tree[client.at][mine] THEN Send(<<mine>>) ELSE <<>>)
             /\ client' = NextNode([client EXCEPT !.pending = 0])
          \/ /\ mine # 0 /\ Rank[mine] > Rank[d.entity]
             /\ ToServer(<<Missing(d.entity)>>)
             /\ client' = NextNode([client EXCEPT !.pending = mine])
          \/ /\ mine # 0 /\ Rank[mine] < Rank[d.entity]
             /\ ToServer(Send(<<mine>>))
             /\ client' = [client EXCEPT !.pending = 0]
    /\ UNCHANGED <<shards, server, toClient, older, updated, start, written, budget>>

\* A document of the server: repair, and the client's own document goes back when
\* it is kept, unless the client had asked for a missing one.
ReceiveSync ==
    /\ client.pc = "recv" /\ toClient # <<>> /\ Head(toClient).type = "sync"
    /\ older[client.at] # <<>> /\ older' = [older EXCEPT ![client.at] = <<>>]
    /\ toClient' = Tail(toClient)
    /\ LET m == Head(toClient)
           own == older[client.at][1] IN
       \/ /\ Keeps(own, m.version)
          /\ ToServer(IF m.from = "missing" THEN <<>> ELSE <<Sync(m.entity, own, "sync")>>)
          /\ UNCHANGED <<db, updated>>
       \/ /\ ~Keeps(own, m.version)
          /\ WriteNewer(client.at, m) /\ UNCHANGED toServer
    /\ UNCHANGED <<tree, built, client, reader, server, start, written, budget>>

\* The stream has ended.
ReceiveEOF ==
    /\ client.pc = "recv" /\ server.pc = "done" /\ toClient = <<>>
    /\ client' = [client EXCEPT !.pc = "done"]
    /\ UNCHANGED <<shards, reader, server, stream, older, updated, start, written, budget>>

\* Rev returns: its deferred function builds the tree.
ClientReturns ==
    /\ client.pc = "done"
    /\ client' = [client EXCEPT !.pc = "idle"]
    /\ tree' = Built(client.at) /\ updated' = updated \ {client.at}
    /\ UNCHANGED <<db, built, reader, server, stream, older, start, written, budget>>

-----------------------------------------------------------------------------
(* Failures and writes *)

\* The stream breaks, or the client cannot load its shard: both sides return, and
\* build their trees.  An error before the slots are sent ends the propagation as
\* well, and so does the shard.
Break ==
    /\ client.pc \notin {"idle", "done"} /\ Fails
    /\ \E end \in {"abort", "error"} :
          /\ end = "abort" => client.first
          /\ end = "error" => client.pc # "root"
          /\ client' = [client EXCEPT !.pc = "done", !.end = end]
    /\ server' = [pc |-> "done", pages |-> <<>>] /\ older' = NotFound
    /\ toServer' = <<>> /\ toClient' = <<>>
    /\ tree' = Built(Srv) /\ updated' = updated \ {Srv}
    /\ UNCHANGED <<db, built, reader, start, written>>

\* The server cannot read its slots and sends an empty page, or it cannot load its
\* shard: Repair returns without an error, and the client finds the stream ended.
ServerGivesUp ==
    /\ Fails /\ toServer # <<>>
    /\ \/ server.pc = "slots" /\ toClient' = Append(toClient, Differ(<<>>))
       \/ server.pc = "wait" /\ UNCHANGED toClient
    /\ server' = [pc |-> "done", pages |-> <<>>] /\ older' = [older EXCEPT ![Srv] = <<>>]
    /\ toServer' = <<>>
    /\ tree' = Built(Srv) /\ updated' = updated \ {Srv}
    /\ written' = Entities
    /\ UNCHANGED <<db, built, client, reader, start>>

\* shard.repair fails, in its search or its write: the document is passed over.
RepairFails ==
    /\ Fails
    /\ \/ /\ server.pc = "wait" /\ toServer # <<>> /\ Head(toServer).type = "sync"
          /\ toServer' = Tail(toServer) /\ older' = [older EXCEPT ![Srv] = <<>>]
          /\ written' = written \cup {Head(toServer).entity} /\ UNCHANGED toClient
       \/ /\ client.pc = "recv" /\ toClient # <<>> /\ Head(toClient).type = "sync"
          /\ toClient' = Tail(toClient) /\ older' = [older EXCEPT ![client.at] = <<>>]
          /\ written' = written \cup {Head(toClient).entity} /\ UNCHANGED toServer
    /\ UNCHANGED <<shards, client, reader, server, updated, start>>

\* shard.update and shard.delete from the liaison, on one replica: a write has a
\* revision of its own, a deletion marks the newest document.
Write(n, e) ==
    /\ budget.writes > 0 /\ budget' = [budget EXCEPT !.writes = @ - 1]
    /\ \/ db' = [db EXCEPT ![n][e] = [rev |-> 1 + Max({db[m][e].rev : m \in Replicas}), del |-> 0]]
       \/ db[n][e].rev > 0 /\ db[n][e].del = 0 /\ db' = [db EXCEPT ![n][e].del = 2]
    /\ written' = written \cup {e}
    /\ UNCHANGED <<tree, built, sides, stream, updated, start>>

\* doBuildTreeScheduler, which passes while a repair is under way.
BuildTree(n) ==
    /\ client.pc = "idle" /\ (tree[n] # db[n] \/ n \notin built)
    /\ tree' = [tree EXCEPT ![n] = db[n]] /\ built' = built \cup {n}
    /\ UNCHANGED <<db, sides, stream, updated, start, written, budget>>

\* The steps of the two sides of a repair until Rev returns.
Repairing ==
    \/ HandleTreeRootRequest \/ SendTreeSummary \/ CompareSlots \/ SendDiffer \/ ServerReturns
    \/ Receive \/ ReceiveDiffer \/ RequestPage \/ HandleNode \/ ReadingClientNodeAndCompare
    \/ SearchOlder \/ ReceiveSync \/ ReceiveEOF

-----------------------------------------------------------------------------
(* Properties *)

Version(v) == v.rev \in Nat /\ v.del \in Nat

RepairTypeOK ==
    /\ \A n \in Replicas, e \in Entities : Version(db[n][e]) /\ Version(tree[n][e])
    /\ built \subseteq Replicas /\ {client.at, client.peer} \subseteq Replicas \cup {"none"}
    /\ client.pc \in {"idle", "root", "recv", "nodes", "compare", "page", "done"}
    /\ client.end \in {"ok", "error", "abort"}
    /\ client.cur \in Slots \cup {0} /\ client.pending \in Entities \cup {0}
    /\ server.pc \in {"idle", "root", "slots", "send", "wait", "done"}
    /\ reader.left \in Nat /\ reader.buf \in Seq(Entities)
    /\ \A n \in Replicas : Len(older[n]) <= 1 /\ (older[n] # <<>> => Version(older[n][1]))
    /\ updated \subseteq Replicas /\ written \subseteq Entities

\* A repair that is not cut off leaves both sides with one version of every entity,
\* a newest one of those they began with, however the leaves are spread over slots
\* and pages, whichever side lacks what, and whether or not the leaves are in the order
\* in which readingClientNodeAndCompare compares them; only an entity written meanwhile
\* or since its tree was built may still differ, and one whose read or repair failed.
Converged ==
    client.pc = "done" /\ client.end = "ok" =>
        \A e \in Entities \ written :
            /\ db[client.at][e] = db[Srv][e]
            /\ db[Srv][e] \in {start[client.at][e], start[Srv][e]}
            /\ db[Srv][e].rev = Winner(start[client.at][e], start[Srv][e]).rev

\* After it the trees built by the deferred functions of the two sides agree, so
\* that the next repair of this pair stops at the root.
TreesAgree ==
    client.pc = "idle" /\ client.at # "none" /\ client.end = "ok" /\ written = {} =>
        tree[client.at] = tree[Srv]

\* "If the versions are the same, it selects the data from the smaller index of the
\* node list; in this case, it would be from A", the client.
TieGoesToClient ==
    client.pc = "done" /\ client.end = "ok" =>
        \A e \in Entities \ written : db[Srv][e] = Winner(start[client.at][e], start[Srv][e])
=============================================================================
