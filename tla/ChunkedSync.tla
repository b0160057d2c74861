---------------------------- MODULE ChunkedSync ----------------------------
(***************************************************************************)
(* One session that ships parts from a liaison to a data node over one     *)
(* bidirectional stream: the client in banyand/queue/pub/chunked_sync.go   *)
(* reads the files of the parts, packs what it reads into chunks and waits *)
(* for the answer to each of them; the server in                           *)
(* banyand/queue/sub/chunked_sync.go checks, orders and writes them, and   *)
(* introduces a part when the next one begins or the session is completed. *)
(*                                                                         *)
(* The files of a session are a sequence of reads, and all that matters of *)
(* a read is the part it belongs to: a layout <<1, 2, 2>> is one read of   *)
(* part 1 and two of part 2.  Parts are numbered in the order in which the *)
(* session has them, and their files follow each other part by part.  What *)
(* a chunk carries is a sequence of positions in the layout, and the       *)
(* server writes a chunk one position at a time.  The sizes and offsets    *)
(* the client computes fit its data, so the byte counts of partProgress    *)
(* always agree and the result of a completed session always says success. *)
(***************************************************************************)
EXTENDS Integers, Sequences, FiniteSets, Functions

CONSTANTS
    Settings,     \* the situations to start from
    MaxRetries,   \* maxRetries of the client
    MaxBuffer,    \* maxChunkBufferSize of the server
    MaxGap,       \* maxChunkGapSize of the server
    MaxSends      \* bound: chunks another peer sends

(***************************************************************************)
(* A setting: the reads of the session, how many fit a chunk, which parts  *)
(* have files that may fail to be read, whether chunks may be corrupted on *)
(* their way, whether the server reorders, whether it accepts the client's *)
(* version, and whether the chunks come from a peer that, unlike the       *)
(* client of this repository, sends them in any order and more than once   *)
(* (the server is written and tested for such a peer).                     *)
(***************************************************************************)
Setting == [layout : Seq(Nat \ {0}), chunk : Nat \ {0}, faulty : SUBSET Nat,
            corrupts : BOOLEAN, reordering : BOOLEAN, compatible : BOOLEAN,
            anyOrder : BOOLEAN]

ASSUME ChunkedSyncAssumption ==
    /\ Settings \subseteq Setting
    /\ \A s \in Settings : \A i, j \in DOMAIN s.layout : i <= j => s.layout[i] <= s.layout[j]
    /\ {MaxRetries, MaxBuffer, MaxGap, MaxSends} \subseteq Nat

VARIABLES
    set,         \* the setting of this behaviour
    snd,         \* the client's locals
    up, down,    \* requests and responses on their way
    broken,      \* the stream is broken
    rpc,         \* SyncPart on the server: "serving", or how it returned
    live, ses,   \* whether there is a session, and the session
    job,         \* the chunk processExpectedChunk is at, and its next piece
    introduced   \* parts handed to the shard table, with what was written

vars == <<set, snd, up, down, broken, rpc, live, ses, job, introduced>>
client == <<set, snd>>
server == <<rpc, live, ses, job, introduced>>

Reads == DOMAIN set.layout
Parts == {set.layout[i] : i \in Reads}

Chunk(index, pieces, first, corrupt) ==
    [kind |-> "chunk", index |-> index, pieces |-> pieces, first |-> first, corrupt |-> corrupt]
Completion == [kind |-> "completion"]
ChunkRequests ==
    [kind : {"chunk"}, index : Nat, pieces : Seq(Reads), first : BOOLEAN, corrupt : BOOLEAN]

NewSession == [expected |-> 0, chunks |-> {}, part |-> 0, written |-> <<>>]
Idle == [on |-> FALSE, req |-> Chunk(0, <<>>, FALSE, FALSE), at |-> 1]

Init ==
    /\ set \in Settings
    /\ snd = [pc |-> "read", cursor |-> 1, buf |-> <<>>, failed |-> {},
              index |-> 0, retry |-> 0, sends |-> 0, accepted |-> {}]
    /\ up = <<>> /\ down = <<>> /\ broken = FALSE
    /\ rpc = "serving" /\ live = FALSE /\ ses = NewSession /\ job = Idle
    /\ introduced = {}

----------------------------------------------------------------------------
(* The client: streamPartsAsChunks and sendChunk *)

\* Reads still to do; the files of a failed part are skipped.
Pending == {i \in snd.cursor .. Len(set.layout) : set.layout[i] \notin snd.failed}
NextRead(i) == i \in Pending /\ \A j \in Pending : i <= j

Reading == snd.pc = "read" /\ ~set.anyOrder /\ Len(snd.buf) < set.chunk
Buffered(p) == \E i \in Range(snd.buf) : set.layout[i] = p

ReadPiece ==
    /\ Reading
    /\ \E i \in Reads :
          /\ NextRead(i)
          /\ snd' = [snd EXCEPT !.cursor = i + 1, !.buf = Append(@, i)]
    /\ UNCHANGED <<set, up, down, broken, server>>

\* A read fails: the part is given up, and the whole buffer is discarded if the
\* part has contributed to it.
ReadFail ==
    /\ Reading
    /\ \E i \in Reads :
          /\ NextRead(i) /\ set.layout[i] \in set.faulty
          /\ snd' = [snd EXCEPT !.cursor = i + 1, !.failed = @ \cup {set.layout[i]},
                                !.buf = IF Buffered(set.layout[i]) THEN <<>> ELSE @]
    /\ UNCHANGED <<set, up, down, broken, server>>

Send(req) == up' = Append(up, req)

Connected == ~broken /\ rpc = "serving"

\* One iteration of sendChunk up to its Recv; buf stays for the retries.  The
\* metadata goes with every attempt for the first chunk.
SendChunk ==
    /\ snd.pc = "read" /\ ~set.anyOrder /\ Connected
    /\ snd.buf # <<>> /\ (Len(snd.buf) = set.chunk \/ Pending = {})
    /\ \E corrupt \in {FALSE, set.corrupts} :
          Send(Chunk(snd.index, snd.buf, snd.index = 0, corrupt))
    /\ snd' = [snd EXCEPT !.pc = "wait"]
    /\ UNCHANGED <<set, down, broken, server>>

\* All files are read: the completion, unless no chunk was ever sent.
SendCompletion ==
    /\ snd.pc = "read" /\ ~set.anyOrder /\ Connected
    /\ snd.buf = <<>> /\ Pending = {}
    /\ IF snd.index > 0 THEN Send(Completion) ELSE UNCHANGED up
    /\ snd' = [snd EXCEPT !.pc = IF snd.index = 0 /\ snd.failed = {} THEN "ok" ELSE "final"]
    /\ UNCHANGED <<set, down, broken, server>>

\* Mutant: attempts are not counted.
SendAgainUncounted(status) == [snd EXCEPT !.pc = "read"]

\* A refused chunk is sent again, a bounded number of times; a version or a gap that the
\* server does not accept, and its full buffer, are final (handleOutOfOrderResponse).
SendAgain(status) ==
    IF status \in {"VERSION", "REFUSED"} \/ snd.retry = MaxRetries
    THEN [snd EXCEPT !.pc = "err"]
    ELSE [snd EXCEPT !.pc = "read", !.retry = @ + 1]

\* The answer to a chunk.
RecvResponse ==
    /\ snd.pc = "wait" /\ ~set.anyOrder /\ down # <<>>
    /\ snd' = IF Head(down).status = "RECEIVED"
              THEN [snd EXCEPT !.pc = "read", !.buf = <<>>, !.index = @ + 1, !.retry = 0]
              ELSE SendAgain(Head(down).status)
    /\ down' = Tail(down)
    /\ UNCHANGED <<set, up, broken, server>>

\* The loop of SyncStreamingParts that waits for the result.
RecvFinal ==
    /\ snd.pc = "final" /\ down # <<>>
    /\ snd' = [snd EXCEPT !.pc = IF Head(down).status = "COMPLETE" THEN "ok" ELSE @]
    /\ down' = Tail(down)
    /\ UNCHANGED <<set, up, broken, server>>

\* Send or Recv fails; only the end of the stream is no error to who awaits the result.
StreamError ==
    /\ snd.pc \in {"read", "wait", "final"}
    /\ broken \/ (rpc # "serving" /\ (snd.pc = "read" \/ down = <<>>))
    /\ snd' = [snd EXCEPT !.pc = IF @ = "final" /\ rpc = "ok" /\ ~broken THEN "ok" ELSE "err"]
    /\ UNCHANGED <<set, up, down, broken, server>>

----------------------------------------------------------------------------
(* A peer that sends the chunks in any order *)

Chunks == {k \in 0 .. Len(set.layout) : k * set.chunk < Len(set.layout)}
PiecesIn(k) ==
    [j \in 1 .. (IF (k + 1) * set.chunk <= Len(set.layout) THEN set.chunk
                 ELSE Len(set.layout) - k * set.chunk) |-> k * set.chunk + j]

PeerSend ==
    /\ snd.pc = "read" /\ set.anyOrder /\ Connected /\ snd.sends < MaxSends
    /\ \E k \in Chunks : Send(Chunk(k, PiecesIn(k), snd.sends = 0, FALSE))
    /\ snd' = [snd EXCEPT !.pc = "wait", !.sends = @ + 1]
    /\ UNCHANGED <<set, down, broken, server>>

PeerResponse ==
    /\ snd.pc = "wait" /\ set.anyOrder /\ down # <<>>
    /\ snd' = [snd EXCEPT !.pc = "read",
                  !.accepted = IF Head(down).status = "RECEIVED"
                               THEN @ \cup {Head(down).index} ELSE @]
    /\ down' = Tail(down)
    /\ UNCHANGED <<set, up, broken, server>>

PeerDone ==
    /\ snd.pc = "read" /\ set.anyOrder /\ Connected
    /\ IF snd.accepted = Chunks
       THEN /\ Send(Completion)
            /\ snd' = [snd EXCEPT !.pc = "final"]
       ELSE /\ snd.sends = MaxSends
            /\ snd' = [snd EXCEPT !.pc = "err"]
            /\ UNCHANGED up
    /\ UNCHANGED <<set, down, broken, server>>

----------------------------------------------------------------------------
(* The server: SyncPart *)

\* FinishSync of the part that is being written, if there is one.
FinishSync ==
    IF ses.part = 0 THEN introduced
    ELSE introduced \cup {[part |-> ses.part, pieces |-> ses.written]}

\* startOrSwitchSession finishes the part of the session it replaces.
Session(req) == IF req.first THEN NewSession ELSE ses
Switched(req) == IF req.first /\ live THEN FinishSync ELSE introduced

\* SyncPart returns; its deferred Close removes the unfinished part.
Return(status) ==
    /\ rpc' = status
    /\ live' = FALSE /\ ses' = NewSession /\ job' = Idle
    /\ UNCHANGED <<client, broken>>

\* sendResponse, with which the handler of a request ends: session s goes on, unless
\* the stream is broken and SyncPart returns with the error of Send.
Respond(s, next, status, index) ==
    IF broken
    THEN Return("error") /\ UNCHANGED down
    ELSE /\ down' = Append(down, [status |-> status, index |-> index])
         /\ ses' = s /\ job' = next /\ live' = TRUE
         /\ UNCHANGED <<client, broken, rpc>>

\* The next request of the stream is a chunk, and its session is known.
Req == Head(up)
Receives ==
    /\ rpc = "serving" /\ ~job.on /\ up # <<>>
    /\ Req.kind = "chunk" /\ (live \/ Req.first)
    /\ up' = Tail(up)

ReceiveVersion ==
    /\ Receives /\ ~set.compatible
    /\ introduced' = Switched(Req)
    /\ Respond(Session(Req), Idle, "VERSION", Req.index)

\* processExpectedChunk begins with the chunk whose turn it is.
ReceiveExpected ==
    /\ Receives /\ set.compatible
    /\ Req.index = Session(Req).expected
    /\ introduced' = Switched(Req)
    /\ ses' = Session(Req) /\ live' = TRUE
    /\ job' = [on |-> TRUE, req |-> Req, at |-> 1]
    /\ UNCHANGED <<client, down, broken, rpc>>

\* A sequential server refuses any other chunk.
ReceiveOutOfOrder ==
    /\ Receives /\ set.compatible /\ ~set.reordering
    /\ Req.index # Session(Req).expected
    /\ introduced' = Switched(Req)
    /\ Respond(Session(Req), Idle, "OUT_OF_ORDER", Req.index)

\* Mutant: a chunk ahead of its turn is written at once.
ReceiveAheadWrite ==
    /\ Receives /\ set.compatible /\ set.reordering
    /\ Req.index > Session(Req).expected
    /\ introduced' = Switched(Req)
    /\ ses' = Session(Req) /\ live' = TRUE
    /\ job' = [on |-> TRUE, req |-> Req, at |-> 1]
    /\ UNCHANGED <<client, down, broken, rpc>>

\* buffer.chunks[req.ChunkIndex] = req
Keep(s, req) == [s EXCEPT !.chunks = {r \in @ : r.index # req.index} \cup {req}]

\* A chunk ahead of its turn is buffered if the gap and the buffer allow it.  The code
\* refuses it with the status OUT_OF_ORDER too, and an error text the client looks into.
ReceiveAhead ==
    /\ Receives /\ set.compatible /\ set.reordering
    /\ Req.index > Session(Req).expected
    /\ introduced' = Switched(Req)
    /\ IF \/ Req.index - Session(Req).expected > MaxGap
          \/ Cardinality(Session(Req).chunks) >= MaxBuffer
       THEN Respond(Session(Req), Idle, "REFUSED", Req.index)
       ELSE Respond(Keep(Session(Req), Req), Idle, "RECEIVED", Req.index)

\* A chunk whose turn is over is ignored.
ReceiveOld ==
    /\ Receives /\ set.compatible /\ set.reordering
    /\ Req.index < Session(Req).expected
    /\ introduced' = Switched(Req)
    /\ Respond(Session(Req), Idle, "RECEIVED", Req.index)

\* checkBufferTimeout, before a chunk is looked at.
BufferTimeout ==
    /\ Receives /\ set.compatible /\ set.reordering
    /\ ~Req.first /\ ses.chunks # {}
    /\ Return("error")
    /\ UNCHANGED <<down, introduced>>

Piece == job.req.pieces[job.at]
Writing == rpc = "serving" /\ job.on /\ ~job.req.corrupt /\ job.at <= Len(job.req.pieces)

\* processPart: the data of another part finishes the current one.
WritePiece ==
    /\ Writing
    /\ IF ses.part = set.layout[Piece]
       THEN /\ ses' = [ses EXCEPT !.written = Append(@, Piece)]
            /\ UNCHANGED introduced
       ELSE /\ ses' = [ses EXCEPT !.part = set.layout[Piece], !.written = <<Piece>>]
            /\ introduced' = FinishSync
    /\ job' = [job EXCEPT !.at = @ + 1]
    /\ UNCHANGED <<client, up, down, broken, rpc, live>>

\* CreatePartHandler fails for a part of the chunk: what precedes it is finished.
HandlerFails ==
    /\ Writing
    /\ ses.part # set.layout[Piece]
    /\ introduced' = FinishSync
    /\ Return("error")
    /\ UNCHANGED <<up, down>>

\* The callers of processExpectedChunk: a reordering server expects the next chunk
\* whatever the outcome, and goes on with it if it is buffered.
Moved ==
    IF set.reordering \/ ~job.req.corrupt THEN [ses EXCEPT !.expected = @ + 1] ELSE ses
Ready == {r \in Moved.chunks : r.index = Moved.expected}
Outcome == IF job.req.corrupt THEN "MISMATCH" ELSE "RECEIVED"

\* The end of processExpectedChunk, and processBufferedChunks.
ChunkProcessed ==
    /\ rpc = "serving" /\ job.on
    /\ job.req.corrupt \/ job.at = Len(job.req.pieces) + 1
    /\ \/ /\ Ready = {}
          /\ Respond(Moved, Idle, Outcome, job.req.index)
       \/ \E r \in Ready :
             Respond([Moved EXCEPT !.chunks = @ \ {r}], [on |-> TRUE, req |-> r, at |-> 1],
                     Outcome, job.req.index)
    /\ UNCHANGED <<up, introduced>>

\* Mutant: the last part of the session is not finished.
HandleCompletionUnfinished ==
    /\ rpc = "serving" /\ ~job.on /\ live /\ up # <<>> /\ Head(up) = Completion
    /\ UNCHANGED introduced
    /\ up' = Tail(up)
    /\ down' = Append(down, [status |-> "COMPLETE", index |-> 0])
    /\ Return("ok")

\* handleCompletion: finish the last part and answer with the result.
HandleCompletion ==
    /\ rpc = "serving" /\ ~job.on /\ live /\ up # <<>> /\ Head(up) = Completion
    /\ introduced' = FinishSync
    /\ up' = Tail(up)
    /\ down' = IF broken THEN down ELSE Append(down, [status |-> "COMPLETE", index |-> 0])
    /\ Return(IF broken THEN "error" ELSE "ok")

\* Recv on the server ends: the stream broke, or the client closed its side.
ServerRecvEnds ==
    /\ rpc = "serving" /\ ~job.on
    /\ \/ broken /\ Return("error")
       \/ ~broken /\ up = <<>> /\ snd.pc \in {"ok", "err"} /\ Return("ok")
    /\ UNCHANGED <<up, down, introduced>>

Break ==
    /\ ~broken
    /\ broken' = TRUE
    /\ UNCHANGED <<client, up, down, server>>

----------------------------------------------------------------------------
ClientStep ==
    \/ ReadPiece \/ ReadFail \/ SendChunk \/ SendCompletion \/ RecvResponse \/ RecvFinal
    \/ StreamError \/ PeerSend \/ PeerResponse \/ PeerDone

ServerStep ==
    \/ ReceiveVersion \/ ReceiveExpected \/ ReceiveOutOfOrder \/ ReceiveAhead \/ ReceiveOld
    \/ BufferTimeout \/ WritePiece \/ HandlerFails \/ ChunkProcessed \/ HandleCompletion
    \/ ServerRecvEnds

Next == ClientStep \/ ServerStep \/ Break

\* Client and server are goroutines that run whenever they can.
Spec == Init /\ [][Next]_vars
FairSpec == Spec /\ WF_vars(ClientStep) /\ WF_vars(ServerStep)

----------------------------------------------------------------------------
(* Properties *)

Senders ==
    [pc : {"read", "wait", "final", "ok", "err"}, cursor : Nat, buf : Seq(Reads),
     failed : SUBSET Parts, index : Nat, retry : 0 .. MaxRetries, sends : 0 .. MaxSends,
     accepted : SUBSET Nat]
Responses ==
    [status : {"RECEIVED", "MISMATCH", "OUT_OF_ORDER", "REFUSED", "VERSION", "COMPLETE"},
     index : Nat]
Sessions ==
    [expected : Nat, chunks : SUBSET ChunkRequests, part : Parts \cup {0}, written : Seq(Reads)]
Jobs == [on : BOOLEAN, req : ChunkRequests, at : Nat \ {0}]

\* Every variable stays in its range; in particular sendChunk never counts more retries
\* than maxRetries.
TypeOK ==
    /\ set \in Settings
    /\ snd \in Senders
    /\ up \in Seq(ChunkRequests \cup {Completion})
    /\ down \in Seq(Responses)
    /\ rpc \in {"serving", "ok", "error"}
    /\ live \in BOOLEAN /\ broken \in BOOLEAN
    /\ ses \in Sessions
    /\ job \in Jobs
    /\ introduced \subseteq [part : Parts, pieces : Seq(Reads)]

\* All the data of a part, in the order of its files.
Whole(r) ==
    /\ \A m, n \in DOMAIN r.pieces : m < n => r.pieces[m] < r.pieces[n]
    /\ Range(r.pieces) = {i \in Reads : set.layout[i] = r.part}

\* What the client reports as synced is on the data node: every part that is not
\* among FailedParts of a result was introduced with all of its data
\* (SyncStreamingParts against handleCompletion).
ReportedPartsDelivered ==
    snd.pc = "ok" => \A p \in Parts \ snd.failed : \E r \in introduced : r.part = p /\ Whole(r)

\* A part enters the data node's shard whole, its data in the order of the files,
\* whatever order, repetition or interruption the chunks went through
\* (processChunkWithReordering, FinishSync and Close).
IntroducedPartsWhole == \A r \in introduced : Whole(r)

\* A session ends with a result or an error: neither side waits for the other for
\* ever (sendChunk's retries, SyncStreamingParts' wait for the result).
SessionEnds == <>(snd.pc \in {"ok", "err"} /\ rpc # "serving")
=============================================================================
