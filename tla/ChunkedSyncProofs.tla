------------------------- MODULE ChunkedSyncProofs -------------------------
(***************************************************************************)
(* Proofs about ChunkedSync, for every layout, chunk size, number of       *)
(* retries, and size of buffer and gap.                                    *)
(***************************************************************************)
EXTENDS ChunkedSync, TLAPS

\* A read fails only while its part is alone in the buffer, or not in it, and before any
\* of its data was sent; and no chunk is corrupted on its way to a reordering server.
\* Where one of the two is not so, the code loses data.
FailsAlone ==
    \A i \in Reads : (Reading /\ NextRead(i) /\ set.layout[i] \in set.faulty) =>
        /\ Buffered(set.layout[i]) =>
              \A j \in Range(snd.buf) : set.layout[j] = set.layout[i]
        /\ \A j \in Reads : (j < i /\ set.layout[j] = set.layout[i]) => j \in Range(snd.buf)
Undisturbed == FailsAlone /\ ~(set.corrupts /\ set.reordering)

----------------------------------------------------------------------------
(* The inductive invariant *)

Good(i) == set.layout[i] \notin snd.failed
Increasing(q) == \A m, n \in DOMAIN q : m < n => q[m] < q[n]

\* What the server has of the session, and what it has of the chunk it is at.
Taken == Range(ses.written) \cup UNION {Range(r.pieces) : r \in introduced}
Begun == {job.req.pieces[m] : m \in 1 .. job.at - 1}

\* The part being written holds what was taken of it.
Server ==
    /\ ~live => ses = NewSession /\ ~job.on /\ introduced = {}
    /\ ~job.on => job = Idle
    /\ (ses.part = 0) <=> (ses.written = <<>>)
    /\ \A i \in Range(ses.written) : set.layout[i] = ses.part
    /\ Increasing(ses.written)
    /\ \A i \in Taken : Good(i)
    /\ \A r \in introduced : r.part # ses.part
    /\ job.on => /\ live
                 /\ job.req.index = ses.expected
                 /\ job.at \in 1 .. Len(job.req.pieces) + 1
                 /\ job.req.corrupt => job.at = 1

\* The client of this repository and the server take turns.
Sent == {i \in Reads : i < snd.cursor /\ Good(i)} \ Range(snd.buf)

Buffer ==
    /\ Increasing(snd.buf)
    /\ \A b \in Range(snd.buf) : b < snd.cursor /\ Good(b) /\ \A i \in Sent : i < b
    /\ snd.index = 0 => Sent = {}
    /\ ses.chunks = {}

Level ==
    /\ Taken = Sent
    /\ live => ses.expected = snd.index
    /\ snd.index > 0 => live

Fills ==
    snd.pc = "read" /\ up = <<>> /\ ~job.on /\ down = <<>> /\ Level
Asks ==
    /\ snd.pc \in {"wait", "err"} /\ ~job.on /\ down = <<>> /\ Level
    /\ \E c \in BOOLEAN : (c => set.corrupts) /\ up = <<Chunk(snd.index, snd.buf, snd.index = 0, c)>>
Writes ==
    /\ snd.pc \in {"wait", "err"} /\ up = <<>> /\ down = <<>> /\ job.on
    /\ job.req.pieces = snd.buf /\ (job.req.corrupt => set.corrupts)
    /\ Taken = Sent \cup Begun
    /\ ses.expected = snd.index
Accepts ==
    /\ snd.pc \in {"wait", "err"} /\ up = <<>> /\ ~job.on /\ live
    /\ Len(down) = 1 /\ down[1].status = "RECEIVED"
    /\ Taken = Sent \cup Range(snd.buf)
    /\ ses.expected = snd.index + 1
Refuses ==
    /\ snd.pc \in {"wait", "err"} /\ up = <<>> /\ ~job.on /\ live /\ Level
    /\ Len(down) = 1 /\ down[1].status \in {"MISMATCH", "VERSION"}
Completes ==
    /\ snd.pc \in {"final", "err"} /\ up = <<Completion>> /\ ~job.on /\ down = <<>> /\ live
    /\ \A i \in Reads : Good(i) => i \in Taken
Ends ==
    snd.pc \in {"final", "err", "ok"} /\ up = <<>> /\ ~job.on

Turns == Buffer /\ (Fills \/ Asks \/ Writes \/ Accepts \/ Refuses \/ Completes \/ Ends)

\* A peer that sends in any order: chunks below the expected index are written, and
\* what was answered as received is written or kept.
Kept(k) ==
    \/ k < ses.expected
    \/ \E r \in ses.chunks : r.index = k
    \/ job.on /\ k = ses.expected

Asked(q) == q.index \in Chunks /\ ~q.corrupt /\ q.pieces = PiecesIn(q.index)

PeerWritten ==
    /\ snd.failed = {}
    /\ Taken = {i \in Reads : i <= ses.expected * set.chunk} \cup Begun
    /\ job.on => Asked(job.req)
    /\ \A r \in ses.chunks : Asked(r) /\ r.index > ses.expected
    /\ \A q, r \in ses.chunks : q.index = r.index => q = r
PeerStream ==
    /\ \A m \in DOMAIN up :
          /\ up[m] = Completion =>
                m = Len(up) /\ snd.pc \in {"final", "err"} /\ snd.accepted = Chunks
          /\ up[m] # Completion => Asked(up[m]) /\ (up[m].first => m = 1 /\ ~live)
    /\ snd.sends = 0 => snd.pc # "wait" /\ (snd.pc = "read" => up = <<>> /\ ~live)
PeerAnswers ==
    /\ \A k \in snd.accepted : Kept(k)
    /\ \A m \in DOMAIN down : /\ down[m].status = "RECEIVED" => Kept(down[m].index)
                              /\ down[m].status # "COMPLETE"
AnyOrder == PeerWritten /\ PeerStream /\ PeerAnswers

Delivered == \A p \in Parts \ snd.failed : \E r \in introduced : r.part = p

IInv ==
    /\ TypeOK
    /\ IntroducedPartsWhole
    /\ rpc = "serving" => Server
    /\ rpc = "serving" /\ ~set.anyOrder => Turns
    /\ rpc = "serving" /\ set.anyOrder => AnyOrder
    /\ \A m \in DOMAIN down : down[m].status = "COMPLETE" => Delivered
    /\ snd.pc = "final" /\ rpc = "ok" => Delivered
    /\ snd.pc = "ok" => Delivered

----------------------------------------------------------------------------
(* Types *)

\* What the assumption says of a setting.
LEMMA SettingFacts ==
    ASSUME set \in Settings
    PROVE  /\ set.layout \in Seq(Nat \ {0}) /\ Len(set.layout) \in Nat
           /\ Reads = 1 .. Len(set.layout)
           /\ set.chunk \in Nat \ {0}
           /\ \A i, j \in Reads : i <= j => set.layout[i] <= set.layout[j]
           /\ \A i \in Reads : set.layout[i] \in Nat \ {0} /\ set.layout[i] \in Parts
           /\ set.corrupts \in BOOLEAN
    BY ChunkedSyncAssumption DEF Setting, Reads, Parts

\* The products with which a peer's chunks begin.
LEMMA Products ==
    ASSUME NEW k \in Nat, NEW c \in Nat \ {0}
    PROVE  /\ k * c \in Nat /\ (k + 1) * c = k * c + c
           /\ k <= k * c
    OBVIOUS

\* PiecesIn: chunk k of a peer carries the reads after the first k * chunk of them.
LEMMA PeerChunk ==
    ASSUME set \in Settings, NEW k \in Chunks
    PROVE  /\ k \in Nat /\ k * set.chunk \in Nat /\ k * set.chunk < Len(set.layout)
           /\ PiecesIn(k) \in Seq(Reads)
           /\ \A m \in 1 .. Len(PiecesIn(k)) : PiecesIn(k)[m] = k * set.chunk + m
           /\ \A i \in Reads : (k * set.chunk < i /\ i <= (k + 1) * set.chunk) =>
                 i - k * set.chunk \in 1 .. Len(PiecesIn(k))
           /\ \A m \in 1 .. Len(PiecesIn(k)) : k * set.chunk + m <= (k + 1) * set.chunk
<1> DEFINE c == set.chunk
           L == Len(set.layout)
           b == k * c
           n == IF (k + 1) * c <= L THEN c ELSE L - b
<1>1. L \in Nat /\ c \in Nat \ {0} /\ Reads = 1 .. L /\ k \in Nat /\ b < L
  BY SettingFacts DEF Chunks
<1>2. b \in Nat /\ (k + 1) * c = b + c
  BY <1>1, Products
<1>3. PiecesIn(k) = [j \in 1 .. n |-> b + j]
  BY DEF PiecesIn
<1> HIDE DEF b, c, L
<1>4. n \in Nat /\ n <= c /\ b + n <= L /\ (b + c <= L => n = c) /\ (~(b + c <= L) => n = L - b)
  BY <1>1, <1>2
<1> HIDE DEF n
<1>5. Len(PiecesIn(k)) = n /\ PiecesIn(k) \in Seq(Reads)
  BY <1>1, <1>2, <1>3, <1>4
<1>6. \A m \in 1 .. n : PiecesIn(k)[m] = b + m
  BY <1>3
<1>7. \A i \in Reads : (b < i /\ i <= b + c) => i - b \in 1 .. n
  BY <1>1, <1>2, <1>4
<1>8. \A m \in 1 .. n : b + m <= b + c
  BY <1>1, <1>2, <1>4
<1> QED
  BY <1>1, <1>2, <1>5, <1>6, <1>7, <1>8 DEF b, c, L

\* The types depend on the setting only.
LEMMA SameTypes ==
    ASSUME set' = set
    PROVE  /\ Reads' = Reads /\ Parts' = Parts /\ Senders' = Senders
           /\ ChunkRequests' = ChunkRequests /\ Sessions' = Sessions /\ Jobs' = Jobs
           /\ Chunks' = Chunks /\ \A k : PiecesIn(k)' = PiecesIn(k)
    BY DEF Reads, Parts, Senders, ChunkRequests, Sessions, Jobs, Chunks, PiecesIn

Streams == Seq(ChunkRequests \cup {Completion})
Answers == Seq(Responses)

\* TypeOK of the next state, from the variables a step changes.
LEMMA TypesNext ==
    ASSUME TypeOK, set' = set, snd' \in Senders, up' \in Streams, down' \in Answers,
           rpc' \in {"serving", "ok", "error"}, live' \in BOOLEAN, broken' \in BOOLEAN,
           ses' \in Sessions, job' \in Jobs, introduced' \subseteq [part : Parts, pieces : Seq(Reads)]
    PROVE  TypeOK'
    BY SameTypes, Zenon DEF TypeOK, Streams, Answers, Responses, Completion

\* TypeOK, variable by variable.
LEMMA TypesNow ==
    ASSUME TypeOK
    PROVE  /\ set \in Settings /\ snd \in Senders /\ up \in Streams /\ down \in Answers
           /\ rpc \in {"serving", "ok", "error"} /\ live \in BOOLEAN /\ broken \in BOOLEAN
           /\ ses \in Sessions /\ job \in Jobs /\ introduced \subseteq [part : Parts, pieces : Seq(Reads)]
    BY Zenon DEF TypeOK, Streams, Answers

\* Queues of requests and of answers.
LEMMA Queues ==
    /\ \A x \in ChunkRequests \cup {Completion} : \A s \in Streams : Append(s, x) \in Streams
    /\ \A s \in Streams : s # <<>> => Tail(s) \in Streams /\ Head(s) \in ChunkRequests \cup {Completion}
    /\ \A s \in Answers : \A x \in Responses : Append(s, x) \in Answers
    /\ \A s \in Answers : s # <<>> => Tail(s) \in Answers /\ Head(s) \in Responses
    /\ Completion \notin ChunkRequests
    BY DEF Streams, Answers, Completion, ChunkRequests

Untouched == UNCHANGED <<set, broken, rpc, live, ses, job, introduced>>

\* A step that leaves the server alone keeps the types, if it keeps those of the rest.
LEMMA ClientTypesFrom ==
    ASSUME TypeOK, Untouched, snd' \in Senders, up' \in Streams, down' \in Answers
    PROVE  TypeOK'
    BY TypesNow, TypesNext, Zenon DEF Untouched

\* The fields of a sender.
LEMMA SenderFields ==
    ASSUME NEW s \in Senders
    PROVE  /\ s.pc \in {"read", "wait", "final", "ok", "err"} /\ s.cursor \in Nat
           /\ s.buf \in Seq(Reads) /\ s.failed \in SUBSET Parts /\ s.index \in Nat
           /\ s.retry \in 0 .. MaxRetries /\ s.sends \in 0 .. MaxSends
           /\ s.accepted \in SUBSET Nat
    BY DEF Senders

\* The ways in which the client updates them.
LEMMA SenderUpdates ==
    ASSUME NEW s \in Senders, NEW n \in Nat, NEW b \in Seq(Reads), NEW f \in SUBSET Parts,
           NEW r \in 0 .. MaxRetries, NEW c \in 0 .. MaxSends
    PROVE  /\ [s EXCEPT !.cursor = n, !.buf = b] \in Senders
           /\ [s EXCEPT !.cursor = n, !.failed = f, !.buf = b] \in Senders
           /\ [s EXCEPT !.pc = "read", !.buf = b, !.index = n, !.retry = r] \in Senders
           /\ [s EXCEPT !.pc = "err"] \in Senders
           /\ [s EXCEPT !.pc = "read", !.retry = r] \in Senders
           /\ [s EXCEPT !.pc = "wait", !.sends = c] \in Senders
<1>1. [s EXCEPT !.cursor = n, !.buf = b] \in Senders
  BY Zenon DEF Senders
<1>2. [s EXCEPT !.cursor = n, !.failed = f, !.buf = b] \in Senders
  BY Zenon DEF Senders
<1>3. [s EXCEPT !.pc = "read", !.buf = b, !.index = n, !.retry = r] \in Senders
  BY Zenon DEF Senders
<1>4. [s EXCEPT !.pc = "err"] \in Senders
  BY Zenon DEF Senders
<1>5. [s EXCEPT !.pc = "read", !.retry = r] \in Senders
  BY Zenon DEF Senders
<1>6. [s EXCEPT !.pc = "wait", !.sends = c] \in Senders
  BY Zenon DEF Senders
<1> QED BY <1>1, <1>2, <1>3, <1>4, <1>5, <1>6

\* The client's step keeps the types.
LEMMA ClientTypes ==
    ASSUME TypeOK, ClientStep
    PROVE  TypeOK'
<1>0. /\ set \in Settings /\ snd \in Senders /\ up \in Streams /\ down \in Answers
      /\ {MaxRetries, MaxSends} \subseteq Nat
  BY TypesNow, ChunkedSyncAssumption
<1>00. Reads \subseteq Nat /\ \A i \in Reads : set.layout[i] \in Parts
  BY <1>0, SettingFacts
<1>000. /\ 0 \in Nat /\ 0 \in 0 .. MaxRetries /\ 0 \in 0 .. MaxSends
        /\ <<>> \in Seq(Reads) /\ {} \in SUBSET Parts
  BY <1>0
<1> SUFFICES snd' \in Senders /\ up' \in Streams /\ down' \in Answers /\ Untouched
  BY ClientTypesFrom, Zenon
<1>1. CASE ReadPiece
  <2>1. PICK i \in Reads : snd' = [snd EXCEPT !.cursor = i + 1, !.buf = Append(@, i)]
    BY <1>1, Zenon DEF ReadPiece
  <2>a. i + 1 \in Nat /\ snd.buf \in Seq(Reads) /\ Append(snd.buf, i) \in Seq(Reads)
    BY <1>0, <1>00, SenderFields
  <2>2. snd' \in Senders
    BY <2>1, <1>0, <2>a, <1>000, SenderUpdates, Zenon
  <2> QED BY <1>1, <1>0, <2>2, Zenon DEF ReadPiece, server, Untouched
<1>2. CASE ReadFail
  <2>1. PICK i \in Reads :
           snd' = [snd EXCEPT !.cursor = i + 1, !.failed = @ \cup {set.layout[i]},
                              !.buf = IF Buffered(set.layout[i]) THEN <<>> ELSE @]
    BY <1>2, Zenon DEF ReadFail
  <2>a. /\ i + 1 \in Nat /\ snd.failed \cup {set.layout[i]} \in SUBSET Parts
        /\ snd.buf \in Seq(Reads) /\ <<>> \in Seq(Reads)
    BY <1>0, <1>00, SenderFields
  <2>2. snd' \in Senders
    BY <2>1, <1>0, <2>a, <1>000, SenderUpdates, Zenon
  <2> QED BY <1>2, <1>0, <2>2, Zenon DEF ReadFail, server, Untouched
<1>3. CASE SendChunk
  <2>1. snd' \in Senders /\ snd.index \in Nat /\ snd.buf \in Seq(Reads)
    BY <1>3, <1>0 DEF Senders, SendChunk
  <2>2. PICK corrupt \in {FALSE, set.corrupts} :
           up' = Append(up, Chunk(snd.index, snd.buf, snd.index = 0, corrupt))
    BY <1>3, Zenon DEF SendChunk, Send
  <2>3. corrupt \in BOOLEAN
    BY <1>0, SettingFacts, Zenon
  <2>4. Chunk(snd.index, snd.buf, snd.index = 0, corrupt) \in ChunkRequests
    BY <2>1, <2>3 DEF Chunk, ChunkRequests
  <2>5. up' \in Streams
    BY <2>2, <2>4, <1>0, Queues, Zenon
  <2> QED BY <1>3, <1>0, <2>1, <2>5, Zenon DEF SendChunk, server, Untouched
<1>4. CASE SendCompletion
  <2>1. snd' \in Senders
    BY <1>4, <1>0 DEF Senders, SendCompletion
  <2>2. up' \in Streams
    BY <1>4, <1>0, Queues, Zenon DEF SendCompletion, Send
  <2> QED BY <1>4, <1>0, <2>1, <2>2, Zenon DEF SendCompletion, server, Untouched
<1>5. CASE RecvResponse
  <2>1. snd' \in Senders
    <3>1. /\ snd.index + 1 \in Nat /\ <<>> \in Seq(Reads) /\ 0 \in 0 .. MaxRetries
          /\ snd.retry # MaxRetries => snd.retry + 1 \in 0 .. MaxRetries
      BY <1>0, SenderFields
    <3> QED BY <1>5, <1>0, <3>1, <1>000, SenderUpdates, Zenon DEF RecvResponse, SendAgain
  <2> QED BY <1>5, <1>0, <2>1, Queues, Zenon DEF RecvResponse, server, Untouched
<1>6. CASE RecvFinal
  <2>1. snd' \in Senders
    BY <1>6, <1>0 DEF Senders, RecvFinal
  <2> QED BY <1>6, <1>0, <2>1, Queues, Zenon DEF RecvFinal, server, Untouched
<1>7. CASE StreamError
  <2>1. snd' \in Senders
    BY <1>7, <1>0 DEF Senders, StreamError
  <2> QED BY <1>7, <1>0, <2>1, Zenon DEF StreamError, server, Untouched
<1>8. CASE PeerSend
  <2>1. snd' \in Senders
    <3>1. snd.sends < MaxSends => snd.sends + 1 \in 0 .. MaxSends
      BY <1>0, SenderFields
    <3> QED BY <1>8, <1>0, <3>1, <1>000, SenderUpdates, Zenon DEF PeerSend
  <2>2. PICK k \in Chunks : up' = Append(up, Chunk(k, PiecesIn(k), snd.sends = 0, FALSE))
    BY <1>8, Zenon DEF PeerSend, Send
  <2>3. k \in Nat /\ PiecesIn(k) \in Seq(Reads)
    BY <1>0, PeerChunk, Zenon
  <2>4. Chunk(k, PiecesIn(k), snd.sends = 0, FALSE) \in ChunkRequests
    BY <2>3 DEF Chunk, ChunkRequests
  <2>5. up' \in Streams
    BY <2>2, <2>4, <1>0, Queues, Zenon
  <2> QED BY <1>8, <1>0, <2>1, <2>5, Zenon DEF PeerSend, server, Untouched
<1>9. CASE PeerResponse
  <2>1. Head(down) \in Responses /\ Tail(down) \in Answers
    BY <1>9, <1>0, Queues, Zenon DEF PeerResponse
  <2>2. Head(down).index \in Nat
    BY <2>1 DEF Responses
  <2>3. snd' \in Senders
    BY <1>9, <1>0, <2>2, Zenon DEF Senders, PeerResponse
  <2> QED BY <1>9, <1>0, <2>1, <2>3, Zenon DEF PeerResponse, server, Untouched
<1>10. CASE PeerDone
  <2>1. snd' \in Senders
    BY <1>10, <1>0 DEF Senders, PeerDone
  <2>2. up' \in Streams
    BY <1>10, <1>0, Queues, Zenon DEF PeerDone, Send
  <2> QED BY <1>10, <1>0, <2>1, <2>2, Zenon DEF PeerDone, server, Untouched
<1> QED
  BY <1>1, <1>2, <1>3, <1>4, <1>5, <1>6, <1>7, <1>8, <1>9, <1>10 DEF ClientStep

Parcels == [part : Parts, pieces : Seq(Reads)]
Statuses == {"RECEIVED", "MISMATCH", "OUT_OF_ORDER", "REFUSED", "VERSION", "COMPLETE"}

\* The fields of a request, of a session and of the server's work.
LEMMA ServerFields ==
    /\ \A q \in ChunkRequests : /\ q.kind = "chunk" /\ q.index \in Nat /\ q.pieces \in Seq(Reads)
                                /\ q.first \in BOOLEAN /\ q.corrupt \in BOOLEAN
    /\ \A s \in Sessions : /\ s.expected \in Nat /\ s.chunks \in SUBSET ChunkRequests
                           /\ s.part \in Parts \cup {0} /\ s.written \in Seq(Reads)
    /\ \A j \in Jobs : j.on \in BOOLEAN /\ j.req \in ChunkRequests /\ j.at \in Nat \ {0}
    /\ \A r \in Parcels : r.part \in Parts /\ r.pieces \in Seq(Reads)
    BY DEF ChunkRequests, Sessions, Jobs, Parcels

\* The sessions, works and parts that the server makes.
LEMMA ServerUpdates ==
    /\ NewSession \in Sessions /\ Idle \in Jobs
    /\ \A q \in ChunkRequests : [on |-> TRUE, req |-> q, at |-> 1] \in Jobs
    /\ \A s \in Sessions, c \in SUBSET ChunkRequests : [s EXCEPT !.chunks = c] \in Sessions
    /\ \A s \in Sessions, n \in Nat : [s EXCEPT !.expected = n] \in Sessions
    /\ \A s \in Sessions, w \in Seq(Reads) : [s EXCEPT !.written = w] \in Sessions
    /\ \A s \in Sessions, p \in Parts, w \in Seq(Reads) :
          [s EXCEPT !.part = p, !.written = w] \in Sessions
    /\ \A j \in Jobs, n \in Nat \ {0} : [j EXCEPT !.at = n] \in Jobs
    /\ \A p \in Parts, w \in Seq(Reads) : [part |-> p, pieces |-> w] \in Parcels
<1>1. NewSession \in Sessions
  BY DEF NewSession, Sessions
<1>2. Idle \in Jobs
  BY DEF Idle, Jobs, Chunk, ChunkRequests
<1>3. \A q \in ChunkRequests : [on |-> TRUE, req |-> q, at |-> 1] \in Jobs
  BY DEF Jobs
<1>4. \A s \in Sessions, c \in SUBSET ChunkRequests : [s EXCEPT !.chunks = c] \in Sessions
  BY DEF Sessions
<1>5. \A s \in Sessions, n \in Nat : [s EXCEPT !.expected = n] \in Sessions
  BY DEF Sessions
<1>6. \A s \in Sessions, w \in Seq(Reads) : [s EXCEPT !.written = w] \in Sessions
  BY Zenon DEF Sessions
<1>7. \A s \in Sessions, p \in Parts, w \in Seq(Reads) :
          [s EXCEPT !.part = p, !.written = w] \in Sessions
  BY Zenon DEF Sessions
<1>8. \A j \in Jobs, n \in Nat \ {0} : [j EXCEPT !.at = n] \in Jobs
  BY DEF Jobs
<1>9. \A p \in Parts, w \in Seq(Reads) : [part |-> p, pieces |-> w] \in Parcels
  BY DEF Parcels
<1> QED BY <1>1, <1>2, <1>3, <1>4, <1>5, <1>6, <1>7, <1>8, <1>9, Zenon

\* FinishSync adds a part.
LEMMA FinishTypes ==
    ASSUME TypeOK
    PROVE  FinishSync \subseteq Parcels /\ introduced \subseteq Parcels
<1>1. ses \in Sessions /\ introduced \subseteq Parcels
  BY TypesNow, Zenon DEF Parcels
<1>2. ses.part # 0 => [part |-> ses.part, pieces |-> ses.written] \in Parcels
  BY <1>1, ServerFields, ServerUpdates, Zenon
<1> QED BY <1>1, <1>2 DEF FinishSync

\* The ends of the server's handlers keep the types.
LEMMA ReturnTypes ==
    ASSUME TypeOK, NEW status \in {"ok", "error"}, Return(status),
           up' \in Streams, down' \in Answers, introduced' \subseteq Parcels
    PROVE  TypeOK'
    BY TypesNow, TypesNext, ServerUpdates, Zenon DEF Return, client, Parcels

\* Respond: the session goes on or SyncPart returns.
LEMMA RespondTypes ==
    ASSUME TypeOK, NEW s \in Sessions, NEW next \in Jobs, NEW status \in Statuses, NEW index \in Nat,
           Respond(s, next, status, index), up' \in Streams, introduced' \subseteq Parcels
    PROVE  TypeOK'
<1>1. down \in Answers
  BY TypesNow, Zenon
<1>2. CASE broken
  <2>1. Return("error") /\ down' = down
    BY <1>2, Zenon DEF Respond
  <2> QED BY <2>1, <1>1, ReturnTypes, Zenon
<1>3. CASE ~broken
  <2>1. [status |-> status, index |-> index] \in Responses
    BY DEF Statuses, Responses
  <2>2. /\ down' = Append(down, [status |-> status, index |-> index])
        /\ ses' = s /\ job' = next /\ live' = TRUE /\ set' = set /\ snd' = snd
        /\ broken' = broken /\ rpc' = rpc
    BY <1>3, Zenon DEF Respond, client
  <2>3. down' \in Answers
    BY <1>1, <2>1, <2>2, Queues, Zenon
  <2> QED BY <2>2, <2>3, TypesNow, TypesNext, Zenon DEF Parcels
<1> QED BY <1>2, <1>3

\* The session a request opens or goes on with.
LEMMA ReceiveTypes ==
    ASSUME TypeOK, Receives
    PROVE  /\ Req \in ChunkRequests /\ Req.index \in Nat /\ up' \in Streams
           /\ Session(Req) \in Sessions /\ Switched(Req) \subseteq Parcels
<1>1. up \in Streams /\ up # <<>> /\ up' = Tail(up) /\ Req = Head(up) /\ Req.kind = "chunk"
  BY TypesNow, Zenon DEF Receives, Req
<1>2. up' \in Streams /\ Req \in ChunkRequests \cup {Completion}
  BY <1>1, Queues, Zenon
<1>3. Req # Completion
  BY <1>1 DEF Completion
<1>4. Req \in ChunkRequests
  BY <1>2, <1>3
<1>5. Session(Req) \in Sessions
  BY TypesNow, ServerUpdates, Zenon DEF Session
<1>6. Switched(Req) \subseteq Parcels
  BY FinishTypes, Zenon DEF Switched
<1> QED BY <1>2, <1>4, <1>5, <1>6, ServerFields, Zenon

\* The server's step keeps the types.
LEMMA ServerTypes ==
    ASSUME TypeOK, ServerStep
    PROVE  TypeOK'
<1>0. /\ set \in Settings /\ up \in Streams /\ down \in Answers /\ ses \in Sessions /\ job \in Jobs
      /\ job.req \in ChunkRequests /\ job.req.index \in Nat /\ job.at \in Nat \ {0}
      /\ introduced \subseteq Parcels /\ FinishSync \subseteq Parcels
      /\ Idle \in Jobs /\ NewSession \in Sessions
  BY TypesNow, ServerFields, ServerUpdates, FinishTypes, Zenon
<1>s. {"RECEIVED", "MISMATCH", "OUT_OF_ORDER", "REFUSED", "VERSION", "COMPLETE"} \subseteq Statuses
  BY DEF Statuses
<1>1. CASE ReceiveVersion
  BY <1>1, <1>0, <1>s, ReceiveTypes, RespondTypes, Zenon DEF ReceiveVersion
<1>2. CASE ReceiveExpected
  <2>1. /\ up' \in Streams /\ ses' \in Sessions /\ job' \in Jobs /\ introduced' \subseteq Parcels
        /\ UNCHANGED <<set, snd, down, broken, rpc>> /\ live' = TRUE
    BY <1>2, ReceiveTypes, ServerUpdates, Zenon DEF ReceiveExpected, client
  <2> QED BY <2>1, TypesNow, TypesNext, Zenon DEF Parcels
<1>3. CASE ReceiveOutOfOrder
  BY <1>3, <1>0, <1>s, ReceiveTypes, RespondTypes, Zenon DEF ReceiveOutOfOrder
<1>4. CASE ReceiveAhead
  <2>1. Req \in ChunkRequests /\ Session(Req) \in Sessions
    BY <1>4, ReceiveTypes, Zenon DEF ReceiveAhead
  <2>2. Keep(Session(Req), Req) \in Sessions
    BY <2>1 DEF Keep, Sessions
  <2> QED BY <1>4, <1>0, <1>s, <2>1, <2>2, ReceiveTypes, RespondTypes, Zenon DEF ReceiveAhead
<1>5. CASE ReceiveOld
  BY <1>5, <1>0, <1>s, ReceiveTypes, RespondTypes, Zenon DEF ReceiveOld
<1>6. CASE BufferTimeout
  <2>1. up' \in Streams /\ down' \in Answers /\ introduced' \subseteq Parcels /\ Return("error")
    BY <1>6, <1>0, ReceiveTypes, Zenon DEF BufferTimeout
  <2> QED BY <2>1, ReturnTypes, Zenon
<1>7. CASE WritePiece
  <2>1. job.req.pieces \in Seq(Reads) /\ ses.written \in Seq(Reads)
    BY <1>0, ServerFields, Zenon
  <2>2. Piece \in Reads /\ job.at + 1 \in Nat \ {0}
    BY <1>7, <1>0, <2>1 DEF WritePiece, Writing, Piece
  <2>3. Append(ses.written, Piece) \in Seq(Reads) /\ <<Piece>> \in Seq(Reads)
    BY <2>1, <2>2
  <2>4. set.layout[Piece] \in Parts
    BY <2>2, <1>0, SettingFacts, Zenon
  <2>5. ses' \in Sessions /\ introduced' \subseteq Parcels
    <3>1. CASE ses.part = set.layout[Piece]
      <4>1. ses' = [ses EXCEPT !.written = Append(ses.written, Piece)] /\ introduced' = introduced
        BY <3>1, <1>7, Zenon DEF WritePiece
      <4> QED BY <4>1, <1>0, <2>3, ServerUpdates, Zenon
    <3>2. CASE ses.part # set.layout[Piece]
      <4>1. /\ ses' = [ses EXCEPT !.part = set.layout[Piece], !.written = <<Piece>>]
            /\ introduced' = FinishSync
        BY <3>2, <1>7, Zenon DEF WritePiece
      <4> QED BY <4>1, <1>0, <2>3, <2>4, ServerUpdates, Zenon
    <3> QED BY <3>1, <3>2
  <2>6. job' \in Jobs
    BY <1>7, <1>0, <2>2, ServerUpdates, Zenon DEF WritePiece
  <2> QED BY <1>7, <1>0, <2>5, <2>6, TypesNow, TypesNext, Zenon DEF WritePiece, client, Parcels
<1>8. CASE HandlerFails
  BY <1>8, <1>0, ReturnTypes, Zenon DEF HandlerFails
<1>9. CASE ChunkProcessed
  <2>1. Moved \in Sessions
    <3>1. ses.expected + 1 \in Nat
      BY <1>0, ServerFields
    <3> QED BY <1>0, <3>1, ServerUpdates, Zenon DEF Moved
  <2>2. Moved.chunks \in SUBSET ChunkRequests
    BY <2>1, ServerFields, Zenon
  <2>3. \A r \in Ready : r \in ChunkRequests /\ [Moved EXCEPT !.chunks = @ \ {r}] \in Sessions
    <3>1. \A r \in Ready : r \in ChunkRequests /\ Moved.chunks \ {r} \in SUBSET ChunkRequests
      BY <2>2 DEF Ready
    <3> QED BY <3>1, <2>1, ServerUpdates, Zenon
  <2>4. Outcome \in Statuses
    BY <1>s, Zenon DEF Outcome
  <2>5. up' \in Streams /\ introduced' \subseteq Parcels
    BY <1>9, <1>0, Zenon DEF ChunkProcessed
  <2>6. CASE Respond(Moved, Idle, Outcome, job.req.index)
    BY <2>6, <2>1, <2>4, <2>5, <1>0, RespondTypes, Zenon
  <2>7. ASSUME NEW r \in Ready, Respond([Moved EXCEPT !.chunks = @ \ {r}],
                     [on |-> TRUE, req |-> r, at |-> 1], Outcome, job.req.index)
        PROVE  TypeOK'
    <3>1. [on |-> TRUE, req |-> r, at |-> 1] \in Jobs
      BY <2>3, ServerUpdates, Zenon
    <3> QED BY <2>7, <3>1, <2>3, <2>4, <2>5, <1>0, RespondTypes, Zenon
  <2> QED BY <1>9, <2>6, <2>7, Zenon DEF ChunkProcessed
<1>10. CASE HandleCompletion
  <2>1. [status |-> "COMPLETE", index |-> 0] \in Responses
    BY DEF Responses
  <2>2. up' \in Streams /\ down' \in Answers /\ introduced' \subseteq Parcels
    BY <1>10, <1>0, <2>1, Queues, Zenon DEF HandleCompletion
  <2>3. Return(IF broken THEN "error" ELSE "ok") /\ (IF broken THEN "error" ELSE "ok") \in {"ok", "error"}
    BY <1>10, Zenon DEF HandleCompletion
  <2> QED BY <2>2, <2>3, ReturnTypes, Zenon
<1>11. CASE ServerRecvEnds
  BY <1>11, <1>0, ReturnTypes, Zenon DEF ServerRecvEnds
<1> QED
  BY <1>1, <1>2, <1>3, <1>4, <1>5, <1>6, <1>7, <1>8, <1>9, <1>10, <1>11 DEF ServerStep

\* Every variable has its type, at the start and after every step.
LEMMA TypesStep ==
    ASSUME TypeOK, [Next]_vars
    PROVE  TypeOK'
<1>1. CASE Break
  BY <1>1, TypesNow, TypesNext, Zenon DEF Break, client, server
<1>2. CASE UNCHANGED vars
  BY <1>2, TypesNow, TypesNext, Zenon DEF vars
<1> QED BY <1>1, <1>2, ClientTypes, ServerTypes, Zenon DEF Next

\* The initial state has the types.
LEMMA TypesInit ==
    ASSUME Init
    PROVE  TypeOK
<1>1. {MaxRetries, MaxSends} \subseteq Nat
  BY ChunkedSyncAssumption
<1>2. snd \in Senders
  BY <1>1 DEF Init, Senders
<1>3. up \in Streams /\ down \in Answers
  BY DEF Init, Streams, Answers
<1> QED BY <1>2, <1>3, ServerUpdates, Zenon DEF Init, TypeOK, Streams, Answers

----------------------------------------------------------------------------
(* What the server has *)

\* Taken, member by member.
LEMMA TakenMember ==
    ASSUME NEW i
    PROVE  i \in Taken <=> \/ i \in Range(ses.written)
                           \/ \E r \in introduced : i \in Range(r.pieces)
    BY Zenon DEF Taken

\* Ranges of the sequences the server builds.
LEMMA Ranges ==
    /\ \A w \in Seq(Reads), i \in Reads : Range(Append(w, i)) = Range(w) \cup {i}
    /\ \A i \in Reads : Range(<<i>>) = {i}
    /\ Range(<<>>) = {}
    /\ \A w \in Seq(Reads) : (w # <<>> => \E i \in Reads : i \in Range(w)) /\ Range(w) \subseteq Reads
<1>1. ASSUME NEW w \in Seq(Reads), NEW i \in Reads PROVE Range(Append(w, i)) = Range(w) \cup {i}
  <2> DEFINE v == Append(w, i)
  <2>1. /\ Len(w) \in Nat /\ DOMAIN w = 1 .. Len(w) /\ DOMAIN v = 1 .. Len(w) + 1
        /\ \A m \in 1 .. Len(w) : v[m] = w[m] /\ m \in DOMAIN v
        /\ v[Len(w) + 1] = i /\ Len(w) + 1 \in DOMAIN v
        /\ \A m \in DOMAIN v : m \in 1 .. Len(w) \/ m = Len(w) + 1
    OBVIOUS
  <2> HIDE DEF v
  <2>2. Range(v) = Range(w) \cup {i}
    BY <2>1, Zenon DEF Range
  <2> QED BY <2>2 DEF v
<1>2. \A i \in Reads : Range(<<i>>) = {i}
  BY DEF Range
<1>3. Range(<<>>) = {}
  BY DEF Range
<1>4. ASSUME NEW w \in Seq(Reads)
      PROVE  (w # <<>> => \E i \in Reads : i \in Range(w)) /\ Range(w) \subseteq Reads
  BY DEF Range
<1> QED BY <1>1, <1>2, <1>3, <1>4, Zenon

\* A sequence that grows at its end by a larger element stays increasing.
LEMMA Grows ==
    ASSUME NEW w \in Seq(Reads), NEW i \in Reads, Reads \subseteq Nat,
           Increasing(w), \A j \in Range(w) : j < i
    PROVE  Increasing(Append(w, i)) /\ Increasing(<<i>>)
    BY DEF Increasing, Range

\* Steps that change neither the part being written nor the introduced ones.
LEMMA TakenSame ==
    ASSUME ses'.written = ses.written, introduced' = introduced
    PROVE  Taken' = Taken
    BY Zenon DEF Taken

\* The reads that are sent, of which no part has failed.
LEMMA SentSame ==
    ASSUME set' = set, snd'.cursor = snd.cursor, snd'.buf = snd.buf, snd'.failed = snd.failed
    PROVE  Sent' = Sent /\ \A i : Good(i)' <=> Good(i)
<1>1. \A i : Good(i)' <=> Good(i)
  BY Zenon DEF Good
<1>2. Reads' = Reads
  BY SameTypes, Zenon
<1> QED BY <1>1, <1>2 DEF Sent, Good

\* FinishSync introduces a whole part, once nothing of the part is missing.
LEMMA FinishWhole ==
    ASSUME TypeOK, Server, IntroducedPartsWhole, ses.part # 0,
           \A i \in Reads : (set.layout[i] = ses.part /\ Good(i)) => i \in Taken
    PROVE  Whole([part |-> ses.part, pieces |-> ses.written])
<1> DEFINE x == [part |-> ses.part, pieces |-> ses.written]
<1>0. x.part = ses.part /\ x.pieces = ses.written
  OBVIOUS
<1>1. ses.written \in Seq(Reads) /\ ses.written # <<>>
  BY TypesNow, ServerFields, Zenon DEF Server
<1>2. PICK w \in Reads : w \in Range(ses.written)
  BY <1>1, Ranges, Zenon
<1>3. set.layout[w] = ses.part /\ ses.part \notin snd.failed
  BY <1>2, TakenMember, Zenon DEF Server, Good
<1>4. Range(ses.written) \subseteq {i \in Reads : set.layout[i] = ses.part}
  BY <1>1, Ranges, Zenon DEF Server
<1>5. ASSUME NEW i \in Reads, set.layout[i] = ses.part
      PROVE  i \in Range(ses.written)
  <2>1. i \in Taken
    BY <1>3, <1>5, Zenon DEF Good
  <2>2. ASSUME NEW r \in introduced, i \in Range(r.pieces)
        PROVE  FALSE
    <3>1. r.part = set.layout[i]
      BY <2>2, Zenon DEF IntroducedPartsWhole, Whole
    <3> QED BY <3>1, <1>5, Zenon DEF Server
  <2> QED BY <2>1, <2>2, TakenMember, Zenon
<1>6. Range(ses.written) = {i \in Reads : set.layout[i] = ses.part}
  BY <1>4, <1>5, Zenon
<1>7. Increasing(ses.written)
  BY Zenon DEF Server
<1> HIDE DEF x
<1>8. Whole(x)
  BY <1>0, <1>6, <1>7, Zenon DEF Whole, Increasing
<1> QED BY <1>8 DEF x

\* Whether a part is whole depends on the setting only.
LEMMA WholeNext ==
    ASSUME TypeOK, set' = set, IntroducedPartsWhole,
           introduced' = introduced \/ (introduced' = FinishSync /\
               (ses.part # 0 => Whole([part |-> ses.part, pieces |-> ses.written])))
    PROVE  IntroducedPartsWhole'
<1>1. ASSUME NEW r, Whole(r) PROVE Whole(r)'
  BY <1>1, SameTypes, Zenon DEF Whole
<1>2. \A r \in introduced' : Whole(r)
  BY Zenon DEF IntroducedPartsWhole, FinishSync
<1> QED BY <1>1, <1>2, Zenon DEF IntroducedPartsWhole

Holds == IInv /\ rpc = "serving"

\* The parts of the invariant while the server serves.
LEMMA HoldsParts ==
    ASSUME Holds
    PROVE  /\ TypeOK /\ IntroducedPartsWhole /\ Server /\ rpc = "serving"
           /\ ~set.anyOrder => Turns
           /\ set.anyOrder => AnyOrder
    BY Zenon DEF Holds, IInv

\* A chunk of the client of this repository, as the server receives it.
LEMMA AskedChunk ==
    ASSUME Holds, ~set.anyOrder, up # <<>>, Req.kind = "chunk"
    PROVE  /\ Asks
           /\ Req.index = snd.index /\ Req.pieces = snd.buf /\ Tail(up) = <<>>
           /\ Req.first <=> snd.index = 0
           /\ Req.corrupt => set.corrupts
<1>1. Turns
  BY HoldsParts, Zenon
<1>2. ~Completes
  BY DEF Completes, Completion, Req
<1>3. Asks
  BY <1>1, <1>2, Zenon DEF Turns, Fills, Writes, Accepts, Refuses, Ends
<1>4. PICK c \in BOOLEAN : (c => set.corrupts) /\ up = <<Chunk(snd.index, snd.buf, snd.index = 0, c)>>
  BY <1>3, Zenon DEF Asks
<1>5. Req = Chunk(snd.index, snd.buf, snd.index = 0, c) /\ Tail(up) = <<>>
  BY <1>4 DEF Req
<1> DEFINE f == snd.index = 0
<1>6. f \in BOOLEAN /\ Req = Chunk(snd.index, snd.buf, f, c)
  BY <1>5
<1> HIDE DEF f
<1>7. /\ Req.index = snd.index /\ Req.pieces = snd.buf /\ (Req.first <=> f) /\ (Req.corrupt <=> c)
  <2> DEFINE q == Chunk(snd.index, snd.buf, f, c)
  <2>1. /\ q.index = snd.index /\ q.pieces = snd.buf /\ (q.first <=> f) /\ (q.corrupt <=> c)
    BY Zenon DEF Chunk
  <2> HIDE DEF q
  <2> QED BY <2>1, <1>6 DEF q
<1> QED BY <1>3, <1>4, <1>5, <1>7, Zenon DEF f

\* The metadata comes with a chunk only while the server has nothing of the session:
\* startOrSwitchSession never drops data.
LEMMA ReceiveSame ==
    ASSUME Holds, Receives
    PROVE  Session(Req) = ses /\ Switched(Req) = introduced
<1>0. TypeOK /\ Server /\ ses \in Sessions /\ up # <<>> /\ Req.kind = "chunk"
  BY HoldsParts, TypesNow, Zenon DEF Receives
<1>1. ASSUME Req.first PROVE ses = NewSession
  <2>1. CASE ~live
    BY <2>1, <1>0, Zenon DEF Server
  <2>2. CASE set.anyOrder
    <3>1. Req # Completion /\ up[1] = Req /\ 1 \in DOMAIN up
      BY <1>0, TypesNow DEF Completion, Req, Streams
    <3>2. AnyOrder
      BY <2>2, HoldsParts, Zenon
    <3> QED BY <1>1, <2>1, <3>1, <3>2, Zenon DEF AnyOrder, PeerStream
  <2>3. CASE ~set.anyOrder /\ live
    <3>1. Asks /\ snd.index = 0 /\ Turns
      BY <2>3, <1>0, <1>1, AskedChunk, HoldsParts, Zenon
    <3>2. Taken = {} /\ ses.expected = 0 /\ ses.chunks = {}
      BY <2>3, <3>1, Zenon DEF Asks, Level, Turns, Buffer
    <3>3. ses.written \in Seq(Reads)
      BY <1>0, ServerFields, Zenon
    <3>4. ses.written = <<>>
      BY <3>2, <3>3, TakenMember, Ranges, Zenon
    <3>5. ses.part = 0
      BY <3>4, <1>0, Zenon DEF Server
    <3> QED BY <3>2, <3>4, <3>5, <1>0 DEF Sessions, NewSession
  <2> QED BY <2>1, <2>2, <2>3
<1>2. Req.first => ses.part = 0
  BY <1>1 DEF NewSession
<1> QED BY <1>1, <1>2, Zenon DEF Session, Switched, FinishSync

\* The piece the server is about to write is the next one of the session.
LEMMA PieceNext ==
    ASSUME Holds, Writing
    PROVE  /\ Piece \in Reads /\ Good(Piece)
           /\ \A i \in Taken : i < Piece
           /\ \A j \in Reads : (j < Piece /\ Good(j)) => j \in Taken
<1>0. /\ TypeOK /\ Server /\ set \in Settings /\ snd \in Senders /\ job \in Jobs
      /\ job.on /\ ~job.req.corrupt
      /\ job.req.pieces \in Seq(Reads) /\ job.at \in 1 .. Len(job.req.pieces)
  <2>1. TypeOK /\ Server /\ set \in Settings /\ snd \in Senders /\ job \in Jobs
    BY HoldsParts, TypesNow, Zenon
  <2>2. job.req.pieces \in Seq(Reads) /\ job.at \in Nat \ {0}
    BY <2>1, ServerFields, Zenon
  <2> QED BY <2>1, <2>2 DEF Writing
<1>1. Reads \subseteq Nat /\ Piece \in Reads
  <2>1. Reads \subseteq Nat
    BY <1>0, SettingFacts
  <2> QED BY <1>0, <2>1 DEF Piece
<1>2. CASE ~set.anyOrder
  <2>1. Buffer /\ Writes
    <3>1. Turns
      BY <1>2, HoldsParts, Zenon
    <3> QED BY <3>1, <1>0, Zenon DEF Turns, Fills, Asks, Accepts, Refuses, Completes, Ends
  <2>2. /\ job.req.pieces = snd.buf /\ Taken = Sent \cup Begun
        /\ Increasing(snd.buf) /\ snd.cursor \in Nat
        /\ \A b \in Range(snd.buf) : b < snd.cursor /\ Good(b) /\ \A i \in Sent : i < b
    BY <2>1, <1>0, SenderFields, Zenon DEF Writes, Buffer
  <2>3. Piece \in Range(snd.buf)
    BY <1>0, <2>2 DEF Piece, Range
  <2>4. \A i \in Begun : i < Piece
    BY <1>0, <2>2 DEF Begun, Piece, Increasing
  <2>5. ASSUME NEW j \in Reads, j < Piece, Good(j) PROVE j \in Taken
    <3>1. CASE j \in Range(snd.buf)
      <4>1. PICK m \in DOMAIN snd.buf : snd.buf[m] = j
        BY <3>1 DEF Range
      <4>2. m \in 1 .. job.at - 1
        <5>1. m \in 1 .. Len(snd.buf) /\ job.at \in 1 .. Len(snd.buf) /\ snd.buf[job.at] = Piece
          BY <4>1, <1>0, <2>2 DEF Piece
        <5>2. job.at < m => Piece < j
          <6>1. job.at \in DOMAIN snd.buf
            BY <5>1, <1>0, <2>2
          <6> QED BY <6>1, <5>1, <4>1, <2>2, Zenon DEF Increasing
        <5>3. j \in Nat /\ Piece \in Nat /\ Len(snd.buf) \in Nat
          BY <1>0, <1>1, <2>2
        <5> QED BY <5>1, <5>2, <5>3, <4>1, <2>5
      <4> QED BY <4>1, <4>2, <2>2 DEF Begun
    <3>2. CASE j \notin Range(snd.buf)
      <4>1. j < snd.cursor
        BY <2>2, <2>3, <2>5, <1>1
      <4> QED BY <4>1, <3>2, <2>5, <2>2, Zenon DEF Sent
    <3> QED BY <3>1, <3>2
  <2> QED BY <1>1, <2>2, <2>3, <2>4, <2>5, Zenon
<1>3. CASE set.anyOrder
  <2>1. AnyOrder
    BY <1>3, HoldsParts, Zenon
  <2> DEFINE b == ses.expected * set.chunk
  <2>2. /\ snd.failed = {} /\ Taken = {i \in Reads : i <= b} \cup Begun
        /\ ses.expected \in Chunks /\ job.req.pieces = PiecesIn(ses.expected)
    BY <2>1, <1>0, Zenon DEF AnyOrder, PeerWritten, Asked, Server
  <2>3. /\ b \in Nat
        /\ \A m \in 1 .. Len(job.req.pieces) : job.req.pieces[m] = b + m
    BY <2>2, <1>0, PeerChunk, Zenon
  <2> HIDE DEF b
  <2>4. Piece = b + job.at
    BY <2>3, <1>0 DEF Piece
  <2>5. Begun = {b + m : m \in 1 .. job.at - 1}
    <3>1. \A m \in 1 .. job.at - 1 : m \in 1 .. Len(job.req.pieces)
      BY <1>0
    <3> QED BY <2>3, <3>1, Zenon DEF Begun
  <2>6. \A i \in Taken : i < Piece
    BY <2>2, <2>3, <2>4, <2>5, <1>0, <1>1
  <2>7. ASSUME NEW j \in Reads, j < Piece PROVE j \in Taken
    <3>1. CASE j <= b
      BY <3>1, <2>2
    <3>2. CASE j > b
      <4>1. j - b \in 1 .. job.at - 1 /\ j = b + (j - b)
        BY <3>2, <2>7, <2>3, <2>4, <1>0, <1>1
      <4> QED BY <4>1, <2>2, <2>5, Zenon
    <3> QED BY <3>1, <3>2, <1>1, <2>3
  <2>8. Good(Piece)
    BY <2>2 DEF Good
  <2> QED BY <1>1, <2>6, <2>7, <2>8, Zenon
<1> QED BY <1>2, <1>3

\* The parts follow each other in the layout.
LEMMA LayoutFacts ==
    ASSUME set \in Settings
    PROVE  /\ Reads \subseteq Nat /\ \A j \in Reads : set.layout[j] \in Nat
           /\ \A j, k \in Reads : j <= k => set.layout[j] <= set.layout[k]
    BY SettingFacts

\* When the next piece is of another part, nothing is missing of the part being written:
\* the files of a part follow each other.
LEMMA PartFinished ==
    ASSUME Holds, Writing, ses.part # set.layout[Piece], ses.part # 0
    PROVE  Whole([part |-> ses.part, pieces |-> ses.written])
<1>0. /\ TypeOK /\ Server /\ IntroducedPartsWhole /\ set \in Settings
      /\ ses.written \in Seq(Reads) /\ ses.written # <<>>
  BY HoldsParts, TypesNow, ServerFields, Zenon DEF Server
<1>1. PICK w \in Reads : w \in Range(ses.written)
  BY <1>0, Ranges, Zenon
<1>2. set.layout[w] = ses.part /\ w \in Taken
  BY <1>0, <1>1, TakenMember, Zenon DEF Server
<1>3. Piece \in Reads /\ w < Piece
  BY <1>2, PieceNext, Zenon
<1>4. ASSUME NEW i \in Reads, set.layout[i] = ses.part, Good(i) PROVE i \in Taken
  <2>1. /\ Reads \subseteq Nat /\ \A j \in Reads : set.layout[j] \in Nat
        /\ \A j, k \in Reads : j <= k => set.layout[j] <= set.layout[k]
    BY <1>0, LayoutFacts, Zenon
  <2>2. i < Piece
    <3>1. w <= Piece /\ (i < Piece \/ Piece <= i)
      BY <2>1, <1>3, <1>4
    <3>2. ses.part <= set.layout[Piece] /\ (Piece <= i => set.layout[Piece] <= ses.part)
      BY <2>1, <3>1, <1>2, <1>3, <1>4, Zenon
    <3>3. ses.part \in Nat /\ set.layout[Piece] \in Nat
      BY <2>1, <1>2, <1>3, Zenon
    <3> QED BY <3>1, <3>2, <3>3
  <2> QED BY <2>2, <1>4, PieceNext, Zenon
<1> QED BY <1>0, <1>4, FinishWhole, Zenon

\* WritePiece adds the piece to what the server has, of the session and of the chunk.
LEMMA PieceTaken ==
    ASSUME Holds, WritePiece
    PROVE  Taken' = Taken \cup {Piece} /\ Begun' = Begun \cup {Piece}
<1>0. /\ TypeOK /\ Server /\ ses \in Sessions /\ job \in Jobs /\ ses.written \in Seq(Reads)
      /\ job.at \in Nat \ {0} /\ Writing /\ ses.part \in Parts \cup {0}
  BY HoldsParts, TypesNow, ServerFields, Zenon DEF WritePiece
<1>1. Piece \in Reads
  BY <1>0, PieceNext, Zenon
<1>2. Begun' = Begun \cup {Piece}
  <2>1. job'.req = job.req /\ job'.at = job.at + 1
    BY <1>0 DEF WritePiece, Jobs
  <2> DEFINE S == job'.req.pieces
  <2>2. Begun' = {job.req.pieces[m] : m \in 1 .. job.at}
    BY <2>1, <1>0 DEF Begun
  <2>3. \A m : m \in 1 .. job.at <=> m \in 1 .. job.at - 1 \/ m = job.at
    BY <1>0
  <2> QED BY <2>2, <2>3, Zenon DEF Begun, Piece
<1>3. CASE ses.part = set.layout[Piece]
  <2>1. ses'.written = Append(ses.written, Piece) /\ introduced' = introduced
    BY <1>3, <1>0 DEF WritePiece, Sessions
  <2>2. Range(ses'.written) = Range(ses.written) \cup {Piece}
    BY <2>1, <1>0, <1>1, Ranges, Zenon
  <2> QED BY <1>2, <2>1, <2>2, Zenon DEF Taken
<1>4. CASE ses.part # set.layout[Piece]
  <2>1. ses'.written = <<Piece>> /\ introduced' = FinishSync
    BY <1>4, <1>0, Zenon DEF WritePiece, Sessions
  <2>2. Range(ses'.written) = {Piece}
    BY <2>1, <1>1, Ranges, Zenon
  <2>3. CASE ses.part = 0
    <3>1. Range(ses.written) = {} /\ introduced' = introduced
      BY <2>1, <2>3, <1>0, Ranges, Zenon DEF Server, FinishSync
    <3> QED BY <3>1, <2>2, <1>2, Zenon DEF Taken
  <2>4. CASE ses.part # 0
    <3> DEFINE x == [part |-> ses.part, pieces |-> ses.written]
    <3>1. introduced' = introduced \cup {x} /\ x.pieces = ses.written
      BY <2>1, <2>4 DEF FinishSync
    <3> HIDE DEF x
    <3> QED BY <3>1, <2>2, <1>2, Zenon DEF Taken
  <2> QED BY <2>3, <2>4
<1> QED BY <1>3, <1>4

\* A step of the client leaves what is known of the server.
LEMMA ServerKept ==
    ASSUME Server, UNCHANGED <<set, live, ses, job, introduced>>, \A i \in Taken : Good(i)'
    PROVE  Server'
<1>1. Taken' = Taken
  BY Zenon DEF Taken
<1>2. Increasing(ses.written)'
  BY Zenon DEF Server, Increasing
<1>3. (\A i \in Taken : Good(i))'
  BY <1>1, Zenon
<1> QED BY <1>2, <1>3, Zenon DEF Server

\* So does a step of the server that writes nothing.
LEMMA ServerServes ==
    ASSUME TypeOK, TypeOK', Server, set' = set, snd' = snd, introduced' = introduced, live' = TRUE,
           ses'.written = ses.written, ses'.part = ses.part,
           \/ job' = Idle
           \/ /\ job'.on /\ job'.at = 1 /\ job'.req.index = ses'.expected
    PROVE  Server'
<1>1. Taken' = Taken
  BY TakenSame, Zenon
<1>2. Increasing(ses.written)'
  BY Zenon DEF Server, Increasing
<1>3. (\A i \in Taken : Good(i))'
  BY <1>1, Zenon DEF Server, Good
<1>4. (\A i \in Range(ses.written) : set.layout[i] = ses.part)' /\ (\A r \in introduced : r.part # ses.part)'
  BY Zenon DEF Server
<1>5. ~Idle.on
  BY DEF Idle
<1>6. ((ses.part = 0) <=> (ses.written = <<>>))'
  BY Zenon DEF Server
<1>7. (~live => ses = NewSession /\ ~job.on /\ introduced = {})' /\ (~job.on => job = Idle)'
  BY Zenon
<1>8. (job.on => job.at \in 1 .. Len(job.req.pieces) + 1 /\ (job.req.corrupt => job.at = 1))'
  <2>1. CASE job' = Idle
    BY <2>1, <1>5, Zenon
  <2>2. CASE job'.at = 1
    <3>1. job' \in Jobs
      BY SameTypes, Zenon DEF TypeOK
    <3>a. job'.req.pieces \in Seq(Reads)
      BY <3>1, ServerFields, Zenon
    <3>2. 1 \in 1 .. Len(job'.req.pieces) + 1
      BY <3>a
    <3> QED BY <2>2, <3>2
  <2> QED BY <2>1, <2>2
<1> QED BY <1>2, <1>3, <1>4, <1>5, <1>6, <1>7, <1>8, Zenon DEF Server

\* WritePiece keeps what is known of the server.
LEMMA ServerWrites ==
    ASSUME Holds, WritePiece
    PROVE  Server'
<1>0. /\ TypeOK /\ Server /\ IntroducedPartsWhole /\ set \in Settings
      /\ ses \in Sessions /\ job \in Jobs /\ ses.written \in Seq(Reads) /\ Writing
      /\ job.req.pieces \in Seq(Reads) /\ job.at \in Nat \ {0}
      /\ ses.part \in Parts \cup {0}
  BY HoldsParts, TypesNow, ServerFields, Zenon DEF WritePiece
<1>1. /\ Piece \in Reads /\ Good(Piece) /\ \A i \in Taken : i < Piece
      /\ Reads \subseteq Nat /\ set.layout[Piece] \in Nat \ {0}
  BY <1>0, PieceNext, SettingFacts, LayoutFacts, Zenon
<1>2. set' = set /\ snd' = snd /\ live' = live /\ job' = [job EXCEPT !.at = @ + 1]
  BY Zenon DEF WritePiece, client
<1>3. /\ job'.on = job.on /\ job'.req = job.req /\ job'.at = job.at + 1
      /\ ses'.expected = ses.expected /\ job.on /\ live
  <2>1. job'.on = job.on /\ job'.req = job.req /\ job'.at = job.at + 1
    BY <1>0, <1>2 DEF Jobs
  <2>2. ses'.expected = ses.expected
    BY <1>0, Zenon DEF WritePiece, Sessions
  <2> QED BY <2>1, <2>2, <1>0, Zenon DEF Server, Writing
<1>4. (job.on => /\ live
                 /\ job.req.index = ses.expected
                 /\ job.at \in 1 .. Len(job.req.pieces) + 1
                 /\ job.req.corrupt => job.at = 1)'
  <2>1. job.at + 1 \in 1 .. Len(job.req.pieces) + 1 /\ ~job.req.corrupt
    BY <1>0 DEF Writing
  <2>2. job.req.index = ses.expected
    BY <1>0, <1>3, Zenon DEF Server
  <2> QED BY <2>1, <2>2, <1>2, <1>3
<1>5. (\A i \in Taken : Good(i))'
  BY <1>0, <1>1, <1>2, PieceTaken, Zenon DEF Server, Good
<1>6. /\ ses'.written # <<>> /\ ses'.part = set.layout[Piece]
      /\ \A i \in Range(ses'.written) : set.layout[i] = ses'.part
      /\ Increasing(ses'.written)
      /\ \A r \in introduced' : r.part # ses'.part
  <2>0. \A j \in Range(ses.written) : j < Piece
    BY <1>1, TakenMember, Zenon
  <2>1. CASE ses.part = set.layout[Piece]
    <3>1. ses'.written = Append(ses.written, Piece) /\ ses'.part = ses.part /\ introduced' = introduced
      BY <2>1, <1>0 DEF WritePiece, Sessions
    <3>2. Range(ses'.written) = Range(ses.written) \cup {Piece}
      BY <3>1, <1>0, <1>1, Ranges, Zenon
    <3>3. ses'.written # <<>>
      BY <3>1, <1>0, <1>1
    <3>4. Increasing(ses'.written)
      BY <3>1, <1>0, <1>1, <2>0, Grows, Zenon DEF Server
    <3> QED BY <2>1, <3>1, <3>2, <3>3, <3>4, <1>0, Zenon DEF Server
  <2>2. CASE ses.part # set.layout[Piece]
    <3>1. ses'.written = <<Piece>> /\ ses'.part = set.layout[Piece] /\ introduced' = FinishSync
      BY <2>2, <1>0, Zenon DEF WritePiece, Sessions
    <3>2. Range(ses'.written) = {Piece}
      BY <3>1, <1>1, Ranges, Zenon
    <3>3. ses'.written # <<>>
      BY <3>1
    <3>4. Increasing(ses'.written)
      BY <3>1, <1>1 DEF Increasing
    <3>5. ASSUME NEW r \in introduced PROVE r.part # set.layout[Piece]
      <4>1. r.part = set.layout[Piece] => Piece \in Range(r.pieces)
        BY <1>0, <1>1, Zenon DEF IntroducedPartsWhole, Whole
      <4>2. Piece \in Range(r.pieces) => Piece < Piece
        BY <1>1, TakenMember, Zenon
      <4> QED BY <4>1, <4>2, <1>1
    <3>6. \A r \in FinishSync : r.part # set.layout[Piece]
      BY <3>5, <2>2 DEF FinishSync
    <3> QED BY <3>1, <3>2, <3>3, <3>4, <3>6, Zenon
  <2> QED BY <2>1, <2>2
<1>7. ses'.part # 0
  BY <1>1, <1>6
<1>8. Increasing(ses.written)'
  BY <1>6, Zenon DEF Increasing
<1> QED BY <1>2, <1>3, <1>4, <1>5, <1>6, <1>7, <1>8, Zenon DEF Server

\* FinishSync at the completion: every part that did not fail is introduced.
LEMMA LastPart ==
    ASSUME Holds, \A i \in Reads : Good(i) => i \in Taken
    PROVE  /\ ses.part # 0 => Whole([part |-> ses.part, pieces |-> ses.written])
           /\ \A p \in Parts \ snd.failed : \E r \in FinishSync : r.part = p
<1>0. TypeOK /\ Server /\ IntroducedPartsWhole
  BY HoldsParts, Zenon
<1>1. ses.part # 0 => Whole([part |-> ses.part, pieces |-> ses.written])
  BY <1>0, FinishWhole, Zenon
<1>2. ASSUME NEW p \in Parts \ snd.failed
      PROVE  \E r \in FinishSync : r.part = p
  <2>1. PICK i \in Reads : set.layout[i] = p
    BY Zenon DEF Parts
  <2>2. i \in Taken
    BY <2>1, Zenon DEF Good
  <2>3. CASE i \in Range(ses.written)
    <3>1. ses.part = p
      BY <2>1, <2>3, <1>0, Zenon DEF Server
    <3>2. ses.part # 0
      <4>1. ses.written # <<>>
        BY <2>3, Ranges, Zenon
      <4> QED BY <4>1, <1>0, Zenon DEF Server
    <3> DEFINE x == [part |-> ses.part, pieces |-> ses.written]
    <3>3. x.part = p /\ x \in FinishSync
      BY <3>1, <3>2 DEF FinishSync
    <3> QED BY <3>3, Zenon
  <2>4. ASSUME NEW r \in introduced, i \in Range(r.pieces) PROVE r.part = p /\ r \in FinishSync
    <3>1. r.part = p
      BY <2>1, <2>4, <1>0, Zenon DEF IntroducedPartsWhole, Whole
    <3> QED BY <3>1, <2>4, Zenon DEF FinishSync
  <2> QED BY <2>2, <2>3, <2>4, TakenMember, Zenon
<1> QED BY <1>1, <1>2, Zenon

----------------------------------------------------------------------------
(* The client of this repository *)

\* Where the client is, apart from its program counter and its retries.
Place(s) == <<s.cursor, s.buf, s.failed, s.index>>

\* A change of the program counter or of the retries.
LEMMA PlaceKept ==
    ASSUME NEW s \in Senders, NEW x, NEW y
    PROVE  /\ Place([s EXCEPT !.pc = x]) = Place(s) /\ [s EXCEPT !.pc = x].pc = x
           /\ Place([s EXCEPT !.pc = x, !.retry = y]) = Place(s) /\ [s EXCEPT !.pc = x, !.retry = y].pc = x
    BY DEF Place, Senders

\* What the client has sent and holds in its buffer depends on its place.
LEMMA BufferKept ==
    ASSUME set' = set, Place(snd') = Place(snd), ses'.chunks = ses.chunks, Buffer
    PROVE  Buffer' /\ Sent' = Sent /\ \A i : Good(i)' <=> Good(i)
<1>1. snd'.cursor = snd.cursor /\ snd'.buf = snd.buf /\ snd'.failed = snd.failed /\ snd'.index = snd.index
  BY DEF Place
<1>2. Sent' = Sent /\ \A i : Good(i)' <=> Good(i)
  BY <1>1, SentSame, Zenon
<1>3. Increasing(snd.buf)'
  BY <1>1, Zenon DEF Buffer, Increasing
<1>4. (\A b \in Range(snd.buf) : b < snd.cursor /\ Good(b) /\ \A i \in Sent : i < b)'
  BY <1>1, <1>2, Zenon DEF Buffer
<1>5. (snd.index = 0 => Sent = {})' /\ (ses.chunks = {})'
  BY <1>1, <1>2, Zenon DEF Buffer
<1> QED BY <1>2, <1>3, <1>4, <1>5, Zenon DEF Buffer

\* Level depends on the place and on the server.
LEMMA LevelKept ==
    ASSUME Level, Taken' = Taken, Sent' = Sent, snd'.index = snd.index, live' = live,
           ses'.expected = ses.expected
    PROVE  Level'
    BY Zenon DEF Level

\* One more read in the buffer: what was sent stays.
LEMMA TurnsRead ==
    ASSUME Holds, ~set.anyOrder, ReadPiece
    PROVE  Turns'
<1>0. /\ TypeOK /\ set \in Settings /\ snd \in Senders /\ Turns /\ Reads \subseteq Nat
      /\ snd.buf \in Seq(Reads) /\ snd.cursor \in Nat /\ snd.index \in Nat
  BY HoldsParts, TypesNow, SenderFields, LayoutFacts, Zenon
<1>1. Buffer /\ Fills
  BY <1>0, Zenon DEF Turns, ReadPiece, Reading, Asks, Writes, Accepts, Refuses, Completes, Ends
<1>2. PICK i \in Reads : NextRead(i) /\ snd' = [snd EXCEPT !.cursor = i + 1, !.buf = Append(@, i)]
  BY Zenon DEF ReadPiece
<1>3. /\ snd'.cursor = i + 1 /\ snd'.buf = Append(snd.buf, i) /\ snd'.failed = snd.failed
      /\ snd'.index = snd.index /\ snd'.pc = snd.pc
  BY <1>0, <1>2 DEF Senders
<1>4. /\ i >= snd.cursor /\ Good(i)
      /\ \A j \in Reads : (snd.cursor <= j /\ j < i) => ~Good(j)
  <2>1. i \in Pending /\ \A j \in Pending : i <= j
    BY <1>2, Zenon DEF NextRead
  <2>2. \A j \in Reads : (snd.cursor <= j /\ Good(j)) => j \in Pending
    BY <1>0, SettingFacts DEF Pending, Good
  <2>3. i >= snd.cursor /\ Good(i)
    BY <2>1, <1>0 DEF Pending, Good
  <2> QED BY <2>1, <2>2, <2>3, <1>0
<1>5. set' = set /\ UNCHANGED <<up, down, live, ses, job, introduced>>
  BY Zenon DEF ReadPiece, server
<1>6. Reads' = Reads /\ \A j : Good(j)' <=> Good(j)
  BY <1>5, <1>3, SameTypes, Zenon DEF Good
<1>7. Range(snd'.buf) = Range(snd.buf) \cup {i}
  BY <1>0, <1>3, Ranges, Zenon
<1>8. \A b \in Range(snd.buf) : b \in Reads /\ b < snd.cursor /\ Good(b) /\ \A j \in Sent : j < b
  BY <1>0, <1>1, Ranges, Zenon DEF Buffer
<1>9. Sent' = Sent
  <2>1. ASSUME NEW j \in Reads
        PROVE  (j < i + 1 /\ Good(j) /\ j \notin Range(snd.buf) \cup {i}) <=>
               (j < snd.cursor /\ Good(j) /\ j \notin Range(snd.buf))
    BY <1>0, <1>4
  <2>2. Sent' = {j \in Reads : j < i + 1 /\ Good(j)} \ (Range(snd.buf) \cup {i})
    BY <1>3, <1>6, <1>7, Zenon DEF Sent
  <2> QED BY <2>1, <2>2, Zenon DEF Sent
<1>10. ASSUME NEW b \in Range(snd.buf) PROVE b < i + 1 /\ b < i
  <2>1. b \in Reads /\ b < snd.cursor
    BY <1>8, Zenon
  <2>2. i \in Nat /\ b \in Nat /\ snd.cursor \in Nat /\ i >= snd.cursor
    BY <2>1, <1>0, <1>4, Zenon
  <2> QED BY <2>1, <2>2
<1>11. \A j \in Sent : j < i
  BY <1>0, <1>4 DEF Sent
<1>12. Increasing(snd'.buf)
  BY <1>0, <1>1, <1>3, <1>10, Grows, Zenon DEF Buffer
<1>13. \A b \in Range(snd'.buf) : b < i + 1 /\ Good(b) /\ \A j \in Sent : j < b
  <2>1. i < i + 1
    BY <1>0
  <2> QED BY <2>1, <1>4, <1>7, <1>8, <1>10, <1>11, Zenon
<1>14. Buffer'
  <2>1. Increasing(snd.buf)'
    BY <1>12, Zenon DEF Increasing
  <2>2. (\A b \in Range(snd.buf) : b < snd.cursor /\ Good(b) /\ \A j \in Sent : j < b)'
    BY <1>13, <1>3, <1>6, <1>9, Zenon
  <2>3. (snd.index = 0 => Sent = {})' /\ (ses.chunks = {})'
    BY <1>1, <1>3, <1>5, <1>9, Zenon DEF Buffer
  <2> QED BY <2>1, <2>2, <2>3, Zenon DEF Buffer
<1>15. Taken' = Taken
  BY <1>5, TakenSame, Zenon
<1>16. Fills'
  <2>1. Level'
    BY <1>1, <1>3, <1>5, <1>9, <1>15, LevelKept, Zenon DEF Fills
  <2> QED BY <2>1, <1>1, <1>3, <1>5, Zenon DEF Fills
<1> QED BY <1>14, <1>16, Zenon DEF Turns

\* A read that fails while its part is alone: nothing of it was sent, and what the buffer
\* loses is of the part alone.
LEMMA TurnsFail ==
    ASSUME Holds, Undisturbed, ~set.anyOrder, ReadFail
    PROVE  Turns' /\ \A j \in Taken : Good(j)'
<1>0. /\ TypeOK /\ set \in Settings /\ snd \in Senders /\ Turns /\ Reads \subseteq Nat
      /\ snd.buf \in Seq(Reads) /\ snd.cursor \in Nat /\ snd.index \in Nat
  BY HoldsParts, TypesNow, SenderFields, LayoutFacts, Zenon
<1>1. Buffer /\ Fills
  BY <1>0, Zenon DEF Turns, ReadFail, Reading, Asks, Writes, Accepts, Refuses, Completes, Ends
<1>2. PICK i \in Reads :
         /\ NextRead(i) /\ set.layout[i] \in set.faulty
         /\ snd' = [snd EXCEPT !.cursor = i + 1, !.failed = @ \cup {set.layout[i]},
                               !.buf = IF Buffered(set.layout[i]) THEN <<>> ELSE @]
  BY Zenon DEF ReadFail
<1> DEFINE p == set.layout[i]
<1>3. /\ snd'.cursor = i + 1 /\ snd'.failed = snd.failed \cup {p}
      /\ snd'.buf = (IF Buffered(p) THEN <<>> ELSE snd.buf)
      /\ snd'.index = snd.index /\ snd'.pc = snd.pc
  BY <1>0, <1>2 DEF Senders
<1>a. /\ Buffered(p) => \A j \in Range(snd.buf) : set.layout[j] = p
      /\ \A j \in Reads : (j < i /\ set.layout[j] = p) => j \in Range(snd.buf)
  BY <1>2, Zenon DEF Undisturbed, FailsAlone, ReadFail
<1>b. ~Buffered(p) => \A j \in Range(snd.buf) : set.layout[j] # p
  BY Zenon DEF Buffered
<1> HIDE DEF p
<1>4. /\ i >= snd.cursor /\ Good(i)
      /\ \A j \in Reads : (snd.cursor <= j /\ j < i) => ~Good(j)
  <2>1. i \in Pending /\ \A j \in Pending : i <= j
    BY <1>2, Zenon DEF NextRead
  <2>2. \A j \in Reads : (snd.cursor <= j /\ Good(j)) => j \in Pending
    BY <1>0, SettingFacts DEF Pending, Good
  <2>3. i >= snd.cursor /\ Good(i)
    BY <2>1, <1>0 DEF Pending, Good
  <2> QED BY <2>1, <2>2, <2>3, <1>0
<1>5. set' = set /\ UNCHANGED <<up, down, live, ses, job, introduced>>
  BY Zenon DEF ReadFail, server
<1>6. Reads' = Reads /\ \A j : Good(j)' <=> Good(j) /\ set.layout[j] # p
  BY <1>5, <1>3, SameTypes, Zenon DEF Good
<1>7. Range(snd'.buf) \subseteq Range(snd.buf) /\ \A j \in Range(snd'.buf) : set.layout[j] # p
  BY <1>3, <1>b, Ranges, Zenon
<1>8. \A b \in Range(snd.buf) : b \in Reads /\ b < snd.cursor /\ Good(b) /\ \A j \in Sent : j < b
  BY <1>0, <1>1, Ranges, Zenon DEF Buffer
<1>9. Sent' = Sent
  <2>1. Sent' = {j \in Reads : j < i + 1 /\ Good(j) /\ set.layout[j] # p} \ Range(snd'.buf)
    BY <1>3, <1>6, Zenon DEF Sent
  <2>2. ASSUME NEW j \in Reads, j < i + 1, Good(j), set.layout[j] # p, j \notin Range(snd'.buf)
        PROVE  j < snd.cursor /\ j \notin Range(snd.buf)
    <3>1. j # i
      BY <2>2 DEF p
    <3>2. j < snd.cursor
      BY <3>1, <2>2, <1>0, <1>4
    <3>3. j \notin Range(snd.buf)
      BY <2>2, <1>3, <1>a, Zenon
    <3> QED BY <3>2, <3>3
  <2>3. ASSUME NEW j \in Reads, j < snd.cursor, Good(j), j \notin Range(snd.buf)
        PROVE  j < i + 1 /\ set.layout[j] # p /\ j \notin Range(snd'.buf)
    <3>1. j < i + 1 /\ j < i
      BY <2>3, <1>0, <1>4
    <3> QED BY <3>1, <2>3, <1>a, <1>7, Zenon
  <2>4. Sent = {j \in Reads : j < snd.cursor /\ Good(j)} \ Range(snd.buf)
    BY DEF Sent
  <2> QED BY <2>1, <2>2, <2>3, <2>4, Zenon
<1>10. ASSUME NEW b \in Range(snd.buf) PROVE b < i + 1
  <2>1. b \in Reads /\ b < snd.cursor
    BY <1>8, Zenon
  <2>2. i \in Nat /\ b \in Nat /\ snd.cursor \in Nat /\ i >= snd.cursor
    BY <2>1, <1>0, <1>4, Zenon
  <2> QED BY <2>1, <2>2
<1>11. Buffer'
  <2>1. Increasing(snd.buf)'
    <3>1. Increasing(<<>>)
      BY DEF Increasing
    <3>2. Increasing(snd'.buf)
      BY <3>1, <1>1, <1>3, Zenon DEF Buffer
    <3> QED BY <3>2, Zenon DEF Increasing
  <2>2. (\A b \in Range(snd.buf) : b < snd.cursor /\ Good(b) /\ \A j \in Sent : j < b)'
    BY <1>3, <1>6, <1>7, <1>8, <1>9, <1>10, Zenon
  <2>3. (snd.index = 0 => Sent = {})' /\ (ses.chunks = {})'
    BY <1>1, <1>3, <1>5, <1>9, Zenon DEF Buffer
  <2> QED BY <2>1, <2>2, <2>3, Zenon DEF Buffer
<1>12. Taken' = Taken
  BY <1>5, TakenSame, Zenon
<1>13. Fills'
  <2>1. Level'
    BY <1>1, <1>3, <1>5, <1>9, <1>12, LevelKept, Zenon DEF Fills
  <2> QED BY <2>1, <1>1, <1>3, <1>5, Zenon DEF Fills
<1>14. \A j \in Taken : Good(j)'
  <2>1. Taken = Sent'
    BY <1>1, <1>9, Zenon DEF Fills, Level
  <2> QED BY <2>1, Zenon DEF Sent
<1> QED BY <1>11, <1>13, <1>14, Zenon DEF Turns

\* The client sends, receives or gives up: whose turn it is then.
LEMMA TurnsClient ==
    ASSUME Holds, ~set.anyOrder,
           SendChunk \/ SendCompletion \/ RecvResponse \/ RecvFinal \/ StreamError
    PROVE  Turns'
<1>0. /\ TypeOK /\ set \in Settings /\ snd \in Senders /\ Turns /\ Reads \subseteq Nat
      /\ snd.buf \in Seq(Reads) /\ snd.cursor \in Nat /\ snd.index \in Nat /\ rpc = "serving"
      /\ down \in Answers
  BY HoldsParts, TypesNow, SenderFields, LayoutFacts, Zenon
<1>1. set' = set /\ UNCHANGED <<live, ses, job, introduced>>
  BY Zenon DEF SendChunk, SendCompletion, RecvResponse, RecvFinal, StreamError, server
<1>2. Taken' = Taken /\ Begun' = Begun
  BY <1>1, TakenSame, Zenon DEF Begun
<1>3. Buffer
  BY <1>0, Zenon DEF Turns
<1>4. ASSUME Place(snd') = Place(snd)
      PROVE  /\ Buffer' /\ Sent' = Sent /\ snd'.buf = snd.buf /\ snd'.index = snd.index
             /\ Level => Level'
             /\ \A i : Good(i)' <=> Good(i)
  <2>1. snd'.buf = snd.buf /\ snd'.index = snd.index
    BY <1>4 DEF Place
  <2>2. Buffer' /\ Sent' = Sent /\ \A i : Good(i)' <=> Good(i)
    BY <1>1, <1>3, <1>4, BufferKept, Zenon
  <2> QED BY <2>1, <2>2, <1>1, <1>2, LevelKept, Zenon
<1>5. CASE SendChunk
  <2>1. Fills
    BY <1>0, <1>5, Zenon DEF Turns, SendChunk, Asks, Writes, Accepts, Refuses, Completes, Ends
  <2>2. Place(snd') = Place(snd) /\ snd'.pc = "wait"
    BY <1>5, <1>0, PlaceKept, Zenon DEF SendChunk
  <2>3. PICK c \in {FALSE, set.corrupts} :
           up' = Append(up, Chunk(snd.index, snd.buf, snd.index = 0, c))
    BY <1>5, Zenon DEF SendChunk, Send
  <2>4. c \in BOOLEAN /\ (c => set.corrupts)
    BY <1>0, SettingFacts, Zenon
  <2>5. up' = <<Chunk(snd.index, snd.buf, snd.index = 0, c)>>
    <3> DEFINE q == Chunk(snd.index, snd.buf, snd.index = 0, c)
    <3>1. up = <<>> /\ up' = Append(up, q)
      BY <2>1, <2>3, Zenon DEF Fills
    <3> HIDE DEF q
    <3>2. up' = <<q>>
      BY <3>1
    <3> QED BY <3>2 DEF q
  <2>6. snd'.index = snd.index /\ snd'.buf = snd.buf /\ Buffer' /\ Level'
    BY <2>1, <2>2, <1>4, Zenon DEF Fills
  <2>7. Asks'
    <3>1. down' = down /\ job' = job
      BY <1>5, <1>1, Zenon DEF SendChunk
    <3>2. (\E b \in BOOLEAN : (b => set.corrupts) /\ up = <<Chunk(snd.index, snd.buf, snd.index = 0, b)>>)'
      BY <2>4, <2>5, <2>6, <1>1, Zenon DEF Chunk
    <3> QED BY <3>1, <3>2, <2>1, <2>2, <2>6, Zenon DEF Asks, Fills
  <2> QED BY <2>6, <2>7, Zenon DEF Turns
<1>6. CASE SendCompletion
  <2>1. Fills /\ snd.buf = <<>> /\ Pending = {} /\ down' = down
    BY <1>0, <1>6, Zenon DEF Turns, SendCompletion, Asks, Writes, Accepts, Refuses, Completes, Ends
  <2>2. /\ Place(snd') = Place(snd)
        /\ snd'.pc = IF snd.index = 0 /\ snd.failed = {} THEN "ok" ELSE "final"
    BY <1>6, <1>0, PlaceKept, Zenon DEF SendCompletion
  <2>3. Buffer' /\ \A i : Good(i)' <=> Good(i)
    BY <2>2, <1>4, Zenon
  <2>4. CASE snd.index = 0
    <3>1. up' = up
      BY <2>4, <1>6 DEF SendCompletion
    <3>2. Ends'
      BY <3>1, <2>1, <2>2, <1>1, Zenon DEF Ends, Fills
    <3> QED BY <3>2, <2>3, Zenon DEF Turns
  <2>5. CASE snd.index # 0
    <3>1. snd.index > 0
      BY <2>5, <1>0
    <3>2. up' = Append(up, Completion) /\ up = <<>>
      BY <3>1, <1>6, <2>1, Zenon DEF SendCompletion, Send, Fills
    <3>3. up' = <<Completion>>
      BY <3>2
    <3>4. ASSUME NEW i \in Reads, Good(i) PROVE i \in Taken
      <4>1. i \notin Pending
        BY <2>1
      <4>2. i < snd.cursor
        BY <4>1, <3>4, <1>0, SettingFacts DEF Pending, Good
      <4>3. i \notin Range(snd.buf)
        BY <2>1, Ranges, Zenon
      <4> QED BY <4>2, <4>3, <3>4, <2>1, Zenon DEF Fills, Level, Sent
    <3>5. Reads' = Reads
      BY <1>1, SameTypes, Zenon
    <3>6. (\A i \in Reads : Good(i) => i \in Taken)'
      BY <3>4, <3>5, <2>3, <1>2, Zenon
    <3>7. live
      BY <3>1, <2>1, Zenon DEF Fills, Level
    <3>8. Completion' = Completion
      BY DEF Completion
    <3>9. Completes'
      BY <3>3, <3>6, <3>7, <3>8, <2>1, <2>2, <2>5, <1>1, Zenon DEF Completes, Fills
    <3> QED BY <3>9, <2>3, Zenon DEF Turns
  <2> QED BY <2>4, <2>5
<1>7. CASE RecvResponse
  <2>1. Accepts \/ Refuses
    BY <1>0, <1>7, Zenon DEF Turns, RecvResponse, Fills, Asks, Writes, Completes, Ends
  <2>2. /\ Len(down) = 1 /\ up = <<>> /\ ~job.on /\ live /\ up' = up /\ down' = Tail(down)
        /\ down[1] = Head(down)
    BY <2>1, <1>7, <1>0 DEF Accepts, Refuses, RecvResponse
  <2>3. down' = <<>>
    BY <2>2, <1>0 DEF Answers
  <2>4. CASE Accepts
    <3>1. snd' = [snd EXCEPT !.pc = "read", !.buf = <<>>, !.index = @ + 1, !.retry = 0]
      BY <2>2, <2>4, <1>7, Zenon DEF Accepts, RecvResponse
    <3>2. /\ snd'.pc = "read" /\ snd'.buf = <<>> /\ snd'.index = snd.index + 1
          /\ snd'.cursor = snd.cursor /\ snd'.failed = snd.failed
      BY <3>1, <1>0 DEF Senders
    <3>3. Reads' = Reads /\ \A i : Good(i)' <=> Good(i)
      BY <3>2, <1>1, SameTypes, Zenon DEF Good
    <3>4. \A b \in Range(snd.buf) : b \in Reads /\ b < snd.cursor /\ Good(b)
      BY <1>0, <1>3, Ranges, Zenon DEF Buffer
    <3>5. Sent' = Sent \cup Range(snd.buf)
      <4>1. Sent' = {i \in Reads : i < snd.cursor /\ Good(i)}
        BY <3>2, <3>3, Ranges, Zenon DEF Sent
      <4> QED BY <4>1, <3>4, Zenon DEF Sent
    <3>6. snd'.index # 0 /\ snd'.index \in Nat
      BY <3>2, <1>0
    <3>7. Buffer'
      <4>1. Increasing(snd.buf)' /\ Range(snd'.buf) = {}
        BY <3>2, Ranges DEF Increasing
      <4> QED BY <4>1, <3>6, <1>1, <1>3, Zenon DEF Buffer
    <3>8. Level'
      BY <3>2, <3>5, <2>2, <2>4, <1>1, <1>2, Zenon DEF Level, Accepts
    <3>9. Fills'
      BY <3>2, <3>8, <2>2, <2>3, <1>1, Zenon DEF Fills
    <3> QED BY <3>7, <3>9, Zenon DEF Turns
  <2>5. CASE Refuses
    <3>1. snd' = SendAgain(Head(down).status)
      <4>1. Head(down).status # "RECEIVED"
        BY <2>2, <2>5 DEF Refuses
      <4> QED BY <4>1, <1>7, Zenon DEF RecvResponse
    <3>2. Place(snd') = Place(snd) /\ (snd'.pc = "err" \/ snd'.pc = "read")
      <4>1. snd' = [snd EXCEPT !.pc = "err"] \/ snd' = [snd EXCEPT !.pc = "read", !.retry = snd.retry + 1]
        BY <3>1 DEF SendAgain
      <4>2. CASE snd' = [snd EXCEPT !.pc = "err"]
        <5>1. Place(snd') = Place(snd) /\ snd'.pc = "err"
          BY <4>2, <1>0, PlaceKept, Zenon
        <5> QED BY <5>1, Zenon
      <4>3. CASE snd' = [snd EXCEPT !.pc = "read", !.retry = snd.retry + 1]
        <5>1. Place(snd') = Place(snd) /\ snd'.pc = "read"
          BY <4>3, <1>0 DEF Place, Senders
        <5> QED BY <5>1, Zenon
      <4> QED BY <4>1, <4>2, <4>3
    <3>3. Buffer' /\ Level'
      BY <3>2, <2>5, <1>4, Zenon DEF Refuses
    <3>4. Fills' \/ Ends'
      BY <3>2, <3>3, <2>2, <2>3, <1>1, Zenon DEF Fills, Ends
    <3> QED BY <3>3, <3>4, Zenon DEF Turns
  <2> QED BY <2>1, <2>4, <2>5
<1>8. CASE RecvFinal
  <2>1. Ends /\ up' = up
    BY <1>0, <1>8, Zenon DEF Turns, RecvFinal, Fills, Asks, Writes, Accepts, Refuses, Completes
  <2>2. Place(snd') = Place(snd) /\ snd'.pc \in {"ok", "final"}
    <3>1. snd' = [snd EXCEPT !.pc = "ok"] \/ snd' = [snd EXCEPT !.pc = "final"]
      BY <1>8 DEF RecvFinal
    <3>2. CASE snd' = [snd EXCEPT !.pc = "ok"]
      <4>1. Place(snd') = Place(snd) /\ snd'.pc = "ok"
        BY <3>2, <1>0, PlaceKept, Zenon
      <4> QED BY <4>1, Zenon
    <3>3. CASE snd' = [snd EXCEPT !.pc = "final"]
      <4>1. Place(snd') = Place(snd) /\ snd'.pc = "final"
        BY <3>3, <1>0, PlaceKept, Zenon
      <4> QED BY <4>1, Zenon
    <3> QED BY <3>1, <3>2, <3>3
  <2>3. Buffer'
    BY <2>2, <1>4, Zenon
  <2>4. Ends'
    BY <2>1, <2>2, <1>1, Zenon DEF Ends
  <2> QED BY <2>3, <2>4, Zenon DEF Turns
<1>9. CASE StreamError
  <2>1. snd' = [snd EXCEPT !.pc = "err"] /\ up' = up /\ down' = down
    BY <1>9, <1>0 DEF StreamError
  <2>2. Place(snd') = Place(snd) /\ snd'.pc = "err"
    BY <2>1, <1>0, PlaceKept, Zenon
  <2>3. /\ Buffer' /\ Sent' = Sent /\ snd'.buf = snd.buf /\ snd'.index = snd.index
        /\ Level => Level'
        /\ \A i : Good(i)' <=> Good(i)
    BY <2>2, <1>4, Zenon
  <2>4. CASE Fills \/ Ends
    <3>1. Ends'
      BY <2>1, <2>2, <2>4, <1>1, Zenon DEF Fills, Ends
    <3> QED BY <3>1, <2>3, Zenon DEF Turns
  <2>5. CASE Asks
    <3>1. (\E b \in BOOLEAN : (b => set.corrupts) /\ up = <<Chunk(snd.index, snd.buf, snd.index = 0, b)>>)'
      BY <2>1, <2>3, <2>5, <1>1, Zenon DEF Asks, Chunk
    <3>2. Asks'
      BY <3>1, <2>1, <2>2, <2>3, <2>5, <1>1, Zenon DEF Asks
    <3> QED BY <3>2, <2>3, Zenon DEF Turns
  <2>6. CASE Writes
    <3>1. Writes'
      BY <2>1, <2>2, <2>3, <2>6, <1>1, <1>2, Zenon DEF Writes
    <3> QED BY <3>1, <2>3, Zenon DEF Turns
  <2>7. CASE Accepts
    <3>1. Accepts'
      BY <2>1, <2>2, <2>3, <2>7, <1>1, <1>2, Zenon DEF Accepts
    <3> QED BY <3>1, <2>3, Zenon DEF Turns
  <2>8. CASE Refuses
    <3>1. Refuses'
      BY <2>1, <2>2, <2>3, <2>8, <1>1, <1>2, Zenon DEF Refuses
    <3> QED BY <3>1, <2>3, Zenon DEF Turns
  <2>9. CASE Completes
    <3>1. Reads' = Reads /\ Completion' = Completion
      BY <1>1, SameTypes, Zenon DEF Completion
    <3>2. (\A i \in Reads : Good(i) => i \in Taken)'
      BY <3>1, <2>3, <2>9, <1>2, Zenon DEF Completes
    <3>3. Completes'
      BY <3>1, <3>2, <2>1, <2>2, <2>9, <1>1, Zenon DEF Completes
    <3> QED BY <3>3, <2>3, Zenon DEF Turns
  <2> QED BY <1>0, <2>4, <2>5, <2>6, <2>7, <2>8, <2>9, Zenon DEF Turns
<1> QED BY <1>5, <1>6, <1>7, <1>8, <1>9

\* Respond, when SyncPart goes on.
LEMMA RespondServes ==
    ASSUME NEW s, NEW next, NEW status, NEW index,
           Respond(s, next, status, index), rpc' = "serving"
    PROVE  /\ down' = Append(down, [status |-> status, index |-> index])
           /\ ses' = s /\ job' = next /\ live' = TRUE /\ set' = set /\ snd' = snd
    BY Zenon DEF Respond, Return, client

\* The client and the server never disagree on the index: of the chunks of the client
\* the server processes each when it receives it.
LEMMA AskedInTurn ==
    ASSUME Holds, ~set.anyOrder, Receives
    PROVE  Asks /\ Req.index = ses.expected
<1>0. /\ TypeOK /\ Server /\ up # <<>> /\ Req.kind = "chunk" /\ (live \/ Req.first)
      /\ live \in BOOLEAN
  BY HoldsParts, TypesNow, Zenon DEF Receives
<1>1. Asks /\ Req.index = snd.index /\ (Req.first <=> snd.index = 0)
  BY <1>0, AskedChunk, Zenon
<1>2. CASE live
  BY <1>1, <1>2, Zenon DEF Asks, Level
<1>3. CASE ~live
  <2>1. ses = NewSession /\ snd.index = 0
    BY <1>0, <1>1, <1>3, Zenon DEF Server
  <2> QED BY <1>1, <2>1 DEF NewSession
<1> QED BY <1>2, <1>3

\* The server's answers to the client.
LEMMA TurnsServer ==
    ASSUME Holds, Undisturbed, ~set.anyOrder, ServerStep, TypeOK', rpc' = "serving"
    PROVE  Turns' /\ Server'
<1>0. /\ TypeOK /\ Server /\ Turns /\ Buffer /\ rpc = "serving" /\ set \in Settings /\ snd \in Senders
      /\ ses \in Sessions /\ job \in Jobs /\ snd.index \in Nat /\ snd.buf \in Seq(Reads)
  BY HoldsParts, TypesNow, SenderFields, Zenon DEF Turns
<1>1. ASSUME set' = set, snd' = snd, ses'.chunks = ses.chunks PROVE Buffer' /\ Sent' = Sent
  BY <1>0, <1>1, BufferKept, Zenon
<1>2. CASE ReceiveVersion
  <2>1. /\ Session(Req) = ses /\ introduced' = introduced /\ Asks /\ Tail(up) = <<>>
        /\ up' = Tail(up) /\ Respond(ses, Idle, "VERSION", Req.index)
    BY <1>0, <1>2, ReceiveSame, AskedInTurn, AskedChunk, Zenon DEF ReceiveVersion, Receives
  <2>2. /\ down' = Append(down, [status |-> "VERSION", index |-> Req.index])
        /\ ses' = ses /\ job' = Idle /\ live' = TRUE /\ set' = set /\ snd' = snd
    BY <2>1, RespondServes, Zenon
  <2>3. Buffer' /\ Sent' = Sent /\ Taken' = Taken
    BY <2>1, <2>2, <1>1, TakenSame, Zenon
  <2>4. ~Idle.on
    BY DEF Idle
  <2>5. Len(down') = 1 /\ down'[1].status = "VERSION"
    <3>1. down = <<>>
      BY <2>1, Zenon DEF Asks
    <3> QED BY <3>1, <2>2
  <2>6. ses.expected = snd.index
    BY <1>0, <1>2, AskedInTurn, AskedChunk, Zenon DEF ReceiveVersion, Receives
  <2>7. Level'
    BY <2>1, <2>2, <2>3, <2>6, Zenon DEF Asks, Level
  <2>8. Refuses'
    BY <2>1, <2>2, <2>4, <2>5, <2>7, Zenon DEF Refuses, Asks
  <2>9. Server'
    BY <2>1, <2>2, <1>0, ServerServes, Zenon
  <2> QED BY <2>3, <2>8, <2>9, Zenon DEF Turns
<1>3. CASE ReceiveExpected
  <2>1. /\ Session(Req) = ses /\ introduced' = introduced /\ Asks /\ Tail(up) = <<>>
        /\ up' = Tail(up) /\ ses' = ses /\ live' = TRUE
        /\ job' = [on |-> TRUE, req |-> Req, at |-> 1]
        /\ set' = set /\ snd' = snd /\ down' = down
        /\ Req.index = ses.expected /\ Req.pieces = snd.buf /\ Req.index = snd.index
        /\ Req.corrupt => set.corrupts
    BY <1>0, <1>3, ReceiveSame, AskedInTurn, AskedChunk, Zenon DEF ReceiveExpected, Receives, client
  <2>2. job'.on /\ job'.req = Req /\ job'.at = 1
    BY <2>1
  <2>3. Buffer' /\ Sent' = Sent /\ Taken' = Taken
    BY <2>1, <1>1, TakenSame, Zenon
  <2>4. Begun' = {}
    BY <2>2 DEF Begun
  <2>5. Writes'
    <3>1. Taken' = Sent' \cup Begun'
      BY <2>1, <2>3, <2>4, Zenon DEF Asks, Level
    <3> QED BY <2>1, <2>2, <3>1, Zenon DEF Writes, Asks
  <2>6. Server'
    BY <2>1, <2>2, <1>0, ServerServes, Zenon
  <2> QED BY <2>3, <2>5, <2>6, Zenon DEF Turns
<1>4. CASE ReceiveOutOfOrder \/ ReceiveAhead \/ ReceiveOld
  <2>1. Req.index = ses.expected /\ Session(Req) = ses
    BY <1>4, AskedInTurn, ReceiveSame, Zenon DEF ReceiveOutOfOrder, ReceiveAhead, ReceiveOld
  <2>2. ses.expected \in Nat
    BY <1>0, ServerFields, Zenon
  <2> QED BY <2>1, <2>2, <1>4 DEF ReceiveOutOfOrder, ReceiveAhead, ReceiveOld
<1>5. CASE WritePiece
  <2>1. Writes /\ Writing
    <3>1. job.on /\ Writing
      BY <1>5, Zenon DEF WritePiece, Writing
    <3> QED BY <3>1, <1>0, Zenon DEF Turns, Fills, Asks, Accepts, Refuses, Completes, Ends
  <2>2. /\ set' = set /\ snd' = snd /\ up' = up /\ down' = down
        /\ Taken' = Taken \cup {Piece} /\ Begun' = Begun \cup {Piece}
    BY <1>5, PieceTaken, Zenon DEF WritePiece, client
  <2>3. /\ job'.on = job.on /\ job'.req = job.req
        /\ ses'.expected = ses.expected /\ ses'.chunks = ses.chunks
    <3>1. job'.on = job.on /\ job'.req = job.req
      BY <1>5, <1>0 DEF WritePiece, Jobs
    <3>2. ses'.expected = ses.expected /\ ses'.chunks = ses.chunks
      BY <1>5, <1>0, Zenon DEF WritePiece, Sessions
    <3> QED BY <3>1, <3>2
  <2>4. Buffer' /\ Sent' = Sent
    BY <2>2, <2>3, <1>1, Zenon
  <2>5. Taken' = Sent' \cup Begun'
    BY <2>1, <2>2, <2>4, Zenon DEF Writes
  <2>6. Writes'
    BY <2>1, <2>2, <2>3, <2>5, Zenon DEF Writes
  <2> QED BY <2>4, <2>6, <1>5, ServerWrites, Zenon DEF Turns
<1>6. CASE ChunkProcessed
  <2>1. Writes /\ ses.chunks = {} /\ up' = up /\ introduced' = introduced /\ live
    <3>1. job.on
      BY <1>6, Zenon DEF ChunkProcessed
    <3>2. Writes
      BY <3>1, <1>0, Zenon DEF Turns, Fills, Asks, Accepts, Refuses, Completes, Ends
    <3> QED BY <3>1, <3>2, <1>0, <1>6, Zenon DEF Buffer, Server, ChunkProcessed
  <2>2. Moved.chunks = {} /\ Moved.written = ses.written /\ Moved.part = ses.part
    BY <2>1, <1>0 DEF Moved, Sessions
  <2>3. Ready = {}
    BY <2>2 DEF Ready
  <2>4. Respond(Moved, Idle, Outcome, job.req.index)
    BY <2>3, <1>6, Zenon DEF ChunkProcessed
  <2>5. /\ down' = Append(down, [status |-> Outcome, index |-> job.req.index])
        /\ ses' = Moved /\ job' = Idle /\ live' = TRUE /\ set' = set /\ snd' = snd
    BY <2>4, RespondServes, Zenon
  <2>6. Buffer' /\ Sent' = Sent /\ Taken' = Taken
    BY <2>1, <2>2, <2>5, <1>1, TakenSame, Zenon
  <2>7. ~Idle.on
    BY DEF Idle
  <2>8. Len(down') = 1 /\ down'[1].status = Outcome
    <3>1. down = <<>>
      BY <2>1, Zenon DEF Writes
    <3> QED BY <3>1, <2>5
  <2>9. Server'
    BY <2>1, <2>2, <2>5, <1>0, ServerServes, Zenon
  <2>10. CASE ~job.req.corrupt
    <3>1. Moved.expected = ses.expected + 1 /\ Outcome = "RECEIVED" /\ job.at = Len(job.req.pieces) + 1
      BY <2>10, <1>0, <1>6, Zenon DEF Moved, Outcome, Sessions, ChunkProcessed
    <3>2. Begun = Range(snd.buf)
      <4>1. job.req.pieces = snd.buf /\ job.at - 1 = Len(snd.buf) /\ DOMAIN snd.buf = 1 .. Len(snd.buf)
        BY <3>1, <2>1, <1>0 DEF Writes
      <4> QED BY <4>1, Zenon DEF Begun, Range
    <3>3. Taken' = Sent' \cup Range(snd'.buf)
      BY <3>2, <2>1, <2>5, <2>6, Zenon DEF Writes
    <3>4. Accepts'
      BY <3>1, <3>3, <2>1, <2>5, <2>7, <2>8, Zenon DEF Accepts, Writes
    <3> QED BY <3>4, <2>6, <2>9, Zenon DEF Turns
  <2>11. CASE job.req.corrupt
    <3>1. ~set.reordering
      BY <2>1, <2>11, Zenon DEF Writes, Undisturbed
    <3>2. Moved = ses /\ Outcome = "MISMATCH"
      BY <3>1, <2>11, Zenon DEF Moved, Outcome
    <3>3. job.at = 1
      BY <2>11, <1>0, <1>6, Zenon DEF Server, ChunkProcessed
    <3>4. Begun = {}
      BY <3>3 DEF Begun
    <3>5. Taken' = Sent'
      BY <3>4, <2>1, <2>6, Zenon DEF Writes
    <3>6. Level'
      BY <3>2, <3>5, <2>1, <2>5, Zenon DEF Level, Writes
    <3>7. Refuses'
      BY <3>2, <3>6, <2>1, <2>5, <2>7, <2>8, Zenon DEF Refuses, Writes
    <3> QED BY <3>7, <2>6, <2>9, Zenon DEF Turns
  <2> QED BY <2>10, <2>11
<1>7. CASE BufferTimeout \/ HandlerFails \/ HandleCompletion \/ ServerRecvEnds
  <2>1. rpc' = "ok" \/ rpc' = "error"
    BY <1>7, Zenon DEF BufferTimeout, HandlerFails, HandleCompletion, ServerRecvEnds, Return
  <2> QED BY <2>1
<1> QED BY <1>2, <1>3, <1>4, <1>5, <1>6, <1>7, Zenon DEF ServerStep

----------------------------------------------------------------------------
(* A peer that sends the chunks in any order *)

\* Its requests depend on the setting only.
LEMMA AskedNext ==
    ASSUME set' = set
    PROVE  \A q : Asked(q)' <=> Asked(q)
    BY SameTypes, Zenon DEF Asked

\* A step of the peer leaves what the server has written and kept.
LEMMA PeerWrittenKept ==
    ASSUME PeerWritten, UNCHANGED <<set, ses, job, introduced>>, snd'.failed = snd.failed
    PROVE  PeerWritten' /\ \A k : Kept(k)' <=> Kept(k)
<1>1. Taken' = Taken /\ Begun' = Begun /\ Reads' = Reads
  BY TakenSame, SameTypes, Zenon DEF Begun
<1>2. \A k : Kept(k)' <=> Kept(k)
  BY Zenon DEF Kept
<1>3. (Taken = {i \in Reads : i <= ses.expected * set.chunk} \cup Begun)'
  BY <1>1, Zenon DEF PeerWritten
<1> QED BY <1>2, <1>3, AskedNext, Zenon DEF PeerWritten

\* While the peer sends, no completion is on its way.
LEMMA NoCompletionYet ==
    ASSUME PeerStream, snd.pc \in {"read", "wait"}
    PROVE  \A m \in DOMAIN up : up[m] # Completion
    BY DEF PeerStream

\* A request at the end of the stream.
LEMMA StreamAppended ==
    ASSUME up \in Streams, NEW q, up' = Append(up, q)
    PROVE  /\ DOMAIN up' = DOMAIN up \cup {Len(up) + 1} /\ Len(up') = Len(up) + 1
           /\ \A m \in DOMAIN up : up'[m] = up[m]
           /\ up'[Len(up) + 1] = q
    BY DEF Streams

\* The peer sends, receives or gives up.
LEMMA AnyOrderClient ==
    ASSUME Holds, set.anyOrder, ClientStep
    PROVE  AnyOrder' /\ Server'
<1>0. /\ TypeOK /\ Server /\ set \in Settings /\ snd \in Senders /\ up \in Streams /\ down \in Answers
      /\ AnyOrder /\ PeerWritten /\ PeerStream /\ PeerAnswers /\ rpc = "serving"
      /\ snd.sends \in 0 .. MaxSends
  BY HoldsParts, TypesNow, SenderFields, Zenon DEF AnyOrder
<1>1. PeerSend \/ PeerResponse \/ PeerDone \/ RecvFinal \/ StreamError
  BY Zenon DEF ClientStep, ReadPiece, ReadFail, Reading, SendChunk, SendCompletion, RecvResponse
<1>2. UNCHANGED <<set, live, ses, job, introduced>>
  BY <1>1, Zenon DEF PeerSend, PeerResponse, PeerDone, RecvFinal, StreamError, server
<1>3. snd'.failed = snd.failed
  BY <1>0, <1>1, Zenon DEF PeerSend, PeerResponse, PeerDone, RecvFinal, StreamError, Senders
<1>4. PeerWritten' /\ \A k : Kept(k)' <=> Kept(k)
  BY <1>0, <1>2, <1>3, PeerWrittenKept, Zenon
<1>5. Server'
  <2>1. \A i \in Taken : Good(i)'
    BY <1>0, <1>2, <1>3, Zenon DEF Server, Good
  <2> QED BY <2>1, <1>0, <1>2, ServerKept, Zenon
<1>6. \A q : Asked(q)' <=> Asked(q)
  BY <1>2, AskedNext, Zenon
<1>7. Completion' = Completion /\ Chunks' = Chunks
  BY <1>2, SameTypes, Zenon DEF Completion
<1>8. CASE PeerSend
  <2>1. PICK k \in Chunks : up' = Append(up, Chunk(k, PiecesIn(k), snd.sends = 0, FALSE))
    BY <1>8, Zenon DEF PeerSend, Send
  <2> DEFINE q == Chunk(k, PiecesIn(k), snd.sends = 0, FALSE)
  <2>2. q.index = k /\ q.pieces = PiecesIn(k) /\ (q.first <=> snd.sends = 0) /\ ~q.corrupt /\ q.kind = "chunk"
    BY Zenon DEF Chunk
  <2>3. up' = Append(up, q)
    BY <2>1
  <2> HIDE DEF q
  <2>4. Asked(q) /\ q # Completion
    <3>1. Asked(q)
      BY <2>2, Zenon DEF Asked
    <3>2. q # Completion
      BY <2>2 DEF Completion
    <3> QED BY <3>1, <3>2
  <2>5. snd.pc = "read" /\ snd'.pc = "wait" /\ snd'.sends = snd.sends + 1 /\ snd'.accepted = snd.accepted /\ down' = down
    BY <1>8, <1>0 DEF PeerSend, Senders
  <2>6. /\ DOMAIN up' = DOMAIN up \cup {Len(up) + 1}
        /\ \A m \in DOMAIN up : up'[m] = up[m] /\ up[m] # Completion
        /\ up'[Len(up) + 1] = q
    BY <2>3, <2>5, <1>0, StreamAppended, NoCompletionYet, Zenon
  <2>7. q.first => Len(up) + 1 = 1 /\ ~live
    <3>1. q.first => up = <<>> /\ ~live
      BY <2>2, <2>5, <1>0, Zenon DEF PeerStream
    <3> QED BY <3>1
  <2>8. snd'.sends # 0
    BY <2>5, <1>0
  <2>9. PeerStream'
    <3>1. ASSUME NEW m \in DOMAIN up'
          PROVE  up'[m] # Completion /\ Asked(up'[m]) /\ (up'[m].first => m = 1 /\ ~live)
      <4>1. CASE m \in DOMAIN up
        BY <4>1, <2>6, <1>0, Zenon DEF PeerStream
      <4>2. CASE m = Len(up) + 1
        BY <4>2, <2>4, <2>6, <2>7, Zenon
      <4> QED BY <4>1, <4>2, <2>6, Zenon
    <3> QED BY <3>1, <2>8, <1>2, <1>6, <1>7, Zenon DEF PeerStream
  <2>10. PeerAnswers'
    BY <2>5, <1>0, <1>4, Zenon DEF PeerAnswers
  <2> QED BY <2>9, <2>10, <1>4, <1>5, Zenon DEF AnyOrder
<1>t. ASSUME down # <<>>
      PROVE  /\ Head(down) = down[1] /\ 1 \in DOMAIN down
             /\ \A m \in DOMAIN Tail(down) : m + 1 \in DOMAIN down /\ Tail(down)[m] = down[m + 1]
  BY <1>t, <1>0 DEF Answers
<1>9. CASE PeerResponse
  <2>1. /\ snd.pc = "wait" /\ snd'.pc = "read" /\ snd'.sends = snd.sends /\ up' = up /\ down' = Tail(down)
        /\ snd'.accepted = IF Head(down).status = "RECEIVED"
                           THEN snd.accepted \cup {Head(down).index} ELSE snd.accepted
        /\ down # <<>>
    BY <1>9, <1>0 DEF PeerResponse, Senders
  <2>2. \A k \in snd'.accepted : Kept(k)
    <3>1. Head(down).status = "RECEIVED" => Kept(Head(down).index)
      BY <2>1, <1>0, <1>t, Zenon DEF PeerAnswers
    <3>2. \A k \in snd.accepted : Kept(k)
      BY <1>0, Zenon DEF PeerAnswers
    <3>3. CASE Head(down).status = "RECEIVED"
      BY <3>1, <3>2, <3>3, <2>1, Zenon
    <3>4. CASE Head(down).status # "RECEIVED"
      BY <3>2, <3>4, <2>1, Zenon
    <3> QED BY <3>3, <3>4
  <2>3. PeerAnswers'
    BY <2>1, <2>2, <1>0, <1>4, <1>t, Zenon DEF PeerAnswers
  <2>4. snd'.sends # 0
    BY <2>1, <1>0, Zenon DEF PeerStream
  <2>5. \A m \in DOMAIN up : up[m] # Completion
    BY <2>1, <1>0, NoCompletionYet, Zenon
  <2>6. PeerStream'
    BY <2>1, <2>4, <2>5, <1>0, <1>2, <1>6, <1>7, Zenon DEF PeerStream
  <2> QED BY <2>3, <2>6, <1>4, <1>5, Zenon DEF AnyOrder
<1>10. CASE PeerDone
  <2>1. snd.pc = "read" /\ snd'.sends = snd.sends /\ snd'.accepted = snd.accepted /\ down' = down
    BY <1>10, <1>0 DEF PeerDone, Senders
  <2>2. PeerAnswers'
    BY <2>1, <1>0, <1>4, Zenon DEF PeerAnswers
  <2>3. \A m \in DOMAIN up : up[m] # Completion
    BY <2>1, <1>0, NoCompletionYet, Zenon
  <2>4. CASE snd.accepted = Chunks
    <3>1. up' = Append(up, Completion) /\ snd'.pc = "final"
      BY <2>4, <1>10, <1>0 DEF PeerDone, Send, Senders
    <3>2. /\ DOMAIN up' = DOMAIN up \cup {Len(up) + 1} /\ Len(up') = Len(up) + 1
          /\ \A m \in DOMAIN up : up'[m] = up[m]
          /\ up'[Len(up) + 1] = Completion
      BY <3>1, <1>0, StreamAppended, Zenon
    <3>3. ASSUME NEW m \in DOMAIN up'
          PROVE  /\ up'[m] = Completion => m = Len(up')
                 /\ up'[m] # Completion => Asked(up'[m]) /\ (up'[m].first => m = 1 /\ ~live)
      <4>1. CASE m \in DOMAIN up
        BY <4>1, <2>3, <3>2, <1>0, Zenon DEF PeerStream
      <4>2. CASE m = Len(up) + 1
        BY <4>2, <3>2, Zenon
      <4> QED BY <4>1, <4>2, <3>2, Zenon
    <3>4. PeerStream'
      BY <3>1, <3>3, <2>1, <2>4, <1>2, <1>6, <1>7, Zenon DEF PeerStream
    <3> QED BY <3>4, <2>2, <1>4, <1>5, Zenon DEF AnyOrder
  <2>5. CASE snd.accepted # Chunks
    <3>1. up' = up /\ snd'.pc = "err"
      BY <2>5, <1>10, <1>0 DEF PeerDone, Senders
    <3>2. PeerStream'
      BY <3>1, <2>1, <2>3, <1>0, <1>2, <1>6, <1>7, Zenon DEF PeerStream
    <3> QED BY <3>2, <2>2, <1>4, <1>5, Zenon DEF AnyOrder
  <2> QED BY <2>4, <2>5
<1>11. CASE RecvFinal
  <2>1. /\ snd.pc = "final" /\ snd'.sends = snd.sends /\ up' = up /\ down' = Tail(down)
        /\ snd'.pc = (IF Head(down).status = "COMPLETE" THEN "ok" ELSE "final")
        /\ snd'.accepted = snd.accepted /\ down # <<>>
    BY <1>11, <1>0 DEF RecvFinal, Senders
  <2>2. Head(down).status # "COMPLETE"
    BY <2>1, <1>0, <1>t, Zenon DEF PeerAnswers
  <2>3. PeerAnswers'
    BY <2>1, <1>0, <1>4, <1>t, Zenon DEF PeerAnswers
  <2>4. PeerStream'
    BY <2>1, <2>2, <1>0, <1>2, <1>6, <1>7, Zenon DEF PeerStream
  <2> QED BY <2>3, <2>4, <1>4, <1>5, Zenon DEF AnyOrder
<1>12. CASE StreamError
  <2>1. /\ snd'.sends = snd.sends /\ up' = up /\ down' = down /\ snd'.pc = "err"
        /\ snd'.accepted = snd.accepted
    BY <1>12, <1>0 DEF StreamError, Senders
  <2>2. PeerAnswers'
    BY <2>1, <1>0, <1>4, Zenon DEF PeerAnswers
  <2>3. PeerStream'
    BY <2>1, <1>0, <1>2, <1>6, <1>7, Zenon DEF PeerStream
  <2> QED BY <2>2, <2>3, <1>4, <1>5, Zenon DEF AnyOrder
<1> QED BY <1>1, <1>8, <1>9, <1>10, <1>11, <1>12

\* The server takes the next request off the stream.
LEMMA StreamTail ==
    ASSUME up \in Streams, up # <<>>, PeerStream, set' = set, snd' = snd, up' = Tail(up)
    PROVE  PeerStream'
<1>1. /\ Len(up') = Len(up) - 1 /\ Len(up) \in Nat
      /\ \A m \in DOMAIN up' : m \in Nat \ {0} /\ m + 1 \in DOMAIN up /\ up'[m] = up[m + 1]
  BY DEF Streams
<1>2. Completion' = Completion /\ Chunks' = Chunks /\ \A q : Asked(q)' <=> Asked(q)
  BY SameTypes, AskedNext, Zenon DEF Completion
<1>3. ASSUME NEW m \in DOMAIN up'
      PROVE  /\ up'[m] = Completion =>
                   m = Len(up') /\ snd.pc \in {"final", "err"} /\ snd.accepted = Chunks
             /\ up'[m] # Completion => Asked(up'[m]) /\ ~up'[m].first
  <2>1. m + 1 # 1 /\ (m + 1 = Len(up) => m = Len(up'))
    BY <1>1
  <2> QED BY <1>1, <2>1, Zenon DEF PeerStream
<1>4. snd.sends = 0 => snd.pc # "wait" /\ snd.pc # "read"
  BY Zenon DEF PeerStream
<1> QED BY <1>2, <1>3, <1>4, Zenon DEF PeerStream

\* The server answers.
LEMMA AnswerAppended ==
    ASSUME down \in Answers, snd.accepted \subseteq Nat, PeerAnswers, snd' = snd,
           \A k \in Nat : Kept(k) => Kept(k)',
           NEW x, x.status # "COMPLETE", x.status = "RECEIVED" => \A k : k = x.index => Kept(k)',
           down' = Append(down, x)
    PROVE  PeerAnswers'
<1>1. /\ DOMAIN down' = DOMAIN down \cup {Len(down) + 1}
      /\ \A m \in DOMAIN down : down'[m] = down[m] /\ down[m].index \in Nat
      /\ down'[Len(down) + 1] = x
  <2>1. \A m \in DOMAIN down : down[m].index \in Nat
    <3>1. \A m \in DOMAIN down : down[m] \in Responses
      BY DEF Answers
    <3>2. \A r \in Responses : r.index \in Nat
      BY DEF Responses
    <3> QED BY <3>1, <3>2, Zenon
  <2>2. /\ DOMAIN down' = DOMAIN down \cup {Len(down) + 1}
        /\ \A m \in DOMAIN down : down'[m] = down[m]
        /\ down'[Len(down) + 1] = x
    BY DEF Answers
  <2> QED BY <2>1, <2>2
<1>2. ASSUME NEW m \in DOMAIN down', NEW k, k = down'[m].index
      PROVE  (down'[m].status = "RECEIVED" => Kept(k)') /\ down'[m].status # "COMPLETE"
  <2>1. CASE m \in DOMAIN down
    BY <2>1, <1>1, <1>2, Zenon DEF PeerAnswers
  <2>2. CASE m = Len(down) + 1
    BY <2>2, <1>1, <1>2, Zenon
  <2> QED BY <2>1, <2>2, <1>1, Zenon
<1>3. \A k \in snd'.accepted : Kept(k)'
  BY Zenon DEF PeerAnswers
<1> QED BY <1>2, <1>3, Zenon DEF PeerAnswers

\* A request of the peer, as the server receives it.
LEMMA PeerAsked ==
    ASSUME Holds, set.anyOrder, Receives
    PROVE  /\ Asked(Req) /\ ~job.on /\ job = Idle /\ Begun = {} /\ up \in Streams /\ up # <<>>
           /\ Session(Req) = ses /\ Switched(Req) = introduced /\ up' = Tail(up)
<1>0. /\ Server /\ PeerStream /\ up \in Streams /\ up # <<>> /\ Req.kind = "chunk" /\ ~job.on
      /\ up' = Tail(up)
  BY HoldsParts, TypesNow, Zenon DEF Receives, AnyOrder
<1>1. Req # Completion /\ up[1] = Req /\ 1 \in DOMAIN up
  BY <1>0 DEF Completion, Req, Streams
<1>2. Asked(Req)
  BY <1>0, <1>1, Zenon DEF PeerStream
<1>3. job = Idle
  BY <1>0, Zenon DEF Server
<1>4. Begun = {}
  BY <1>3 DEF Begun, Idle
<1> QED BY <1>0, <1>2, <1>3, <1>4, ReceiveSame, Zenon

\* The pieces of a chunk of the peer, once they are all written.
LEMMA ChunkTaken ==
    ASSUME Holds, set.anyOrder, job.on, job.at = Len(job.req.pieces) + 1
    PROVE  Taken = {i \in Reads : i <= (ses.expected + 1) * set.chunk}
<1>0. /\ set \in Settings /\ PeerWritten /\ Server /\ ses.expected \in Chunks
      /\ job.req.pieces = PiecesIn(ses.expected)
      /\ Taken = {i \in Reads : i <= ses.expected * set.chunk} \cup Begun
  BY HoldsParts, TypesNow, Zenon DEF AnyOrder, PeerWritten, Asked, Server
<1> DEFINE b == ses.expected * set.chunk
           e == (ses.expected + 1) * set.chunk
           P == PiecesIn(ses.expected)
<1>1. /\ b \in Nat /\ P \in Seq(Reads)
      /\ \A m \in 1 .. Len(P) : P[m] = b + m
      /\ \A i \in Reads : (b < i /\ i <= e) => i - b \in 1 .. Len(P)
      /\ \A m \in 1 .. Len(P) : b + m <= e
      /\ ses.expected \in Nat
  BY <1>0, PeerChunk, Zenon
<1>2. set.chunk \in Nat \ {0} /\ Reads \subseteq Nat
  BY <1>0, SettingFacts
<1>3. e = b + set.chunk
  BY <1>1, <1>2, Products
<1> HIDE DEF b, e, P
<1>4. job.at - 1 = Len(P)
  BY <1>0, <1>1 DEF P
<1>5. Begun = {P[m] : m \in 1 .. Len(P)}
  BY <1>0, <1>4, Zenon DEF Begun, P
<1>6. \A m \in 1 .. Len(P) : P[m] \in Reads
  BY <1>1
<1>7. ASSUME NEW i \in Reads PROVE i \in Taken <=> i <= e
  <2>1. CASE i <= b
    <3>1. i <= e
      BY <2>1, <1>1, <1>2, <1>3
    <3> QED BY <2>1, <3>1, <1>0, Zenon DEF b
  <2>2. CASE ~(i <= b)
    <3>1. i \in Begun => i <= e
      BY <1>1, <1>5
    <3>2. ASSUME i <= e PROVE i \in Begun
      <4>1. i - b \in 1 .. Len(P) /\ b + (i - b) = i
        BY <2>2, <3>2, <1>1, <1>2
      <4> QED BY <4>1, <1>1, <1>5
    <3> QED BY <2>2, <3>1, <3>2, <1>0, Zenon DEF b
  <2> QED BY <2>1, <2>2
<1>8. Taken \subseteq Reads
  BY <1>0, <1>5, <1>6, Zenon
<1> QED BY <1>7, <1>8, Zenon DEF e

\* Receiving a chunk of the peer, except the one whose turn it is.
LEMMA AnyOrderReceive ==
    ASSUME Holds, set.anyOrder, TypeOK', rpc' = "serving",
           ReceiveVersion \/ ReceiveOutOfOrder \/ ReceiveAhead \/ ReceiveOld
    PROVE  AnyOrder' /\ Server'
<1>0. /\ TypeOK /\ Server /\ PeerWritten /\ PeerStream /\ PeerAnswers /\ ses \in Sessions
      /\ up \in Streams /\ down \in Answers /\ Receives /\ ses.expected \in Nat
      /\ introduced' = Switched(Req) /\ snd.accepted \subseteq Nat
  BY HoldsParts, TypesNow, SenderFields, ServerFields, Zenon
     DEF AnyOrder, ReceiveVersion, ReceiveOutOfOrder, ReceiveAhead, ReceiveOld
<1>1. /\ Asked(Req) /\ ~job.on /\ Begun = {} /\ up # <<>>
      /\ Session(Req) = ses /\ introduced' = introduced /\ up' = Tail(up)
  BY <1>0, PeerAsked, Zenon
<1>2. ~Idle.on /\ Idle.at = 1
  BY DEF Idle
<1>3. ASSUME NEW status, Respond(ses, Idle, status, Req.index), status # "COMPLETE",
             status = "RECEIVED" => Req.index < ses.expected
      PROVE  AnyOrder' /\ Server'
  <2>1. /\ down' = Append(down, [status |-> status, index |-> Req.index])
        /\ ses' = ses /\ job' = Idle /\ live' = TRUE /\ set' = set /\ snd' = snd
    BY <1>0, <1>3, RespondServes, Zenon
  <2>2. PeerStream'
    BY <2>1, <1>0, <1>1, StreamTail, Zenon
  <2>3. \A k : Kept(k)' <=> Kept(k)
    BY <2>1, <1>1, <1>2, Zenon DEF Kept
  <2>4. PeerAnswers'
    <3> DEFINE x == [status |-> status, index |-> Req.index]
    <3>1. x.status = status /\ x.index = Req.index /\ down' = Append(down, x)
      BY <2>1
    <3> HIDE DEF x
    <3>2. status = "RECEIVED" => \A k : k = Req.index => Kept(k)'
      BY <1>3, <2>3, Zenon DEF Kept
    <3> QED BY <3>1, <3>2, <2>1, <2>3, <1>0, <1>3, AnswerAppended, Zenon
  <2>5. Taken' = Taken /\ Reads' = Reads
    BY <2>1, <1>1, TakenSame, SameTypes, Zenon
  <2>6. Begun' = {}
    BY <2>1, <1>2 DEF Begun
  <2>7. PeerWritten'
    <3>1. (Taken = {i \in Reads : i <= ses.expected * set.chunk} \cup Begun)'
      BY <2>1, <2>5, <2>6, <1>0, <1>1, Zenon DEF PeerWritten
    <3> QED BY <3>1, <2>1, <1>0, <1>2, AskedNext, Zenon DEF PeerWritten
  <2>8. Server'
    BY <2>1, <1>0, <1>1, ServerServes, Zenon
  <2> QED BY <2>2, <2>4, <2>7, <2>8, Zenon DEF AnyOrder
<1>4. ASSUME Respond(Keep(ses, Req), Idle, "RECEIVED", Req.index), Req.index > ses.expected
      PROVE  AnyOrder' /\ Server'
  <2>1. /\ down' = Append(down, [status |-> "RECEIVED", index |-> Req.index])
        /\ ses' = Keep(ses, Req) /\ job' = Idle /\ live' = TRUE /\ set' = set /\ snd' = snd
    BY <1>0, <1>4, RespondServes, Zenon
  <2>2. /\ ses'.expected = ses.expected /\ ses'.part = ses.part /\ ses'.written = ses.written
        /\ ses'.chunks = {r \in ses.chunks : r.index # Req.index} \cup {Req}
    BY <2>1, <1>0 DEF Keep, Sessions
  <2>3. PeerStream'
    BY <2>1, <1>0, <1>1, StreamTail, Zenon
  <2>4. \A k : Kept(k) => Kept(k)'
    BY <2>1, <2>2, <1>1, <1>2, Zenon DEF Kept
  <2>5. PeerAnswers'
    <3> DEFINE x == [status |-> "RECEIVED", index |-> Req.index]
    <3>1. x.status # "COMPLETE" /\ x.index = Req.index /\ down' = Append(down, x)
      BY <2>1
    <3> HIDE DEF x
    <3>2. \A k : k = Req.index => Kept(k)'
      BY <2>2, Zenon DEF Kept
    <3> QED BY <3>1, <3>2, <2>1, <2>4, <1>0, AnswerAppended, Zenon
  <2>6. Taken' = Taken /\ Reads' = Reads
    BY <2>1, <2>2, <1>1, TakenSame, SameTypes, Zenon
  <2>7. Begun' = {}
    BY <2>1, <1>2 DEF Begun
  <2>8. PeerWritten'
    <3>1. (Taken = {i \in Reads : i <= ses.expected * set.chunk} \cup Begun)'
      BY <2>1, <2>2, <2>6, <2>7, <1>0, <1>1, Zenon DEF PeerWritten
    <3>2. \A r \in ses'.chunks : Asked(r) /\ r.index > ses.expected
      BY <2>2, <1>0, <1>1, <1>4, Zenon DEF PeerWritten
    <3>3. \A q, r \in ses'.chunks : q.index = r.index => q = r
      BY <2>2, <1>0, Zenon DEF PeerWritten
    <3> QED BY <3>1, <3>2, <3>3, <2>1, <2>2, <1>0, <1>2, AskedNext, Zenon DEF PeerWritten
  <2>9. Server'
    BY <2>1, <2>2, <1>0, <1>1, ServerServes, Zenon
  <2> QED BY <2>3, <2>5, <2>8, <2>9, Zenon DEF AnyOrder
<1>5. /\ "VERSION" # "COMPLETE" /\ "VERSION" # "RECEIVED"
      /\ "REFUSED" # "COMPLETE" /\ "REFUSED" # "RECEIVED"
      /\ "OUT_OF_ORDER" # "COMPLETE" /\ "OUT_OF_ORDER" # "RECEIVED" /\ "RECEIVED" # "COMPLETE"
  OBVIOUS
<1>6. CASE ReceiveVersion
  BY <1>1, <1>3, <1>5, <1>6, Zenon DEF ReceiveVersion
<1>7. CASE ReceiveOutOfOrder
  BY <1>1, <1>3, <1>5, <1>7, Zenon DEF ReceiveOutOfOrder
<1>8. CASE ReceiveAhead
  BY <1>1, <1>3, <1>4, <1>5, <1>8, Zenon DEF ReceiveAhead
<1>9. CASE ReceiveOld
  BY <1>1, <1>3, <1>5, <1>9, Zenon DEF ReceiveOld
<1> QED BY <1>6, <1>7, <1>8, <1>9

\* The stream when the server writes.
LEMMA StreamKept ==
    ASSUME PeerStream, set' = set, snd' = snd, up' = up, live' = live
    PROVE  PeerStream'
    BY SameTypes, AskedNext, Zenon DEF PeerStream, Completion

\* Receiving the chunk whose turn it is, writing it, and going on to the next.
LEMMA AnyOrderProcess ==
    ASSUME Holds, set.anyOrder, TypeOK', rpc' = "serving",
           ReceiveExpected \/ WritePiece \/ ChunkProcessed
    PROVE  AnyOrder' /\ Server'
<1>0. /\ TypeOK /\ Server /\ PeerWritten /\ PeerStream /\ PeerAnswers
      /\ ses \in Sessions /\ job \in Jobs
      /\ up \in Streams /\ down \in Answers /\ ses.expected \in Nat /\ snd.accepted \subseteq Nat
  BY HoldsParts, TypesNow, SenderFields, ServerFields, Zenon DEF AnyOrder
<1>1. CASE ReceiveExpected
  <2>0. Receives
    BY <1>1, Zenon DEF ReceiveExpected
  <2>1. /\ Asked(Req) /\ ~job.on /\ Begun = {} /\ up # <<>> /\ up' = Tail(up)
        /\ Req.index = ses.expected /\ introduced' = introduced
        /\ ses' = ses /\ live' = TRUE /\ job' = [on |-> TRUE, req |-> Req, at |-> 1]
        /\ set' = set /\ snd' = snd /\ down' = down
    BY <2>0, <1>1, PeerAsked, Zenon DEF ReceiveExpected, client
  <2>2. job'.on /\ job'.req = Req /\ job'.at = 1
    BY <2>1
  <2>3. Begun' = {}
    BY <2>2 DEF Begun
  <2>4. PeerStream'
    BY <2>1, <1>0, StreamTail, Zenon
  <2>5. \A k : Kept(k) => Kept(k)'
    BY <2>1, Zenon DEF Kept
  <2>6. PeerAnswers'
    BY <2>1, <2>5, <1>0, Zenon DEF PeerAnswers
  <2>7. Taken' = Taken /\ Reads' = Reads
    BY <2>1, TakenSame, SameTypes, Zenon
  <2>8. PeerWritten'
    <3>1. (Taken = {i \in Reads : i <= ses.expected * set.chunk} \cup Begun)'
      BY <2>1, <2>3, <2>7, <1>0, Zenon DEF PeerWritten
    <3> QED BY <3>1, <2>1, <2>2, <1>0, AskedNext, Zenon DEF PeerWritten
  <2>9. Server'
    BY <2>1, <2>2, <1>0, ServerServes, Zenon
  <2> QED BY <2>4, <2>6, <2>8, <2>9, Zenon DEF AnyOrder
<1>2. CASE WritePiece
  <2>1. /\ set' = set /\ snd' = snd /\ up' = up /\ down' = down /\ live' = live
        /\ Taken' = Taken \cup {Piece} /\ Begun' = Begun \cup {Piece} /\ Reads' = Reads
    BY <1>2, PieceTaken, SameTypes, Zenon DEF WritePiece, client
  <2>2. job'.on = job.on /\ job'.req = job.req
    BY <1>2, <1>0 DEF WritePiece, Jobs
  <2>3. ses'.expected = ses.expected /\ ses'.chunks = ses.chunks
    BY <1>2, <1>0, Zenon DEF WritePiece, Sessions
  <2>4. \A k : Kept(k)' <=> Kept(k)
    BY <2>2, <2>3, Zenon DEF Kept
  <2>5. PeerAnswers'
    BY <2>1, <2>4, <1>0, Zenon DEF PeerAnswers
  <2>6. PeerStream'
    BY <2>1, <1>0, StreamKept, Zenon
  <2>7. PeerWritten'
    <3>1. (Taken = {i \in Reads : i <= ses.expected * set.chunk} \cup Begun)'
      BY <2>1, <2>3, <1>0, Zenon DEF PeerWritten
    <3> QED BY <3>1, <2>1, <2>2, <2>3, <1>0, AskedNext, Zenon DEF PeerWritten
  <2> QED BY <2>5, <2>6, <2>7, <1>2, ServerWrites, Zenon DEF AnyOrder
<1>3. CASE ChunkProcessed
  <2>1. /\ job.on /\ live /\ Asked(job.req) /\ ~job.req.corrupt /\ job.req.index = ses.expected
        /\ job.at = Len(job.req.pieces) + 1 /\ up' = up /\ introduced' = introduced
    BY <1>0, <1>3, Zenon DEF ChunkProcessed, PeerWritten, Asked, Server
  <2>2. /\ Moved.expected = ses.expected + 1 /\ Moved.chunks = ses.chunks
        /\ Moved.written = ses.written /\ Moved.part = ses.part /\ Outcome = "RECEIVED"
        /\ Moved \in Sessions
    BY <2>1, <1>0 DEF Moved, Outcome, Sessions
  <2>3. \A r \in ses.chunks : r.index \in Nat /\ r.index > ses.expected /\ Asked(r)
    <3>1. \A r \in ses.chunks : r.index \in Nat
      BY <1>0 DEF Sessions, ChunkRequests
    <3> QED BY <3>1, <1>0, Zenon DEF PeerWritten
  <2>4. \A r \in ses.chunks : r.index # ses.expected + 1 => r.index > ses.expected + 1
    BY <2>3, <1>0
  <2>5. ASSUME NEW s, NEW next, Respond(s, next, Outcome, job.req.index),
               s.expected = ses.expected + 1, s.written = ses.written, s.part = ses.part,
               next.at = 1, s.chunks \subseteq ses.chunks,
               \A r \in s.chunks : r.index # ses.expected + 1,
               next.on => Asked(next.req) /\ next.req.index = ses.expected + 1,
               \A r \in ses.chunks : r \in s.chunks \/ (next.on /\ r.index = ses.expected + 1),
               next = Idle \/ next.on
        PROVE  AnyOrder' /\ Server'
    <3>1. /\ down' = Append(down, [status |-> Outcome, index |-> job.req.index])
          /\ ses' = s /\ job' = next /\ live' = TRUE /\ set' = set /\ snd' = snd
      BY <2>5, RespondServes, Zenon
    <3>2. Server'
      BY <3>1, <2>1, <2>5, <1>0, ServerServes, Zenon
    <3>3. PeerStream'
      BY <3>1, <2>1, <1>0, StreamKept, Zenon
    <3>4. \A k \in Nat : Kept(k) => Kept(k)'
      <4>1. ses.expected < ses.expected + 1 /\ \A k \in Nat : k < ses.expected => k < ses.expected + 1
        BY <1>0
      <4> QED BY <4>1, <3>1, <2>5, Zenon DEF Kept
    <3>5. \A k : k = job.req.index => Kept(k)'
      BY <2>1, <3>4, <1>0, Zenon DEF Kept
    <3>6. PeerAnswers'
      <4> DEFINE x == [status |-> Outcome, index |-> job.req.index]
      <4>1. x.status # "COMPLETE" /\ x.index = job.req.index /\ down' = Append(down, x)
        BY <2>2, <3>1
      <4> HIDE DEF x
      <4> QED BY <4>1, <3>1, <3>4, <3>5, <1>0, AnswerAppended, Zenon
    <3>7. Taken' = Taken /\ Reads' = Reads
      BY <3>1, <2>1, <2>5, TakenSame, SameTypes, Zenon
    <3>8. Begun' = {}
      BY <3>1, <2>5 DEF Begun
    <3>9. PeerWritten'
      <4>1. Taken = {i \in Reads : i <= (ses.expected + 1) * set.chunk}
        BY <2>1, ChunkTaken, Zenon
      <4>2. (Taken = {i \in Reads : i <= ses.expected * set.chunk} \cup Begun)'
        BY <4>1, <3>1, <3>7, <3>8, <2>5, Zenon
      <4>3. \A r \in s.chunks : Asked(r) /\ r.index > ses.expected + 1
        BY <2>3, <2>4, <2>5, Zenon
      <4>4. \A q, r \in s.chunks : q.index = r.index => q = r
        BY <2>5, <1>0, Zenon DEF PeerWritten
      <4>5. (\A r \in ses.chunks : Asked(r) /\ r.index > ses.expected)'
        BY <4>3, <3>1, <2>5, AskedNext, Zenon
      <4>6. (job.on => Asked(job.req))'
        BY <3>1, <2>5, AskedNext, Zenon
      <4> QED BY <4>2, <4>4, <4>5, <4>6, <3>1, <1>0, Zenon DEF PeerWritten
    <3> QED BY <3>2, <3>3, <3>6, <3>9, Zenon DEF AnyOrder
  <2>6. CASE Ready = {} /\ Respond(Moved, Idle, Outcome, job.req.index)
    <3>1. ~Idle.on /\ Idle.at = 1
      BY DEF Idle
    <3>2. \A r \in ses.chunks : r.index # ses.expected + 1
      BY <2>2, <2>6, Zenon DEF Ready
    <3> QED BY <2>2, <2>5, <2>6, <3>1, <3>2, Zenon
  <2>7. ASSUME NEW r \in Ready,
               Respond([Moved EXCEPT !.chunks = @ \ {r}], [on |-> TRUE, req |-> r, at |-> 1],
                       Outcome, job.req.index)
        PROVE  AnyOrder' /\ Server'
    <3> DEFINE s == [Moved EXCEPT !.chunks = @ \ {r}]
               n == [on |-> TRUE, req |-> r, at |-> 1]
    <3>1. /\ s.expected = ses.expected + 1 /\ s.written = ses.written /\ s.part = ses.part
          /\ s.chunks = ses.chunks \ {r}
      BY <2>2 DEF Sessions
    <3>2. n.on /\ n.req = r /\ n.at = 1
      OBVIOUS
    <3>3. r \in ses.chunks /\ r.index = ses.expected + 1 /\ Asked(r)
      BY <2>2, <2>3, <2>7, Zenon DEF Ready
    <3>4. Respond(s, n, Outcome, job.req.index)
      BY <2>7
    <3> HIDE DEF s, n
    <3>5. \A q \in s.chunks : q.index # ses.expected + 1
      BY <3>1, <3>3, <1>0, Zenon DEF PeerWritten
    <3> QED BY <3>1, <3>2, <3>3, <3>4, <3>5, <2>5, Zenon
  <2> QED BY <2>6, <2>7, <1>3, Zenon DEF ChunkProcessed
<1> QED BY <1>1, <1>2, <1>3

----------------------------------------------------------------------------
(* The session *)

\* A step on which nobody else looks, of the network or of nobody.
LEMMA QuietStep ==
    ASSUME Holds, UNCHANGED <<set, snd, up, down, live, ses, job, introduced>>
    PROVE  Server' /\ (~set.anyOrder => Turns') /\ (set.anyOrder => AnyOrder')
<1>0. TypeOK /\ Server
  BY HoldsParts, Zenon
<1>1. Server'
  BY <1>0, ServerKept, Zenon DEF Server, Good
<1>2. ASSUME ~set.anyOrder PROVE Turns'
  <2>1. Turns /\ Buffer /\ Place(snd') = Place(snd)
    BY <1>2, HoldsParts, Zenon DEF Turns
  <2>2. Buffer' /\ Sent' = Sent /\ (\A i : Good(i)' <=> Good(i)) /\ Taken' = Taken /\ Reads' = Reads
    BY <2>1, BufferKept, TakenSame, SameTypes, Zenon
  <2>3. (Level => Level') /\ Begun' = Begun /\ Completion' = Completion
    BY <2>2, LevelKept, Zenon DEF Begun, Completion
  <2>4. (Fills => Fills') /\ (Asks => Asks') /\ (Writes => Writes') /\ (Ends => Ends')
    <3>1. \A c \in BOOLEAN : Chunk(snd.index, snd.buf, snd.index = 0, c)' = Chunk(snd.index, snd.buf, snd.index = 0, c)
      BY Zenon DEF Chunk
    <3>2. Asks => Asks'
      BY <2>3, <3>1, Zenon DEF Asks
    <3> QED BY <2>2, <2>3, <3>2, Zenon DEF Fills, Writes, Ends
  <2>5. (Accepts => Accepts') /\ (Refuses => Refuses') /\ (Completes => Completes')
    BY <2>2, <2>3, Zenon DEF Accepts, Refuses, Completes
  <2> QED BY <2>1, <2>2, <2>4, <2>5, Zenon DEF Turns
<1>3. ASSUME set.anyOrder PROVE AnyOrder'
  <2>1. PeerWritten /\ PeerStream /\ PeerAnswers
    BY <1>3, HoldsParts, Zenon DEF AnyOrder
  <2>2. PeerWritten' /\ \A k : Kept(k)' <=> Kept(k)
    BY <2>1, PeerWrittenKept, Zenon
  <2>3. PeerStream'
    BY <2>1, StreamKept, Zenon
  <2>4. PeerAnswers'
    BY <2>1, <2>2, Zenon DEF PeerAnswers
  <2> QED BY <2>2, <2>3, <2>4, Zenon DEF AnyOrder
<1> QED BY <1>1, <1>2, <1>3

\* A delivered session stays so: no part is taken back.
LEMMA DeliveredKept ==
    ASSUME Delivered, set' = set, introduced \subseteq introduced', snd.failed \subseteq snd'.failed
    PROVE  Delivered'
    BY SameTypes, Zenon DEF Delivered

\* At the completion nothing of a part that did not fail is missing.
LEMMA AllTaken ==
    ASSUME Holds, ~job.on, up # <<>>, Head(up) = Completion
    PROVE  \A i \in Reads : Good(i) => i \in Taken
<1>0. TypeOK /\ Server /\ set \in Settings /\ up \in Streams /\ ses \in Sessions /\ ses.expected \in Nat
  BY HoldsParts, TypesNow, ServerFields, Zenon
<1>1. CASE ~set.anyOrder
  <2>1. Turns
    BY <1>1, HoldsParts, Zenon
  <2>2. ~Asks
    BY DEF Asks, Chunk, Completion
  <2> QED BY <2>1, <2>2, Zenon DEF Turns, Fills, Writes, Accepts, Refuses, Completes, Ends
<1>2. CASE set.anyOrder
  <2>1. PeerWritten /\ PeerStream /\ PeerAnswers
    BY <1>2, HoldsParts, Zenon DEF AnyOrder
  <2>2. 1 \in DOMAIN up /\ up[1] = Completion
    BY <1>0 DEF Streams
  <2>3. snd.accepted = Chunks
    BY <2>1, <2>2, Zenon DEF PeerStream
  <2>4. \A k \in Chunks : k < ses.expected \/ \E r \in ses.chunks : r.index = k
    BY <2>1, <2>3, Zenon DEF PeerAnswers, Kept
  <2> DEFINE b == ses.expected * set.chunk
             L == Len(set.layout)
  <2>5. /\ L \in Nat /\ Reads = 1 .. L /\ set.chunk \in Nat \ {0}
    BY <1>0, SettingFacts
  <2>6. b \in Nat /\ ses.expected <= b
    BY <1>0, <2>5, Products
  <2>7. ~(b < L)
    <3>1. SUFFICES ASSUME b < L PROVE FALSE
      OBVIOUS
    <3>2. ses.expected \in Chunks
      <4>1. ses.expected \in 0 .. L
        BY <1>0, <2>5, <2>6, <3>1
      <4> QED BY <4>1, <3>1, Zenon DEF Chunks
    <3>3. ~(ses.expected < ses.expected)
      BY <1>0
    <3>4. PICK r \in ses.chunks : r.index = ses.expected
      BY <2>4, <3>2, <3>3, Zenon
    <3>5. r.index > ses.expected
      BY <3>4, <2>1, Zenon DEF PeerWritten
    <3> QED BY <3>3, <3>4, <3>5
  <2>8. \A i \in Reads : i <= b
    BY <2>5, <2>6, <2>7
  <2> QED BY <2>1, <2>8, Zenon DEF PeerWritten
<1> QED BY <1>1, <1>2

\* A client that had nothing to send reports success: there was no part.
LEMMA NothingSent ==
    ASSUME Holds, ~set.anyOrder, snd.pc = "read", snd.buf = <<>>, Pending = {}, snd.index = 0,
           snd.failed = {}
    PROVE  Delivered
<1>0. TypeOK /\ Turns /\ set \in Settings /\ snd.cursor \in Nat
  BY HoldsParts, TypesNow, SenderFields, Zenon
<1>1. Sent = {}
  BY <1>0, Zenon DEF Turns, Buffer
<1>2. ASSUME NEW i \in Reads PROVE FALSE
  <2>1. i \in 1 .. Len(set.layout) /\ Len(set.layout) \in Nat
    BY <1>0, SettingFacts
  <2>2. i \notin snd.cursor .. Len(set.layout)
    BY Zenon DEF Pending
  <2>3. i < snd.cursor
    BY <2>1, <2>2, <1>0
  <2>4. Range(snd.buf) = {}
    BY Ranges, Zenon
  <2> QED BY <2>3, <2>4, <1>1, Zenon DEF Sent, Good
<1> QED BY <1>2, Zenon DEF Parts, Delivered

\* A step of the client.
LEMMA ClientKeeps ==
    ASSUME IInv, Undisturbed, ClientStep, TypeOK'
    PROVE  IInv'
<1>0. TypeOK /\ IntroducedPartsWhole /\ snd \in Senders /\ down \in Answers
  BY TypesNow, Zenon DEF IInv
<1>1. UNCHANGED <<set, broken, rpc, live, ses, job, introduced>>
  BY Zenon DEF ClientStep, ReadPiece, ReadFail, SendChunk, SendCompletion, RecvResponse, RecvFinal,
     StreamError, PeerSend, PeerResponse, PeerDone, server
<1>2. snd.failed \subseteq snd'.failed
  BY <1>0, Zenon DEF ClientStep, ReadPiece, ReadFail, SendChunk, SendCompletion, RecvResponse, RecvFinal,
     StreamError, PeerSend, PeerResponse, PeerDone, Senders, SendAgain
<1>3. Delivered => Delivered'
  BY <1>1, <1>2, DeliveredKept, Zenon
<1>4. IntroducedPartsWhole'
  BY <1>0, <1>1, WholeNext, Zenon
<1>5. ASSUME rpc = "serving" PROVE Server' /\ (~set.anyOrder => Turns') /\ (set.anyOrder => AnyOrder')
  <2>0. Holds /\ Server
    BY <1>5, HoldsParts, Zenon DEF Holds, IInv
  <2>1. CASE set.anyOrder
    BY <2>0, <2>1, AnyOrderClient, Zenon
  <2>2. CASE ~set.anyOrder
    <3>1. CASE ReadFail
      BY <3>1, <2>0, <2>2, <1>1, TurnsFail, ServerKept, Zenon
    <3>2. CASE ~ReadFail
      <4>1. Turns'
        BY <2>0, <2>2, <3>2, TurnsRead, TurnsClient, Zenon
           DEF ClientStep, PeerSend, PeerResponse, PeerDone
      <4>2. snd'.failed = snd.failed
        BY <3>2, <1>0, Zenon DEF ClientStep, ReadPiece, SendChunk, SendCompletion, RecvResponse, RecvFinal,
           StreamError, PeerSend, PeerResponse, PeerDone, Senders, SendAgain
      <4>3. \A i \in Taken : Good(i)'
        BY <4>2, <2>0, <1>1, Zenon DEF Server, Good
      <4> QED BY <4>1, <4>3, <2>0, <2>2, <1>1, ServerKept, Zenon
    <3> QED BY <3>1, <3>2
  <2> QED BY <2>1, <2>2
<1>6. (\A m \in DOMAIN down : down[m].status = "COMPLETE" => Delivered)'
  <2>1. down' = down \/ (down # <<>> /\ down' = Tail(down))
    BY Zenon DEF ClientStep, ReadPiece, ReadFail, SendChunk, SendCompletion, RecvResponse, RecvFinal,
       StreamError, PeerSend, PeerResponse, PeerDone
  <2>2. \A m \in DOMAIN down' : \E n \in DOMAIN down : down'[m] = down[n]
    <3>1. CASE down' = down
      BY <3>1
    <3>2. CASE down # <<>> /\ down' = Tail(down)
      <4>1. \A m \in DOMAIN down' : m + 1 \in DOMAIN down /\ down'[m] = down[m + 1]
        BY <3>2, <1>0 DEF Answers
      <4> QED BY <4>1, Zenon
    <3> QED BY <3>1, <3>2, <2>1
  <2>3. \A m \in DOMAIN down : down[m].status = "COMPLETE" => Delivered
    BY Zenon DEF IInv
  <2> QED BY <2>2, <2>3, <1>3, Zenon
<1>7. ASSUME snd'.pc = "final", rpc' = "ok" PROVE Delivered
  <2>1. rpc # "serving" /\ rpc = "ok"
    BY <1>1, <1>7
  <2>2. snd.pc = "final"
    BY <1>0, <1>7, <2>1, Zenon DEF ClientStep, ReadPiece, ReadFail, Reading, SendChunk, SendCompletion, Connected,
       RecvResponse, RecvFinal, StreamError, PeerSend, PeerResponse, PeerDone, Senders, SendAgain
  <2> QED BY <2>1, <2>2, Zenon DEF IInv
<1>8. ASSUME snd'.pc = "ok" PROVE Delivered'
  <2>1. SendCompletion \/ RecvFinal \/ StreamError
    BY <1>0, <1>8, Zenon DEF ClientStep, ReadPiece, ReadFail, Reading, SendChunk,
       RecvResponse, PeerSend, PeerResponse, PeerDone, Senders, SendAgain
  <2>2. CASE SendCompletion
    <3>1. /\ ~set.anyOrder /\ rpc = "serving" /\ snd.pc = "read" /\ snd.buf = <<>> /\ Pending = {}
          /\ snd.index = 0 /\ snd.failed = {}
      BY <2>2, <1>0, <1>8 DEF SendCompletion, Connected, Senders
    <3> QED BY <3>1, <1>3, NothingSent, Zenon DEF Holds
  <2>3. CASE RecvFinal
    <3>1. down # <<>> /\ Head(down).status = "COMPLETE"
      BY <2>3, <1>0, <1>8 DEF RecvFinal, Senders
    <3>2. 1 \in DOMAIN down /\ down[1] = Head(down)
      BY <3>1, <1>0 DEF Answers
    <3> QED BY <3>1, <3>2, <1>3, Zenon DEF IInv
  <2>4. CASE StreamError
    <3>1. snd.pc = "final" /\ rpc = "ok"
      BY <2>4, <1>0, <1>8 DEF StreamError, Senders
    <3> QED BY <3>1, <1>3, Zenon DEF IInv
  <2> QED BY <2>1, <2>2, <2>3, <2>4
<1> QED BY <1>1, <1>3, <1>4, <1>5, <1>6, <1>7, <1>8, Zenon DEF IInv

\* The completion: the last part is whole, and every part that did not fail is there.
LEMMA CompletionKeeps ==
    ASSUME Holds, HandleCompletion
    PROVE  /\ ses.part # 0 => Whole([part |-> ses.part, pieces |-> ses.written])
           /\ Delivered'
<1>1. \A i \in Reads : Good(i) => i \in Taken
  BY AllTaken, Zenon DEF HandleCompletion
<1>2. introduced' = FinishSync /\ set' = set /\ snd' = snd
  BY Zenon DEF HandleCompletion, Return, client
<1>3. Parts' = Parts
  BY <1>2, SameTypes, Zenon
<1> QED BY <1>1, <1>2, <1>3, LastPart, Zenon DEF Delivered

\* What the server puts into the shard, and what it answers.
LEMMA ServerOutput ==
    ASSUME Holds, ServerStep
    PROVE  /\ \/ introduced' = introduced
              \/ /\ introduced' = FinishSync
                 /\ ses.part # 0 => Whole([part |-> ses.part, pieces |-> ses.written])
           /\ \/ down' = down
              \/ HandleCompletion
              \/ \E x \in {"RECEIVED", "MISMATCH", "OUT_OF_ORDER", "REFUSED", "VERSION"} : \E i :
                    down' = Append(down, [status |-> x, index |-> i])
           /\ set' = set /\ snd' = snd
           /\ rpc' = "ok" => HandleCompletion \/ snd.pc \in {"ok", "err"}
<1>1. \A s, next, status, index : Respond(s, next, status, index) =>
         /\ down' = down \/ down' = Append(down, [status |-> status, index |-> index])
         /\ set' = set /\ snd' = snd /\ rpc' # "ok"
  <2>1. rpc = "serving" /\ "serving" # "ok" /\ "error" # "ok"
    BY HoldsParts, Zenon
  <2> QED BY <2>1, Zenon DEF Respond, Return, client
<1>s. /\ "RECEIVED" \in {"RECEIVED", "MISMATCH", "OUT_OF_ORDER", "REFUSED", "VERSION"}
      /\ "OUT_OF_ORDER" \in {"RECEIVED", "MISMATCH", "OUT_OF_ORDER", "REFUSED", "VERSION"}
      /\ "VERSION" \in {"RECEIVED", "MISMATCH", "OUT_OF_ORDER", "REFUSED", "VERSION"}
      /\ "REFUSED" \in {"RECEIVED", "MISMATCH", "OUT_OF_ORDER", "REFUSED", "VERSION"}
      /\ Outcome \in {"RECEIVED", "MISMATCH", "OUT_OF_ORDER", "REFUSED", "VERSION"}
      /\ rpc = "serving" /\ "serving" # "ok" /\ "error" # "ok"
  BY HoldsParts, Zenon DEF Outcome
<1>2. CASE ReceiveVersion \/ ReceiveOutOfOrder \/ ReceiveAhead \/ ReceiveOld
  <2>1. Receives /\ introduced' = Switched(Req)
    BY <1>2, Zenon DEF ReceiveVersion, ReceiveOutOfOrder, ReceiveAhead, ReceiveOld
  <2>2. introduced' = introduced
    BY <2>1, ReceiveSame, Zenon
  <2> QED BY <1>1, <1>2, <1>s, <2>2, Zenon DEF ReceiveVersion, ReceiveOutOfOrder, ReceiveAhead, ReceiveOld
<1>3. CASE ReceiveExpected
  <2>1. introduced' = introduced
    BY <1>3, ReceiveSame, Zenon DEF ReceiveExpected
  <2> QED BY <1>3, <1>s, <2>1, Zenon DEF ReceiveExpected, client
<1>4. CASE WritePiece
  BY <1>4, <1>s, PartFinished, Zenon DEF WritePiece, client
<1>5. CASE HandlerFails
  BY <1>5, <1>s, PartFinished, Zenon DEF HandlerFails, Return, client
<1>6. CASE ChunkProcessed
  BY <1>1, <1>6, <1>s, Zenon DEF ChunkProcessed
<1>7. CASE BufferTimeout \/ ServerRecvEnds
  BY <1>7, <1>s, Zenon DEF BufferTimeout, ServerRecvEnds, Return, client
<1>8. CASE HandleCompletion
  BY <1>8, CompletionKeeps, Zenon DEF HandleCompletion, Return, client
<1> QED BY <1>2, <1>3, <1>4, <1>5, <1>6, <1>7, <1>8, Zenon DEF ServerStep

\* A step of the server.
LEMMA ServerKeeps ==
    ASSUME IInv, Undisturbed, ServerStep, TypeOK'
    PROVE  IInv'
<1>0. Holds /\ TypeOK /\ IntroducedPartsWhole /\ down \in Answers
  <2>1. rpc = "serving"
    BY Zenon DEF ServerStep, ReceiveVersion, ReceiveExpected, ReceiveOutOfOrder, ReceiveAhead, ReceiveOld,
       BufferTimeout, Receives, WritePiece, HandlerFails, Writing, ChunkProcessed, HandleCompletion, ServerRecvEnds
  <2> QED BY <2>1, TypesNow, Zenon DEF Holds, IInv
<1>1. set' = set /\ snd' = snd /\ (introduced' = introduced \/ introduced' = FinishSync)
  BY <1>0, ServerOutput, Zenon
<1>2. Delivered => Delivered'
  BY <1>1, DeliveredKept, Zenon DEF FinishSync
<1>3. IntroducedPartsWhole'
  BY <1>0, ServerOutput, WholeNext, Zenon
<1>4. ASSUME rpc' = "serving" PROVE Server' /\ (~set.anyOrder => Turns') /\ (set.anyOrder => AnyOrder')
  <2>1. CASE ~set.anyOrder
    BY <2>1, <1>0, <1>4, TurnsServer, Zenon
  <2>2. CASE set.anyOrder
    <3>1. ~(BufferTimeout \/ HandlerFails \/ HandleCompletion \/ ServerRecvEnds)
      <4>1. "serving" # "ok" /\ "serving" # "error"
        OBVIOUS
      <4> QED BY <4>1, <1>4, Zenon DEF BufferTimeout, HandlerFails, HandleCompletion, ServerRecvEnds, Return
    <3> QED BY <3>1, <2>2, <1>0, <1>4, AnyOrderReceive, AnyOrderProcess, Zenon DEF ServerStep
  <2> QED BY <2>1, <2>2
<1>5. (\A m \in DOMAIN down : down[m].status = "COMPLETE" => Delivered)'
  <2>1. CASE HandleCompletion
    BY <2>1, <1>0, CompletionKeeps, Zenon
  <2>2. \A m \in DOMAIN down : down[m].status = "COMPLETE" => Delivered'
    BY <1>2, Zenon DEF IInv
  <2>3. CASE down' = down
    BY <2>2, <2>3, Zenon
  <2>4. ASSUME NEW x \in {"RECEIVED", "MISMATCH", "OUT_OF_ORDER", "REFUSED", "VERSION"}, NEW i,
               down' = Append(down, [status |-> x, index |-> i])
        PROVE  \A m \in DOMAIN down' : down'[m].status = "COMPLETE" => Delivered'
    <3> DEFINE a == [status |-> x, index |-> i]
    <3>1. a.status # "COMPLETE" /\ down' = Append(down, a)
      BY <2>4
    <3> HIDE DEF a
    <3>2. /\ DOMAIN down' = DOMAIN down \cup {Len(down) + 1}
          /\ \A m \in DOMAIN down : down'[m] = down[m]
          /\ down'[Len(down) + 1] = a
      BY <3>1, <1>0 DEF Answers
    <3> QED BY <3>1, <3>2, <2>2, Zenon
  <2> QED BY <2>1, <2>3, <2>4, <1>0, ServerOutput, Zenon
<1>6. (snd.pc = "final" /\ rpc = "ok" => Delivered)'
  <2>1. CASE HandleCompletion
    BY <2>1, <1>0, CompletionKeeps, Zenon
  <2>2. CASE rpc' = "ok" /\ snd.pc \in {"ok", "err"}
    <3>1. snd.pc # "final"
      BY <2>2
    <3> QED BY <3>1, <1>1, Zenon
  <2> QED BY <2>1, <2>2, <1>0, ServerOutput, Zenon
<1>7. (snd.pc = "ok" => Delivered)'
  BY <1>1, <1>2, Zenon DEF IInv
<1> QED BY <1>1, <1>3, <1>4, <1>5, <1>6, <1>7, Zenon DEF IInv

\* The invariant holds at the start.
LEMMA InvInit ==
    ASSUME Init
    PROVE  IInv
<1>0. TypeOK /\ set \in Settings
  BY TypesInit, TypesNow, Zenon
<1>1. /\ snd.pc = "read" /\ snd.cursor = 1 /\ snd.buf = <<>> /\ snd.failed = {} /\ snd.index = 0
      /\ snd.sends = 0 /\ snd.accepted = {}
      /\ ses.expected = 0 /\ ses.chunks = {} /\ ses.part = 0 /\ ses.written = <<>>
      /\ ~job.on /\ job.at = 1
  BY DEF Init, NewSession, Idle
<1>2. /\ up = <<>> /\ down = <<>> /\ ~live /\ introduced = {} /\ ses = NewSession /\ job = Idle
      /\ rpc = "serving"
  BY DEF Init
<1>3. Taken = {}
  BY <1>1, <1>2, Ranges, Zenon DEF Taken
<1>4. Begun = {}
  BY <1>1 DEF Begun
<1>5. Increasing(<<>>) /\ Range(snd.buf) = {}
  <2>1. Increasing(<<>>)
    BY DEF Increasing
  <2> QED BY <2>1, <1>1, Ranges, Zenon
<1>6. \A i \in Reads : ~(i < 1)
  BY <1>0, SettingFacts
<1>7. Server
  BY <1>1, <1>2, <1>3, <1>5, Ranges, Zenon DEF Server
<1>8. Turns
  <2>1. Sent = {}
    BY <1>1, <1>6, Zenon DEF Sent
  <2>2. Buffer
    BY <2>1, <1>1, <1>5, Zenon DEF Buffer
  <2>3. Level
    <3>1. ~(snd.index > 0)
      BY <1>1
    <3> QED BY <2>1, <3>1, <1>2, <1>3, Zenon DEF Level
  <2> QED BY <2>2, <2>3, <1>1, <1>2, Zenon DEF Turns, Fills
<1>d. DOMAIN up = {} /\ DOMAIN down = {}
  BY <1>2
<1>9. AnyOrder
  <2>1. {i \in Reads : i <= ses.expected * set.chunk} = {}
    <3>1. ses.expected * set.chunk = 0
      BY <1>0, <1>1, SettingFacts
    <3> QED BY <3>1, <1>0, SettingFacts
  <2>2. PeerWritten
    BY <2>1, <1>1, <1>3, <1>4, Zenon DEF PeerWritten
  <2>3. PeerStream
    BY <1>1, <1>2, <1>d DEF PeerStream
  <2>4. PeerAnswers
    BY <1>1, <1>d, Zenon DEF PeerAnswers
  <2> QED BY <2>2, <2>3, <2>4, Zenon DEF AnyOrder
<1>10. IntroducedPartsWhole
  BY <1>2, Zenon DEF IntroducedPartsWhole
<1> QED BY <1>0, <1>1, <1>2, <1>7, <1>8, <1>9, <1>10, <1>d DEF IInv

\* Every step keeps the invariant, as long as nothing disturbs the session.
LEMMA InvStep ==
    ASSUME IInv, Undisturbed, [Next]_vars
    PROVE  IInv'
<1>0. TypeOK' /\ TypeOK /\ IntroducedPartsWhole
  BY TypesStep, Zenon DEF IInv
<1>1. CASE ClientStep
  BY <1>0, <1>1, ClientKeeps, Zenon
<1>2. CASE ServerStep
  BY <1>0, <1>2, ServerKeeps, Zenon
<1>3. CASE Break \/ UNCHANGED vars
  <2>1. UNCHANGED <<set, snd, up, down, rpc, live, ses, job, introduced>>
    BY <1>3, Zenon DEF Break, client, server, vars
  <2>2. Delivered => Delivered'
    BY <2>1, DeliveredKept, Zenon
  <2>3. IntroducedPartsWhole'
    BY <1>0, <2>1, WholeNext, Zenon
  <2>4. rpc = "serving" => Server' /\ (~set.anyOrder => Turns') /\ (set.anyOrder => AnyOrder')
    BY <2>1, QuietStep, Zenon DEF Holds
  <2> QED BY <1>0, <2>1, <2>2, <2>3, <2>4, Zenon DEF IInv
<1> QED BY <1>1, <1>2, <1>3, Zenon DEF Next

\* Every variable of client and server stays in its range: in particular sendChunk
\* never counts more than maxRetries attempts.
THEOREM TypesHold == Spec => []TypeOK
<1>1. Init => TypeOK
  BY TypesInit
<1>2. TypeOK /\ [Next]_vars => TypeOK'
  BY TypesStep
<1> QED BY <1>1, <1>2, PTL DEF Spec

\* The inductive invariant holds throughout an undisturbed session.
LEMMA InvHolds == Spec /\ []Undisturbed => []IInv
<1>1. Init => IInv
  BY InvInit
<1>2. IInv /\ Undisturbed /\ [Next]_vars => IInv'
  BY InvStep
<1> QED BY <1>1, <1>2, PTL DEF Spec

\* Whatever order, repetition or interruption the chunks of a session go through, the
\* data node puts only whole parts into its shard, their data in the order of the files
\* (processPart, handleCompletion, and Close of a session that ends early), as long as
\* no read fails beside or after data of its part and no reordering server gets a corrupt chunk.
THEOREM WholePartsIntroduced == Spec /\ []Undisturbed => []IntroducedPartsWhole
<1>1. IInv => IntroducedPartsWhole
  BY Zenon DEF IInv
<1> QED BY <1>1, InvHolds, PTL

\* When SyncStreamingParts returns a result, every part it does not list as failed is on
\* the data node with all of its data, under the same conditions.
THEOREM ReportedIsDelivered == Spec /\ []Undisturbed => []ReportedPartsDelivered
<1>1. IInv => ReportedPartsDelivered
  BY Zenon DEF IInv, IntroducedPartsWhole, Delivered, ReportedPartsDelivered
<1> QED BY <1>1, InvHolds, PTL
=============================================================================
