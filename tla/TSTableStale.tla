---------------------------- MODULE TSTableStale ----------------------------
(***************************************************************************)
(* What a loop may rely on although its snapshot is stale: nobody but the  *)
(* loop itself takes the parts it is going to consume out of the table,    *)
(* and a memory part gets its directory from the flusher alone.  With that *)
(* no row is in two parts of the table until the second crash.             *)
(***************************************************************************)
EXTENDS TSTableContract

-----------------------------------------------------------------------------
(* What a round counts on *)

\* The flusher consumes memory parts, the merger and the syncer file parts.
KindOf(p) == IF p = "flusher" THEN "mem" ELSE "file"
OfKind(k, S) == {w \in S : Kind(w) = k}

\* Loop p may still consume parts of its snapshot: those of its kind, without
\* the ones it has consumed before in this round.
Active(p) ==
    \/ pc[p] \in {"ready", "merge", "flush", "send", "sendFlush"}
    \/ p = "flusher" /\ pc[p] = "applied" /\ work[p] # {}
Past(p) ==
    IF p # "flusher" THEN {} ELSE IF pc[p] = "applied" THEN done \cup work[p] ELSE done
Wanted(p) ==
    IF Active(p) THEN {w \in OfKind(KindOf(p), Snapshot(p)) : PartID(w) \notin Past(p)} ELSE {}
Among(p, I) == \A i \in I : <<KindOf(p), i>> \in Wanted(p)

\* They are in the current snapshot, and the parts p works on are among them.
Fits(p) ==
    /\ Wanted(p) \subseteq Snapshot("table")
    /\ pc[p] \in {"merge", "send"} => work[p] # {} /\ Among(p, work[p])
    /\ pc[p] \in {"flush", "sendFlush"} =>
          /\ p = "flusher" /\ Among(p, work[p] \cup out[p])
          /\ pc[p] = "sendFlush" => work[p] = {}

\* The snapshot that is about to become the current one has them as well: the
\* loop whose outcome it brings waits, and it keeps all parts that the other
\* loops may consume.
Spares(p) ==
    IF p = client THEN Wanted(p) \subseteq Snapshot("next")
    ELSE OfKind(KindOf(p), Snapshot("table")) \subseteq Snapshot("next")

RoundFits ==
    /\ \A p \in Loops : Fits(p)
    /\ ipc = "replace" => \A p \in Loops : Spares(p)
    /\ ipc \in {"replace", "persist", "applied"} /\ client # "none" => pc[client] = "applied"

-----------------------------------------------------------------------------
(* Memory parts and file parts *)

\* No memory part has identifier i.
MemFree(i) == <<"mem", i>> \notin queued /\ \A e \in Epoch : <<"mem", i>> \notin parts[e]
AllMemFree(I) == \A i \in I : MemFree(i)
OneKind(S) == \A i \in ID : ~(<<"mem", i>> \in S /\ <<"file", i>> \in S)
Outcome(p) == IF pc[p] \in {"merge", "send"} THEN out[p] ELSE {}

\* A part is in memory or in a file, and the identifiers of merged and received
\* parts are their own.
KindsApart ==
    /\ \A p \in Loops : AllMemFree(Outcome(p))
    /\ \A r \in Receivers : session[r] # 0 => MemFree(session[r])
    /\ OneKind(Snapshot("table") \cup queued)
    /\ ipc = "replace" => OneKind(Snapshot("next") \cup queued)

InMemory(i) == <<"mem", i>> \in Latest \cup queued
BeingFlushed(i) ==
    /\ "flusher" \in Loops /\ pc["flusher"] \in {"flush", "sendFlush"}
    /\ i \in work["flusher"] \cup out["flusher"]

\* A memory part has a directory only while it is flushed.
DirsApart ==
    /\ \A i \in ID : InMemory(i) /\ dir[i] # "none" => BeingFlushed(i)
    /\ FlushDirFresh

StaleInv == RoundFits /\ KindsApart /\ DirsApart

-----------------------------------------------------------------------------
(* Steps that leave the snapshots alone *)

\* Loop q does not move, and nobody takes its snapshot away.
SameLoop(q) ==
    /\ pc'[q] = pc[q] /\ work'[q] = work[q] /\ out'[q] = out[q]
    /\ Snapshot(q)' = Snapshot(q)
    /\ q = "flusher" => done' = done

\* The introducer does not move.
SameIntro ==
    /\ ipc' = ipc /\ client' = client
    /\ Snapshot("table")' = Snapshot("table") /\ Snapshot("next")' = Snapshot("next")

\* The introducer goes on after it replaced the snapshot.
AfterIntro == ipc # "replace" /\ ipc' # "replace" /\ Snapshot("table")' = Snapshot("table")

\* A loop that does not move wants the same parts.
LEMMA WantedSame ==
    ASSUME NEW q, SameLoop(q)
    PROVE  Wanted(q)' = Wanted(q) /\ \A I : Among(q, I)' = Among(q, I)
<1>1. Active(q)' = Active(q) /\ Past(q)' = Past(q)
  BY Zenon DEF SameLoop, Active, Past
<1>2. Wanted(q)' = Wanted(q)
  BY Zenon, <1>1 DEF SameLoop, Wanted, OfKind
<1> QED
  BY Zenon, <1>2 DEF Among

\* It still fits if the current snapshot keeps what it wants.
LEMMA FitsSame ==
    ASSUME NEW q, SameLoop(q), Fits(q), Wanted(q) \subseteq Snapshot("table")'
    PROVE  Fits(q)'
<1>1. Wanted(q)' \subseteq Snapshot("table")'
  BY Zenon, WantedSame
<1>2. pc'[q] = pc[q] /\ work'[q] = work[q] /\ out'[q] = out[q]
  BY Zenon DEF SameLoop
<1>3. pc'[q] \in {"merge", "send"} => work'[q] # {} /\ Among(q, work[q])'
  BY Zenon, <1>2, WantedSame DEF Fits, Among
<1>4. pc'[q] \in {"flush", "sendFlush"} =>
          /\ q = "flusher" /\ Among(q, work[q] \cup out[q])'
          /\ pc'[q] = "sendFlush" => work'[q] = {}
  BY Zenon, <1>2, WantedSame DEF Fits, Among
<1> QED
  BY Zenon, <1>1, <1>3, <1>4 DEF Fits

\* Only loop p moves; it is not waiting for the introducer.
LEMMA MoveFits ==
    ASSUME RoundFits, SameIntro, NEW p, p \in Loops => pc[p] # "applied" /\ Fits(p)',
           \A q \in Loops : q # p => SameLoop(q), client \in Loops \cup {"none"}
    PROVE  RoundFits'
<1>1. \A q \in Loops : Fits(q)'
  BY Zenon, FitsSame DEF RoundFits, SameIntro, Fits
<1>2. ASSUME ipc' = "replace"
      PROVE  \A q \in Loops : Spares(q)'
  <2>1. ipc = "replace" /\ \A q \in Loops : Spares(q)
    BY Zenon, <1>2 DEF SameIntro, RoundFits
  <2>2. client # "none" => pc[client] = "applied"
    BY Zenon, <2>1 DEF RoundFits
  <2>3. \A q \in Loops : q = client => Wanted(q)' = Wanted(q)
    BY Zenon, <2>2, WantedSame, TSTableAssumption
  <2> QED
    BY Zenon, <2>1, <2>3 DEF Spares, SameIntro, OfKind
<1>3. ipc' \in {"replace", "persist", "applied"} /\ client' # "none" => pc'[client'] = "applied"
  <2>1. ASSUME ipc \in {"replace", "persist", "applied"}, client # "none"
        PROVE  pc'[client] = "applied"
    <3>1. client \in Loops /\ pc[client] = "applied"
      BY Zenon, <2>1 DEF RoundFits
    <3> QED
      BY Zenon, <3>1 DEF SameLoop
  <2> QED
    BY Zenon, <2>1 DEF SameIntro
<1> QED
  BY Zenon, <1>1, <1>2, <1>3 DEF RoundFits

\* No memory part comes into being, and the loops and sessions have no
\* outcomes but those they had and those whose identifier is not in memory.
LEMMA MoveKinds ==
    ASSUME KindsApart, SameIntro \/ AfterIntro, queued' = queued,
           \A e \in Epoch : parts'[e] \subseteq parts[e],
           \A q \in Loops : Outcome(q)' \subseteq Outcome(q) \/ AllMemFree(Outcome(q)'),
           \A r \in Receivers : session'[r] \in {0, session[r]} \/ MemFree(session'[r])
    PROVE  KindsApart'
<1>1. \A i : MemFree(i) => MemFree(i)'
  BY Zenon DEF MemFree
<1>2. \A q \in Loops : AllMemFree(Outcome(q))'
  BY Zenon, <1>1 DEF KindsApart, AllMemFree
<1>3. \A r \in Receivers : session'[r] # 0 => MemFree(session[r])'
  BY Zenon, <1>1 DEF KindsApart, MemFree
<1> QED
  BY Zenon, <1>2, <1>3 DEF KindsApart, SameIntro, AfterIntro, OneKind

\* A directory appears only for identifiers that are not in memory, or that
\* the flusher flushes.
LEMMA MoveDirs ==
    ASSUME DirsApart, FlushDirFresh',
           \A i \in ID : InMemory(i)' => InMemory(i) \/ dir'[i] = "none",
           \A i \in ID : dir'[i] # "none" => dir[i] # "none" \/ ~InMemory(i) \/ BeingFlushed(i)',
           \A i \in ID : InMemory(i)' /\ BeingFlushed(i) => BeingFlushed(i)'
    PROVE  DirsApart'
BY Zenon DEF DirsApart

\* Nothing leaves or enters the snapshots and the queue.
LEMMA SameMemory ==
    ASSUME SameIntro, queued' = queued
    PROVE  Latest' = Latest /\ \A i : InMemory(i)' = InMemory(i)
BY Zenon DEF SameIntro, Latest, InMemory

\* The snapshots stay, and with them what the loops see and the introducer does.
LEMMA StillSame ==
    ASSUME UNCHANGED <<held, parts>>
    PROVE  /\ \A h : Snapshot(h)' = Snapshot(h)
           /\ UNCHANGED <<ipc, client>> => SameIntro
           /\ UNCHANGED <<pc, work, out, done>> =>
                 \A q : SameLoop(q) /\ Outcome(q)' = Outcome(q)
           /\ \A i \in ID : UNCHANGED <<pc, work, out>> => BeingFlushed(i)' = BeingFlushed(i)
<1>1. \A h : Snapshot(h)' = Snapshot(h)
  BY Zenon DEF Snapshot
<1> QED
  BY Zenon, <1>1 DEF SameIntro, SameLoop, Outcome, BeingFlushed

\* Nobody moves.
LEMMA StillFits ==
    ASSUME IInv, RoundFits, UNCHANGED <<held, parts, ipc, client, pc, work, out, done>>
    PROVE  RoundFits'
<1>1. "none" \notin Loops /\ client \in Loops \cup {"none"}
  BY Zenon, TSTableAssumption DEF IInv, TypeOK
<1>2. SameIntro /\ \A q \in Loops : SameLoop(q)
  BY Zenon, StillSame
<1> QED
  BY Zenon, <1>1, <1>2, MoveFits

\* An identifier above curPartID is not in use.
LEMMA NewIDFree ==
    ASSUME IInv, NEW i \in ID, i = curPartID + 1
    PROVE  /\ MemFree(i) /\ ~InMemory(i)
           /\ \A e \in Epoch, k \in {"mem", "file"} : <<k, i>> \notin parts[e]
           /\ \A k \in {"mem", "file"} : <<k, i>> \notin queued
           /\ status = "up" => dir[i] = "none"
<1>1. \A j \in Nat : j <= curPartID => j # i
  BY Zenon, NextID DEF IInv
<1>2. \A k \in {"mem", "file"} : <<k, i>> \in Part /\ PartID(<<k, i>>) = i /\ i \in Nat
  BY Zenon, Numbers DEF IInv, Part, PartID
<1>3. \A e \in Epoch, k \in {"mem", "file"} : <<k, i>> \notin parts[e]
  BY Zenon, <1>1, <1>2 DEF IInv, IDsBelow
<1>4. \A k \in {"mem", "file"} : <<k, i>> \notin queued
  BY Zenon, <1>1, <1>2 DEF IInv, IDsBelow
<1>5. MemFree(i)
  BY Zenon, <1>3, <1>4 DEF MemFree
<1>6. \A h \in {"table", "next"} : <<"mem", i>> \notin Snapshot(h)
  BY Zenon, <1>3, Numbers DEF IInv, TypeOK, Snapshot
<1>7. ~InMemory(i)
  BY Zenon, <1>4, <1>6 DEF InMemory, Latest
<1>8. status = "up" => dir[i] = "none"
  BY Zenon, NextID DEF IInv, IDsBelow
<1> QED
  BY Zenon, <1>3, <1>4, <1>5, <1>7, <1>8

-----------------------------------------------------------------------------
(* Arrivals and removals *)

\* What the flusher flushes is a memory part of the current snapshot.
LEMMA FlushedInMemory ==
    ASSUME IInv, RoundFits, NEW i \in ID, BeingFlushed(i)
    PROVE  <<"mem", i>> \in Snapshot("table") /\ ~MemFree(i)
<1>1. "flusher" \in Loops /\ Among("flusher", work["flusher"] \cup out["flusher"])
  BY Zenon DEF BeingFlushed, RoundFits, Fits
<1>2. KindOf("flusher") = "mem"
  BY Zenon DEF KindOf
<1>3. <<"mem", i>> \in Wanted("flusher")
  BY Zenon, <1>1, <1>2 DEF Among, BeingFlushed
<1>4. <<"mem", i>> \in Snapshot("table")
  BY Zenon, <1>1, <1>3 DEF RoundFits, Fits
<1>5. held["table"] \in {0} \cup Epoch
  BY Zenon, Numbers DEF IInv, TypeOK
<1> QED
  BY Zenon, <1>4, <1>5 DEF Snapshot, MemFree

\* A step that touches directories only, none of a part in memory.
LEMMA DirStep ==
    ASSUME IInv, StaleInv,
           UNCHANGED <<held, parts, ipc, client, pc, work, out, done, queued>>,
           \A j \in ID : dir'[j] = dir[j] \/ dir'[j] = "none" \/ MemFree(j)
    PROVE  DirsApart'
<1>1. SameIntro /\ \A j \in ID : InMemory(j)' = InMemory(j) /\ BeingFlushed(j)' = BeingFlushed(j)
  BY Zenon, StillSame, SameMemory
<1>2. \A j \in ID : MemFree(j) => ~InMemory(j)
  BY Zenon, Numbers DEF MemFree, InMemory, Latest, Snapshot, IInv, TypeOK
<1>3. FlushDirFresh'
  <2> SUFFICES ASSUME "flusher" \in Loops, pc'["flusher"] = "flush", NEW j \in work'["flusher"]
               PROVE  dir'[j] # "full"
    BY Zenon DEF FlushDirFresh
  <2>1. pc["flusher"] = "flush" /\ j \in work["flusher"] /\ j \in ID
    BY Zenon DEF IInv, TypeOK
  <2>2. BeingFlushed(j)
    BY Zenon, <2>1 DEF BeingFlushed
  <2>3. dir'[j] = dir[j] \/ dir'[j] = "none"
    BY Zenon, <2>1, <2>2, FlushedInMemory DEF StaleInv
  <2>4. dir[j] # "full"
    BY Zenon, <2>1 DEF StaleInv, DirsApart, FlushDirFresh
  <2> QED
    BY Zenon, <2>3, <2>4
<1> QED
  BY Zenon, <1>1, <1>2, <1>3, MoveDirs DEF StaleInv

\* A memory part arrives.
LEMMA AddMemStale ==
    ASSUME IInv, StaleInv, NEW w \in Writes, MustAddMemPart(w)
    PROVE  StaleInv'
<1>i. PICK i \in ID : i = curPartID + 1
  BY Zenon, CounterID DEF MustAddMemPart, IInv
<1> DEFINE m == <<"mem", i>>
<1>0. /\ UNCHANGED <<dir, parts, held, session, pc, work, out, done, ipc, client>>
      /\ status = "up" /\ queued' = queued \cup {m}
  BY Zenon, <1>i DEF MustAddMemPart, loops, intro
<1>1. RoundFits' /\ SameIntro /\ \A q : Outcome(q)' = Outcome(q)
  BY Zenon, <1>0, StillFits, StillSame DEF StaleInv
<1>2. \A j : j # i /\ MemFree(j) => MemFree(j)'
  <2>1. \A j : j # i => <<"mem", j>> # m
    BY Zenon
  <2> QED
    BY Zenon, <1>0, <2>1 DEF MemFree
<1>3. ASSUME NEW S, OneKind(S \cup queued), <<"file", i>> \notin S
      PROVE  OneKind(S \cup queued')
  <2>1. <<"file", i>> \notin queued
    BY Zenon, <1>i, NewIDFree
  <2>2. \A j \in ID : (j # i => <<"mem", j>> # m) /\ <<"file", j>> # m
    BY Zenon
  <2> QED
    BY Zenon, <1>0, <1>3, <2>1, <2>2 DEF OneKind
<1>4. KindsApart'
  <2>1. \A j \in Nat : j <= curPartID => j # i
    BY Zenon, <1>i, NextID DEF IInv
  <2>2. \A q \in Loops : \A j \in Outcome(q) : j # i
    BY Zenon, <2>1, Numbers, OwnedIDs DEF IInv, IDsBelow, Outcome
  <2>3. \A r \in Receivers : session[r] # i
    BY Zenon, <2>1, Numbers DEF IInv, IDsBelow
  <2>4. \A h \in {"table", "next"} : <<"file", i>> \notin Snapshot(h)
    BY Zenon, <1>i, NewIDFree, Numbers DEF IInv, TypeOK, Snapshot
  <2>5. \A q \in Loops : AllMemFree(Outcome(q))'
    BY Zenon, <1>1, <1>2, <2>2 DEF StaleInv, KindsApart, AllMemFree
  <2>6. \A r \in Receivers : session'[r] # 0 => MemFree(session[r])'
    BY Zenon, <1>0, <1>2, <2>3 DEF StaleInv, KindsApart, MemFree
  <2>7. OneKind(Snapshot("table") \cup queued')
    BY Zenon, <1>3, <2>4 DEF StaleInv, KindsApart
  <2>8. ipc = "replace" => OneKind(Snapshot("next") \cup queued')
    BY Zenon, <1>3, <2>4 DEF StaleInv, KindsApart
  <2> QED
    BY Zenon, <1>1, <2>5, <2>6, <2>7, <2>8 DEF KindsApart, SameIntro, OneKind
<1>5. DirsApart'
  <2>1. \A j \in ID : InMemory(j)' => InMemory(j) \/ dir'[j] = "none"
    <3>1. Latest' = Latest
      BY Zenon, <1>1 DEF SameIntro, Latest
    <3>2. dir'[i] = "none"
      BY Zenon, <1>i, <1>0, NewIDFree
    <3>3. \A j : <<"mem", j>> = m => j = i
      BY Zenon
    <3> QED
      BY Zenon, <1>0, <3>1, <3>2, <3>3 DEF InMemory
  <2>2. \A j \in ID : BeingFlushed(j)' = BeingFlushed(j)
    BY Zenon, <1>0, StillSame
  <2>3. FlushDirFresh'
    BY Zenon, <1>0 DEF StaleInv, DirsApart, FlushDirFresh
  <2> QED
    BY Zenon, <1>0, <2>1, <2>2, <2>3, MoveDirs DEF StaleInv
<1> QED
  BY Zenon, <1>1, <1>4, <1>5 DEF StaleInv

\* A sync session takes a new identifier, or gives its part up; a directory
\* that nobody needs goes away.
LEMMA SessionStale ==
    ASSUME IInv, StaleInv,
           \/ \E r \in Receivers, w \in Writes : CreatePartHandler(r, w)
           \/ \E r \in Receivers : AbortSync(r)
           \/ \E i \in ID : MustRMAll(i)
    PROVE  StaleInv'
<1>0. UNCHANGED <<held, parts, ipc, client, pc, work, out, done, queued>>
  BY Zenon DEF CreatePartHandler, AbortSync, MustRMAll, counts, loops, intro
<1>1. /\ dir \in [ID -> {"none", "partial", "full"}] /\ session \in [Receivers -> {0} \cup ID]
  BY Zenon DEF IInv, TypeOK
<1>2. /\ \A j \in ID : dir'[j] = dir[j] \/ dir'[j] = "none" \/ MemFree(j)
      /\ \A r \in Receivers : session'[r] \in {0, session[r]} \/ MemFree(session'[r])
  <2>1. CASE \E r \in Receivers, w \in Writes : CreatePartHandler(r, w)
    <3>1. PICK s \in Receivers, w \in Writes : CreatePartHandler(s, w)
      BY Zenon, <2>1
    <3>2. PICK i \in ID : i = curPartID + 1
      BY Zenon, <3>1, CounterID DEF CreatePartHandler, IInv
    <3>3. dir' = [dir EXCEPT ![i] = "partial"] /\ session' = [session EXCEPT ![s] = i]
      BY Zenon, <3>1, <3>2 DEF CreatePartHandler
    <3>4. MemFree(i)
      BY Zenon, <3>2, NewIDFree
    <3> QED
      BY Zenon, <1>1, <3>3, <3>4
  <2>2. CASE \E r \in Receivers : AbortSync(r)
    BY Zenon, <1>1, <2>2 DEF AbortSync
  <2>3. CASE \E i \in ID : MustRMAll(i)
    BY Zenon, <1>1, <2>3 DEF MustRMAll
  <2> QED
    BY Zenon, <2>1, <2>2, <2>3
<1>3. RoundFits' /\ DirsApart'
  BY Zenon, <1>0, <1>2, StillFits, DirStep DEF StaleInv
<1>4. KindsApart'
  BY Zenon, <1>0, <1>2, StillSame, MoveKinds DEF StaleInv
<1> QED
  BY Zenon, <1>3, <1>4 DEF StaleInv

\* A received part is complete and waits for the introducer.
LEMMA FinishSyncStale ==
    ASSUME IInv, StaleInv, NEW r \in Receivers, FinishSync(r)
    PROVE  StaleInv'
<1>i. PICK i \in ID : i = session[r] /\ i # 0
  BY Zenon, Numbers DEF FinishSync, IInv, TypeOK
<1>0. /\ UNCHANGED <<parts, held, session, pc, work, out, done, ipc, client>>
      /\ dir' = [dir EXCEPT ![i] = "full"] /\ queued' = queued \cup {<<"file", i>>}
  BY Zenon, <1>i DEF FinishSync, loops, intro
<1>1. RoundFits' /\ SameIntro /\ \A q : Outcome(q)' = Outcome(q)
  BY Zenon, <1>0, StillFits, StillSame DEF StaleInv
<1>2. MemFree(i) /\ \A j : MemFree(j) => MemFree(j)'
  <2>1. \A j : <<"mem", j>> # <<"file", i>>
    BY Zenon
  <2> QED
    BY Zenon, <1>i, <1>0, <2>1 DEF MemFree, StaleInv, KindsApart
<1>3. ASSUME NEW S, OneKind(S \cup queued), <<"mem", i>> \notin S
      PROVE  OneKind(S \cup queued')
  <2>1. <<"mem", i>> \notin queued
    BY Zenon, <1>2 DEF MemFree
  <2>2. \A j \in ID : (j # i => <<"file", j>> # <<"file", i>>) /\ <<"mem", j>> # <<"file", i>>
    BY Zenon
  <2> QED
    BY Zenon, <1>0, <1>3, <2>1, <2>2 DEF OneKind
<1>4. \A h \in {"table", "next"} : <<"mem", i>> \notin Snapshot(h)
  BY Zenon, <1>2, Numbers DEF IInv, TypeOK, Snapshot, MemFree
<1>5. KindsApart'
  <2>5. \A q \in Loops : AllMemFree(Outcome(q))'
    BY Zenon, <1>1, <1>2 DEF StaleInv, KindsApart, AllMemFree
  <2>6. \A s \in Receivers : session'[s] # 0 => MemFree(session[s])'
    BY Zenon, <1>0, <1>2 DEF StaleInv, KindsApart, MemFree
  <2>7. OneKind(Snapshot("table") \cup queued')
    BY Zenon, <1>3, <1>4 DEF StaleInv, KindsApart
  <2>8. ipc = "replace" => OneKind(Snapshot("next") \cup queued')
    BY Zenon, <1>3, <1>4 DEF StaleInv, KindsApart
  <2> QED
    BY Zenon, <1>1, <2>5, <2>6, <2>7, <2>8 DEF KindsApart, SameIntro, OneKind
<1>6. DirsApart'
  <2>1. \A j \in ID : InMemory(j)' => InMemory(j)
    <3>1. Latest' = Latest
      BY Zenon, <1>1 DEF SameIntro, Latest
    <3>2. \A j : <<"mem", j>> # <<"file", i>>
      BY Zenon
    <3> QED
      BY Zenon, <1>0, <3>1, <3>2 DEF InMemory
  <2>2. \A j \in ID : BeingFlushed(j)' = BeingFlushed(j)
    BY Zenon, <1>0, StillSame
  <2>3. \A j \in ID : dir'[j] = (IF j = i THEN "full" ELSE dir[j])
    BY Zenon, <1>0 DEF IInv, TypeOK
  <2>4. ~InMemory(i)
    BY Zenon, <1>2, <1>4 DEF InMemory, Latest, MemFree
  <2>5. FlushDirFresh'
    <3> SUFFICES ASSUME "flusher" \in Loops, pc'["flusher"] = "flush", NEW j \in work'["flusher"]
                 PROVE  dir'[j] # "full"
      BY Zenon DEF FlushDirFresh
    <3>1. pc["flusher"] = "flush" /\ j \in work["flusher"] /\ j \in ID
      BY Zenon, <1>0 DEF IInv, TypeOK
    <3>2. BeingFlushed(j)
      BY Zenon, <3>1 DEF BeingFlushed
    <3>3. j # i
      BY Zenon, <1>2, <3>1, <3>2, FlushedInMemory DEF StaleInv
    <3>4. dir[j] # "full"
      BY Zenon, <3>1 DEF StaleInv, DirsApart, FlushDirFresh
    <3> QED
      BY Zenon, <2>3, <3>1, <3>3, <3>4
  <2> QED
    BY Zenon, <2>1, <2>2, <2>3, <2>4, <2>5, MoveDirs DEF StaleInv
<1> QED
  BY Zenon, <1>1, <1>5, <1>6 DEF StaleInv

-----------------------------------------------------------------------------
(* Rounds *)

\* Loop p moves on with its snapshot.
LEMMA LoopMoves ==
    ASSUME IInv, RoundFits, NEW p \in Loops, UNCHANGED <<held, parts, ipc, client>>,
           pc[p] # "applied", Fits(p)',
           \A q \in Loops : q # p => /\ pc'[q] = pc[q] /\ work'[q] = work[q] /\ out'[q] = out[q]
                                     /\ q = "flusher" => done' = done
    PROVE  RoundFits'
<1>1. SameIntro /\ \A h : Snapshot(h)' = Snapshot(h)
  BY Zenon, StillSame
<1>2. \A q \in Loops : q # p => SameLoop(q)
  BY Zenon, <1>1 DEF SameLoop
<1> QED
  BY Zenon, <1>1, <1>2, MoveFits DEF IInv, TypeOK

\* Loop p has not handed its outcome to the introducer yet.
Busy(p) == pc[p] \in {"ready", "merge", "flush", "send", "sendFlush"}

\* Until then it wants the parts of its kind that it has not consumed.
LEMMA WantedBusy ==
    ASSUME NEW p, Busy(p)
    PROVE  \A i : <<KindOf(p), i>> \in Snapshot(p) /\ (p = "flusher" => i \notin done)
                    => <<KindOf(p), i>> \in Wanted(p)
<1> SUFFICES ASSUME NEW i, <<KindOf(p), i>> \in Snapshot(p), p = "flusher" => i \notin done
             PROVE  <<KindOf(p), i>> \in Wanted(p)
  BY Zenon
<1>1. Active(p) /\ pc[p] # "applied"
  BY Zenon DEF Busy, Active
<1>2. i \notin Past(p)
  BY Zenon, <1>1 DEF Past
<1>3. \A k : Kind(<<k, i>>) = k /\ PartID(<<k, i>>) = i
  BY Zenon DEF Kind, PartID
<1> QED
  BY Zenon, <1>1, <1>2, <1>3 DEF Wanted, OfKind

\* So does it after a step of its own.
LEMMA WantedBusyNext ==
    ASSUME NEW p, Busy(p), Busy(p)', Snapshot(p)' = Snapshot(p), p = "flusher" => done' = done
    PROVE  Wanted(p)' = Wanted(p)
<1>1. Active(p) /\ Active(p)' /\ Past(p)' = Past(p)
  BY Zenon DEF Active, Past, Busy
<1> QED
  BY Zenon, <1>1 DEF Wanted, OfKind

\* mergeParts: the parts of the merge are of the loop's kind, and the new part
\* has an identifier of its own.
LEMMA StartMergeStale ==
    ASSUME IInv, StaleInv, NEW p \in Loops, NEW G \in SUBSET ID, StartMerge(p, G)
    PROVE  StaleInv'
<1>i. PICK i \in ID : i = curPartID + 1
  BY Zenon, CounterID DEF StartMerge, IInv
<1>0. /\ UNCHANGED <<held, parts, ipc, client, done, queued, session>>
      /\ pc' = [pc EXCEPT ![p] = "merge"] /\ work' = [work EXCEPT ![p] = G]
      /\ out' = [out EXCEPT ![p] = {i}] /\ dir' = [dir EXCEPT ![i] = "partial"]
      /\ pc[p] = "ready" /\ G \subseteq Mergeable(p) /\ Cardinality(G) >= 2 /\ status = "up"
  BY Zenon, <1>i DEF StartMerge, counts, intro, IInv, TypeOK, Running
<1>1. /\ pc \in [Loops -> {"idle", "ready", "merge", "flush", "send", "sendFlush",
                           "applied", "done"}]
      /\ work \in [Loops -> SUBSET ID] /\ out \in [Loops -> SUBSET ID]
      /\ dir \in [ID -> {"none", "partial", "full"}]
  BY Zenon DEF IInv, TypeOK
<1>2. pc'[p] = "merge" /\ work'[p] = G /\ out'[p] = {i}
  BY Zenon, <1>0, <1>1
<1>3. SameIntro /\ \A h : Snapshot(h)' = Snapshot(h)
  BY Zenon, <1>0, StillSame
<1>4. Wanted(p)' = Wanted(p)
  <2>1. Busy(p) /\ Busy(p)'
    BY Zenon, <1>0, <1>2 DEF Busy
  <2> QED
    BY Zenon, <1>0, <1>3, <2>1, WantedBusyNext
<1>5. G # {}
  <2>1. Cardinality({}) = 0
    BY Zenon, FS_EmptySet
  <2>2. ~(0 >= 2)
    OBVIOUS
  <2> QED
    BY Zenon, <1>0, <2>1, <2>2
<1>6. Among(p, G)
  <2>1. Busy(p)
    BY Zenon, <1>0 DEF Busy
  <2>2. \A j \in Mergeable(p) : /\ <<KindOf(p), j>> \in Snapshot(p)
                                /\ p = "flusher" => j \notin done
    BY Zenon DEF KindOf, Mergeable, MemIDs, FileIDs
  <2> QED
    BY Zenon, <1>0, <2>1, <2>2, WantedBusy DEF Among
<1>7. Fits(p)'
  <2>1. Wanted(p)' \subseteq Snapshot("table")'
    BY Zenon, <1>3, <1>4 DEF StaleInv, RoundFits, Fits
  <2>2. Among(p, work[p])'
    BY Zenon, <1>2, <1>4, <1>6 DEF Among
  <2> QED
    BY Zenon, <1>2, <1>5, <2>1, <2>2 DEF Fits
<1>8. RoundFits'
  BY Zenon, <1>0, <1>1, <1>7, LoopMoves DEF StaleInv
<1>9. KindsApart'
  <2>1. MemFree(i)
    BY Zenon, <1>i, NewIDFree
  <2>2. ASSUME NEW q \in Loops
        PROVE  Outcome(q)' \subseteq Outcome(q) \/ AllMemFree(Outcome(q)')
    <3>1. CASE q = p
      BY Zenon, <1>2, <2>1, <3>1 DEF Outcome, AllMemFree
    <3>2. CASE q # p
      BY Zenon, <1>0, <1>1, <3>2 DEF Outcome
    <3> QED
      BY Zenon, <3>1, <3>2
  <2> QED
    BY Zenon, <1>0, <1>3, <2>2, MoveKinds DEF StaleInv
<1>10. DirsApart'
  <2>1. \A j \in ID : InMemory(j)' = InMemory(j)
    BY Zenon, <1>0, <1>3, SameMemory
  <2>2. ~InMemory(i)
    BY Zenon, <1>i, NewIDFree
  <2>3. \A j \in ID : BeingFlushed(j) => BeingFlushed(j)'
    BY Zenon, <1>0, <1>1 DEF BeingFlushed
  <2>4. FlushDirFresh'
    BY Zenon, <1>0, <1>1 DEF StaleInv, DirsApart, FlushDirFresh
  <2>5. \A j \in ID : j # i => dir'[j] = dir[j]
    BY Zenon, <1>0, <1>1
  <2> QED
    BY Zenon, <2>1, <2>2, <2>3, <2>4, <2>5, MoveDirs DEF StaleInv
<1> QED
  BY Zenon, <1>8, <1>9, <1>10 DEF StaleInv

\* mergeParts completes its part.
LEMMA FinishMergeStale ==
    ASSUME IInv, StaleInv, NEW p \in Loops, FinishMerge(p)
    PROVE  StaleInv'
<1>0. /\ UNCHANGED <<held, parts, ipc, client, done, queued, session, work, out>>
      /\ pc' = [pc EXCEPT ![p] = "send"] /\ pc[p] = "merge"
      /\ dir' = [i \in ID |-> IF i \in out[p] THEN "full" ELSE dir[i]]
  BY Zenon DEF FinishMerge, intro
<1>1. pc'[p] = "send" /\ \A q \in Loops : q # p => pc'[q] = pc[q]
  BY Zenon, <1>0 DEF IInv, TypeOK
<1>2. SameIntro /\ \A h : Snapshot(h)' = Snapshot(h)
  BY Zenon, <1>0, StillSame
<1>3. Wanted(p)' = Wanted(p)
  <2>1. Busy(p) /\ Busy(p)'
    BY Zenon, <1>0, <1>1 DEF Busy
  <2> QED
    BY Zenon, <1>0, <1>2, <2>1, WantedBusyNext
<1>4. Fits(p)'
  <2>1. Wanted(p)' \subseteq Snapshot("table")'
    BY Zenon, <1>2, <1>3 DEF StaleInv, RoundFits, Fits
  <2>2. work[p] # {} /\ Among(p, work[p])
    BY Zenon, <1>0 DEF StaleInv, RoundFits, Fits
  <2>3. work'[p] # {} /\ Among(p, work[p])'
    BY Zenon, <1>0, <1>3, <2>2 DEF Among
  <2> QED
    BY Zenon, <1>1, <2>1, <2>3 DEF Fits
<1>5. RoundFits'
  BY Zenon, <1>0, <1>1, <1>4, LoopMoves DEF StaleInv
<1>6. KindsApart'
  <2>1. \A q \in Loops : Outcome(q)' = Outcome(q)
    BY Zenon, <1>0, <1>1 DEF Outcome
  <2> QED
    BY Zenon, <1>0, <1>2, <2>1, MoveKinds DEF StaleInv
<1>7. DirsApart'
  <2>1. \A j \in ID : InMemory(j)' = InMemory(j)
    BY Zenon, <1>0, <1>2, SameMemory
  <2>2. \A j \in out[p] : j \in ID /\ MemFree(j)
    BY Zenon, <1>0, OwnedIDs DEF StaleInv, KindsApart, AllMemFree, Outcome, IInv
  <2>3. \A j \in out[p] : ~InMemory(j)
    BY Zenon, <2>2, Numbers DEF MemFree, InMemory, Latest, Snapshot, IInv, TypeOK
  <2>4. \A j \in ID : BeingFlushed(j) => BeingFlushed(j)'
    BY Zenon, <1>0, <1>1 DEF BeingFlushed
  <2>5. \A j \in ID : j \notin out[p] => dir'[j] = dir[j]
    BY Zenon, <1>0
  <2>6. FlushDirFresh'
    <3> SUFFICES ASSUME "flusher" \in Loops, pc'["flusher"] = "flush", NEW j \in work'["flusher"]
                 PROVE  dir'[j] # "full"
      BY Zenon DEF FlushDirFresh
    <3>1. pc["flusher"] = "flush" /\ j \in work["flusher"] /\ j \in ID
      BY Zenon, <1>0, <1>1 DEF IInv, TypeOK
    <3>2. BeingFlushed(j)
      BY Zenon, <3>1 DEF BeingFlushed
    <3>3. j \notin out[p]
      BY Zenon, <2>2, <3>1, <3>2, FlushedInMemory DEF StaleInv
    <3>4. dir[j] # "full"
      BY Zenon, <3>1 DEF StaleInv, DirsApart, FlushDirFresh
    <3> QED
      BY Zenon, <2>5, <3>1, <3>3, <3>4
  <2> QED
    BY Zenon, <2>1, <2>3, <2>4, <2>5, <2>6, MoveDirs DEF StaleInv
<1> QED
  BY Zenon, <1>5, <1>6, <1>7 DEF StaleInv

\* The flusher decides to flush the memory parts of its snapshot.  They are in
\* the latest snapshot, and none of them has a directory.
LEMMA StartFlushStale ==
    ASSUME IInv, StaleInv, StartFlush
    PROVE  StaleInv'
<1> DEFINE p == "flusher"
           M == MemIDs(Snapshot(p))
<1>0. /\ UNCHANGED <<held, parts, ipc, client, done, queued, session, out, dir>>
      /\ p \in Loops /\ pc[p] = "ready" /\ done = {}
      /\ pc' = [pc EXCEPT ![p] = "flush"] /\ work' = [work EXCEPT ![p] = M]
  BY Zenon DEF StartFlush, intro, counts, disk
<1>1. /\ pc'[p] = "flush" /\ work'[p] = M /\ out[p] = {}
      /\ \A q \in Loops : q # p => pc'[q] = pc[q] /\ work'[q] = work[q]
  BY Zenon, <1>0 DEF IInv, TypeOK, RoundClean
<1>2. SameIntro /\ \A h : Snapshot(h)' = Snapshot(h)
  BY Zenon, <1>0, StillSame
<1>3. Wanted(p)' = Wanted(p) /\ KindOf(p) = "mem"
  <2>1. Busy(p) /\ Busy(p)'
    BY Zenon, <1>0, <1>1 DEF Busy
  <2> QED
    BY Zenon, <1>0, <1>2, <2>1, WantedBusyNext DEF KindOf
<1>4. \A i \in M : <<"mem", i>> \in Wanted(p)
  <2>1. Busy(p)
    BY Zenon, <1>0 DEF Busy
  <2>2. \A i \in M : <<KindOf(p), i>> \in Snapshot(p) /\ i \notin done
    BY Zenon, <1>0, <1>3 DEF MemIDs
  <2> HIDE DEF M
  <2> QED
    BY Zenon, <1>3, <2>1, <2>2, WantedBusy
<1> HIDE DEF M
<1>5. Fits(p)'
  <2>1. Wanted(p)' \subseteq Snapshot("table")'
    BY Zenon, <1>0, <1>2, <1>3 DEF StaleInv, RoundFits, Fits
  <2>2. Among(p, work[p] \cup out[p])'
    BY Zenon, <1>0, <1>1, <1>3, <1>4 DEF Among
  <2> QED
    BY Zenon, <1>1, <2>1, <2>2 DEF Fits
<1>6. RoundFits'
  BY Zenon, <1>0, <1>1, <1>5, LoopMoves DEF StaleInv
<1>7. KindsApart'
  <2>1. \A q \in Loops : Outcome(q)' \subseteq Outcome(q)
    BY Zenon, <1>0, <1>1 DEF Outcome
  <2> QED
    BY Zenon, <1>0, <1>2, <2>1, MoveKinds DEF StaleInv
<1>8. \A i \in M : InMemory(i) /\ i \in ID
  <2>1. \A i \in M : <<"mem", i>> \in Snapshot("table") /\ i \in ID
    BY Zenon, <1>0, <1>4 DEF StaleInv, RoundFits, Fits, M, MemIDs
  <2>2. ASSUME ipc = "replace"
        PROVE  OfKind("mem", Snapshot("table")) \subseteq Snapshot("next")
    <3>1. p # client
      BY Zenon, <1>0, <2>2 DEF StaleInv, RoundFits
    <3> QED
      BY Zenon, <1>0, <1>3, <2>2, <3>1 DEF StaleInv, RoundFits, Spares
  <2>3. \A i : Kind(<<"mem", i>>) = "mem"
    BY Zenon DEF Kind
  <2> QED
    BY Zenon, <2>1, <2>2, <2>3 DEF InMemory, Latest, OfKind
<1>9. DirsApart'
  <2>1. \A j \in ID : InMemory(j)' = InMemory(j)
    BY Zenon, <1>0, <1>2, SameMemory
  <2>2. \A j \in ID : ~BeingFlushed(j)
    BY Zenon, <1>0 DEF BeingFlushed
  <2>3. FlushDirFresh'
    BY Zenon, <1>0, <1>1, <1>8, <2>2 DEF FlushDirFresh, StaleInv, DirsApart
  <2> QED
    BY Zenon, <1>0, <2>1, <2>2, <2>3, MoveDirs DEF StaleInv
<1> QED
  BY Zenon, <1>6, <1>7, <1>9 DEF StaleInv

\* mustFlush creates the directory of a memory part ...
LEMMA MustFlushStale ==
    ASSUME IInv, StaleInv, NEW i \in ID, MustFlush(i)
    PROVE  StaleInv'
<1>0. /\ UNCHANGED <<held, parts, ipc, client, pc, work, out, done, queued, session>>
      /\ "flusher" \in Loops /\ pc["flusher"] = "flush" /\ i \in work["flusher"]
      /\ dir' = [dir EXCEPT ![i] = "partial"]
  BY Zenon DEF MustFlush, counts, loops, intro
<1>1. RoundFits' /\ SameIntro /\ \A q : Outcome(q)' = Outcome(q)
  BY Zenon, <1>0, StillFits, StillSame DEF StaleInv
<1>2. KindsApart'
  BY Zenon, <1>0, <1>1, MoveKinds DEF StaleInv
<1>3. \A j \in ID : InMemory(j)' = InMemory(j) /\ BeingFlushed(j)' = BeingFlushed(j)
  BY Zenon, <1>0, <1>1, StillSame, SameMemory
<1>4. BeingFlushed(i) /\ \A j \in ID : dir'[j] = (IF j = i THEN "partial" ELSE dir[j])
  BY Zenon, <1>0 DEF BeingFlushed, IInv, TypeOK
<1>5. FlushDirFresh'
  BY Zenon, <1>0, <1>4 DEF FlushDirFresh, StaleInv, DirsApart, IInv, TypeOK
<1>6. DirsApart'
  BY Zenon, <1>3, <1>4, <1>5, MoveDirs DEF StaleInv
<1> QED
  BY Zenon, <1>1, <1>2, <1>6 DEF StaleInv

\* ... and completes it.
LEMMA FlushDoneStale ==
    ASSUME IInv, StaleInv, NEW i \in ID, MustFlushDone(i)
    PROVE  StaleInv'
<1> DEFINE p == "flusher"
<1>0. /\ UNCHANGED <<held, parts, ipc, client, done, queued, session>>
      /\ p \in Loops /\ pc[p] = "flush" /\ i \in work[p]
      /\ dir' = [dir EXCEPT ![i] = "full"]
      /\ work' = [work EXCEPT ![p] = @ \ {i}] /\ out' = [out EXCEPT ![p] = @ \cup {i}]
      /\ pc' = [pc EXCEPT ![p] = IF work[p] = {i} THEN "sendFlush" ELSE @]
  BY Zenon DEF MustFlushDone, intro
<1>1. /\ pc'[p] = (IF work[p] = {i} THEN "sendFlush" ELSE "flush")
      /\ work'[p] = work[p] \ {i} /\ out'[p] = out[p] \cup {i}
      /\ \A q \in Loops : q # p => pc'[q] = pc[q] /\ work'[q] = work[q] /\ out'[q] = out[q]
  BY Zenon, <1>0 DEF IInv, TypeOK
<1>2. pc'[p] \in {"flush", "sendFlush"} /\ work'[p] \cup out'[p] = work[p] \cup out[p]
  BY Zenon, <1>0, <1>1
<1>3. SameIntro /\ \A h : Snapshot(h)' = Snapshot(h)
  BY Zenon, <1>0, StillSame
<1>4. Wanted(p)' = Wanted(p)
  <2>1. Busy(p) /\ Busy(p)'
    BY Zenon, <1>0, <1>2 DEF Busy
  <2> QED
    BY Zenon, <1>0, <1>3, <2>1, WantedBusyNext
<1>5. Fits(p)'
  <2>1. Wanted(p)' \subseteq Snapshot("table")'
    BY Zenon, <1>0, <1>3, <1>4 DEF StaleInv, RoundFits, Fits
  <2>2. Among(p, work[p] \cup out[p])
    BY Zenon, <1>0 DEF StaleInv, RoundFits, Fits
  <2>3. Among(p, work[p] \cup out[p])'
    BY Zenon, <1>2, <1>4, <2>2 DEF Among
  <2>4. pc'[p] = "sendFlush" => work'[p] = {}
    BY Zenon, <1>1
  <2> QED
    BY Zenon, <1>2, <2>1, <2>3, <2>4 DEF Fits
<1>6. RoundFits'
  BY Zenon, <1>0, <1>1, <1>5, LoopMoves DEF StaleInv
<1>7. KindsApart'
  <2>1. \A q \in Loops : Outcome(q)' \subseteq Outcome(q)
    BY Zenon, <1>0, <1>1, <1>2 DEF Outcome
  <2> QED
    BY Zenon, <1>0, <1>3, <2>1, MoveKinds DEF StaleInv
<1>8. DirsApart'
  <2>1. \A j \in ID : InMemory(j)' = InMemory(j)
    BY Zenon, <1>0, <1>3, SameMemory
  <2>2. \A j \in ID : BeingFlushed(j) => BeingFlushed(j)'
    BY Zenon, <1>2 DEF BeingFlushed
  <2>3. \A j \in ID : dir'[j] = (IF j = i THEN "full" ELSE dir[j])
    BY Zenon, <1>0 DEF IInv, TypeOK
  <2>4. BeingFlushed(i)
    BY Zenon, <1>0 DEF BeingFlushed
  <2>5. FlushDirFresh'
    BY Zenon, <1>0, <1>1, <2>3 DEF FlushDirFresh, StaleInv, DirsApart, IInv, TypeOK
  <2> QED
    BY Zenon, <2>1, <2>2, <2>3, <2>4, <2>5, MoveDirs DEF StaleInv
<1> QED
  BY Zenon, <1>6, <1>7, <1>8 DEF StaleInv

\* The syncer ships the file parts of its snapshot.
LEMMA SyncStale ==
    ASSUME IInv, StaleInv, SyncSnapshot
    PROVE  StaleInv'
<1> DEFINE p == "syncer"
           F == FileIDs(Snapshot(p))
<1>0. /\ UNCHANGED <<held, parts, ipc, client, done, queued, session, out, dir>>
      /\ p \in Loops /\ pc[p] = "ready" /\ F # {}
      /\ pc' = [pc EXCEPT ![p] = "send"] /\ work' = [work EXCEPT ![p] = F]
  BY Zenon DEF SyncSnapshot, intro, counts, disk
<1>1. /\ pc'[p] = "send" /\ work'[p] = F /\ out[p] = {}
      /\ \A q \in Loops : q # p => pc'[q] = pc[q] /\ work'[q] = work[q]
  BY Zenon, <1>0 DEF IInv, TypeOK, RoundClean
<1>2. SameIntro /\ \A h : Snapshot(h)' = Snapshot(h)
  BY Zenon, <1>0, StillSame
<1>3. Wanted(p)' = Wanted(p) /\ KindOf(p) = "file"
  <2>1. Busy(p) /\ Busy(p)'
    BY Zenon, <1>0, <1>1 DEF Busy
  <2> QED
    BY Zenon, <1>0, <1>2, <2>1, WantedBusyNext DEF KindOf
<1>4. \A i \in F : <<KindOf(p), i>> \in Wanted(p)
  <2>1. Busy(p)
    BY Zenon, <1>0 DEF Busy
  <2>2. \A i \in F : <<KindOf(p), i>> \in Snapshot(p)
    BY Zenon, <1>3 DEF FileIDs
  <2> HIDE DEF F
  <2> QED
    BY Zenon, <2>1, <2>2, WantedBusy
<1> HIDE DEF F
<1>5. Fits(p)'
  <2>1. Wanted(p)' \subseteq Snapshot("table")'
    BY Zenon, <1>0, <1>2, <1>3 DEF StaleInv, RoundFits, Fits
  <2>2. Among(p, work[p])'
    BY Zenon, <1>1, <1>3, <1>4 DEF Among
  <2> QED
    BY Zenon, <1>0, <1>1, <2>1, <2>2 DEF Fits
<1>6. RoundFits'
  BY Zenon, <1>0, <1>1, <1>5, LoopMoves DEF StaleInv
<1>7. KindsApart'
  <2>1. \A q \in Loops : Outcome(q)' \subseteq Outcome(q)
    BY Zenon, <1>0, <1>1 DEF Outcome
  <2> QED
    BY Zenon, <1>0, <1>2, <2>1, MoveKinds DEF StaleInv
<1>8. DirsApart'
  <2>1. \A j \in ID : InMemory(j)' = InMemory(j)
    BY Zenon, <1>0, <1>2, SameMemory
  <2>2. \A j \in ID : BeingFlushed(j) => BeingFlushed(j)'
    BY Zenon, <1>0, <1>1 DEF BeingFlushed
  <2>3. FlushDirFresh'
    BY Zenon, <1>0, <1>1 DEF FlushDirFresh, StaleInv, DirsApart
  <2> QED
    BY Zenon, <1>0, <2>1, <2>2, <2>3, MoveDirs DEF StaleInv
<1> QED
  BY Zenon, <1>6, <1>7, <1>8 DEF StaleInv

-----------------------------------------------------------------------------
(* Pinning and releasing snapshots *)

\* A query pins or releases a snapshot.
LEMMA ReaderStale ==
    ASSUME IInv, StaleInv, NEW r \in Readers, Acquire(r) \/ ReleaseReader(r)
    PROVE  StaleInv'
<1>0. UNCHANGED <<ipc, client, pc, work, out, done, queued, session, dir>>
  BY Zenon DEF Acquire, ReleaseReader, loops, intro, disk
<1>1. /\ r \in Holder /\ r \notin {"table", "next"} /\ r \notin Loops
      /\ {"table", "next"} \subseteq Holder /\ Loops \subseteq Holder /\ "none" \notin Loops
      /\ client \in Loops \cup {"none"}
  BY Zenon, TSTableAssumption, Numbers DEF IInv, TypeOK
<1>2. /\ \A g \in Holder : g # r => Snapshot(g)' = Snapshot(g)
      /\ \A e \in Epoch : parts'[e] \subseteq parts[e]
  <2>1. CASE Acquire(r)
    <3>1. held' = [held EXCEPT ![r] = held["table"]] /\ parts' = parts
      BY Zenon, <2>1 DEF Acquire, CurrentSnapshot
    <3>2. \A g \in Holder : g # r => Snapshot(g)' = Snapshot(g)
      BY Zenon, <1>1, <3>1, AcquireKeeps
    <3> QED
      BY Zenon, <3>1, <3>2
  <2>2. CASE ReleaseReader(r)
    BY Zenon, <1>1, <2>2, ReleaseKeeps DEF ReleaseReader
  <2> QED
    BY Zenon, <2>1, <2>2
<1>3. SameIntro /\ \A q \in Loops : SameLoop(q)
  <2>1. \A q \in Loops : Snapshot(q)' = Snapshot(q)
    BY Zenon, <1>1, <1>2
  <2>2. Snapshot("table")' = Snapshot("table") /\ Snapshot("next")' = Snapshot("next")
    BY Zenon, <1>1, <1>2
  <2> QED
    BY Zenon, <1>0, <2>1, <2>2 DEF SameIntro, SameLoop
<1>4. RoundFits'
  BY Zenon, <1>1, <1>3, MoveFits DEF StaleInv
<1>5. KindsApart'
  <2>1. \A q \in Loops : Outcome(q)' = Outcome(q)
    BY Zenon, <1>0 DEF Outcome
  <2> QED
    BY Zenon, <1>0, <1>2, <1>3, <2>1, MoveKinds DEF StaleInv
<1>6. DirsApart'
  <2>1. \A j \in ID : InMemory(j)' = InMemory(j)
    BY Zenon, <1>0, <1>3, SameMemory
  <2>2. FlushDirFresh' /\ \A j \in ID : BeingFlushed(j)' = BeingFlushed(j)
    BY Zenon, <1>0 DEF FlushDirFresh, BeingFlushed, StaleInv, DirsApart
  <2> QED
    BY Zenon, <1>0, <2>1, <2>2, MoveDirs DEF StaleInv
<1> QED
  BY Zenon, <1>4, <1>5, <1>6 DEF StaleInv

\* A loop begins a round with the current snapshot, or ends one.
LEMMA RoundStale ==
    ASSUME IInv, StaleInv, NEW p \in Loops, TakeSnapshot(p) \/ FailRound(p) \/ Release(p)
    PROVE  StaleInv'
<1>1. /\ p \in Holder /\ p \notin {"table", "next"}
      /\ {"table", "next"} \subseteq Holder /\ Loops \subseteq Holder
      /\ client \in Loops \cup {"none"}
  BY Zenon, TSTableAssumption, Numbers DEF IInv, TypeOK
<1>2. /\ UNCHANGED <<ipc, client, queued, session, dir>>
      /\ pc[p] \in {"idle", "ready", "merge", "done"} /\ pc'[p] \in {"idle", "ready"}
      /\ \A q \in Loops : q # p => /\ pc'[q] = pc[q] /\ work'[q] = work[q] /\ out'[q] = out[q]
                                   /\ q = "flusher" => done' = done
  <2>1. /\ pc \in [Loops -> {"idle", "ready", "merge", "flush", "send", "sendFlush",
                             "applied", "done"}]
        /\ work \in [Loops -> SUBSET ID] /\ out \in [Loops -> SUBSET ID]
    BY Zenon DEF IInv, TypeOK
  <2>2. CASE TakeSnapshot(p)
    BY Zenon, <2>1, <2>2 DEF TakeSnapshot, intro, disk
  <2>3. CASE FailRound(p) \/ Release(p)
    <3>1. EndRound(p, seen[p]) \/ EndRound(p, held[p])
      BY Zenon, <2>3 DEF FailRound, Release
    <3>2. /\ pc' = [pc EXCEPT ![p] = "idle"] /\ work' = [work EXCEPT ![p] = {}]
          /\ out' = [out EXCEPT ![p] = {}] /\ done' = IF p = "flusher" THEN {} ELSE done
      BY Zenon, <3>1 DEF EndRound
    <3>3. pc[p] \in {"idle", "ready", "merge", "done"}
      BY Zenon, <2>3 DEF FailRound, Release
    <3>4. UNCHANGED <<ipc, client, queued, session, dir>>
      BY Zenon, <2>3 DEF FailRound, Release, intro, disk
    <3> QED
      BY Zenon, <2>1, <3>2, <3>3, <3>4
  <2> QED
    BY Zenon, <2>2, <2>3
<1>3. /\ \A g \in Holder : g # p => Snapshot(g)' = Snapshot(g)
      /\ \A e \in Epoch : parts'[e] \subseteq parts[e]
      /\ pc'[p] = "ready" => Snapshot(p)' = Snapshot("table")
  <2>1. CASE TakeSnapshot(p)
    <3>1. held' = [held EXCEPT ![p] = held["table"]] /\ parts' = parts
      BY Zenon, <2>1 DEF TakeSnapshot, CurrentSnapshot
    <3>2. /\ \A g \in Holder : g # p => Snapshot(g)' = Snapshot(g)
          /\ Snapshot(p)' = Snapshot("table")
      BY Zenon, <1>1, <3>1, AcquireKeeps
    <3> QED
      BY Zenon, <3>1, <3>2
  <2>2. CASE FailRound(p) \/ Release(p)
    <3>1. DecRef(held[p]) /\ held' = [held EXCEPT ![p] = 0] /\ pc' = [pc EXCEPT ![p] = "idle"]
      BY Zenon, <2>2 DEF FailRound, Release, EndRound
    <3>2. pc'[p] = "idle"
      BY Zenon, <3>1 DEF IInv, TypeOK
    <3> QED
      BY Zenon, <1>1, <3>1, <3>2, ReleaseKeeps
  <2> QED
    BY Zenon, <2>1, <2>2
<1>4. SameIntro /\ \A q \in Loops : q # p => SameLoop(q)
  <2>1. \A q \in Loops : q # p => Snapshot(q)' = Snapshot(q)
    BY Zenon, <1>1, <1>3
  <2>2. Snapshot("table")' = Snapshot("table") /\ Snapshot("next")' = Snapshot("next")
    BY Zenon, <1>1, <1>3
  <2> QED
    BY Zenon, <1>2, <2>1, <2>2 DEF SameIntro, SameLoop
<1>5. Fits(p)'
  <2>1. Wanted(p)' \subseteq Snapshot("table")'
    <3>1. CASE pc'[p] = "ready"
      BY Zenon, <1>3, <1>4, <3>1 DEF Wanted, OfKind, SameIntro
    <3>2. CASE pc'[p] = "idle"
      BY Zenon, <3>2 DEF Wanted, Active
    <3> QED
      BY Zenon, <1>2, <3>1, <3>2
  <2> QED
    BY Zenon, <1>2, <2>1 DEF Fits
<1>6. RoundFits'
  BY Zenon, <1>1, <1>2, <1>4, <1>5, MoveFits DEF StaleInv
<1>7. KindsApart'
  <2>1. \A q \in Loops : Outcome(q)' \subseteq Outcome(q)
    BY Zenon, <1>2 DEF Outcome
  <2> QED
    BY Zenon, <1>2, <1>3, <1>4, <2>1, MoveKinds DEF StaleInv
<1>8. DirsApart'
  <2>1. \A j \in ID : InMemory(j)' = InMemory(j)
    BY Zenon, <1>2, <1>4, SameMemory
  <2>2. \A j \in ID : BeingFlushed(j) => BeingFlushed(j)'
    BY Zenon, <1>2 DEF BeingFlushed
  <2>3. FlushDirFresh'
    BY Zenon, <1>2 DEF FlushDirFresh, StaleInv, DirsApart
  <2> QED
    BY Zenon, <1>2, <2>1, <2>2, <2>3, MoveDirs DEF StaleInv
<1> QED
  BY Zenon, <1>6, <1>7, <1>8 DEF StaleInv

-----------------------------------------------------------------------------
(* The introducer *)

\* What an introduction does to the snapshots: the next one has the parts of
\* the current one without gone, and fresh.
LEMMA IntroduceKeeps ==
    ASSUME IInv, NEW gone, NEW fresh, NEW m, NEW c, Introduce(gone, fresh, m, c)
    PROVE  /\ ipc = "idle" /\ ipc' = "replace" /\ client' = c
           /\ Snapshot("table")' = Snapshot("table")
           /\ Snapshot("next")' = (Snapshot("table") \ gone) \cup fresh
           /\ \A q \in Loops : Snapshot(q)' = Snapshot(q)
           /\ \A i : MemFree(i) /\ queued' \subseteq queued /\ <<"mem", i>> \notin fresh => MemFree(i)'
<1>1. /\ ipc = "idle" /\ ipc' = "replace" /\ client' = c
      /\ SameSnapshot("table") /\ held'["next"] = epoch
      /\ parts'[epoch] = (Snapshot("table") \ gone) \cup fresh
  BY Zenon, IntroduceBuilds DEF Introduce
<1>2. /\ epoch \in Epoch /\ epoch # 0 /\ parts \in [Epoch -> SUBSET Part]
      /\ held \in [Holder -> {0} \cup Epoch] /\ Loops \subseteq Holder
      /\ \A q \in Loops : q \notin {"introducer", "next", "table"}
  <2>1. epoch \in Nat /\ epoch >= 1 /\ epoch <= MaxEpoch /\ MaxEpoch \in Nat
    BY Zenon, TSTableAssumption, Numbers DEF IInv, Introduce
  <2>2. epoch \in Epoch /\ epoch # 0
    BY <2>1 DEF Epoch
  <2> QED
    BY Zenon, <2>2, TSTableAssumption, Numbers DEF IInv, TypeOK
<1>3. /\ held' = [held EXCEPT !["introducer"] = held["table"], !["next"] = epoch]
      /\ parts' = [parts EXCEPT ![epoch] = (Snapshot("table") \ gone) \cup fresh]
  BY Zenon DEF Introduce, NextSnapshot
<1>4. ASSUME NEW q \in Loops
      PROVE  Snapshot(q)' = Snapshot(q)
  <2>1. held'[q] = held[q] /\ held[q] \in {0} \cup Epoch
    BY Zenon, <1>2, <1>3
  <2>2. held[q] # epoch
    <3>1. held[q] < epoch /\ held[q] \in Nat /\ epoch \in Nat
      BY Zenon, <1>1, <1>2, Numbers DEF IInv, EpochFresh
    <3> QED
      BY <3>1
  <2>3. held[q] # 0 => parts'[held[q]] = parts[held[q]]
    BY Zenon, <1>2, <1>3, <2>1, <2>2
  <2> QED
    BY Zenon, <2>1, <2>3 DEF Snapshot
<1>5. Snapshot("next")' = (Snapshot("table") \ gone) \cup fresh
  BY Zenon, <1>1, <1>2 DEF Snapshot
<1>6. Snapshot("table")' = Snapshot("table")
  BY Zenon, <1>1, SameParts
<1>7. ASSUME NEW i, MemFree(i), queued' \subseteq queued, <<"mem", i>> \notin fresh
      PROVE  MemFree(i)'
  <2>1. <<"mem", i>> \notin Snapshot("table")
    BY Zenon, <1>7, Numbers DEF Snapshot, MemFree, IInv, TypeOK
  <2>2. \A e \in Epoch : parts'[e] = parts[e] \/ parts'[e] = (Snapshot("table") \ gone) \cup fresh
    BY Zenon, <1>2, <1>3
  <2> QED
    BY Zenon, <1>7, <2>1, <2>2 DEF MemFree
<1> QED
  BY Zenon, <1>1, <1>4, <1>5, <1>6, <1>7

\* An introduction that spares the parts the loops want.
LEMMA IntroduceFits ==
    ASSUME IInv, RoundFits, NEW c \in Loops \cup {"none"}, ipc' = "replace", client' = c,
           Snapshot("table")' = Snapshot("table"),
           c \in Loops => pc'[c] = "applied" /\ Wanted(c)' \subseteq Snapshot("table")
                          /\ Wanted(c)' \subseteq Snapshot("next")',
           \A q \in Loops : q # c => /\ SameLoop(q)
                                     /\ OfKind(KindOf(q), Snapshot("table")) \subseteq Snapshot("next")'
    PROVE  RoundFits'
<1>0. "none" \notin Loops
  BY Zenon, TSTableAssumption
<1>1. ASSUME NEW q \in Loops
      PROVE  Fits(q)'
  <2>1. CASE q = c
    BY Zenon, <2>1 DEF Fits
  <2>2. CASE q # c
    <3>1. SameLoop(q) /\ Fits(q)
      BY Zenon, <2>2 DEF RoundFits
    <3>2. Wanted(q) \subseteq Snapshot("table")'
      BY Zenon, <3>1 DEF Fits
    <3> QED
      BY Zenon, <3>1, <3>2, FitsSame
  <2> QED
    BY Zenon, <2>1, <2>2
<1>2. ASSUME NEW q \in Loops
      PROVE  Spares(q)'
  <2>1. CASE q = c
    BY Zenon, <2>1 DEF Spares
  <2>2. CASE q # c
    BY Zenon, <2>2 DEF Spares, OfKind
  <2> QED
    BY Zenon, <2>1, <2>2
<1>3. client' # "none" => pc'[client'] = "applied"
  BY Zenon
<1> QED
  BY Zenon, <1>1, <1>2, <1>3 DEF RoundFits

\* introducePart.
LEMMA PartStale ==
    ASSUME IInv, StaleInv, NEW w \in Part, IntroducePart(w)
    PROVE  StaleInv'
<1>0. /\ UNCHANGED <<pc, work, out, done, session, dir>>
      /\ Introduce({}, {w}, Kind(w) = "file", "none") /\ w \in queued /\ queued' = queued \ {w}
  BY Zenon DEF IntroducePart, loops, disk
<1>1. /\ ipc = "idle" /\ ipc' = "replace" /\ client' = "none"
      /\ Snapshot("table")' = Snapshot("table")
      /\ Snapshot("next")' = Snapshot("table") \cup {w}
      /\ \A q \in Loops : Snapshot(q)' = Snapshot(q)
      /\ \A i : MemFree(i) => MemFree(i)'
  <2>1. /\ ipc = "idle" /\ ipc' = "replace" /\ client' = "none"
        /\ Snapshot("table")' = Snapshot("table")
        /\ Snapshot("next")' = (Snapshot("table") \ {}) \cup {w}
        /\ \A q \in Loops : Snapshot(q)' = Snapshot(q)
        /\ \A i : MemFree(i) /\ queued' \subseteq queued /\ <<"mem", i>> \notin {w} => MemFree(i)'
    BY Zenon, <1>0, IntroduceKeeps
  <2>2. queued' \subseteq queued /\ \A i : MemFree(i) => <<"mem", i>> \notin {w}
    BY Zenon, <1>0 DEF MemFree
  <2> QED
    BY Zenon, <2>1, <2>2
<1>2. RoundFits'
  <2>1. \A q \in Loops : SameLoop(q)
    BY Zenon, <1>0, <1>1 DEF SameLoop
  <2>2. \A q \in Loops : OfKind(KindOf(q), Snapshot("table")) \subseteq Snapshot("next")'
    BY Zenon, <1>1 DEF OfKind
  <2>3. "none" \notin Loops
    BY Zenon, TSTableAssumption
  <2> QED
    BY Zenon, <1>1, <2>1, <2>2, <2>3, IntroduceFits DEF StaleInv
<1>3. KindsApart'
  <2>1. \A q \in Loops : Outcome(q)' = Outcome(q)
    BY Zenon, <1>0 DEF Outcome
  <2>2. \A q \in Loops : AllMemFree(Outcome(q))'
    BY Zenon, <1>1, <2>1 DEF StaleInv, KindsApart, AllMemFree
  <2>3. \A r \in Receivers : session'[r] # 0 => MemFree(session[r])'
    BY Zenon, <1>0, <1>1 DEF StaleInv, KindsApart, MemFree
  <2>4. OneKind(Snapshot("table") \cup queued)
    BY Zenon DEF StaleInv, KindsApart
  <2>5. OneKind(Snapshot("table")' \cup queued') /\ OneKind(Snapshot("next")' \cup queued')
    BY Zenon, <1>0, <1>1, <2>4 DEF OneKind
  <2> QED
    BY Zenon, <2>2, <2>3, <2>5 DEF KindsApart, OneKind
<1>4. DirsApart'
  <2>1. \A j \in ID : InMemory(j)' => InMemory(j)
    BY Zenon, <1>0, <1>1 DEF InMemory, Latest
  <2>2. FlushDirFresh' /\ \A j \in ID : BeingFlushed(j)' = BeingFlushed(j)
    BY Zenon, <1>0 DEF FlushDirFresh, BeingFlushed, StaleInv, DirsApart
  <2> QED
    BY Zenon, <1>0, <2>1, <2>2, MoveDirs DEF StaleInv
<1> QED
  BY Zenon, <1>2, <1>3, <1>4 DEF StaleInv

\* introduceFlushed: the memory parts that were flushed leave the table, and
\* the file parts with their identifiers replace them.
LEMMA FlushedStale ==
    ASSUME IInv, StaleInv, IntroduceFlushed
    PROVE  StaleInv'
<1> DEFINE p == "flusher"
           hit == {w \in Snapshot("table") : PartID(w) \in out[p]}
           fresh == {<<"file", PartID(w)>> : w \in hit}
<1>0. /\ UNCHANGED <<work, out, done, session, dir, queued>>
      /\ Introduce(hit, fresh, TRUE, p) /\ p \in Loops /\ pc[p] = "sendFlush"
      /\ pc' = [pc EXCEPT ![p] = "applied"]
  BY Zenon DEF IntroduceFlushed, disk
<1>1. /\ ipc = "idle" /\ ipc' = "replace" /\ client' = p
      /\ Snapshot("table")' = Snapshot("table")
      /\ Snapshot("next")' = (Snapshot("table") \ hit) \cup fresh
      /\ \A q \in Loops : Snapshot(q)' = Snapshot(q)
      /\ \A i : MemFree(i) => MemFree(i)'
  <2>1. \A i : <<"mem", i>> \notin fresh
    BY Zenon
  <2> HIDE DEF hit, fresh
  <2>2. \A i : MemFree(i) /\ queued' \subseteq queued /\ <<"mem", i>> \notin fresh => MemFree(i)'
    BY Zenon, <1>0, IntroduceKeeps
  <2>3. \A i : MemFree(i) => MemFree(i)'
    BY Zenon, <1>0, <2>1, <2>2
  <2> QED
    BY Zenon, <1>0, <2>3, IntroduceKeeps
<1>2. pc'[p] = "applied" /\ work'[p] = {} /\ \A q \in Loops : q # p => pc'[q] = pc[q]
  BY Zenon, <1>0 DEF StaleInv, RoundFits, Fits, IInv, TypeOK
<1>3. \A j \in out[p] : j \in ID /\ <<"mem", j>> \in Snapshot("table") /\ <<"mem", j>> \notin queued
  <2>1. ASSUME NEW j \in out[p]
        PROVE  j \in ID /\ <<"mem", j>> \in Snapshot("table") /\ <<"mem", j>> \notin queued
    <3>1. j \in ID /\ BeingFlushed(j)
      BY Zenon, <1>0, OwnedIDs DEF BeingFlushed, IInv
    <3>2. <<"mem", j>> \in Snapshot("table")
      BY Zenon, <3>1, FlushedInMemory DEF StaleInv
    <3>3. \E e \in Epoch : <<"mem", j>> \in parts[e]
      BY Zenon, <3>2, Numbers DEF Snapshot, IInv, TypeOK
    <3> QED
      BY Zenon, <3>1, <3>2, <3>3 DEF IInv, FilesComplete, Waiting
  <2> QED
    BY Zenon, <2>1
<1>4. Snapshot("table") \in SUBSET Part
  BY Zenon, HeldParts, Numbers DEF IInv
<1>5. RoundFits'
  <2>1. Wanted(p)' = {}
    BY Zenon, <1>2 DEF Wanted, Active
  <2>2. ASSUME NEW q \in Loops, q # p
        PROVE  SameLoop(q) /\ OfKind(KindOf(q), Snapshot("table")) \subseteq Snapshot("next")'
    <3>1. SameLoop(q) /\ KindOf(q) = "file"
      BY Zenon, <1>0, <1>1, <1>2, <2>2 DEF SameLoop, KindOf
    <3>2. ASSUME NEW w \in Snapshot("table"), Kind(w) = "file"
          PROVE  w \in Snapshot("next")'
      <4>1. w = <<"file", PartID(w)>>
        BY <1>4, <3>2 DEF Part, Kind, PartID
      <4>2. w \in hit => w \in fresh
        BY Zenon, <4>1
      <4> HIDE DEF hit, fresh
      <4> QED
        BY Zenon, <1>1, <4>2
    <3> QED
      BY Zenon, <3>1, <3>2 DEF OfKind
  <2> QED
    BY Zenon, <1>0, <1>1, <1>2, <2>1, <2>2, IntroduceFits DEF StaleInv
<1>6. \A j \in ID : <<"mem", j>> \in Snapshot("next")' \cup queued =>
         j \notin out[p] /\ <<"mem", j>> \in Snapshot("table") \cup queued
  <2>1. \A j \in out[p] : <<"mem", j>> \notin Snapshot("table") \ hit
    <3>1. \A j \in out[p] : PartID(<<"mem", j>>) = j
      BY Zenon DEF PartID
    <3> QED
      BY Zenon, <3>1
  <2>2. \A j \in ID : <<"mem", j>> \notin fresh
    BY Zenon
  <2> HIDE DEF hit, fresh
  <2> QED
    BY Zenon, <1>1, <1>3, <2>1, <2>2
<1>7. \A j \in ID : <<"file", j>> \in Snapshot("next")' \cup queued =>
         j \in out[p] \/ <<"file", j>> \in Snapshot("table") \cup queued
  <2>1. \A j \in ID : <<"file", j>> \in fresh => j \in out[p]
    BY Zenon
  <2> HIDE DEF hit, fresh
  <2> QED
    BY Zenon, <1>1, <2>1
<1>8. KindsApart'
  <2>1. \A q \in Loops : Outcome(q)' = Outcome(q)
    BY Zenon, <1>0, <1>2 DEF Outcome
  <2>2. \A q \in Loops : AllMemFree(Outcome(q))'
    BY Zenon, <1>1, <2>1 DEF StaleInv, KindsApart, AllMemFree
  <2>3. \A r \in Receivers : session'[r] # 0 => MemFree(session[r])'
    BY Zenon, <1>0, <1>1 DEF StaleInv, KindsApart, MemFree
  <2>4. OneKind(Snapshot("table") \cup queued)
    BY Zenon DEF StaleInv, KindsApart
  <2>5. OneKind(Snapshot("table")' \cup queued') /\ OneKind(Snapshot("next")' \cup queued')
    BY Zenon, <1>0, <1>1, <1>6, <1>7, <2>4 DEF OneKind
  <2> QED
    BY Zenon, <2>2, <2>3, <2>5 DEF KindsApart, OneKind
<1>9. DirsApart'
  <2>1. \A j \in ID : InMemory(j)' => InMemory(j) /\ j \notin out[p]
    BY Zenon, <1>0, <1>1, <1>6 DEF InMemory, Latest
  <2>2. \A j \in ID : BeingFlushed(j) => j \in out[p]
    BY Zenon, <1>0, <1>2 DEF BeingFlushed
  <2>3. FlushDirFresh'
    BY Zenon, <1>2 DEF FlushDirFresh
  <2> QED
    BY Zenon, <1>0, <2>1, <2>2, <2>3, MoveDirs DEF StaleInv
<1> QED
  BY Zenon, <1>5, <1>8, <1>9 DEF StaleInv

\* introduceMerged and introduceSync: the consumed parts leave the table, and
\* no other part has one of their identifiers.
LEMMA MergedStale ==
    ASSUME IInv, StaleInv, NEW p \in Loops, IntroduceMerged(p)
    PROVE  StaleInv'
<1> DEFINE hit == {w \in Snapshot("table") : PartID(w) \in work[p]}
           fresh == {<<"file", i>> : i \in out[p]}
<1>0. /\ UNCHANGED <<work, out, done, session, dir, queued>>
      /\ Introduce(hit, fresh, TRUE, p) /\ pc[p] = "send"
      /\ pc' = [pc EXCEPT ![p] = "applied"]
  BY Zenon DEF IntroduceMerged, disk
<1>1. /\ ipc = "idle" /\ ipc' = "replace" /\ client' = p
      /\ Snapshot("table")' = Snapshot("table")
      /\ Snapshot("next")' = (Snapshot("table") \ hit) \cup fresh
      /\ \A q \in Loops : Snapshot(q)' = Snapshot(q)
      /\ \A i : MemFree(i) => MemFree(i)'
  <2>1. \A i : <<"mem", i>> \notin fresh
    BY Zenon
  <2> HIDE DEF hit, fresh
  <2>2. \A i : MemFree(i) /\ queued' \subseteq queued /\ <<"mem", i>> \notin fresh => MemFree(i)'
    BY Zenon, <1>0, IntroduceKeeps
  <2>3. \A i : MemFree(i) => MemFree(i)'
    BY Zenon, <1>0, <2>1, <2>2
  <2> QED
    BY Zenon, <1>0, <2>3, IntroduceKeeps
<1>2. pc'[p] = "applied" /\ \A q \in Loops : q # p => pc'[q] = pc[q]
  BY Zenon, <1>0 DEF IInv, TypeOK
<1>3. Among(p, work[p]) /\ Wanted(p) \subseteq Snapshot("table")
  BY Zenon, <1>0 DEF StaleInv, RoundFits, Fits
<1>4. Snapshot("table") \in SUBSET Part /\ OneKind(Snapshot("table") \cup queued)
  BY Zenon, HeldParts, Numbers DEF IInv, StaleInv, KindsApart
<1>5. \A w \in Wanted(p)' : w \in Wanted(p) /\ PartID(w) \notin work[p]
  <2>1. Active(p) /\ Past(p) \subseteq Past(p)' /\ KindOf(p) = KindOf(p)
    BY Zenon, <1>0, <1>2 DEF Active, Past
  <2>2. Active(p)' => work[p] \subseteq Past(p)'
    BY Zenon, <1>0, <1>2 DEF Active, Past
  <2> QED
    BY Zenon, <1>1, <2>1, <2>2 DEF Wanted, OfKind
<1>6. RoundFits'
  <2>1. Wanted(p)' \subseteq Snapshot("table") /\ Wanted(p)' \subseteq Snapshot("next")'
    BY Zenon, <1>1, <1>3, <1>5
  <2>2. ASSUME NEW q \in Loops, q # p
        PROVE  SameLoop(q) /\ OfKind(KindOf(q), Snapshot("table")) \subseteq Snapshot("next")'
    <3>1. SameLoop(q)
      BY Zenon, <1>0, <1>1, <1>2, <2>2 DEF SameLoop
    <3>2. \/ KindOf(q) = "mem" /\ KindOf(p) = "file"
          \/ KindOf(q) = "file" /\ KindOf(p) = "mem"
      BY Zenon, <2>2, TSTableAssumption, OneConsumer DEF KindOf
    <3>3. ASSUME NEW w \in Snapshot("table"), Kind(w) = KindOf(q)
          PROVE  w \notin hit
      <4> SUFFICES ASSUME PartID(w) \in work[p]
                   PROVE  FALSE
        BY Zenon
      <4>1. w = <<KindOf(q), PartID(w)>> /\ PartID(w) \in ID
        BY <1>4, <3>3 DEF Part, Kind, PartID
      <4>2. <<KindOf(p), PartID(w)>> \in Snapshot("table")
        BY Zenon, <1>3 DEF Among
      <4> QED
        BY Zenon, <1>4, <3>2, <3>3, <4>1, <4>2 DEF OneKind
    <3> HIDE DEF hit, fresh
    <3> QED
      BY Zenon, <1>1, <3>1, <3>3 DEF OfKind
  <2> QED
    BY Zenon, <1>0, <1>1, <1>2, <2>1, <2>2, IntroduceFits DEF StaleInv
<1>7. \A j \in ID : <<"mem", j>> \in Snapshot("next")' \cup queued =>
         <<"mem", j>> \in Snapshot("table") \cup queued
  BY Zenon, <1>1
<1>8. \A j \in ID : <<"file", j>> \in Snapshot("next")' \cup queued =>
         j \in out[p] \/ <<"file", j>> \in Snapshot("table") \cup queued
  <2>1. \A j \in ID : <<"file", j>> \in fresh => j \in out[p]
    BY Zenon
  <2> HIDE DEF hit, fresh
  <2> QED
    BY Zenon, <1>1, <2>1
<1>9. KindsApart'
  <2>1. \A q \in Loops : Outcome(q)' \subseteq Outcome(q)
    BY Zenon, <1>0, <1>2 DEF Outcome
  <2>2. \A q \in Loops : AllMemFree(Outcome(q))'
    BY Zenon, <1>1, <2>1 DEF StaleInv, KindsApart, AllMemFree
  <2>3. \A r \in Receivers : session'[r] # 0 => MemFree(session[r])'
    BY Zenon, <1>0, <1>1 DEF StaleInv, KindsApart, MemFree
  <2>4. \A j \in out[p] : <<"mem", j>> \notin Snapshot("table") \cup queued
    <3>1. \A j \in out[p] : MemFree(j)
      BY Zenon, <1>0 DEF StaleInv, KindsApart, AllMemFree, Outcome
    <3> QED
      BY Zenon, <3>1, Numbers DEF MemFree, Snapshot, IInv, TypeOK
  <2>5. OneKind(Snapshot("table")' \cup queued') /\ OneKind(Snapshot("next")' \cup queued')
    BY Zenon, <1>0, <1>1, <1>4, <1>7, <1>8, <2>4 DEF OneKind
  <2> QED
    BY Zenon, <2>2, <2>3, <2>5 DEF KindsApart, OneKind
<1>10. DirsApart'
  <2>1. \A j \in ID : InMemory(j)' => InMemory(j)
    BY Zenon, <1>0, <1>1, <1>7 DEF InMemory, Latest
  <2>2. \A j \in ID : BeingFlushed(j) => BeingFlushed(j)'
    BY Zenon, <1>0, <1>2 DEF BeingFlushed
  <2>3. FlushDirFresh'
    BY Zenon, <1>0, <1>2 DEF FlushDirFresh, StaleInv, DirsApart
  <2> QED
    BY Zenon, <1>0, <2>1, <2>2, <2>3, MoveDirs DEF StaleInv
<1> QED
  BY Zenon, <1>6, <1>9, <1>10 DEF StaleInv

\* replaceSnapshot: the new current snapshot has what the loops want.
LEMMA ReplaceStale ==
    ASSUME IInv, StaleInv, ReplaceSnapshot
    PROVE  StaleInv'
<1>0. /\ UNCHANGED <<pc, work, out, done, session, dir, queued, client>>
      /\ ipc = "replace" /\ ipc' \in {"persist", "applied"}
      /\ DecRef(held["table"])
      /\ held' = [held EXCEPT !["table"] = held["next"], !["next"] = 0]
  BY Zenon DEF ReplaceSnapshot, loops, disk
<1>1. Snapshot("table")' = Snapshot("next")
  BY Zenon, ReplaceSnapshots
<1>2. ASSUME NEW q \in Loops
      PROVE  SameLoop(q)
  <2>1. q \in Holder /\ q # "table" /\ q # "next" /\ "table" \in Holder
    BY Zenon, TSTableAssumption, Numbers DEF IInv
  <2>2. held'[q] = held[q]
    BY Zenon, <1>0, <2>1 DEF IInv, TypeOK
  <2>3. held[q] # 0 => parts'[held[q]] = parts[held[q]]
    BY Zenon, <1>0, <2>1, OthersKept DEF IInv
  <2>4. Snapshot(q)' = Snapshot(q)
    BY Zenon, <2>2, <2>3 DEF Snapshot
  <2> QED
    BY Zenon, <1>0, <2>4 DEF SameLoop
<1>3. ASSUME NEW q \in Loops
      PROVE  Wanted(q) \subseteq Snapshot("next")
  <2>1. Fits(q) /\ Spares(q)
    BY Zenon, <1>0 DEF StaleInv, RoundFits
  <2>2. Wanted(q) \subseteq OfKind(KindOf(q), Snapshot("table"))
    BY Zenon, <2>1 DEF Fits, Wanted, OfKind
  <2> QED
    BY Zenon, <2>1, <2>2 DEF Spares
<1>4. RoundFits'
  <2>1. \A q \in Loops : Fits(q)'
    BY Zenon, <1>1, <1>2, <1>3, FitsSame DEF StaleInv, RoundFits
  <2>2. client # "none" => pc[client] = "applied"
    BY Zenon, <1>0 DEF StaleInv, RoundFits
  <2> QED
    BY Zenon, <1>0, <2>1, <2>2 DEF RoundFits
<1>5. KindsApart'
  <2>1. \A e \in Epoch : parts'[e] \subseteq parts[e]
    BY Zenon, <1>0, DecRefParts, Numbers DEF IInv
  <2>2. \A i : MemFree(i) => MemFree(i)'
    BY Zenon, <1>0, <2>1 DEF MemFree
  <2>3. \A q \in Loops : Outcome(q)' = Outcome(q)
    BY Zenon, <1>0 DEF Outcome
  <2>4. \A q \in Loops : AllMemFree(Outcome(q))'
    BY Zenon, <2>2, <2>3 DEF StaleInv, KindsApart, AllMemFree
  <2>5. \A r \in Receivers : session'[r] # 0 => MemFree(session[r])'
    BY Zenon, <1>0, <2>2 DEF StaleInv, KindsApart, MemFree
  <2>6. OneKind(Snapshot("next") \cup queued)
    BY Zenon, <1>0 DEF StaleInv, KindsApart
  <2> QED
    BY Zenon, <1>0, <1>1, <2>4, <2>5, <2>6 DEF KindsApart, OneKind
<1>6. DirsApart'
  <2>1. Latest' = Latest
    BY Zenon, <1>0, <1>1 DEF Latest
  <2>2. \A j \in ID : InMemory(j)' = InMemory(j)
    BY Zenon, <1>0, <2>1 DEF InMemory
  <2>3. FlushDirFresh' /\ \A j \in ID : BeingFlushed(j)' = BeingFlushed(j)
    BY Zenon, <1>0 DEF FlushDirFresh, BeingFlushed, StaleInv, DirsApart
  <2> QED
    BY Zenon, <1>0, <2>2, <2>3, MoveDirs DEF StaleInv
<1> QED
  BY Zenon, <1>4, <1>5, <1>6 DEF StaleInv

\* The manifest is written, or outdated ones are removed.
LEMMA ManifestStale ==
    ASSUME IInv, StaleInv, PersistSnapshot \/ Clean
    PROVE  StaleInv'
<1>0. /\ UNCHANGED <<held, parts, pc, work, out, done, session, dir, queued, client>>
      /\ \/ ipc = "persist" /\ ipc' = "applied"
         \/ ipc = "clean" /\ ipc' = "idle"
  BY Zenon DEF PersistSnapshot, Clean, counts, loops
<1>1. AfterIntro /\ \A q : SameLoop(q) /\ Outcome(q)' = Outcome(q)
  BY Zenon, <1>0, StillSame DEF AfterIntro
<1>2. RoundFits'
  <2>1. \A q \in Loops : Fits(q)'
    BY Zenon, <1>1, FitsSame DEF StaleInv, RoundFits, Fits, AfterIntro
  <2> QED
    BY Zenon, <1>0, <2>1 DEF RoundFits, StaleInv
<1>3. KindsApart'
  BY Zenon, <1>0, <1>1, MoveKinds DEF StaleInv
<1>4. DirsApart'
  <2>1. Latest' = Latest
    BY Zenon, <1>1 DEF Latest, AfterIntro
  <2>2. \A j \in ID : InMemory(j)' = InMemory(j)
    BY Zenon, <1>0, <2>1 DEF InMemory
  <2>3. FlushDirFresh' /\ \A j \in ID : BeingFlushed(j)' = BeingFlushed(j)
    BY Zenon, <1>0 DEF FlushDirFresh, BeingFlushed, StaleInv, DirsApart
  <2> QED
    BY Zenon, <1>0, <2>2, <2>3, MoveDirs DEF StaleInv
<1> QED
  BY Zenon, <1>2, <1>3, <1>4 DEF StaleInv

\* The introducer signals the loop that waits: the parts the flusher consumed
\* now count as done.
LEMMA AppliedStale ==
    ASSUME IInv, StaleInv, Applied
    PROVE  StaleInv'
<1>0. /\ UNCHANGED <<work, out, dir, queued, client>>
      /\ ipc = "applied" /\ ipc' \in {"idle", "clean"}
      /\ DecRef(held["introducer"]) /\ held' = [held EXCEPT !["introducer"] = 0]
      /\ done' = IF client = "flusher" THEN done \cup work["flusher"] ELSE done
      /\ pc' = [p \in Loops |->
                  IF p # client THEN pc[p]
                  ELSE IF p = "flusher" /\ work[p] # {} THEN "ready" ELSE "done"]
      /\ \A r \in Receivers : session'[r] \in {0, session[r]}
  BY Zenon DEF Applied, disk
<1>1. /\ "introducer" \in Holder /\ "table" \in Holder /\ Loops \subseteq Holder
      /\ "introducer" \notin Loops /\ client \in Loops \cup {"none"}
  BY Zenon, TSTableAssumption, Numbers DEF IInv, TypeOK
<1>2. /\ \A g \in Holder : g # "introducer" => Snapshot(g)' = Snapshot(g)
      /\ \A e \in Epoch : parts'[e] \subseteq parts[e]
  BY Zenon, <1>0, <1>1, ReleaseKeeps
<1>3. Snapshot("table")' = Snapshot("table") /\ \A q \in Loops : Snapshot(q)' = Snapshot(q)
  BY Zenon, <1>1, <1>2
<1>4. client # "none" => pc[client] = "applied"
  BY Zenon, <1>0 DEF StaleInv, RoundFits
<1>5. ASSUME NEW q \in Loops
      PROVE  Fits(q)'
  <2>1. Wanted(q) \subseteq Snapshot("table")' /\ Fits(q)
    BY Zenon, <1>3 DEF StaleInv, RoundFits, Fits
  <2>2. CASE q # client
    <3>1. SameLoop(q)
      BY Zenon, <1>0, <1>3, <2>2 DEF SameLoop
    <3> QED
      BY Zenon, <2>1, <3>1, FitsSame
  <2>3. CASE q = client /\ q = "flusher" /\ work[q] # {}
    <3>1. pc[q] = "applied" /\ pc'[q] = "ready"
      BY Zenon, <1>0, <1>4, <2>3
    <3>2. Active(q) /\ Past(q)' = Past(q)
      BY Zenon, <1>0, <2>3, <3>1 DEF Active, Past
    <3>3. Wanted(q)' \subseteq Wanted(q)
      BY Zenon, <1>3, <3>2 DEF Wanted, OfKind
    <3> QED
      BY Zenon, <2>1, <3>1, <3>3 DEF Fits
  <2>4. CASE q = client /\ ~(q = "flusher" /\ work[q] # {})
    <3>1. pc'[q] = "done"
      BY Zenon, <1>0, <2>4
    <3>2. Wanted(q)' = {}
      BY Zenon, <3>1 DEF Wanted, Active
    <3> QED
      BY Zenon, <3>1, <3>2 DEF Fits
  <2> QED
    BY Zenon, <2>2, <2>3, <2>4
<1>6. RoundFits'
  BY Zenon, <1>0, <1>5 DEF RoundFits
<1>7. KindsApart'
  <2>1. \A q \in Loops : Outcome(q)' \subseteq Outcome(q)
    BY Zenon, <1>0 DEF Outcome
  <2>2. AfterIntro
    BY Zenon, <1>0, <1>3 DEF AfterIntro
  <2> QED
    BY Zenon, <1>0, <1>2, <2>1, <2>2, MoveKinds DEF StaleInv
<1>8. DirsApart'
  <2>1. Latest' = Latest
    BY Zenon, <1>0, <1>3 DEF Latest
  <2>2. \A j \in ID : InMemory(j)' = InMemory(j)
    BY Zenon, <1>0, <2>1 DEF InMemory
  <2>3. "flusher" \in Loops =>
            \/ pc'["flusher"] = pc["flusher"]
            \/ pc["flusher"] = "applied" /\ pc'["flusher"] \in {"ready", "done"}
    BY Zenon, <1>0, <1>4
  <2>4. \A j \in ID : BeingFlushed(j) => BeingFlushed(j)'
    BY Zenon, <1>0, <2>3 DEF BeingFlushed
  <2>5. FlushDirFresh'
    BY Zenon, <1>0, <2>3 DEF FlushDirFresh, StaleInv, DirsApart
  <2> QED
    BY Zenon, <1>0, <2>2, <2>4, <2>5, MoveDirs DEF StaleInv
<1> QED
  BY Zenon, <1>6, <1>7, <1>8 DEF StaleInv

-----------------------------------------------------------------------------
(* All steps *)

\* A fresh table satisfies the invariant,
LEMMA FreshStale == Fresh => StaleInv
<1> SUFFICES ASSUME Fresh
             PROVE  StaleInv
  BY Zenon
<1>1. \A p \in Loops : Wanted(p) = {} /\ Outcome(p) = {}
  BY Zenon DEF Fresh, Wanted, Active, Outcome
<1>2. RoundFits
  BY Zenon, <1>1 DEF Fresh, RoundFits, Fits
<1>3. \A i : <<"mem", i>> \notin Snapshot("table") \cup queued
  <2>1. \A i : Kind(<<"mem", i>>) # "file"
    BY Zenon DEF Kind
  <2> QED
    BY Zenon, <2>1 DEF Fresh
<1>4. KindsApart
  BY Zenon, <1>1, <1>3 DEF Fresh, KindsApart, AllMemFree, OneKind
<1>5. DirsApart
  BY Zenon, <1>3 DEF Fresh, DirsApart, InMemory, Latest, FlushDirFresh
<1> QED
  BY Zenon, <1>2, <1>4, <1>5 DEF StaleInv

\* also when a step leads to it.
LEMMA FreshStaleNext == Fresh' => StaleInv'
BY FreshStale, PTL

\* Nothing happens.
LEMMA StutterStale ==
    ASSUME IInv, StaleInv, UNCHANGED vars
    PROVE  StaleInv'
<1>0. UNCHANGED <<held, parts, ipc, client, pc, work, out, done, queued, session, dir>>
  BY Zenon DEF vars, disk, counts, loops, intro
<1>1. RoundFits' /\ DirsApart'
  BY Zenon, <1>0, StillFits, DirStep DEF StaleInv
<1>2. KindsApart'
  BY Zenon, <1>0, StillSame, MoveKinds DEF StaleInv
<1> QED
  BY Zenon, <1>1, <1>2 DEF StaleInv

\* Every step preserves the invariant.
LEMMA NextStale ==
    ASSUME MaxClose = 0, IInv, StaleInv, [Next]_vars
    PROVE  StaleInv'
<1>1. CASE (\E w \in Part : IntroducePart(w)) \/ IntroduceFlushed
  BY Zenon, <1>1, PartStale, FlushedStale
<1>2. CASE \E p \in Loops : IntroduceMerged(p)
  BY Zenon, <1>2, MergedStale
<1>3. CASE ReplaceSnapshot \/ Applied
  BY Zenon, <1>3, ReplaceStale, AppliedStale
<1>4. CASE PersistSnapshot \/ Clean
  BY Zenon, <1>4, ManifestStale
<1>5. CASE \E p \in Loops : TakeSnapshot(p) \/ FailRound(p) \/ Release(p)
  BY Zenon, <1>5, RoundStale
<1>6. CASE \E p \in Loops : (\E G \in SUBSET ID : StartMerge(p, G)) \/ FinishMerge(p)
  BY Zenon, <1>6, StartMergeStale, FinishMergeStale
<1>7. CASE StartFlush \/ SyncSnapshot
  BY Zenon, <1>7, StartFlushStale, SyncStale
<1>8. CASE \E i \in ID : MustFlush(i) \/ MustFlushDone(i)
  BY Zenon, <1>8, MustFlushStale, FlushDoneStale
<1>9. CASE \E w \in Writes : MustAddMemPart(w)
  BY Zenon, <1>9, AddMemStale
<1>10. CASE \/ \E r \in Receivers, w \in Writes : CreatePartHandler(r, w)
            \/ \E r \in Receivers : AbortSync(r)
            \/ \E i \in ID : MustRMAll(i)
  BY Zenon, <1>10, SessionStale
<1>11. CASE \E r \in Receivers : FinishSync(r)
  BY Zenon, <1>11, FinishSyncStale
<1>12. CASE \E r \in Readers : Acquire(r) \/ ReleaseReader(r)
  BY Zenon, <1>12, ReaderStale
<1>13. CASE \/ Crash \/ InitTSTableEmpty
            \/ \E e \in Epoch, bad \in SUBSET ID : LoadSnapshot(e, bad)
  BY Zenon, <1>13, RestartFresh, FreshStaleNext
<1>14. CASE UNCHANGED vars
  BY Zenon, <1>14, StutterStale
<1>15. /\ ~ DrainExit /\ ~ CloseTable /\ ~ StartClose
       /\ \A w \in Part : ~ DropQueued(w)
       /\ \A p \in Loops : ~ Abandon(p)
  BY DEF IInv, DrainExit, CloseTable, StartClose, DropQueued, Abandon
<1> QED
  BY SMTT(90), <1>1, <1>2, <1>3, <1>4, <1>5, <1>6, <1>7, <1>8, <1>9, <1>10, <1>11, <1>12,
     <1>13, <1>14, <1>15
     DEF Next, Introducer, LoopStep, Flush

\* The invariant holds in every reachable state.
THEOREM StaleInvariance == MaxClose = 0 => (Spec => [](IInv /\ StaleInv))
<1> SUFFICES ASSUME MaxClose = 0
             PROVE  Spec => [](IInv /\ StaleInv)
  BY Zenon
<1>1. Init => StaleInv
  <2> SUFFICES ASSUME Init
               PROVE  Fresh
    BY Zenon, FreshStale
  <2>1. held["table"] = 0
    BY Zenon DEF Init, Holder
  <2>2. Snapshot("table") = {}
    BY Zenon, <2>1 DEF Snapshot
  <2> QED
    BY Zenon, <2>2 DEF Init, Fresh
<1>2. Init => IInv
  BY Zenon, InitInv
<1>3. IInv /\ StaleInv /\ [Next]_vars => IInv' /\ StaleInv'
  BY Zenon, NextInv, NextStale
<1> QED
  BY <1>1, <1>2, <1>3, PTL DEF Spec

\* What a loop hands to the introducer still refers to the current snapshot,
\* however long the loop worked on an old one and whatever the other loops,
\* the writers and the sync sessions had introduced meanwhile: introduceFlushed,
\* introduceMerged and introduceSync never look for a part that is gone.
THEOREM ConsumedStillThere == MaxClose = 0 => (Spec => []IntroductionFits)
<1> SUFFICES ASSUME MaxClose = 0
             PROVE  Spec => []IntroductionFits
  BY Zenon
<1>1. RoundFits => IntroductionFits
  <2> SUFFICES ASSUME RoundFits, NEW p \in Loops
               PROVE  /\ pc[p] = "send" => \A i \in work[p] :
                           <<IF p = "flusher" THEN "mem" ELSE "file", i>> \in Snapshot("table")
                      /\ pc[p] = "sendFlush" => \A i \in out[p] : <<"mem", i>> \in Snapshot("table")
    BY Zenon DEF IntroductionFits
  <2>1. Fits(p)
    BY Zenon DEF RoundFits
  <2>2. pc[p] = "send" => \A i \in work[p] : <<KindOf(p), i>> \in Snapshot("table")
    BY Zenon, <2>1 DEF Fits, Among
  <2>3. pc[p] = "sendFlush" => \A i \in out[p] : <<"mem", i>> \in Snapshot("table")
    BY Zenon, <2>1 DEF Fits, Among, KindOf
  <2> QED
    BY Zenon, <2>2, <2>3 DEF KindOf
<1>2. IInv /\ StaleInv => IntroductionFits
  BY Zenon, <1>1 DEF StaleInv
<1> QED
  BY <1>2, StaleInvariance, PTL

\* A memory part that is to be flushed has no complete directory, also after
\* any number of crashes: the MkdirPanicIfExist of mustFlush does not meet the
\* outcome of an earlier flush, of a merge or of a sync session.
THEOREM FlushMeetsNoDirectory == MaxClose = 0 => (Spec => []FlushDirFresh)
<1> SUFFICES ASSUME MaxClose = 0
             PROVE  Spec => []FlushDirFresh
  BY Zenon
<1>1. IInv /\ StaleInv => FlushDirFresh
  BY Zenon DEF StaleInv, DirsApart
<1> QED
  BY <1>1, StaleInvariance, PTL

-----------------------------------------------------------------------------
(* No row twice *)

\* Directories appear and go.
LEMMA DirsOnce ==
    ASSUME IInv, RowsInv, StaleInv, Once,
           \/ \E i \in ID : MustRMAll(i) \/ MustFlush(i) \/ MustFlushDone(i)
           \/ \E r \in Receivers : AbortSync(r)
           \/ \E p \in Loops : FinishMerge(p)
    PROVE  Once'
<1>0. /\ dir \in [ID -> {"none", "partial", "full"}] /\ session \in [Receivers -> {0} \cup ID]
      /\ pc \in [Loops -> {"idle", "ready", "merge", "flush", "send", "sendFlush",
                           "applied", "done"}]
      /\ work \in [Loops -> SUBSET ID] /\ out \in [Loops -> SUBSET ID]
  BY Zenon DEF IInv, TypeOK
<1>1. CASE \E i \in ID : MustRMAll(i)
  <2>1. Quiet
    BY Zenon, <1>1, DirectoriesQuiet
  <2>2. UNCHANGED <<crashes, queued, session, pc, work, out>>
    BY Zenon, <1>1 DEF MustRMAll, history, loops
  <2>3. \A j \in ID : dir'[j] = "partial" => dir[j] = "partial"
    BY Zenon, <1>0, <1>1 DEF MustRMAll
  <2> QED
    BY Zenon, <2>1, <2>2, <2>3, OnceSame DEF LoopOnce
<1>2. CASE \E r \in Receivers : AbortSync(r)
  <2>1. Quiet
    BY Zenon, <1>2, DirectoriesQuiet
  <2>2. UNCHANGED <<crashes, queued, pc, work, out>>
    BY Zenon, <1>2 DEF AbortSync, history, loops
  <2>3. /\ \A j \in ID : dir'[j] = "partial" => dir[j] = "partial"
        /\ \A r \in Receivers : session'[r] \in {0, session[r]}
    BY Zenon, <1>0, <1>2 DEF AbortSync
  <2> QED
    BY Zenon, <2>1, <2>2, <2>3, OnceSame DEF LoopOnce
<1>3. CASE \E i \in ID : MustFlush(i)
  <2>1. PICK i \in ID : MustFlush(i)
    BY Zenon, <1>3
  <2>2. Quiet
    BY Zenon, <2>1, DirectoriesQuiet
  <2>3. UNCHANGED <<crashes, queued, session, pc, work, out>>
    BY Zenon, <2>1 DEF MustFlush, history, loops
  <2>4. BeingFlushed(i)
    BY Zenon, <2>1 DEF BeingFlushed, MustFlush
  <2>5. \A r \in Receivers : session[r] # i
    <3>1. i # 0 /\ ~MemFree(i)
      BY Zenon, <2>4, FlushedInMemory, Numbers DEF StaleInv, IInv
    <3> QED
      BY Zenon, <3>1 DEF StaleInv, KindsApart
  <2>6. \A j \in ID : j # i => dir'[j] = dir[j]
    BY Zenon, <1>0, <2>1 DEF MustFlush
  <2>7. \A j \in ID : dir'[j] = "partial" =>
               dir[j] = "partial" \/ \A r \in Receivers : session[r] # j
    BY Zenon, <2>5, <2>6
  <2> QED
    BY Zenon, <2>2, <2>3, <2>7, OnceSame DEF LoopOnce
<1>4. CASE \E i \in ID : MustFlushDone(i)
  <2>1. PICK i \in ID : MustFlushDone(i)
    BY Zenon, <1>4
  <2>2. Quiet
    BY Zenon, <2>1, RoundsQuiet
  <2>3. UNCHANGED <<crashes, queued, session>>
    BY Zenon, <2>1 DEF MustFlushDone, history
  <2>4. \A j \in ID : dir'[j] = "partial" => dir[j] = "partial"
    BY Zenon, <1>0, <2>1 DEF MustFlushDone
  <2>5. /\ pc'["flusher"] \notin {"merge", "send"}
        /\ \A q \in Loops : q # "flusher" => pc'[q] = pc[q] /\ work'[q] = work[q] /\ out'[q] = out[q]
    BY <1>0, <2>1 DEF MustFlushDone
  <2>6. \A q \in Loops : LoopOnce(q)
    BY Zenon, <2>5 DEF LoopOnce, OneOutcome
  <2> QED
    BY Zenon, <2>2, <2>3, <2>4, <2>6, OnceSame
<1>5. CASE \E p \in Loops : FinishMerge(p)
  <2>1. PICK p \in Loops : FinishMerge(p)
    BY Zenon, <1>5
  <2>2. Quiet
    BY Zenon, <2>1, RoundsQuiet
  <2>3. UNCHANGED <<crashes, queued, session, work, out>>
    BY Zenon, <2>1 DEF FinishMerge, history
  <2>4. \A j \in ID : dir'[j] = "partial" => dir[j] = "partial"
    BY Zenon, <1>0, <2>1 DEF FinishMerge
  <2>5. pc[p] = "merge" /\ \A q \in Loops : q # p => pc'[q] = pc[q]
    BY Zenon, <1>0, <2>1 DEF FinishMerge
  <2>6. \A q \in Loops : LoopOnce(q)
    BY Zenon, <2>3, <2>5 DEF LoopOnce
  <2> QED
    BY Zenon, <2>2, <2>3, <2>4, <2>6, OnceSame
<1> QED
  BY Zenon, <1>1, <1>2, <1>3, <1>4, <1>5

\* introduceMerged and introduceSync: the consumed parts are in the table and
\* leave it, so that the outcome has their rows to itself.
LEMMA MergedOnce ==
    ASSUME IInv, RowsInv, StaleInv, Once, NEW p \in Loops, IntroduceMerged(p)
    PROVE  Once'
<1> DEFINE hit == {w \in Snapshot("table") : PartID(w) \in work[p]}
           T == (Snapshot("table") \ hit) \cup {<<"file", i>> : i \in out[p]}
           R == IDs(T \cup queued) \cup Receiving
<1>1. PICK S : Builds(S)
  BY Zenon, MergedBuilds
<1>2. parts'[epoch] = T /\ ipc = "idle" /\ pc[p] = "send"
  BY Zenon, IntroduceBuilds DEF IntroduceMerged
<1>3. S = T
  BY Zenon, <1>1, <1>2 DEF Builds
<1>4. UNCHANGED <<crashes, dir, session, queued>>
  BY Zenon DEF IntroduceMerged, disk, history
<1>5. Latest = Snapshot("table") /\ Receiving' = Receiving
  BY Zenon, <1>2, <1>4 DEF Latest, Receiving
<1>6. \A i \in work[p] : <<KindOf(p), i>> \in Snapshot("table") /\ i \in ID
  BY Zenon, <1>2 DEF StaleInv, RoundFits, Fits, Among, IInv, TypeOK
<1>7. work[p] \subseteq Live
  <2>1. \A k, i : PartID(<<k, i>>) = i
    BY Zenon DEF PartID
  <2> QED
    BY Zenon, <1>5, <1>6, <2>1 DEF Live, IDs
<1>8. \A w \in Snapshot("table") \ hit : PartID(w) \in Live /\ PartID(w) \notin work[p]
  BY Zenon, <1>5 DEF Live, IDs
<1>9. ASSUME NEW w \in queued
      PROVE  PartID(w) \in Live /\ PartID(w) \notin work[p]
  <2>1. PartID(w) \in Live
    BY Zenon DEF Live, IDs
  <2>2. w \in Part /\ (w = <<"mem", PartID(w)>> \/ w = <<"file", PartID(w)>>)
    BY DEF IInv, TypeOK, Part, PartID
  <2>3. ASSUME PartID(w) \in work[p]
        PROVE  FALSE
    <3>1. <<KindOf(p), PartID(w)>> \in Snapshot("table") /\ PartID(w) \in ID
      BY Zenon, <1>6, <2>3
    <3>2. \A e \in Epoch : w \notin parts[e]
      BY Zenon DEF IInv, FilesComplete, Waiting
    <3>3. w \notin Snapshot("table")
      BY Zenon, <3>2, Numbers DEF Snapshot, IInv, TypeOK
    <3>4. OneKind(Snapshot("table") \cup queued)
      BY Zenon DEF StaleInv, KindsApart
    <3>5. KindOf(p) \in {"mem", "file"}
      BY Zenon DEF KindOf
    <3> QED
      BY Zenon, <2>2, <3>1, <3>3, <3>4, <3>5 DEF OneKind
  <2> QED
    BY Zenon, <2>1, <2>3
<1>10. ASSUME NEW i \in Receiving
       PROVE  i \in Live /\ i \notin work[p]
  <2>1. i \in Live
    BY Zenon DEF Live
  <2>2. i \in ID /\ dir[i] = "partial" /\ MemFree(i)
    BY Zenon, Numbers DEF Receiving, StaleInv, KindsApart, IInv
  <2>3. <<"file", i>> \notin Snapshot("table") /\ <<"mem", i>> \notin Snapshot("table")
    <3>1. \A e \in Epoch : <<"file", i>> \notin parts[e] /\ <<"mem", i>> \notin parts[e]
      BY Zenon, <2>2 DEF IInv, FilesComplete, Complete, MemFree
    <3> QED
      BY ZenonT(30), <3>1, Numbers DEF Snapshot, IInv, TypeOK
  <2> QED
    BY Zenon, <1>6, <2>1, <2>3 DEF KindOf
<1>11. \A w \in T : w \in Snapshot("table") \ hit \/ PartID(w) \in out[p]
  <2>1. \A i : PartID(<<"file", i>>) = i
    BY Zenon DEF PartID
  <2> QED
    BY Zenon, <2>1
<1> HIDE DEF T, hit
<1>12. \A i \in R : i \in out[p] \/ (i \in Live /\ i \notin work[p])
  BY Zenon, <1>8, <1>9, <1>10, <1>11 DEF IDs
<1> HIDE DEF R
<1>13. \A i \in out[p] : rows[i] \subseteq Rows(work[p]) /\ \A j \in out[p] : j = i
  BY Zenon, <1>2 DEF Once, OneOutcome
<1>14. \A i \in Live : i \notin work[p] => rows[i] \cap Rows(work[p]) = {}
  <2> SUFFICES ASSUME NEW i \in Live, i \notin work[p], NEW x \in rows[i], x \in Rows(work[p])
               PROVE  FALSE
    BY Zenon
  <2>1. PICK k \in work[p] : x \in rows[k]
    BY Zenon, InRows
  <2>2. rows[i] \cap rows[k] = {}
    BY Zenon, <1>7 DEF Once, Apart
  <2> QED
    BY Zenon, <2>1, <2>2
<1>15. Apart(R)
  <2> SUFFICES ASSUME NEW i \in R, NEW j \in R, i # j
               PROVE  rows[i] \cap rows[j] = {}
    BY Zenon DEF Apart
  <2>1. CASE i \in out[p]
    <3>1. j \in Live /\ j \notin work[p]
      BY Zenon, <1>12, <1>13, <2>1
    <3>2. rows[j] \cap Rows(work[p]) = {} /\ rows[i] \subseteq Rows(work[p])
      BY Zenon, <1>13, <1>14, <2>1, <3>1
    <3> QED
      BY Zenon, <3>2
  <2>2. CASE j \in out[p]
    <3>1. i \in Live /\ i \notin work[p]
      BY Zenon, <1>12, <1>13, <2>2
    <3>2. rows[i] \cap Rows(work[p]) = {} /\ rows[j] \subseteq Rows(work[p])
      BY Zenon, <1>13, <1>14, <2>2, <3>1
    <3> QED
      BY Zenon, <3>2
  <2>3. CASE i \in Live /\ j \in Live
    BY Zenon, <2>3 DEF Once, Apart
  <2> QED
    BY Zenon, <1>12, <2>1, <2>2, <2>3
<1>16. IDs(S \cup queued') \cup Receiving' = R
  BY Zenon, <1>3, <1>4, <1>5 DEF R
<1> QED
  BY Zenon, <1>1, <1>4, <1>15, <1>16, BuildsOnce

\* Every step preserves the invariant.
LEMMA NextOnce ==
    ASSUME MaxClose = 0, IInv, RowsInv, StaleInv, OnceInv, [Next]_vars
    PROVE  OnceInv'
<1>1. CASE \/ Crash \/ InitTSTableEmpty
           \/ \E e \in Epoch, bad \in SUBSET ID : LoadSnapshot(e, bad)
  BY Zenon, <1>1, RestartOnce
<1>2. CASE \/ (\E w \in Part : IntroducePart(w)) \/ IntroduceFlushed
           \/ \E p \in Loops : IntroduceMerged(p)
  <2>1. crashes' = crashes
    BY Zenon, <1>2 DEF IntroducePart, IntroduceFlushed, IntroduceMerged, history
  <2> QED
    BY Zenon, <1>2, <2>1, PartOnce, FlushedOnce, MergedOnce DEF OnceInv
<1>3. CASE ReplaceSnapshot \/ PersistSnapshot
  <2>1. crashes' = crashes
    BY Zenon, <1>3 DEF ReplaceSnapshot, PersistSnapshot
  <2> QED
    BY Zenon, <1>3, <2>1, ReplaceOnce, PersistOnce DEF OnceInv
<1>4. CASE \/ \E r \in Readers : Acquire(r) \/ ReleaseReader(r)
           \/ \E p \in Loops : TakeSnapshot(p) \/ FailRound(p) \/ Release(p)
           \/ StartFlush \/ SyncSnapshot \/ Applied \/ Clean
  <2>1. crashes' = crashes
    BY Zenon, <1>4 DEF Acquire, ReleaseReader, TakeSnapshot, FailRound, Release, StartFlush,
                       SyncSnapshot, Applied, Clean, history
  <2> QED
    BY Zenon, <1>4, <2>1, RoundsOnce DEF OnceInv
<1>5. CASE \/ \E i \in ID : MustRMAll(i) \/ MustFlush(i) \/ MustFlushDone(i)
           \/ \E r \in Receivers : AbortSync(r)
           \/ \E p \in Loops : FinishMerge(p)
  <2>1. crashes' = crashes
    BY Zenon, <1>5 DEF MustRMAll, MustFlush, MustFlushDone, AbortSync, FinishMerge, history
  <2> QED
    BY Zenon, <1>5, <2>1, DirsOnce DEF OnceInv
<1>6. CASE \E p \in Loops : \E G \in SUBSET ID : StartMerge(p, G)
  <2>1. crashes' = crashes
    BY Zenon, <1>6 DEF StartMerge, history
  <2> QED
    BY Zenon, <1>6, <2>1, MergeOnce DEF OnceInv
<1>7. CASE \/ \E w \in Writes : MustAddMemPart(w)
           \/ \E r \in Receivers, w \in Writes : CreatePartHandler(r, w)
  <2>1. crashes' = crashes
    BY Zenon, <1>7 DEF MustAddMemPart, CreatePartHandler
  <2> QED
    BY Zenon, <1>7, <2>1, ArrivalOnce DEF OnceInv
<1>8. CASE \E r \in Receivers : FinishSync(r)
  <2>1. crashes' = crashes
    BY Zenon, <1>8 DEF FinishSync, history
  <2> QED
    BY Zenon, <1>8, <2>1, FinishSyncOnce DEF OnceInv
<1>9. CASE UNCHANGED vars
  <2>1. crashes' = crashes
    BY Zenon, <1>9 DEF vars, history
  <2> QED
    BY Zenon, <1>9, <2>1, StutterOnce DEF OnceInv
<1>10. /\ ~ DrainExit /\ ~ CloseTable /\ ~ StartClose
       /\ \A w \in Part : ~ DropQueued(w)
       /\ \A p \in Loops : ~ Abandon(p)
  BY DEF IInv, DrainExit, CloseTable, StartClose, DropQueued, Abandon
<1> QED
  BY SMTT(90), <1>1, <1>2, <1>3, <1>4, <1>5, <1>6, <1>7, <1>8, <1>9, <1>10
     DEF Next, Introducer, LoopStep, Flush

\* Until the second crash no row is in two parts of the current snapshot, so
\* that no query counts it twice: a merge or a sync that ends on a later
\* snapshot than it began with takes out exactly what it consumed, a flush
\* puts each file part in the place of its memory part, and a recovery does
\* not load a part beside the ones it was merged from.
THEOREM RowsStayOnce == MaxClose = 0 => (Spec => [](crashes <= 1 => NoRowTwice))
<1> SUFFICES ASSUME MaxClose = 0
             PROVE  Spec => [](crashes <= 1 => NoRowTwice)
  BY Zenon
<1>1. Init => OnceInv
  <2> SUFFICES ASSUME Init
               PROVE  FreshApart
    BY Zenon, FreshOnce DEF OnceInv
  <2>1. held["table"] = 0
    BY Zenon DEF Init, Holder
  <2>2. Snapshot("table") = {}
    BY Zenon, <2>1 DEF Snapshot
  <2>3. Apart(IDs(Snapshot("table")))
    BY Zenon, <2>2 DEF Apart, IDs
  <2> QED
    BY Zenon, <2>2, <2>3 DEF Init, FreshApart, Fresh, Running
<1>2. IInv /\ RowsInv /\ StaleInv /\ OnceInv /\ [Next]_vars => OnceInv'
  BY Zenon, NextOnce
<1>3. Spec => []OnceInv
  BY <1>1, <1>2, RowsInvariance, StaleInvariance, PTL DEF Spec
<1>4. ASSUME IInv, StaleInv, OnceInv
      PROVE  crashes <= 1 => NoRowTwice
  <2> SUFFICES ASSUME Once, NEW v \in Snapshot("table"), NEW w \in Snapshot("table"), v # w
               PROVE  rows[PartID(v)] \cap rows[PartID(w)] = {}
    BY Zenon, <1>4 DEF OnceInv, NoRowTwice
  <2>1. v \in Part /\ w \in Part
    BY Zenon, <1>4, HeldParts, Numbers DEF IInv
  <2>2. OneKind(Snapshot("table") \cup queued)
    BY Zenon, <1>4 DEF StaleInv, KindsApart
  <2>3. /\ v = <<"mem", PartID(v)>> \/ v = <<"file", PartID(v)>>
        /\ w = <<"mem", PartID(w)>> \/ w = <<"file", PartID(w)>>
        /\ PartID(v) \in ID
    BY <2>1 DEF Part, PartID
  <2>4. PartID(v) # PartID(w)
    BY Zenon, <2>2, <2>3 DEF OneKind
  <2>5. PartID(v) \in IDs(Snapshot("table")) /\ PartID(w) \in IDs(Snapshot("table"))
    BY Zenon DEF IDs
  <2> QED
    BY Zenon, <2>4, <2>5 DEF Once, Apart
<1> QED
  BY <1>3, <1>4, StaleInvariance, PTL
=============================================================================
