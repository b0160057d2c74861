--------------------------- MODULE TSTableProofs ----------------------------
(***************************************************************************)
(* Proofs about TSTable, for any number of rows, parts, epochs, readers,   *)
(* sync sessions and crashes, as long as the table is not closed and       *)
(* opened again within one process (MaxClose = 0): a removal goroutine     *)
(* that outlives its table needs a different argument.  First the          *)
(* inductive invariant and what the proofs for the actions share, then one *)
(* lemma per action: the steps that take, release and record snapshots,    *)
(* writes and sync sessions, the rounds of the loops, introductions,       *)
(* crashes and recovery; and the theorems at the end.                      *)
(***************************************************************************)
EXTENDS TSTable, FiniteSetTheorems, TLAPS

\* File parts that loop p has completed but not introduced, the one it is
\* writing, and the memory parts it has yet to flush.
InFlight(p) == IF pc[p] \in {"flush", "send", "sendFlush"} THEN out[p] ELSE {}
Building(p) == IF pc[p] = "merge" THEN out[p] ELSE {}
Flushing(p) == IF p = "flusher" /\ pc[p] = "flush" THEN work[p] ELSE {}

HoldersOf(e) == {h \in Holder : held[h] = e}
SnapshotsOf(w) == {e \in Epoch : w \in parts[e]}

\* The reference counts cover the holders and the snapshots.
Counted ==
    /\ \A e \in Epoch : Cardinality(HoldersOf(e)) <= sref[e]
    /\ \A w \in Part : Cardinality(SnapshotsOf(w)) <= ref[w]

\* The introducer's epoch is newer than every snapshot in use.
EpochFresh ==
    \A h \in Holder : held[h] <= epoch /\ (ipc = "idle" => held[h] < epoch)

\* A file part in a snapshot or on its way into one is complete on disk and
\* not being removed; one on its way is in no snapshot and has one owner.
Complete(i) == dir[i] = "full" /\ i \notin removing
Waiting(w) == ref[w] >= 1 /\ \A e \in Epoch : w \notin parts[e]
FilesComplete ==
    /\ \A e \in Epoch, i \in ID : <<"file", i>> \in parts[e] => Complete(i)
    /\ \A w \in queued : Waiting(w)
    /\ \A i \in ID : <<"file", i>> \in queued => Complete(i)
    /\ \A p \in Loops : \A i \in InFlight(p) :
          /\ Complete(i) /\ Waiting(<<"file", i>>) /\ <<"file", i>> \notin queued
          /\ \A q \in Loops : i \in InFlight(q) => q = p
    /\ \A i \in removing : dir[i] = "full"

\* The part a merge writes belongs to that merge alone.
BuildingOwned ==
    \A p \in Loops : \A i \in Building(p) :
        /\ dir[i] = "partial"
        /\ <<"mem", i>> \notin queued
        /\ \A e \in Epoch : <<"mem", i>> \notin parts[e]
        /\ \A q \in Loops : i \notin Flushing(q) /\ (i \in Building(q) => q = p)
        /\ \A r \in Receivers : session[r] # i

\* No identifier in use is above curPartID.
IDsBelow ==
    /\ \A e \in Epoch, w \in Part : w \in parts[e] => PartID(w) <= curPartID
    /\ \A w \in queued : PartID(w) <= curPartID
    /\ \A r \in Receivers : session[r] <= curPartID
    /\ \A p \in Loops : \A i \in out[p] \cup Flushing(p) : i <= curPartID
    /\ status # "down" => \A i \in ID : i > curPartID => dir[i] = "none"

\* What is left of the table while it is down.
DownEmpty ==
    status = "down" =>
        /\ parts = [e \in Epoch |-> {}] /\ held = [h \in Holder |-> 0]
        /\ queued = {} /\ session = [r \in Receivers |-> 0]
        /\ ipc = "idle" /\ pc = [p \in Loops |-> "idle"]
        /\ out = [p \in Loops |-> {}] /\ removing = {}
        /\ sref = [e \in Epoch |-> 0] /\ ref = [w \in Part |-> 0]

\* A round starts without outcomes of the previous one.
RoundClean ==
    \A p \in Loops :
        /\ pc[p] = "idle" \/ p = "syncer" => out[p] = {}
        /\ p = "flusher" /\ pc[p] = "ready" /\ done = {} => out[p] = {}

\* The introducer has a snapshot to put in place and to record.
SnapshotBuilt ==
    /\ ipc = "replace" => held["next"] # 0
    /\ ipc = "persist" => held["table"] # 0

IInv ==
    /\ TypeOK /\ status # "closing" /\ closes = 0
    /\ Counted /\ EpochFresh /\ FilesComplete /\ BuildingOwned /\ IDsBelow /\ DownEmpty
    /\ RoundClean /\ SnapshotBuilt

-----------------------------------------------------------------------------
(* Cardinalities *)

\* What follows for a count from the reference count above it.
LEMMA CountUp ==
    \A a, b, c \in Nat : /\ a <= b /\ b <= c => a <= c
                         /\ a <= b + 1 /\ b <= c => a <= c + 1
                         /\ a <= 0 + 1 => a <= 1 /\ (c >= 1 => a <= c)
OBVIOUS

\* A subset of a finite set is finite and not larger.
LEMMA CardMono ==
    ASSUME NEW S, IsFiniteSet(S), NEW T, T \subseteq S
    PROVE  /\ IsFiniteSet(T)
           /\ Cardinality(T) \in Nat /\ Cardinality(S) \in Nat
           /\ Cardinality(T) <= Cardinality(S)
BY Zenon, FS_Subset, FS_CardinalityType

\* Losing an element makes a finite set smaller.
LEMMA CardShrink ==
    ASSUME NEW S, IsFiniteSet(S), NEW x \in S, NEW T, T \subseteq S \ {x}
    PROVE  Cardinality(T) <= Cardinality(S) - 1
<1>1. IsFiniteSet(S \ {x}) /\ Cardinality(S \ {x}) = Cardinality(S) - 1
  BY Zenon, FS_RemoveElement
<1> QED
  BY Zenon, <1>1, CardMono

\* Gaining an element makes a finite set larger by at most one.
LEMMA CardGrow ==
    ASSUME NEW S, IsFiniteSet(S), NEW x, NEW T, T \subseteq S \cup {x}
    PROVE  Cardinality(T) <= Cardinality(S) + 1
<1>1. /\ IsFiniteSet(S \cup {x})
      /\ Cardinality(S \cup {x}) \in {Cardinality(S), Cardinality(S) + 1}
  BY Zenon, FS_AddElement
<1>2. Cardinality(T) <= Cardinality(S \cup {x})
  BY Zenon, <1>1, CardMono
<1>3. Cardinality(S) \in Nat /\ Cardinality(T) \in Nat
  BY Zenon, <1>1, CardMono, FS_CardinalityType, FS_Subset
<1> QED
  BY <1>1, <1>2, <1>3

\* A finite set without elements has cardinality zero, one with elements has not.
LEMMA CardZero ==
    ASSUME NEW S, IsFiniteSet(S)
    PROVE  /\ Cardinality(S) \in Nat
           /\ S = {} => Cardinality(S) = 0
           /\ \A x \in S : Cardinality(S) >= 1
           /\ \A x, y \in S : x # y => Cardinality(S) >= 2
<1>1. Cardinality(S) \in Nat /\ (Cardinality(S) = 0 <=> S = {})
  BY Zenon, FS_CardinalityType, FS_EmptySet
<1>2. ASSUME NEW x \in S, NEW y \in S, x # y
      PROVE  Cardinality(S) >= 2
  <2>1. IsFiniteSet(S \ {x}) /\ Cardinality(S \ {x}) = Cardinality(S) - 1
    BY Zenon, FS_RemoveElement
  <2>2. y \in S \ {x}
    BY Zenon, <1>2
  <2>3. Cardinality(S \ {x}) \in Nat /\ Cardinality(S \ {x}) # 0
    BY Zenon, <2>1, <2>2, FS_CardinalityType, FS_EmptySet
  <2> QED
    BY <1>1, <2>1, <2>3
<1> QED
  BY <1>1, <1>2

\* The sets whose cardinalities the reference counts bound are finite.
LEMMA Finiteness ==
    /\ IsFiniteSet(Holder) /\ IsFiniteSet(Epoch)
    /\ \A e : IsFiniteSet(HoldersOf(e)) /\ IsFiniteSet(HoldersOf(e)')
    /\ \A w : IsFiniteSet(SnapshotsOf(w)) /\ IsFiniteSet(SnapshotsOf(w)')
<1>1. IsFiniteSet({"table", "introducer", "next"})
  <2>2. IsFiniteSet({"table"})
    BY Zenon, FS_Singleton
  <2>3. IsFiniteSet({"table"} \cup {"introducer"})
    BY Zenon, <2>2, FS_AddElement
  <2>4. IsFiniteSet({"table"} \cup {"introducer"} \cup {"next"})
    BY Zenon, <2>3, FS_AddElement
  <2>5. {"table"} \cup {"introducer"} \cup {"next"} = {"table", "introducer", "next"}
    BY Zenon
  <2> QED
    BY Zenon, <2>4, <2>5
<1>2. IsFiniteSet(Loops)
  <2>1. IsFiniteSet({"flusher"} \cup {"merger"})
    BY Zenon, FS_Singleton, FS_AddElement
  <2>2. IsFiniteSet({"flusher"} \cup {"merger"} \cup {"syncer"})
    BY Zenon, <2>1, FS_AddElement
  <2>3. Loops \subseteq {"flusher"} \cup {"merger"} \cup {"syncer"}
    BY Zenon, TSTableAssumption
  <2> QED
    BY Zenon, <2>2, <2>3, FS_Subset
<1>3. IsFiniteSet(Holder)
  <2>1. IsFiniteSet({"table", "introducer", "next"} \cup Loops)
    BY Zenon, <1>1, <1>2, FS_Union
  <2> QED
    BY Zenon, <2>1, TSTableAssumption, FS_Union DEF Holder
<1>4. IsFiniteSet(Epoch)
  BY TSTableAssumption, FS_Interval DEF Epoch
<1>5. \A e : HoldersOf(e) \subseteq Holder /\ HoldersOf(e)' \subseteq Holder
  BY Zenon DEF HoldersOf
<1>6. \A w : SnapshotsOf(w) \subseteq Epoch /\ SnapshotsOf(w)' \subseteq Epoch
  BY Zenon DEF SnapshotsOf
<1> QED
  BY Zenon, <1>3, <1>4, <1>5, <1>6, FS_Subset

\* A held snapshot, and a part of a snapshot, has a positive count.
LEMMA Positive ==
    ASSUME TypeOK, Counted
    PROVE  /\ \A h \in Holder : held[h] # 0 => held[h] \in Epoch /\ sref[held[h]] >= 1
           /\ \A e \in Epoch, w \in Part : w \in parts[e] => ref[w] >= 1
<1>1. ASSUME NEW h \in Holder, held[h] # 0
      PROVE  held[h] \in Epoch /\ sref[held[h]] >= 1
  <2>1. held[h] \in Epoch /\ sref[held[h]] \in Nat
    BY Zenon, <1>1 DEF TypeOK
  <2>2. h \in HoldersOf(held[h])
    BY Zenon DEF HoldersOf
  <2>3. Cardinality(HoldersOf(held[h])) >= 1 /\ Cardinality(HoldersOf(held[h])) \in Nat
    BY Zenon, <2>2, Finiteness, CardZero
  <2> QED
    BY <2>1, <2>3 DEF Counted
<1>2. ASSUME NEW e \in Epoch, NEW w \in Part, w \in parts[e]
      PROVE  ref[w] >= 1
  <2>1. e \in SnapshotsOf(w)
    BY Zenon, <1>2 DEF SnapshotsOf
  <2>2. Cardinality(SnapshotsOf(w)) >= 1 /\ Cardinality(SnapshotsOf(w)) \in Nat
    BY Zenon, <2>1, Finiteness, CardZero
  <2>3. ref[w] \in Nat
    BY Zenon DEF TypeOK
  <2> QED
    BY <2>2, <2>3 DEF Counted
<1> QED
  BY Zenon, <1>1, <1>2

-----------------------------------------------------------------------------
(* Types, and what an action leaves alone *)

\* The rows of some parts are rows somebody wrote.
LEMMA RowsType ==
    ASSUME TypeOK, NEW I \in SUBSET ID
    PROVE  Rows(I) \in SUBSET Writes
BY DEF TypeOK, Rows

\* Epochs, part identifiers and what the holders point at are numbers.
LEMMA Numbers ==
    ASSUME TypeOK
    PROVE  /\ epoch \in Nat /\ epoch >= 1 /\ curPartID \in Nat /\ 0 <= curPartID
           /\ \A h \in Holder : held[h] \in Nat
           /\ \A i \in ID : i \in Nat /\ i >= 1 /\ i # 0
           /\ \A r \in Receivers : session[r] \in Nat
           /\ \A w \in Part : PartID(w) \in ID
           /\ {"table", "introducer", "next"} \subseteq Holder
           /\ Loops \subseteq Holder /\ Readers \subseteq Holder
<1>1. /\ \A i \in ID : i \in Nat /\ i >= 1
      /\ \A e \in Epoch : e \in Nat
  BY TSTableAssumption DEF ID, Epoch
<1> QED
  BY <1>1, TSTableAssumption DEF TypeOK, Part, PartID, Holder

\* The identifier that atomic.AddUint64 hands out is above all that are in use.
LEMMA NextID ==
    ASSUME TypeOK, NEW i \in ID, i = curPartID + 1
    PROVE  /\ i \in Nat /\ i > curPartID /\ curPartID <= i /\ i <= i
           /\ \A j \in Nat : j <= curPartID => j # i
           /\ \A j \in ID : j > i => j > curPartID /\ j # i
BY Numbers

\* While the counter is below its bound the next value is an identifier.
LEMMA CounterID ==
    ASSUME TypeOK, curPartID < MaxPart
    PROVE  curPartID + 1 \in ID
BY Numbers, TSTableAssumption DEF ID

\* An identifier is a value of the counter.
LEMMA IDRange == \A i \in ID : i \in 0..MaxPart
BY TSTableAssumption DEF ID

\* An identifier above the counter is not one that is in use.
LEMMA AboveUnused ==
    ASSUME TypeOK, NEW i \in ID, i <= curPartID
    PROVE  \A j \in ID : j > curPartID => j # i
BY Numbers

\* The loops that do not move keep what they own.
LEMMA SameLoops ==
    ASSUME UNCHANGED <<pc, work, out>>
    PROVE  \A p \in Loops : /\ InFlight(p)' = InFlight(p) /\ Building(p)' = Building(p)
                            /\ Flushing(p)' = Flushing(p)
BY Zenon DEF InFlight, Building, Flushing

\* What the loops own are part identifiers.
LEMMA OwnedIDs ==
    ASSUME TypeOK
    PROVE  \A p \in Loops : /\ InFlight(p) \subseteq ID /\ Building(p) \subseteq ID
                            /\ Flushing(p) \subseteq ID /\ out[p] \subseteq ID
BY Zenon DEF TypeOK, InFlight, Building, Flushing

\* What is in use stays below a counter that only grows.
LEMMA BelowGrows ==
    ASSUME TypeOK, IDsBelow, curPartID' \in Nat, curPartID <= curPartID'
    PROVE  /\ \A e \in Epoch, w \in Part : w \in parts[e] => PartID(w) <= curPartID'
           /\ \A w \in queued : PartID(w) <= curPartID'
           /\ \A r \in Receivers : session[r] <= curPartID'
           /\ \A p \in Loops : \A i \in out[p] \cup Flushing(p) : i <= curPartID'
<1>1. ASSUME NEW i \in Nat, i <= curPartID
      PROVE  i <= curPartID'
  BY <1>1, Numbers
<1>2. /\ \A w \in Part : PartID(w) \in Nat
      /\ \A r \in Receivers : session[r] \in Nat
      /\ \A p \in Loops : \A i \in out[p] \cup Flushing(p) : i \in Nat
  BY Zenon, Numbers, OwnedIDs
<1>3. queued \subseteq Part
  BY Zenon DEF TypeOK
<1> QED
  BY ZenonT(30), <1>1, <1>2, <1>3 DEF IDsBelow

\* A session and a merge never write the same directory.
LEMMA SessionNotBuilding ==
    ASSUME IInv, NEW r \in Receivers, NEW p \in Loops, NEW j \in Building(p)
    PROVE  j \in ID /\ j # 0 /\ j # session[r]
<1>1. j # session[r]
  BY Zenon DEF IInv, BuildingOwned
<1>2. j \in ID
  BY Zenon, OwnedIDs DEF IInv
<1> QED
  BY <1>1, <1>2, Numbers DEF IInv

\* A merge keeps its part as long as nothing new is written, queued or flushed.
LEMMA BuildingFrame ==
    ASSUME BuildingOwned,
           \A p \in Loops : /\ Building(p)' \subseteq Building(p)
                            /\ Flushing(p)' \subseteq Flushing(p)
                            /\ \A i \in Building(p)' :
                                 i # 0 /\ (dir[i] = "partial" => dir'[i] = "partial"),
           \A w \in queued' : w \in queued \/ Kind(w) = "file",
           \A e \in Epoch : parts'[e] \subseteq parts[e],
           \A r \in Receivers : session'[r] \in {0, session[r]}
    PROVE  BuildingOwned'
<1> SUFFICES ASSUME NEW p \in Loops, NEW i \in Building(p)'
             PROVE  /\ dir'[i] = "partial"
                    /\ <<"mem", i>> \notin queued'
                    /\ \A e \in Epoch : <<"mem", i>> \notin parts'[e]
                    /\ \A q \in Loops : i \notin Flushing(q)' /\ (i \in Building(q)' => q = p)
                    /\ \A r \in Receivers : session'[r] # i
  BY Zenon DEF BuildingOwned
<1>1. i \in Building(p)
  BY Zenon
<1>2. /\ dir[i] = "partial"
      /\ <<"mem", i>> \notin queued
      /\ \A e \in Epoch : <<"mem", i>> \notin parts[e]
      /\ \A q \in Loops : i \notin Flushing(q) /\ (i \in Building(q) => q = p)
      /\ \A r \in Receivers : session[r] # i
  BY Zenon, <1>1 DEF BuildingOwned
<1>3. <<"mem", i>> \notin queued'
  BY Zenon, <1>2 DEF Kind
<1> QED
  BY Zenon, <1>1, <1>2, <1>3

\* Directories that are not complete may change freely.
LEMMA FilesFrame ==
    ASSUME TypeOK, FilesComplete, UNCHANGED <<parts, ref, removing, queued>>,
           \A j \in ID : dir[j] = "full" => dir'[j] = "full",
           \A p \in Loops : InFlight(p)' \subseteq InFlight(p)
    PROVE  FilesComplete'
<1>1. /\ \A p \in Loops : InFlight(p) \subseteq ID
      /\ removing \subseteq ID
  BY Zenon DEF InFlight, TypeOK
<1>2. \A j \in ID : Complete(j) => Complete(j)'
  BY Zenon DEF Complete
<1>3. \A w : Waiting(w) <=> Waiting(w)'
  BY Zenon DEF Waiting
<1>4. ASSUME NEW p \in Loops, NEW i \in InFlight(p)'
      PROVE  /\ Complete(i)' /\ Waiting(<<"file", i>>)' /\ <<"file", i>> \notin queued'
             /\ \A q \in Loops : i \in InFlight(q)' => q = p
  <2>1. i \in InFlight(p) /\ i \in ID
    BY Zenon, <1>1
  <2>2. /\ Complete(i) /\ Waiting(<<"file", i>>) /\ <<"file", i>> \notin queued
        /\ \A q \in Loops : i \in InFlight(q) => q = p
    BY Zenon, <2>1 DEF FilesComplete
  <2> QED
    BY Zenon, <1>2, <1>3, <2>1, <2>2
<1> QED
  BY Zenon, <1>1, <1>2, <1>3, <1>4 DEF FilesComplete

\* The directories of I are completed, and their parts go to the queue or to
\* the loop f that made them.
LEMMA FilesDone ==
    ASSUME TypeOK, Counted, FilesComplete, NEW I \in SUBSET ID, NEW f,
           \A i \in I : dir[i] # "full",
           UNCHANGED <<parts, sref, held, removing>>,
           dir' = [i \in ID |-> IF i \in I THEN "full" ELSE dir[i]],
           ref' = [w \in Part |-> IF Kind(w) = "file" /\ PartID(w) \in I THEN 1 ELSE ref[w]],
           \A p \in Loops : InFlight(p)' \subseteq (IF p = f THEN InFlight(p) \cup I
                                                             ELSE InFlight(p)),
           \/ queued' = queued
           \/ /\ queued' = queued \cup {<<"file", i>> : i \in I}
              /\ f \notin Loops
    PROVE  FilesComplete' /\ Counted' /\ ref' \in [Part -> Nat]
<1>1. /\ \A p \in Loops : InFlight(p) \subseteq ID
      /\ removing \subseteq ID /\ \A j \in ID : <<"file", j>> \in Part
      /\ queued \subseteq Part /\ ref \in [Part -> Nat]
  BY Zenon DEF InFlight, TypeOK, Part
<1>2. \A i \in I : /\ \A e \in Epoch : <<"file", i>> \notin parts[e]
                   /\ <<"file", i>> \notin queued
                   /\ \A p \in Loops : i \notin InFlight(p)
                   /\ i \notin removing
  BY Zenon, <1>1 DEF FilesComplete, Complete
<1>3. \A j \in ID : (Complete(j) => Complete(j)') /\ (j \in I => Complete(j)')
  BY Zenon, <1>2 DEF Complete
<1>4. ASSUME NEW w \in Part, Waiting(w)
      PROVE  Waiting(w)'
  BY <1>1, <1>4 DEF Waiting
<1>5. ASSUME NEW i \in I
      PROVE  Waiting(<<"file", i>>)'
  BY <1>1, <1>2 DEF Waiting, Kind, PartID
<1>6. \A e \in Epoch, i \in ID : <<"file", i>> \in parts'[e] => Complete(i)'
  BY Zenon, <1>3 DEF FilesComplete
<1>7. /\ \A w \in queued' : Waiting(w)'
      /\ \A i \in ID : <<"file", i>> \in queued' => Complete(i)'
  <2>1. /\ \A w \in queued : Waiting(w)'
        /\ \A i \in ID : <<"file", i>> \in queued => Complete(i)'
    BY Zenon, <1>1, <1>3, <1>4 DEF FilesComplete
  <2> QED
    BY Zenon, <1>3, <1>5, <2>1
<1>8. ASSUME NEW p \in Loops, NEW i \in InFlight(p)'
      PROVE  /\ Complete(i)' /\ Waiting(<<"file", i>>)' /\ <<"file", i>> \notin queued'
             /\ \A q \in Loops : i \in InFlight(q)' => q = p
  <2>1. CASE i \in InFlight(p)
    <3>1. i \in ID /\ i \notin I
      BY Zenon, <1>1, <1>2, <2>1
    <3>2. /\ Complete(i) /\ Waiting(<<"file", i>>) /\ <<"file", i>> \notin queued
          /\ \A q \in Loops : i \in InFlight(q) => q = p
      BY Zenon, <2>1 DEF FilesComplete
    <3>3. Complete(i)' /\ Waiting(<<"file", i>>)'
      BY Zenon, <1>1, <1>3, <1>4, <3>1, <3>2
    <3> QED
      BY Zenon, <3>1, <3>2, <3>3
  <2>2. CASE i \notin InFlight(p)
    <3>1. p = f /\ i \in I /\ queued' = queued
      BY Zenon, <2>2
    <3> QED
      BY Zenon, <1>2, <1>3, <1>5, <3>1
  <2> QED
    BY Zenon, <2>1, <2>2
<1>9. \A i \in removing' : dir'[i] = "full"
  BY Zenon, <1>1, <1>2 DEF FilesComplete
<1>10. Counted'
  <2>1. \A e \in Epoch : Cardinality(HoldersOf(e)') <= sref'[e]
    BY Zenon DEF Counted, HoldersOf
  <2>2. ASSUME NEW w \in Part
        PROVE  Cardinality(SnapshotsOf(w)') <= ref'[w]
    <3>1. SnapshotsOf(w)' = SnapshotsOf(w)
      BY Zenon DEF SnapshotsOf
    <3>2. CASE Kind(w) = "file" /\ PartID(w) \in I
      <4>1. w = <<"file", PartID(w)>>
        BY <3>2 DEF Kind, PartID, Part
      <4>2. SnapshotsOf(w) = {}
        BY <1>2, <3>2, <4>1 DEF SnapshotsOf
      <4>3. Cardinality(SnapshotsOf(w)) = 0
        BY Zenon, <4>2, Finiteness, CardZero
      <4> QED
        BY <3>1, <3>2, <4>3
    <3>3. CASE ~(Kind(w) = "file" /\ PartID(w) \in I)
      BY Zenon, <3>1, <3>3 DEF Counted
    <3> QED
      BY Zenon, <3>2, <3>3
  <2> QED
    BY Zenon, <2>1, <2>2 DEF Counted
<1>11. ref' \in [Part -> Nat]
  BY Zenon, <1>1
<1> QED
  BY Zenon, <1>6, <1>7, <1>8, <1>9, <1>10, <1>11 DEF FilesComplete

-----------------------------------------------------------------------------
(* snapshot.decRef and currentSnapshot *)

\* What decRef of a held snapshot does to the parts: the counts still cover
\* the snapshots, only parts of the released snapshot change theirs, and a
\* directory is given up only when no snapshot has its part any more.
LEMMA DecRefParts ==
    ASSUME TypeOK, Counted, NEW g \in Holder, DecRef(held[g])
    PROVE  /\ sref' \in [Epoch -> Nat] /\ ref' \in [Part -> Nat]
           /\ parts' \in [Epoch -> SUBSET Part] /\ removing' \in SUBSET ID
           /\ \A w \in Part : Cardinality(SnapshotsOf(w)') <= ref'[w]
           /\ \A e \in Epoch : parts'[e] \subseteq parts[e]
           /\ \A w \in Part : ref'[w] # ref[w] => \E e \in Epoch : w \in parts[e]
           /\ \A i \in removing' : i \in removing \/
                /\ \E e \in Epoch : <<"file", i>> \in parts[e]
                /\ \A e \in Epoch : <<"file", i>> \notin parts'[e]
<1> DEFINE e0 == held[g]
<1>t. /\ sref \in [Epoch -> Nat] /\ ref \in [Part -> Nat] /\ parts \in [Epoch -> SUBSET Part]
      /\ removing \in SUBSET ID /\ e0 \in {0} \cup Epoch
  BY Zenon DEF TypeOK
<1>1. CASE e0 # 0 /\ sref[e0] = 1
  <2>1. /\ e0 \in Epoch
        /\ sref' = [sref EXCEPT ![e0] = @ - 1]
        /\ ref' = [w \in Part |-> IF w \in parts[e0] THEN ref[w] - 1 ELSE ref[w]]
        /\ removing' = removing \cup
             {i \in FileIDs(parts[e0] \cap removable) : ref[<<"file", i>>] = 1}
        /\ parts' = [parts EXCEPT ![e0] = {}]
    BY Zenon, <1>1, <1>t DEF DecRef
  <2>2. sref' \in [Epoch -> Nat] /\ parts' \in [Epoch -> SUBSET Part]
    BY <1>1, <1>t, <2>1
  <2>3. ref' \in [Part -> Nat]
    BY <1>t, <2>1, Positive
  <2>4. removing' \in SUBSET ID
    BY Zenon, <1>t, <2>1 DEF FileIDs
  <2>5. \A e \in Epoch : parts'[e] \subseteq parts[e]
    BY Zenon, <1>t, <2>1
  <2>6. ASSUME NEW w \in Part
        PROVE  Cardinality(SnapshotsOf(w)') <= ref'[w]
    <3>1. SnapshotsOf(w)' \subseteq SnapshotsOf(w)
      BY Zenon, <1>t, <2>1 DEF SnapshotsOf
    <3>2. Cardinality(SnapshotsOf(w)) <= ref[w] /\ ref[w] \in Nat
      BY Zenon, <1>t DEF Counted
    <3>3. CASE w \in parts[e0]
      <4>1. e0 \in SnapshotsOf(w) /\ SnapshotsOf(w)' \subseteq SnapshotsOf(w) \ {e0}
        BY Zenon, <1>t, <2>1, <3>1, <3>3 DEF SnapshotsOf
      <4>2. Cardinality(SnapshotsOf(w)') <= Cardinality(SnapshotsOf(w)) - 1
        BY Zenon, <4>1, Finiteness, CardShrink
      <4>3. Cardinality(SnapshotsOf(w)') \in Nat /\ Cardinality(SnapshotsOf(w)) \in Nat
        BY Zenon, Finiteness, CardZero
      <4> QED
        BY <2>1, <3>2, <3>3, <4>2, <4>3
    <3>4. CASE w \notin parts[e0]
      <4>1. /\ Cardinality(SnapshotsOf(w)') <= Cardinality(SnapshotsOf(w))
            /\ Cardinality(SnapshotsOf(w)') \in Nat /\ Cardinality(SnapshotsOf(w)) \in Nat
        BY Zenon, <3>1, Finiteness, CardMono
      <4> QED
        BY <2>1, <3>2, <3>4, <4>1
    <3> QED
      BY Zenon, <3>3, <3>4
  <2>7. \A w \in Part : ref'[w] # ref[w] => \E e \in Epoch : w \in parts[e]
    BY Zenon, <1>t, <2>1
  <2>8. ASSUME NEW i \in removing', i \notin removing
        PROVE  /\ \E e \in Epoch : <<"file", i>> \in parts[e]
               /\ \A e \in Epoch : <<"file", i>> \notin parts'[e]
    <3>1. i \in ID /\ <<"file", i>> \in parts[e0] /\ ref[<<"file", i>>] = 1
      BY Zenon, <2>1, <2>8 DEF FileIDs
    <3>2. <<"file", i>> \in Part
      BY Zenon, <3>1 DEF Part
    <3>3. ASSUME NEW e \in Epoch, <<"file", i>> \in parts'[e]
          PROVE  FALSE
      <4>1. e # e0 /\ e \in SnapshotsOf(<<"file", i>>) /\ e0 \in SnapshotsOf(<<"file", i>>)
        BY Zenon, <1>t, <2>1, <3>1, <3>3 DEF SnapshotsOf
      <4>2. Cardinality(SnapshotsOf(<<"file", i>>)) >= 2
        BY Zenon, <4>1, Finiteness, CardZero
      <4>3. Cardinality(SnapshotsOf(<<"file", i>>)) <= 1
        BY Zenon, <3>1, <3>2 DEF Counted
      <4>4. Cardinality(SnapshotsOf(<<"file", i>>)) \in Nat
        BY Zenon, Finiteness, CardZero
      <4> QED
        BY <4>2, <4>3, <4>4
    <3> QED
      BY Zenon, <2>1, <3>1, <3>3
  <2> QED
    BY Zenon, <2>2, <2>3, <2>4, <2>5, <2>6, <2>7, <2>8
<1>2. CASE ~(e0 # 0 /\ sref[e0] = 1)
  <2>1. UNCHANGED <<ref, removing, parts>>
    BY Zenon, <1>2 DEF DecRef
  <2>2. sref' = IF e0 = 0 THEN sref ELSE [sref EXCEPT ![e0] = @ - 1]
    BY Zenon DEF DecRef
  <2>3. sref' \in [Epoch -> Nat]
    BY <1>t, <2>2, Positive
  <2>4. \A w \in Part : SnapshotsOf(w)' = SnapshotsOf(w)
    BY Zenon, <2>1 DEF SnapshotsOf
  <2> QED
    BY Zenon, <1>t, <2>1, <2>3, <2>4 DEF Counted
<1> QED
  BY Zenon, <1>1, <1>2

\* The holder that drops its reference is no longer counted.
LEMMA ReleaseCounted ==
    ASSUME TypeOK, Counted, NEW g \in Holder, DecRef(held[g]),
           held' = [held EXCEPT ![g] = 0]
    PROVE  Counted' /\ held' \in [Holder -> {0} \cup Epoch]
<1>t. held \in [Holder -> {0} \cup Epoch] /\ sref \in [Epoch -> Nat]
  BY Zenon DEF TypeOK
<1>1. ASSUME NEW e \in Epoch
      PROVE  Cardinality(HoldersOf(e)') <= sref'[e]
  <2>0. 0 \notin Epoch
    BY TSTableAssumption DEF Epoch
  <2>1. HoldersOf(e)' \subseteq HoldersOf(e)
    BY Zenon, <1>t, <2>0 DEF HoldersOf
  <2>2. /\ Cardinality(HoldersOf(e)') <= Cardinality(HoldersOf(e))
        /\ Cardinality(HoldersOf(e)') \in Nat /\ Cardinality(HoldersOf(e)) \in Nat
    BY Zenon, <2>1, Finiteness, CardMono
  <2>3. Cardinality(HoldersOf(e)) <= sref[e] /\ sref[e] \in Nat
    BY Zenon, <1>t DEF Counted
  <2>4. CASE e = held[g]
    <3>1. g \in HoldersOf(e) /\ HoldersOf(e)' \subseteq HoldersOf(e) \ {g}
      BY Zenon, <1>t, <2>0, <2>1, <2>4 DEF HoldersOf
    <3>2. Cardinality(HoldersOf(e)') <= Cardinality(HoldersOf(e)) - 1
      BY Zenon, <3>1, Finiteness, CardShrink
    <3>3. sref'[e] = sref[e] - 1
      BY Zenon, <1>t, <2>0, <2>4 DEF DecRef
    <3> QED
      BY <2>2, <2>3, <3>2, <3>3
  <2>5. CASE e # held[g]
    <3>1. sref'[e] = sref[e]
      BY Zenon, <1>t, <2>5 DEF DecRef
    <3> QED
      BY <2>2, <2>3, <3>1
  <2> QED
    BY Zenon, <2>4, <2>5
<1>2. held' \in [Holder -> {0} \cup Epoch]
  BY Zenon, <1>t
<1> QED
  BY Zenon, <1>1, <1>2, DecRefParts DEF Counted

\* The table's reference moves from the old snapshot to the one that was built.
LEMMA ReplaceCounted ==
    ASSUME TypeOK, Counted, DecRef(held["table"]),
           held' = [held EXCEPT !["table"] = held["next"], !["next"] = 0]
    PROVE  Counted' /\ held' \in [Holder -> {0} \cup Epoch]
<1> DEFINE t == held["table"]
           n == held["next"]
<1>t. /\ held \in [Holder -> {0} \cup Epoch] /\ sref \in [Epoch -> Nat]
      /\ "table" \in Holder /\ "next" \in Holder
  BY Zenon DEF TypeOK, Holder
<1>0. 0 \notin Epoch
  BY TSTableAssumption DEF Epoch
<1>1. ASSUME NEW e \in Epoch
      PROVE  Cardinality(HoldersOf(e)') <= sref'[e]
  <2>1. /\ Cardinality(HoldersOf(e)') \in Nat /\ Cardinality(HoldersOf(e)) \in Nat
        /\ IsFiniteSet(HoldersOf(e)) /\ IsFiniteSet(HoldersOf(e)')
    BY Zenon, Finiteness, CardZero
  <2>2. Cardinality(HoldersOf(e)) <= sref[e] /\ sref[e] \in Nat
    BY Zenon, <1>t DEF Counted
  <2>3. sref'[e] = IF e = t THEN sref[e] - 1 ELSE sref[e]
    BY Zenon, <1>t, <1>0 DEF DecRef
  <2>4. CASE e = t
    <3>1. \E x \in HoldersOf(e) : HoldersOf(e)' \subseteq HoldersOf(e) \ {x}
      <4>1. CASE e = n
        <5>1. "next" \in HoldersOf(e) /\ HoldersOf(e)' \subseteq HoldersOf(e) \ {"next"}
          BY Zenon, <1>t, <1>0, <2>4, <4>1 DEF HoldersOf
        <5> QED
          BY Zenon, <5>1
      <4>2. CASE e # n
        <5>1. "table" \in HoldersOf(e) /\ HoldersOf(e)' \subseteq HoldersOf(e) \ {"table"}
          BY Zenon, <1>t, <1>0, <2>4, <4>2 DEF HoldersOf
        <5> QED
          BY Zenon, <5>1
      <4> QED
        BY Zenon, <4>1, <4>2
    <3>2. Cardinality(HoldersOf(e)') <= Cardinality(HoldersOf(e)) - 1
      BY Zenon, <2>1, <3>1, CardShrink
    <3> QED
      BY <2>1, <2>2, <2>3, <2>4, <3>2
  <2>5. CASE e # t /\ e = n
    <3>1. /\ "next" \in HoldersOf(e)
          /\ HoldersOf(e)' \subseteq (HoldersOf(e) \ {"next"}) \cup {"table"}
      BY Zenon, <1>t, <1>0, <2>5 DEF HoldersOf
    <3>2. /\ IsFiniteSet(HoldersOf(e) \ {"next"})
          /\ Cardinality(HoldersOf(e) \ {"next"}) = Cardinality(HoldersOf(e)) - 1
      BY Zenon, <2>1, <3>1, FS_RemoveElement
    <3>3. Cardinality(HoldersOf(e)') <= Cardinality(HoldersOf(e) \ {"next"}) + 1
      BY Zenon, <3>1, <3>2, CardGrow
    <3> QED
      BY <2>1, <2>2, <2>3, <2>5, <3>2, <3>3
  <2>6. CASE e # t /\ e # n
    <3>1. HoldersOf(e)' \subseteq HoldersOf(e)
      BY Zenon, <1>t, <1>0, <2>6 DEF HoldersOf
    <3>2. Cardinality(HoldersOf(e)') <= Cardinality(HoldersOf(e))
      BY Zenon, <2>1, <3>1, CardMono
    <3> QED
      BY <2>1, <2>2, <2>3, <2>6, <3>2
  <2> QED
    BY Zenon, <2>4, <2>5, <2>6
<1>2. held' \in [Holder -> {0} \cup Epoch]
  BY Zenon, <1>t
<1> QED
  BY Zenon, <1>t, <1>1, <1>2, DecRefParts DEF Counted

\* currentSnapshot counts its new holder.
LEMMA AcquireCounted ==
    ASSUME TypeOK, Counted, NEW h \in Holder, CurrentSnapshot(h), UNCHANGED <<parts, ref>>
    PROVE  /\ Counted' /\ held' \in [Holder -> {0} \cup Epoch]
           /\ sref' \in [Epoch -> Nat]
<1>t. /\ held \in [Holder -> {0} \cup Epoch] /\ sref \in [Epoch -> Nat]
      /\ "table" \in Holder
  BY Zenon DEF TypeOK, Holder
<1>0. 0 \notin Epoch
  BY TSTableAssumption DEF Epoch
<1>1. ASSUME NEW e \in Epoch
      PROVE  Cardinality(HoldersOf(e)') <= sref'[e]
  <2>1. /\ Cardinality(HoldersOf(e)') \in Nat /\ Cardinality(HoldersOf(e)) \in Nat
        /\ IsFiniteSet(HoldersOf(e)) /\ IsFiniteSet(HoldersOf(e)')
    BY Zenon, Finiteness, CardZero
  <2>2. Cardinality(HoldersOf(e)) <= sref[e] /\ sref[e] \in Nat
    BY Zenon, <1>t DEF Counted
  <2>3. CASE e = held["table"]
    <3>1. HoldersOf(e)' \subseteq HoldersOf(e) \cup {h} /\ sref'[e] = sref[e] + 1
      BY Zenon, <1>t, <1>0, <2>3 DEF HoldersOf, CurrentSnapshot
    <3>2. Cardinality(HoldersOf(e)') <= Cardinality(HoldersOf(e)) + 1
      BY Zenon, <2>1, <3>1, CardGrow
    <3> QED
      BY <2>1, <2>2, <3>1, <3>2
  <2>4. CASE e # held["table"]
    <3>1. HoldersOf(e)' \subseteq HoldersOf(e) /\ sref'[e] = sref[e]
      BY Zenon, <1>t, <1>0, <2>4 DEF HoldersOf, CurrentSnapshot
    <3>2. Cardinality(HoldersOf(e)') <= Cardinality(HoldersOf(e))
      BY Zenon, <2>1, <3>1, CardMono
    <3> QED
      BY <2>1, <2>2, <3>1, <3>2
  <2> QED
    BY Zenon, <2>3, <2>4
<1>2. \A w \in Part : SnapshotsOf(w)' = SnapshotsOf(w)
  BY Zenon DEF SnapshotsOf
<1>3. held' \in [Holder -> {0} \cup Epoch] /\ sref' \in [Epoch -> Nat]
  BY <1>t DEF CurrentSnapshot
<1> QED
  BY Zenon, <1>1, <1>2, <1>3 DEF Counted

\* Dropping a reference leaves the file parts that are still in a snapshot or
\* on their way into one untouched.
LEMMA DecRefFiles ==
    ASSUME TypeOK, Counted, FilesComplete, NEW g \in Holder, DecRef(held[g]),
           UNCHANGED <<dir, queued>>,
           \A p \in Loops : InFlight(p)' \subseteq InFlight(p)
    PROVE  FilesComplete'
<1>1. /\ \A e \in Epoch : parts'[e] \subseteq parts[e]
      /\ \A w \in Part : ref'[w] # ref[w] => \E e \in Epoch : w \in parts[e]
      /\ \A i \in removing' : i \in removing \/
           /\ \E e \in Epoch : <<"file", i>> \in parts[e]
           /\ \A e \in Epoch : <<"file", i>> \notin parts'[e]
  BY Zenon, DecRefParts
<1>2. \A i \in ID : <<"file", i>> \in Part
  BY Zenon DEF Part
<1>3. queued \subseteq Part /\ \A p \in Loops : InFlight(p) \subseteq ID
  BY Zenon DEF TypeOK, InFlight
<1>4. \A e \in Epoch, i \in ID : <<"file", i>> \in parts'[e] => Complete(i)'
  BY Zenon, <1>1 DEF FilesComplete, Complete
<1>5. \A w \in queued : Waiting(w)'
  BY Zenon, <1>1, <1>3 DEF FilesComplete, Waiting
<1>6. \A i \in ID : <<"file", i>> \in queued => Complete(i)'
  BY Zenon, <1>1 DEF FilesComplete, Complete, Waiting
<1>7. ASSUME NEW p \in Loops, NEW i \in InFlight(p)'
      PROVE  /\ Complete(i)' /\ Waiting(<<"file", i>>)' /\ <<"file", i>> \notin queued'
             /\ \A q \in Loops : i \in InFlight(q)' => q = p
  <2>1. i \in InFlight(p) /\ i \in ID
    BY Zenon, <1>3
  <2>2. Complete(i) /\ Waiting(<<"file", i>>) /\ <<"file", i>> \notin queued
    BY Zenon, <2>1 DEF FilesComplete
  <2>3. Complete(i)' /\ Waiting(<<"file", i>>)'
    BY Zenon, <1>1, <1>2, <2>1, <2>2 DEF Complete, Waiting
  <2> QED
    BY Zenon, <2>1, <2>2, <2>3 DEF FilesComplete
<1>8. \A i \in removing' : dir'[i] = "full"
  <2>1. removing' \subseteq ID
    BY Zenon, DecRefParts
  <2> QED
    BY Zenon, <1>1, <2>1 DEF FilesComplete, Complete
<1> QED
  BY Zenon, <1>4, <1>5, <1>6, <1>7, <1>8 DEF FilesComplete

-----------------------------------------------------------------------------
(* The actions *)

\* Writing a manifest and collecting old ones touch neither parts nor counts.
LEMMA PersistInv ==
    ASSUME IInv, PersistSnapshot \/ Clean
    PROVE  IInv'
<1> USE DEF IInv
<1>0. /\ UNCHANGED <<dir, parts, sref, held, ref, removing, queued, session, curPartID, status,
                     pc, work, out, done, closes>>
      /\ status = "up"
  BY Zenon DEF PersistSnapshot, Clean, Running, counts, loops, history, disk, TypeOK
<1>1. TypeOK'
  <2>1. CASE PersistSnapshot
    <3>1. held["table"] \in Epoch
      BY Zenon, <2>1 DEF TypeOK, Holder, SnapshotBuilt, PersistSnapshot
    <3>2. Rows(FileIDs(parts[held["table"]])) \in SUBSET Writes
      BY Zenon, RowsType DEF FileIDs
    <3> QED
      BY SMTT(90), <1>0, <2>1, <3>1, <3>2 DEF TypeOK, PersistSnapshot, PartID, Part, counts, loops
  <2>2. CASE Clean
    BY SMTT(90), <1>0, <2>2 DEF TypeOK, Clean, counts, loops, history
  <2> QED
    BY Zenon, <2>1, <2>2
<1>2. Counted'
  BY Zenon, <1>0 DEF Counted, HoldersOf, SnapshotsOf
<1>3. EpochFresh'
  BY SMTT(90), <1>0, Numbers DEF EpochFresh, PersistSnapshot, Clean
<1>4. FilesComplete' /\ BuildingOwned' /\ IDsBelow' /\ RoundClean'
  BY SMTT(90), <1>0 DEF FilesComplete, BuildingOwned, IDsBelow, RoundClean, Complete, Waiting,
              InFlight, Building, Flushing
<1> QED
  BY Zenon, <1>0, <1>1, <1>2, <1>3, <1>4 DEF DownEmpty, SnapshotBuilt, PersistSnapshot, Clean

\* A reader or a loop that pins the current snapshot.
LEMMA AcquireInv ==
    ASSUME IInv, NEW h \in Readers \cup Loops,
           (h \in Readers /\ Acquire(h)) \/ (h \in Loops /\ TakeSnapshot(h))
    PROVE  IInv'
<1> USE DEF IInv
<1>0. /\ UNCHANGED <<dir, parts, ref, removing, queued, session, curPartID, status, work, out,
                     done, closes, epoch, ipc>>
      /\ status = "up" /\ CurrentSnapshot(h) /\ h \in Holder
      /\ h \notin {"table", "introducer", "next"}
  BY Zenon, TSTableAssumption, Numbers
     DEF Acquire, TakeSnapshot, Running, loops, intro, history, disk, TypeOK
<1>1. \/ pc' = pc
      \/ h \in Loops /\ pc[h] = "idle" /\ pc' = [pc EXCEPT ![h] = "ready"]
  BY Zenon DEF Acquire, TakeSnapshot, loops
<1>2. Counted' /\ held' \in [Holder -> {0} \cup Epoch] /\ sref' \in [Epoch -> Nat]
  BY Zenon, <1>0, AcquireCounted
<1>3. TypeOK'
  BY Zenon, <1>0, <1>1, <1>2 DEF TypeOK, Acquire, TakeSnapshot, disk, gc, intro, history, loops
<1>4. EpochFresh' /\ SnapshotBuilt'
  BY Zenon, <1>0, Numbers DEF EpochFresh, SnapshotBuilt, CurrentSnapshot, TypeOK
<1>5. \A p \in Loops :
        /\ InFlight(p)' = InFlight(p) /\ Building(p)' = Building(p)
        /\ Flushing(p)' = Flushing(p)
  BY Zenon, <1>0, <1>1 DEF InFlight, Building, Flushing, TypeOK
<1>6. FilesComplete' /\ BuildingOwned' /\ IDsBelow'
  BY SMTT(90), <1>0, <1>5 DEF FilesComplete, BuildingOwned, IDsBelow, Complete, Waiting
<1>7. RoundClean'
  BY Zenon, <1>0, <1>1 DEF RoundClean, TypeOK
<1> QED
  BY Zenon, <1>0, <1>2, <1>3, <1>4, <1>6, <1>7 DEF DownEmpty

\* A part that is given up is in no snapshot and on its way into none.
LEMMA RemoveInv ==
    ASSUME IInv, NEW i \in ID, MustRMAll(i)
    PROVE  IInv'
<1> USE DEF IInv
<1>0. /\ UNCHANGED <<parts, sref, held, ref, queued, session, curPartID, status, pc, work, out,
                     done, closes, epoch, ipc>>
      /\ i \in removing /\ removing' = removing \ {i} /\ dir[i] = "full"
      /\ dir' = [dir EXCEPT ![i] = "none"] /\ dir \in [ID -> {"none", "partial", "full"}]
  BY Zenon DEF MustRMAll, loops, intro, history, FilesComplete, TypeOK
<1>1. TypeOK'
  BY <1>0 DEF TypeOK, MustRMAll, gc, intro, history, loops
<1>2. Counted' /\ EpochFresh' /\ SnapshotBuilt' /\ RoundClean'
  BY Zenon, <1>0 DEF Counted, HoldersOf, SnapshotsOf, EpochFresh, SnapshotBuilt, RoundClean
<1>3. \A p \in Loops :
        /\ InFlight(p)' = InFlight(p) /\ Building(p)' = Building(p)
        /\ Flushing(p)' = Flushing(p)
  BY Zenon, <1>0 DEF InFlight, Building, Flushing
<1>4. \A j \in ID : Complete(j) => Complete(j)'
  BY Zenon, <1>0 DEF Complete
<1>5. FilesComplete'
  <2>1. \A p \in Loops : InFlight(p) \subseteq ID
    BY Zenon DEF InFlight, TypeOK
  <2>2. \A j \in removing' : dir'[j] = "full"
    BY Zenon, <1>0 DEF FilesComplete, TypeOK
  <2>3. \A w : Waiting(w) => Waiting(w)'
    BY Zenon, <1>0 DEF Waiting
  <2> QED
    BY SMTT(90), <1>0, <1>3, <1>4, <2>1, <2>2, <2>3 DEF FilesComplete
<1>6. BuildingOwned'
  <2>1. \A p \in Loops : Building(p) \subseteq ID
    BY Zenon DEF Building, TypeOK
  <2>2. \A j \in ID : j # 0 /\ (dir[j] = "partial" => dir'[j] = "partial")
    BY <1>0, Numbers
  <2> QED
    BY Zenon, <1>0, <1>3, <2>1, <2>2, BuildingFrame
<1>7. IDsBelow'
  BY Zenon, <1>0, <1>3 DEF IDsBelow
<1> QED
  BY Zenon, <1>0, <1>1, <1>2, <1>5, <1>6, <1>7 DEF DownEmpty

\* What every release of a snapshot has in common.
LEMMA DecRefInv ==
    ASSUME IInv, NEW g \in Holder, DecRef(held[g]), status = "up",
           UNCHANGED <<dir, queued, curPartID, status, closes>>, TypeOK', Counted',
           EpochFresh', SnapshotBuilt', RoundClean',
           \A r \in Receivers : session'[r] \in {0, session[r]},
           \A p \in Loops : /\ InFlight(p)' \subseteq InFlight(p)
                            /\ Building(p)' \subseteq Building(p)
                            /\ Flushing(p)' \subseteq Flushing(p)
                            /\ out'[p] \subseteq out[p]
    PROVE  IInv'
<1> USE DEF IInv
<1>1. \A e \in Epoch : parts'[e] \subseteq parts[e]
  BY Zenon, DecRefParts
<1>2. FilesComplete'
  BY Zenon, DecRefFiles
<1>3. BuildingOwned'
  <2>1. \A p \in Loops : Building(p) \subseteq ID
    BY Zenon DEF Building, TypeOK
  <2>2. \A i \in ID : i # 0
    BY Zenon, Numbers
  <2> QED
    BY Zenon, <1>1, <2>1, <2>2, BuildingFrame
<1>4. IDsBelow'
  <2>1. \A r \in Receivers : session'[r] <= curPartID'
    BY Zenon, Numbers DEF IDsBelow
  <2> QED
    BY Zenon, <1>1, <2>1 DEF IDsBelow
<1> QED
  BY Zenon, <1>2, <1>3, <1>4 DEF DownEmpty

-----------------------------------------------------------------------------
(* Writes and sync sessions *)

\* A memory part takes a new identifier and waits for the introducer.
LEMMA AddMemInv ==
    ASSUME IInv, NEW w \in Writes, MustAddMemPart(w)
    PROVE  IInv'
<1> USE DEF IInv
<1>i. PICK i \in ID : i = curPartID + 1
  BY Zenon, CounterID DEF MustAddMemPart
<1> DEFINE m == <<"mem", i>>
<1>0. /\ UNCHANGED <<dir, parts, sref, held, removing, session, status, pc, work, out, done,
                     closes, epoch, ipc>>
      /\ status = "up" /\ m \in Part /\ curPartID' = i
      /\ ref' = [ref EXCEPT ![m] = 1] /\ queued' = queued \cup {m}
      /\ rows' = [rows EXCEPT ![i] = {w}] /\ sent' = sent \cup {w}
  BY Zenon, <1>i DEF MustAddMemPart, Part, loops, intro
<1>1. TypeOK'
  <2>1. curPartID' \in 0..MaxPart
    BY Zenon, <1>0, IDRange
  <2>2. UNCHANGED <<dir, manifests, names, parts, sref, held, removable, removing,
                   loops, gc, intro, introduced, durable, shipped, acked, crashes,
                   closes, status, session>>
    BY Zenon DEF MustAddMemPart
  <2> QED
    BY Zenon, <1>0, <2>1, <2>2 DEF TypeOK, gc, intro, loops
<1>2. \A e \in Epoch : m \notin parts[e]
  <2>1. \A j \in Nat : j <= curPartID => j # i
    BY Zenon, <1>i, NextID
  <2>2. PartID(m) = i /\ i \in Nat
    BY Zenon, Numbers DEF PartID
  <2>3. \A e \in Epoch : \A x \in parts[e] : x \in Part
    BY Zenon DEF TypeOK
  <2>4. \A e \in Epoch : \A x \in parts[e] : PartID(x) <= curPartID
    BY Zenon, <2>3 DEF IDsBelow
  <2> QED
    BY Zenon, <2>1, <2>2, <2>4
<1>3. /\ \A x \in Part : ref'[x] = ref[x] \/ (x = m /\ ref'[x] = 1)
      /\ \A x \in Part : Waiting(x) => Waiting(x)'
      /\ Waiting(m)'
  BY <1>0, <1>2 DEF Waiting, TypeOK
<1>4. Counted'
  <2>1. \A e \in Epoch : Cardinality(HoldersOf(e)') <= sref'[e]
    BY Zenon, <1>0 DEF Counted, HoldersOf
  <2>2. ASSUME NEW x \in Part
        PROVE  Cardinality(SnapshotsOf(x)') <= ref'[x]
    <3>1. SnapshotsOf(x)' = SnapshotsOf(x)
      BY Zenon, <1>0 DEF SnapshotsOf
    <3>2. CASE x = m
      <4>1. SnapshotsOf(x) = {}
        BY Zenon, <1>2, <3>2 DEF SnapshotsOf
      <4>2. Cardinality(SnapshotsOf(x)) = 0
        BY Zenon, <4>1, Finiteness, CardZero
      <4> QED
        BY <1>0, <3>1, <3>2, <4>2 DEF TypeOK
    <3>3. CASE x # m
      BY Zenon, <1>3, <3>1, <3>3 DEF Counted
    <3> QED
      BY Zenon, <3>2, <3>3
  <2> QED
    BY Zenon, <2>1, <2>2 DEF Counted
<1>5. EpochFresh' /\ SnapshotBuilt' /\ RoundClean'
  BY Zenon, <1>0 DEF EpochFresh, SnapshotBuilt, RoundClean
<1>6. \A p \in Loops :
        /\ InFlight(p)' = InFlight(p) /\ Building(p)' = Building(p)
        /\ Flushing(p)' = Flushing(p) /\ InFlight(p) \subseteq ID
        /\ \A j \in Building(p) : j <= curPartID
  BY Zenon, <1>0 DEF InFlight, Building, Flushing, TypeOK, IDsBelow
<1>7. FilesComplete'
  <2>1. /\ \A j \in ID : Complete(j)' = Complete(j)
        /\ queued \subseteq Part /\ \A j \in ID : <<"file", j>> \in Part /\ <<"file", j>> # m
    BY Zenon, <1>0 DEF Complete, TypeOK, Part
  <2>2. \A x \in queued' : Waiting(x)'
    BY Zenon, <1>0, <1>3, <2>1 DEF FilesComplete
  <2>3. ASSUME NEW p \in Loops, NEW j \in InFlight(p)'
        PROVE  /\ Complete(j)' /\ Waiting(<<"file", j>>)' /\ <<"file", j>> \notin queued'
               /\ \A q \in Loops : j \in InFlight(q)' => q = p
    <3>1. j \in InFlight(p) /\ j \in ID
      BY Zenon, <1>6
    <3>2. /\ Complete(j) /\ Waiting(<<"file", j>>) /\ <<"file", j>> \notin queued
          /\ \A q \in Loops : j \in InFlight(q) => q = p
      BY Zenon, <3>1 DEF FilesComplete
    <3> QED
      BY Zenon, <1>0, <1>3, <1>6, <2>1, <3>1, <3>2
  <2> QED
    BY Zenon, <1>0, <2>1, <2>2, <2>3 DEF FilesComplete
<1>8. BuildingOwned'
  <2> SUFFICES ASSUME NEW p \in Loops, NEW j \in Building(p)'
               PROVE  /\ dir'[j] = "partial"
                      /\ <<"mem", j>> \notin queued'
                      /\ \A e \in Epoch : <<"mem", j>> \notin parts'[e]
                      /\ \A q \in Loops : j \notin Flushing(q)' /\ (j \in Building(q)' => q = p)
                      /\ \A r \in Receivers : session'[r] # j
    BY Zenon DEF BuildingOwned
  <2>1. j \in Building(p) /\ j # i
    BY <1>i, <1>6, Numbers
  <2>2. /\ dir[j] = "partial"
        /\ <<"mem", j>> \notin queued
        /\ \A e \in Epoch : <<"mem", j>> \notin parts[e]
        /\ \A q \in Loops : j \notin Flushing(q) /\ (j \in Building(q) => q = p)
        /\ \A r \in Receivers : session[r] # j
    BY Zenon, <2>1 DEF BuildingOwned
  <2> QED
    BY Zenon, <1>0, <1>6, <2>1, <2>2
<1>9. IDsBelow'
  <2>1. /\ \A x \in Part : PartID(x) \in Nat /\ PartID(m) = i
        /\ \A p \in Loops : out[p] \subseteq Nat /\ Flushing(p) \subseteq Nat
        /\ queued \subseteq Part
    BY Zenon, Numbers DEF PartID, TypeOK, Flushing
  <2> QED
    BY SMTT(90), <1>i, <1>0, <1>6, <2>1, Numbers DEF IDsBelow
<1> QED
  BY Zenon, <1>0, <1>1, <1>4, <1>5, <1>7, <1>8, <1>9 DEF DownEmpty

\* A sync session takes a new identifier and a new directory.
LEMMA CreatePartInv ==
    ASSUME IInv, NEW r \in Receivers, NEW w \in Writes, CreatePartHandler(r, w)
    PROVE  IInv'
<1> USE DEF IInv
<1>i. PICK i \in ID : i = curPartID + 1
  BY Zenon, CounterID DEF CreatePartHandler
<1>0. /\ UNCHANGED <<parts, sref, held, ref, removing, queued, status, pc, work, out, done,
                     closes, epoch, ipc>>
      /\ status = "up" /\ curPartID' = i
      /\ dir' = [dir EXCEPT ![i] = "partial"] /\ session' = [session EXCEPT ![r] = i]
      /\ rows' = [rows EXCEPT ![i] = {w}] /\ sent' = sent \cup {w}
      /\ UNCHANGED <<manifests, names, counts, loops, gc, intro, introduced, durable,
                     shipped, acked, crashes, closes, status, queued>>
  BY Zenon, <1>i DEF CreatePartHandler, counts, loops, intro
<1>1. TypeOK'
  <2>1. curPartID' \in 0..MaxPart
    BY Zenon, <1>0, IDRange
  <2> QED
    BY Zenon, <1>0, <2>1 DEF TypeOK, counts, gc, intro, loops
<1>2. Counted' /\ EpochFresh' /\ SnapshotBuilt' /\ RoundClean'
  BY Zenon, <1>0 DEF Counted, HoldersOf, SnapshotsOf, EpochFresh, SnapshotBuilt, RoundClean
<1>3. dir[i] = "none" /\ \A j \in ID : j # i => dir'[j] = dir[j]
  <2>1. dir[i] = "none"
    BY Zenon, <1>i, <1>0, NextID DEF IDsBelow
  <2> QED
    BY Zenon, <1>0, <2>1 DEF TypeOK
<1>4. FilesComplete'
  BY Zenon, <1>0, <1>3, SameLoops, FilesFrame
<1>5. BuildingOwned'
  <2> SUFFICES ASSUME NEW p \in Loops, NEW j \in Building(p)'
               PROVE  /\ dir'[j] = "partial"
                      /\ <<"mem", j>> \notin queued'
                      /\ \A e \in Epoch : <<"mem", j>> \notin parts'[e]
                      /\ \A q \in Loops : j \notin Flushing(q)' /\ (j \in Building(q)' => q = p)
                      /\ \A s \in Receivers : session'[s] # j
    BY ZenonT(30) DEF BuildingOwned
  <2>1. j \in Building(p) /\ j \in ID
    BY Zenon, <1>0, SameLoops, OwnedIDs
  <2>2. /\ dir[j] = "partial"
        /\ <<"mem", j>> \notin queued
        /\ \A e \in Epoch : <<"mem", j>> \notin parts[e]
        /\ \A q \in Loops : j \notin Flushing(q) /\ (j \in Building(q) => q = p)
        /\ \A s \in Receivers : session[s] # j
    BY Zenon, <2>1 DEF BuildingOwned
  <2>3. j # i
    BY Zenon, <1>3, <2>2
  <2>4. \A s \in Receivers : session'[s] # j
    BY Zenon, <1>0, <2>2, <2>3 DEF TypeOK
  <2>5. UNCHANGED <<pc, work, out, queued, parts>>
    BY Zenon, <1>0 DEF counts, loops
  <2>6. \A q \in Loops : Flushing(q)' = Flushing(q) /\ Building(q)' = Building(q)
    BY Zenon, <2>5, SameLoops
  <2>7. \A q \in Loops : j \notin Flushing(q)' /\ (j \in Building(q)' => q = p)
    BY ZenonT(30), <2>2, <2>6
  <2>8. dir'[j] = "partial"
    BY Zenon, <1>3, <2>1, <2>2, <2>3
  <2>9. <<"mem", j>> \notin queued' /\ \A e \in Epoch : <<"mem", j>> \notin parts'[e]
    BY ZenonT(30), <2>2, <2>5
  <2> QED
    BY ZenonT(30), <2>4, <2>7, <2>8, <2>9
<1>6. IDsBelow'
  <2>1. \A s \in Receivers : session'[s] <= curPartID'
    <3>1. \A s \in Receivers : session'[s] = session[s] \/ session'[s] = i
      BY Zenon, <1>0 DEF TypeOK
    <3>2. i <= curPartID' /\ curPartID' \in Nat /\ curPartID <= curPartID'
      BY Zenon, <1>i, <1>0, NextID
    <3> QED
      BY ZenonT(30), <3>1, <3>2, BelowGrows
  <2>2. curPartID' \in Nat /\ curPartID <= curPartID'
    BY Zenon, <1>i, <1>0, NextID
  <2>3. ASSUME NEW j \in ID, j > curPartID'
        PROVE  dir'[j] = "none"
    <3>1. j > curPartID /\ j # i
      BY Zenon, <1>i, <1>0, <2>3, NextID
    <3>2. dir[j] = "none"
      BY Zenon, <1>0, <3>1 DEF IDsBelow
    <3> QED
      BY Zenon, <1>3, <3>1, <3>2
  <2>4. UNCHANGED <<pc, work, out, queued, parts>>
    BY Zenon, <1>0 DEF counts, loops
  <2>5. \A p \in Loops : out'[p] \cup Flushing(p)' = out[p] \cup Flushing(p)
    BY Zenon, <2>4, SameLoops
  <2> QED
    BY ZenonT(30), <2>1, <2>2, <2>3, <2>4, <2>5, BelowGrows DEF IDsBelow
<1> QED
  BY Zenon, <1>0, <1>1, <1>2, <1>4, <1>5, <1>6 DEF DownEmpty

\* An unfinished session removes its directory.
LEMMA AbortSyncInv ==
    ASSUME IInv, NEW r \in Receivers, AbortSync(r)
    PROVE  IInv'
<1> USE DEF IInv
<1>i. PICK i \in ID : i = session[r] /\ dir[i] = "partial"
  BY Zenon DEF AbortSync, TypeOK
<1>0. /\ UNCHANGED <<parts, sref, held, ref, removing, queued, status, pc, work, out, done,
                     closes, epoch, ipc, curPartID>>
      /\ status = "up"
      /\ dir' = [dir EXCEPT ![i] = "none"] /\ session' = [session EXCEPT ![r] = 0]
      /\ UNCHANGED <<rows, manifests, names, counts, loops, gc, intro, history,
                     status, curPartID, queued>>
  BY Zenon, <1>i DEF AbortSync, counts, loops, intro, history, Running, TypeOK
<1>1. TypeOK'
  BY Zenon, <1>0 DEF TypeOK, counts, gc, intro, loops, history
<1>2. Counted' /\ EpochFresh' /\ SnapshotBuilt' /\ RoundClean'
  BY Zenon, <1>0 DEF Counted, HoldersOf, SnapshotsOf, EpochFresh, SnapshotBuilt, RoundClean
<1>3. \A j \in ID : dir'[j] = (IF j = i THEN "none" ELSE dir[j])
  BY Zenon, <1>0 DEF TypeOK
<1>4. FilesComplete'
  BY Zenon, <1>i, <1>0, <1>3, SameLoops, FilesFrame
<1>5. BuildingOwned'
  <2>1. \A p \in Loops : \A j \in Building(p) : j \in ID /\ j # 0 /\ j # i
    BY Zenon, <1>i, SessionNotBuilding
  <2>2. \A s \in Receivers : session'[s] \in {0, session[s]}
    BY Zenon, <1>0 DEF TypeOK
  <2> QED
    BY Zenon, <1>0, <1>3, <2>1, <2>2, SameLoops, BuildingFrame
<1>6. IDsBelow'
  <2>1. \A j \in ID : j > curPartID' => dir'[j] = "none"
    BY Zenon, <1>0, <1>3 DEF IDsBelow
  <2>2. \A s \in Receivers : session'[s] = 0 \/ session'[s] = session[s]
    BY Zenon, <1>0 DEF TypeOK
  <2>3. \A s \in Receivers : session'[s] <= curPartID'
    BY Zenon, <1>0, <2>2, Numbers DEF IDsBelow
  <2>4. UNCHANGED <<pc, work, out, queued, parts, curPartID>>
    BY Zenon, <1>0 DEF loops
  <2> QED
    BY Zenon, <2>1, <2>3, <2>4, SameLoops DEF IDsBelow
<1> QED
  BY Zenon, <1>0, <1>1, <1>2, <1>4, <1>5, <1>6 DEF DownEmpty

\* A finished session completes its directory and queues the part.
LEMMA FinishSyncInv ==
    ASSUME IInv, NEW r \in Receivers, FinishSync(r)
    PROVE  IInv'
<1> USE DEF IInv
<1>i. PICK i \in ID : i = session[r] /\ dir[i] = "partial"
  BY Zenon DEF FinishSync, TypeOK
<1>0. /\ UNCHANGED <<parts, sref, held, removing, session, status, pc, work, out, done,
                     closes, epoch, ipc, curPartID>>
      /\ status = "up"
      /\ dir' = [dir EXCEPT ![i] = "full"] /\ ref' = [ref EXCEPT ![<<"file", i>>] = 1]
      /\ queued' = queued \cup {<<"file", i>>}
      /\ UNCHANGED <<rows, manifests, names, parts, sref, held, removable, removing,
                     loops, gc, intro, history, status, curPartID, session>>
  BY Zenon, <1>i DEF FinishSync, loops, intro, history, Running, TypeOK
<1>1. /\ dir' = [j \in ID |-> IF j \in {i} THEN "full" ELSE dir[j]]
      /\ ref' = [w \in Part |-> IF Kind(w) = "file" /\ PartID(w) \in {i} THEN 1 ELSE ref[w]]
      /\ queued' = queued \cup {<<"file", j>> : j \in {i}}
      /\ "none" \notin Loops
  <2>1. dir' = [j \in ID |-> IF j \in {i} THEN "full" ELSE dir[j]]
    BY Zenon, <1>0 DEF TypeOK
  <2>2. \A w \in Part : w = <<"file", i>> <=> (Kind(w) = "file" /\ PartID(w) \in {i})
    BY DEF Kind, PartID, Part
  <2>3. ref' = [w \in Part |-> IF Kind(w) = "file" /\ PartID(w) \in {i} THEN 1 ELSE ref[w]]
    BY Zenon, <1>0, <2>2 DEF TypeOK
  <2>4. "none" \notin Loops
    BY Zenon, TSTableAssumption
  <2>5. {<<"file", j>> : j \in {i}} = {<<"file", i>>}
    BY Zenon
  <2> QED
    BY Zenon, <1>0, <2>1, <2>3, <2>4, <2>5
<1>2. FilesComplete' /\ Counted' /\ ref' \in [Part -> Nat]
  <2>1. \A j \in {i} : dir[j] # "full"
    BY Zenon, <1>i
  <2>2. \A p \in Loops : InFlight(p)' \subseteq (IF p = "none" THEN InFlight(p) \cup {i}
                                                             ELSE InFlight(p))
    BY Zenon, <1>0, SameLoops
  <2>3. {i} \in SUBSET ID
    BY Zenon
  <2> QED
    BY Zenon, <1>0, <1>1, <2>1, <2>2, <2>3, FilesDone
<1>3. TypeOK'
  <2>1. queued' \in SUBSET Part
    BY SMTT(90), <1>0 DEF TypeOK, Part
  <2> QED
    BY Zenon, <1>0, <1>2, <2>1 DEF TypeOK, gc, intro, loops, history
<1>4. EpochFresh' /\ SnapshotBuilt' /\ RoundClean'
  BY Zenon, <1>0 DEF EpochFresh, SnapshotBuilt, RoundClean
<1>5. BuildingOwned'
  <2>1. \A p \in Loops : \A j \in Building(p) : j \in ID /\ j # 0 /\ j # i
    BY Zenon, <1>i, SessionNotBuilding
  <2>2. \A w \in queued' : w \in queued \/ Kind(w) = "file"
    BY <1>0 DEF Kind
  <2>3. \A j \in ID : j # i => dir'[j] = dir[j]
    BY Zenon, <1>0 DEF TypeOK
  <2> QED
    BY Zenon, <1>0, <2>1, <2>2, <2>3, SameLoops, BuildingFrame
<1>6. IDsBelow'
  <2>1. i <= curPartID
    BY Zenon, <1>i DEF IDsBelow
  <2>2. ASSUME NEW w \in queued'
        PROVE  PartID(w) <= curPartID'
    <3>1. w \in queued \/ w = <<"file", i>>
      BY Zenon, <1>0
    <3>2. curPartID' = curPartID
      BY Zenon, <1>0
    <3>3. CASE w \in queued
      BY Zenon, <3>2, <3>3 DEF IDsBelow
    <3>4. CASE w = <<"file", i>>
      BY Zenon, <2>1, <3>2, <3>4 DEF PartID
    <3> QED
      BY Zenon, <3>1, <3>3, <3>4
  <2>3. \A j \in ID : j > curPartID => dir'[j] = "none"
    BY Zenon, <1>0, <2>1, AboveUnused DEF IDsBelow, TypeOK
  <2> QED
    BY Zenon, <1>0, <2>2, <2>3, SameLoops DEF IDsBelow
<1> QED
  BY Zenon, <1>0, <1>2, <1>3, <1>4, <1>5, <1>6 DEF DownEmpty

-----------------------------------------------------------------------------
(* Rounds *)

\* mergeParts takes a new identifier and a new directory.
LEMMA StartMergeInv ==
    ASSUME IInv, NEW p \in Loops, NEW G \in SUBSET ID, StartMerge(p, G)
    PROVE  IInv'
<1> USE DEF IInv
<1>i. PICK i \in ID : i = curPartID + 1
  BY Zenon, CounterID DEF StartMerge
<1>0. /\ UNCHANGED <<parts, sref, held, ref, removing, queued, status, session, done,
                     closes, epoch, ipc>>
      /\ status = "up" /\ curPartID' = i /\ pc[p] = "ready" /\ p # "syncer"
      /\ dir' = [dir EXCEPT ![i] = "partial"] /\ rows' = [rows EXCEPT ![i] = Rows(G)]
      /\ out' = [out EXCEPT ![p] = {i}] /\ work' = [work EXCEPT ![p] = G]
      /\ pc' = [pc EXCEPT ![p] = "merge"]
      /\ UNCHANGED <<manifests, names, counts, done, seen, gc, intro, history, status,
                     queued, session>>
  BY Zenon, <1>i DEF StartMerge, counts, intro, history, Running, TypeOK
<1>1. TypeOK'
  <2>1. curPartID' \in 0..MaxPart
    BY Zenon, <1>0, IDRange
  <2>2. rows' \in [ID -> SUBSET Writes]
    BY Zenon, <1>0, RowsType DEF TypeOK
  <2> QED
    BY ZenonT(30), <1>0, <2>1, <2>2 DEF TypeOK, counts, gc, intro, history
<1>2. Counted' /\ EpochFresh' /\ SnapshotBuilt'
  BY Zenon, <1>0 DEF Counted, HoldersOf, SnapshotsOf, EpochFresh, SnapshotBuilt
<1>3. RoundClean'
  BY Zenon, <1>0 DEF RoundClean, TypeOK
<1>4. dir[i] = "none" /\ dir'[i] = "partial" /\ \A j \in ID : j # i => dir'[j] = dir[j]
  <2>1. dir[i] = "none"
    BY Zenon, <1>i, <1>0, NextID DEF IDsBelow
  <2> QED
    BY Zenon, <1>0, <2>1 DEF TypeOK
<1>5. \A q \in Loops :
        /\ InFlight(q)' \subseteq InFlight(q)
        /\ Building(q)' = (IF q = p THEN {i} ELSE Building(q))
        /\ Flushing(q)' \subseteq Flushing(q)
  BY Zenon, <1>0 DEF InFlight, Building, Flushing, TypeOK
<1>6. FilesComplete'
  BY Zenon, <1>0, <1>4, <1>5, FilesFrame
<1>7. \A q \in Loops : \A j \in Building(q) \cup Flushing(q) \cup out[q] : j <= curPartID
  BY Zenon DEF IDsBelow, Building
<1>8. BuildingOwned'
  <2> SUFFICES ASSUME NEW q \in Loops, NEW j \in Building(q)'
               PROVE  /\ dir'[j] = "partial"
                      /\ <<"mem", j>> \notin queued'
                      /\ \A e \in Epoch : <<"mem", j>> \notin parts'[e]
                      /\ \A l \in Loops : j \notin Flushing(l)' /\ (j \in Building(l)' => l = q)
                      /\ \A s \in Receivers : session'[s] # j
    BY Zenon DEF BuildingOwned
  <2>1. CASE q = p
    <3>1. j = i
      BY Zenon, <1>5, <2>1
    <3>2. \A l \in Loops : i \notin Flushing(l) /\ i \notin Building(l)
      BY SMTT(90), <1>i, <1>7, Numbers
    <3>3. <<"mem", i>> \notin queued /\ \A e \in Epoch : <<"mem", i>> \notin parts[e]
      <4>1. <<"mem", i>> \in Part /\ PartID(<<"mem", i>>) = i
        BY Zenon DEF Part, PartID
      <4> QED
        BY <1>i, <4>1, Numbers DEF IDsBelow
    <3>4. \A s \in Receivers : session[s] # i
      BY <1>i, Numbers DEF IDsBelow
    <3> QED
      BY Zenon, <1>0, <1>4, <1>5, <2>1, <3>1, <3>2, <3>3, <3>4
  <2>2. CASE q # p
    <3>1. j \in Building(q) /\ j \in ID
      BY Zenon, <1>5, <2>2, OwnedIDs
    <3>2. /\ dir[j] = "partial"
          /\ <<"mem", j>> \notin queued
          /\ \A e \in Epoch : <<"mem", j>> \notin parts[e]
          /\ \A l \in Loops : j \notin Flushing(l) /\ (j \in Building(l) => l = q)
          /\ \A s \in Receivers : session[s] # j
      BY Zenon, <3>1 DEF BuildingOwned
    <3>3. j # i
      BY Zenon, <1>4, <3>2
    <3> QED
      BY Zenon, <1>0, <1>4, <1>5, <3>1, <3>2, <3>3
  <2> QED
    BY Zenon, <2>1, <2>2
<1>9. IDsBelow'
  <2>1. \A q \in Loops : \A j \in out'[q] \cup Flushing(q)' : j <= curPartID'
    <3>1. \A q \in Loops : \A j \in out'[q] : j = i \/ j \in out[q]
      BY Zenon, <1>0 DEF TypeOK
    <3>2. ASSUME NEW q \in Loops, NEW j \in out'[q] \cup Flushing(q)'
          PROVE  j <= curPartID'
      <4>1. j = i \/ (j \in ID /\ j <= curPartID)
        BY Zenon, <1>5, <1>7, <3>1, OwnedIDs
      <4>2. curPartID \in Nat /\ i \in Nat /\ i = curPartID + 1 /\ curPartID' = i
        BY Zenon, <1>i, <1>0, Numbers
      <4>3. ASSUME j \in ID, j <= curPartID
            PROVE  j <= i
        <5>1. j \in Nat
          BY Zenon, <4>3, Numbers
        <5> QED
          BY SMTT(90), <4>2, <4>3, <5>1
      <4>4. i <= i
        BY <4>2
      <4> QED
        BY Zenon, <4>1, <4>2, <4>3, <4>4
    <3> QED
      BY Zenon, <3>2
  <2>2. queued \subseteq Part
    BY Zenon DEF TypeOK
  <2>3. \A j \in ID : j > curPartID' => dir'[j] = "none"
    BY Zenon, <1>i, <1>0, <1>4, NextID DEF IDsBelow
  <2>4. curPartID' \in Nat /\ curPartID <= curPartID'
    BY Zenon, <1>i, <1>0, NextID
  <2> QED
    BY Zenon, <1>0, <2>1, <2>3, <2>4, BelowGrows DEF IDsBelow
<1> QED
  BY Zenon, <1>0, <1>1, <1>2, <1>3, <1>6, <1>8, <1>9 DEF DownEmpty

\* mergeParts completes its part, which becomes the outcome of its loop.
LEMMA FinishMergeInv ==
    ASSUME IInv, NEW p \in Loops, FinishMerge(p)
    PROVE  IInv'
<1> USE DEF IInv
<1>0. /\ UNCHANGED <<parts, sref, held, removing, queued, status, session, done, work, out,
                     closes, epoch, ipc, curPartID>>
      /\ status = "up" /\ pc[p] = "merge" /\ pc' = [pc EXCEPT ![p] = "send"]
      /\ UNCHANGED <<rows, manifests, names, parts, sref, held, removable, removing, work,
                     out, done, seen, gc, intro, history, status, curPartID, queued,
                     session>>
  BY Zenon DEF FinishMerge, intro, history, Running, TypeOK
<1>i. PICK I \in SUBSET ID : I = out[p] /\ I = Building(p)
  BY Zenon, <1>0 DEF TypeOK, Building
<1>1. /\ dir' = [i \in ID |-> IF i \in I THEN "full" ELSE dir[i]]
      /\ ref' = [w \in Part |-> IF Kind(w) = "file" /\ PartID(w) \in I THEN 1 ELSE ref[w]]
  BY Zenon, <1>i DEF FinishMerge
<1>2. \A q \in Loops :
        /\ InFlight(q)' \subseteq (IF q = p THEN InFlight(q) \cup I ELSE InFlight(q))
        /\ Building(q)' = (IF q = p THEN {} ELSE Building(q))
        /\ Flushing(q)' \subseteq Flushing(q)
  BY Zenon, <1>0, <1>i DEF InFlight, Building, Flushing, TypeOK
<1>3. \A i \in I : dir[i] = "partial"
  BY Zenon, <1>i DEF BuildingOwned
<1>4. FilesComplete' /\ Counted' /\ ref' \in [Part -> Nat]
  BY Zenon, <1>0, <1>1, <1>2, <1>3, FilesDone
<1>5. TypeOK'
  BY Zenon, <1>0, <1>1, <1>4 DEF TypeOK, gc, intro, history
<1>6. EpochFresh' /\ SnapshotBuilt'
  BY Zenon, <1>0 DEF EpochFresh, SnapshotBuilt
<1>7. RoundClean'
  BY Zenon, <1>0 DEF RoundClean, TypeOK
<1>8. BuildingOwned'
  <2>1. ASSUME NEW q \in Loops, NEW j \in Building(q)'
        PROVE  j # 0 /\ (dir[j] = "partial" => dir'[j] = "partial")
    <3>1. q # p /\ j \in Building(q) /\ j \in ID
      BY Zenon, <1>2, OwnedIDs
    <3>2. j \notin I
      BY Zenon, <1>i, <3>1 DEF BuildingOwned
    <3> QED
      BY <1>1, <3>1, <3>2, Numbers
  <2> QED
    BY Zenon, <1>0, <1>2, <2>1, BuildingFrame
<1>9. IDsBelow'
  <2>1. \A j \in ID : j > curPartID => dir'[j] = "none"
    <3>1. \A j \in I : j <= curPartID
      BY Zenon, <1>i DEF IDsBelow
    <3>2. ASSUME NEW j \in ID, j > curPartID
          PROVE  dir'[j] = "none"
      <4>1. j \notin I
        BY <3>1, <3>2, Numbers
      <4>2. dir[j] = "none"
        BY Zenon, <1>0, <3>2 DEF IDsBelow
      <4> QED
        BY Zenon, <1>1, <4>1, <4>2
    <3> QED
      BY Zenon, <3>2
  <2> QED
    BY Zenon, <1>0, <1>2, <2>1 DEF IDsBelow
<1> QED
  BY Zenon, <1>0, <1>4, <1>5, <1>6, <1>7, <1>8, <1>9 DEF DownEmpty

\* The flusher decides which memory parts to flush, the syncer which file parts
\* to ship.
LEMMA StartFlushInv ==
    ASSUME IInv, StartFlush \/ SyncSnapshot
    PROVE  IInv'
<1> USE DEF IInv
<1>0. PICK p \in Loops :
        /\ UNCHANGED <<dir, parts, sref, held, ref, removing, queued, status, session, out, done,
                       closes, epoch, ipc, curPartID, disk, counts, seen, gc, intro, sent,
                       introduced, durable, acked, crashes>>
        /\ status = "up" /\ pc[p] = "ready" /\ out[p] = {}
        /\ \/ /\ p = "flusher" /\ work' = [work EXCEPT ![p] = MemIDs(Snapshot(p))]
              /\ pc' = [pc EXCEPT ![p] = "flush"] /\ shipped' = shipped
           \/ /\ p = "syncer" /\ work' = [work EXCEPT ![p] = FileIDs(Snapshot(p))]
              /\ pc' = [pc EXCEPT ![p] = "send"]
              /\ shipped' = shipped \cup Rows(FileIDs(Snapshot(p)))
  BY Zenon
     DEF StartFlush, SyncSnapshot, disk, counts, intro, history, Running, TypeOK, RoundClean
<1>s. Snapshot(p) \subseteq Part /\ MemIDs(Snapshot(p)) \subseteq ID /\ FileIDs(Snapshot(p)) \subseteq ID
  BY Zenon, Numbers DEF TypeOK, Snapshot, MemIDs, FileIDs
<1>1. TypeOK'
  BY SMTT(90), <1>0, <1>s, RowsType DEF TypeOK, disk, counts, gc, intro
<1>2. Counted' /\ EpochFresh' /\ SnapshotBuilt'
  BY Zenon, <1>0 DEF Counted, HoldersOf, SnapshotsOf, EpochFresh, SnapshotBuilt
<1>3. RoundClean'
  BY Zenon, <1>0 DEF RoundClean, TypeOK
<1>4. \A q \in Loops :
        /\ InFlight(q)' \subseteq InFlight(q) /\ Building(q)' = Building(q)
        /\ Flushing(q)' \subseteq Flushing(q) \cup MemIDs(Snapshot(p))
  BY Zenon, <1>0 DEF InFlight, Building, Flushing, TypeOK
<1>5. FilesComplete'
  BY Zenon, <1>0, <1>4, FilesFrame
<1>6. ASSUME NEW j \in MemIDs(Snapshot(p))
      PROVE  /\ j <= curPartID
             /\ \E e \in Epoch : <<"mem", j>> \in parts[e]
  <2>1. j \in ID /\ held[p] \in Epoch /\ <<"mem", j>> \in parts[held[p]]
    BY Zenon, Numbers DEF TypeOK, Snapshot, MemIDs
  <2>2. <<"mem", j>> \in Part /\ PartID(<<"mem", j>>) = j
    BY Zenon, <2>1 DEF Part, PartID
  <2> QED
    BY Zenon, <2>1, <2>2 DEF IDsBelow
<1>7. BuildingOwned'
  <2> SUFFICES ASSUME NEW q \in Loops, NEW j \in Building(q)'
               PROVE  /\ dir'[j] = "partial"
                      /\ <<"mem", j>> \notin queued'
                      /\ \A e \in Epoch : <<"mem", j>> \notin parts'[e]
                      /\ \A l \in Loops : j \notin Flushing(l)' /\ (j \in Building(l)' => l = q)
                      /\ \A s \in Receivers : session'[s] # j
    BY Zenon DEF BuildingOwned
  <2>1. j \in Building(q)
    BY Zenon, <1>4
  <2>2. /\ dir[j] = "partial"
        /\ <<"mem", j>> \notin queued
        /\ \A e \in Epoch : <<"mem", j>> \notin parts[e]
        /\ \A l \in Loops : j \notin Flushing(l) /\ (j \in Building(l) => l = q)
        /\ \A s \in Receivers : session[s] # j
    BY Zenon, <2>1 DEF BuildingOwned
  <2>3. \A l \in Loops : j \notin Flushing(l)'
    BY Zenon, <1>4, <1>6, <2>2
  <2> QED
    BY Zenon, <1>0, <1>4, <2>1, <2>2, <2>3
<1>8. IDsBelow'
  BY Zenon, <1>0, <1>4, <1>6 DEF IDsBelow
<1> QED
  BY Zenon, <1>0, <1>1, <1>2, <1>3, <1>5, <1>7, <1>8 DEF DownEmpty

\* mustFlush creates the directory of a memory part.
LEMMA MustFlushInv ==
    ASSUME IInv, NEW i \in ID, MustFlush(i)
    PROVE  IInv'
<1> USE DEF IInv
<1>0. /\ UNCHANGED <<parts, sref, held, ref, removing, queued, status, session, pc, work, out,
                     done, closes, epoch, ipc, curPartID>>
      /\ status = "up" /\ "flusher" \in Loops /\ i \in Flushing("flusher") /\ dir[i] = "none"
      /\ dir' = [dir EXCEPT ![i] = "partial"]
      /\ UNCHANGED <<rows, manifests, names, counts, loops, gc, intro, history, status,
                     curPartID, queued, session>>
  BY Zenon DEF MustFlush, Flushing, counts, loops, intro, history, Running, TypeOK
<1>1. TypeOK'
  BY Zenon, <1>0 DEF TypeOK, counts, loops, gc, intro, history
<1>2. Counted' /\ EpochFresh' /\ SnapshotBuilt' /\ RoundClean'
  BY Zenon, <1>0 DEF Counted, HoldersOf, SnapshotsOf, EpochFresh, SnapshotBuilt, RoundClean
<1>3. \A j \in ID : dir'[j] = (IF j = i THEN "partial" ELSE dir[j])
  BY Zenon, <1>0 DEF TypeOK
<1>4. FilesComplete'
  BY Zenon, <1>0, <1>3, SameLoops, FilesFrame
<1>5. BuildingOwned'
  <2>1. \A p \in Loops : \A j \in Building(p) : j \in ID /\ j # 0
    BY Zenon, OwnedIDs, Numbers
  <2> QED
    BY Zenon, <1>0, <1>3, <2>1, SameLoops, BuildingFrame
<1>6. IDsBelow'
  <2>1. i <= curPartID
    BY Zenon, <1>0 DEF IDsBelow
  <2>2. \A j \in ID : j > curPartID => dir'[j] = "none"
    BY Zenon, <1>0, <1>3, <2>1, AboveUnused DEF IDsBelow
  <2> QED
    BY Zenon, <1>0, <2>2, SameLoops DEF IDsBelow
<1> QED
  BY Zenon, <1>0, <1>1, <1>2, <1>4, <1>5, <1>6 DEF DownEmpty

\* mustFlush completes the directory of a memory part.
LEMMA FlushDoneInv ==
    ASSUME IInv, NEW i \in ID, MustFlushDone(i)
    PROVE  IInv'
<1> USE DEF IInv
<1>0. /\ UNCHANGED <<parts, sref, held, removing, queued, status, session,
                     done, closes, epoch, ipc, curPartID>>
      /\ status = "up" /\ "flusher" \in Loops /\ i \in Flushing("flusher")
      /\ dir[i] = "partial" /\ pc["flusher"] = "flush"
      /\ dir' = [dir EXCEPT ![i] = "full"]
      /\ ref' = [ref EXCEPT ![<<"file", i>>] = 1]
      /\ work' = [work EXCEPT !["flusher"] = @ \ {i}]
      /\ out' = [out EXCEPT !["flusher"] = @ \cup {i}]
      /\ \/ pc' = [pc EXCEPT !["flusher"] = "sendFlush"]
         \/ pc' = [pc EXCEPT !["flusher"] = "flush"]
      /\ UNCHANGED <<rows, manifests, names, parts, sref, held, removable, removing, done,
                     seen, gc, intro, history, status, curPartID, queued, session>>
  BY Zenon DEF MustFlushDone, Flushing, intro, history, Running, TypeOK
<1>1. /\ dir' = [j \in ID |-> IF j \in {i} THEN "full" ELSE dir[j]]
      /\ ref' = [w \in Part |-> IF Kind(w) = "file" /\ PartID(w) \in {i} THEN 1 ELSE ref[w]]
  <2>1. dir' = [j \in ID |-> IF j \in {i} THEN "full" ELSE dir[j]]
    BY Zenon, <1>0 DEF TypeOK
  <2>2. \A w \in Part : w = <<"file", i>> <=> (Kind(w) = "file" /\ PartID(w) \in {i})
    BY DEF Kind, PartID, Part
  <2>3. ref' = [w \in Part |-> IF Kind(w) = "file" /\ PartID(w) \in {i} THEN 1 ELSE ref[w]]
    BY Zenon, <1>0, <2>2 DEF TypeOK
  <2> QED
    BY Zenon, <2>1, <2>3
<1>2. \A q \in Loops :
        /\ InFlight(q)' \subseteq (IF q = "flusher" THEN InFlight(q) \cup {i} ELSE InFlight(q))
        /\ Building(q)' \subseteq Building(q)
        /\ Flushing(q)' \subseteq Flushing(q)
        /\ out'[q] \subseteq out[q] \cup {i}
  BY Zenon, <1>0 DEF InFlight, Building, Flushing, TypeOK
<1>4. FilesComplete' /\ Counted' /\ ref' \in [Part -> Nat]
  <2>1. \A j \in {i} : dir[j] # "full"
    BY Zenon, <1>0
  <2>2. {i} \in SUBSET ID
    BY Zenon
  <2> QED
    BY Zenon, <1>0, <1>1, <1>2, <2>1, <2>2, FilesDone
<1>5. TypeOK'
  BY SMTT(90), <1>0, <1>4 DEF TypeOK, gc, intro, history
<1>6. EpochFresh' /\ SnapshotBuilt'
  BY Zenon, <1>0 DEF EpochFresh, SnapshotBuilt
<1>7. RoundClean'
  BY Zenon, <1>0 DEF RoundClean, TypeOK
<1>8. BuildingOwned'
  <2>1. ASSUME NEW q \in Loops, NEW j \in Building(q)'
        PROVE  j # 0 /\ (dir[j] = "partial" => dir'[j] = "partial")
    <3>1. j \in Building(q) /\ j \in ID
      BY Zenon, <1>2, OwnedIDs
    <3>2. j # i
      <4>1. \A l \in Loops : j \notin Flushing(l)
        BY Zenon, <3>1 DEF BuildingOwned
      <4> QED
        BY Zenon, <1>0, <4>1
    <3> QED
      BY <1>1, <3>1, <3>2, Numbers
  <2> QED
    BY Zenon, <1>0, <1>2, <2>1, BuildingFrame
<1>9. IDsBelow'
  <2>0. i <= curPartID
    BY Zenon, <1>0 DEF IDsBelow
  <2>1. \A j \in ID : j > curPartID => dir'[j] = "none"
    BY Zenon, <1>0, <1>1, <2>0, Numbers DEF IDsBelow
  <2> QED
    BY Zenon, <1>0, <1>2, <2>0, <2>1 DEF IDsBelow
<1> QED
  BY Zenon, <1>0, <1>4, <1>5, <1>6, <1>7, <1>8, <1>9 DEF DownEmpty

-----------------------------------------------------------------------------
(* Introductions, crashes and recovery *)

\* A new snapshot of the next epoch: nobody holds that epoch yet, the parts it
\* shares gain a reference, and each new part brings the one it had.
LEMMA IntroduceCounted ==
    ASSUME IInv, NEW gone, NEW fresh \in SUBSET Part, NEW b, NEW p,
           Introduce(gone, fresh, b, p), epoch' = epoch, \A w \in fresh : Waiting(w)
    PROVE  /\ Counted' /\ EpochFresh' /\ SnapshotBuilt'
           /\ held' \in [Holder -> {0} \cup Epoch] /\ sref' \in [Epoch -> Nat]
           /\ parts' \in [Epoch -> SUBSET Part] /\ ref' \in [Part -> Nat]
           /\ \A e \in Epoch : \A w \in parts'[e] : w \in fresh \/ \E f \in Epoch : w \in parts[f]
           /\ \A w \in Part : ref'[w] # ref[w] => \E f \in Epoch : w \in parts[f]
           /\ \A w \in Part : (\A f \in Epoch : w \notin parts[f]) /\ w \notin fresh
                                => \A f \in Epoch : w \notin parts'[f]
<1> USE DEF IInv
<1> DEFINE n == epoch
           t == held["table"]
           shared == Snapshot("table") \ gone
<1>n. PICK en \in Epoch : en = n
  BY Numbers, TSTableAssumption DEF Introduce, Epoch
<1>t. /\ held \in [Holder -> {0} \cup Epoch] /\ sref \in [Epoch -> Nat]
      /\ parts \in [Epoch -> SUBSET Part] /\ ref \in [Part -> Nat]
      /\ "table" \in Holder /\ "next" \in Holder /\ "introducer" \in Holder
      /\ 0 \notin Epoch
  BY TSTableAssumption DEF TypeOK, Holder, Epoch
<1>0. /\ held' = [held EXCEPT !["introducer"] = t, !["next"] = en]
      /\ sref' = [e \in Epoch |-> CASE e = en -> 1
                                    [] e = t -> sref[e] + 1
                                    [] OTHER -> sref[e]]
      /\ parts' = [parts EXCEPT ![en] = shared \cup fresh]
      /\ ref' = [w \in Part |-> IF w \in shared THEN ref[w] + 1 ELSE ref[w]]
      /\ ipc = "idle" /\ ipc' = "replace"
  BY <1>n DEF Introduce, NextSnapshot
<1>1. \A h \in Holder : held[h] # en /\ held[h] < epoch
  BY <1>0, <1>n, Numbers DEF EpochFresh
<1>2. /\ shared \subseteq Part
      /\ \A w \in shared : \E f \in Epoch : w \in parts[f]
      /\ \A w \in fresh : w \notin shared
  <2>1. \A w \in shared : t \in Epoch /\ w \in parts[t]
    BY Zenon, <1>t DEF Snapshot
  <2>2. \A w \in fresh : \A f \in Epoch : w \notin parts[f]
    BY Zenon DEF Waiting
  <2> QED
    BY Zenon, <1>t, <2>1, <2>2
<1>3. /\ held' \in [Holder -> {0} \cup Epoch] /\ sref' \in [Epoch -> Nat]
      /\ parts' \in [Epoch -> SUBSET Part] /\ ref' \in [Part -> Nat]
  BY <1>t, <1>0, <1>2
<1>4. ASSUME NEW e \in Epoch
      PROVE  Cardinality(HoldersOf(e)') <= sref'[e]
  <2>0. /\ IsFiniteSet(HoldersOf(e)) /\ IsFiniteSet(HoldersOf(e)')
        /\ Cardinality(HoldersOf(e)) \in Nat /\ Cardinality(HoldersOf(e)') \in Nat
        /\ Cardinality(HoldersOf(e)) <= sref[e] /\ sref[e] \in Nat
    BY Zenon, <1>t, Finiteness, CardZero DEF Counted
  <2>1. CASE e = en
    <3>1. HoldersOf(e)' \subseteq {} \cup {"next"}
      BY Zenon, <1>t, <1>0, <1>1, <2>1 DEF HoldersOf
    <3>2. IsFiniteSet({}) /\ Cardinality({}) = 0
      BY Zenon, FS_EmptySet
    <3>3. Cardinality(HoldersOf(e)') <= Cardinality({}) + 1
      BY Zenon, <3>1, <3>2, CardGrow
    <3>4. sref'[e] = 1
      <4>1. e # t
        BY Zenon, <1>t, <1>1, <2>1
      <4> QED
        BY Zenon, <1>0, <2>1, <4>1
    <3>5. Cardinality(HoldersOf(e)') <= 0 + 1
      BY Zenon, <3>2, <3>3
    <3>6. Cardinality(HoldersOf(e)') <= 1
      BY Zenon, <2>0, <3>5, CountUp
    <3> QED
      BY Zenon, <3>4, <3>6
  <2>2. CASE e # en /\ e = t
    <3>1. HoldersOf(e)' \subseteq HoldersOf(e) \cup {"introducer"}
      BY Zenon, <1>t, <1>0, <2>2 DEF HoldersOf
    <3>2. Cardinality(HoldersOf(e)') <= Cardinality(HoldersOf(e)) + 1
      BY Zenon, <2>0, <3>1, CardGrow
    <3>3. sref'[e] = sref[e] + 1
      BY Zenon, <1>0, <2>2
    <3>4. Cardinality(HoldersOf(e)') <= sref[e] + 1
      BY Zenon, <2>0, <3>2, CountUp
    <3> QED
      BY Zenon, <3>3, <3>4
  <2>3. CASE e # en /\ e # t
    <3>1. HoldersOf(e)' \subseteq HoldersOf(e)
      BY Zenon, <1>t, <1>0, <2>3 DEF HoldersOf
    <3>2. Cardinality(HoldersOf(e)') <= Cardinality(HoldersOf(e))
      BY Zenon, <2>0, <3>1, CardMono
    <3>3. sref'[e] = sref[e]
      BY Zenon, <1>0, <2>3
    <3>4. Cardinality(HoldersOf(e)') <= sref[e]
      BY Zenon, <2>0, <3>2, CountUp
    <3> QED
      BY Zenon, <3>3, <3>4
  <2> QED
    BY Zenon, <2>1, <2>2, <2>3
<1>5. ASSUME NEW w \in Part
      PROVE  Cardinality(SnapshotsOf(w)') <= ref'[w]
  <2>0. /\ IsFiniteSet(SnapshotsOf(w)) /\ IsFiniteSet(SnapshotsOf(w)')
        /\ Cardinality(SnapshotsOf(w)) \in Nat /\ Cardinality(SnapshotsOf(w)') \in Nat
        /\ Cardinality(SnapshotsOf(w)) <= ref[w] /\ ref[w] \in Nat
    BY Zenon, <1>t, Finiteness, CardZero DEF Counted
  <2>1. CASE w \in shared
    <3>1. SnapshotsOf(w)' \subseteq SnapshotsOf(w) \cup {en}
      BY Zenon, <1>t, <1>0 DEF SnapshotsOf
    <3>2. Cardinality(SnapshotsOf(w)') <= Cardinality(SnapshotsOf(w)) + 1
      BY Zenon, <2>0, <3>1, CardGrow
    <3>3. Cardinality(SnapshotsOf(w)') <= ref[w] + 1
      BY Zenon, <2>0, <3>2, CountUp
    <3>4. ref'[w] = ref[w] + 1
      BY Zenon, <1>0, <2>1
    <3> QED
      BY Zenon, <3>3, <3>4
  <2>2. CASE w \in fresh
    <3>1. SnapshotsOf(w)' \subseteq {} \cup {en}
      BY Zenon, <1>t, <1>0, <2>2 DEF SnapshotsOf, Waiting
    <3>2. IsFiniteSet({}) /\ Cardinality({}) = 0
      BY Zenon, FS_EmptySet
    <3>3. Cardinality(SnapshotsOf(w)') <= Cardinality({}) + 1
      BY Zenon, <3>1, <3>2, CardGrow
    <3>4. ref[w] >= 1 /\ ref'[w] = ref[w]
      BY Zenon, <1>0, <1>2, <2>2 DEF Waiting
    <3>5. Cardinality(SnapshotsOf(w)') <= 0 + 1
      BY Zenon, <3>2, <3>3
    <3>6. Cardinality(SnapshotsOf(w)') <= ref[w]
      BY Zenon, <2>0, <3>4, <3>5, CountUp
    <3> QED
      BY Zenon, <3>4, <3>6
  <2>3. CASE w \notin shared /\ w \notin fresh
    <3>1. SnapshotsOf(w)' \subseteq SnapshotsOf(w)
      BY Zenon, <1>t, <1>0, <2>3 DEF SnapshotsOf
    <3>2. Cardinality(SnapshotsOf(w)') <= Cardinality(SnapshotsOf(w))
      BY Zenon, <2>0, <3>1, CardMono
    <3>3. Cardinality(SnapshotsOf(w)') <= ref[w]
      BY Zenon, <2>0, <3>2, CountUp
    <3>4. ref'[w] = ref[w]
      BY Zenon, <1>0, <2>3
    <3> QED
      BY Zenon, <3>3, <3>4
  <2> QED
    BY Zenon, <2>1, <2>2, <2>3
<1>6. \A e \in Epoch : \A w \in parts'[e] : w \in fresh \/ \E f \in Epoch : w \in parts[f]
  BY Zenon, <1>t, <1>0, <1>2
<1>7. /\ \A w \in Part : ref'[w] # ref[w] => \E f \in Epoch : w \in parts[f]
      /\ \A w \in Part : (\A f \in Epoch : w \notin parts[f]) /\ w \notin fresh
                           => \A f \in Epoch : w \notin parts'[f]
  BY Zenon, <1>t, <1>0, <1>2
<1>8. EpochFresh' /\ SnapshotBuilt'
  <2>1. en # 0 /\ en \in Nat
    BY Zenon, <1>t, <1>n, Numbers
  <2> QED
    BY SMTT(90), <1>t, <1>n, <1>0, <1>1, <2>1, Numbers DEF EpochFresh, SnapshotBuilt
<1> QED
  BY Zenon, <1>3, <1>4, <1>5, <1>6, <1>7, <1>8 DEF Counted

\* What the introductions have in common.
LEMMA IntroduceInv ==
    ASSUME IInv, NEW gone, NEW fresh \in SUBSET Part, NEW b, NEW p,
           Introduce(gone, fresh, b, p), TypeOK', RoundClean',
           UNCHANGED <<dir, removing, curPartID, session, status, out, closes, epoch>>,
           \A w \in fresh : /\ Waiting(w) /\ PartID(w) <= curPartID
                            /\ \/ Kind(w) = "mem" /\ w \in queued
                               \/ Kind(w) = "file" /\ Complete(PartID(w)),
           queued' \subseteq queued, queued' \cap fresh = {},
           \A q \in Loops : /\ InFlight(q)' \subseteq InFlight(q)
                            /\ \A i \in InFlight(q)' : <<"file", i>> \notin fresh
                            /\ Building(q)' = Building(q) /\ Flushing(q)' = Flushing(q)
    PROVE  IInv'
<1> USE DEF IInv
<1>0. status = "up"
  BY Zenon DEF Introduce, Running, TypeOK
<1>1. /\ Counted' /\ EpochFresh' /\ SnapshotBuilt'
      /\ \A e \in Epoch : \A w \in parts'[e] : w \in fresh \/ \E f \in Epoch : w \in parts[f]
      /\ \A w \in Part : ref'[w] # ref[w] => \E f \in Epoch : w \in parts[f]
      /\ \A w \in Part : (\A f \in Epoch : w \notin parts[f]) /\ w \notin fresh
                           => \A f \in Epoch : w \notin parts'[f]
  BY Zenon, IntroduceCounted
<1>2. /\ queued \subseteq Part /\ \A i \in ID : <<"file", i>> \in Part /\ <<"mem", i>> \in Part
      /\ \A i : PartID(<<"file", i>>) = i /\ Kind(<<"file", i>>) = "file"
      /\ \A i : PartID(<<"mem", i>>) = i /\ Kind(<<"mem", i>>) = "mem"
  BY Zenon DEF TypeOK, Part, PartID, Kind
<1>3. ASSUME NEW w \in Part, Waiting(w), w \notin fresh
      PROVE  Waiting(w)'
  BY Zenon, <1>1, <1>3 DEF Waiting
<1>4. \A i : Complete(i)' = Complete(i)
  BY Zenon DEF Complete
<1>5. FilesComplete'
  <2>1. ASSUME NEW e \in Epoch, NEW i \in ID, <<"file", i>> \in parts'[e]
        PROVE  Complete(i)'
    <3>1. CASE <<"file", i>> \in fresh
      BY Zenon, <1>2, <1>4, <3>1
    <3>2. CASE \E f \in Epoch : <<"file", i>> \in parts[f]
      BY Zenon, <1>4, <3>2 DEF FilesComplete
    <3> QED
      BY Zenon, <1>1, <2>1, <3>1, <3>2
  <2>2. \A w \in queued' : Waiting(w)'
    BY Zenon, <1>2, <1>3 DEF FilesComplete
  <2>3. \A i \in ID : <<"file", i>> \in queued' => Complete(i)'
    BY Zenon, <1>4 DEF FilesComplete
  <2>4. ASSUME NEW q \in Loops, NEW i \in InFlight(q)'
        PROVE  /\ Complete(i)' /\ Waiting(<<"file", i>>)' /\ <<"file", i>> \notin queued'
               /\ \A l \in Loops : i \in InFlight(l)' => l = q
    <3>1. i \in InFlight(q) /\ i \in ID /\ <<"file", i>> \notin fresh
      BY Zenon, OwnedIDs
    <3>2. /\ Complete(i) /\ Waiting(<<"file", i>>) /\ <<"file", i>> \notin queued
          /\ \A l \in Loops : i \in InFlight(l) => l = q
      BY Zenon, <3>1 DEF FilesComplete
    <3> QED
      BY Zenon, <1>2, <1>3, <1>4, <3>1, <3>2
  <2>5. \A i \in removing' : dir'[i] = "full"
    BY Zenon DEF FilesComplete
  <2> QED
    BY Zenon, <2>1, <2>2, <2>3, <2>4, <2>5 DEF FilesComplete
<1>6. BuildingOwned'
  <2> SUFFICES ASSUME NEW q \in Loops, NEW j \in Building(q)'
               PROVE  /\ dir'[j] = "partial"
                      /\ <<"mem", j>> \notin queued'
                      /\ \A e \in Epoch : <<"mem", j>> \notin parts'[e]
                      /\ \A l \in Loops : j \notin Flushing(l)' /\ (j \in Building(l)' => l = q)
                      /\ \A s \in Receivers : session'[s] # j
    BY Zenon DEF BuildingOwned
  <2>1. j \in Building(q) /\ j \in ID
    BY Zenon, OwnedIDs
  <2>2. /\ dir[j] = "partial"
        /\ <<"mem", j>> \notin queued
        /\ \A e \in Epoch : <<"mem", j>> \notin parts[e]
        /\ \A l \in Loops : j \notin Flushing(l) /\ (j \in Building(l) => l = q)
        /\ \A s \in Receivers : session[s] # j
    BY Zenon, <2>1 DEF BuildingOwned
  <2>3. \A e \in Epoch : <<"mem", j>> \notin parts'[e]
    BY Zenon, <1>1, <1>2, <2>1, <2>2
  <2> QED
    BY Zenon, <2>1, <2>2, <2>3
<1>7. IDsBelow'
  <2>1. \A e \in Epoch, w \in Part : w \in parts'[e] => PartID(w) <= curPartID
    BY Zenon, <1>1 DEF IDsBelow
  <2> QED
    BY Zenon, <2>1 DEF IDsBelow
<1> QED
  BY Zenon, <1>0, <1>1, <1>5, <1>6, <1>7 DEF DownEmpty

\* introducePart.
LEMMA IntroducePartInv ==
    ASSUME IInv, NEW w \in Part, IntroducePart(w)
    PROVE  IInv'
<1> USE DEF IInv
<1>0. /\ w \in queued /\ queued' = queued \ {w}
      /\ Introduce({}, {w}, Kind(w) = "file", "none")
      /\ UNCHANGED <<disk, dir, removable, removing, loops, pc, work, out, done, gc, epoch, history,
                     closes, status, curPartID, session>>
  BY Zenon DEF IntroducePart, disk, loops, history
<1>1. /\ Waiting(w) /\ PartID(w) <= curPartID
      /\ \/ Kind(w) = "mem" /\ w \in queued
         \/ Kind(w) = "file" /\ Complete(PartID(w))
  <2>1. \E i \in ID : w = <<"mem", i>> \/ w = <<"file", i>>
    BY DEF Part
  <2> QED
    BY <1>0, <2>1 DEF FilesComplete, IDsBelow, Kind, PartID
<1>2. /\ held' \in [Holder -> {0} \cup Epoch] /\ sref' \in [Epoch -> Nat]
      /\ parts' \in [Epoch -> SUBSET Part] /\ ref' \in [Part -> Nat]
  <2>1. {w} \in SUBSET Part /\ \A x \in {w} : Waiting(x)
    BY Zenon, <1>1
  <2> QED
    BY Zenon, <1>0, <2>1, IntroduceCounted
<1>3. TypeOK'
  BY Zenon, <1>0, <1>2 DEF TypeOK, Introduce, disk, loops, gc, history
<1>4. RoundClean'
  BY Zenon, <1>0 DEF RoundClean
<1>5. \A q \in Loops : \A i \in InFlight(q)' : <<"file", i>> \notin {w}
  BY <1>0, SameLoops DEF FilesComplete
<1> QED
  BY Zenon, <1>0, <1>1, <1>3, <1>4, <1>5, SameLoops, IntroduceInv

\* introduceFlushed, introduceMerged and introduceSync.
LEMMA IntroduceLoopInv ==
    ASSUME IInv, NEW p \in Loops,
           IntroduceMerged(p) \/ (p = "flusher" /\ IntroduceFlushed)
    PROVE  IInv'
<1> USE DEF IInv
<1>0. \E gone, b : \E J \in SUBSET ID :
        /\ Introduce(gone, {<<"file", i>> : i \in J}, b, p) /\ b \in BOOLEAN
        /\ J \subseteq out[p] /\ pc[p] \in {"send", "sendFlush"}
  <2>1. CASE IntroduceMerged(p)
    BY Zenon, <2>1 DEF IntroduceMerged, TypeOK
  <2>2. CASE p = "flusher" /\ IntroduceFlushed
    <3> DEFINE hit == {w \in Snapshot("table") : PartID(w) \in out["flusher"]}
               J == {PartID(w) : w \in hit}
    <3>1. J \subseteq out[p] /\ J \in SUBSET ID
      BY SMTT(90), <2>2 DEF TypeOK
    <3>2. {<<"file", PartID(w)>> : w \in hit} = {<<"file", i>> : i \in J}
      BY Zenon
    <3>3. Introduce(hit, {<<"file", PartID(w)>> : w \in hit}, TRUE, p) /\ pc[p] = "sendFlush"
      BY Zenon, <2>2 DEF IntroduceFlushed
    <3>4. Introduce(hit, {<<"file", i>> : i \in J}, TRUE, p)
      BY Zenon, <3>2, <3>3
    <3> QED
      BY Zenon, <3>1, <3>3, <3>4
  <2> QED
    BY Zenon, <2>1, <2>2
<1>1. PICK gone, b : \E J \in SUBSET ID :
        /\ Introduce(gone, {<<"file", i>> : i \in J}, b, p) /\ b \in BOOLEAN
        /\ J \subseteq out[p] /\ pc[p] \in {"send", "sendFlush"}
  BY Zenon, <1>0
<1>2. PICK J \in SUBSET ID :
        /\ Introduce(gone, {<<"file", i>> : i \in J}, b, p) /\ b \in BOOLEAN
        /\ J \subseteq out[p] /\ pc[p] \in {"send", "sendFlush"}
  BY Zenon, <1>1
<1> DEFINE fresh == {<<"file", i>> : i \in J}
<1>3. /\ pc' = [pc EXCEPT ![p] = "applied"] /\ removable' \in SUBSET Part
      /\ UNCHANGED <<disk, dir, removing, work, out, done, seen, gc, epoch, history, closes,
                     status, curPartID, queued, session>>
  <2>1. Snapshot("table") \subseteq Part
    BY Zenon, Numbers DEF TypeOK, Snapshot
  <2> QED
    BY Zenon, <2>1 DEF IntroduceMerged, IntroduceFlushed, TypeOK, disk, history
<1>4. fresh \in SUBSET Part /\ J \subseteq InFlight(p)
  BY <1>2 DEF Part, InFlight
<1>5. \A w \in fresh : /\ Waiting(w) /\ PartID(w) <= curPartID
                       /\ Kind(w) = "file" /\ Complete(PartID(w)) /\ w \notin queued
  <2>1. ASSUME NEW i \in J
        PROVE  /\ Waiting(<<"file", i>>) /\ i <= curPartID
               /\ Complete(i) /\ <<"file", i>> \notin queued
    BY Zenon, <1>2, <1>4 DEF FilesComplete, IDsBelow
  <2> QED
    BY <2>1 DEF PartID, Kind
<1>6. /\ held' \in [Holder -> {0} \cup Epoch] /\ sref' \in [Epoch -> Nat]
      /\ parts' \in [Epoch -> SUBSET Part] /\ ref' \in [Part -> Nat]
  BY Zenon, <1>2, <1>3, <1>4, <1>5, IntroduceCounted
<1>7. TypeOK'
  <2>1. ipc' = "replace" /\ persist' \in BOOLEAN /\ client' \in Loops
    BY Zenon, <1>2 DEF Introduce
  <2> QED
    BY Zenon, <1>3, <1>6, <2>1 DEF TypeOK, disk, gc, history
<1>8. RoundClean'
  BY Zenon, <1>3 DEF RoundClean, TypeOK
<1>9. \A q \in Loops : /\ InFlight(q)' = (IF q = p THEN {} ELSE InFlight(q))
                       /\ Building(q)' = Building(q) /\ Flushing(q)' = Flushing(q)
  BY Zenon, <1>2, <1>3 DEF InFlight, Building, Flushing, TypeOK
<1>10. ASSUME NEW q \in Loops, NEW i \in InFlight(q)'
       PROVE  <<"file", i>> \notin fresh
  <2>1. q # p /\ i \in InFlight(q)
    BY Zenon, <1>9
  <2>2. i \notin InFlight(p)
    BY Zenon, <2>1 DEF FilesComplete
  <2> QED
    BY Zenon, <1>4, <2>2
<1>11. queued' \subseteq queued /\ queued' \cap fresh = {}
  BY Zenon, <1>3, <1>5
<1> QED
  BY Zenon, <1>2, <1>3, <1>4, <1>5, <1>7, <1>8, <1>9, <1>10, <1>11, IntroduceInv

\* A crash forgets everything but the disk.
LEMMA CrashInv ==
    ASSUME IInv, Crash
    PROVE  IInv'
<1> USE DEF IInv
<1>0. /\ Forget /\ removing' = {} /\ crashes' = crashes + 1
      /\ UNCHANGED <<disk, dir, epoch, sent, durable, shipped, acked, closes>>
  BY Zenon DEF Crash, disk
<1>1. TypeOK'
  <2>1. curPartID' \in 0..MaxPart
    BY SMTT(90), <1>0, TSTableAssumption DEF Forget
  <2>2. /\ parts' \in [Epoch -> SUBSET Part] /\ sref' \in [Epoch -> Nat]
        /\ held' \in [Holder -> {0} \cup Epoch] /\ ref' \in [Part -> Nat]
        /\ session' \in [Receivers -> {0} \cup ID] /\ seen' \in [Loops -> Nat]
        /\ work' \in [Loops -> SUBSET ID] /\ out' \in [Loops -> SUBSET ID]
        /\ pc' \in [Loops -> {"idle"}]
    BY Zenon, <1>0 DEF Forget
  <2>3. crashes' \in Nat
    BY <1>0 DEF TypeOK
  <2> QED
    BY Zenon, <1>0, <2>1, <2>2, <2>3 DEF TypeOK, Forget, disk
<1>2. Counted'
  <2>1. \A e \in Epoch : Cardinality(HoldersOf(e)') <= sref'[e]
    <3>1. \A e \in Epoch : HoldersOf(e)' = {} /\ sref'[e] = 0
      BY <1>0, TSTableAssumption DEF Forget, HoldersOf, Epoch
    <3> QED
      BY <3>1, Finiteness, CardZero
  <2>2. \A w \in Part : Cardinality(SnapshotsOf(w)') <= ref'[w]
    <3>1. \A w \in Part : SnapshotsOf(w)' = {} /\ ref'[w] = 0
      BY Zenon, <1>0 DEF Forget, SnapshotsOf
    <3> QED
      BY <3>1, Finiteness, CardZero
  <2> QED
    BY Zenon, <2>1, <2>2 DEF Counted
<1>3. /\ \A h \in Holder : held'[h] = 0
      /\ \A e \in Epoch : parts'[e] = {}
      /\ \A p \in Loops : out'[p] = {} /\ pc'[p] = "idle" /\ work'[p] = {}
      /\ \A r \in Receivers : session'[r] = 0
      /\ queued' = {} /\ ipc' = "idle" /\ status' = "down" /\ curPartID' = 0
  BY Zenon, <1>0 DEF Forget
<1>4. \A p \in Loops : InFlight(p)' = {} /\ Building(p)' = {} /\ Flushing(p)' = {}
  BY Zenon, <1>3 DEF InFlight, Building, Flushing
<1>5. epoch' \in Nat /\ epoch' >= 1
  BY Zenon, <1>0, Numbers
<1> HIDE DEF IInv
<1>6. EpochFresh'
  BY <1>3, <1>5 DEF EpochFresh
<1>7. SnapshotBuilt' /\ RoundClean'
  BY Zenon, <1>3 DEF SnapshotBuilt, RoundClean
<1>8. DownEmpty'
  BY Zenon, <1>0 DEF Forget, DownEmpty
<1>9. FilesComplete'
  BY Zenon, <1>0, <1>3, <1>4 DEF FilesComplete
<1>10. BuildingOwned'
  BY Zenon, <1>4 DEF BuildingOwned
<1>11. IDsBelow'
  <2>1. 0 <= 0
    OBVIOUS
  <2> QED
    BY Zenon, <1>3, <1>4, <2>1 DEF IDsBelow
<1>12. status' # "closing" /\ closes' = 0
  <2>1. closes' = closes /\ closes = 0
    BY Zenon, <1>0 DEF IInv
  <2> QED
    BY Zenon, <1>3, <2>1
<1> QED
  BY Zenon, <1>1, <1>2, <1>6, <1>7, <1>8, <1>9, <1>10, <1>11, <1>12 DEF IInv

\* initTSTable without a manifest that can be read or without a complete part.
LEMMA InitEmptyInv ==
    ASSUME IInv, InitTSTableEmpty
    PROVE  IInv'
<1> USE DEF IInv
<1>0. /\ status = "down" /\ status' = "up" /\ dir' = [i \in ID |-> "none"]
      /\ epoch' = epoch + 1 /\ manifests' \in {manifests, {}} /\ durable' \in {durable, {}}
      /\ UNCHANGED <<rows, names, counts, parts, sref, held, ref, removing, pc, work, out, done,
                     gc, ipc, persist, client, sent, introduced, shipped, acked, crashes, closes,
                     curPartID, queued, session>>
  BY Zenon DEF InitTSTableEmpty, counts
<1>1. TypeOK'
  <2>1. seen' \in [Loops -> Nat]
    BY Zenon, Numbers DEF InitTSTableEmpty
  <2> QED
    BY <1>0, <2>1 DEF TypeOK, counts, gc
<1>2. Counted' /\ SnapshotBuilt' /\ RoundClean'
  BY Zenon, <1>0 DEF Counted, HoldersOf, SnapshotsOf, SnapshotBuilt, RoundClean
<1>3. EpochFresh'
  BY <1>0, Numbers DEF EpochFresh, DownEmpty
<1>4. /\ \A p \in Loops : InFlight(p)' = {} /\ Building(p)' = {} /\ Flushing(p)' = {}
      /\ \A p \in Loops : out'[p] = {}
      /\ \A e \in Epoch : parts'[e] = {}
      /\ queued' = {} /\ removing' = {} /\ \A r \in Receivers : session'[r] = 0
  BY Zenon, <1>0 DEF DownEmpty, InFlight, Building, Flushing
<1>5. FilesComplete' /\ BuildingOwned'
  BY Zenon, <1>4 DEF FilesComplete, BuildingOwned
<1>6. IDsBelow'
  BY Zenon, <1>0, <1>4, Numbers DEF IDsBelow
<1> QED
  BY Zenon, <1>0, <1>1, <1>2, <1>3, <1>5, <1>6 DEF DownEmpty

\* initTSTable with a manifest: the table gets one snapshot, of complete parts.
LEMMA LoadInv ==
    ASSUME IInv, NEW e \in Epoch, NEW bad \in SUBSET ID, LoadSnapshot(e, bad)
    PROVE  IInv'
<1> USE DEF IInv
<1>L. PICK load \in SUBSET ID :
        /\ load = {i \in names[e] : dir[i] = "full"} \ bad
  BY ZenonT(30) DEF TypeOK
<1>0. /\ status = "down" /\ status' = "up"
      /\ dir' = [i \in ID |-> IF i \in load THEN "full" ELSE "none"]
      /\ curPartID' \in load \cup {0} /\ \A i \in load : i <= curPartID'
      /\ liveEpoch' = e /\ epoch' = e + 1
      /\ seen' = [p \in Loops |-> IF p = "flusher" THEN e ELSE 0]
      /\ introduced' = Rows(load) /\ durable' \in {durable, durable \cap Rows(load)}
      /\ manifests' = {f \in manifests : f <= e}
      /\ UNCHANGED <<rows, pc, work, out, done, ipc, persist, client, sent,
                     shipped, acked, crashes, closes, queued, session, removing, removable>>
      /\ names' \in {names, [names EXCEPT ![e] = load]}
      /\ deletableEpochs' \in {deletableEpochs, {}, {e}}
  BY Zenon, <1>L DEF LoadSnapshot, counts
<1>1. \/ load = {} /\ UNCHANGED <<parts, sref, held, ref>>
      \/ /\ parts' = [parts EXCEPT ![e] = {"file"} \X load]
         /\ sref' = [sref EXCEPT ![e] = 1]
         /\ held' = [held EXCEPT !["table"] = e]
         /\ ref' = [w \in Part |-> IF w \in {"file"} \X load THEN 1 ELSE 0]
  BY Zenon, <1>L DEF LoadSnapshot, counts
<1>2. /\ parts = [f \in Epoch |-> {}] /\ held = [h \in Holder |-> 0]
      /\ sref = [f \in Epoch |-> 0] /\ ref = [w \in Part |-> 0]
      /\ queued = {} /\ session = [r \in Receivers |-> 0] /\ removing = {}
      /\ ipc = "idle" /\ pc = [p \in Loops |-> "idle"] /\ out = [p \in Loops |-> {}]
  BY Zenon, <1>0 DEF DownEmpty
<1>3. {"file"} \X load \subseteq Part /\ e \in Nat /\ e # 0 /\ 0 \notin Epoch
  BY TSTableAssumption DEF Part, Epoch
<1>4. TypeOK'
  <2>1. /\ parts' \in [Epoch -> SUBSET Part] /\ sref' \in [Epoch -> Nat]
        /\ held' \in [Holder -> {0} \cup Epoch] /\ ref' \in [Part -> Nat]
    BY <1>1, <1>3 DEF TypeOK
  <2>2. curPartID' \in 0..MaxPart
    <3>1. curPartID' \in ID \cup {0}
      BY Zenon, <1>0
    <3> QED
      BY <3>1, TSTableAssumption DEF ID
  <2>3. introduced' \in SUBSET Writes /\ durable' \in SUBSET Writes
    BY ZenonT(30), <1>0, RowsType DEF TypeOK
  <2>4. names' \in [Epoch -> SUBSET ID] /\ deletableEpochs' \in SUBSET Epoch
    BY <1>0 DEF TypeOK
  <2>5. dir' \in [ID -> {"none", "partial", "full"}] /\ seen' \in [Loops -> Nat]
        /\ epoch' \in Nat \ {0}
    BY <1>0, <1>3
  <2> QED
    BY ZenonT(30), <1>0, <2>1, <2>2, <2>3, <2>4, <2>5 DEF TypeOK
<1>5. Counted'
  <2>1. ASSUME NEW f \in Epoch
        PROVE  Cardinality(HoldersOf(f)') <= sref'[f]
    <3>1. CASE HoldersOf(f)' = {}
      <4>1. Cardinality(HoldersOf(f)') = 0 /\ sref'[f] \in Nat
        BY ZenonT(30), <1>4, <3>1, Finiteness, CardZero DEF TypeOK
      <4> QED
        BY SMTT(90), <4>1
    <3>2. CASE HoldersOf(f)' # {}
      <4>1. f = e /\ sref'[f] = 1 /\ HoldersOf(f)' \subseteq {} \cup {"table"}
        BY Zenon, <1>1, <1>2, <1>3, <3>2 DEF HoldersOf
      <4>2. IsFiniteSet({}) /\ Cardinality({}) = 0
        BY Zenon, FS_EmptySet
      <4>3. Cardinality(HoldersOf(f)') <= Cardinality({}) + 1
        BY Zenon, <4>1, <4>2, CardGrow
      <4> QED
        BY <4>1, <4>2, <4>3
    <3> QED
      BY Zenon, <3>1, <3>2
  <2>2. ASSUME NEW w \in Part
        PROVE  Cardinality(SnapshotsOf(w)') <= ref'[w]
    <3>1. CASE SnapshotsOf(w)' = {}
      <4>1. Cardinality(SnapshotsOf(w)') = 0 /\ ref'[w] \in Nat
        BY ZenonT(30), <1>4, <3>1, Finiteness, CardZero DEF TypeOK
      <4> QED
        BY SMTT(90), <4>1
    <3>2. CASE SnapshotsOf(w)' # {}
      <4>1. SnapshotsOf(w)' \subseteq {} \cup {e} /\ ref'[w] = 1
        BY <1>1, <1>2, <3>2 DEF SnapshotsOf
      <4>2. IsFiniteSet({}) /\ Cardinality({}) = 0
        BY Zenon, FS_EmptySet
      <4>3. Cardinality(SnapshotsOf(w)') <= Cardinality({}) + 1
        BY Zenon, <4>1, <4>2, CardGrow
      <4> QED
        BY <4>1, <4>2, <4>3
    <3> QED
      BY Zenon, <3>1, <3>2
  <2> QED
    BY Zenon, <2>1, <2>2 DEF Counted
<1>6. EpochFresh'
  BY SMTT(90), <1>0, <1>1, <1>2, <1>3 DEF EpochFresh
<1>7. SnapshotBuilt' /\ RoundClean'
  BY Zenon, <1>0, <1>2 DEF SnapshotBuilt, RoundClean
<1>8. /\ \A p \in Loops : InFlight(p)' = {} /\ Building(p)' = {} /\ Flushing(p)' = {}
      /\ \A p \in Loops : out'[p] = {}
      /\ queued' = {} /\ removing' = {} /\ \A r \in Receivers : session'[r] = 0
  BY Zenon, <1>0, <1>2 DEF InFlight, Building, Flushing
<1>9. \A f \in Epoch : parts'[f] \subseteq {"file"} \X load
  BY Zenon, <1>1, <1>2
<1>10. FilesComplete' /\ BuildingOwned'
  <2>1. \A f \in Epoch, i \in ID : <<"file", i>> \in parts'[f] => Complete(i)'
    <3>1. \A f \in Epoch, i \in ID : <<"file", i>> \in parts'[f] => i \in load
      BY Zenon, <1>9
    <3> QED
      BY ZenonT(30), <1>0, <1>8, <3>1 DEF Complete
  <2> QED
    BY Zenon, <1>8, <2>1 DEF FilesComplete, BuildingOwned
<1>11. IDsBelow'
  <2>1. \A f \in Epoch, w \in Part : w \in parts'[f] => PartID(w) <= curPartID'
    BY Zenon, <1>0, <1>9 DEF PartID
  <2>2. curPartID' \in Nat /\ \A i \in ID : i \in Nat
    BY <1>0, Numbers
  <2>3. \A i \in ID : i > curPartID' => dir'[i] = "none"
    BY <1>0, <2>2
  <2>4. 0 <= curPartID'
    BY <2>2
  <2> QED
    BY Zenon, <1>8, <2>1, <2>3, <2>4 DEF IDsBelow
<1> QED
  BY Zenon, <1>0, <1>4, <1>5, <1>6, <1>7, <1>10, <1>11 DEF DownEmpty

-----------------------------------------------------------------------------
(* Releasing and replacing a snapshot *)

\* A query releases its snapshot with decRef.
LEMMA ReleaseReaderInv ==
    ASSUME IInv, NEW r \in Readers, ReleaseReader(r)
    PROVE  IInv'
<1> USE DEF IInv
<1>0. /\ UNCHANGED <<dir, queued, session, curPartID, status, pc, work, out, done, closes,
                     epoch, ipc>>
      /\ r \in Holder /\ DecRef(held[r]) /\ held' = [held EXCEPT ![r] = 0]
      /\ held[r] # 0 /\ r \notin {"table", "introducer", "next"}
  BY Zenon, Numbers, TSTableAssumption DEF ReleaseReader, loops, intro, history, disk
<1>1. status = "up"
  BY <1>0 DEF DownEmpty, TypeOK
<1>2. Counted' /\ held' \in [Holder -> {0} \cup Epoch]
  BY Zenon, <1>0, ReleaseCounted
<1>3. TypeOK'
  <2>1. /\ sref' \in [Epoch -> Nat] /\ ref' \in [Part -> Nat]
        /\ parts' \in [Epoch -> SUBSET Part] /\ removing' \in SUBSET ID
    BY Zenon, <1>0, DecRefParts
  <2> QED
    BY Zenon, <1>0, <1>2, <2>1 DEF TypeOK, ReleaseReader, disk, gc, intro, history, loops
<1>4. EpochFresh' /\ SnapshotBuilt'
  BY <1>0, Numbers DEF EpochFresh, SnapshotBuilt, TypeOK
<1>5. RoundClean'
  BY Zenon, <1>0 DEF RoundClean
<1>6. \A p \in Loops : /\ InFlight(p)' \subseteq InFlight(p)
                       /\ Building(p)' \subseteq Building(p)
                       /\ Flushing(p)' \subseteq Flushing(p)
                       /\ out'[p] \subseteq out[p]
  BY Zenon, <1>0 DEF InFlight, Building, Flushing
<1>7. \A q \in Receivers : session'[q] \in {0, session[q]}
  BY Zenon, <1>0
<1> QED
  BY Zenon, <1>0, <1>1, <1>2, <1>3, <1>4, <1>5, <1>6, <1>7, DecRefInv

\* The end of a round of a loop.
LEMMA EndRoundInv ==
    ASSUME IInv, NEW p \in Loops, FailRound(p) \/ Release(p)
    PROVE  IInv'
<1> USE DEF IInv
<1>0. /\ UNCHANGED <<dir, queued, session, curPartID, status, closes, epoch, ipc>>
      /\ p \in Holder /\ DecRef(held[p]) /\ held' = [held EXCEPT ![p] = 0]
      /\ p \notin {"table", "introducer", "next"} /\ status = "up"
      /\ pc' = [pc EXCEPT ![p] = "idle"] /\ out' = [out EXCEPT ![p] = {}]
      /\ work' = [work EXCEPT ![p] = {}]
      /\ done' = (IF p = "flusher" THEN {} ELSE done)
  BY Zenon, Numbers, TSTableAssumption
     DEF FailRound, Release, EndRound, Running, TypeOK, intro, history, disk
<1>2. Counted' /\ held' \in [Holder -> {0} \cup Epoch]
  BY Zenon, <1>0, ReleaseCounted
<1>3. TypeOK'
  <2>1. /\ sref' \in [Epoch -> Nat] /\ ref' \in [Part -> Nat]
        /\ parts' \in [Epoch -> SUBSET Part] /\ removing' \in SUBSET ID
    BY Zenon, <1>0, DecRefParts
  <2>2. seen' \in [Loops -> Nat]
    BY Zenon, <1>0, Numbers DEF TypeOK, FailRound, Release, EndRound
  <2>3. UNCHANGED <<disk, removable, gc, intro, history, status, curPartID, queued, session>>
    BY Zenon DEF FailRound, Release
  <2> QED
    BY Zenon, <1>0, <1>2, <2>1, <2>2, <2>3 DEF TypeOK, disk, gc, intro, history
<1>4. EpochFresh' /\ SnapshotBuilt'
  BY <1>0, Numbers DEF EpochFresh, SnapshotBuilt, TypeOK
<1>5. RoundClean'
  BY Zenon, <1>0 DEF RoundClean, TypeOK
<1>6. \A q \in Loops : /\ InFlight(q)' \subseteq InFlight(q)
                       /\ Building(q)' \subseteq Building(q)
                       /\ Flushing(q)' \subseteq Flushing(q)
                       /\ out'[q] \subseteq out[q]
  BY Zenon, <1>0 DEF InFlight, Building, Flushing, TypeOK
<1>7. \A r \in Receivers : session'[r] \in {0, session[r]}
  BY Zenon, <1>0
<1>8. UNCHANGED <<dir, queued, curPartID, status, closes>>
  BY Zenon, <1>0
<1> HIDE DEF IInv
<1> QED
  BY Zenon, <1>0, <1>2, <1>3, <1>4, <1>5, <1>6, <1>7, <1>8, DecRefInv

\* The introducer moves the table to the snapshot it built.
LEMMA ReplaceInv ==
    ASSUME IInv, ReplaceSnapshot
    PROVE  IInv'
<1> USE DEF IInv
<1>0. /\ UNCHANGED <<dir, queued, session, curPartID, status, pc, work, out, done, closes, epoch>>
      /\ DecRef(held["table"]) /\ status = "up" /\ "table" \in Holder /\ "next" \in Holder
      /\ held' = [held EXCEPT !["table"] = held["next"], !["next"] = 0]
      /\ ipc = "replace" /\ ipc' \in {"persist", "applied"}
  BY Zenon, Numbers DEF ReplaceSnapshot, Running, TypeOK, loops, disk
<1>2. Counted' /\ held' \in [Holder -> {0} \cup Epoch]
  BY Zenon, <1>0, ReplaceCounted
<1>3. TypeOK'
  <2>1. /\ sref' \in [Epoch -> Nat] /\ ref' \in [Part -> Nat]
        /\ parts' \in [Epoch -> SUBSET Part] /\ removing' \in SUBSET ID
    BY Zenon, <1>0, DecRefParts
  <2>2. {PartID(w) : w \in Snapshot("next")} \in SUBSET ID
    BY <1>0, Numbers DEF TypeOK, Snapshot
  <2>3. introduced' \in SUBSET Writes
    BY Zenon, <2>2, RowsType DEF ReplaceSnapshot, TypeOK
  <2>4. /\ UNCHANGED <<disk, removable, loops, gc, persist, client, epoch, sent, durable,
                   shipped, acked, crashes, closes, status, curPartID, queued, session>>
    BY Zenon DEF ReplaceSnapshot
  <2> QED
    BY Zenon, <1>0, <1>2, <2>1, <2>3, <2>4 DEF TypeOK, disk, gc, loops
<1>4. EpochFresh' /\ SnapshotBuilt'
  BY <1>0, Numbers DEF EpochFresh, SnapshotBuilt, TypeOK
<1>5. RoundClean'
  BY Zenon, <1>0 DEF RoundClean
<1>6. \A q \in Loops : /\ InFlight(q)' \subseteq InFlight(q)
                       /\ Building(q)' \subseteq Building(q)
                       /\ Flushing(q)' \subseteq Flushing(q)
                       /\ out'[q] \subseteq out[q]
  BY Zenon, <1>0 DEF InFlight, Building, Flushing
<1>7. \A r \in Receivers : session'[r] \in {0, session[r]}
  BY Zenon, <1>0
<1>8. UNCHANGED <<dir, queued, curPartID, status, closes>>
  BY Zenon, <1>0
<1> HIDE DEF IInv
<1> QED
  BY Zenon, <1>0, <1>2, <1>3, <1>4, <1>5, <1>6, <1>7, <1>8, DecRefInv

\* The introducer signals the waiting loop or session and drops cur.
LEMMA AppliedInv ==
    ASSUME IInv, Applied
    PROVE  IInv'
<1> USE DEF IInv
<1> DEFINE finished == {r \in Receivers : session[r] # 0 /\
                                          <<"file", session[r]>> \in parts[held["table"]]}
<1>0. /\ UNCHANGED <<dir, queued, curPartID, status, work, out, closes>>
      /\ DecRef(held["introducer"]) /\ status = "up" /\ "introducer" \in Holder
      /\ held' = [held EXCEPT !["introducer"] = 0]
      /\ session' = [r \in Receivers |-> IF r \in finished THEN 0 ELSE session[r]]
      /\ acked' = acked \cup Rows({session[r] : r \in finished})
      /\ done' = (IF client = "flusher" THEN done \cup work["flusher"] ELSE done)
      /\ pc' = [p \in Loops |->
                  IF p # client THEN pc[p]
                  ELSE IF p = "flusher" /\ work[p] # {} THEN "ready" ELSE "done"]
      /\ \/ ipc' = "idle" /\ epoch' = epoch + 1
         \/ ipc' = "clean" /\ epoch' = epoch
      /\ UNCHANGED <<disk, removable, work, out, seen, gc, persist, client, sent,
                     introduced, durable, shipped, crashes, closes, status, curPartID,
                     queued>>
  BY Zenon, Numbers DEF Applied, Running, TypeOK, disk
<1>2. Counted' /\ held' \in [Holder -> {0} \cup Epoch]
  BY Zenon, <1>0, ReleaseCounted
<1>3. TypeOK'
  <2>1. /\ sref' \in [Epoch -> Nat] /\ ref' \in [Part -> Nat]
        /\ parts' \in [Epoch -> SUBSET Part] /\ removing' \in SUBSET ID
    BY Zenon, <1>0, DecRefParts
  <2>2. {session[r] : r \in finished} \in SUBSET ID
    <3>1. \A r \in finished : session[r] \in ID
      BY Zenon DEF TypeOK
    <3> QED
      BY Zenon, <3>1
  <2>3. acked' \in SUBSET Writes
    BY Zenon, <1>0, <2>2, RowsType DEF TypeOK
  <2>4. done' \in SUBSET ID /\ session' \in [Receivers -> {0} \cup ID]
    BY Zenon, <1>0 DEF TypeOK
  <2>5. epoch' \in Nat \ {0} /\ ipc' \in {"idle", "clean"}
    BY SMTT(90), <1>0, Numbers
  <2>6. pc' \in [Loops -> {"idle", "ready", "merge", "flush", "send", "sendFlush",
                           "applied", "done"}]
    BY Zenon, <1>0 DEF TypeOK
  <2> QED
    BY ZenonT(30), <1>0, <1>2, <2>1, <2>3, <2>4, <2>5, <2>6 DEF TypeOK, disk, gc
<1>4. EpochFresh' /\ SnapshotBuilt'
  <2>1. \A h \in Holder : held[h] \in Nat /\ held'[h] \in {0, held[h]}
    <3>1. \A h \in Holder : held[h] \in Nat
      BY Zenon, Numbers
    <3>2. held \in [Holder -> {0} \cup Epoch]
      BY Zenon DEF TypeOK
    <3>3. held' = [held EXCEPT !["introducer"] = 0]
      BY Zenon, <1>0
    <3> HIDE DEF IInv
    <3> QED
      BY Zenon, <3>1, <3>2, <3>3
  <2>2. \A h \in Holder : held[h] <= epoch
    BY Zenon DEF EpochFresh
  <2>3. /\ epoch \in Nat \ {0}
        /\ \/ ipc' = "idle" /\ epoch' = epoch + 1
           \/ ipc' = "clean" /\ epoch' = epoch
    <3>1. epoch \in Nat \ {0}
      BY Zenon DEF TypeOK
    <3>2. \/ ipc' = "idle" /\ epoch' = epoch + 1
          \/ ipc' = "clean" /\ epoch' = epoch
      BY Zenon, <1>0
    <3> QED
      BY Zenon, <3>1, <3>2
  <2> HIDE DEF IInv
  <2>4. EpochFresh'
    <3>1. ASSUME NEW h \in Holder
          PROVE  held'[h] <= epoch' /\ (ipc' = "idle" => held'[h] < epoch')
      <4>1. held[h] \in Nat /\ held'[h] \in {0, held[h]} /\ held[h] <= epoch
        BY Zenon, <2>1, <2>2
      <4> QED
        BY <2>3, <4>1
    <3> QED
      BY Zenon, <3>1 DEF EpochFresh
  <2>5. SnapshotBuilt'
    BY Zenon, <2>3 DEF SnapshotBuilt
  <2> QED
    BY Zenon, <2>4, <2>5
<1>5. RoundClean'
  BY Zenon, <1>0 DEF RoundClean, TypeOK
<1>6. \A q \in Loops : /\ InFlight(q)' \subseteq InFlight(q)
                       /\ Building(q)' \subseteq Building(q)
                       /\ Flushing(q)' \subseteq Flushing(q)
                       /\ out'[q] \subseteq out[q]
  BY Zenon, <1>0 DEF InFlight, Building, Flushing, TypeOK
<1>7. \A r \in Receivers : session'[r] \in {0, session[r]}
  BY Zenon, <1>0 DEF TypeOK
<1>8. UNCHANGED <<dir, queued, curPartID, status, closes>>
  BY Zenon, <1>0
<1> HIDE DEF IInv
<1> QED
  BY Zenon, <1>0, <1>2, <1>3, <1>4, <1>5, <1>6, <1>7, <1>8, DecRefInv

-----------------------------------------------------------------------------
(* Initial states, all steps, and what follows *)

\* A new table satisfies the invariant.
LEMMA InitInv == Init => IInv
<1> SUFFICES ASSUME Init
             PROVE  IInv
  BY Zenon
<1>1. TypeOK
  <2>1. curPartID \in 0..MaxPart
    BY SMTT(90), TSTableAssumption DEF Init
  <2>2. /\ parts \in [Epoch -> SUBSET Part] /\ sref \in [Epoch -> Nat]
        /\ held \in [Holder -> {0} \cup Epoch] /\ ref \in [Part -> Nat]
        /\ session \in [Receivers -> {0} \cup ID] /\ seen \in [Loops -> Nat]
        /\ work \in [Loops -> SUBSET ID] /\ out \in [Loops -> SUBSET ID]
        /\ names \in [Epoch -> SUBSET ID] /\ rows \in [ID -> SUBSET Writes]
    BY Zenon DEF Init
  <2>3. /\ pc \in [Loops -> {"idle", "ready", "merge", "flush", "send", "sendFlush",
                             "applied", "done"}]
        /\ dir \in [ID -> {"none", "partial", "full"}]
    BY Zenon DEF Init
  <2>4. /\ manifests \in SUBSET Epoch /\ removing \in SUBSET ID /\ removable \in SUBSET Part
        /\ deletableEpochs \in SUBSET Epoch /\ queued \in SUBSET Part /\ done \in SUBSET ID
        /\ sent \in SUBSET Writes /\ introduced \in SUBSET Writes /\ durable \in SUBSET Writes
        /\ shipped \in SUBSET Writes /\ acked \in SUBSET Writes
    BY Zenon DEF Init
  <2>5. /\ status \in {"up", "closing", "down"} /\ epoch \in Nat \ {0}
        /\ liveEpoch \in {0} \cup Epoch /\ client \in Loops \cup {"none"}
        /\ ipc \in {"idle", "replace", "persist", "applied", "clean", "exited"}
        /\ crashes \in Nat /\ closes \in Nat
    BY DEF Init
  <2>6. persist \in BOOLEAN
    BY Zenon DEF Init
  <2> QED
    BY ZenonT(30), <2>1, <2>2, <2>3, <2>4, <2>5, <2>6 DEF TypeOK
<1>2. Counted
  <2>1. \A e \in Epoch : HoldersOf(e) = {} /\ sref[e] = 0
    BY TSTableAssumption DEF Init, HoldersOf, Epoch
  <2>2. \A w \in Part : SnapshotsOf(w) = {} /\ ref[w] = 0
    BY Zenon DEF Init, SnapshotsOf
  <2>3. \A e \in Epoch : Cardinality(HoldersOf(e)) <= sref[e]
    BY <2>1, Finiteness, CardZero
  <2>4. \A w \in Part : Cardinality(SnapshotsOf(w)) <= ref[w]
    BY <2>2, Finiteness, CardZero
  <2> QED
    BY Zenon, <2>3, <2>4 DEF Counted
<1>3. \A p \in Loops : InFlight(p) = {} /\ Building(p) = {} /\ Flushing(p) = {}
  BY Zenon DEF Init, InFlight, Building, Flushing
<1>4. FilesComplete /\ BuildingOwned
  BY Zenon, <1>3 DEF Init, FilesComplete, BuildingOwned
<1>5. IDsBelow
  BY <1>3 DEF Init, IDsBelow
<1> QED
  BY <1>1, <1>2, <1>4, <1>5
     DEF Init, IInv, EpochFresh, DownEmpty, RoundClean, SnapshotBuilt

\* Every step of the table preserves the invariant.
LEMMA NextInv ==
    ASSUME MaxClose = 0, IInv, [Next]_vars
    PROVE  IInv'
<1>1. CASE \E w \in Part : IntroducePart(w)
  BY Zenon, <1>1, IntroducePartInv
<1>2. CASE IntroduceFlushed
  <2>1. "flusher" \in Loops
    BY Zenon, <1>2 DEF IntroduceFlushed
  <2> QED
    BY Zenon, <1>2, <2>1, IntroduceLoopInv
<1>3. CASE \E p \in Loops : IntroduceMerged(p)
  BY Zenon, <1>3, IntroduceLoopInv
<1>4. CASE ReplaceSnapshot
  BY Zenon, <1>4, ReplaceInv
<1>5. CASE PersistSnapshot \/ Clean
  BY Zenon, <1>5, PersistInv
<1>6. CASE Applied
  BY Zenon, <1>6, AppliedInv
<1>7. CASE \E p \in Loops : TakeSnapshot(p)
  BY Zenon, <1>7, AcquireInv
<1>8. CASE \E p \in Loops : \E G \in SUBSET ID : StartMerge(p, G)
  BY Zenon, <1>8, StartMergeInv
<1>9. CASE \E p \in Loops : FinishMerge(p)
  BY Zenon, <1>9, FinishMergeInv
<1>10. CASE \E p \in Loops : FailRound(p) \/ Release(p)
  BY Zenon, <1>10, EndRoundInv
<1>11. CASE StartFlush \/ SyncSnapshot
  BY Zenon, <1>11, StartFlushInv
<1>12. CASE \E i \in ID : MustFlush(i)
  BY Zenon, <1>12, MustFlushInv
<1>13. CASE \E i \in ID : MustFlushDone(i)
  BY Zenon, <1>13, FlushDoneInv
<1>14. CASE \E w \in Writes : MustAddMemPart(w)
  BY Zenon, <1>14, AddMemInv
<1>15. CASE \E r \in Receivers, w \in Writes : CreatePartHandler(r, w)
  BY Zenon, <1>15, CreatePartInv
<1>16. CASE \E r \in Receivers : FinishSync(r)
  BY Zenon, <1>16, FinishSyncInv
<1>17. CASE \E r \in Receivers : AbortSync(r)
  BY Zenon, <1>17, AbortSyncInv
<1>18. CASE \E r \in Readers : Acquire(r)
  BY Zenon, <1>18, AcquireInv
<1>19. CASE \E r \in Readers : ReleaseReader(r)
  BY Zenon, <1>19, ReleaseReaderInv
<1>20. CASE \E i \in ID : MustRMAll(i)
  BY Zenon, <1>20, RemoveInv
<1>21. CASE Crash
  BY Zenon, <1>21, CrashInv
<1>22. CASE InitTSTableEmpty
  BY Zenon, <1>22, InitEmptyInv
<1>23. CASE \E e \in Epoch, bad \in SUBSET ID : LoadSnapshot(e, bad)
  BY Zenon, <1>23, LoadInv
<1>24. /\ ~ DrainExit /\ ~ CloseTable /\ ~ StartClose
       /\ \A w \in Part : ~ DropQueued(w)
       /\ \A p \in Loops : ~ Abandon(p)
  BY DEF IInv, DrainExit, CloseTable, StartClose, DropQueued, Abandon
<1>25. CASE UNCHANGED vars
  <2>1. UNCHANGED <<dir, rows, manifests, names, removing, status, curPartID, epoch, parts, sref,
                    held, ref, removable, liveEpoch, deletableEpochs, queued, session, ipc,
                    persist, client, pc, work, out, done, seen, sent, introduced, durable,
                    shipped, acked, crashes, closes>>
    BY Zenon, <1>25 DEF vars, disk, counts, loops, gc, intro, history
  <2>2. TypeOK' /\ Counted'
    BY Zenon, <2>1 DEF IInv, TypeOK, Counted, HoldersOf, SnapshotsOf
  <2>3. EpochFresh' /\ RoundClean' /\ SnapshotBuilt' /\ DownEmpty' /\ status' # "closing"
        /\ closes' = 0
    BY ZenonT(30), <2>1 DEF IInv, EpochFresh, RoundClean, SnapshotBuilt, DownEmpty
  <2>4. \A p \in Loops : /\ InFlight(p)' = InFlight(p) /\ Building(p)' = Building(p)
                         /\ Flushing(p)' = Flushing(p)
    BY Zenon, <2>1, SameLoops
  <2>5. \A p \in Loops : \A i \in Building(p) : i # 0
    BY Zenon, OwnedIDs, Numbers DEF IInv
  <2>6. FilesComplete'
    BY Zenon, <2>1, <2>4, FilesFrame DEF IInv
  <2>7. BuildingOwned'
    BY Zenon, <2>1, <2>4, <2>5, BuildingFrame DEF IInv
  <2>8. IDsBelow'
    BY Zenon, <2>1, <2>4 DEF IInv, IDsBelow
  <2> QED
    BY Zenon, <2>2, <2>3, <2>6, <2>7, <2>8 DEF IInv
<1> QED
  BY SMTT(90), <1>1, <1>2, <1>3, <1>4, <1>5, <1>6, <1>7, <1>8, <1>9, <1>10, <1>11, <1>12, <1>13,
     <1>14, <1>15, <1>16, <1>17, <1>18, <1>19, <1>20, <1>21, <1>22, <1>23, <1>24, <1>25
     DEF Next, Introducer, LoopStep, Flush

\* The invariant holds in every reachable state.
THEOREM Invariance == MaxClose = 0 => (Spec => []IInv)
<1> SUFFICES ASSUME MaxClose = 0
             PROVE  Spec => []IInv
  BY Zenon
<1>1. Init => IInv
  BY Zenon, InitInv
<1>2. IInv /\ [Next]_vars => IInv'
  BY Zenon, NextInv
<1> QED
  BY <1>1, <1>2, PTL DEF Spec

\* Every variable stays in its range: no reference count of a snapshot or of a
\* part is ever decremented below zero by the loops, the readers, the
\* introducer and the recovery.
THEOREM TypeCorrect == MaxClose = 0 => (Spec => []TypeOK)
<1>1. IInv => TypeOK
  BY Zenon DEF IInv
<1> QED
  BY <1>1, Invariance, PTL

\* Whatever is flushed, merged, synced or removed meanwhile, a snapshot that is
\* held keeps all its parts, with open wrappers and complete directories that
\* no removal goroutine is about to delete.
THEOREM HeldPartsStayUsable == MaxClose = 0 => (Spec => []HeldPartsUsable)
<1>1. IInv => HeldPartsUsable
  <2> SUFFICES ASSUME IInv, NEW h \in Holder, held[h] # 0
               PROVE  /\ sref[held[h]] > 0
                      /\ \A w \in parts[held[h]] :
                           /\ ref[w] > 0
                           /\ Kind(w) = "file" =>
                                dir[PartID(w)] = "full" /\ PartID(w) \notin removing
    BY Zenon DEF HeldPartsUsable
  <2>1. held[h] \in Epoch /\ sref[held[h]] >= 1 /\ sref[held[h]] \in Nat
    BY Zenon, Positive DEF IInv, TypeOK
  <2>2. ASSUME NEW w \in parts[held[h]]
        PROVE  /\ ref[w] > 0
               /\ Kind(w) = "file" => dir[PartID(w)] = "full" /\ PartID(w) \notin removing
    <3>1. w \in Part /\ ref[w] \in Nat
      BY Zenon, <2>1 DEF IInv, TypeOK
    <3>2. ref[w] >= 1
      BY Zenon, <2>1, <3>1, Positive DEF IInv
    <3>3. ASSUME Kind(w) = "file"
          PROVE  dir[PartID(w)] = "full" /\ PartID(w) \notin removing
      <4>1. PartID(w) \in ID /\ w = <<"file", PartID(w)>>
        BY <3>1, <3>3 DEF Part, Kind, PartID
      <4>2. Complete(PartID(w))
        BY Zenon, <2>1, <4>1 DEF IInv, FilesComplete
      <4> QED
        BY Zenon, <4>2 DEF Complete
    <3> QED
      BY <3>1, <3>2, <3>3
  <2> QED
    BY SMTT(90), <2>1, <2>2
<1> QED
  BY <1>1, Invariance, PTL

\* An identifier that a merge or a sync session is about to take has no
\* directory, also after any number of crashes and recoveries.
THEOREM NewIdentifiersFree == MaxClose = 0 => (Spec => []NoDirCollision)
<1>1. IInv => NoDirCollision
  BY Zenon DEF IInv, IDsBelow, NoDirCollision, Running
<1> QED
  BY <1>1, Invariance, PTL

-----------------------------------------------------------------------------
(* Snapshots across a step *)

\* The identifiers of some parts, and of the file parts that a holder holds.
IDs(S) == {PartID(w) : w \in S}
Files(h) == FileIDs(Snapshot(h))

\* The snapshot of holder h stays what it is.
SameSnapshot(h) ==
    /\ held'[h] = held[h]
    /\ held[h] # 0 => parts'[held[h]] = parts[held[h]]

\* decRef by one holder leaves the snapshots of the others alone.
LEMMA OthersKept ==
    ASSUME TypeOK, Counted, NEW g \in Holder, NEW h \in Holder, g # h,
           DecRef(held[g]), held[h] # 0
    PROVE  parts'[held[h]] = parts[held[h]]
<1>1. held[h] \in Epoch /\ sref[held[h]] \in Nat /\ parts \in [Epoch -> SUBSET Part]
  BY Zenon DEF TypeOK
<1>2. CASE held[g] = held[h]
  <2>1. g \in HoldersOf(held[h]) /\ h \in HoldersOf(held[h])
    BY Zenon, <1>2 DEF HoldersOf
  <2>2. Cardinality(HoldersOf(held[h])) >= 2 /\ Cardinality(HoldersOf(held[h])) \in Nat
    BY Zenon, <2>1, Finiteness, CardZero
  <2>3. sref[held[g]] # 1
    BY <1>1, <1>2, <2>2 DEF Counted
  <2> QED
    BY Zenon, <2>3 DEF DecRef
<1>3. CASE held[g] # held[h]
  BY Zenon, <1>1, <1>3 DEF DecRef
<1> QED
  BY Zenon, <1>2, <1>3

\* The parts of a held snapshot have identifiers up to curPartID, and its file
\* parts are complete.
LEMMA HeldParts ==
    ASSUME IInv, NEW h \in Holder
    PROVE  /\ Snapshot(h) \in SUBSET Part
           /\ \A i \in IDs(Snapshot(h)) : i \in ID /\ i <= curPartID
           /\ Files(h) \subseteq IDs(Snapshot(h))
           /\ \A i \in Files(h) : i \in ID /\ i <= curPartID /\ dir[i] = "full"
<1>1. CASE held[h] = 0
  BY Zenon, <1>1 DEF Snapshot, IDs, Files, FileIDs
<1>2. CASE held[h] # 0
  <2>1. held[h] \in Epoch /\ parts[held[h]] \in SUBSET Part
    BY Zenon, <1>2 DEF IInv, TypeOK
  <2>2. Snapshot(h) = parts[held[h]]
    BY Zenon, <1>2 DEF Snapshot
  <2>3. \A w \in parts[held[h]] : PartID(w) \in ID /\ PartID(w) <= curPartID
    BY Zenon, <2>1, Numbers DEF IInv, IDsBelow
  <2>4. \A i \in ID : <<"file", i>> \in parts[held[h]] => dir[i] = "full"
    BY Zenon, <2>1 DEF IInv, FilesComplete, Complete
  <2>5. \A i \in Files(h) : i \in ID /\ <<"file", i>> \in parts[held[h]]
    BY Zenon, <2>2 DEF Files, FileIDs
  <2>6. \A i : PartID(<<"file", i>>) = i
    BY Zenon DEF PartID
  <2>7. \A i \in IDs(Snapshot(h)) : i \in ID /\ i <= curPartID
    BY Zenon, <2>2, <2>3 DEF IDs
  <2>8. Files(h) \subseteq IDs(Snapshot(h))
    <3>1. ASSUME NEW i \in Files(h)
          PROVE  i \in IDs(Snapshot(h))
      <4>1. <<"file", i>> \in Snapshot(h) /\ PartID(<<"file", i>>) = i
        BY Zenon, <2>2, <2>5, <2>6
      <4> QED
        BY Zenon, <4>1 DEF IDs
    <3> QED
      BY Zenon, <3>1
  <2> QED
    BY Zenon, <2>1, <2>2, <2>4, <2>5, <2>7, <2>8
<1> QED
  BY Zenon, <1>1, <1>2

\* A snapshot that stays has the same parts.
LEMMA SameParts ==
    ASSUME NEW h, SameSnapshot(h)
    PROVE  Snapshot(h)' = Snapshot(h) /\ Files(h)' = Files(h)
<1>1. Snapshot(h)' = Snapshot(h)
  BY Zenon DEF SameSnapshot, Snapshot
<1> QED
  BY Zenon, <1>1 DEF Files, FileIDs

\* What every introduction does to the snapshots.
LEMMA IntroduceBuilds ==
    ASSUME IInv, NEW gone, NEW fresh, NEW m, NEW p, Introduce(gone, fresh, m, p)
    PROVE  /\ status = "up" /\ ipc = "idle" /\ ipc' = "replace" /\ persist' = m
           /\ SameSnapshot("table") /\ held'["introducer"] = held["table"]
           /\ held'["next"] = epoch
           /\ parts'[epoch] = (Snapshot("table") \ gone) \cup fresh
<1>1. /\ status = "up" /\ epoch \in Epoch /\ parts \in [Epoch -> SUBSET Part]
      /\ held \in [Holder -> {0} \cup Epoch]
  BY TSTableAssumption DEF IInv, TypeOK, Introduce, Running, Epoch
<1>2. {"table", "next", "introducer"} \subseteq Holder /\ held["table"] # epoch
  BY Numbers DEF IInv, EpochFresh, Introduce
<1>3. /\ held'["introducer"] = held["table"] /\ held'["next"] = epoch
      /\ held'["table"] = held["table"]
  BY Zenon, <1>1, <1>2 DEF Introduce
<1>4. parts' = [parts EXCEPT ![epoch] = (Snapshot("table") \ gone) \cup fresh]
  BY Zenon DEF Introduce, NextSnapshot
<1>5. SameSnapshot("table")
  BY Zenon, <1>1, <1>2, <1>3, <1>4 DEF SameSnapshot
<1> QED
  BY Zenon, <1>1, <1>3, <1>4, <1>5 DEF Introduce

\* What replaceSnapshot does to the snapshots.
LEMMA ReplaceSnapshots ==
    ASSUME IInv, ReplaceSnapshot
    PROVE  /\ Snapshot("table")' = Snapshot("next") /\ Files("table")' = Files("next")
           /\ held'["table"] = held["next"] /\ held["next"] # 0 /\ SameSnapshot("introducer")
           /\ status = "up" /\ ipc = "replace"
           /\ ipc' = IF persist THEN "persist" ELSE "applied"
           /\ introduced' = introduced \cup Rows(IDs(Snapshot("next")))
           /\ UNCHANGED <<status, rows, manifests, names, liveEpoch, deletableEpochs, epoch,
                          sent, durable, acked, shipped, curPartID, pc, work, out>>
<1>1. /\ DecRef(held["table"]) /\ ipc = "replace" /\ held["next"] # 0
      /\ held' = [held EXCEPT !["table"] = held["next"], !["next"] = 0]
      /\ held \in [Holder -> {0} \cup Epoch]
  BY Zenon DEF IInv, TypeOK, SnapshotBuilt, ReplaceSnapshot
<1>2. {"table", "next", "introducer"} \subseteq Holder
  BY Zenon, Numbers DEF IInv
<1>3. parts'[held["next"]] = parts[held["next"]]
  BY Zenon, <1>1, <1>2, OthersKept DEF IInv
<1>4. held["introducer"] # 0 => parts'[held["introducer"]] = parts[held["introducer"]]
  BY Zenon, <1>1, <1>2, OthersKept DEF IInv
<1>5. held'["table"] = held["next"] /\ held'["introducer"] = held["introducer"]
  BY Zenon, <1>1, <1>2
<1>6. Snapshot("table")' = Snapshot("next")
  BY Zenon, <1>1, <1>3, <1>5 DEF Snapshot
<1>7. Files("table")' = Files("next")
  BY Zenon, <1>6 DEF Files, FileIDs
<1>8. status = "up" /\ ipc' = IF persist THEN "persist" ELSE "applied"
  BY Zenon DEF IInv, TypeOK, ReplaceSnapshot, Running
<1>9. /\ introduced' = introduced \cup Rows(IDs(Snapshot("next")))
      /\ UNCHANGED <<status, rows, manifests, names, liveEpoch, deletableEpochs, epoch,
                     sent, durable, acked, shipped, curPartID, pc, work, out>>
  BY Zenon DEF ReplaceSnapshot, IDs, disk, loops, gc
<1> QED
  BY Zenon, <1>1, <1>4, <1>5, <1>6, <1>7, <1>8, <1>9 DEF SameSnapshot
=============================================================================
