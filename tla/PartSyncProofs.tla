--------------------------- MODULE PartSyncProofs ---------------------------
(***************************************************************************)
(* HandedOver, FailedPartsBounded and RemovesNoMoreThanNeeded of PartSync  *)
(* for any number of nodes, parts, retries, limits and stops.              *)
(*                                                                         *)
(* The invariant of HandedOver follows a round. While nodes have their     *)
(* sessions, every part is on the nodes that are done or among the         *)
(* failures recorded for them; while parts are retried or copied, each     *)
(* part of the round is still to do, still failing, or handed over; when   *)
(* the round is introduced all of them are. A session that waits changes   *)
(* none of this. What is handed over stays so: nodes lose nothing, and an  *)
(* entry that leaves failed-parts is recorded in gone.                     *)
(*                                                                         *)
(* Every way in which CopyToFailedPartsDir writes to failed-parts is a     *)
(* Pass: the entries up to some time go, the skipped ones excepted, none   *)
(* of them could stay beside the part, and at most one entry is new, which *)
(* is smaller than the part that fits or than the entry it is what is left *)
(* of. The size of failed-parts is the number of its bytes, so an entry    *)
(* adds what it has linked. The times of entries are distinct, which is    *)
(* what makes the oldest of them well defined.                             *)
(***************************************************************************)
EXTENDS PartSync, SequenceTheorems, FiniteSetTheorems, WellFoundedInduction, TLAPS

EntrySet == [part : Parts, size : Nat, at : Nat]

\* The entries of failed-parts: finitely many, each with a time of its own up to t.
Dated(entries, t) ==
    /\ entries \subseteq EntrySet /\ IsFiniteSet(entries)
    /\ \A e \in entries : e.at \in 1 .. t
    /\ \A d, e \in entries : d.at = e.at => d = e

Shapes ==
    /\ id = [p \in Parts |-> id[p]]
    /\ table \subseteq Parts
    /\ clock \in Nat /\ Dated(failedParts, clock)
    /\ taken \in [Nodes -> SUBSET Parts]
    /\ sync \in [pc : {"idle", "sync", "retry", "copy", "introduce"},
                 parts : SUBSET Parts, nodes : SUBSET Nodes,
                 perNodeFailures : [Nodes -> SUBSET Parts], waiting : SUBSET Nodes,
                 todo : SUBSET Parts, part : SUBSET Parts, attempt : Nat,
                 stillFailing : SUBSET Parts]

Handed(p) ==
    \/ OnEveryNode(p) \/ Whole(p)
    \/ p \in GoneBecause({"removed", "failed", "exists"})

Answered(p, n) == p \in taken[n] \cup sync.perNodeFailures[n]

RoundInv ==
    /\ sync.pc = "sync" =>
          sync.part = {} /\ \A p \in sync.parts, n \in Nodes \ sync.nodes : Answered(p, n)
    /\ sync.pc = "retry" =>
          /\ sync.part \subseteq sync.todo
          /\ \A p \in sync.parts :
                /\ \A n \in Nodes : Answered(p, n)
                /\ p \in sync.todo \cup sync.stillFailing \/ Handed(p)
    /\ sync.pc = "copy" => \A p \in sync.parts : p \in sync.stillFailing \/ Handed(p)
    /\ sync.pc = "introduce" => \A p \in sync.parts : Handed(p)

IInv == Shapes /\ RoundInv /\ HandedOver

USE PartSyncAssumption

-----------------------------------------------------------------------------
(* failed-parts *)

\* A set of numbers that is not empty has a least one, and Min returns it: what the
\* loop of CopyToFailedPartsDir stops at.
LEMMA MinIsLeast ==
    ASSUME NEW S \in SUBSET Nat, S # {}
    PROVE  Min(S) \in S /\ \A k \in S : ~(k < Min(S))
<1>1. \E x \in S : \A y \in S : ~ (<<y, x>> \in OpToRel(<, Nat))
  BY Zenon, NatLessThanWellFounded, WFMin
<1>2. PICK x \in S : \A y \in S : ~ (y < x)
  BY Zenon, <1>1 DEF OpToRel
<1>3. \A y \in S : x =< y
  BY <1>2
<1>4. Min(S) \in S /\ \A y \in S : Min(S) =< y
  BY Zenon, <1>3 DEF Min
<1>5. PICK m \in S : m = Min(S) /\ \A y \in S : m =< y
  BY Zenon, <1>4
<1>6. \A y \in S : m =< y => ~(y < m)
  OBVIOUS
<1> QED BY Zenon, <1>5, <1>6

\* The sizes of parts are numbers.
LEMMA SizesAreNat == \A p \in Parts : Size[p] \in Nat /\ p \in Nat
BY LenProperties DEF Parts

\* RemoveOldest leaves the skipped entries and those after some time, and with any of
\* the others the part would not fit beside them.
LEMMA RemoveOldestLeaves ==
    ASSUME Shapes, NEW p \in Parts, NEW skips \in SUBSET failedParts
    PROVE  LET left == RemoveOldest(p, skips) IN
           /\ left \subseteq failedParts /\ skips \subseteq left
           /\ \A e \in failedParts \ left :
                 /\ \A d \in left : d.at > e.at \/ d \in skips
                 /\ ~Fits(p, {d \in failedParts : d \in skips \/ d.at >= e.at})
<1> DEFINE enough == {t \in 0 .. clock : Fits(p, Younger(t, skips))}
           left == RemoveOldest(p, skips)
<1>1. clock \in Nat /\ \A e \in failedParts : e.at \in 1 .. clock
  BY Zenon DEF Shapes, Dated
<1>2. \A t \in 0 .. clock : t \in enough <=> Fits(p, Younger(t, skips))
  BY Zenon
<1>3. enough \in SUBSET Nat
  <2>1. enough \subseteq 0 .. clock
    BY Zenon
  <2> HIDE DEF enough
  <2> QED BY <1>1, <2>1
<1>4. ASSUME NEW e \in failedParts
      PROVE  /\ e.at - 1 \in 0 .. clock
             /\ Younger(e.at - 1, skips) = {d \in failedParts : d \in skips \/ d.at >= e.at}
  <2>1. e.at - 1 \in 0 .. clock /\ e.at \in Nat
    BY <1>1
  <2>2. \A d \in failedParts : d.at > e.at - 1 <=> d.at >= e.at
    BY <1>1, <2>1
  <2> QED BY Zenon, <2>1, <2>2 DEF Younger
<1>5. CASE enough = {}
  <2>1. left = skips
    BY Zenon, <1>5 DEF RemoveOldest
  <2>2. \A e \in failedParts : ~Fits(p, {d \in failedParts : d \in skips \/ d.at >= e.at})
    BY Zenon, <1>2, <1>4, <1>5
  <2> QED BY Zenon, <2>1, <2>2
<1>6. CASE enough # {}
  <2> HIDE DEF enough
  <2>1. PICK m \in enough : m = Min(enough) /\ \A k \in enough : ~(k < m)
    BY Zenon, <1>3, <1>6, MinIsLeast
  <2>2. left = Younger(m, skips) /\ m \in Nat
    BY Zenon, <1>3, <1>6, <2>1 DEF RemoveOldest, enough
  <2>3. left \subseteq failedParts /\ skips \subseteq left
    BY Zenon, <2>2 DEF Younger
  <2>4. ASSUME NEW e \in failedParts \ left
        PROVE  /\ \A d \in left : d.at > e.at \/ d \in skips
               /\ ~Fits(p, {d \in failedParts : d \in skips \/ d.at >= e.at})
    <3>1. ~(e.at > m)
      BY Zenon, <2>2 DEF Younger
    <3>2. e.at - 1 < m /\ \A d \in failedParts : d.at > m => d.at > e.at
      BY <1>1, <2>2, <3>1
    <3>3. \A d \in left : d.at > e.at \/ d \in skips
      BY Zenon, <2>2, <3>2 DEF Younger
    <3>4. e.at - 1 \notin enough
      BY Zenon, <2>1, <3>2
    <3> QED BY Zenon, <1>2, <1>4, <3>3, <3>4
  <2> QED BY Zenon, <2>3, <2>4
<1> QED BY Zenon, <1>5, <1>6

\* What a call of CopyToFailedPartsDir for part p does to failed-parts, when it stops
\* wherever it may: entries old stay, and new is added.
Pass(p, skips, old, new) ==
    /\ skips \subseteq old /\ old \subseteq failedParts
    /\ \A e \in failedParts \ old :
          /\ \A d \in old : d.at > e.at \/ d \in skips
          /\ ~Fits(p, {d \in failedParts : d \in skips \/ d.at >= e.at})
    /\ new \subseteq EntrySet
    /\ \A x \in new :
          /\ new = {x} /\ x.at = clock + 1
          /\ \/ Fits(p, old) /\ x.size <= Size[p]
             \/ \E e \in failedParts \ old : x.size <= e.size
    /\ failedParts' = old \cup new /\ skipped' = skips /\ clock' = clock + 1
    /\ gone \cup {<<e.part, "removed">> : e \in failedParts \ failedParts'} \subseteq gone'

\* The entries that cannot be examined are entries.
LEMMA SkipsAreEntries ==
    ASSUME NEW p \in Parts, NEW skips \in Skips(p)
    PROVE  skips \in SUBSET failedParts
BY Zenon DEF Skips

\* A copy that runs to its end is a pass.
LEMMA LinkPartPasses ==
    ASSUME Shapes, NEW p \in Parts, LinkPart(p)
    PROVE  /\ \E skips, old, new : Pass(p, skips, old, new)
           /\ Whole(p)' \/ <<p, "failed">> \in gone'
<1>1. PICK skips \in SUBSET failedParts :
         LET left == RemoveOldest(p, skips) IN
         IF Fits(p, left)
         THEN Leaves(left \cup {Entry(p, Size[p], clock + 1)}, skips, {})
         ELSE Leaves(left, skips, {<<p, "failed">>})
  BY Zenon, SkipsAreEntries DEF LinkPart
<1> DEFINE left == RemoveOldest(p, skips)
           x == Entry(p, Size[p], clock + 1)
<1>2. /\ left \subseteq failedParts /\ skips \subseteq left
      /\ \A e \in failedParts \ left :
            /\ \A d \in left : d.at > e.at \/ d \in skips
            /\ ~Fits(p, {d \in failedParts : d \in skips \/ d.at >= e.at})
  BY Zenon, RemoveOldestLeaves
<1>3. \/ Fits(p, left) /\ Leaves(left \cup {x}, skips, {})
      \/ Leaves(left, skips, {<<p, "failed">>})
  BY Zenon, <1>1
<1> HIDE DEF left
<1>4. x.part = p /\ x.size = Size[p] /\ x.at = clock + 1
  BY Zenon DEF Entry
<1>5. clock + 1 \in Nat /\ Size[p] \in Nat /\ Size[p] <= Size[p]
  <2>1. clock \in Nat /\ Size[p] \in Nat
    BY Zenon, SizesAreNat DEF Shapes
  <2> QED BY <2>1
<1>6. x \in EntrySet
  BY Zenon, <1>5 DEF Entry, EntrySet
<1> HIDE DEF x
<1>7. CASE Fits(p, left) /\ Leaves(left \cup {x}, skips, {})
  <2>1. Pass(p, skips, left, {x})
    BY Zenon, <1>2, <1>4, <1>5, <1>6, <1>7 DEF Pass, Leaves
  <2>2. Whole(p)'
    BY Zenon, <1>4, <1>7 DEF Whole, Leaves
  <2> QED BY Zenon, <2>1, <2>2
<1>8. CASE Leaves(left, skips, {<<p, "failed">>})
  <2>1. Pass(p, skips, left, {})
    BY Zenon, <1>2, <1>8 DEF Pass, Leaves
  <2>2. <<p, "failed">> \in gone'
    BY Zenon, <1>8 DEF Leaves
  <2> QED BY Zenon, <2>1, <2>2
<1> QED BY Zenon, <1>3, <1>7, <1>8

\* So is a copy that is cut short.
LEMMA CutShortPasses ==
    ASSUME Shapes, NEW p \in Parts, NEW why, CutShort(p, why)
    PROVE  (\E skips, old, new : Pass(p, skips, old, new)) /\ why \subseteq gone'
<1>1. PICK skips \in SUBSET failedParts :
         LET left == RemoveOldest(p, skips) IN
         \/ \E e \in failedParts \ left : \E torn \in Torn(e) :
               Leaves(Younger(e.at, skips) \cup torn, skips, why)
         \/ /\ Fits(p, left)
            /\ \E bytes \in 0 .. Size[p] - 1 :
                  Leaves(left \cup {Entry(p, bytes, clock + 1)}, skips, why)
  BY Zenon, SkipsAreEntries DEF CutShort
<1> DEFINE left == RemoveOldest(p, skips)
<1>2. /\ left \subseteq failedParts /\ skips \subseteq left
      /\ \A e \in failedParts \ left :
            /\ \A d \in left : d.at > e.at \/ d \in skips
            /\ ~Fits(p, {d \in failedParts : d \in skips \/ d.at >= e.at})
  BY Zenon, RemoveOldestLeaves
<1>3. \/ \E e \in failedParts \ left : \E torn \in Torn(e) :
            Leaves(Younger(e.at, skips) \cup torn, skips, why)
      \/ /\ Fits(p, left)
         /\ \E bytes \in 0 .. Size[p] - 1 :
               Leaves(left \cup {Entry(p, bytes, clock + 1)}, skips, why)
  BY Zenon, <1>1
<1> HIDE DEF left
<1>4. clock \in Nat /\ clock + 1 \in Nat /\ Size[p] \in Nat
  <2>1. clock \in Nat /\ Size[p] \in Nat
    BY Zenon, SizesAreNat DEF Shapes
  <2> QED BY <2>1
<1>5. /\ failedParts \subseteq EntrySet /\ \A e \in failedParts : e.at \in 1 .. clock
      /\ \A d, e \in failedParts : d.at = e.at => d = e
  BY Zenon DEF Shapes, Dated
<1>6. ASSUME NEW bytes \in 0 .. Size[p] - 1, Fits(p, left),
             Leaves(left \cup {Entry(p, bytes, clock + 1)}, skips, why)
      PROVE  (\E sk, old, new : Pass(p, sk, old, new)) /\ why \subseteq gone'
  <2> DEFINE x == Entry(p, bytes, clock + 1)
  <2>1. bytes \in Nat /\ bytes <= Size[p]
    BY <1>4
  <2>2. x \in EntrySet /\ x.size = bytes /\ x.at = clock + 1
    BY Zenon, <1>4, <2>1 DEF Entry, EntrySet
  <2>3. Leaves(left \cup {x}, skips, why)
    BY Zenon, <1>6
  <2> HIDE DEF x
  <2>4. Pass(p, skips, left, {x})
    BY Zenon, <1>2, <1>6, <2>1, <2>2, <2>3 DEF Pass, Leaves
  <2>5. why \subseteq gone'
    BY Zenon, <2>3 DEF Leaves
  <2> QED BY Zenon, <2>4, <2>5
<1>7. ASSUME NEW e \in failedParts \ left, NEW torn \in Torn(e),
             Leaves(Younger(e.at, skips) \cup torn, skips, why)
      PROVE  (\E sk, old, new : Pass(p, sk, old, new)) /\ why \subseteq gone'
  <2> DEFINE young == Younger(e.at, skips)
  <2>1. young \subseteq failedParts /\ skips \subseteq young
    BY Zenon DEF Younger
  <2>2. ASSUME NEW d \in failedParts \ young
        PROVE  /\ \A y \in young : y.at > d.at \/ y \in skips
               /\ d # e => e.at > d.at
               /\ ~Fits(p, {y \in failedParts : y \in skips \/ y.at >= d.at})
    <3>1. d \notin skips /\ ~(d.at > e.at)
      BY Zenon DEF Younger
    <3>2. d \notin left
      BY Zenon, <1>2, <3>1
    <3>3. d.at # e.at => e.at > d.at
      BY <1>5, <3>1
    <3>4. \A y \in failedParts : y.at > e.at => y.at > d.at
      BY <1>5, <3>1
    <3>5. \A y \in young : y.at > d.at \/ y \in skips
      BY Zenon, <3>4 DEF Younger
    <3>6. d # e => e.at > d.at
      BY Zenon, <1>5, <3>3
    <3> QED BY Zenon, <1>2, <3>2, <3>5, <3>6
  <2>3. e \notin skips /\ e \notin young
    <3>1. e.at \in Nat
      BY <1>5
    <3>2. ~(e.at > e.at)
      BY <3>1
    <3> QED BY Zenon, <1>2, <3>2 DEF Younger
  <2>4. Leaves(young \cup torn, skips, why)
    BY Zenon, <1>7
  <2>5. why \subseteq gone'
    BY Zenon, <2>4 DEF Leaves
  <2>6. \/ torn = {} \/ torn = {e}
        \/ \E bytes \in 0 .. e.size - 1 : torn = {Entry(e.part, bytes, clock + 1)}
    BY Zenon DEF Torn
  <2> HIDE DEF young
  <2>7. CASE torn = {}
    <3>1. Pass(p, skips, young, {})
      BY Zenon, <2>1, <2>2, <2>4, <2>7 DEF Pass, Leaves
    <3> QED BY Zenon, <2>5, <3>1
  <2>8. CASE torn = {e}
    <3> DEFINE old == young \cup {e}
    <3>1. /\ skips \subseteq old /\ old \subseteq failedParts
          /\ \A d \in failedParts \ old :
                /\ \A y \in old : y.at > d.at \/ y \in skips
                /\ ~Fits(p, {y \in failedParts : y \in skips \/ y.at >= d.at})
      BY Zenon, <2>1, <2>2
    <3>2. Leaves(old \cup {}, skips, why)
      BY Zenon, <2>4, <2>8 DEF Leaves
    <3> HIDE DEF old
    <3>3. Pass(p, skips, old, {})
      BY Zenon, <3>1, <3>2 DEF Pass, Leaves
    <3> QED BY Zenon, <2>5, <3>3
  <2>9. ASSUME NEW bytes \in 0 .. e.size - 1, torn = {Entry(e.part, bytes, clock + 1)}
        PROVE  \E sk, old, new : Pass(p, sk, old, new)
    <3> DEFINE x == Entry(e.part, bytes, clock + 1)
    <3>1. e.size \in Nat /\ e.part \in Parts
      BY Zenon, <1>5 DEF EntrySet
    <3>2. bytes \in Nat /\ bytes <= e.size
      BY <3>1
    <3>3. x \in EntrySet /\ x.size = bytes /\ x.at = clock + 1
      BY Zenon, <1>4, <3>1, <3>2 DEF Entry, EntrySet
    <3>4. Leaves(young \cup {x}, skips, why)
      BY Zenon, <2>4, <2>9
    <3> HIDE DEF x
    <3>5. Pass(p, skips, young, {x})
      BY Zenon, <2>1, <2>2, <2>3, <3>2, <3>3, <3>4 DEF Pass, Leaves
    <3> QED BY Zenon, <3>5
  <2> QED BY Zenon, <2>5, <2>6, <2>7, <2>8, <2>9
<1> QED BY Zenon, <1>3, <1>6, <1>7

\* A pass leaves dated entries.
LEMMA PassDates ==
    ASSUME Shapes, NEW p \in Parts, NEW skips, NEW old, NEW new, Pass(p, skips, old, new)
    PROVE  clock' \in Nat /\ Dated(failedParts', clock')
<1>1. /\ clock \in Nat /\ failedParts \subseteq EntrySet /\ IsFiniteSet(failedParts)
      /\ \A e \in failedParts : e.at \in 1 .. clock
      /\ \A d, e \in failedParts : d.at = e.at => d = e
  BY Zenon DEF Shapes, Dated
<1>2. /\ old \subseteq failedParts /\ new \subseteq EntrySet
      /\ \A x \in new : new = {x} /\ x.at = clock + 1
      /\ failedParts' = old \cup new /\ clock' = clock + 1
  BY Zenon DEF Pass
<1>3. IsFiniteSet(new)
  <2>1. CASE new = {}
    BY Zenon, <2>1, FS_EmptySet
  <2>2. ASSUME NEW x \in new PROVE IsFiniteSet(new)
    <3>1. new = {x}
      BY Zenon, <1>2, <2>2
    <3>2. IsFiniteSet({x})
      BY Zenon, FS_Singleton
    <3> QED BY Zenon, <3>1, <3>2
  <2> QED BY Zenon, <2>1, <2>2
<1>4. IsFiniteSet(old \cup new)
  BY Zenon, <1>1, <1>2, <1>3, FS_Subset, FS_Union
<1>5. /\ clock + 1 \in Nat /\ clock + 1 \in 1 .. clock + 1
      /\ \A e \in failedParts : e.at \in 1 .. clock + 1 /\ e.at # clock + 1
  BY <1>1
<1>6. \A e \in old \cup new : e.at \in 1 .. clock + 1
  BY Zenon, <1>2, <1>5
<1>7. \A d, e \in old \cup new : d.at = e.at => d = e
  BY Zenon, <1>1, <1>2, <1>5
<1> QED BY Zenon, <1>1, <1>2, <1>4, <1>5, <1>6, <1>7 DEF Dated

-----------------------------------------------------------------------------
(* What is handed over stays so *)

\* Nodes and gone only grow, and an entry leaves failed-parts into gone.
Grows ==
    /\ \A n \in Nodes : taken[n] \subseteq taken'[n]
    /\ gone \subseteq gone'
    /\ \A p \in Parts : Whole(p) => Whole(p)' \/ <<p, "removed">> \in gone'

\* A part that a node, failed-parts or gone accounts for is accounted for afterwards.
LEMMA HandedStays ==
    ASSUME Grows, NEW p \in Parts, Handed(p)
    PROVE  Handed(p)'
<1>1. CASE OnEveryNode(p)
  BY Zenon, <1>1 DEF Grows, Handed, OnEveryNode
<1>2. CASE Whole(p)
  BY Zenon, <1>2 DEF Grows, Handed, GoneBecause
<1>3. CASE p \in GoneBecause({"removed", "failed", "exists"})
  BY Zenon, <1>3 DEF Grows, Handed, GoneBecause
<1> QED BY Zenon, <1>1, <1>2, <1>3 DEF Handed

\* HandedOver holds on after a step in which no part leaves the table.
LEMMA HandedOverStays ==
    ASSUME HandedOver, Grows, \A p \in Parts : Left(p)' => Left(p)
    PROVE  HandedOver'
<1> SUFFICES ASSUME NEW p \in Parts, Left(p)'
             PROVE  Handed(p)'
  BY Zenon DEF HandedOver, Handed
<1>1. Handed(p)
  BY Zenon DEF HandedOver, Handed
<1> QED BY Zenon, <1>1, HandedStays

\* A step that leaves failed-parts alone.
LEMMA GrowsUnchanged ==
    ASSUME UNCHANGED failedParts, gone \subseteq gone',
           \A n \in Nodes : taken[n] \subseteq taken'[n]
    PROVE  Grows
BY Zenon DEF Grows, Whole

\* A step that removes entries, and adds one perhaps.
LEMMA GrowsPassing ==
    ASSUME NEW p \in Parts, NEW skips, NEW old, NEW new, Pass(p, skips, old, new), UNCHANGED taken
    PROVE  Grows
<1>1. ASSUME NEW q \in Parts, Whole(q), ~Whole(q)'
      PROVE  <<q, "removed">> \in gone'
  <2>1. PICK e \in failedParts : e.part = q /\ e.size = Size[q]
    BY Zenon, <1>1 DEF Whole
  <2>2. e \notin failedParts'
    BY Zenon, <1>1, <2>1 DEF Whole
  <2> QED BY Zenon, <2>1, <2>2 DEF Pass
<1> QED BY Zenon, <1>1 DEF Grows, Pass

-----------------------------------------------------------------------------
(* One lemma per action *)

\* Nothing is in the table, and the old parts are in failed-parts.
LEMMA InitIInv == Init => IInv
<1> SUFFICES ASSUME Init PROVE IInv
  BY Zenon
<1>1. Parts = 1 .. Len(Size) /\ Len(Size) \in Nat /\ \A p \in Parts : Size[p] \in Nat
  BY LenProperties DEF Parts
<1>2. /\ failedParts = {Entry(p, Size[p], p) : p \in 1 .. Old} /\ clock = Old
      /\ Old \in 0 .. Len(Size)
  BY Zenon DEF Init
<1>3. Old \in Nat /\ \A p \in 1 .. Old : p \in Parts /\ p \in Nat
  BY <1>1, <1>2
<1>4. \A p \in 1 .. Old :
         LET e == Entry(p, Size[p], p) IN e \in EntrySet /\ e.part = p /\ e.size = Size[p] /\ e.at = p
  BY Zenon, <1>1, <1>3 DEF EntrySet, Entry
<1>5. IsFiniteSet(failedParts)
  <2> DEFINE D == 1 .. Old
             f == [p \in D |-> Entry(p, Size[p], p)]
  <2>1. f \in Surjection(D, failedParts)
    BY Zenon, <1>2 DEF Surjection
  <2>2. 1 \in Int /\ Old \in Int
    BY <1>3
  <2>3. IsFiniteSet(D)
    BY Zenon, <2>2, FS_Interval
  <2> HIDE DEF f, D
  <2> QED BY Zenon, <2>1, <2>3, FS_Surjection
<1>6. \A e \in failedParts : \E p \in 1 .. Old : e = Entry(p, Size[p], p)
  BY Zenon, <1>2
<1>7. Dated(failedParts, clock)
  <2>1. \A e \in failedParts : e \in EntrySet /\ e.at \in 1 .. Old
    BY Zenon, <1>4, <1>6
  <2>2. \A d, e \in failedParts : d.at = e.at => d = e
    BY Zenon, <1>4, <1>6
  <2> QED BY Zenon, <1>2, <1>5, <2>1, <2>2 DEF Dated
<1>8. Shapes
  BY Zenon, <1>1, <1>2, <1>3, <1>7 DEF Shapes, Init, Idle
<1>9. HandedOver
  <2> SUFFICES ASSUME NEW p \in Parts, Left(p)
               PROVE  Whole(p)
    BY Zenon DEF HandedOver
  <2>1. p \in 1 .. Old
    BY <1>1, <1>2 DEF Left, Init
  <2>2. Entry(p, Size[p], p) \in failedParts
    BY Zenon, <1>2, <2>1
  <2> QED BY Zenon, <1>4, <2>1, <2>2 DEF Whole
<1> QED BY Zenon, <1>8, <1>9 DEF IInv, RoundInv, Init, Idle

\* A new part is in the table.
LEMMA AddPartIInv ==
    ASSUME IInv, NEW p \in Parts, AddPart(p)
    PROVE  IInv'
<1>1. Shapes'
  BY Zenon DEF IInv, AddPart, Shapes, kept
<1>2. Grows
  BY Zenon, GrowsUnchanged DEF AddPart, kept
<1>3. \A q \in Parts : Left(q)' => Left(q)
  BY Zenon DEF IInv, Shapes, AddPart, Left
<1>4. RoundInv'
  BY Zenon, <1>2, HandedStays DEF IInv, Shapes, RoundInv, AddPart, Answered
<1> QED BY Zenon, <1>1, <1>2, <1>3, <1>4, HandedOverStays DEF IInv

\* No node has answered yet.
LEMMA SyncSnapshotIInv ==
    ASSUME IInv, SyncSnapshot
    PROVE  IInv'
<1>1. Shapes'
  BY Zenon DEF IInv, SyncSnapshot, Shapes, Idle, kept
<1>2. Grows
  BY Zenon, GrowsUnchanged DEF SyncSnapshot, kept
<1>3. \A q \in Parts : Left(q)' => Left(q)
  BY Zenon DEF SyncSnapshot, Left
<1>4. RoundInv'
  BY Zenon DEF RoundInv, SyncSnapshot, Idle
<1> QED BY Zenon, <1>1, <1>2, <1>3, <1>4, HandedOverStays DEF IInv

\* A session of the first pass ends: each part is on the node or among its failures.
LEMMA SessionEnds ==
    ASSUME IInv, NEW n \in Nodes, sync.pc = "sync", NEW failed \in SUBSET sync.parts,
           UNCHANGED <<id, table, kept>>, taken' \in [Nodes -> SUBSET Parts],
           \A m \in Nodes : taken[m] \subseteq taken'[m],
           \A p \in sync.parts : p \in taken'[n] \cup failed,
           sync' = AfterInitialSync([sync EXCEPT !.waiting = {}, !.nodes = @ \ {n},
                                                 !.perNodeFailures[n] = failed])
    PROVE  IInv'
<1> DEFINE s == [sync EXCEPT !.waiting = {}, !.nodes = @ \ {n}, !.perNodeFailures[n] = failed]
           all == UNION {s.perNodeFailures[m] : m \in Nodes}
<1>1. /\ s \in [pc : {"sync"}, parts : {sync.parts}, nodes : SUBSET Nodes,
                perNodeFailures : [Nodes -> SUBSET Parts], waiting : SUBSET Nodes,
                todo : SUBSET Parts, part : SUBSET Parts, attempt : Nat,
                stillFailing : SUBSET Parts]
      /\ s.perNodeFailures = [sync.perNodeFailures EXCEPT ![n] = failed]
  BY Zenon DEF IInv, Shapes
<1>2. all \in SUBSET Parts /\ s.nodes = sync.nodes \ {n}
  BY <1>1 DEF IInv, Shapes
<1>3. /\ sync' \in [pc : {"sync", "retry", "introduce"}, parts : {sync.parts}, nodes : SUBSET Nodes,
                    perNodeFailures : {s.perNodeFailures}, waiting : SUBSET Nodes,
                    todo : SUBSET Parts, part : {s.part}, attempt : Nat,
                    stillFailing : SUBSET Parts]
      /\ sync'.nodes = sync.nodes \ {n}
      /\ sync'.pc # "sync" => sync'.nodes = {}
      /\ sync'.pc = "retry" => sync'.todo = all
      /\ sync'.pc = "introduce" => all = {}
  <2> HIDE DEF s
  <2>1. sync' = IF s.nodes # {} THEN s
                ELSE IF all = {} THEN [s EXCEPT !.pc = "introduce"]
                ELSE [s EXCEPT !.pc = "retry", !.todo = all]
    BY Zenon DEF AfterInitialSync, s
  <2> HIDE DEF all
  <2>2. CASE s.nodes # {}
    BY Zenon, <1>1, <1>2, <2>1, <2>2
  <2>3. CASE s.nodes = {} /\ all = {}
    <3>1. sync' = [s EXCEPT !.pc = "introduce"]
      BY Zenon, <2>1, <2>3
    <3> QED BY Zenon, <1>1, <1>2, <2>3, <3>1
  <2>4. CASE s.nodes = {} /\ all # {}
    <3>1. sync' = [s EXCEPT !.pc = "retry", !.todo = all]
      BY Zenon, <2>1, <2>4
    <3> QED BY Zenon, <1>1, <1>2, <2>4, <3>1
  <2> QED BY Zenon, <2>2, <2>3, <2>4
<1>4. s.part = {}
  BY Zenon DEF IInv, Shapes, RoundInv
<1>5. Shapes'
  BY Zenon, <1>1, <1>3 DEF IInv, Shapes, kept
<1>6. Grows
  BY Zenon, GrowsUnchanged DEF kept
<1>7. \A p \in sync.parts, m \in Nodes \ sync'.nodes : p \in taken'[m] \cup s.perNodeFailures[m]
  BY Zenon, <1>1, <1>3 DEF IInv, Shapes, RoundInv, Answered
<1>8. RoundInv'
  <2> HIDE DEF s
  <2>1. \A p \in Parts, m \in Nodes : p \in s.perNodeFailures[m] => p \in all
    BY Zenon
  <2> HIDE DEF all
  <2>2. sync'.pc # "sync" =>
           \A p \in sync.parts : p \in all \/ \A m \in Nodes : p \in taken'[m]
    BY Zenon, <1>3, <1>7, <2>1 DEF IInv, Shapes
  <2>3. sync'.pc # "sync" => \A p \in sync.parts : p \in all \/ Handed(p)'
    BY Zenon, <2>2 DEF Handed, OnEveryNode
  <2> QED BY Zenon, <1>3, <1>4, <1>7, <2>3 DEF RoundInv, Answered
<1>9. \A q \in Parts : Left(q)' => Left(q)
  BY Zenon DEF Left
<1> QED BY Zenon, <1>5, <1>6, <1>8, <1>9, HandedOverStays DEF IInv

\* A session that sends chunks.
LEMMA SyncPartsToNodeIInv ==
    ASSUME IInv, NEW n \in Nodes, SyncPartsToNode(n)
    PROVE  IInv'
<1>1. PICK failed \in SUBSET sync.parts :
         \E stored \in {sync.parts \ failed} \cup (IF failed = sync.parts THEN SUBSET failed ELSE {}) :
            /\ taken' = [taken EXCEPT ![n] = @ \cup stored]
            /\ sync' = AfterInitialSync([sync EXCEPT !.nodes = @ \ {n}, !.perNodeFailures[n] = failed])
  BY Zenon DEF SyncPartsToNode
<1>2. PICK stored \in SUBSET sync.parts :
         /\ sync.parts \subseteq stored \cup failed
         /\ taken' = [taken EXCEPT ![n] = @ \cup stored]
         /\ sync' = AfterInitialSync([sync EXCEPT !.nodes = @ \ {n}, !.perNodeFailures[n] = failed])
  BY Zenon, <1>1
<1>3. /\ taken' \in [Nodes -> SUBSET Parts]
      /\ \A m \in Nodes : taken[m] \subseteq taken'[m]
      /\ \A p \in sync.parts : p \in taken'[n] \cup failed
  BY Zenon, <1>2 DEF IInv, Shapes
<1>4. sync.pc = "sync" /\ sync.waiting = {} /\ UNCHANGED <<id, table, kept>>
  BY Zenon DEF SyncPartsToNode
<1>5. [sync EXCEPT !.waiting = {}, !.nodes = @ \ {n}, !.perNodeFailures[n] = failed]
         = [sync EXCEPT !.nodes = @ \ {n}, !.perNodeFailures[n] = failed]
  <2>1. [sync EXCEPT !.waiting = {}] = sync
    BY <1>4 DEF IInv, Shapes
  <2> QED BY Zenon, <2>1
<1> QED BY Zenon, <1>2, <1>3, <1>4, <1>5, SessionEnds

\* The state of the round when part p is dealt with.
LEMMA AfterPart ==
    ASSUME IInv, sync.pc = "retry", NEW p \in sync.todo, NEW s,
           s \in [pc : {"retry"}, parts : {sync.parts}, nodes : SUBSET Nodes,
                  perNodeFailures : {sync.perNodeFailures}, waiting : SUBSET Nodes,
                  todo : {sync.todo}, part : SUBSET Parts, attempt : Nat,
                  stillFailing : SUBSET Parts],
           sync.stillFailing \subseteq s.stillFailing,
           sync' = Synced(s, p), Grows,
           p \in sync.parts => p \in s.stillFailing \/ Handed(p)',
           UNCHANGED <<id, table, kept>>, taken' \in [Nodes -> SUBSET Parts]
    PROVE  IInv'
<1>1. /\ sync' \in [pc : {"retry", "copy", "introduce"}, parts : {sync.parts}, nodes : SUBSET Nodes,
                    perNodeFailures : {sync.perNodeFailures}, waiting : SUBSET Nodes,
                    todo : {sync.todo \ {p}}, part : {{}}, attempt : Nat,
                    stillFailing : {s.stillFailing}]
      /\ sync'.pc # "retry" => sync.todo \ {p} = {}
      /\ sync'.pc = "introduce" => s.stillFailing = {}
  BY Zenon DEF Synced, AfterRetry
<1>2. Shapes'
  BY Zenon, <1>1 DEF IInv, Shapes, kept
<1>3. \A q \in sync.parts : q \in (sync.todo \ {p}) \cup s.stillFailing \/ Handed(q)'
  BY Zenon, HandedStays DEF IInv, Shapes, RoundInv
<1>4. \A q \in sync.parts, n \in Nodes : q \in taken'[n] \cup sync.perNodeFailures[n]
  BY Zenon DEF IInv, Shapes, RoundInv, Answered, Grows
<1>5. RoundInv'
  BY Zenon, <1>1, <1>3, <1>4 DEF RoundInv, Answered
<1>6. \A q \in Parts : Left(q)' => Left(q)
  BY Zenon DEF Left
<1> QED BY Zenon, <1>2, <1>5, <1>6, HandedOverStays DEF IInv

\* The round as it is, or as it is when the session that waited has failed.
Between(s) == s = sync \/ s = [sync EXCEPT !.waiting = {}]

\* A part that is given up is still failing.
LEMMA GivenUpIInv ==
    ASSUME IInv, sync.pc = "retry", NEW p \in sync.todo, NEW r, Between(r),
           sync' = GivenUp(r, p), Grows,
           UNCHANGED <<id, table, kept>>, taken' \in [Nodes -> SUBSET Parts]
    PROVE  IInv'
<1> DEFINE s == [r EXCEPT !.stillFailing = @ \cup {p}]
<1>1. r \in [pc : {"retry"}, parts : {sync.parts}, nodes : SUBSET Nodes,
             perNodeFailures : {sync.perNodeFailures}, waiting : SUBSET Nodes,
             todo : {sync.todo}, part : SUBSET Parts, attempt : Nat,
             stillFailing : {sync.stillFailing}]
  BY Zenon DEF IInv, Shapes, Between
<1>2. /\ s \in [pc : {"retry"}, parts : {sync.parts}, nodes : SUBSET Nodes,
                perNodeFailures : {sync.perNodeFailures}, waiting : SUBSET Nodes,
                todo : {sync.todo}, part : SUBSET Parts, attempt : Nat,
                stillFailing : SUBSET Parts]
      /\ s.stillFailing = sync.stillFailing \cup {p}
  BY Zenon, <1>1 DEF IInv, Shapes
<1>3. sync' = Synced(s, p)
  BY Zenon DEF GivenUp
<1> HIDE DEF s
<1> QED BY Zenon, <1>2, <1>3, AfterPart

\* A part that has failed again is tried again or given up.
LEMMA StillFailedIInv ==
    ASSUME IInv, sync.pc = "retry", NEW p \in sync.todo, NEW r, Between(r),
           sync' = StillFailed(r, p), Grows,
           UNCHANGED <<id, table, kept>>, taken' \in [Nodes -> SUBSET Parts]
    PROVE  IInv'
<1>1. CASE r.attempt + 1 = MaxRetries
  BY Zenon, <1>1, GivenUpIInv DEF StillFailed
<1>2. CASE r.attempt + 1 # MaxRetries
  <2>1. sync' = [r EXCEPT !.part = {p}, !.attempt = @ + 1]
    BY Zenon, <1>2 DEF StillFailed
  <2>2. r \in [pc : {"retry"}, parts : {sync.parts}, nodes : SUBSET Nodes,
               perNodeFailures : {sync.perNodeFailures}, waiting : SUBSET Nodes,
               todo : {sync.todo}, part : SUBSET Parts, attempt : Nat,
               stillFailing : {sync.stillFailing}]
    BY Zenon DEF IInv, Shapes, Between
  <2>3. sync' \in [pc : {"retry"}, parts : {sync.parts}, nodes : SUBSET Nodes,
                   perNodeFailures : {sync.perNodeFailures}, waiting : SUBSET Nodes,
                   todo : {sync.todo}, part : {{p}}, attempt : Nat,
                   stillFailing : {sync.stillFailing}]
    <3>1. r.attempt + 1 \in Nat
      <4>1. r.attempt \in Nat
        BY Zenon, <2>2
      <4> QED BY <4>1
    <3> QED BY Zenon, <2>1, <2>2, <3>1
  <2>4. Shapes'
    BY Zenon, <2>3 DEF IInv, Shapes, kept
  <2>5. \A q \in sync.parts : q \in sync.todo \cup sync.stillFailing \/ Handed(q)'
    BY Zenon, HandedStays DEF IInv, Shapes, RoundInv
  <2>6. \A q \in sync.parts, n \in Nodes : q \in taken'[n] \cup sync.perNodeFailures[n]
    BY Zenon DEF IInv, Shapes, RoundInv, Answered, Grows
  <2>7. RoundInv'
    BY Zenon, <2>3, <2>5, <2>6 DEF RoundInv, Answered
  <2>8. \A q \in Parts : Left(q)' => Left(q)
    BY Zenon DEF Left
  <2> QED BY Zenon, <2>4, <2>7, <2>8, HandedOverStays DEF IInv
<1> QED BY Zenon, <1>1, <1>2

\* An attempt succeeds on every node that failed the part, and then all have it, or
\* the part is tried again or given up.
LEMMA RetryPartIInv ==
    ASSUME IInv, NEW p \in Parts, RetryPart(p)
    PROVE  IInv'
<1> DEFINE on == {n \in Nodes : p \in sync.perNodeFailures[n]}
<1>1. PICK ok \in SUBSET on, late \in SUBSET on :
         /\ taken' = [n \in Nodes |-> IF n \in ok \cup late THEN taken[n] \cup {p} ELSE taken[n]]
         /\ sync' = IF ok = on THEN Synced(sync, p) ELSE StillFailed(sync, p)
  BY Zenon DEF RetryPart
<1>2. sync.pc = "retry" /\ p \in sync.todo /\ UNCHANGED <<id, table, kept>>
  BY Zenon DEF RetryPart, Retrying
<1>3. taken' \in [Nodes -> SUBSET Parts] /\ \A n \in Nodes : taken[n] \subseteq taken'[n]
  BY Zenon, <1>1 DEF IInv, Shapes
<1>4. Grows
  BY Zenon, <1>2, <1>3, GrowsUnchanged DEF kept
<1>5. CASE ok = on
  <2>1. p \in sync.parts => Handed(p)'
    BY Zenon, <1>1, <1>2, <1>5 DEF IInv, Shapes, RoundInv, Answered, Handed, OnEveryNode
  <2>2. sync \in [pc : {"retry"}, parts : {sync.parts}, nodes : SUBSET Nodes,
                  perNodeFailures : {sync.perNodeFailures}, waiting : SUBSET Nodes,
                  todo : {sync.todo}, part : SUBSET Parts, attempt : Nat,
                  stillFailing : SUBSET Parts]
    BY Zenon, <1>2 DEF IInv, Shapes
  <2> QED BY Zenon, <1>1, <1>2, <1>3, <1>4, <1>5, <2>1, <2>2, AfterPart
<1>6. CASE ok # on
  BY Zenon, <1>1, <1>2, <1>3, <1>4, <1>6, StillFailedIInv DEF Between
<1> QED BY Zenon, <1>5, <1>6

\* A cancelled wait gives the part up.
LEMMA RetryCancelledIInv ==
    ASSUME IInv, NEW p \in Parts, RetryCancelled(p)
    PROVE  IInv'
<1>1. /\ sync.pc = "retry" /\ p \in sync.todo /\ sync' = GivenUp(sync, p)
      /\ UNCHANGED <<id, table, kept, taken>>
  BY Zenon DEF RetryCancelled, Retrying
<1>2. Grows
  BY Zenon, <1>1, GrowsUnchanged DEF kept
<1> QED BY Zenon, <1>1, <1>2, GivenUpIInv DEF IInv, Shapes, Between

\* A session that begins to wait answers nothing.
LEMMA SessionWaitsIInv ==
    ASSUME IInv, NEW n \in Nodes, SessionWaits(n)
    PROVE  IInv'
<1>1. UNCHANGED <<id, table, kept, taken>>
  BY Zenon DEF SessionWaits
<1>2. /\ sync' \in [pc : {sync.pc}, parts : {sync.parts}, nodes : {sync.nodes},
                    perNodeFailures : {sync.perNodeFailures}, waiting : SUBSET Nodes,
                    todo : {sync.todo}, part : SUBSET Parts, attempt : Nat,
                    stillFailing : {sync.stillFailing}]
      /\ sync.pc = "sync" => sync'.part = sync.part
      /\ sync.pc = "retry" => sync'.part \subseteq sync.todo
  <2>1. \/ sync.pc = "sync" /\ sync' = [sync EXCEPT !.waiting = {n}]
        \/ /\ sync.pc = "retry"
           /\ \E p \in sync.todo : sync' = [sync EXCEPT !.waiting = {n}, !.part = {p}]
    BY Zenon DEF SessionWaits, Retrying
  <2>2. CASE sync.pc = "sync" /\ sync' = [sync EXCEPT !.waiting = {n}]
    BY Zenon, <2>2 DEF IInv, Shapes
  <2>3. ASSUME NEW p \in sync.todo, sync' = [sync EXCEPT !.waiting = {n}, !.part = {p}]
        PROVE  /\ sync' \in [pc : {sync.pc}, parts : {sync.parts}, nodes : {sync.nodes},
                             perNodeFailures : {sync.perNodeFailures}, waiting : SUBSET Nodes,
                             todo : {sync.todo}, part : SUBSET Parts, attempt : Nat,
                             stillFailing : {sync.stillFailing}]
               /\ sync'.part \subseteq sync.todo
    BY Zenon, <2>3 DEF IInv, Shapes
  <2> QED BY Zenon, <2>1, <2>2, <2>3
<1>3. Shapes'
  BY Zenon, <1>1, <1>2 DEF IInv, Shapes, kept
<1>4. Grows
  BY Zenon, <1>1, GrowsUnchanged DEF kept
<1>5. RoundInv'
  BY Zenon, <1>1, <1>2, <1>4, HandedStays DEF IInv, Shapes, RoundInv, Answered
<1>6. \A q \in Parts : Left(q)' => Left(q)
  BY Zenon, <1>1 DEF Left
<1> QED BY Zenon, <1>3, <1>4, <1>5, <1>6, HandedOverStays DEF IInv

\* A session that is broken off has failed all its parts.
LEMMA SessionBrokenIInv ==
    ASSUME IInv, NEW n \in Nodes, SessionBroken(n)
    PROVE  IInv'
<1> DEFINE s == [sync EXCEPT !.waiting = {}]
<1>1. /\ s.pc = sync.pc /\ s.parts = sync.parts /\ s.part = sync.part
      /\ s.perNodeFailures = sync.perNodeFailures
  BY Zenon DEF IInv, Shapes
<1>2. UNCHANGED <<id, table, kept>>
  BY Zenon DEF SessionBroken
<1>3. CASE /\ s.pc = "sync" /\ UNCHANGED taken
           /\ sync' = AfterInitialSync([s EXCEPT !.nodes = @ \ {n}, !.perNodeFailures[n] = s.parts])
  <2>1. sync' = AfterInitialSync([sync EXCEPT !.waiting = {}, !.nodes = @ \ {n},
                                              !.perNodeFailures[n] = sync.parts])
    BY Zenon, <1>1, <1>3
  <2>2. /\ taken' \in [Nodes -> SUBSET Parts] /\ \A m \in Nodes : taken[m] \subseteq taken'[m]
        /\ \A p \in sync.parts : p \in taken'[n] \cup sync.parts
    BY Zenon, <1>3 DEF IInv, Shapes
  <2> QED BY Zenon, <1>1, <1>2, <1>3, <2>1, <2>2, SessionEnds
<1>4. ASSUME sync.pc = "retry", NEW p \in sync.part, NEW stored,
             taken' = [m \in Nodes |-> IF m \in stored THEN taken[m] \cup {p} ELSE taken[m]],
             sync' = StillFailed(s, p)
      PROVE  IInv'
  <2>1. p \in sync.todo /\ p \in Parts
    BY Zenon, <1>4 DEF IInv, Shapes, RoundInv
  <2>2. taken' \in [Nodes -> SUBSET Parts] /\ \A m \in Nodes : taken[m] \subseteq taken'[m]
    BY Zenon, <1>4, <2>1 DEF IInv, Shapes
  <2>3. Grows
    BY Zenon, <1>2, <2>2, GrowsUnchanged DEF kept
  <2> QED BY Zenon, <1>2, <1>4, <2>1, <2>2, <2>3, StillFailedIInv DEF Between
<1>5. \/ /\ s.pc = "sync" /\ UNCHANGED taken
         /\ sync' = AfterInitialSync([s EXCEPT !.nodes = @ \ {n}, !.perNodeFailures[n] = s.parts])
      \/ /\ s.pc = "retry"
         /\ \E p \in s.part : \E stored :
               /\ taken' = [m \in Nodes |-> IF m \in stored THEN taken[m] \cup {p} ELSE taken[m]]
               /\ sync' = StillFailed(s, p)
  BY Zenon DEF SessionBroken
<1>6. ASSUME s.pc = "retry", NEW p \in s.part, NEW stored,
             taken' = [m \in Nodes |-> IF m \in stored THEN taken[m] \cup {p} ELSE taken[m]],
             sync' = StillFailed(s, p)
      PROVE  IInv'
  <2>1. sync.pc = "retry" /\ p \in sync.part
    BY Zenon, <1>1, <1>6
  <2> QED BY Zenon, <1>4, <1>6, <2>1
<1> HIDE DEF s
<1> QED BY Zenon, <1>3, <1>5, <1>6

-----------------------------------------------------------------------------
(* Copying *)

\* A part that is dealt with in CopyToFailedPartsDir is accounted for.
LEMMA CopyDoneIInv ==
    ASSUME IInv, NEW p \in Parts, Copying(p), CopyDone(p), Grows, Handed(p)',
           clock' \in Nat, Dated(failedParts', clock'), UNCHANGED <<id, table, taken>>
    PROVE  IInv'
<1>1. /\ sync' \in [pc : {"copy", "introduce"}, parts : {sync.parts}, nodes : SUBSET Nodes,
                    perNodeFailures : [Nodes -> SUBSET Parts], waiting : SUBSET Nodes,
                    todo : SUBSET Parts, part : SUBSET Parts, attempt : Nat,
                    stillFailing : {sync.stillFailing \ {p}}]
      /\ sync'.pc = "introduce" => sync.stillFailing \ {p} = {}
  BY Zenon DEF CopyDone, Copying, IInv, Shapes
<1>2. Shapes'
  BY Zenon, <1>1 DEF IInv, Shapes
<1>3. \A q \in sync.parts : q \in sync.stillFailing \ {p} \/ Handed(q)'
  BY Zenon, HandedStays DEF IInv, Shapes, RoundInv, Copying
<1>4. RoundInv'
  BY Zenon, <1>1, <1>3 DEF RoundInv
<1>5. \A q \in Parts : Left(q)' => Left(q)
  BY Zenon DEF Left
<1> QED BY Zenon, <1>2, <1>4, <1>5, HandedOverStays DEF IInv

\* The directory exists: it holds the part, or the part is counted as gone.
LEMMA AlreadyExistsIInv ==
    ASSUME IInv, NEW p \in Parts, AlreadyExists(p)
    PROVE  IInv'
<1>1. Grows
  BY Zenon, GrowsUnchanged DEF AlreadyExists
<1>2. Handed(p)'
  BY Zenon DEF AlreadyExists, Handed, GoneBecause, Whole
<1> QED BY Zenon, <1>1, <1>2, CopyDoneIInv DEF AlreadyExists, IInv, Shapes

\* Older entries go into gone; the part is linked or does not fit.
LEMMA LinkPartIInv ==
    ASSUME IInv, NEW p \in Parts, LinkPart(p)
    PROVE  IInv'
<1>1. Copying(p) /\ CopyDone(p) /\ UNCHANGED <<id, table, taken>>
  BY Zenon DEF LinkPart
<1>2. PICK skips, old, new : Pass(p, skips, old, new)
  BY Zenon, LinkPartPasses DEF IInv
<1>3. Grows
  BY Zenon, <1>1, <1>2, GrowsPassing
<1>4. Handed(p)'
  <2>1. Whole(p)' \/ <<p, "failed">> \in gone'
    BY Zenon, LinkPartPasses DEF IInv
  <2> QED BY Zenon, <2>1 DEF Handed, GoneBecause
<1> QED BY Zenon, <1>1, <1>2, <1>3, <1>4, PassDates, CopyDoneIInv DEF IInv

\* What is left of a copy is no copy: the part counts as failed.
LEMMA CopyFailsIInv ==
    ASSUME IInv, NEW p \in Parts, CopyFails(p)
    PROVE  IInv'
<1>1. CopyDone(p) /\ UNCHANGED <<id, table, taken>>
  BY Zenon DEF CopyFails
<1>2. \/ Copying(p) /\ gone' = gone \cup {<<p, "failed">>} /\ UNCHANGED <<failedParts, clock>>
      \/ Copying(p) /\ CutShort(p, {<<p, "failed">>})
  BY Zenon DEF CopyFails, CutShort
<1>3. CASE Copying(p) /\ gone' = gone \cup {<<p, "failed">>} /\ UNCHANGED <<failedParts, clock>>
  <2>1. Grows
    BY Zenon, <1>1, <1>3, GrowsUnchanged
  <2>2. Handed(p)'
    BY Zenon, <1>3 DEF Handed, GoneBecause
  <2> QED BY Zenon, <1>1, <1>3, <2>1, <2>2, CopyDoneIInv DEF IInv, Shapes
<1>4. CASE Copying(p) /\ CutShort(p, {<<p, "failed">>})
  <2>1. PICK skips, old, new : Pass(p, skips, old, new)
    BY Zenon, <1>4, CutShortPasses DEF IInv
  <2>2. {<<p, "failed">>} \subseteq gone'
    BY Zenon, <1>4, CutShortPasses DEF IInv
  <2>3. Grows
    BY Zenon, <1>1, <2>1, GrowsPassing
  <2>4. Handed(p)'
    BY Zenon, <2>2 DEF Handed, GoneBecause
  <2> QED BY Zenon, <1>1, <1>4, <2>1, <2>3, <2>4, PassDates, CopyDoneIInv DEF IInv
<1> QED BY Zenon, <1>2, <1>3, <1>4

-----------------------------------------------------------------------------
(* The end of a round, and stops *)

\* Every part of the round is handed over when the introducer removes it.
LEMMA IntroduceIInv ==
    ASSUME IInv, Introduce
    PROVE  IInv'
<1>1. Shapes'
  BY Zenon DEF IInv, Introduce, Shapes, Idle, kept
<1>2. Grows
  BY Zenon, GrowsUnchanged DEF Introduce, kept
<1>3. RoundInv'
  BY Zenon DEF RoundInv, Introduce, Idle
<1>4. ASSUME NEW p \in Parts, Left(p)'
      PROVE  Handed(p)
  BY Zenon, <1>4 DEF Introduce, Left, IInv, RoundInv, HandedOver, Handed
<1>5. HandedOver'
  BY Zenon, <1>2, <1>4, HandedStays DEF HandedOver, Handed
<1> QED BY Zenon, <1>1, <1>3, <1>5 DEF IInv

\* A new process has no round.
LEMMA ReopenIInv ==
    ASSUME IInv, Reopen, Grows, clock' \in Nat, Dated(failedParts', clock')
    PROVE  IInv'
<1>1. Shapes'
  BY Zenon DEF IInv, Reopen, Shapes, Idle
<1>2. RoundInv'
  BY Zenon DEF RoundInv, Reopen, Idle
<1>3. \A q \in Parts : Left(q)' => Left(q)
  BY Zenon DEF Reopen, Left
<1> QED BY Zenon, <1>1, <1>2, <1>3, HandedOverStays DEF IInv

\* The half copy of a crash may have made room, which gone records.
LEMMA CrashIInv ==
    ASSUME IInv, Crash
    PROVE  IInv'
<1>1. Reopen /\ UNCHANGED taken
  BY Zenon DEF Crash, Reopen
<1>2. CASE UNCHANGED kept
  <2>1. Grows
    BY Zenon, <1>1, <1>2, GrowsUnchanged DEF kept
  <2> QED BY Zenon, <1>1, <1>2, <2>1, ReopenIInv DEF IInv, Shapes, kept
<1>3. ASSUME NEW p \in sync.stillFailing, CutShort(p, {})
      PROVE  IInv'
  <2>1. p \in Parts
    BY Zenon DEF IInv, Shapes
  <2>2. PICK skips, old, new : Pass(p, skips, old, new)
    BY Zenon, <1>3, <2>1, CutShortPasses DEF IInv
  <2>3. Grows
    BY Zenon, <1>1, <2>1, <2>2, GrowsPassing
  <2> QED BY Zenon, <1>1, <2>1, <2>2, <2>3, PassDates, ReopenIInv DEF IInv
<1> QED BY Zenon, <1>2, <1>3 DEF Crash

\* The invariant is inductive.
LEMMA NextIInv == IInv /\ [Next]_vars => IInv'
<1> SUFFICES ASSUME IInv, [Next]_vars PROVE IInv'
  BY Zenon
<1>1. CASE SyncSnapshot
  BY Zenon, <1>1, SyncSnapshotIInv
<1>2. CASE Introduce
  BY Zenon, <1>2, IntroduceIInv
<1>3. ASSUME NEW n \in Nodes, SyncPartsToNode(n) PROVE IInv'
  BY Zenon, <1>3, SyncPartsToNodeIInv
<1>4. ASSUME NEW p \in Parts, PartStep(p) PROVE IInv'
  BY Zenon, <1>4, RetryPartIInv, RetryCancelledIInv, AlreadyExistsIInv, LinkPartIInv, CopyFailsIInv
     DEF PartStep
<1>5. CASE Close
  <2>1. UNCHANGED <<id, table, failedParts, clock, taken, sync, gone>>
    BY Zenon, <1>5 DEF Close, kept
  <2> QED BY Zenon, <2>1
             DEF IInv, Shapes, RoundInv, HandedOver, Handed, Answered, Left, OnEveryNode,
                      Whole, GoneBecause
<1>6. CASE Restart
  <2>1. Reopen /\ UNCHANGED <<failedParts, clock, gone, taken>>
    BY Zenon, <1>6 DEF Restart, Reopen, kept
  <2>2. Grows
    BY Zenon, <2>1, GrowsUnchanged
  <2> QED BY Zenon, <2>1, <2>2, ReopenIInv DEF IInv, Shapes
<1>7. CASE Crash
  BY Zenon, <1>7, CrashIInv
<1>8. ASSUME NEW p \in Parts, AddPart(p) PROVE IInv'
  BY Zenon, <1>8, AddPartIInv
<1>9. ASSUME NEW n \in Nodes, SessionWaits(n) \/ SessionBroken(n) PROVE IInv'
  BY Zenon, <1>9, SessionWaitsIInv, SessionBrokenIInv
<1>10. CASE UNCHANGED vars
  BY Zenon, <1>10
     DEF vars, kept, IInv, Shapes, RoundInv, HandedOver, Handed, Answered, Left, OnEveryNode,
              Whole, GoneBecause
<1> QED BY Zenon, <1>1, <1>2, <1>3, <1>4, <1>5, <1>6, <1>7, <1>8, <1>9, <1>10 DEF Next, Round

\* A part leaves the liaison's table only when every node has it or failed-parts was
\* asked to keep it (syncer.go, failed_parts_handler.go), for any number of nodes,
\* parts, retries and stops, and whichever sessions wait or break off.
THEOREM PartsAreHandedOver == Spec => []HandedOver
<1>1. IInv => HandedOver
  BY Zenon DEF IInv
<1> QED BY <1>1, InitIInv, NextIInv, PTL DEF Spec

\* Only a pass changes failed-parts.
LEMMA OnlyPasses ==
    ASSUME IInv, [Next]_vars
    PROVE  \/ UNCHANGED failedParts
           \/ \E p \in sync.stillFailing : p \in Parts /\ \E skips, old, new : Pass(p, skips, old, new)
<1>1. \/ UNCHANGED failedParts
      \/ \E p \in Parts : LinkPart(p)
      \/ \E p \in Parts : \E why : CutShort(p, why)
  <2>1. \A p \in sync.stillFailing : p \in Parts
    BY Zenon DEF IInv, Shapes
  <2> QED BY Zenon, <2>1
             DEF Next, vars, kept, Round, PartStep, SyncSnapshot, Introduce, SyncPartsToNode,
                 RetryPart, RetryCancelled, AlreadyExists, CopyFails, SessionWaits, SessionBroken,
                 Close, Restart, Crash, AddPart
<1>2. ASSUME NEW p \in Parts, LinkPart(p)
      PROVE  p \in sync.stillFailing /\ \E skips, old, new : Pass(p, skips, old, new)
  BY Zenon, <1>2, LinkPartPasses DEF IInv, LinkPart, Copying
<1>3. ASSUME NEW p \in Parts, NEW why, CutShort(p, why)
      PROVE  p \in sync.stillFailing /\ \E skips, old, new : Pass(p, skips, old, new)
  BY Zenon, <1>3, CutShortPasses DEF IInv, CutShort, Copying
<1> QED BY Zenon, <1>1, <1>2, <1>3

-----------------------------------------------------------------------------
(* The size of failed-parts *)

BytesOf(entries) == UNION {{e} \X (1 .. e.size) : e \in entries}

\* The bytes of a set of entries are finitely many.
LEMMA BytesFinite ==
    ASSUME NEW D \in SUBSET EntrySet, IsFiniteSet(D)
    PROVE  /\ IsFiniteSet(BytesOf(D)) /\ TotalSize(D) = Cardinality(BytesOf(D))
           /\ TotalSize(D) \in Nat
<1> DEFINE F == {{e} \X (1 .. e.size) : e \in D}
           f == [e \in D |-> {e} \X (1 .. e.size)]
<1>1. f \in Surjection(D, F)
  BY Zenon DEF Surjection
<1>2. IsFiniteSet(F)
  <2> HIDE DEF f, F
  <2> QED BY Zenon, <1>1, FS_Surjection
<1>3. ASSUME NEW T \in F PROVE IsFiniteSet(T)
  <2>1. PICK e \in D : T = {e} \X (1 .. e.size)
    BY Zenon
  <2>2. e.size \in Nat
    BY Zenon DEF EntrySet
  <2>3. 1 \in Int /\ e.size \in Int
    BY <2>2
  <2>4. IsFiniteSet({e}) /\ IsFiniteSet(1 .. e.size)
    BY Zenon, <2>3, FS_Singleton, FS_Interval
  <2> QED BY Zenon, <2>1, <2>4, FS_Product
<1>4. IsFiniteSet(UNION F)
  <2> HIDE DEF F
  <2> QED BY Zenon, <1>2, <1>3, FS_UNION
<1>5. BytesOf(D) = UNION F /\ TotalSize(D) = Cardinality(BytesOf(D))
  BY Zenon DEF BytesOf, TotalSize
<1> HIDE DEF F
<1> QED BY Zenon, <1>4, <1>5, FS_CardinalityType

\* Fewer entries have fewer bytes.
LEMMA TotalMonotone ==
    ASSUME NEW D \in SUBSET EntrySet, IsFiniteSet(D), NEW C \in SUBSET D
    PROVE  IsFiniteSet(C) /\ TotalSize(C) \in Nat /\ TotalSize(C) <= TotalSize(D)
<1>1. IsFiniteSet(C) /\ C \in SUBSET EntrySet
  BY Zenon, FS_Subset
<1>2. BytesOf(C) \in SUBSET BytesOf(D)
  BY Zenon DEF BytesOf
<1>3. /\ IsFiniteSet(BytesOf(D)) /\ TotalSize(D) = Cardinality(BytesOf(D))
      /\ TotalSize(C) = Cardinality(BytesOf(C)) /\ TotalSize(C) \in Nat
  BY Zenon, <1>1, BytesFinite
<1> QED BY Zenon, <1>1, <1>2, <1>3, FS_Subset

\* A new entry adds its bytes.
LEMMA TotalAdd ==
    ASSUME NEW D \in SUBSET EntrySet, IsFiniteSet(D), NEW x \in EntrySet, x \notin D
    PROVE  TotalSize(D \cup {x}) = TotalSize(D) + x.size
<1> DEFINE N == {x} \X (1 .. x.size)
           C == D \cup {x}
<1>1. C \in SUBSET EntrySet /\ IsFiniteSet(C)
  BY Zenon, FS_Singleton, FS_Union
<1>2. x.size \in Nat
  BY Zenon DEF EntrySet
<1>3. BytesOf(C) = BytesOf(D) \cup N
  <2>1. \A b : b \in BytesOf(C) <=> \E e \in C : b \in {e} \X (1 .. e.size)
    BY Zenon DEF BytesOf
  <2>2. \A b : b \in BytesOf(D) <=> \E e \in D : b \in {e} \X (1 .. e.size)
    BY Zenon DEF BytesOf
  <2> QED BY Zenon, <2>1, <2>2
<1>4. BytesOf(D) \cap N = {}
  <2>1. ASSUME NEW b \in BytesOf(D) PROVE b[1] \in D
    <3>1. PICK e \in D : b \in {e} \X (1 .. e.size)
      BY Zenon DEF BytesOf
    <3> QED BY Zenon, <3>1
  <2>2. \A b \in N : b[1] = x
    BY Zenon
  <2> HIDE DEF N
  <2> QED BY Zenon, <2>1, <2>2
<1>5. IsFiniteSet({x}) /\ Cardinality({x}) = 1
  BY Zenon, FS_Singleton
<1>6. IsFiniteSet(1 .. x.size) /\ Cardinality(1 .. x.size) = x.size
  <2>1. 1 \in Int /\ x.size \in Int
    BY <1>2
  <2>2. /\ IsFiniteSet(1 .. x.size)
        /\ Cardinality(1 .. x.size) = IF 1 > x.size THEN 0 ELSE x.size - 1 + 1
    BY Zenon, <2>1, FS_Interval
  <2> QED BY <1>2, <2>2
<1>7. IsFiniteSet(N) /\ Cardinality(N) = x.size
  <2>1. IsFiniteSet(N) /\ Cardinality(N) = Cardinality({x}) * Cardinality(1 .. x.size)
    BY Zenon, <1>5, <1>6, FS_Product
  <2>2. Cardinality(N) = 1 * x.size
    BY Zenon, <1>5, <1>6, <2>1
  <2> HIDE DEF N
  <2> QED BY <1>2, <2>1, <2>2
<1> HIDE DEF N, C
<1>8. /\ IsFiniteSet(BytesOf(D)) /\ TotalSize(D) = Cardinality(BytesOf(D))
      /\ TotalSize(C) = Cardinality(BytesOf(C)) /\ TotalSize(D) \in Nat
  BY Zenon, <1>1, BytesFinite
<1>9. Cardinality(BytesOf(D) \cup N)
         = Cardinality(BytesOf(D)) + Cardinality(N) - Cardinality(BytesOf(D) \cap N)
  BY Zenon, <1>7, <1>8, FS_Union
<1>10. Cardinality(BytesOf(D) \cap N) = 0
  BY Zenon, <1>4, FS_EmptySet
<1>11. TotalSize(C) = TotalSize(D) + x.size - 0
  BY Zenon, <1>3, <1>7, <1>8, <1>9, <1>10
<1>12. TotalSize(C) = TotalSize(D) + x.size
  BY <1>2, <1>8, <1>11
<1> QED BY Zenon, <1>12 DEF C

SizeInv == IInv /\ limit \in Nat /\ FailedPartsBounded

\* A pass keeps failed-parts within the limit: what it adds fits beside the rest, or is
\* smaller than what it is left of.
LEMMA PassBounded ==
    ASSUME SizeInv, UNCHANGED limit,
           NEW p \in Parts, NEW skips, NEW old, NEW new, Pass(p, skips, old, new)
    PROVE  FailedPartsBounded'
<1>1. /\ failedParts \in SUBSET EntrySet /\ IsFiniteSet(failedParts) /\ clock \in Nat
      /\ \A e \in failedParts : e.at \in 1 .. clock
      /\ limit \in Nat
  BY Zenon DEF SizeInv, IInv, Shapes, Dated
<1>2. old \in SUBSET failedParts /\ old \in SUBSET EntrySet /\ failedParts' = old \cup new
  BY Zenon, <1>1 DEF Pass
<1>3. IsFiniteSet(old) /\ TotalSize(old) \in Nat /\ TotalSize(old) <= TotalSize(failedParts)
  BY Zenon, <1>1, <1>2, TotalMonotone
<1>4. TotalSize(failedParts) \in Nat /\ Size[p] \in Nat
  BY Zenon, <1>1, BytesFinite, SizesAreNat
<1>5. limit > 0 => TotalSize(failedParts) <= limit
  BY Zenon DEF SizeInv, FailedPartsBounded
<1>6. limit > 0 => TotalSize(old \cup new) <= limit
  <2>1. CASE new = {}
    <3>1. old \cup new = old
      BY Zenon, <2>1
    <3>2. limit > 0 => TotalSize(old) <= limit
      BY <1>1, <1>3, <1>4, <1>5
    <3> QED BY Zenon, <3>1, <3>2
  <2>2. ASSUME NEW x \in new PROVE limit > 0 => TotalSize(old \cup new) <= limit
    <3>1. /\ new = {x} /\ x \in EntrySet /\ x.at = clock + 1
          /\ \/ Fits(p, old) /\ x.size <= Size[p]
             \/ \E e \in failedParts \ old : x.size <= e.size
      BY Zenon DEF Pass
    <3>2. x \notin old
      <4>1. \A e \in failedParts : e.at # clock + 1
        BY <1>1
      <4> QED BY Zenon, <1>2, <3>1, <4>1
    <3>3. TotalSize(old \cup new) = TotalSize(old) + x.size /\ x.size \in Nat
      BY Zenon, <1>2, <1>3, <3>1, <3>2, TotalAdd DEF EntrySet
    <3>4. CASE Fits(p, old) /\ x.size <= Size[p]
      BY <1>1, <1>3, <1>4, <3>3, <3>4 DEF Fits
    <3>5. ASSUME NEW e \in failedParts \ old, x.size <= e.size
          PROVE  limit > 0 => TotalSize(old \cup new) <= limit
      <4>1. e \in EntrySet /\ old \cup {e} \in SUBSET failedParts
        BY Zenon, <1>1, <1>2
      <4>2. TotalSize(old \cup {e}) = TotalSize(old) + e.size /\ e.size \in Nat
        BY Zenon, <1>2, <1>3, <4>1, TotalAdd DEF EntrySet
      <4>3. TotalSize(old \cup {e}) <= TotalSize(failedParts)
        BY Zenon, <1>1, <4>1, TotalMonotone
      <4>4. TotalSize(old) + e.size <= TotalSize(failedParts)
        BY Zenon, <4>2, <4>3
      <4> QED BY <1>1, <1>3, <1>4, <1>5, <3>3, <3>5, <4>2, <4>4
    <3> QED BY Zenon, <3>1, <3>4, <3>5
  <2> QED BY Zenon, <2>1, <2>2
<1> QED BY Zenon, <1>2, <1>6 DEF FailedPartsBounded, TotalSize

\* Every step keeps failed-parts within the limit.
LEMMA NextSizeInv == SizeInv /\ [Next]_vars => SizeInv'
<1> SUFFICES ASSUME SizeInv, [Next]_vars PROVE SizeInv'
  BY Zenon
<1>1. IInv' 
  BY Zenon, NextIInv DEF SizeInv
<1>2. UNCHANGED limit
  BY Zenon DEF Next, vars, Round, PartStep, SyncSnapshot, Introduce, SyncPartsToNode, RetryPart,
               RetryCancelled, AlreadyExists, LinkPart, CopyFails, SessionWaits, SessionBroken,
               Close, Restart, Crash, Reopen, AddPart
<1>3. CASE UNCHANGED failedParts
  BY Zenon, <1>1, <1>2, <1>3 DEF SizeInv, FailedPartsBounded, TotalSize
<1>4. ASSUME NEW p \in Parts, NEW skips, NEW old, NEW new, Pass(p, skips, old, new)
      PROVE  SizeInv'
  <2>1. FailedPartsBounded'
    BY Zenon, <1>2, <1>4, PassBounded
  <2> QED BY Zenon, <1>1, <1>2, <2>1 DEF SizeInv
<1> QED BY Zenon, <1>3, <1>4, OnlyPasses DEF SizeInv

\* What an earlier process left in failed-parts is within the limit.
OldPartsFit ==
    \A l \in Limits : l > 0 => TotalSize({Entry(p, Size[p], p) : p \in 1 .. Old}) <= l

\* The directory failed-parts never outgrows maxTotalSizeBytes when it starts within it,
\* whichever entries cannot be examined or removed, whichever copies fail half-way and
\* wherever a crash cuts one short.
THEOREM FailedPartsStayBounded ==
    ASSUME OldPartsFit
    PROVE  Spec => []FailedPartsBounded
<1>1. Init => SizeInv
  <2> SUFFICES ASSUME Init PROVE SizeInv
    BY Zenon
  <2>1. IInv
    BY Zenon, InitIInv
  <2>2. limit \in Limits /\ failedParts = {Entry(p, Size[p], p) : p \in 1 .. Old}
    BY Zenon DEF Init
  <2>3. limit \in Nat
    BY Zenon, <2>2
  <2>4. FailedPartsBounded
    BY Zenon, <2>2 DEF FailedPartsBounded, OldPartsFit
  <2> QED BY Zenon, <2>1, <2>3, <2>4 DEF SizeInv
<1>2. SizeInv => FailedPartsBounded
  BY Zenon DEF SizeInv
<1> QED BY <1>1, <1>2, NextSizeInv, PTL DEF Spec

-----------------------------------------------------------------------------
(* What CopyToFailedPartsDir removes *)

RemovesOnlyNeeded ==
    \A e \in failedParts \ failedParts' :
       /\ \A d \in failedParts \cap failedParts' : d.at > e.at \/ d \in skipped'
       /\ \E p \in sync.stillFailing :
             ~Fits(p, {d \in failedParts : d \in skipped' \/ d.at >= e.at})

\* Every step removes no more than it must.
LEMMA NextRemovesOnlyNeeded == IInv /\ [Next]_vars => RemovesOnlyNeeded
<1> SUFFICES ASSUME IInv, [Next]_vars
             PROVE  RemovesOnlyNeeded
  BY Zenon
<1>1. CASE UNCHANGED failedParts
  BY Zenon, <1>1 DEF RemovesOnlyNeeded
<1>2. ASSUME NEW p \in sync.stillFailing, p \in Parts,
             NEW skips, NEW old, NEW new, Pass(p, skips, old, new)
      PROVE  RemovesOnlyNeeded
  <2>1. /\ failedParts' = old \cup new /\ skipped' = skips
        /\ \A x \in new : x.at = clock + 1
        /\ \A e \in failedParts \ old :
              /\ \A d \in old : d.at > e.at \/ d \in skips
              /\ ~Fits(p, {d \in failedParts : d \in skips \/ d.at >= e.at})
    BY Zenon, <1>2 DEF Pass
  <2>2. \A d \in failedParts : d.at # clock + 1
    <3>1. clock \in Nat /\ \A d \in failedParts : d.at \in 1 .. clock
      BY Zenon DEF IInv, Shapes, Dated
    <3> QED BY <3>1
  <2>3. failedParts \cap failedParts' \subseteq old
    BY Zenon, <2>1, <2>2
  <2> QED BY Zenon, <2>1, <2>3 DEF RemovesOnlyNeeded
<1> QED BY Zenon, <1>1, <1>2, OnlyPasses

\* CopyToFailedPartsDir removes the oldest entries only, but for those it could not
\* examine, and no entry that could have stayed beside them and the younger ones: for any
\* parts, sizes and limits, whichever removals fail and wherever a crash cuts a copy short.
THEOREM OldestGoFirst == Spec => RemovesNoMoreThanNeeded
<1>1. IInv /\ [Next]_vars => [RemovesOnlyNeeded]_vars
  BY Zenon, NextRemovesOnlyNeeded
<1>2. Spec => [][RemovesOnlyNeeded]_vars
  BY <1>1, InitIInv, NextIInv, PTL DEF Spec
<1> QED BY <1>2, PTL DEF RemovesNoMoreThanNeeded, RemovesOnlyNeeded

=============================================================================
