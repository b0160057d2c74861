---------------------------- MODULE HandoffProofs ----------------------------
(***************************************************************************)
(* KeptUntilDelivered, AccountCoversQueue and WithinLimit of Handoff for   *)
(* any nodes, tables, items, keys, sizes, limit, batch and number of       *)
(* restarts.                                                               *)
(*                                                                         *)
(* An item disappears in completeSend alone, a group deletion aside, and   *)
(* completeSend runs many steps after the item was read and sent; it knows *)
(* the directory, not the item.  The first invariant carries over these    *)
(* steps that the directory still holds the item that was read, or that a  *)
(* group deletion has removed it: the syncers never touch a directory that *)
(* exists.                                                                 *)
(*                                                                         *)
(* The account currentTotalSize is changed before an item is linked and    *)
(* after it is removed.  The second invariant adds to what is queued the   *)
(* reservations and what completeSend is still to subtract: no step makes  *)
(* this sum grow by more than the account, and the account grows only in   *)
(* tryReserveSize, below the limit, and at a restart, to what is queued.   *)
(***************************************************************************)
EXTENDS Handoff, FiniteSetTheorems, WellFoundedInduction, TLAPS

-----------------------------------------------------------------------------
(* Sizes *)

Pairs == Nodes \X Items
BytesOf(s) == {b \in s \X (1 .. Largest) : b[2] <= Size[b[1][2]]}

\* A finite set of numbers that is not empty has a largest one.
LEMMA HasMax ==
    ASSUME NEW S \in SUBSET Nat, S # {}, IsFiniteSet(S)
    PROVE  \E x \in S : \A y \in S : x >= y
<1> DEFINE NoMax(T) == T # {} /\ IsFiniteSet(T) /\ \A x \in T : \E y \in T : ~(x >= y)
           Bad == {n \in Nat : \E T \in SUBSET Nat : NoMax(T) /\ Cardinality(T) = n}
<1>1. SUFFICES ASSUME NoMax(S) PROVE FALSE
  BY Zenon
<1>2. Cardinality(S) \in Bad
  BY Zenon, <1>1, FS_CardinalityType
<1>3. \E n \in Bad : \A m \in Bad : ~ (<<m, n>> \in OpToRel(<, Nat))
  <2>1. Bad \subseteq Nat /\ Bad # {}
    BY Zenon, <1>2
  <2> HIDE DEF Bad
  <2> QED BY Zenon, <2>1, NatLessThanWellFounded, WFMin
<1>4. PICK n \in Bad : \A m \in Bad : ~ (m < n)
  BY Zenon, <1>3 DEF OpToRel
<1>5. PICK T \in SUBSET Nat : NoMax(T) /\ Cardinality(T) = n
  BY Zenon, <1>4
<1>6. PICK x \in T : TRUE
  BY Zenon, <1>5
<1> DEFINE R == T \ {x}
<1>7. IsFiniteSet(R) /\ Cardinality(R) \in Nat /\ Cardinality(R) < n
  <2>1. IsFiniteSet(R) /\ Cardinality(R) = Cardinality(T) - 1
    BY Zenon, <1>5, <1>6, FS_RemoveElement
  <2>2. Cardinality(R) \in Nat /\ Cardinality(T) \in Nat
    BY Zenon, <1>5, <2>1, FS_CardinalityType
  <2> HIDE DEF R
  <2> QED BY <1>5, <2>1, <2>2
<1>8. CASE R = {}
  <2>1. \A y \in T : y = x
    BY Zenon, <1>8
  <2>2. x >= x
    BY <1>5, <1>6
  <2> QED BY Zenon, <1>5, <1>6, <2>1, <2>2
<1>9. CASE R # {}
  <2>1. ~NoMax(R)
    <3>1. R \in SUBSET Nat
      BY Zenon, <1>5
    <3> HIDE DEF NoMax, R
    <3> QED BY Zenon, <1>4, <1>7, <3>1
  <2>2. PICK z \in R : \A y \in R : z >= y
    BY Zenon, <1>7, <1>9, <2>1
  <2>3. x \in Nat /\ z \in Nat /\ z \in T
    BY Zenon, <1>5, <1>6, <2>2
  <2>4. CASE z >= x
    BY Zenon, <1>5, <2>2, <2>3, <2>4
  <2>5. CASE ~(z >= x)
    <3>1. ASSUME NEW y \in T PROVE x >= y
      <4>1. y \in Nat /\ (y = x \/ z >= y)
        BY Zenon, <1>5, <2>2
      <4> QED BY <2>3, <2>5, <4>1
    <3> QED BY Zenon, <1>5, <1>6, <3>1
  <2> QED BY Zenon, <2>4, <2>5
<1> QED BY Zenon, <1>8, <1>9

\* No item is larger than Largest.
LEMMA LargestItem == Largest \in Nat /\ \A i \in Items : Size[i] \in 0 .. Largest
<1> DEFINE T == {Size[i] : i \in Items}
           S == {0} \cup T
           f == [i \in Items |-> Size[i]]
<1>1. S \in SUBSET Nat /\ S # {}
  <2>1. 0 \in Nat
    OBVIOUS
  <2> QED BY Zenon, <2>1, HandoffAssumption
<1>2. f \in Surjection(Items, T)
  BY Zenon DEF Surjection
<1>3. IsFiniteSet(T)
  <2> HIDE DEF f, T
  <2> QED BY Zenon, <1>2, FS_Surjection, HandoffAssumption
<1>4. IsFiniteSet(S)
  <2>1. S = T \cup {0}
    BY Zenon
  <2> QED BY Zenon, <1>3, <2>1, FS_AddElement
<1>5. Largest = Max(S)
  BY Zenon DEF Largest
<1>6. \E x \in S : \A y \in S : x >= y
  <2> HIDE DEF S
  <2> QED BY Zenon, <1>1, <1>4, HasMax
<1>7. Largest \in S /\ \A y \in S : Largest >= y
  <2> HIDE DEF S
  <2> QED BY Zenon, <1>5, <1>6 DEF Max
<1>8. \A i \in Items : Size[i] \in S /\ Size[i] \in Nat
  BY Zenon, HandoffAssumption
<1> HIDE DEF S
<1>9. Largest \in Nat
  BY Zenon, <1>1, <1>7
<1>10. \A i \in Items : Largest >= Size[i] /\ Size[i] \in Nat
  BY Zenon, <1>7, <1>8
<1> QED BY <1>9, <1>10

\* A set of pairs has finitely many bytes.
LEMMA BytesFinite ==
    ASSUME NEW s \in SUBSET Pairs
    PROVE  IsFiniteSet(BytesOf(s)) /\ Bytes(s) = Cardinality(BytesOf(s)) /\ Bytes(s) \in Nat
<1>1. IsFiniteSet(Pairs)
  BY Zenon, HandoffAssumption, FS_Product DEF Pairs
<1>2. IsFiniteSet(s)
  BY Zenon, <1>1, FS_Subset
<1>3. IsFiniteSet(1 .. Largest)
  <2>1. 1 \in Int /\ Largest \in Int
    BY LargestItem
  <2> QED BY Zenon, <2>1, FS_Interval
<1>4. IsFiniteSet(s \X (1 .. Largest))
  BY Zenon, <1>2, <1>3, FS_Product
<1>5. BytesOf(s) \in SUBSET (s \X (1 .. Largest))
  BY Zenon DEF BytesOf
<1>6. IsFiniteSet(BytesOf(s))
  BY Zenon, <1>4, <1>5, FS_Subset
<1>7. Bytes(s) = Cardinality(BytesOf(s))
  BY Zenon DEF Bytes, BytesOf
<1> QED BY Zenon, <1>6, <1>7, FS_CardinalityType

\* An empty queue has none.
LEMMA BytesEmpty == Bytes({}) = 0
<1>1. BytesOf({}) = {}
  BY Zenon DEF BytesOf
<1> QED BY Zenon, <1>1, FS_EmptySet DEF Bytes, BytesOf

\* More pairs have more bytes.
LEMMA BytesMono ==
    ASSUME NEW t \in SUBSET Pairs, NEW s \in SUBSET t
    PROVE  Bytes(s) <= Bytes(t)
<1>1. s \in SUBSET Pairs
  BY Zenon
<1>2. BytesOf(s) \in SUBSET BytesOf(t)
  BY Zenon DEF BytesOf
<1>3. Cardinality(BytesOf(s)) <= Cardinality(BytesOf(t))
  BY Zenon, <1>2, BytesFinite, FS_Subset
<1> QED BY Zenon, <1>1, <1>3, BytesFinite

\* The bytes of a union: the sum, when no pair is in both sets.
LEMMA BytesUnion ==
    ASSUME NEW s \in SUBSET Pairs, NEW t \in SUBSET Pairs
    PROVE  /\ Bytes(s \cup t) <= Bytes(s) + Bytes(t)
           /\ s \cap t = {} => Bytes(s \cup t) = Bytes(s) + Bytes(t)
<1> DEFINE S == BytesOf(s) T == BytesOf(t)
<1>1. S \cup T = BytesOf(s \cup t) /\ (s \cap t = {} => S \cap T = {})
  BY Zenon DEF BytesOf
<1>2. IsFiniteSet(S) /\ IsFiniteSet(T) /\ s \cup t \in SUBSET Pairs
  BY Zenon, BytesFinite
<1>3. /\ Cardinality(S \cup T) = Cardinality(S) + Cardinality(T) - Cardinality(S \cap T)
      /\ IsFiniteSet(S \cap T)
  BY Zenon, <1>2, FS_Union, FS_Intersection
<1>4. Cardinality(S \cap T) \in Nat
  BY Zenon, <1>3, FS_CardinalityType
<1>5. s \cap t = {} => Cardinality(S \cap T) = 0
  BY Zenon, <1>1, FS_EmptySet
<1>6. /\ Bytes(s) = Cardinality(S) /\ Bytes(t) = Cardinality(T)
      /\ Bytes(s) \in Nat /\ Bytes(t) \in Nat
      /\ Bytes(s \cup t) = Cardinality(S \cup T)
  BY Zenon, <1>1, <1>2, BytesFinite
<1> HIDE DEF S, T
<1> QED BY <1>3, <1>4, <1>5, <1>6

\* One pair has the bytes of its item.
LEMMA BytesOne ==
    ASSUME NEW e \in Pairs
    PROVE  Bytes({e}) = Size[e[2]] /\ Size[e[2]] \in Nat
<1>1. e[2] \in Items
  BY Zenon DEF Pairs
<1>2. Size[e[2]] \in 0 .. Largest /\ Largest \in Nat
  BY Zenon, <1>1, LargestItem
<1>3. BytesOf({e}) = {e} \X (1 .. Size[e[2]])
  <2>1. \A k : k \in 1 .. Size[e[2]] <=> k \in 1 .. Largest /\ k <= Size[e[2]]
    BY <1>2
  <2> QED BY Zenon, <2>1 DEF BytesOf
<1>4. IsFiniteSet({e}) /\ Cardinality({e}) = 1
  BY Zenon, FS_Singleton
<1>5. /\ IsFiniteSet(1 .. Size[e[2]])
      /\ Cardinality(1 .. Size[e[2]]) = Size[e[2]]
  <2>1. 1 \in Int /\ Size[e[2]] \in Int
    BY <1>2
  <2>2. /\ IsFiniteSet(1 .. Size[e[2]])
        /\ Cardinality(1 .. Size[e[2]]) = IF 1 > Size[e[2]] THEN 0 ELSE Size[e[2]] - 1 + 1
    BY Zenon, <2>1, FS_Interval
  <2> QED BY <1>2, <2>2
<1>6. Cardinality(BytesOf({e})) = 1 * Size[e[2]]
  <2>1. Cardinality({e} \X (1 .. Size[e[2]])) = Cardinality({e}) * Cardinality(1 .. Size[e[2]])
    BY Zenon, <1>4, <1>5, FS_Product
  <2> QED BY Zenon, <1>3, <1>4, <1>5, <2>1
<1>7. Bytes({e}) = Cardinality(BytesOf({e}))
  BY Zenon, BytesFinite
<1> QED BY <1>2, <1>6, <1>7

\* What is taken out of a set takes its bytes along.
LEMMA BytesWithout ==
    ASSUME NEW t \in SUBSET Pairs, NEW s \in SUBSET t
    PROVE  Bytes(t) = Bytes(t \ s) + Bytes(s)
<1>1. /\ t \ s \in SUBSET Pairs /\ s \in SUBSET Pairs
      /\ (t \ s) \cup s = t /\ (t \ s) \cap s = {}
  BY Zenon
<1> QED BY Zenon, <1>1, BytesUnion

\* A set of numbers that is not empty has a least one ...
LEMMA LeastOfNaturals ==
    ASSUME NEW S \in SUBSET Nat, S # {}
    PROVE  \E x \in S : \A y \in S : ~(y < x)
<1>1. \E x \in S : \A y \in S : ~ (<<y, x>> \in OpToRel(<, Nat))
  BY Zenon, NatLessThanWellFounded, WFMin
<1> QED BY Zenon, <1>1 DEF OpToRel

\* ... and Min returns it.
LEMMA MinOfNaturals ==
    ASSUME NEW S \in SUBSET Nat, S # {}
    PROVE  Min(S) \in S
<1>1. PICK x \in S : \A y \in S : ~ (y < x)
  BY Zenon, LeastOfNaturals
<1>2. \A y \in S : x =< y
  BY <1>1
<1> QED BY Zenon, <1>2 DEF Min

-----------------------------------------------------------------------------
(* The shape of the state *)

States == {"none", "bare", "torn", "queued"}
Busy == {"read", "send", "measure", "complete", "subtract"}

PartsOf(t) == {p \in Parts : Table[p] = t}
PairsOf(t) == Nodes \X ItemsOf(PartsOf(t))

ReplayOK ==
    /\ replay = [pc |-> replay.pc, nodes |-> replay.nodes, at |-> replay.at,
                 items |-> replay.items, data |-> replay.data, full |-> replay.full,
                 size |-> replay.size]
    /\ replay.nodes \subseteq Nodes /\ replay.items \subseteq Items /\ replay.size \in Nat
    /\ replay.pc \in Busy => replay.at \in Nodes /\ replay.items # {}
    /\ replay.pc = "complete" => replay.size <= Largest

RoundOK(t, r) ==
    /\ r = [pc |-> r.pc, parts |-> r.parts, nodes |-> r.nodes, todo |-> r.todo, entry |-> r.entry]
    /\ r.parts \subseteq PartsOf(t) /\ r.nodes \subseteq Nodes
    /\ r.todo \subseteq PairsOf(t) /\ r.entry \subseteq PairsOf(t)

SyncOK == sync = [t \in Tables |-> sync[t]] /\ \A t \in Tables : RoundOK(t, sync[t])

\* A directory holds one item.
OneItem ==
    \A n \in Nodes : \A i, j \in Items :
        disk[n][i] # "none" /\ disk[n][j] # "none" /\ Key[i] = Key[j] => i = j

DiskOK == disk \in [Nodes -> [Items -> States]] /\ OneItem

\* A queue has its .node_info file.
InfoOK ==
    /\ info \in [Nodes -> {"none", "empty", "written"}]
    /\ \A e \in Queued : info[e[1]] # "none"

OtherOK ==
    total \in Nat /\ loaded \subseteq Nodes /\ up \subseteq Nodes /\ table \subseteq Parts
    /\ deleted \in BOOLEAN

Shapes == DiskOK /\ InfoOK /\ OtherOK /\ SyncOK /\ ReplayOK

\* The tables reserve for different items.
LEMMA TablesApart ==
    ASSUME NEW t \in Tables, NEW u \in Tables, t # u
    PROVE  PairsOf(t) \cap PairsOf(u) = {}
<1>1. SUFFICES ASSUME NEW e \in PairsOf(t), e \in PairsOf(u) PROVE FALSE
  BY Zenon
<1>2. e[2] \in ItemsOf(PartsOf(t)) /\ e[2] \in ItemsOf(PartsOf(u))
  BY Zenon, <1>1 DEF PairsOf
<1>3. PICK p \in PartsOf(t), q \in PartsOf(u) : e[2] \in Item[p] /\ e[2] \in Item[q]
  BY Zenon, <1>2 DEF ItemsOf
<1>4. p \in Parts /\ q \in Parts /\ p # q
  BY Zenon, <1>3 DEF PartsOf
<1> QED BY Zenon, <1>3, <1>4, HandoffAssumption

\* They are pairs of the system.
LEMMA PairsOfTable == \A t : PairsOf(t) \subseteq Pairs
<1>1. \A t : ItemsOf(PartsOf(t)) \subseteq Items
  BY Zenon DEF ItemsOf, PartsOf, Items
<1> QED BY Zenon, <1>1 DEF PairsOf, Pairs

\* A round that is well formed ...
LEMMA RoundIs ==
    ASSUME NEW t, NEW pc, NEW ps \in SUBSET PartsOf(t), NEW ns \in SUBSET Nodes,
           NEW td \in SUBSET PairsOf(t), NEW en \in SUBSET PairsOf(t)
    PROVE  RoundOK(t, [pc |-> pc, parts |-> ps, nodes |-> ns, todo |-> td, entry |-> en])
BY Zenon DEF RoundOK

\* ... takes the place of another one, and leaves those of the other tables alone: the
\* reservation of its table is replaced.
LEMMA SyncIs ==
    ASSUME SyncOK, NEW t \in Tables, NEW r, RoundOK(t, r), sync' = [sync EXCEPT ![t] = r]
    PROVE  SyncOK' /\ Reserved' = (Reserved \ sync[t].entry) \cup r.entry
<1>1. sync = [u \in Tables |-> sync[u]]
  BY Zenon DEF SyncOK
<1>2. sync' = [u \in Tables |-> IF u = t THEN r ELSE sync[u]]
  BY Zenon, <1>1
<1>3. sync'[t] = r /\ \A u \in Tables : u # t => sync'[u] = sync[u]
  BY Zenon, <1>2
<1>4. SyncOK'
  <2>1. sync' = [u \in Tables |-> sync'[u]]
    BY Zenon, <1>2
  <2>2. \A u \in Tables : RoundOK(u, sync'[u])
    BY Zenon, <1>3 DEF SyncOK
  <2>3. \A u \in Tables : RoundOK(u, sync[u])'
    BY Zenon, <2>2 DEF RoundOK, PartsOf, PairsOf, ItemsOf
  <2> QED BY Zenon, <2>1, <2>3 DEF SyncOK
<1>5. ASSUME NEW u \in Tables, u # t, NEW e \in sync[u].entry PROVE e \notin sync[t].entry
  <2>1. e \in PairsOf(u) /\ sync[t].entry \subseteq PairsOf(t)
    BY Zenon, <1>5 DEF SyncOK, RoundOK
  <2> QED BY Zenon, <1>5, <2>1, TablesApart
<1>6. Reserved' = (Reserved \ sync[t].entry) \cup r.entry
  <2>1. ASSUME NEW e \in Reserved' PROVE e \in (Reserved \ sync[t].entry) \cup r.entry
    <3>1. PICK u \in Tables : e \in sync'[u].entry
      BY Zenon, <2>1 DEF Reserved
    <3> QED BY Zenon, <1>3, <1>5, <3>1 DEF Reserved
  <2>2. ASSUME NEW e \in (Reserved \ sync[t].entry) \cup r.entry PROVE e \in Reserved'
    <3>1. CASE e \in r.entry
      BY Zenon, <1>3, <3>1 DEF Reserved
    <3>2. CASE e \notin r.entry
      <4>1. PICK u \in Tables : e \in sync[u].entry /\ e \notin sync[t].entry
        BY Zenon, <2>2, <3>2 DEF Reserved
      <4> QED BY Zenon, <1>3, <4>1 DEF Reserved
    <3> QED BY Zenon, <3>1, <3>2
  <2> QED BY Zenon, <2>1, <2>2
<1> QED BY Zenon, <1>4, <1>6

\* All rounds are dropped when the liaison starts again.
LEMMA SyncFresh ==
    ASSUME sync' = [t \in Tables |-> SyncIdle]
    PROVE  SyncOK' /\ Reserved' = {}
<1>1. \A t \in Tables : sync'[t] = SyncIdle
  BY Zenon
<1>2. \A t : RoundOK(t, SyncIdle)
  BY Zenon DEF RoundOK, SyncIdle
<1>3. \A t \in Tables : RoundOK(t, sync[t])'
  <2>1. \A t \in Tables : RoundOK(t, sync'[t])
    BY Zenon, <1>1, <1>2
  <2> QED BY Zenon, <2>1 DEF RoundOK, PartsOf, PairsOf, ItemsOf
<1>4. Reserved' = {}
  BY Zenon, <1>1 DEF Reserved, SyncIdle
<1> QED BY Zenon, <1>3, <1>4 DEF SyncOK

\* The reservations are pairs of the system.
LEMMA ReservedPairs == SyncOK => Reserved \in SUBSET Pairs
<1> SUFFICES ASSUME SyncOK, NEW e \in Reserved PROVE e \in Pairs
  BY Zenon
<1>1. PICK t \in Tables : e \in sync[t].entry
  BY Zenon DEF Reserved
<1> QED BY Zenon, <1>1, PairsOfTable DEF SyncOK, RoundOK

\* The item the worker is busy with is one of its batch.
LEMMA CurrentItem ==
    ASSUME ReplayOK, replay.pc \in Busy
    PROVE  Current \in replay.items /\ Current \in Items /\ replay.at \in Nodes
<1>1. replay.items \in SUBSET Items /\ replay.items # {} /\ replay.at \in Nodes
  BY Zenon DEF ReplayOK
<1>2. replay.items \in SUBSET Nat
  BY Zenon, <1>1, HandoffAssumption
<1>3. Current \in replay.items
  BY Zenon, <1>1, <1>2, MinOfNaturals DEF Current
<1> QED BY Zenon, <1>1, <1>3

\* A worker that is well formed.
LEMMA ReplayIs ==
    ASSUME NEW pc, NEW ns \in SUBSET Nodes, NEW at, NEW its \in SUBSET Items,
           NEW da, NEW fu, NEW n \in Nat,
           replay' = [pc |-> pc, nodes |-> ns, at |-> at, items |-> its,
                      data |-> da, full |-> fu, size |-> n],
           pc \in Busy => at \in Nodes /\ its # {}, pc = "complete" => n <= Largest
    PROVE  ReplayOK' /\ replay'.pc = pc
<1>1. /\ replay'.pc = pc /\ replay'.nodes = ns /\ replay'.at = at
      /\ replay'.items = its /\ replay'.size = n
  BY Zenon
<1>2. replay' = [pc |-> replay'.pc, nodes |-> replay'.nodes, at |-> replay'.at,
                 items |-> replay'.items, data |-> replay'.data, full |-> replay'.full,
                 size |-> replay'.size]
  BY Zenon
<1>3. Largest' = Largest
  BY Zenon DEF Largest, Items
<1>4. ReplayOK'
  BY Zenon, <1>1, <1>2, <1>3 DEF ReplayOK, Busy
<1> QED BY Zenon, <1>1, <1>4

\* What the worker turns to next.
LEMMA NextNodeOK ==
    ASSUME NEW left \in SUBSET Nodes, replay' = NextNode(left)
    PROVE  ReplayOK' /\ replay'.pc \in {"idle", "visit"}
<1> DEFINE pc == IF left = {} THEN "idle" ELSE "visit"
<1>1. replay' = [pc |-> pc, nodes |-> left, at |-> 0, items |-> {},
                 data |-> {}, full |-> {}, size |-> 0]
  BY Zenon DEF NextNode, ReplayIdle
<1>2. 0 \in Nat /\ {} \in SUBSET Items
  OBVIOUS
<1>3. pc \in {"idle", "visit"} /\ pc \notin Busy /\ pc # "complete"
  BY Zenon DEF Busy
<1> HIDE DEF pc
<1> QED BY Zenon, <1>1, <1>2, <1>3, ReplayIs

\* The worker turns to the next item of its batch, or the next node.
LEMMA NextItemOK ==
    ASSUME ReplayOK, replay.pc \in Busy, replay' = NextItem
    PROVE  ReplayOK' /\ replay'.pc \in {"idle", "visit", "read"}
<1> DEFINE rest == replay.items \ {Current}
<1>1. CASE rest = {}
  <2>1. replay' = NextNode(replay.nodes) /\ replay.nodes \in SUBSET Nodes
    BY Zenon, <1>1 DEF NextItem, ReplayOK
  <2> QED BY Zenon, <2>1, NextNodeOK
<1>2. CASE rest # {}
  <2>1. replay' = [pc |-> "read", nodes |-> replay.nodes, at |-> replay.at,
                   items |-> rest, data |-> {}, full |-> {}, size |-> 0]
    BY Zenon, <1>2 DEF NextItem, ReplayOK
  <2>2. 0 \in Nat /\ "read" # "complete"
    OBVIOUS
  <2>3. rest \in SUBSET Items /\ replay.nodes \in SUBSET Nodes /\ replay.at \in Nodes
    BY Zenon DEF ReplayOK
  <2> HIDE DEF rest
  <2> QED BY Zenon, <1>2, <2>1, <2>2, <2>3, ReplayIs
<1> QED BY Zenon, <1>1, <1>2

-----------------------------------------------------------------------------
(* What the steps do to the queues *)

\* The pairs of a node and an item.
LEMMA PairParts ==
    ASSUME NEW e \in Pairs
    PROVE  e = <<e[1], e[2]>> /\ e[1] \in Nodes /\ e[2] \in Items
BY DEF Pairs

\* complete takes the pairs it is given out of the queues, and nothing else.
LEMMA DiskComplete ==
    ASSUME DiskOK, NEW gone, Complete(gone)
    PROVE  /\ DiskOK' /\ Queued' = Queued \ gone /\ Whole' = Whole \ gone
           /\ \A n \in Nodes, i \in Items : <<n, i>> \notin gone => disk'[n][i] = disk[n][i]
<1>1. disk' = [n \in Nodes |-> [i \in Items |->
                  IF <<n, i>> \in gone THEN "none" ELSE disk[n][i]]]
  BY Zenon DEF Complete
<1>2. disk' \in [Nodes -> [Items -> States]]
  BY Zenon, <1>1 DEF DiskOK, States
<1>3. ASSUME NEW n \in Nodes, NEW i \in Items
      PROVE  disk'[n][i] = IF <<n, i>> \in gone THEN "none" ELSE disk[n][i]
  BY Zenon, <1>1
<1>4. OneItem'
  BY Zenon, <1>3 DEF DiskOK, OneItem
<1>5. ASSUME NEW e \in Pairs
      PROVE  /\ e \in Queued' <=> e \in Queued /\ e \notin gone
             /\ e \in Whole' <=> e \in Whole /\ e \notin gone
  <2>1. disk'[e[1]][e[2]] = IF e \in gone THEN "none" ELSE disk[e[1]][e[2]]
    BY Zenon, <1>3, PairParts
  <2> QED BY Zenon, <2>1 DEF Queued, Whole, Pairs
<1>6. Queued \subseteq Pairs /\ Queued' \subseteq Pairs /\ Whole \subseteq Pairs /\ Whole' \subseteq Pairs
  BY Zenon DEF Queued, Whole, Pairs
<1>7. Queued' = Queued \ gone /\ Whole' = Whole \ gone
  BY Zenon, <1>5, <1>6
<1> QED BY Zenon, <1>2, <1>3, <1>4, <1>7 DEF DiskOK

\* One directory changes.
LEMMA DiskSet ==
    ASSUME DiskOK, NEW e \in Pairs, NEW v \in States, disk' = [disk EXCEPT ![e[1]][e[2]] = v]
    PROVE  /\ disk' \in [Nodes -> [Items -> States]]
           /\ \A n \in Nodes, i \in Items :
                 disk'[n][i] = IF <<n, i>> = e THEN v ELSE disk[n][i]
           /\ \A f \in Pairs : /\ f # e => (f \in Queued' <=> f \in Queued)
                               /\ f # e => (f \in Whole' <=> f \in Whole)
           /\ e \in Queued' <=> v \in {"queued", "torn"}
           /\ e \in Whole' <=> v = "queued"
<1>1. PICK n \in Nodes, i \in Items : e = <<n, i>> /\ e[1] = n /\ e[2] = i
  BY Zenon, PairParts
<1>2. disk \in [Nodes -> [Items -> States]] /\ disk' = [disk EXCEPT ![n][i] = v]
  BY Zenon, <1>1 DEF DiskOK
<1>3. disk' \in [Nodes -> [Items -> States]]
  <2>1. disk[n] \in [Items -> States]
    BY Zenon, <1>2
  <2>2. [disk[n] EXCEPT ![i] = v] \in [Items -> States]
    BY <2>1
  <2>3. disk' = [disk EXCEPT ![n] = [disk[n] EXCEPT ![i] = v]]
    BY Zenon, <1>2
  <2> QED BY <1>2, <2>2, <2>3
<1>4. ASSUME NEW m \in Nodes, NEW j \in Items
      PROVE  disk'[m][j] = IF m = n /\ j = i THEN v ELSE disk[m][j]
  BY <1>2
<1>5. ASSUME NEW m \in Nodes, NEW j \in Items
      PROVE  disk'[m][j] = IF <<m, j>> = e THEN v ELSE disk[m][j]
  BY Zenon, <1>1, <1>4
<1>6. ASSUME NEW f \in Pairs
      PROVE  disk'[f[1]][f[2]] = IF f = e THEN v ELSE disk[f[1]][f[2]]
  <2>1. PICK m \in Nodes, j \in Items : f = <<m, j>> /\ f[1] = m /\ f[2] = j
    BY Zenon, PairParts
  <2> QED BY Zenon, <1>5, <2>1
<1>7. \A f \in Pairs : /\ f \in Queued' <=> disk'[f[1]][f[2]] \in {"queued", "torn"}
                       /\ f \in Queued <=> disk[f[1]][f[2]] \in {"queued", "torn"}
                       /\ f \in Whole' <=> disk'[f[1]][f[2]] = "queued"
                       /\ f \in Whole <=> disk[f[1]][f[2]] = "queued"
  BY Zenon DEF Queued, Whole, Pairs
<1>8. ASSUME NEW f \in Pairs, f # e
      PROVE  (f \in Queued' <=> f \in Queued) /\ (f \in Whole' <=> f \in Whole)
  BY Zenon, <1>6, <1>7, <1>8
<1>9. (e \in Queued' <=> v \in {"queued", "torn"}) /\ (e \in Whole' <=> v = "queued")
  BY Zenon, <1>6, <1>7
<1> QED BY Zenon, <1>3, <1>5, <1>8, <1>9

\* enqueue, or what a crash leaves of it, takes a free directory.
LEMMA DiskFill ==
    ASSUME DiskOK, NEW e \in Pairs, ~Occupied(e),
           NEW v \in {"bare", "queued"}, disk' = [disk EXCEPT ![e[1]][e[2]] = v]
    PROVE  /\ DiskOK' /\ Whole \subseteq Whole' /\ e \notin Queued
           /\ v = "queued" => Queued' = Queued \cup {e}
           /\ v = "bare" => Queued' = Queued
           /\ \A n \in Nodes, i \in Items : disk[n][i] # "none" => disk'[n][i] = disk[n][i]
<1>1. v \in States /\ v # "none" /\ v # "torn" /\ "bare" # "queued" /\ "bare" \notin {"queued", "torn"}
  BY Zenon DEF States
<1>2. \A f \in Pairs : f[1] = e[1] /\ Key[f[2]] = Key[e[2]] => disk[f[1]][f[2]] = "none"
  BY Zenon DEF Occupied, At, Pairs
<1>3. \A i \in Items : Key[i] = Key[e[2]] => disk[e[1]][i] = "none"
  <2>1. ASSUME NEW i \in Items, Key[i] = Key[e[2]] PROVE disk[e[1]][i] = "none"
    <3>1. <<e[1], i>> \in Pairs /\ <<e[1], i>>[1] = e[1] /\ <<e[1], i>>[2] = i
      BY Zenon, PairParts DEF Pairs
    <3> QED BY Zenon, <1>2, <2>1, <3>1
  <2> QED BY Zenon, <2>1
<1>4. disk[e[1]][e[2]] = "none" /\ e \notin Queued /\ e \notin Whole
  BY Zenon, <1>3, PairParts DEF Queued, Whole
<1>5. /\ disk' \in [Nodes -> [Items -> States]]
      /\ \A n \in Nodes, i \in Items : disk'[n][i] = IF <<n, i>> = e THEN v ELSE disk[n][i]
      /\ \A f \in Pairs : /\ f # e => (f \in Queued' <=> f \in Queued)
                          /\ f # e => (f \in Whole' <=> f \in Whole)
      /\ e \in Queued' <=> v \in {"queued", "torn"}
  BY Zenon, <1>1, DiskSet
<1>6. OneItem'
  <2>1. SUFFICES ASSUME NEW n \in Nodes, NEW i \in Items, NEW j \in Items, Key[i] = Key[j],
                        disk'[n][i] # "none", disk'[n][j] # "none"
                 PROVE  i = j
    BY Zenon DEF OneItem
  <2>2. CASE <<n, i>> = e
    <3>1. e[1] = n /\ e[2] = i
      BY Zenon, <2>2
    <3>2. disk[n][j] = "none"
      BY Zenon, <1>3, <2>1, <3>1
    <3>3. <<n, j>> = e
      BY Zenon, <1>5, <2>1, <3>2
    <3>4. e[2] = j
      BY Zenon, <3>3
    <3> QED BY Zenon, <3>1, <3>4
  <2>3. CASE <<n, j>> = e
    <3>1. e[1] = n /\ e[2] = j
      BY Zenon, <2>3
    <3>2. disk[n][i] = "none"
      BY Zenon, <1>3, <2>1, <3>1
    <3>3. <<n, i>> = e
      BY Zenon, <1>5, <2>1, <3>2
    <3>4. e[2] = i
      BY Zenon, <3>3
    <3> QED BY Zenon, <3>1, <3>4
  <2>4. CASE <<n, i>> # e /\ <<n, j>> # e
    BY Zenon, <1>5, <2>1, <2>4 DEF DiskOK, OneItem
  <2> QED BY Zenon, <2>2, <2>3, <2>4
<1>7. Queued \subseteq Pairs /\ Queued' \subseteq Pairs /\ Whole \subseteq Pairs
  BY Zenon DEF Queued, Whole, Pairs
<1>8. Whole \subseteq Whole'
  BY Zenon, <1>4, <1>5, <1>7
<1>9. v = "queued" => Queued' = Queued \cup {e}
  BY Zenon, <1>5, <1>7
<1>10. ASSUME v = "bare" PROVE Queued' = Queued
  <2>1. e \notin Queued'
    BY Zenon, <1>1, <1>5, <1>10
  <2>2. \A f \in Pairs : f \in Queued' <=> f \in Queued
    BY Zenon, <1>4, <1>5, <2>1
  <2> QED BY Zenon, <1>7, <2>2
<1>11. \A n \in Nodes, i \in Items : disk[n][i] # "none" => disk'[n][i] = disk[n][i]
  <2>1. ASSUME NEW n \in Nodes, NEW i \in Items, disk[n][i] # "none" PROVE <<n, i>> # e
    <3>1. SUFFICES ASSUME <<n, i>> = e PROVE FALSE
      BY Zenon
    <3>2. e[1] = n /\ e[2] = i
      BY Zenon, <3>1
    <3> QED BY Zenon, <1>4, <2>1, <3>2
  <2> QED BY Zenon, <1>5, <2>1
<1> QED BY Zenon, <1>4, <1>5, <1>6, <1>8, <1>9, <1>10, <1>11 DEF DiskOK

\* A removal that stops half way.
LEMMA DiskHalf ==
    ASSUME DiskOK, NEW e \in Queued, HalfRemoved(e)
    PROVE  /\ DiskOK' /\ Queued' \subseteq Queued /\ Whole \ {e} \subseteq Whole'
<1>1. PICK v \in {"none", "bare", "torn"} : disk' = [disk EXCEPT ![e[1]][e[2]] = v]
  BY Zenon DEF HalfRemoved
<1>2. v \in States /\ e \in Pairs /\ disk[e[1]][e[2]] # "none"
  BY Zenon DEF States, Queued, Pairs
<1>3. /\ disk' \in [Nodes -> [Items -> States]]
      /\ \A n \in Nodes, i \in Items : disk'[n][i] = IF <<n, i>> = e THEN v ELSE disk[n][i]
      /\ \A f \in Pairs : /\ f # e => (f \in Queued' <=> f \in Queued)
                          /\ f # e => (f \in Whole' <=> f \in Whole)
  BY Zenon, <1>1, <1>2, DiskSet
<1>4. \A n \in Nodes, i \in Items : disk'[n][i] # "none" => disk[n][i] # "none"
  <2>1. ASSUME NEW n \in Nodes, NEW i \in Items, disk'[n][i] # "none", disk[n][i] = "none"
        PROVE  FALSE
    <3>1. ASSUME <<n, i>> = e PROVE FALSE
      <4>1. e[1] = n /\ e[2] = i
        BY Zenon, <3>1
      <4> QED BY Zenon, <1>2, <2>1, <4>1
    <3> QED BY Zenon, <1>3, <2>1, <3>1
  <2> QED BY Zenon, <2>1
<1>5. OneItem'
  BY Zenon, <1>4 DEF DiskOK, OneItem
<1>6. Queued' \subseteq Pairs /\ Whole \subseteq Pairs
  BY Zenon DEF Queued, Whole, Pairs
<1>7. Queued' \subseteq Queued /\ Whole \ {e} \subseteq Whole'
  BY Zenon, <1>3, <1>6
<1> QED BY Zenon, <1>3, <1>5, <1>7 DEF DiskOK

\* .node_info is written once.
LEMMA InfoWritten ==
    ASSUME InfoOK, NEW n \in Nodes, WriteNodeInfo(n)
    PROVE  /\ info' \in [Nodes -> {"none", "empty", "written"}] /\ info'[n] # "none"
           /\ \A m \in Nodes : info[m] # "none" => info'[m] = info[m]
<1>1. PICK v \in {"written", "empty"} : info' = [info EXCEPT ![n] = IF @ = "none" THEN v ELSE @]
  BY Zenon DEF WriteNodeInfo
<1>2. info \in [Nodes -> {"none", "empty", "written"}]
  BY Zenon DEF InfoOK
<1> QED BY <1>1, <1>2

\* Queues that lose items, or get one whose node has its file, are named.
LEMMA InfoStays ==
    ASSUME InfoOK, info' \in [Nodes -> {"none", "empty", "written"}],
           \A m \in Nodes : info[m] # "none" => info'[m] = info[m],
           NEW e, Queued' \subseteq Queued \cup {e}, e \in Queued' => info'[e[1]] # "none"
    PROVE  InfoOK'
<1>1. ASSUME NEW f \in Queued' PROVE info'[f[1]] # "none"
  <2>1. f[1] \in Nodes
    BY Zenon DEF Queued
  <2> QED BY Zenon, <1>1, <2>1 DEF InfoOK
<1> QED BY Zenon, <1>1 DEF InfoOK

\* A queue that has lost its name does not get it back.
LEMMA StaysNameless ==
    ASSUME \A m \in Nodes : info[m] # "none" => info'[m] = info[m], Nameless
    PROVE  Nameless'
BY Zenon DEF Nameless

\* A controller that has just been made is well formed.
LEMMA FreshShapes ==
    ASSUME Shapes, NewHandoffController, DiskOK', InfoOK', up' = up, table' \subseteq Parts,
           UNCHANGED deleted \/ deleted' = TRUE
    PROVE  Shapes' /\ Reserved' = {} /\ replay'.pc = "idle"
<1>1. /\ replay' = [pc |-> "idle", nodes |-> {}, at |-> 0, items |-> {},
                    data |-> {}, full |-> {}, size |-> 0]
      /\ total' = Bytes({e \in Queued' : e[1] \in loaded'}) /\ loaded' \subseteq Nodes
      /\ sync' = [t \in Tables |-> SyncIdle]
  BY Zenon DEF NewHandoffController, ReplayIdle
<1>2. /\ 0 \in Nat /\ {} \in SUBSET Nodes /\ {} \in SUBSET Items
      /\ "idle" \notin Busy /\ "idle" # "complete"
  BY DEF Busy
<1>3. ReplayOK' /\ replay'.pc = "idle"
  BY Zenon, <1>1, <1>2, ReplayIs
<1>4. total' \in Nat
  <2>1. {e \in Queued' : e[1] \in loaded'} \in SUBSET Pairs
    BY Zenon DEF Queued, Pairs
  <2> QED BY Zenon, <1>1, <2>1, BytesFinite
<1>5. SyncOK' /\ Reserved' = {}
  BY Zenon, <1>1, SyncFresh
<1>6. OtherOK'
  BY Zenon, <1>1, <1>4 DEF Shapes, OtherOK
<1> QED BY Zenon, <1>3, <1>5, <1>6 DEF Shapes

-----------------------------------------------------------------------------
(* The shape is kept *)

InfoKept == \A m \in Nodes : info[m] # "none" => info'[m] = info[m]

\* Steps that leave the queues and the account alone.
LEMMA QuietShapes ==
    ASSUME Shapes, UNCHANGED <<queues, deleted>>, SyncOK', ReplayOK',
           table' \subseteq Parts, up' \subseteq Nodes
    PROVE  /\ Shapes' /\ Queued' = Queued /\ Whole' = Whole /\ InfoKept
           /\ disk' = disk /\ total' = total
<1>1. UNCHANGED <<disk, info, total, loaded, deleted>>
  BY Zenon DEF queues, files
<1>2. Queued' = Queued /\ Whole' = Whole
  BY Zenon, <1>1 DEF Queued, Whole
<1>3. DiskOK' /\ InfoOK' /\ OtherOK'
  BY Zenon, <1>1, <1>2 DEF Shapes, DiskOK, OneItem, InfoOK, OtherOK
<1> QED BY Zenon, <1>1, <1>2, <1>3 DEF Shapes, InfoKept

RoundStep(t) ==
    \/ CollectPartsToSync(t) \/ Ship(t) \/ CalculateOfflineNodes(t) \/ FilterNodesForShard(t)
    \/ HandleSyncIntroductions(t)

\* The steps of a round that leave the queues alone.
LEMMA RoundShapes ==
    ASSUME Shapes, NEW t \in Tables, RoundStep(t)
    PROVE  SyncOK' /\ table' \subseteq Parts /\ Reserved' \subseteq Reserved
<1> DEFINE r == sync[t]
<1>1. SyncOK /\ table \subseteq Parts /\ up \subseteq Nodes
  BY Zenon DEF Shapes, OtherOK
<1>2. RoundOK(t, r)
  BY Zenon, <1>1 DEF SyncOK
<1>3. /\ r = [pc |-> r.pc, parts |-> r.parts, nodes |-> r.nodes, todo |-> r.todo, entry |-> r.entry]
      /\ r.parts \in SUBSET PartsOf(t) /\ r.nodes \in SUBSET Nodes
      /\ r.todo \in SUBSET PairsOf(t) /\ r.entry \in SUBSET PairsOf(t)
      /\ {} \in SUBSET PartsOf(t) /\ {} \in SUBSET Nodes /\ {} \in SUBSET PairsOf(t)
  BY Zenon, <1>2 DEF RoundOK
<1>4. r.entry \subseteq Reserved
  BY Zenon DEF Reserved
<1>5. ASSUME NEW q, RoundOK(t, q), sync' = [sync EXCEPT ![t] = q], q.entry \subseteq r.entry
      PROVE  SyncOK' /\ Reserved' \subseteq Reserved
  <2>1. SyncOK' /\ Reserved' = (Reserved \ r.entry) \cup q.entry
    BY Zenon, <1>1, <1>5, SyncIs
  <2> QED BY Zenon, <1>4, <1>5, <2>1
<1>6. CASE CollectPartsToSync(t)
  <2> DEFINE parts == {p \in table : Table[p] = t}
             q == [pc |-> "ship", parts |-> parts, nodes |-> {}, todo |-> {}, entry |-> {}]
  <2>1. sync' = [sync EXCEPT ![t] = q] /\ table' = table
    <3>1. /\ sync' = [sync EXCEPT ![t] = [SyncIdle EXCEPT !.pc = "ship", !.parts = parts]]
          /\ table' = table
      BY Zenon, <1>6 DEF CollectPartsToSync, shard
    <3> HIDE DEF parts
    <3>2. ASSUME NEW x, x = [SyncIdle EXCEPT !.pc = "ship", !.parts = parts] PROVE x = q
      BY Zenon, <3>2 DEF SyncIdle
    <3> QED BY Zenon, <3>1, <3>2
  <2>2. parts \in SUBSET PartsOf(t)
    BY Zenon, <1>1 DEF PartsOf
  <2>3. RoundOK(t, q)
    <3> HIDE DEF parts
    <3> QED BY Zenon, <1>3, <2>2, RoundIs
  <2>4. q.entry \subseteq r.entry
    BY Zenon
  <2> HIDE DEF q
  <2> QED BY Zenon, <1>1, <1>5, <2>1, <2>3, <2>4
<1>7. CASE Ship(t)
  <2> DEFINE q == [pc |-> "offline", parts |-> r.parts, nodes |-> up,
                   todo |-> r.todo, entry |-> r.entry]
  <2>1. sync' = [sync EXCEPT ![t] = [r EXCEPT !.pc = "offline", !.nodes = up]] /\ table' = table
    BY Zenon, <1>7 DEF Ship, shard
  <2>2. [r EXCEPT !.pc = "offline", !.nodes = up] = q
    <3> HIDE DEF r
    <3>1. ASSUME NEW x, x = [r EXCEPT !.pc = "offline", !.nodes = up] PROVE x = q
      BY Zenon, <3>1, <1>3
    <3> QED BY Zenon, <3>1
  <2>3. RoundOK(t, q)
    BY Zenon, <1>1, <1>3, RoundIs
  <2>4. q.entry \subseteq r.entry
    BY Zenon
  <2> HIDE DEF q
  <2> QED BY Zenon, <1>1, <1>5, <2>1, <2>2, <2>3, <2>4
<1>8. CASE CalculateOfflineNodes(t)
  <2>1. PICK resolved \in BOOLEAN :
           LET offline == (NodesForShard(resolved) \ r.nodes) \ healthy IN
           sync' = [sync EXCEPT ![t] = [r EXCEPT
                      !.pc = IF offline = {} THEN "introduce" ELSE "filter", !.nodes = offline]]
    BY Zenon, <1>8 DEF CalculateOfflineNodes
  <2> DEFINE ns == (NodesForShard(resolved) \ r.nodes) \ healthy
             pc == IF ns = {} THEN "introduce" ELSE "filter"
             q == [pc |-> pc, parts |-> r.parts, nodes |-> ns, todo |-> r.todo, entry |-> r.entry]
  <2>2. ns \in SUBSET Nodes
    BY Zenon, <1>1 DEF NodesForShard
  <2>3. sync' = [sync EXCEPT ![t] = [r EXCEPT !.pc = pc, !.nodes = ns]]
    BY Zenon, <2>1
  <2> HIDE DEF ns, pc
  <2>4. [r EXCEPT !.pc = pc, !.nodes = ns] = q
    <3> HIDE DEF r
    <3>1. ASSUME NEW x, x = [r EXCEPT !.pc = pc, !.nodes = ns] PROVE x = q
      BY Zenon, <3>1, <1>3
    <3> QED BY Zenon, <3>1
  <2>5. RoundOK(t, q)
    BY Zenon, <1>3, <2>2, RoundIs
  <2>6. q.entry \subseteq r.entry
    BY Zenon
  <2>7. table' = table
    BY Zenon, <1>8 DEF CalculateOfflineNodes, shard
  <2> HIDE DEF q
  <2> QED BY Zenon, <1>1, <1>5, <2>3, <2>4, <2>5, <2>6, <2>7
<1>9. CASE FilterNodesForShard(t)
  <2>1. PICK resolved \in BOOLEAN :
           LET todo == (r.nodes \cap NodesForShard(resolved)) \X ItemsOf(r.parts) IN
           sync' = [sync EXCEPT ![t] = [r EXCEPT
                      !.pc = IF todo = {} THEN "introduce" ELSE "reserve",
                      !.nodes = {}, !.todo = todo]]
    BY Zenon, <1>9 DEF FilterNodesForShard
  <2> DEFINE td == (r.nodes \cap NodesForShard(resolved)) \X ItemsOf(r.parts)
             pc == IF td = {} THEN "introduce" ELSE "reserve"
             q == [pc |-> pc, parts |-> r.parts, nodes |-> {}, todo |-> td, entry |-> r.entry]
  <2>2. td \in SUBSET PairsOf(t)
    <3>1. ItemsOf(r.parts) \subseteq ItemsOf(PartsOf(t)) /\ r.nodes \subseteq Nodes
      BY Zenon, <1>3 DEF ItemsOf
    <3> HIDE DEF r
    <3> QED BY Zenon, <3>1 DEF PairsOf
  <2>3. sync' = [sync EXCEPT ![t] = [r EXCEPT !.pc = pc, !.nodes = {}, !.todo = td]]
    BY Zenon, <2>1
  <2> HIDE DEF td, pc
  <2>4. [r EXCEPT !.pc = pc, !.nodes = {}, !.todo = td] = q
    <3> HIDE DEF r
    <3>1. ASSUME NEW x, x = [r EXCEPT !.pc = pc, !.nodes = {}, !.todo = td] PROVE x = q
      BY Zenon, <3>1, <1>3
    <3> QED BY Zenon, <3>1
  <2>5. RoundOK(t, q)
    BY Zenon, <1>3, <2>2, RoundIs
  <2>6. q.entry \subseteq r.entry
    BY Zenon
  <2>7. table' = table
    BY Zenon, <1>9 DEF FilterNodesForShard, shard
  <2> HIDE DEF q
  <2> QED BY Zenon, <1>1, <1>5, <2>3, <2>4, <2>5, <2>6, <2>7
<1>10. CASE HandleSyncIntroductions(t)
  <2>1. sync' = [sync EXCEPT ![t] = SyncIdle] /\ table' = table \ r.parts
    BY Zenon, <1>10 DEF HandleSyncIntroductions
  <2>2. RoundOK(t, SyncIdle) /\ SyncIdle.entry \subseteq r.entry
    BY Zenon DEF RoundOK, SyncIdle
  <2> QED BY Zenon, <1>1, <1>5, <2>1, <2>2
<1> QED BY Zenon, <1>6, <1>7, <1>8, <1>9, <1>10 DEF RoundStep

\* A round that goes on with what is left holds no reservation.
LEMMA EnqueueRestOK ==
    ASSUME SyncOK, NEW t \in Tables, NEW e, EnqueueRest(t, sync[t].todo \ {e})
    PROVE  SyncOK' /\ Reserved' = Reserved \ sync[t].entry
<1> DEFINE r == sync[t]
           rest == r.todo \ {e}
           pc == IF rest = {} THEN "introduce" ELSE "reserve"
           q == [pc |-> pc, parts |-> r.parts, nodes |-> r.nodes, todo |-> rest, entry |-> {}]
<1>1. RoundOK(t, r)
  BY Zenon DEF SyncOK
<1>2. /\ r = [pc |-> r.pc, parts |-> r.parts, nodes |-> r.nodes, todo |-> r.todo, entry |-> r.entry]
      /\ r.parts \in SUBSET PartsOf(t) /\ r.nodes \in SUBSET Nodes
      /\ rest \in SUBSET PairsOf(t) /\ {} \in SUBSET PairsOf(t)
  BY Zenon, <1>1 DEF RoundOK
<1>3. sync' = [sync EXCEPT ![t] = [r EXCEPT !.pc = pc, !.todo = rest, !.entry = {}]]
  BY Zenon DEF EnqueueRest
<1> HIDE DEF pc, rest
<1>4. [r EXCEPT !.pc = pc, !.todo = rest, !.entry = {}] = q
  <2> HIDE DEF r
  <2>1. ASSUME NEW x, x = [r EXCEPT !.pc = pc, !.todo = rest, !.entry = {}] PROVE x = q
    BY Zenon, <2>1, <1>2
  <2> QED BY Zenon, <2>1
<1>5. RoundOK(t, q)
  BY Zenon, <1>2, RoundIs
<1>6. q.entry = {}
  BY Zenon
<1> HIDE DEF q
<1>7. SyncOK' /\ Reserved' = (Reserved \ r.entry) \cup q.entry
  BY Zenon, <1>3, <1>4, <1>5, SyncIs
<1> QED BY Zenon, <1>6, <1>7

\* What enqueueForNode does for the pair e of table t after the reservation.
EnqueueEffect(t, e) ==
    /\ e \in Pairs /\ e \in sync[t].entry /\ Reserved' = Reserved \ sync[t].entry
    /\ \/ Queued' = Queued /\ total' = total
       \/ e \notin Queued /\ Queued' = Queued \cup {e} /\ total' = total
       \/ Queued' = Queued /\ total' = Less(Size[e[2]])
    /\ Whole \subseteq Whole' /\ InfoKept
    /\ \A n \in Nodes, i \in Items : disk[n][i] # "none" => disk'[n][i] = disk[n][i]

\* The rest of enqueueForNode.
LEMMA EnqueueShapes ==
    ASSUME Shapes, NEW t \in Tables, EnqueueForNode(t)
    PROVE  Shapes' /\ \E e : EnqueueEffect(t, e)
<1>1. /\ UNCHANGED <<up, table, replay, deleted>>
      /\ SyncOK /\ ReplayOK /\ DiskOK /\ InfoOK /\ OtherOK
  BY Zenon DEF EnqueueForNode, cluster, shard, Shapes
<1>2. PICK e \in sync[t].entry :
          /\ loaded' = loaded \cup {e[1]} /\ WriteNodeInfo(e[1])
          /\ \/ Occupied(e) /\ UNCHANGED <<disk, total>>
             \/ /\ ~Occupied(e)
                /\ disk' = [disk EXCEPT ![e[1]][e[2]] = "queued"]
                /\ UNCHANGED total
             \/ /\ ~Occupied(e)
                /\ total' = Less(Size[e[2]])
                /\ UNCHANGED disk
          /\ EnqueueRest(t, sync[t].todo \ {e})
  BY Zenon DEF EnqueueForNode
<1>3. e \in Pairs
  BY Zenon, <1>1, PairsOfTable DEF SyncOK, RoundOK
<1>4. e[1] \in Nodes /\ e[2] \in Items
  BY Zenon, <1>3, PairParts
<1>5. SyncOK' /\ Reserved' = Reserved \ sync[t].entry
  BY Zenon, <1>1, <1>2, EnqueueRestOK
<1>6. ReplayOK'
  <2>1. Largest' = Largest
    BY Zenon DEF Largest, Items
  <2> QED BY Zenon, <1>1, <2>1 DEF ReplayOK, Busy
<1>7. /\ info' \in [Nodes -> {"none", "empty", "written"}] /\ info'[e[1]] # "none" /\ InfoKept
  BY Zenon, <1>1, <1>2, <1>4, InfoWritten DEF InfoKept
<1>8. Size[e[2]] \in Nat
  BY Zenon, <1>4, HandoffAssumption
<1>9. total' \in Nat
  <2>1. total \in Nat
    BY Zenon, <1>1 DEF OtherOK
  <2>2. Less(Size[e[2]]) \in Nat
    BY <1>8, <2>1 DEF Less
  <2> QED BY Zenon, <1>2, <2>1, <2>2
<1>10. OtherOK'
  BY Zenon, <1>1, <1>2, <1>4, <1>9 DEF OtherOK
<1>11. CASE UNCHANGED disk
  <2>1. Queued' = Queued /\ Whole' = Whole /\ DiskOK'
    BY Zenon, <1>1, <1>11 DEF Queued, Whole, DiskOK, OneItem
  <2>2. InfoOK'
    BY Zenon, <1>1, <1>7, <2>1, InfoStays DEF InfoKept
  <2>3. total' = total \/ total' = Less(Size[e[2]])
    BY Zenon, <1>2
  <2>4. EnqueueEffect(t, e)
    BY Zenon, <1>3, <1>5, <1>7, <1>11, <2>1, <2>3 DEF EnqueueEffect
  <2> QED BY Zenon, <1>5, <1>6, <1>10, <2>1, <2>2, <2>4 DEF Shapes
<1>12. CASE /\ ~Occupied(e) /\ UNCHANGED total
            /\ disk' = [disk EXCEPT ![e[1]][e[2]] = "queued"]
  <2>1. /\ DiskOK' /\ Whole \subseteq Whole' /\ e \notin Queued
        /\ Queued' = Queued \cup {e}
        /\ \A n \in Nodes, i \in Items : disk[n][i] # "none" => disk'[n][i] = disk[n][i]
    BY Zenon, <1>1, <1>3, <1>12, DiskFill
  <2>2. InfoOK'
    <3>1. Queued' \subseteq Queued \cup {e}
      BY Zenon, <2>1
    <3> QED BY Zenon, <1>1, <1>7, <3>1, InfoStays DEF InfoKept
  <2>3. EnqueueEffect(t, e)
    BY Zenon, <1>3, <1>5, <1>7, <1>12, <2>1 DEF EnqueueEffect
  <2> QED BY Zenon, <1>5, <1>6, <1>10, <2>1, <2>2, <2>3 DEF Shapes
<1> QED BY Zenon, <1>2, <1>11, <1>12

\* tryReserveSize: the pair is refused, or holds the reservation of its table.
LEMMA ReserveShapes ==
    ASSUME Shapes, NEW t \in Tables, TryReserveSize(t)
    PROVE  /\ Shapes' /\ UNCHANGED <<disk, info, replay, deleted, delivered>>
           /\ \/ Reserved' \subseteq Reserved /\ total' = total
              \/ \E e \in Pairs : /\ Reserved' \subseteq Reserved \cup {e}
                                  /\ ~(MaxSize > 0 /\ total + Size[e[2]] > MaxSize)
                                  /\ total' = total + Size[e[2]]
<1> DEFINE r == sync[t]
<1>1. /\ UNCHANGED <<disk, info, up, table, replay, deleted, delivered, loaded>>
      /\ SyncOK /\ ReplayOK /\ DiskOK /\ InfoOK /\ OtherOK
  BY Zenon DEF TryReserveSize, files, cluster, shard, Shapes
<1>2. PICK e \in r.todo :
          IF MaxSize > 0 /\ total + Size[e[2]] > MaxSize
          THEN EnqueueRest(t, r.todo \ {e}) /\ UNCHANGED total
          ELSE /\ total' = total + Size[e[2]]
               /\ sync' = [sync EXCEPT ![t] = [r EXCEPT !.pc = "enqueue", !.entry = {e}]]
  BY Zenon DEF TryReserveSize
<1>3. RoundOK(t, r)
  BY Zenon, <1>1 DEF SyncOK
<1>4. /\ r = [pc |-> r.pc, parts |-> r.parts, nodes |-> r.nodes, todo |-> r.todo, entry |-> r.entry]
      /\ r.parts \in SUBSET PartsOf(t) /\ r.nodes \in SUBSET Nodes
      /\ r.todo \in SUBSET PairsOf(t) /\ {e} \in SUBSET PairsOf(t)
  BY Zenon, <1>2, <1>3 DEF RoundOK
<1>5. e \in Pairs
  BY Zenon, <1>2, <1>4, PairsOfTable
<1>6. total \in Nat /\ Size[e[2]] \in Nat
  BY Zenon, <1>1, <1>5, PairParts, HandoffAssumption DEF OtherOK
<1>7. DiskOK' /\ InfoOK' /\ ReplayOK'
  <2>1. Queued' = Queued /\ Largest' = Largest
    BY Zenon, <1>1 DEF Queued, Largest, Items
  <2> QED BY Zenon, <1>1, <2>1 DEF DiskOK, OneItem, InfoOK, ReplayOK, Busy
<1>8. CASE MaxSize > 0 /\ total + Size[e[2]] > MaxSize
  <2>1. EnqueueRest(t, sync[t].todo \ {e}) /\ UNCHANGED total
    BY Zenon, <1>2, <1>8
  <2>2. SyncOK' /\ Reserved' = Reserved \ sync[t].entry
    BY Zenon, <1>1, <2>1, EnqueueRestOK
  <2>3. OtherOK'
    BY Zenon, <1>1, <2>1 DEF OtherOK
  <2> QED BY Zenon, <1>1, <1>7, <2>1, <2>2, <2>3 DEF Shapes
<1>9. CASE ~(MaxSize > 0 /\ total + Size[e[2]] > MaxSize)
  <2> DEFINE q == [pc |-> "enqueue", parts |-> r.parts, nodes |-> r.nodes,
                   todo |-> r.todo, entry |-> {e}]
  <2>1. /\ total' = total + Size[e[2]]
        /\ sync' = [sync EXCEPT ![t] = [r EXCEPT !.pc = "enqueue", !.entry = {e}]]
    BY Zenon, <1>2, <1>9
  <2>2. [r EXCEPT !.pc = "enqueue", !.entry = {e}] = q
    <3> HIDE DEF r
    <3>1. ASSUME NEW x, x = [r EXCEPT !.pc = "enqueue", !.entry = {e}] PROVE x = q
      BY Zenon, <3>1, <1>4
    <3> QED BY Zenon, <3>1
  <2>3. RoundOK(t, q)
    BY Zenon, <1>4, RoundIs
  <2>4. q.entry = {e}
    BY Zenon
  <2> HIDE DEF q
  <2>5. SyncOK' /\ Reserved' = (Reserved \ r.entry) \cup q.entry
    BY Zenon, <1>1, <2>1, <2>2, <2>3, SyncIs
  <2>6. Reserved' \subseteq Reserved \cup {e}
    BY Zenon, <2>4, <2>5
  <2>7. total' \in Nat
    BY <1>6, <2>1
  <2>8. OtherOK'
    BY Zenon, <1>1, <2>7 DEF OtherOK
  <2> QED BY Zenon, <1>1, <1>5, <1>7, <1>9, <2>1, <2>5, <2>6, <2>8 DEF Shapes
<1> QED BY Zenon, <1>8, <1>9

SendStep ==
    \/ Tick \/ ReplayBatchForNode \/ ReadPartFromHandoff \/ SendPartToNode \/ SendPartToNodeFails

\* The worker up to the answer of the node.
LEMMA SendShapes ==
    ASSUME Shapes, SendStep
    PROVE  /\ ReplayOK' /\ replay'.pc \notin {"complete", "subtract"}
           /\ \/ replay'.pc \notin {"send", "measure", "complete"}
              \/ \E da, fu : /\ ReadPartFromHandoff
                             /\ replay' = [replay EXCEPT !.pc = "send", !.data = da, !.full = fu]
              \/ SendPartToNode
<1>1. ReplayOK /\ loaded \subseteq Nodes
  BY Zenon DEF Shapes, OtherOK
<1>2. /\ 0 \in Nat /\ {} \in SUBSET Items /\ "visit" \notin Busy /\ "visit" # "complete"
      /\ "read" # "complete"
  BY DEF Busy
<1>3. CASE Tick
  <2> DEFINE work == {n \in loaded : Pending(n) # {}}
  <2>1. /\ replay' = [pc |-> "visit", nodes |-> work, at |-> 0, items |-> {},
                      data |-> {}, full |-> {}, size |-> 0]
        /\ work \in SUBSET Nodes
    BY Zenon, <1>1, <1>3 DEF Tick, ReplayIdle
  <2> HIDE DEF work
  <2>2. ReplayOK' /\ replay'.pc = "visit"
    BY Zenon, <1>2, <2>1, ReplayIs
  <2> QED BY Zenon, <2>2
<1>4. CASE ReplayBatchForNode
  <2>1. PICK n \in replay.nodes :
           \/ replay' = NextNode(replay.nodes \ {n})
           \/ /\ Pending(n) # {}
              /\ replay' = [ReplayIdle EXCEPT !.pc = "read", !.nodes = replay.nodes \ {n}, !.at = n,
                     !.items = {i \in Pending(n) : Cardinality({j \in Pending(n) : j < i}) < Batch}]
    BY Zenon, <1>4 DEF ReplayBatchForNode
  <2> DEFINE batch == {i \in Pending(n) : Cardinality({j \in Pending(n) : j < i}) < Batch}
             left == replay.nodes \ {n}
  <2>2. n \in Nodes /\ left \in SUBSET Nodes
    BY Zenon, <1>1 DEF ReplayOK
  <2>3. CASE replay' = NextNode(left)
    <3>1. ReplayOK' /\ replay'.pc \in {"idle", "visit"}
      BY Zenon, <2>2, <2>3, NextNodeOK
    <3> QED BY Zenon, <3>1
  <2>4. CASE /\ Pending(n) # {}
             /\ replay' = [ReplayIdle EXCEPT !.pc = "read", !.nodes = left, !.at = n,
                                              !.items = batch]
    <3>1. replay' = [pc |-> "read", nodes |-> left, at |-> n, items |-> batch,
                     data |-> {}, full |-> {}, size |-> 0]
      BY Zenon, <2>4 DEF ReplayIdle
    <3>2. Pending(n) \in SUBSET Items
      BY Zenon DEF Pending
    <3>3. batch \in SUBSET Items
      BY Zenon, <3>2
    <3>4. batch # {}
      <4>1. Pending(n) \in SUBSET Nat
        BY Zenon, <3>2, HandoffAssumption
      <4>2. PICK i \in Pending(n) : \A j \in Pending(n) : ~(j < i)
        BY Zenon, <2>4, <4>1, LeastOfNaturals
      <4>3. {j \in Pending(n) : j < i} = {}
        BY Zenon, <4>2
      <4>4. Cardinality({j \in Pending(n) : j < i}) = 0
        BY Zenon, <4>3, FS_EmptySet
      <4>5. 0 < Batch
        BY HandoffAssumption
      <4> QED BY Zenon, <4>2, <4>4, <4>5
    <3> HIDE DEF batch, left
    <3>5. ReplayOK' /\ replay'.pc = "read"
      BY Zenon, <1>2, <2>2, <3>1, <3>3, <3>4, ReplayIs
    <3> QED BY Zenon, <3>5
  <2> QED BY Zenon, <2>1, <2>3, <2>4
<1>5. ASSUME replay.pc \in Busy, replay' = NextItem
      PROVE  /\ ReplayOK' /\ replay'.pc \notin {"complete", "subtract"}
             /\ replay'.pc \notin {"send", "measure", "complete"}
  <2>1. ReplayOK' /\ replay'.pc \in {"idle", "visit", "read"}
    BY Zenon, <1>1, <1>5, NextItemOK
  <2> QED BY Zenon, <2>1
<1>6. ASSUME NEW pc \in {"send", "measure"}, NEW da, NEW fu, replay.pc \in Busy,
             replay' = [replay EXCEPT !.pc = pc, !.data = da, !.full = fu]
      PROVE  ReplayOK' /\ replay'.pc \notin {"complete", "subtract"}
  <2>1. replay' = [pc |-> pc, nodes |-> replay.nodes, at |-> replay.at,
                   items |-> replay.items, data |-> da, full |-> fu, size |-> replay.size]
    BY Zenon, <1>1, <1>6 DEF ReplayOK
  <2>2. /\ replay.nodes \in SUBSET Nodes /\ replay.items \in SUBSET Items
        /\ replay.size \in Nat /\ replay.at \in Nodes /\ replay.items # {}
    BY Zenon, <1>1, <1>6 DEF ReplayOK
  <2>3. pc # "complete"
    BY Zenon, <1>6
  <2>4. ReplayOK' /\ replay'.pc = pc
    BY Zenon, <2>1, <2>2, <2>3, ReplayIs
  <2> QED BY Zenon, <1>6, <2>4
<1>7. CASE ReadPartFromHandoff
  <2>1. /\ replay.pc \in Busy
        /\ \/ replay' = NextItem
           \/ \E da, fu : replay' = [replay EXCEPT !.pc = "send", !.data = da, !.full = fu]
    BY Zenon, <1>7 DEF ReadPartFromHandoff, Busy
  <2>2. CASE replay' = NextItem
    BY Zenon, <1>5, <2>1, <2>2
  <2>3. ASSUME NEW da, NEW fu, replay' = [replay EXCEPT !.pc = "send", !.data = da, !.full = fu]
        PROVE  ReplayOK' /\ replay'.pc \notin {"complete", "subtract"}
    BY Zenon, <1>6, <2>1, <2>3
  <2> QED BY Zenon, <1>7, <2>1, <2>2, <2>3
<1>8. CASE SendPartToNode
  <2>1. replay.pc \in Busy /\ replay' = [replay EXCEPT !.pc = "measure"]
    BY Zenon, <1>8 DEF SendPartToNode, Busy
  <2>2. replay' = [replay EXCEPT !.pc = "measure", !.data = replay.data, !.full = replay.full]
    BY Zenon, <1>1, <2>1 DEF ReplayOK
  <2>3. ReplayOK' /\ replay'.pc \notin {"complete", "subtract"}
    BY Zenon, <1>6, <2>1, <2>2
  <2> QED BY Zenon, <1>8, <2>3
<1>9. CASE SendPartToNodeFails
  <2>1. replay.pc \in Busy /\ replay' = NextItem
    BY Zenon, <1>9 DEF SendPartToNodeFails, Busy
  <2> QED BY Zenon, <1>5, <2>1
<1> QED BY Zenon, <1>3, <1>4, <1>7, <1>8, <1>9 DEF SendStep

\* The metadata in one directory is of one item at most.
LEMMA HereSmall ==
    ASSUME Shapes, replay.pc \in Busy
    PROVE  /\ Here \cap Queued \in SUBSET Pairs
           /\ Bytes(Here \cap Queued) \in Nat /\ Bytes(Here \cap Queued) <= Largest
<1> DEFINE s == Here \cap Queued
<1>1. s \in SUBSET Pairs
  BY Zenon DEF Queued, Pairs
<1>2. Largest \in Nat /\ \A i \in Items : Size[i] \in 0 .. Largest
  BY Zenon, LargestItem
<1>3. CASE s = {}
  <2>1. Bytes(s) = 0
    BY Zenon, <1>3, BytesEmpty
  <2> HIDE DEF s
  <2> QED BY <1>1, <1>2, <2>1 DEF s
<1>4. CASE s # {}
  <2>1. PICK e \in s : TRUE
    BY Zenon, <1>4
  <2>2. ASSUME NEW f \in s PROVE f = e
    <3>1. /\ e \in Pairs /\ f \in Pairs /\ e[1] = replay.at /\ f[1] = replay.at
          /\ Key[e[2]] = Key[f[2]] /\ e \in Queued /\ f \in Queued
      BY Zenon, <2>1, <2>2 DEF Here, At, Pairs
    <3>2. /\ e = <<e[1], e[2]>> /\ f = <<f[1], f[2]>> /\ e[1] \in Nodes /\ e[2] \in Items
          /\ f[2] \in Items
      BY Zenon, <3>1, PairParts
    <3>3. disk[e[1]][e[2]] # "none" /\ disk[e[1]][f[2]] # "none"
      BY Zenon, <3>1 DEF Queued
    <3>4. e[2] = f[2]
      BY Zenon, <3>1, <3>2, <3>3 DEF Shapes, DiskOK, OneItem
    <3> QED BY Zenon, <3>1, <3>2, <3>4
  <2>3. s = {e} /\ e \in Pairs
    BY Zenon, <1>1, <2>1, <2>2
  <2>4. Bytes(s) = Size[e[2]] /\ Size[e[2]] \in 0 .. Largest
    BY Zenon, <1>2, <2>3, BytesOne, PairParts
  <2> HIDE DEF s
  <2> QED BY <1>1, <1>2, <2>4 DEF s
<1> QED BY Zenon, <1>3, <1>4

\* completeSend reads the size.
LEMMA MeasureShapes ==
    ASSUME Shapes, CompleteSendMeasure
    PROVE  /\ ReplayOK' /\ replay'.pc = "complete" /\ Here' = Here
           /\ replay'.size = Bytes(Here \cap Queued)
           /\ replay.pc = "measure" /\ replay'.at = replay.at /\ Current' = Current
           /\ replay'.data = replay.data /\ replay'.full = replay.full
<1> DEFINE n == Bytes(Here \cap Queued)
<1>1. ReplayOK /\ replay.pc = "measure" /\ replay.pc \in Busy
  BY Zenon DEF Shapes, CompleteSendMeasure, Busy
<1>2. n \in Nat /\ n <= Largest
  BY Zenon, <1>1, HereSmall
<1>3. replay' = [pc |-> "complete", nodes |-> replay.nodes, at |-> replay.at,
                 items |-> replay.items, data |-> replay.data, full |-> replay.full, size |-> n]
  BY Zenon, <1>1 DEF CompleteSendMeasure, ReplayOK
<1>4. /\ replay.nodes \in SUBSET Nodes /\ replay.items \in SUBSET Items
      /\ replay.at \in Nodes /\ replay.items # {}
  BY Zenon, <1>1 DEF ReplayOK
<1> HIDE DEF n
<1>5. ReplayOK'
  BY Zenon, <1>2, <1>3, <1>4, ReplayIs
<1>6. /\ replay'.pc = "complete" /\ replay'.at = replay.at /\ replay'.items = replay.items
      /\ replay'.size = n /\ replay'.data = replay.data /\ replay'.full = replay.full
  BY Zenon, <1>3
<1>7. Current' = Current
  BY Zenon, <1>6 DEF Current
<1>8. Here' = Here
  BY Zenon, <1>6, <1>7 DEF Here, At
<1> QED BY Zenon, <1>1, <1>5, <1>6, <1>7, <1>8 DEF n

\* completeSend removes the directory, or finds that there is none.
LEMMA RemoveShapes ==
    ASSUME Shapes, CompleteSendRemove
    PROVE  /\ Shapes' /\ InfoKept /\ UNCHANGED <<deleted, delivered>> /\ replay.pc = "complete"
           /\ \/ /\ Queued' = Queued \ Here /\ Whole' = Whole \ Here
                 /\ UNCHANGED <<total, sync>> /\ replay'.pc = "subtract" /\ replay'.size = replay.size
              \/ /\ Queued' = Queued /\ Whole' = Whole /\ NewHandoffController
                 /\ Reserved' = {} /\ replay'.pc = "idle"
<1>1. /\ UNCHANGED <<info, up, table, deleted, delivered>> /\ replay.pc = "complete"
      /\ SyncOK /\ ReplayOK /\ DiskOK /\ InfoOK /\ OtherOK /\ replay.pc \in Busy
  BY Zenon DEF CompleteSendRemove, cluster, shard, Shapes, Busy
<1>2. InfoKept /\ info' \in [Nodes -> {"none", "empty", "written"}]
  BY Zenon, <1>1 DEF InfoKept, InfoOK
<1>3. CASE /\ Complete(Here) /\ replay' = [replay EXCEPT !.pc = "subtract"]
           /\ UNCHANGED <<loaded, total, sync>>
  <2>1. DiskOK' /\ Queued' = Queued \ Here /\ Whole' = Whole \ Here
    BY Zenon, <1>1, <1>3, DiskComplete
  <2>2. replay' = [pc |-> "subtract", nodes |-> replay.nodes, at |-> replay.at,
                   items |-> replay.items, data |-> replay.data, full |-> replay.full,
                   size |-> replay.size]
    BY Zenon, <1>1, <1>3 DEF ReplayOK
  <2>3. /\ replay.nodes \in SUBSET Nodes /\ replay.items \in SUBSET Items
        /\ replay.size \in Nat /\ replay.at \in Nodes /\ replay.items # {}
        /\ "subtract" # "complete"
    BY Zenon, <1>1 DEF ReplayOK
  <2>4. ReplayOK' /\ replay'.pc = "subtract" /\ replay'.size = replay.size
    BY Zenon, <2>2, <2>3, ReplayIs
  <2>5. InfoOK'
    BY Zenon, <1>1, <1>2, <2>1 DEF InfoOK
  <2>6. OtherOK' /\ SyncOK'
    BY Zenon, <1>1, <1>3 DEF OtherOK, SyncOK, RoundOK, PartsOf, PairsOf, ItemsOf
  <2> QED BY Zenon, <1>1, <1>2, <1>3, <2>1, <2>4, <2>5, <2>6 DEF Shapes
<1>4. CASE UNCHANGED disk /\ NewHandoffController
  <2>1. Queued' = Queued /\ Whole' = Whole /\ DiskOK'
    BY Zenon, <1>1, <1>4 DEF Queued, Whole, DiskOK, OneItem
  <2>2. InfoOK' /\ table' \subseteq Parts
    BY Zenon, <1>1, <2>1 DEF InfoOK, OtherOK
  <2>3. Shapes' /\ Reserved' = {} /\ replay'.pc = "idle"
    BY Zenon, <1>1, <1>4, <2>1, <2>2, FreshShapes
  <2> QED BY Zenon, <1>1, <1>2, <1>4, <2>1, <2>3
<1> QED BY Zenon, <1>3, <1>4 DEF CompleteSendRemove

\* completeSend subtracts the size.
LEMMA SubtractShapes ==
    ASSUME Shapes, CompleteSendSubtract
    PROVE  /\ Shapes' /\ UNCHANGED <<disk, info, sync, deleted, delivered>>
           /\ Queued' = Queued /\ Whole' = Whole
           /\ replay.pc = "subtract" /\ replay.size \in Nat /\ total' = Less(replay.size)
           /\ replay'.pc \in {"idle", "visit", "read"}
<1>1. /\ UNCHANGED <<disk, info, loaded, up, table, sync, deleted, delivered>>
      /\ replay.pc = "subtract" /\ replay.pc \in Busy
      /\ replay' = NextItem /\ total' = Less(replay.size)
      /\ DiskOK /\ InfoOK /\ OtherOK /\ SyncOK /\ ReplayOK
  BY Zenon DEF CompleteSendSubtract, files, cluster, shard, Shapes, Busy
<1>2. ReplayOK' /\ replay'.pc \in {"idle", "visit", "read"}
  BY Zenon, <1>1, NextItemOK
<1>3. replay.size \in Nat /\ total \in Nat
  BY Zenon, <1>1 DEF ReplayOK, OtherOK
<1>4. total' \in Nat
  BY <1>1, <1>3 DEF Less
<1>5. Queued' = Queued /\ Whole' = Whole
  BY Zenon, <1>1 DEF Queued, Whole
<1>6. DiskOK' /\ InfoOK'
  BY Zenon, <1>1, <1>5 DEF DiskOK, OneItem, InfoOK
<1>7. OtherOK' /\ SyncOK'
  BY Zenon, <1>1, <1>4 DEF OtherOK, SyncOK, RoundOK, PartsOf, PairsOf, ItemsOf
<1> QED BY Zenon, <1>1, <1>2, <1>3, <1>5, <1>6, <1>7 DEF Shapes

\* What a group deletion removes.
Doomed == {e \in Queued : e[1] \in loaded /\ e[2] \in ItemsOf(Dropped)}

\* A group deletion, or what it leaves when the liaison stops on the way.
LEMMA DeleteShapes ==
    ASSUME Shapes, DeletePartsByGroup
    PROVE  /\ Shapes' /\ InfoKept /\ UNCHANGED <<info, delivered>> /\ ~deleted /\ deleted' = TRUE
           /\ \/ /\ Complete(Doomed) /\ Queued' = Queued \ Doomed /\ Whole \ Doomed \subseteq Whole'
                 /\ total' = Less(Bytes(Doomed)) /\ UNCHANGED <<sync, replay>>
              \/ /\ Queued' \subseteq Queued /\ Whole \ Doomed \subseteq Whole' /\ NewHandoffController
                 /\ Reserved' = {} /\ replay'.pc = "idle"
<1>1. /\ UNCHANGED <<info, up, delivered>> /\ ~deleted /\ deleted' = TRUE
      /\ table' = table \ Dropped
      /\ SyncOK /\ ReplayOK /\ DiskOK /\ InfoOK /\ OtherOK
  BY Zenon DEF DeletePartsByGroup, cluster, Shapes
<1>2. InfoKept /\ info' \in [Nodes -> {"none", "empty", "written"}] /\ table' \subseteq Parts
  BY Zenon, <1>1 DEF InfoKept, InfoOK, OtherOK
<1>3. Doomed \in SUBSET Queued /\ Doomed \in SUBSET Pairs /\ Queued \in SUBSET Pairs
  BY Zenon DEF Doomed, Queued, Pairs
<1>4. ASSUME DiskOK', Queued' \subseteq Queued PROVE InfoOK'
  BY Zenon, <1>1, <1>2, <1>4 DEF InfoOK
<1>5. ASSUME DiskOK', Queued' \subseteq Queued, NewHandoffController
      PROVE  Shapes' /\ Reserved' = {} /\ replay'.pc = "idle"
  BY Zenon, <1>1, <1>2, <1>4, <1>5, FreshShapes
<1>6. CASE Complete(Doomed) /\ total' = Less(Bytes(Doomed)) /\ UNCHANGED <<loaded, sync, replay>>
  <2>1. DiskOK' /\ Queued' = Queued \ Doomed /\ Whole' = Whole \ Doomed
    BY Zenon, <1>1, <1>6, DiskComplete
  <2>2. InfoOK'
    BY Zenon, <1>4, <2>1
  <2>3. total' \in Nat
    <3>1. total \in Nat /\ Bytes(Doomed) \in Nat
      BY Zenon, <1>1, <1>3, BytesFinite DEF OtherOK
    <3> QED BY <1>6, <3>1 DEF Less
  <2>4. OtherOK' /\ SyncOK' /\ ReplayOK'
    <3>1. Largest' = Largest
      BY Zenon DEF Largest, Items
    <3> QED BY Zenon, <1>1, <1>2, <1>6, <2>3, <3>1
           DEF OtherOK, SyncOK, RoundOK, PartsOf, PairsOf, ItemsOf, ReplayOK, Busy
  <2> QED BY Zenon, <1>1, <1>2, <1>6, <2>1, <2>2, <2>4 DEF Shapes
<1>7. ASSUME NEW some \in SUBSET Doomed, Complete(some), NewHandoffController
      PROVE  /\ Shapes' /\ Reserved' = {} /\ replay'.pc = "idle"
             /\ Queued' \subseteq Queued /\ Whole \ Doomed \subseteq Whole'
  <2>1. DiskOK' /\ Queued' = Queued \ some /\ Whole' = Whole \ some
    BY Zenon, <1>1, <1>7, DiskComplete
  <2>2. Queued' \subseteq Queued /\ Whole \ Doomed \subseteq Whole'
    BY Zenon, <2>1
  <2> QED BY Zenon, <1>5, <1>7, <2>1, <2>2
<1>8. ASSUME NEW e \in Doomed, HalfRemoved(e), NewHandoffController
      PROVE  /\ Shapes' /\ Reserved' = {} /\ replay'.pc = "idle"
             /\ Queued' \subseteq Queued /\ Whole \ Doomed \subseteq Whole'
  <2>1. DiskOK' /\ Queued' \subseteq Queued /\ Whole \ {e} \subseteq Whole'
    BY Zenon, <1>1, <1>3, <1>8, DiskHalf
  <2>2. Whole \ Doomed \subseteq Whole'
    BY Zenon, <2>1
  <2> QED BY Zenon, <1>5, <1>8, <2>1, <2>2
<1>9. \/ Complete(Doomed) /\ total' = Less(Bytes(Doomed)) /\ UNCHANGED <<loaded, sync, replay>>
      \/ (\E some \in SUBSET Doomed : Complete(some)) /\ NewHandoffController
      \/ (\E e \in Doomed : HalfRemoved(e)) /\ NewHandoffController
  BY Zenon DEF DeletePartsByGroup, Doomed
<1> QED BY Zenon, <1>1, <1>2, <1>6, <1>7, <1>8, <1>9

\* A restart: what it leaves of an enqueue or a removal under way.
LEMMA RestartShapes ==
    ASSUME Shapes, Restart
    PROVE  /\ Shapes' /\ InfoKept /\ UNCHANGED <<deleted, delivered>> /\ NewHandoffController
           /\ Queued' \subseteq Queued /\ Reserved' = {} /\ replay'.pc = "idle"
           /\ \A e \in Whole : e \in Whole' \/ (replay.pc = "complete" /\ e \in Here)
<1>1. /\ UNCHANGED <<up, table, deleted, delivered>> /\ NewHandoffController
      /\ SyncOK /\ ReplayOK /\ DiskOK /\ InfoOK /\ OtherOK /\ table' \subseteq Parts
  BY Zenon DEF Restart, cluster, shard, Shapes, OtherOK
<1>2. ASSUME DiskOK', Queued' \subseteq Queued, InfoKept,
             info' \in [Nodes -> {"none", "empty", "written"}]
      PROVE  Shapes' /\ Reserved' = {} /\ replay'.pc = "idle"
  <2>1. InfoOK'
    <3>1. ASSUME NEW f \in Queued' PROVE info'[f[1]] # "none"
      <4>1. f[1] \in Nodes /\ f \in Queued
        BY Zenon, <1>2 DEF Queued
      <4> QED BY Zenon, <1>1, <1>2, <4>1 DEF InfoOK, InfoKept
    <3> QED BY Zenon, <1>2, <3>1 DEF InfoOK
  <2> QED BY Zenon, <1>1, <1>2, <2>1, FreshShapes
<1>3. ASSUME UNCHANGED disk PROVE DiskOK' /\ Queued' = Queued /\ Whole' = Whole
  BY Zenon, <1>1, <1>3 DEF DiskOK, OneItem, Queued, Whole
<1>4. CASE UNCHANGED files
  <2>1. UNCHANGED disk /\ UNCHANGED info
    BY Zenon, <1>4 DEF files
  <2>2. InfoKept /\ info' \in [Nodes -> {"none", "empty", "written"}]
    BY Zenon, <1>1, <2>1 DEF InfoKept, InfoOK
  <2>3. DiskOK' /\ Queued' \subseteq Queued /\ Whole' = Whole
    BY Zenon, <1>3, <2>1
  <2> QED BY Zenon, <1>1, <1>2, <2>2, <2>3
<1>5. ASSUME NEW t \in Tables, NEW e \in sync[t].entry, HalfEnqueued(e)
      PROVE  /\ Shapes' /\ InfoKept /\ Queued' \subseteq Queued /\ Reserved' = {}
             /\ replay'.pc = "idle" /\ Whole \subseteq Whole'
  <2>1. e \in Pairs /\ e[1] \in Nodes
    BY Zenon, <1>1, <1>5, PairsOfTable, PairParts DEF SyncOK, RoundOK
  <2>2. WriteNodeInfo(e[1])
    BY Zenon, <1>5 DEF HalfEnqueued
  <2>3. InfoKept /\ info' \in [Nodes -> {"none", "empty", "written"}]
    BY Zenon, <1>1, <2>1, <2>2, InfoWritten DEF InfoKept
  <2>4. DiskOK' /\ Queued' \subseteq Queued /\ Whole \subseteq Whole'
    <3>1. CASE UNCHANGED disk
      BY Zenon, <1>3, <3>1
    <3>2. CASE ~Occupied(e) /\ disk' = [disk EXCEPT ![e[1]][e[2]] = "bare"]
      <4>1. DiskOK' /\ Queued' = Queued /\ Whole \subseteq Whole'
        BY Zenon, <1>1, <2>1, <3>2, DiskFill
      <4> QED BY Zenon, <4>1
    <3> QED BY Zenon, <1>5, <3>1, <3>2 DEF HalfEnqueued
  <2> QED BY Zenon, <1>2, <2>3, <2>4
<1>6. ASSUME replay.pc = "complete", NEW e \in Here \cap Queued, HalfRemoved(e), UNCHANGED info
      PROVE  /\ Shapes' /\ InfoKept /\ Queued' \subseteq Queued /\ Reserved' = {}
             /\ replay'.pc = "idle" /\ \A f \in Whole : f \in Whole' \/ f \in Here
  <2>1. DiskOK' /\ Queued' \subseteq Queued /\ Whole \ {e} \subseteq Whole'
    BY Zenon, <1>1, <1>6, DiskHalf
  <2>2. InfoKept /\ info' \in [Nodes -> {"none", "empty", "written"}]
    BY Zenon, <1>1, <1>6 DEF InfoKept, InfoOK
  <2>3. ASSUME NEW f \in Whole PROVE f \in Whole' \/ f \in Here
    BY Zenon, <1>6, <2>1
  <2> QED BY Zenon, <1>2, <2>1, <2>2, <2>3
<1> QED BY Zenon, <1>1, <1>4, <1>5, <1>6 DEF Restart

\* The steps that leave the queues alone.
Quiet ==
    \/ \E p \in Parts : Flush(p)
    \/ \E t \in Tables : RoundStep(t)
    \/ SendStep \/ CompleteSendMeasure
    \/ CheckStatus \/ \E n \in Nodes : Flip(n)

\* They keep the shape.
LEMMA QuietSteps ==
    ASSUME Shapes, Quiet
    PROVE  /\ Shapes' /\ Queued' = Queued /\ Whole' = Whole /\ InfoKept
           /\ disk' = disk /\ total' = total /\ UNCHANGED deleted
           /\ Reserved' \subseteq Reserved
           /\ \/ UNCHANGED <<replay, delivered>>
              \/ SendStep /\ replay'.pc \notin {"complete", "subtract"}
              \/ CompleteSendMeasure
<1>1. UNCHANGED <<queues, deleted>>
  BY Zenon DEF Quiet, Flush, RoundStep, CollectPartsToSync, Ship, CalculateOfflineNodes,
               FilterNodesForShard, HandleSyncIntroductions, SendStep, Tick,
               ReplayBatchForNode, ReadPartFromHandoff, SendPartToNode, SendPartToNodeFails,
               CompleteSendMeasure, CheckStatus, Flip
<1>2. SyncOK /\ ReplayOK /\ table \subseteq Parts /\ up \subseteq Nodes
  BY Zenon DEF Shapes, OtherOK
<1>3. ASSUME UNCHANGED sync PROVE SyncOK' /\ Reserved' = Reserved
  <2>1. SyncOK'
    BY Zenon, <1>2, <1>3 DEF SyncOK, RoundOK, PartsOf, PairsOf, ItemsOf
  <2> QED BY Zenon, <1>3, <2>1 DEF Reserved
<1>4. ASSUME UNCHANGED replay PROVE ReplayOK'
  <2>1. Largest' = Largest
    BY Zenon DEF Largest, Items
  <2> QED BY Zenon, <1>2, <1>4, <2>1 DEF ReplayOK, Busy
<1>5. ASSUME SyncOK', ReplayOK', table' \subseteq Parts, up' \subseteq Nodes
      PROVE  /\ Shapes' /\ Queued' = Queued /\ Whole' = Whole /\ InfoKept
             /\ disk' = disk /\ total' = total
  BY Zenon, <1>1, <1>5, QuietShapes
<1>6. CASE \/ \E p \in Parts : Flush(p)
           \/ CheckStatus \/ \E n \in Nodes : Flip(n)
  <2>1. UNCHANGED <<sync, replay, delivered>> /\ table' \subseteq Parts /\ up' \subseteq Nodes
    BY Zenon, <1>2, <1>6 DEF Flush, CheckStatus, Flip, cluster, shard
  <2> QED BY Zenon, <1>1, <1>3, <1>4, <1>5, <2>1
<1>7. ASSUME NEW t \in Tables, RoundStep(t)
      PROVE  /\ Shapes' /\ Queued' = Queued /\ Whole' = Whole /\ InfoKept
             /\ disk' = disk /\ total' = total
             /\ Reserved' \subseteq Reserved /\ UNCHANGED <<replay, delivered>>
  <2>1. UNCHANGED <<replay, delivered, up>>
    BY Zenon, <1>7 DEF RoundStep, CollectPartsToSync, Ship, CalculateOfflineNodes,
                       FilterNodesForShard, HandleSyncIntroductions, cluster
  <2>2. SyncOK' /\ table' \subseteq Parts /\ Reserved' \subseteq Reserved
    BY Zenon, <1>7, RoundShapes
  <2> QED BY Zenon, <1>2, <1>4, <1>5, <2>1, <2>2
<1>8. CASE SendStep
  <2>1. UNCHANGED <<sync, table, up>>
    BY Zenon, <1>8 DEF SendStep, Tick, ReplayBatchForNode, ReadPartFromHandoff, SendPartToNode,
                       SendPartToNodeFails, cluster, shard
  <2>2. ReplayOK' /\ replay'.pc \notin {"complete", "subtract"}
    BY Zenon, <1>8, SendShapes
  <2> QED BY Zenon, <1>1, <1>2, <1>3, <1>5, <1>8, <2>1, <2>2
<1>9. CASE CompleteSendMeasure
  <2>1. UNCHANGED <<sync, table, up>>
    BY Zenon, <1>9 DEF CompleteSendMeasure, cluster, shard
  <2>2. ReplayOK'
    BY Zenon, <1>9, MeasureShapes
  <2> QED BY Zenon, <1>1, <1>2, <1>3, <1>5, <1>9, <2>1, <2>2
<1> QED BY Zenon, <1>1, <1>6, <1>7, <1>8, <1>9 DEF Quiet

\* The steps of the system, by what they do to the queues.
LEMMA NextSteps ==
    ASSUME Next
    PROVE  \/ Quiet \/ \E t \in Tables : TryReserveSize(t) \/ EnqueueForNode(t)
           \/ CompleteSendRemove \/ CompleteSendSubtract \/ DeletePartsByGroup \/ Restart
BY Zenon DEF Next, Quiet, RoundStep, SendStep

\* The first state is well formed.
LEMMA InitShapes == Init => /\ Shapes /\ Queued = {} /\ Reserved = {}
                            /\ replay.pc = "idle" /\ total = 0 /\ ~deleted
<1> SUFFICES ASSUME Init
             PROVE  /\ Shapes /\ Queued = {} /\ Reserved = {}
                    /\ replay.pc = "idle" /\ total = 0 /\ ~deleted
  BY Zenon
<1>1. /\ disk = [n \in Nodes |-> [i \in Items |-> "none"]] /\ total = 0
      /\ up = Nodes /\ table = {} /\ deleted = FALSE /\ loaded = {}
      /\ info = [n \in Nodes |-> "none"] /\ sync = [t \in Tables |-> SyncIdle]
      /\ replay = [pc |-> "idle", nodes |-> {}, at |-> 0, items |-> {},
                   data |-> {}, full |-> {}, size |-> 0]
  BY Zenon DEF Init, ReplayIdle
<1>2. 0 \in Nat
  OBVIOUS
<1>3. SyncOK /\ Reserved = {}
  <2>1. \A t \in Tables : sync[t] = SyncIdle
    BY Zenon, <1>1
  <2>2. \A t : RoundOK(t, SyncIdle)
    BY Zenon DEF RoundOK, SyncIdle
  <2>3. Reserved = {}
    <3>1. SyncIdle.entry = {}
      BY Zenon DEF SyncIdle
    <3> QED BY Zenon, <2>1, <3>1 DEF Reserved
  <2> QED BY Zenon, <1>1, <2>1, <2>2, <2>3 DEF SyncOK
<1>4. ReplayOK /\ replay.pc = "idle"
  <2>1. replay.pc = "idle" /\ replay.nodes = {} /\ replay.items = {} /\ replay.size = 0
    BY Zenon, <1>1
  <2>2. replay = [pc |-> replay.pc, nodes |-> replay.nodes, at |-> replay.at,
                  items |-> replay.items, data |-> replay.data, full |-> replay.full,
                  size |-> replay.size]
    BY Zenon, <1>1
  <2> QED BY Zenon, <1>2, <2>1, <2>2 DEF ReplayOK, Busy
<1>5. \A n \in Nodes, i \in Items : disk[n][i] = "none"
  BY Zenon, <1>1
<1>6. DiskOK
  BY Zenon, <1>1, <1>5 DEF DiskOK, OneItem, States
<1>7. Queued = {}
  <2>1. \A e \in Nodes \X Items : e[1] \in Nodes /\ e[2] \in Items
    BY Zenon
  <2> QED BY Zenon, <1>5, <2>1 DEF Queued
<1>8. InfoOK /\ OtherOK
  BY Zenon, <1>1, <1>2, <1>7 DEF InfoOK, OtherOK
<1> QED BY Zenon, <1>1, <1>3, <1>4, <1>6, <1>7, <1>8 DEF Shapes

-----------------------------------------------------------------------------
(* What is queued is kept *)

\* The directory of the item the worker has in hand still holds what it read there, unless
\* a group deletion has removed that.
InHand ==
    replay.pc \in {"send", "measure", "complete"} =>
        \E i \in replay.data :
            /\ i \in Items /\ Key[i] = Key[Current]
            /\ \/ /\ disk[replay.at][i] # "none"
                  /\ disk[replay.at][i] = "queued" => i \in replay.full
               \/ deleted /\ i \in ItemsOf(Dropped)

\* The worker completes only what its node has acknowledged.
Acknowledged ==
    replay.pc \in {"measure", "complete"} =>
        \A i \in replay.full : <<replay.at, i>> \in delivered

IInv == Shapes /\ InHand /\ Acknowledged

KeptStep ==
    \A e \in Whole : \/ e \in Whole' \cup delivered
                     \/ deleted' # deleted /\ e[2] \in ItemsOf(Dropped)
                     \/ Reused(e)

\* A worker that has nothing in hand.
LEMMA EmptyHanded ==
    ASSUME Shapes', replay'.pc \notin {"send", "measure", "complete"}
    PROVE  IInv'
BY Zenon DEF IInv, InHand, Acknowledged

\* What completeSend removes is delivered, or took the place of what was.
LEMMA RemovesDelivered ==
    ASSUME IInv, replay.pc = "complete", NEW e \in Whole, e \in Here
    PROVE  e \in delivered \/ Reused(e)
<1>1. PICK i \in replay.data :
         /\ i \in Items /\ Key[i] = Key[Current]
         /\ \/ /\ disk[replay.at][i] # "none"
               /\ disk[replay.at][i] = "queued" => i \in replay.full
            \/ deleted /\ i \in ItemsOf(Dropped)
  BY Zenon DEF IInv, InHand
<1>2. CASE deleted /\ i \in ItemsOf(Dropped)
  BY Zenon, <1>1, <1>2 DEF Reused
<1>3. CASE /\ disk[replay.at][i] # "none"
           /\ disk[replay.at][i] = "queued" => i \in replay.full
  <2>1. e \in Pairs /\ e[1] = replay.at /\ Key[e[2]] = Key[Current] /\ disk[e[1]][e[2]] = "queued"
    BY Zenon DEF Here, At, Whole, Pairs
  <2>2. e = <<e[1], e[2]>> /\ e[1] \in Nodes /\ e[2] \in Items
    BY Zenon, <2>1, PairParts
  <2>3. disk[e[1]][e[2]] # "none" /\ disk[e[1]][i] # "none" /\ Key[e[2]] = Key[i]
    BY Zenon, <1>1, <1>3, <2>1
  <2>4. e[2] = i
    BY Zenon, <1>1, <2>2, <2>3 DEF IInv, Shapes, DiskOK, OneItem
  <2>5. i \in replay.full
    BY Zenon, <1>3, <2>1, <2>4
  <2>6. <<replay.at, i>> \in delivered
    BY Zenon, <2>5 DEF IInv, Acknowledged
  <2> QED BY Zenon, <2>1, <2>2, <2>4, <2>6
<1> QED BY Zenon, <1>1, <1>2, <1>3

\* The steps that leave the queues alone.
LEMMA QuietKeeps ==
    ASSUME IInv, Quiet
    PROVE  IInv' /\ KeptStep
<1>1. /\ Shapes' /\ Whole' = Whole /\ disk' = disk /\ UNCHANGED deleted
      /\ \/ UNCHANGED <<replay, delivered>>
         \/ SendStep /\ replay'.pc \notin {"complete", "subtract"}
         \/ CompleteSendMeasure
  BY Zenon, QuietSteps DEF IInv
<1>2. KeptStep
  BY Zenon, <1>1 DEF KeptStep
<1>3. CASE UNCHANGED <<replay, delivered>>
  BY Zenon, <1>1, <1>2, <1>3 DEF IInv, InHand, Acknowledged, Current, ItemsOf
<1>4. CASE CompleteSendMeasure
  <2>1. /\ replay.pc = "measure" /\ replay'.at = replay.at /\ Current' = Current
        /\ replay'.data = replay.data /\ replay'.full = replay.full
    BY Zenon, <1>4, MeasureShapes DEF IInv
  <2>2. UNCHANGED delivered
    BY Zenon, <1>4 DEF CompleteSendMeasure
  <2>3. InHand' /\ Acknowledged'
    BY Zenon, <1>1, <2>1, <2>2 DEF IInv, InHand, Acknowledged, ItemsOf
  <2> QED BY Zenon, <1>1, <1>2, <2>3 DEF IInv
<1>5. CASE SendStep
  <2>1. \/ replay'.pc \notin {"send", "measure", "complete"}
        \/ \E da, fu : /\ ReadPartFromHandoff
                       /\ replay' = [replay EXCEPT !.pc = "send", !.data = da, !.full = fu]
        \/ SendPartToNode
    BY Zenon, <1>5, SendShapes DEF IInv
  <2>2. CASE replay'.pc \notin {"send", "measure", "complete"}
    BY Zenon, <1>1, <1>2, <2>2, EmptyHanded
  <2>3. ReplayOK
    BY Zenon DEF IInv, Shapes
  <2>4. CASE ReadPartFromHandoff /\ replay'.pc \in {"send", "measure", "complete"}
    <3> DEFINE da == {e[2] : e \in Here \cap Queued}
               fu == {e[2] : e \in Here \cap Whole}
    <3>1. replay.pc = "read" /\ replay.pc \in Busy
      BY Zenon, <2>4 DEF ReadPartFromHandoff, Busy
    <3>2. replay' # NextItem
      <4>1. SUFFICES ASSUME replay' = NextItem PROVE FALSE
        BY Zenon
      <4>2. replay'.pc \in {"idle", "visit", "read"}
        BY Zenon, <2>3, <3>1, <4>1, NextItemOK
      <4> QED BY Zenon, <2>4, <4>2
    <3>3. /\ Here \cap Queued # {}
          /\ replay' = [replay EXCEPT !.pc = "send", !.data = da, !.full = fu]
      BY Zenon, <2>4, <3>2 DEF ReadPartFromHandoff
    <3>4. PICK e \in Here \cap Queued : TRUE
      BY Zenon, <3>3
    <3>5. /\ e \in Pairs /\ e[1] = replay.at /\ Key[e[2]] = Key[Current] /\ e[2] \in da
          /\ disk[e[1]][e[2]] \in {"queued", "torn"}
      BY Zenon, <3>4 DEF Here, At, Queued, Pairs
    <3>6. disk[e[1]][e[2]] = "queued" => e[2] \in fu
      BY Zenon, <3>4, <3>5 DEF Whole, Pairs
    <3> HIDE DEF da, fu
    <3>7. /\ replay'.pc = "send" /\ replay'.at = replay.at /\ replay'.items = replay.items
          /\ replay'.data = da /\ replay'.full = fu
      BY Zenon, <2>3, <3>3 DEF ReplayOK
    <3>8. Current' = Current
      BY Zenon, <3>7 DEF Current
    <3>9. e[2] \in Items /\ disk'[replay'.at][e[2]] # "none"
      BY Zenon, <1>1, <3>5, <3>7, PairParts
    <3>10. disk'[replay'.at][e[2]] = "queued" => e[2] \in replay'.full
      BY Zenon, <1>1, <3>5, <3>6, <3>7
    <3>11. e[2] \in replay'.data /\ Key[e[2]] = Key[Current']
      BY Zenon, <3>5, <3>7, <3>8
    <3>12. InHand'
      BY Zenon, <3>9, <3>10, <3>11 DEF InHand
    <3>13. Acknowledged'
      BY Zenon, <3>7 DEF Acknowledged
    <3> QED BY Zenon, <1>1, <1>2, <3>12, <3>13 DEF IInv
  <2>5. CASE SendPartToNode
    <3>1. /\ replay.pc = "send" /\ replay' = [replay EXCEPT !.pc = "measure"]
          /\ delivered' = delivered \cup {<<replay.at, i>> : i \in replay.full}
      BY Zenon, <2>5 DEF SendPartToNode
    <3>2. /\ replay'.at = replay.at /\ replay'.items = replay.items
          /\ replay'.data = replay.data /\ replay'.full = replay.full
      BY Zenon, <2>3, <3>1 DEF ReplayOK
    <3>3. Current' = Current
      BY Zenon, <3>2 DEF Current
    <3>4. InHand'
      BY Zenon, <1>1, <3>1, <3>2, <3>3 DEF IInv, InHand, ItemsOf
    <3>5. \A i \in replay'.full : <<replay'.at, i>> \in delivered'
      <4> DEFINE sent == {<<replay.at, j>> : j \in replay.full}
      <4>1. \A i \in replay.full : <<replay.at, i>> \in sent
        BY SMT
      <4>2. sent \subseteq delivered'
        BY Zenon, <3>1
      <4> HIDE DEF sent
      <4>3. \A i \in replay.full : <<replay.at, i>> \in delivered'
        BY Zenon, <4>1, <4>2
      <4> QED BY Zenon, <3>2, <4>3
    <3>6. Acknowledged'
      BY Zenon, <3>5 DEF Acknowledged
    <3> QED BY Zenon, <1>1, <1>2, <3>4, <3>6 DEF IInv
  <2> QED BY Zenon, <2>1, <2>2, <2>4, <2>5
<1> QED BY Zenon, <1>1, <1>3, <1>4, <1>5, <1>2

\* enqueueForNode does not touch the directory the worker is busy with.
LEMMA EnqueueKeeps ==
    ASSUME IInv, NEW t \in Tables, EnqueueForNode(t)
    PROVE  IInv' /\ KeptStep
<1>1. /\ Shapes' /\ Whole \subseteq Whole'
      /\ \A n \in Nodes, i \in Items : disk[n][i] # "none" => disk'[n][i] = disk[n][i]
  BY Zenon, EnqueueShapes DEF IInv, EnqueueEffect
<1>2. UNCHANGED <<replay, delivered, deleted>>
  BY Zenon DEF EnqueueForNode
<1>3. InHand'
  <2>1. SUFFICES ASSUME replay.pc \in {"send", "measure", "complete"} PROVE InHand'
    BY Zenon, <1>2 DEF InHand
  <2>2. replay.at \in Nodes
    BY Zenon, <2>1 DEF IInv, Shapes, ReplayOK, Busy
  <2>3. PICK i \in replay.data :
           /\ i \in Items /\ Key[i] = Key[Current]
           /\ \/ /\ disk[replay.at][i] # "none"
                 /\ disk[replay.at][i] = "queued" => i \in replay.full
              \/ deleted /\ i \in ItemsOf(Dropped)
    BY Zenon, <2>1 DEF IInv, InHand
  <2>4. disk[replay.at][i] # "none" => disk'[replay.at][i] = disk[replay.at][i]
    BY Zenon, <1>1, <2>2, <2>3
  <2>5. Current' = Current
    BY Zenon, <1>2 DEF Current
  <2>6. \/ /\ disk'[replay.at][i] # "none"
           /\ disk'[replay.at][i] = "queued" => i \in replay.full
        \/ deleted /\ i \in ItemsOf(Dropped)
    BY Zenon, <2>3, <2>4
  <2> QED BY Zenon, <1>2, <2>3, <2>5, <2>6 DEF InHand, ItemsOf
<1>4. Acknowledged'
  BY Zenon, <1>2 DEF IInv, Acknowledged
<1>5. KeptStep
  BY Zenon, <1>1 DEF KeptStep
<1> QED BY Zenon, <1>1, <1>3, <1>4, <1>5 DEF IInv

\* A group deletion removes what is the group's.
LEMMA DeleteKeeps ==
    ASSUME IInv, DeletePartsByGroup
    PROVE  IInv' /\ KeptStep
<1>1. /\ Shapes' /\ UNCHANGED delivered /\ ~deleted /\ deleted' = TRUE
      /\ Whole \ Doomed \subseteq Whole'
      /\ (Complete(Doomed) /\ UNCHANGED replay) \/ replay'.pc = "idle"
  BY Zenon, DeleteShapes DEF IInv
<1>2. KeptStep
  <2>1. ASSUME NEW e \in Whole, e \in Doomed PROVE deleted' # deleted /\ e[2] \in ItemsOf(Dropped)
    BY Zenon, <1>1, <2>1 DEF Doomed
  <2> QED BY Zenon, <1>1, <2>1 DEF KeptStep
<1>3. CASE replay'.pc = "idle"
  BY Zenon, <1>1, <1>2, <1>3, EmptyHanded
<1>4. CASE Complete(Doomed) /\ UNCHANGED replay
  <2>1. \A n \in Nodes, i \in Items : <<n, i>> \notin Doomed => disk'[n][i] = disk[n][i]
    BY Zenon, <1>4, DiskComplete DEF IInv, Shapes
  <2>2. InHand'
    <3>1. SUFFICES ASSUME replay.pc \in {"send", "measure", "complete"} PROVE InHand'
      BY Zenon, <1>4 DEF InHand
    <3>2. replay.at \in Nodes
      BY Zenon, <3>1 DEF IInv, Shapes, ReplayOK, Busy
    <3>3. PICK i \in replay.data :
             /\ i \in Items /\ Key[i] = Key[Current]
             /\ disk[replay.at][i] # "none"
             /\ disk[replay.at][i] = "queued" => i \in replay.full
      BY Zenon, <1>1, <3>1 DEF IInv, InHand
    <3>4. Current' = Current
      BY Zenon, <1>4 DEF Current
    <3>5. CASE <<replay.at, i>> \in Doomed
      <4>1. <<replay.at, i>>[2] \in ItemsOf(Dropped)
        BY Zenon, <3>5 DEF Doomed
      <4>2. i \in ItemsOf(Dropped)
        BY Zenon, <4>1
      <4> QED BY Zenon, <1>1, <1>4, <3>3, <3>4, <4>2 DEF InHand, ItemsOf
    <3>6. CASE <<replay.at, i>> \notin Doomed
      <4>1. disk'[replay.at][i] = disk[replay.at][i]
        BY Zenon, <2>1, <3>2, <3>3, <3>6
      <4> QED BY Zenon, <1>4, <3>3, <3>4, <4>1 DEF InHand
    <3> QED BY Zenon, <3>5, <3>6
  <2>3. Acknowledged'
    BY Zenon, <1>1, <1>4 DEF IInv, Acknowledged
  <2> QED BY Zenon, <1>1, <1>2, <2>2, <2>3 DEF IInv
<1> QED BY Zenon, <1>1, <1>3, <1>4

\* Nothing is in hand in the first state.
LEMMA InitIInv == Init => IInv
BY Zenon, InitShapes DEF IInv, InHand, Acknowledged

\* The invariant is inductive, and every step keeps what is not delivered.
LEMMA NextKeeps == IInv /\ [Next]_vars => IInv' /\ [KeptStep]_vars
<1> SUFFICES ASSUME IInv, [Next]_vars PROVE IInv' /\ [KeptStep]_vars
  BY Zenon
<1>1. CASE UNCHANGED vars
  <2>1. UNCHANGED <<queues, up, table, sync, replay, deleted, delivered, disk>>
    BY Zenon, <1>1 DEF vars, queues, files, cluster, shard
  <2>2. SyncOK /\ ReplayOK /\ table' \subseteq Parts /\ up' \subseteq Nodes
    BY Zenon, <2>1 DEF IInv, Shapes, OtherOK
  <2>3. SyncOK'
    BY Zenon, <2>1, <2>2 DEF SyncOK, RoundOK, PartsOf, PairsOf, ItemsOf
  <2>4. ReplayOK'
    <3>1. Largest' = Largest
      BY Zenon DEF Largest, Items
    <3> QED BY Zenon, <2>1, <2>2, <3>1 DEF ReplayOK, Busy
  <2>5. Shapes'
    BY Zenon, <2>1, <2>2, <2>3, <2>4, QuietShapes DEF IInv
  <2>6. InHand' /\ Acknowledged'
    BY Zenon, <2>1 DEF IInv, InHand, Acknowledged, Current, ItemsOf
  <2> QED BY Zenon, <1>1, <2>5, <2>6 DEF IInv
<1>2. ASSUME NEW t \in Tables, TryReserveSize(t) PROVE IInv' /\ KeptStep
  <2>1. Shapes' /\ UNCHANGED <<disk, replay, deleted, delivered>>
    BY Zenon, <1>2, ReserveShapes DEF IInv
  <2>2. InHand' /\ Acknowledged' /\ KeptStep
    BY Zenon, <2>1 DEF IInv, InHand, Acknowledged, Current, ItemsOf, KeptStep, Whole
  <2> QED BY Zenon, <2>1, <2>2 DEF IInv
<1>3. CASE CompleteSendRemove
  <2>1. /\ Shapes' /\ replay.pc = "complete"
        /\ Whole' = Whole \ Here \/ Whole' = Whole
        /\ replay'.pc = "subtract" \/ replay'.pc = "idle"
    BY Zenon, <1>3, RemoveShapes DEF IInv
  <2>2. IInv'
    BY Zenon, <2>1, EmptyHanded
  <2>3. KeptStep
    BY Zenon, <2>1, RemovesDelivered DEF KeptStep
  <2> QED BY Zenon, <2>2, <2>3
<1>4. CASE CompleteSendSubtract
  <2>1. Shapes' /\ Whole' = Whole /\ replay'.pc \in {"idle", "visit", "read"}
    BY Zenon, <1>4, SubtractShapes DEF IInv
  <2>2. IInv'
    BY Zenon, <2>1, EmptyHanded
  <2> QED BY Zenon, <2>1, <2>2 DEF KeptStep
<1>5. CASE Restart
  <2>1. /\ Shapes' /\ replay'.pc = "idle"
        /\ \A e \in Whole : e \in Whole' \/ (replay.pc = "complete" /\ e \in Here)
    BY Zenon, <1>5, RestartShapes DEF IInv
  <2>2. IInv'
    BY Zenon, <2>1, EmptyHanded
  <2>3. KeptStep
    BY Zenon, <2>1, RemovesDelivered DEF KeptStep
  <2> QED BY Zenon, <2>2, <2>3
<1>6. CASE Next
  BY Zenon, <1>2, <1>3, <1>4, <1>5, <1>6, NextSteps, QuietKeeps, EnqueueKeeps, DeleteKeeps
<1> QED BY Zenon, <1>1, <1>6

\* A queued item is removed only after its node has acknowledged that item, or with its
\* group (completeSend, deletePartsByGroup), whatever part numbers the shards use, whatever
\* runs beside the replay and whenever the liaison stops; the exception is an item in the
\* directory from which the worker sent one of a group deleted since.
THEOREM ItemsAreKept == Spec => KeptUntilDelivered
<1>1. KeptUntilDelivered <=> [][KeptStep]_vars
  BY Zenon DEF KeptUntilDelivered, KeptStep
<1> QED BY <1>1, InitIInv, NextKeeps, PTL DEF Spec

-----------------------------------------------------------------------------
(* The account of the queues *)

Excess(a, b) == IF a > b THEN a - b ELSE 0

\* What completeSend is still to subtract for an item that is not queued any more.
Due ==
    IF replay.pc = "subtract" THEN replay.size
    ELSE IF replay.pc = "complete" THEN Excess(replay.size, Bytes(Here \cap Queued)) ELSE 0

Covered(d) == Bytes(Queued) + Bytes(Reserved) + Due <= total + d
Limited(m) == MaxSize > 0 => total <= m

\* The account covers the queues, the reservations and what is to be subtracted, and it
\* keeps to the limit.  A deletion may take one item out of it twice; a restart after
\* that counts anew, above the limit by as much.
Account ==
    \/ ~deleted /\ Covered(0) /\ Limited(MaxSize)
    \/ deleted /\ Covered(Largest) /\ Limited(MaxSize)
    \/ deleted /\ Covered(0) /\ Limited(MaxSize + Largest)

AccountInv == Shapes /\ (Nameless \/ Account)

Numbers ==
    /\ Queued \in SUBSET Pairs /\ Reserved \in SUBSET Pairs
    /\ Bytes(Queued) \in Nat /\ Bytes(Reserved) \in Nat
    /\ Due \in Nat /\ total \in Nat

\* The terms of the account are numbers.
LEMMA AccountTypes == Shapes => Numbers
<1> SUFFICES ASSUME Shapes PROVE Numbers
  BY Zenon
<1>1. Queued \in SUBSET Pairs /\ Reserved \in SUBSET Pairs /\ total \in Nat
  BY Zenon, ReservedPairs DEF Shapes, OtherOK, Queued, Pairs
<1>2. Due \in Nat
  <2>1. replay.size \in Nat
    BY Zenon DEF Shapes, ReplayOK
  <2>2. Here \cap Queued \in SUBSET Pairs
    BY Zenon, <1>1
  <2>3. Bytes(Here \cap Queued) \in Nat
    BY Zenon, <2>2, BytesFinite
  <2>4. Excess(replay.size, Bytes(Here \cap Queued)) \in Nat
    BY <2>1, <2>3 DEF Excess
  <2>5. 0 \in Nat
    OBVIOUS
  <2> QED BY Zenon, <2>1, <2>4, <2>5 DEF Due
<1> QED BY Zenon, <1>1, <1>2, BytesFinite DEF Numbers

\* They are so after a step.
LEMMA AccountTypesNext == Shapes' => Numbers'
BY AccountTypes, PTL

\* A step that keeps the account covered, for whatever is missing from it, and limited.
LEMMA AccountMove ==
    ASSUME Account, UNCHANGED deleted,
           \A d \in Nat : Covered(d) => Covered(d)',
           \A m \in Nat : MaxSize <= m /\ Limited(m) => Limited(m)'
    PROVE  Account'
<1>1. /\ 0 \in Nat /\ Largest \in Nat /\ MaxSize \in Nat /\ MaxSize + Largest \in Nat
      /\ MaxSize <= MaxSize /\ MaxSize <= MaxSize + Largest
  BY LargestItem, HandoffAssumption
<1> QED BY Zenon, <1>1 DEF Account

\* The account is not less than before by more than the queues, the reservations and
\* what is due are.
LEMMA CoveredMove ==
    ASSUME Shapes, Shapes',
           Bytes(Queued)' + Bytes(Reserved)' + Due' + total
              <= Bytes(Queued) + Bytes(Reserved) + Due + total'
    PROVE  \A d \in Nat : Covered(d) => Covered(d)'
<1>1. /\ Bytes(Queued) \in Nat /\ Bytes(Reserved) \in Nat /\ Due \in Nat /\ total \in Nat
  BY Zenon, AccountTypes DEF Numbers
<1>2. /\ Bytes(Queued)' \in Nat /\ Bytes(Reserved)' \in Nat /\ Due' \in Nat /\ total' \in Nat
  BY Zenon, AccountTypesNext DEF Numbers
<1> QED BY <1>1, <1>2 DEF Covered

\* A set that does not grow has no more bytes.
LEMMA BytesShrink ==
    ASSUME NEW t, NEW s, t \in SUBSET Pairs, s \subseteq t
    PROVE  Bytes(s) <= Bytes(t) /\ Bytes(s) \in Nat /\ Bytes(t) \in Nat
<1>1. s \in SUBSET t /\ s \in SUBSET Pairs
  BY Zenon
<1> QED BY Zenon, <1>1, BytesMono, BytesFinite

\* Bytes is a function of the set.
LEMMA BytesPrime ==
    /\ Bytes(Queued)' = Bytes(Queued') /\ Bytes(Reserved)' = Bytes(Reserved')
    /\ Bytes(Here \cap Queued)' = Bytes(Here' \cap Queued')
BY Zenon DEF Bytes, Largest, Items

\* No more is due when the worker waits and nothing leaves the queues.
LEMMA DueShrinks ==
    ASSUME Shapes, Shapes', UNCHANGED replay, Queued \subseteq Queued'
    PROVE  Due' <= Due
<1>1. Here' = Here
  BY Zenon DEF Here, At, Current
<1>2. Due \in Nat /\ Due' \in Nat /\ Queued' \in SUBSET Pairs
  BY Zenon, AccountTypes, AccountTypesNext DEF Numbers
<1>3. CASE replay.pc = "complete"
  <2>1. replay.size \in Nat
    BY Zenon DEF Shapes, ReplayOK
  <2>2. /\ Bytes(Here \cap Queued) <= Bytes(Here \cap Queued')
        /\ Bytes(Here \cap Queued) \in Nat /\ Bytes(Here \cap Queued') \in Nat
    <3>1. Here \cap Queued' \in SUBSET Pairs /\ Here \cap Queued \subseteq Here \cap Queued'
      BY Zenon, <1>2
    <3> QED BY Zenon, <3>1, BytesShrink
  <2>3. Due = Excess(replay.size, Bytes(Here \cap Queued))
    BY Zenon, <1>3 DEF Due
  <2>4. Due' = Excess(replay.size, Bytes(Here \cap Queued'))
    BY Zenon, <1>1, <1>3, BytesPrime DEF Due, Excess
  <2> QED BY <2>1, <2>2, <2>3, <2>4 DEF Excess
<1>4. CASE replay.pc # "complete"
  <2>1. Due' = Due
    BY Zenon, <1>4 DEF Due
  <2> QED BY <1>2, <2>1
<1> QED BY Zenon, <1>3, <1>4

\* Steps that leave the queues alone.
LEMMA QuietAccount ==
    ASSUME Shapes, Account, Quiet
    PROVE  Account'
<1>1. /\ Shapes' /\ Queued' = Queued /\ total' = total /\ UNCHANGED deleted
      /\ Reserved' \subseteq Reserved
      /\ \/ UNCHANGED replay
         \/ replay'.pc \notin {"complete", "subtract"}
         \/ CompleteSendMeasure
  BY Zenon, QuietSteps
<1>2. /\ Bytes(Queued) \in Nat /\ Bytes(Reserved) \in Nat /\ Due \in Nat /\ total \in Nat
      /\ Bytes(Reserved)' \in Nat /\ Due' \in Nat
      /\ Reserved \in SUBSET Pairs /\ Queued \in SUBSET Pairs
  BY Zenon, <1>1, AccountTypes, AccountTypesNext DEF Numbers
<1>3. Bytes(Queued)' = Bytes(Queued)
  BY Zenon, <1>1, BytesPrime
<1>4. Bytes(Reserved)' <= Bytes(Reserved)
  BY Zenon, <1>1, <1>2, BytesShrink, BytesPrime
<1>5. Due' <= Due
  <2>1. CASE UNCHANGED replay
    BY Zenon, <1>1, <2>1, DueShrinks
  <2>2. CASE replay'.pc \notin {"complete", "subtract"}
    <3>1. Due' = 0
      BY Zenon, <2>2 DEF Due
    <3> QED BY <1>2, <3>1
  <2>3. CASE CompleteSendMeasure
    <3>1. /\ replay'.pc = "complete" /\ Here' = Here
          /\ replay'.size = Bytes(Here \cap Queued)
      BY Zenon, <2>3, MeasureShapes
    <3>2. Bytes(Here' \cap Queued') = Bytes(Here \cap Queued)
      BY Zenon, <1>1, <3>1
    <3>3. Due' = Excess(Bytes(Here \cap Queued), Bytes(Here \cap Queued))
      BY Zenon, <3>1, <3>2, BytesPrime DEF Due, Excess
    <3>4. Here \cap Queued \in SUBSET Pairs
      BY Zenon, <1>2
    <3>5. Bytes(Here \cap Queued) \in Nat
      BY Zenon, <3>4, BytesFinite
    <3>6. Due' = 0
      BY <3>3, <3>5 DEF Excess
    <3> QED BY <1>2, <3>6
  <2> QED BY Zenon, <1>1, <2>1, <2>2, <2>3
<1>6. Bytes(Queued)' + Bytes(Reserved)' + Due' + total
         <= Bytes(Queued) + Bytes(Reserved) + Due + total'
  <2>1. total' = total
    BY Zenon, <1>1
  <2> QED BY <1>2, <1>3, <1>4, <1>5, <2>1
<1>7. \A d \in Nat : Covered(d) => Covered(d)'
  BY Zenon, <1>1, <1>6, CoveredMove
<1>8. \A m \in Nat : Limited(m) => Limited(m)'
  BY Zenon, <1>1 DEF Limited
<1> QED BY Zenon, <1>1, <1>7, <1>8, AccountMove

\* The account bounds the queues.
LEMMA AccountBounds == AccountInv => WithinLimit /\ AccountCoversQueue
<1> SUFFICES ASSUME AccountInv, ~Nameless PROVE WithinLimit /\ AccountCoversQueue
  BY Zenon DEF WithinLimit, AccountCoversQueue
<1> DEFINE R == {e \in Reserved : disk[e[1]][e[2]] = "none"}
<1>1. /\ Queued \in SUBSET Pairs /\ Reserved \in SUBSET Pairs /\ Account
      /\ Bytes(Queued) \in Nat /\ Bytes(Reserved) \in Nat /\ Due \in Nat /\ total \in Nat
  BY Zenon, AccountTypes DEF Numbers, AccountInv
<1>2. Largest \in Nat /\ MaxSize \in Nat
  BY Zenon, LargestItem, HandoffAssumption
<1>3. WithinLimit
  <2>1. CASE ~deleted /\ Covered(0) /\ Limited(MaxSize)
    <3>1. MaxSize > 0 => Bytes(Queued) <= MaxSize + 0
      BY <1>1, <1>2, <2>1 DEF Covered, Limited
    <3> QED BY Zenon, <2>1, <3>1 DEF WithinLimit
  <2>2. CASE deleted /\ Covered(Largest) /\ Limited(MaxSize)
    <3>1. MaxSize > 0 => Bytes(Queued) <= MaxSize + Largest
      BY <1>1, <1>2, <2>2 DEF Covered, Limited
    <3> QED BY Zenon, <2>2, <3>1 DEF WithinLimit
  <2>3. CASE deleted /\ Covered(0) /\ Limited(MaxSize + Largest)
    <3>1. MaxSize > 0 => Bytes(Queued) <= MaxSize + Largest
      BY <1>1, <1>2, <2>3 DEF Covered, Limited
    <3> QED BY Zenon, <2>3, <3>1 DEF WithinLimit
  <2> QED BY Zenon, <1>1, <2>1, <2>2, <2>3 DEF Account
<1>4. AccountCoversQueue
  <2>1. SUFFICES ASSUME ~deleted PROVE Bytes(Queued \cup R) <= total
    BY Zenon DEF AccountCoversQueue
  <2>2. Covered(0)
    BY Zenon, <1>1, <2>1 DEF Account
  <2>3. R \in SUBSET Reserved /\ R \in SUBSET Pairs
    BY Zenon, <1>1
  <2> HIDE DEF R
  <2>4. /\ Bytes(Queued \cup R) <= Bytes(Queued) + Bytes(R) /\ Bytes(R) <= Bytes(Reserved)
        /\ Queued \cup R \in SUBSET Pairs
    BY Zenon, <1>1, <2>3, BytesUnion, BytesMono
  <2>5. Bytes(R) \in Nat /\ Bytes(Queued \cup R) \in Nat
    BY Zenon, <2>3, <2>4, BytesFinite
  <2> QED BY <1>1, <2>2, <2>4, <2>5 DEF Covered
<1> QED BY Zenon, <1>3, <1>4

\* newHandoffController adds up what it finds, which is no more than was queued.
LEMMA Recount ==
    ASSUME AccountInv, ~Nameless, ~Nameless', Shapes', NewHandoffController,
           Queued' \subseteq Queued, Reserved' = {}, replay'.pc = "idle",
           UNCHANGED deleted \/ deleted' = TRUE
    PROVE  Account'
<1>1. /\ Queued \in SUBSET Pairs /\ Bytes(Queued) \in Nat
      /\ Queued' \in SUBSET Pairs /\ Bytes(Queued)' \in Nat
  BY Zenon, AccountTypes, AccountTypesNext DEF Numbers, AccountInv
<1>2. total' = Bytes(Queued)'
  <2>1. total' = Bytes({e \in Queued' : e[1] \in loaded'}) /\ loaded' = {n \in Nodes : info'[n] = "written"}
    BY Zenon DEF NewHandoffController
  <2>2. ASSUME NEW e \in Queued' PROVE e[1] \in loaded'
    <3>1. e[1] \in Nodes /\ info'[e[1]] # "none"
      BY Zenon, <2>2 DEF Shapes, InfoOK, Queued
    <3>2. info'[e[1]] # "empty"
      BY Zenon, <3>1 DEF Nameless
    <3>3. info'[e[1]] \in {"none", "empty", "written"}
      BY Zenon, <3>1 DEF Shapes, InfoOK
    <3> QED BY Zenon, <2>1, <3>1, <3>2, <3>3
  <2>3. {e \in Queued' : e[1] \in loaded'} = Queued'
    BY Zenon, <2>2
  <2> QED BY Zenon, <2>1, <2>3, BytesPrime
<1>3. Bytes(Queued)' <= Bytes(Queued)
  BY Zenon, <1>1, BytesShrink, BytesPrime
<1>4. Bytes(Reserved)' = 0 /\ Due' = 0
  BY Zenon, BytesEmpty, BytesPrime DEF Due
<1>5. Covered(0)'
  <2>1. Bytes(Queued)' + 0 + 0 <= Bytes(Queued)' + 0
    BY <1>1
  <2> QED BY Zenon, <1>2, <1>4, <2>1 DEF Covered
<1>6. WithinLimit /\ Largest \in Nat /\ MaxSize \in Nat
  BY Zenon, AccountBounds, LargestItem, HandoffAssumption
<1>7. CASE deleted'
  <2>1. CASE deleted
    <3>1. MaxSize > 0 => Bytes(Queued) <= MaxSize + Largest
      BY Zenon, <1>6, <2>1 DEF WithinLimit
    <3>2. MaxSize > 0 => Bytes(Queued)' <= MaxSize + Largest
      BY <1>1, <1>3, <1>6, <3>1
    <3>3. Limited(MaxSize + Largest)'
      BY Zenon, <1>2, <3>2 DEF Limited
    <3> QED BY Zenon, <1>5, <1>7, <3>3 DEF Account
  <2>2. CASE ~deleted
    <3>1. MaxSize > 0 => Bytes(Queued) <= MaxSize + 0
      BY Zenon, <1>6, <2>2 DEF WithinLimit
    <3>2. MaxSize > 0 => Bytes(Queued)' <= MaxSize + Largest
      BY <1>1, <1>3, <1>6, <3>1
    <3>3. Limited(MaxSize + Largest)'
      BY Zenon, <1>2, <3>2 DEF Limited
    <3> QED BY Zenon, <1>5, <1>7, <3>3 DEF Account
  <2> QED BY Zenon, <2>1, <2>2
<1>8. CASE ~deleted'
  <2>1. ~deleted
    BY Zenon, <1>8
  <2>2. MaxSize > 0 => Bytes(Queued) <= MaxSize + 0
    BY Zenon, <1>6, <2>1 DEF WithinLimit
  <2>3. MaxSize > 0 => Bytes(Queued)' <= MaxSize
    BY <1>1, <1>3, <1>6, <2>2
  <2>4. Limited(MaxSize)'
    BY Zenon, <1>2, <2>3 DEF Limited
  <2> QED BY Zenon, <1>5, <1>8, <2>4 DEF Account
<1> QED BY Zenon, <1>7, <1>8

\* tryReserveSize takes what it reserves from the room that is left.
LEMMA ReserveAccount ==
    ASSUME Shapes, Account, NEW t \in Tables, TryReserveSize(t)
    PROVE  Account'
<1>1. /\ Shapes' /\ UNCHANGED <<disk, replay, deleted>>
      /\ \/ Reserved' \subseteq Reserved /\ total' = total
         \/ \E e \in Pairs : /\ Reserved' \subseteq Reserved \cup {e}
                             /\ ~(MaxSize > 0 /\ total + Size[e[2]] > MaxSize)
                             /\ total' = total + Size[e[2]]
  BY Zenon, ReserveShapes
<1>2. Queued' = Queued
  BY Zenon, <1>1 DEF Queued
<1>3. Bytes(Queued)' = Bytes(Queued) /\ Due' <= Due
  BY Zenon, <1>1, <1>2, BytesPrime, DueShrinks
<1>4. /\ Bytes(Queued) \in Nat /\ Bytes(Reserved) \in Nat /\ Due \in Nat /\ total \in Nat
      /\ Bytes(Reserved)' \in Nat /\ Due' \in Nat /\ Reserved \in SUBSET Pairs
  BY Zenon, <1>1, AccountTypes, AccountTypesNext DEF Numbers
<1>5. CASE Reserved' \subseteq Reserved /\ total' = total
  <2>1. Bytes(Reserved)' <= Bytes(Reserved)
    BY Zenon, <1>4, <1>5, BytesShrink, BytesPrime
  <2>2. Bytes(Queued)' + Bytes(Reserved)' + Due' + total
           <= Bytes(Queued) + Bytes(Reserved) + Due + total'
    BY <1>3, <1>4, <1>5, <2>1
  <2>3. \A d \in Nat : Covered(d) => Covered(d)'
    BY Zenon, <1>1, <2>2, CoveredMove
  <2>4. \A m \in Nat : Limited(m) => Limited(m)'
    BY Zenon, <1>5 DEF Limited
  <2> QED BY Zenon, <1>1, <2>3, <2>4, AccountMove
<1>6. ASSUME NEW e \in Pairs, Reserved' \subseteq Reserved \cup {e},
             ~(MaxSize > 0 /\ total + Size[e[2]] > MaxSize), total' = total + Size[e[2]]
      PROVE  Account'
  <2>1. Bytes({e}) = Size[e[2]] /\ Size[e[2]] \in Nat
    BY Zenon, BytesOne
  <2>2. /\ Bytes(Reserved)' <= Bytes(Reserved \cup {e}) /\ Bytes(Reserved \cup {e}) \in Nat
        /\ Bytes(Reserved \cup {e}) <= Bytes(Reserved) + Bytes({e})
    <3>1. Reserved \cup {e} \in SUBSET Pairs /\ {e} \in SUBSET Pairs
      BY Zenon, <1>4
    <3> QED BY Zenon, <1>4, <1>6, <3>1, BytesShrink, BytesUnion, BytesPrime
  <2>3. Bytes(Queued)' + Bytes(Reserved)' + Due' + total
           <= Bytes(Queued) + Bytes(Reserved) + Due + total'
    BY <1>3, <1>4, <1>6, <2>1, <2>2
  <2>4. \A d \in Nat : Covered(d) => Covered(d)'
    BY Zenon, <1>1, <2>3, CoveredMove
  <2>5. ASSUME NEW m \in Nat, MaxSize <= m PROVE Limited(m)'
    <3>1. MaxSize > 0 => total' <= m
      BY <1>4, <1>6, <2>1, <2>5, HandoffAssumption
    <3> QED BY Zenon, <3>1 DEF Limited
  <2> QED BY Zenon, <1>1, <2>4, <2>5, AccountMove
<1> QED BY Zenon, <1>1, <1>5, <1>6

\* The rest of enqueueForNode turns the reservation into an item, or gives it back.
LEMMA EnqueueAccount ==
    ASSUME Shapes, Account, NEW t \in Tables, EnqueueForNode(t)
    PROVE  Account'
<1>1. Shapes' /\ UNCHANGED <<replay, deleted>>
  BY Zenon, EnqueueShapes DEF EnqueueForNode
<1>2. PICK e : EnqueueEffect(t, e)
  BY Zenon, EnqueueShapes
<1>3. /\ e \in Pairs /\ e \in Reserved /\ e \notin Reserved' /\ Reserved' \subseteq Reserved
      /\ \/ Queued' = Queued /\ total' = total
         \/ e \notin Queued /\ Queued' = Queued \cup {e} /\ total' = total
         \/ Queued' = Queued /\ total' = Less(Size[e[2]])
  BY Zenon, <1>2 DEF EnqueueEffect, Reserved
<1>4. /\ Bytes(Queued) \in Nat /\ Bytes(Reserved) \in Nat /\ Due \in Nat /\ total \in Nat
      /\ Bytes(Reserved)' \in Nat /\ Due' \in Nat /\ total' \in Nat
      /\ Reserved \in SUBSET Pairs /\ Reserved' \in SUBSET Pairs /\ Queued \in SUBSET Pairs
  BY Zenon, <1>1, AccountTypes, AccountTypesNext DEF Numbers
<1>5. Bytes({e}) = Size[e[2]] /\ Size[e[2]] \in Nat
  BY Zenon, <1>3, BytesOne
<1>6. Bytes(Reserved)' + Size[e[2]] <= Bytes(Reserved)
  <2>1. /\ {e} \in SUBSET Pairs /\ Reserved' \cap {e} = {} /\ Reserved' \cup {e} \subseteq Reserved
    BY Zenon, <1>3
  <2>2. Bytes(Reserved' \cup {e}) = Bytes(Reserved') + Bytes({e})
    BY Zenon, <1>4, <2>1, BytesUnion
  <2>3. Bytes(Reserved' \cup {e}) <= Bytes(Reserved)
    BY Zenon, <1>4, <2>1, BytesShrink
  <2> QED BY Zenon, <1>5, <2>2, <2>3, BytesPrime
<1>7. Due' <= Due
  <2>1. Queued \subseteq Queued'
    BY Zenon, <1>3
  <2> QED BY Zenon, <1>1, <2>1, DueShrinks
<1>8. /\ total' <= total
      /\ Bytes(Queued)' + total <= Bytes(Queued) + Size[e[2]] + total'
  <2>1. CASE Queued' = Queued /\ total' = total
    <3>1. Bytes(Queued)' = Bytes(Queued)
      BY Zenon, <2>1, BytesPrime
    <3> QED BY <1>4, <1>5, <2>1, <3>1
  <2>2. CASE e \notin Queued /\ Queued' = Queued \cup {e} /\ total' = total
    <3>1. {e} \in SUBSET Pairs /\ Queued \cap {e} = {}
      BY Zenon, <1>3, <2>2
    <3>2. Bytes(Queued \cup {e}) = Bytes(Queued) + Bytes({e})
      BY Zenon, <1>4, <3>1, BytesUnion
    <3>3. Bytes(Queued)' = Bytes(Queued) + Size[e[2]]
      BY Zenon, <1>5, <2>2, <3>2, BytesPrime
    <3> QED BY <1>4, <1>5, <2>2, <3>3
  <2>3. CASE Queued' = Queued /\ total' = Less(Size[e[2]])
    <3>1. Bytes(Queued)' = Bytes(Queued)
      BY Zenon, <2>3, BytesPrime
    <3>2. total' <= total /\ total <= total' + Size[e[2]]
      BY <1>4, <1>5, <2>3 DEF Less
    <3> QED BY <1>4, <1>5, <3>1, <3>2
  <2> QED BY Zenon, <1>3, <2>1, <2>2, <2>3
<1>9. Bytes(Queued)' \in Nat
  BY Zenon, <1>1, AccountTypesNext DEF Numbers
<1>10. Bytes(Queued)' + Bytes(Reserved)' + Due' + total
          <= Bytes(Queued) + Bytes(Reserved) + Due + total'
  BY <1>4, <1>5, <1>6, <1>7, <1>8, <1>9
<1>11. \A d \in Nat : Covered(d) => Covered(d)'
  BY Zenon, <1>1, <1>10, CoveredMove
<1>12. ASSUME NEW m \in Nat, Limited(m) PROVE Limited(m)'
  BY <1>4, <1>8, <1>12 DEF Limited
<1> QED BY Zenon, <1>1, <1>11, <1>12, AccountMove

\* completeSend removes a directory: what the queues lose becomes due, or was.
LEMMA RemoveAccount ==
    ASSUME AccountInv, ~Nameless, ~Nameless', CompleteSendRemove
    PROVE  Account'
<1>1. /\ Shapes' /\ UNCHANGED deleted /\ replay.pc = "complete" /\ Shapes /\ Account
      /\ \/ /\ Queued' = Queued \ Here
            /\ UNCHANGED <<total, sync>> /\ replay'.pc = "subtract" /\ replay'.size = replay.size
         \/ /\ Queued' = Queued /\ NewHandoffController
            /\ Reserved' = {} /\ replay'.pc = "idle"
  BY Zenon, RemoveShapes DEF AccountInv
<1>2. /\ Bytes(Queued) \in Nat /\ Bytes(Reserved) \in Nat /\ Due \in Nat /\ total \in Nat
      /\ Queued \in SUBSET Pairs /\ Due' \in Nat
  BY Zenon, <1>1, AccountTypes, AccountTypesNext DEF Numbers
<1>3. CASE /\ Queued' = Queued \ Here /\ UNCHANGED <<total, sync>>
           /\ replay'.pc = "subtract" /\ replay'.size = replay.size
  <2> DEFINE s == Here \cap Queued
  <2>1. s \in SUBSET Queued /\ Queued' = Queued \ s /\ s \in SUBSET Pairs
    BY Zenon, <1>2, <1>3
  <2>2. Reserved' = Reserved
    BY Zenon, <1>3 DEF Reserved
  <2>3. Bytes(Reserved)' = Bytes(Reserved) /\ total' = total
    BY Zenon, <1>3, <2>2, BytesPrime
  <2>4. Due' = replay.size /\ replay.size \in Nat
    BY Zenon, <1>1, <1>3 DEF Due, Shapes, ReplayOK
  <2>5. Due = Excess(replay.size, Bytes(s))
    BY Zenon, <1>1 DEF Due
  <2> HIDE DEF s
  <2>6. Bytes(s) \in Nat /\ Queued \ s \in SUBSET Pairs
    BY Zenon, <1>2, <2>1, BytesFinite
  <2>7. Bytes(Queued) = Bytes(Queued \ s) + Bytes(s) /\ Bytes(Queued \ s) \in Nat
    BY Zenon, <1>2, <2>1, <2>6, BytesWithout, BytesFinite
  <2>8. Bytes(Queued)' = Bytes(Queued \ s)
    BY Zenon, <2>1, BytesPrime
  <2>9. replay.size <= Due + Bytes(s)
    BY <2>4, <2>5, <2>6 DEF Excess
  <2>10. Bytes(Queued)' + Bytes(Reserved)' + Due' + total
            <= Bytes(Queued) + Bytes(Reserved) + Due + total'
    BY <1>2, <2>3, <2>4, <2>6, <2>7, <2>8, <2>9
  <2>11. \A d \in Nat : Covered(d) => Covered(d)'
    BY Zenon, <1>1, <2>10, CoveredMove
  <2>12. \A m \in Nat : Limited(m) => Limited(m)'
    BY Zenon, <1>3 DEF Limited
  <2> QED BY Zenon, <1>1, <2>11, <2>12, AccountMove
<1>4. CASE /\ Queued' = Queued /\ NewHandoffController
           /\ Reserved' = {} /\ replay'.pc = "idle"
  BY Zenon, <1>1, <1>4, Recount
<1> QED BY Zenon, <1>1, <1>3, <1>4

\* completeSend subtracts what is due.
LEMMA SubtractAccount ==
    ASSUME Shapes, Account, CompleteSendSubtract
    PROVE  Account'
<1>1. /\ Shapes' /\ UNCHANGED <<sync, deleted>> /\ Queued' = Queued
      /\ replay.pc = "subtract" /\ replay.size \in Nat /\ total' = Less(replay.size)
      /\ replay'.pc \in {"idle", "visit", "read"}
  BY Zenon, SubtractShapes
<1>2. Due = replay.size /\ Due' = 0
  BY Zenon, <1>1 DEF Due
<1>3. Reserved' = Reserved
  BY Zenon, <1>1 DEF Reserved
<1>4. Bytes(Queued)' = Bytes(Queued) /\ Bytes(Reserved)' = Bytes(Reserved)
  BY Zenon, <1>1, <1>3, BytesPrime
<1>5. Bytes(Queued) \in Nat /\ Bytes(Reserved) \in Nat /\ total \in Nat
  BY Zenon, AccountTypes DEF Numbers
<1>6. total' \in Nat /\ total' <= total /\ total <= total' + replay.size
  BY <1>1, <1>5 DEF Less
<1>7. Bytes(Queued)' + Bytes(Reserved)' + Due' + total
         <= Bytes(Queued) + Bytes(Reserved) + Due + total'
  BY <1>1, <1>2, <1>4, <1>5, <1>6
<1>8. \A d \in Nat : Covered(d) => Covered(d)'
  BY Zenon, <1>1, <1>7, CoveredMove
<1>9. ASSUME NEW m \in Nat, Limited(m) PROVE Limited(m)'
  BY <1>5, <1>6, <1>9 DEF Limited
<1> QED BY Zenon, <1>1, <1>8, <1>9, AccountMove

\* A group deletion takes what it removes off the account; of what the worker has
\* measured, completeSend takes one item off again.
LEMMA DeleteAccount ==
    ASSUME AccountInv, ~Nameless, ~Nameless', DeletePartsByGroup
    PROVE  Account'
<1>1. /\ Shapes /\ Account /\ Shapes' /\ ~deleted /\ deleted' = TRUE
      /\ \/ /\ Queued' = Queued \ Doomed /\ total' = Less(Bytes(Doomed))
            /\ UNCHANGED <<sync, replay>>
         \/ /\ Queued' \subseteq Queued /\ NewHandoffController
            /\ Reserved' = {} /\ replay'.pc = "idle"
  BY Zenon, DeleteShapes DEF AccountInv
<1>2. /\ Bytes(Queued) \in Nat /\ Bytes(Reserved) \in Nat /\ Due \in Nat /\ total \in Nat
      /\ Queued \in SUBSET Pairs /\ Doomed \in SUBSET Queued /\ Due' \in Nat
  BY Zenon, <1>1, AccountTypes, AccountTypesNext DEF Numbers, Doomed
<1>3. CASE /\ Queued' = Queued \ Doomed /\ total' = Less(Bytes(Doomed))
           /\ UNCHANGED <<sync, replay>>
  <2>1. Doomed \in SUBSET Pairs /\ Queued \ Doomed \in SUBSET Pairs
    BY Zenon, <1>2
  <2>2. Bytes(Doomed) \in Nat /\ Bytes(Queued \ Doomed) \in Nat
    BY Zenon, <2>1, BytesFinite
  <2>3. Bytes(Queued) = Bytes(Queued \ Doomed) + Bytes(Doomed)
    BY Zenon, <1>2, BytesWithout
  <2>4. Covered(0) /\ Limited(MaxSize)
    BY Zenon, <1>1 DEF Account
  <2>5. total' = total - Bytes(Doomed) /\ total' \in Nat
    <3>1. Bytes(Doomed) <= total
      BY <1>2, <2>2, <2>3, <2>4 DEF Covered
    <3> QED BY <1>2, <1>3, <2>2, <3>1 DEF Less
  <2>6. Largest \in Nat /\ Due' <= Due + Largest
    <3>1. Largest \in Nat
      BY Zenon, LargestItem
    <3>2. replay.size \in Nat /\ (replay.pc = "complete" => replay.size <= Largest)
      BY Zenon, <1>1 DEF Shapes, ReplayOK
    <3>3. CASE replay.pc = "complete"
      <4>1. Here' \cap Queued' \in SUBSET Pairs
        BY Zenon, <1>3, <2>1
      <4>2. Bytes(Here' \cap Queued') \in Nat
        BY Zenon, <4>1, BytesFinite
      <4>3. Due' = Excess(replay.size, Bytes(Here' \cap Queued'))
        BY Zenon, <1>3, <3>3, BytesPrime DEF Due, Excess
      <4>4. Due' <= Largest
        BY <3>1, <3>2, <3>3, <4>2, <4>3 DEF Excess
      <4> QED BY <1>2, <3>1, <4>4
    <3>4. CASE replay.pc # "complete"
      <4>1. Due' = Due
        BY Zenon, <1>3, <3>4 DEF Due
      <4> QED BY <1>2, <3>1, <4>1
    <3> QED BY Zenon, <3>1, <3>3, <3>4
  <2>7. Bytes(Queued)' = Bytes(Queued \ Doomed) /\ Bytes(Reserved)' = Bytes(Reserved)
    <3>1. Reserved' = Reserved
      BY Zenon, <1>3 DEF Reserved
    <3> QED BY Zenon, <1>3, <3>1, BytesPrime
  <2>8. Covered(Largest)'
    <3>1. Bytes(Queued)' + Bytes(Reserved)' + Due' <= total' + Largest
      BY <1>2, <2>2, <2>3, <2>4, <2>5, <2>6, <2>7 DEF Covered
    <3>2. Largest' = Largest
      BY Zenon DEF Largest, Items
    <3> QED BY Zenon, <3>1, <3>2 DEF Covered
  <2>9. Limited(MaxSize)'
    BY <1>2, <2>2, <2>4, <2>5, HandoffAssumption DEF Limited
  <2> QED BY Zenon, <1>1, <2>8, <2>9 DEF Account
<1>4. CASE /\ Queued' \subseteq Queued /\ NewHandoffController
           /\ Reserved' = {} /\ replay'.pc = "idle"
  BY Zenon, <1>1, <1>4, Recount
<1> QED BY Zenon, <1>1, <1>3, <1>4

\* The account starts empty.
LEMMA InitAccount == Init => AccountInv
<1> SUFFICES ASSUME Init PROVE AccountInv
  BY Zenon
<1>1. Shapes /\ Queued = {} /\ Reserved = {} /\ replay.pc = "idle" /\ total = 0 /\ ~deleted
  BY Zenon, InitShapes
<1>2. Bytes(Queued) = 0 /\ Bytes(Reserved) = 0 /\ Due = 0
  BY Zenon, <1>1, BytesEmpty DEF Due
<1>3. Covered(0) /\ Limited(MaxSize)
  BY <1>1, <1>2, HandoffAssumption DEF Covered, Limited
<1> QED BY Zenon, <1>1, <1>3 DEF Account, AccountInv

\* The account is kept by every step, as long as every queue has its name.
LEMMA NextAccount == IInv /\ AccountInv /\ [Next]_vars => AccountInv'
<1> SUFFICES ASSUME IInv, AccountInv, [Next]_vars PROVE AccountInv'
  BY Zenon
<1>1. Shapes' /\ Shapes
  BY Zenon, NextKeeps DEF IInv
<1>2. SUFFICES ASSUME ~Nameless' PROVE Account'
  BY Zenon, <1>1 DEF AccountInv
<1>3. CASE UNCHANGED vars
  <2>1. UNCHANGED <<disk, total, sync, replay, deleted, info>>
    BY Zenon, <1>3 DEF vars, queues, files
  <2>2. Account
    BY Zenon, <1>2, <2>1 DEF AccountInv, Nameless
  <2>3. Queued' = Queued /\ Reserved' = Reserved
    BY Zenon, <2>1 DEF Queued, Reserved
  <2>4. Bytes(Queued)' = Bytes(Queued) /\ Bytes(Reserved)' = Bytes(Reserved) /\ Due' <= Due
    BY Zenon, <1>1, <2>1, <2>3, BytesPrime, DueShrinks
  <2>5. Bytes(Queued) \in Nat /\ Bytes(Reserved) \in Nat /\ total \in Nat /\ Due \in Nat /\ Due' \in Nat
    BY Zenon, <1>1, AccountTypes, AccountTypesNext DEF Numbers
  <2>6. Bytes(Queued)' + Bytes(Reserved)' + Due' + total
           <= Bytes(Queued) + Bytes(Reserved) + Due + total'
    BY <2>1, <2>4, <2>5
  <2>7. \A d \in Nat : Covered(d) => Covered(d)'
    BY Zenon, <1>1, <2>6, CoveredMove
  <2>8. \A m \in Nat : Limited(m) => Limited(m)'
    BY Zenon, <2>1 DEF Limited
  <2> QED BY Zenon, <2>1, <2>2, <2>7, <2>8, AccountMove
<1>4. CASE Next
  <2>1. InfoKept
    <3>1. ASSUME info' = info PROVE InfoKept
      BY Zenon, <3>1 DEF InfoKept
    <3> QED BY Zenon, <1>1, <1>4, <3>1, NextSteps, QuietSteps, ReserveShapes, EnqueueShapes,
                RemoveShapes, SubtractShapes, DeleteShapes, RestartShapes DEF EnqueueEffect
  <2>2. ~Nameless
    BY Zenon, <1>2, <2>1, StaysNameless DEF InfoKept
  <2>3. Account
    BY Zenon, <2>2 DEF AccountInv
  <2>4. CASE Restart
    BY Zenon, <1>1, <1>2, <2>2, <2>4, RestartShapes, Recount
  <2> QED BY Zenon, <1>1, <1>2, <1>4, <2>2, <2>3, <2>4, NextSteps, QuietAccount, ReserveAccount,
             EnqueueAccount, RemoveAccount, SubtractAccount, DeleteAccount
<1> QED BY Zenon, <1>3, <1>4

\* The size on which tryReserveSize decides covers what is queued and what the shards have
\* reserved, until a group is deleted: a reservation is taken before the links and the size
\* is given back after the removal, whatever runs in between.
THEOREM AccountCovers == Spec => []AccountCoversQueue
BY InitIInv, NextKeeps, InitAccount, NextAccount, AccountBounds, PTL DEF Spec

\* The queues outgrow maxTotalSizeBytes never, and after a group deletion by at most the
\* largest item.
THEOREM QueuesStayWithinLimit == Spec => []WithinLimit
BY InitIInv, NextKeeps, InitAccount, NextAccount, AccountBounds, PTL DEF Spec

==============================================================================
