-------------------------- MODULE NodeClientProofs --------------------------
(***************************************************************************)
(* ActiveIsOpen, SelectorFollowsActive and MarkHasProbe of NodeClient for  *)
(* any number of addresses, publishers, connections, evictions and probes. *)
(*                                                                         *)
(* A connection a reconnect goroutine has dialed, and not yet handed over, *)
(* is open and belongs to that goroutine alone: whoever closes connections *)
(* closes the active one or one that was active.  So the connection that   *)
(* becomes active is open, and the one that a late goroutine closes is not *)
(* the active one.                                                         *)
(***************************************************************************)
EXTENDS NodeClient, WellFoundedInduction, TLAPS

Loops == [pc : {"none", "wait", "activate"}, at : Addrs \cup {"none"},
          conn : Conns \cup {0}, stop : BOOLEAN]
Calls == [pc : {"idle", "check", "delete", "mark"}, conn : Conns \cup {0}]

Shapes ==
    /\ registered \in Addrs \cup {"none"}
    /\ active \in Conns \cup {0} /\ evictable \in Evictions \cup {0}
    /\ addr \in [Conns -> Addrs \cup {"none"}] /\ open \subseteq Conns
    /\ loop \in [Evictions -> Loops]
    /\ remover \subseteq Conns /\ again \subseteq Addrs
    /\ sel \in Nat /\ mark \in BOOLEAN
    /\ probe \in [Probes -> {"none", "wait", "add", "clear"}]
    /\ caller \in [Callers -> Calls]

\* A connection that waits to become active is open and nobody else's.
Dialed ==
    \A e \in Evictions : loop[e].pc = "activate" =>
        /\ loop[e].conn \in open /\ loop[e].conn \notin remover \cup {active}
        /\ \A f \in Evictions : f # e /\ loop[f].pc = "activate" => loop[f].conn # loop[e].conn

\* Before the first failure checkWritable has started no probe.
Quiet ==
    ~failed => /\ \A k \in Callers : caller[k].pc \in {"idle", "check"}
               /\ \A p \in Probes : probe[p] = "none"

IInv == Shapes /\ Dialed /\ ActiveIsOpen /\ Quiet /\ SelectorFollowsActive /\ MarkHasProbe

-----------------------------------------------------------------------------
(* Numbers *)

\* A set of numbers that is not empty has a least one, and Min returns it.
LEMMA MinOfNaturals ==
    ASSUME NEW S \in SUBSET Nat, S # {}
    PROVE  Min(S) \in S
<1>1. \E x \in S : \A y \in S : ~ (<<y, x>> \in OpToRel(<, Nat))
  BY Zenon, NatLessThanWellFounded, WFMin
<1>2. PICK x \in S : \A y \in S : ~ (y < x)
  BY Zenon, <1>1 DEF OpToRel
<1>3. \A y \in S : x =< y
  BY <1>2
<1> QED BY Zenon, <1>3 DEF Min

\* The number of entries that RemoveNode leaves.
LEMMA MaxWithZero ==
    ASSUME NEW i \in Int
    PROVE  /\ Max({i, 0}) \in Nat
           /\ i <= 0 => Max({i, 0}) = 0
           /\ i >= 0 => Max({i, 0}) = i
<1>1. \E x \in {i, 0} : \A y \in {i, 0} : x >= y
  OBVIOUS
<1>2. Max({i, 0}) \in {i, 0} /\ \A y \in {i, 0} : Max({i, 0}) >= y
  BY Zenon, <1>1 DEF Max
<1> HIDE DEF Max
<1> QED BY <1>2

\* A new connection is no connection that anybody refers to.
LEMMA FreshConn ==
    ASSUME FreeConns # {}
    PROVE  /\ Min(FreeConns) \in Conns /\ Min(FreeConns) # 0
           /\ Min(FreeConns) \notin remover \cup {active}
           /\ \A e \in Evictions : loop[e].conn # Min(FreeConns)
<1>1. FreeConns \in SUBSET Nat
  BY Zenon, NodeClientAssumption DEF FreeConns
<1>2. Min(FreeConns) \in FreeConns
  BY Zenon, <1>1, MinOfNaturals
<1>3. \A c \in Conns : c # 0
  BY Zenon, NodeClientAssumption
<1> QED BY Zenon, <1>2, <1>3 DEF FreeConns, Referred

\* A new entry has no goroutine.
LEMMA FreshEviction ==
    ASSUME FreeEvictions # {}
    PROVE  Min(FreeEvictions) \in Evictions /\ loop[Min(FreeEvictions)].pc = "none"
<1>1. FreeEvictions \in SUBSET Nat
  BY Zenon, NodeClientAssumption DEF FreeEvictions
<1>2. Min(FreeEvictions) \in FreeEvictions
  BY Zenon, <1>1, MinOfNaturals
<1> QED BY Zenon, <1>2 DEF FreeEvictions

-----------------------------------------------------------------------------
(* Connections *)

\* What a step does that starts or stops goroutines but dials nothing for them.
SameDials(loops) ==
    /\ loops \in [Evictions -> Loops]
    /\ \A e \in Evictions : loops[e].pc = "activate" =>
          loop[e].pc = "activate" /\ loops[e].conn = loop[e].conn

\* Closing a channel is seen by the goroutine, and changes nothing else.
LEMMA CloseEvictDials ==
    ASSUME Shapes
    PROVE  SameDials(CloseEvict)
<1>1. CASE evictable = 0
  BY Zenon, <1>1 DEF Shapes, SameDials, CloseEvict
<1>2. CASE evictable # 0
  <2> DEFINE new == [loop[evictable] EXCEPT !.stop = TRUE]
  <2>1. evictable \in Evictions /\ loop \in [Evictions -> Loops]
    BY Zenon, <1>2 DEF Shapes
  <2>2. new \in Loops /\ new.pc = loop[evictable].pc /\ new.conn = loop[evictable].conn
    BY Zenon, <2>1 DEF Loops
  <2>3. CloseEvict = [loop EXCEPT ![evictable] = new]
    BY Zenon, <1>2 DEF CloseEvict
  <2> HIDE DEF new
  <2> QED BY Zenon, <2>1, <2>2, <2>3 DEF SameDials
<1> QED BY Zenon, <1>1, <1>2

\* A step that closes no more than the active connection and those the removers
\* wait on leaves the dialed ones alone.
LEMMA DialedStays ==
    ASSUME Dialed, SameDials(loop'),
           open \ (remover \cup {active}) \subseteq open',
           remover' \subseteq remover \cup {active},
           active' \in {0, active} \/ \A e \in Evictions : loop[e].conn # active',
           \A e \in Evictions : loop[e].pc = "activate" => loop[e].conn # 0
    PROVE  Dialed'
BY Zenon DEF Dialed, SameDials

\* The connection of a goroutine that has dialed has a number.
LEMMA DialedIsConn ==
    ASSUME Shapes, Dialed
    PROVE  \A e \in Evictions : loop[e].pc = "activate" => loop[e].conn # 0
BY Zenon, NodeClientAssumption DEF Shapes, Dialed

\* The entry of an eviction and its goroutine.
LEMMA EvictDials ==
    ASSUME Shapes, NEW a \in Addrs \cup {"none"}, NEW loops, SameDials(loops), Evict(a, loops)
    PROVE  SameDials(loop') /\ active' = 0 /\ evictable' \in Evictions
<1> DEFINE e == Min(FreeEvictions)
           new == [pc |-> "wait", at |-> a, conn |-> 0, stop |-> FALSE]
<1>1. e \in Evictions
  BY Zenon, FreshEviction DEF Evict
<1>2. /\ evictable' = e /\ active' = 0
      /\ loop' = [loops EXCEPT ![e] = new]
  BY Zenon DEF Evict
<1>3. new \in Loops /\ new.pc = "wait"
  BY Zenon DEF Loops
<1> HIDE DEF e, new
<1> QED BY Zenon, <1>1, <1>2, <1>3 DEF SameDials

-----------------------------------------------------------------------------
(* The selector *)

\* OnActive and OnInactive with an entry more or less.
LEMMA SelectorStep ==
    ASSUME Shapes, SelectorFollowsActive
    PROVE  /\ sel + 1 \in Nat /\ Max({sel - 1, 0}) \in Nat /\ Max({sel - 2, 0}) \in Nat
           /\ Max({sel - 1, 0}) + 1 \in Nat
           /\ ~failed => /\ Max({sel - 1, 0}) = 0 /\ Max({sel - 2, 0}) = 0
                         /\ active = 0 => sel = 0
<1>1. sel \in Nat
  BY Zenon DEF Shapes
<1>2. ~failed => sel \in {0, 1} /\ (active = 0 => sel = 0)
  BY Zenon DEF SelectorFollowsActive
<1>3. Max({sel - 1, 0}) \in Nat /\ (sel - 1 <= 0 => Max({sel - 1, 0}) = 0)
  BY <1>1, MaxWithZero
<1>4. Max({sel - 2, 0}) \in Nat /\ (sel - 2 <= 0 => Max({sel - 2, 0}) = 0)
  BY <1>1, MaxWithZero
<1> HIDE DEF Max
<1> QED BY <1>1, <1>2, <1>3, <1>4

-----------------------------------------------------------------------------
(* ConnManager *)

\* The conjuncts of the invariant that steps of the manager can disturb.
Managed == Shapes /\ Dialed /\ ActiveIsOpen /\ SelectorFollowsActive /\ MarkHasProbe

\* A step of the manager in terms of what it does to the connections, the entry and
\* the selector.
LEMMA ManagerStep ==
    ASSUME Managed, SameDials(loop'),
           registered' \in Addrs \cup {"none"}, evictable' \in Evictions \cup {0},
           addr' \in [Conns -> Addrs \cup {"none"}], open' \subseteq Conns,
           remover' \subseteq remover \cup {active} /\ remover' \subseteq Conns,
           again' \subseteq Addrs, UNCHANGED <<probe, caller, failed>>,
           open \ (remover \cup {active}) \subseteq open',
           \/ active' = 0
           \/ active' = active /\ active \in open' /\ evictable' = evictable
           \/ /\ active' \in open' /\ evictable' = 0
              /\ \A e \in Evictions : loop[e].conn # active',
           sel' \in Nat, ~failed => sel' = IF active' # 0 THEN 1 ELSE 0,
           mark' \in {FALSE, mark}
    PROVE  Managed'
<1>1. Dialed'
  <2>1. \A e \in Evictions : loop[e].pc = "activate" => loop[e].conn # 0
    BY Zenon, DialedIsConn DEF Managed
  <2> QED BY Zenon, <2>1, DialedStays DEF Managed
<1>2. Shapes'
  BY Zenon DEF Managed, Shapes, SameDials
<1>3. ActiveIsOpen'
  BY Zenon DEF Managed, ActiveIsOpen
<1>4. SelectorFollowsActive'
  BY Zenon DEF SelectorFollowsActive
<1>5. MarkHasProbe'
  BY Zenon DEF Managed, MarkHasProbe
<1> QED BY Zenon, <1>1, <1>2, <1>3, <1>4, <1>5 DEF Managed

\* OnAddOrUpdate from where it dials: without credentials, with a node that answers
\* the health check and with one that does not.
LEMMA ConnectStep ==
    ASSUME Managed, NEW a \in Addrs, NEW loops, SameDials(loops), NEW wasActive \in BOOLEAN,
           wasActive <=> active # 0, Connect(a, loops, wasActive),
           registered' \in Addrs \cup {"none"}, UNCHANGED <<remover, probe, caller, failed>>,
           again' \subseteq Addrs
    PROVE  Managed'
<1> USE DEF OnActive, OnInactive, AddNode, RemoveNode
<1>0. /\ sel + 1 \in Nat /\ Max({sel - 1, 0}) \in Nat /\ Max({sel - 2, 0}) \in Nat
      /\ Max({sel - 1, 0}) + 1 \in Nat
      /\ ~failed => /\ Max({sel - 1, 0}) = 0 /\ Max({sel - 2, 0}) = 0
                    /\ active = 0 => sel = 0
  BY Zenon, SelectorStep DEF Managed
<1>1. /\ remover' \subseteq remover \cup {active} /\ remover' \subseteq Conns
      /\ addr \in [Conns -> Addrs \cup {"none"}] /\ open \subseteq Conns /\ mark \in BOOLEAN
      /\ sel \in Nat
  BY Zenon DEF Managed, Shapes
<1>2. CASE ~creds
  <2>1. /\ active' = 0 /\ evictable' = 0 /\ loop' = loops
        /\ open' = open \ {active} /\ UNCHANGED addr
        /\ \/ sel' = Max({sel - 1, 0}) /\ mark' = FALSE
           \/ active = 0 /\ UNCHANGED <<sel, mark>>
    BY Zenon, <1>2 DEF Connect
  <2>2. sel' \in Nat /\ (~failed => sel' = 0)
    BY Zenon, <1>0, <1>1, <2>1
  <2> QED BY Zenon, <1>1, <2>1, <2>2, ManagerStep
<1>3. CASE creds /\ alive[a]
  <2> DEFINE c == Min(FreeConns)
  <2>1. /\ c \in Conns /\ c # 0
        /\ \A e \in Evictions : loop[e].conn # c
    BY Zenon, <1>3, FreshConn DEF Connect
  <2>2. /\ active' = c /\ evictable' = 0 /\ loop' = loops
        /\ addr' = [addr EXCEPT ![c] = a] /\ open' = (open \ {active}) \cup {c}
        /\ \/ sel' = Max({sel - 1, 0}) + 1 /\ mark' = FALSE
           \/ active = 0 /\ sel' = sel + 1 /\ UNCHANGED mark
    BY Zenon, <1>3 DEF Connect
  <2> HIDE DEF c
  <2>3. addr' \in [Conns -> Addrs \cup {"none"}] /\ open' \subseteq Conns
    BY Zenon, <1>1, <2>1, <2>2
  <2>4. sel' \in Nat /\ (~failed => sel' = 0 + 1)
    BY Zenon, <1>0, <2>2
  <2>5. sel' \in Nat /\ (~failed => sel' = 1)
    BY <2>4
  <2> QED BY Zenon, <1>1, <2>1, <2>2, <2>3, <2>5, ManagerStep
<1>4. CASE creds /\ ~alive[a]
  <2>1. /\ Evict(a, loops) /\ open' = open \ {active} /\ UNCHANGED addr
        /\ sel' \in {Max({sel - 1, 0}), Max({sel - 2, 0})} /\ mark' = FALSE
    BY Zenon, <1>4 DEF Connect
  <2>2. SameDials(loop') /\ active' = 0 /\ evictable' \in Evictions
    BY Zenon, <2>1, EvictDials DEF Managed
  <2>3. sel' \in Nat /\ (~failed => sel' = 0)
    BY Zenon, <1>0, <2>1
  <2> QED BY Zenon, <1>1, <2>1, <2>2, <2>3, ManagerStep
<1> QED BY Zenon, <1>2, <1>3, <1>4

\* A step that changes nothing but the registration.
LEMMA SameConnections ==
    ASSUME Managed, registered' \in Addrs \cup {"none"}, again' \subseteq Addrs,
           UNCHANGED <<active, evictable, conns, loop, remover, sel, mark, probe, caller, failed>>
    PROVE  Managed'
BY Zenon DEF Managed, Shapes, Dialed, ActiveIsOpen, SelectorFollowsActive, MarkHasProbe, conns

\* OnAddOrUpdate drops the old connection and dials, dials, or finds the node known.
LEMMA OnAddOrUpdateStep ==
    ASSUME Managed, NEW a \in Addrs, OnAddOrUpdate(a),
           UNCHANGED <<remover, probe, caller, failed>>, again' \subseteq Addrs
    PROVE  Managed'
<1>1. registered' = a
  BY Zenon DEF OnAddOrUpdate
<1>2. CASE registered \notin {"none", a}
  <2>1. Connect(a, CloseEvict, active # 0) /\ SameDials(CloseEvict)
    BY Zenon, <1>2, CloseEvictDials DEF OnAddOrUpdate, Managed
  <2> QED BY Zenon, <1>1, <2>1, ConnectStep
<1>3. CASE registered \in {"none", a} /\ (active # 0 \/ evictable # 0)
  <2>1. UNCHANGED <<active, evictable, conns, loop, sel, mark>>
    BY Zenon, <1>3 DEF OnAddOrUpdate
  <2> QED BY Zenon, <1>1, <2>1, SameConnections
<1>4. CASE registered \in {"none", a} /\ active = 0 /\ evictable = 0
  <2>1. Connect(a, loop, FALSE) /\ SameDials(loop)
    BY Zenon, <1>4 DEF OnAddOrUpdate, Managed, Shapes, SameDials
  <2> QED BY Zenon, <1>1, <1>4, <2>1, ConnectStep
<1> QED BY Zenon, <1>2, <1>3, <1>4

\* removeNodeIfUnhealthy, by OnDelete and by the goroutine it started.
LEMMA RemoveUnhealthyStep ==
    ASSUME Managed, NEW mn \in remover \cup {active}, RemoveUnhealthy(mn),
           registered' = "none", remover' \subseteq remover,
           UNCHANGED <<evictable, addr, loop, again, probe, caller, failed>>
    PROVE  Managed'
<1>1. /\ active' = 0 /\ open' = open \ {mn} /\ sel' = Max({sel - 1, 0}) /\ mark' = FALSE
  BY Zenon DEF RemoveUnhealthy, OnInactive, RemoveNode
<1>2. sel' \in Nat /\ (~failed => sel' = 0)
  BY Zenon, <1>1, SelectorStep DEF Managed
<1>3. /\ SameDials(loop') /\ remover' \subseteq Conns /\ again' \subseteq Addrs
      /\ evictable' \in Evictions \cup {0} /\ addr' \in [Conns -> Addrs \cup {"none"}]
      /\ open' \subseteq Conns
  BY Zenon, <1>1 DEF Managed, Shapes, SameDials
<1> QED BY Zenon, <1>1, <1>2, <1>3, ManagerStep

\* The entry of an evicted node goes, and its goroutine is told.
LEMMA CloseEvictStep ==
    ASSUME Managed, evictable # 0, loop' = CloseEvict, evictable' = 0,
           registered' \in Addrs \cup {"none"},
           UNCHANGED <<active, open, addr, remover, again, sel, mark, probe, caller, failed>>
    PROVE  Managed'
<1>1. SameDials(loop')
  BY Zenon, CloseEvictDials DEF Managed
<1>2. active = 0
  BY Zenon DEF Managed, ActiveIsOpen
<1>3. /\ remover' \subseteq Conns /\ again' \subseteq Addrs
      /\ addr' \in [Conns -> Addrs \cup {"none"}]
      /\ open' \subseteq Conns /\ sel' \in Nat
      /\ ~failed => sel' = IF active' # 0 THEN 1 ELSE 0
  BY Zenon DEF Managed, Shapes, SelectorFollowsActive
<1> QED BY Zenon, <1>1, <1>2, <1>3, ManagerStep

\* The manager: Register, ReRegister, OnDelete and its goroutine, FailoverNode and
\* ReconnectAll.
LEMMA PoolStep ==
    ASSUME Managed,
           \/ \E a \in Addrs : Register(a)
           \/ OnDelete \/ FailoverNode \/ ReconnectAll \/ ReRegister
           \/ \E c \in Conns : RemoverTick(c)
    PROVE  Managed' /\ UNCHANGED <<probe, caller, failed>>
<1>1. ASSUME NEW a \in Addrs, Register(a)
      PROVE  Managed' /\ UNCHANGED <<probe, caller, failed>>
  BY Zenon, <1>1, OnAddOrUpdateStep DEF Register, Managed, Shapes
<1>2. CASE ReRegister
  <2>1. PICK a \in again : OnAddOrUpdate(a) /\ again' = again \ {a}
    BY Zenon, <1>2 DEF ReRegister
  <2>2. a \in Addrs /\ again' \subseteq Addrs
    BY Zenon, <2>1 DEF Managed, Shapes
  <2>3. UNCHANGED <<remover, probe, caller, failed>>
    BY Zenon, <1>2 DEF ReRegister, world
  <2> QED BY Zenon, <2>1, <2>2, <2>3, OnAddOrUpdateStep
<1>3. CASE OnDelete
  <2>1. registered' = "none" /\ UNCHANGED <<addr, again, probe, caller, failed>>
    BY Zenon, <1>3 DEF OnDelete
  <2>2. CASE /\ evictable # 0 /\ loop' = CloseEvict /\ evictable' = 0
             /\ UNCHANGED <<active, open, remover, sel, mark>>
    BY Zenon, <2>1, <2>2, CloseEvictStep
  <2>3. CASE UNCHANGED <<active, evictable, open, loop, remover, sel, mark>>
    BY Zenon, <2>1, <2>3, SameConnections DEF conns, Managed, Shapes
  <2>4. CASE RemoveUnhealthy(active) /\ UNCHANGED <<evictable, loop, remover>>
    BY Zenon, <2>1, <2>4, RemoveUnhealthyStep
  <2>5. CASE /\ active # 0 /\ remover' = remover \cup {active}
             /\ UNCHANGED <<active, evictable, open, loop, sel, mark>>
    <3>1. /\ SameDials(loop') /\ remover' \subseteq Conns /\ again' \subseteq Addrs
          /\ evictable' \in Evictions \cup {0} /\ addr' \in [Conns -> Addrs \cup {"none"}]
          /\ open' \subseteq Conns /\ sel' \in Nat
      BY Zenon, <2>1, <2>5 DEF Managed, Shapes, SameDials
    <3>2. ~failed => sel' = IF active' # 0 THEN 1 ELSE 0
      BY Zenon, <2>5 DEF Managed, SelectorFollowsActive
    <3>3. active \in open
      BY Zenon, <2>5 DEF Managed, ActiveIsOpen
    <3> QED BY Zenon, <2>1, <2>5, <3>1, <3>2, <3>3, ManagerStep
  <2> QED BY Zenon, <1>3, <2>1, <2>2, <2>3, <2>4, <2>5 DEF OnDelete
<1>4. ASSUME NEW c \in Conns, RemoverTick(c)
      PROVE  Managed' /\ UNCHANGED <<probe, caller, failed>>
  <2>1. c \in remover /\ remover' \subseteq remover
        /\ UNCHANGED <<registered, evictable, addr, loop, again, probe, caller, failed>>
    BY Zenon, <1>4 DEF RemoverTick, world
  <2>2. CASE UNCHANGED <<active, open, sel, mark>>
    <3>1. /\ SameDials(loop') /\ remover' \subseteq Conns /\ again' \subseteq Addrs
          /\ evictable' \in Evictions \cup {0} /\ addr' \in [Conns -> Addrs \cup {"none"}]
          /\ registered' \in Addrs \cup {"none"}
          /\ open' \subseteq Conns /\ sel' \in Nat
      BY Zenon, <2>1, <2>2 DEF Managed, Shapes, SameDials
    <3>2. ~failed => sel' = IF active' # 0 THEN 1 ELSE 0
      BY Zenon, <2>2 DEF Managed, SelectorFollowsActive
    <3>3. active = 0 \/ active \in open
      BY Zenon, <2>2 DEF Managed, ActiveIsOpen
    <3> QED BY Zenon, <2>1, <2>2, <3>1, <3>2, <3>3, ManagerStep
  <2>3. CASE RemoveUnhealthy(c) /\ registered = "none"
    BY Zenon, <2>1, <2>3, RemoveUnhealthyStep
  <2> QED BY Zenon, <1>4, <2>1, <2>2, <2>3 DEF RemoverTick
<1>5. CASE FailoverNode
  <2>1. UNCHANGED <<registered, addr, remover, again, probe, caller, failed>>
    BY Zenon, <1>5 DEF FailoverNode, world
  <2>2. CASE /\ evictable # 0 /\ loop' = CloseEvict /\ evictable' = 0
             /\ UNCHANGED <<active, open, sel, mark>>
    BY Zenon, <2>1, <2>2, CloseEvictStep DEF Managed, Shapes
  <2>3. CASE active # 0 /\ Evict(addr[active], loop) /\ open' = open \ {active} /\ OnInactive
    <3>1. addr[active] \in Addrs \cup {"none"} /\ SameDials(loop)
      BY Zenon, <2>3 DEF Managed, Shapes, SameDials
    <3>2. SameDials(loop') /\ active' = 0 /\ evictable' \in Evictions
      BY Zenon, <2>3, <3>1, EvictDials DEF Managed
    <3>3. /\ sel' = Max({sel - 1, 0}) /\ mark' = FALSE
      BY Zenon, <2>3 DEF OnInactive, RemoveNode
    <3>4. sel' \in Nat /\ (~failed => sel' = 0)
      BY Zenon, <3>3, SelectorStep DEF Managed
    <3>5. /\ remover' \subseteq Conns /\ again' \subseteq Addrs
          /\ addr' \in [Conns -> Addrs \cup {"none"}]
          /\ registered' \in Addrs \cup {"none"} /\ open' \subseteq Conns
      BY Zenon, <2>1, <2>3 DEF Managed, Shapes
    <3> QED BY Zenon, <2>1, <2>3, <3>2, <3>3, <3>4, <3>5, ManagerStep
  <2> QED BY Zenon, <1>5, <2>1, <2>2, <2>3 DEF FailoverNode
<1>6. CASE ReconnectAll
  <2>1. /\ registered # "none" /\ again' = {registered} /\ loop' = CloseEvict /\ evictable' = 0
        /\ active' = 0 /\ open' = open \ {active}
        /\ UNCHANGED <<registered, addr, remover, probe, caller, failed>>
        /\ \/ sel' = Max({sel - 1, 0}) /\ mark' = FALSE
           \/ active = 0 /\ UNCHANGED <<sel, mark>>
    BY Zenon, <1>6 DEF ReconnectAll, OnInactive, RemoveNode
  <2>2. sel' \in Nat /\ (~failed => sel' = 0)
    BY Zenon, <2>1, SelectorStep DEF Managed, Shapes
  <2>3. /\ remover' \subseteq Conns /\ again' \subseteq Addrs
        /\ addr' \in [Conns -> Addrs \cup {"none"}] /\ SameDials(loop')
        /\ registered' \in Addrs \cup {"none"} /\ open' \subseteq Conns
    BY Zenon, <2>1, CloseEvictDials DEF Managed, Shapes
  <2> QED BY Zenon, <2>1, <2>2, <2>3, ManagerStep
<1> QED BY Zenon, <1>1, <1>2, <1>3, <1>4, <1>5, <1>6

-----------------------------------------------------------------------------
(* The reconnect goroutine *)

\* A goroutine that ends, or goes on without a connection.
LEMMA LoopEnds ==
    ASSUME Managed, NEW e \in Evictions,
           loop' \in {loop, [loop EXCEPT ![e] = IdleLoop]},
           UNCHANGED <<maps, conns, remover, again, sel, mark, probe, caller, failed>>
    PROVE  Managed'
<1>1. SameDials(loop')
  <2>1. loop \in [Evictions -> Loops] /\ IdleLoop \in Loops /\ IdleLoop.pc = "none"
    BY Zenon DEF Managed, Shapes, Loops, IdleLoop
  <2> HIDE DEF IdleLoop
  <2> QED BY Zenon, <2>1 DEF SameDials
<1>2. /\ remover' \subseteq Conns /\ again' \subseteq Addrs
      /\ evictable' \in Evictions \cup {0} /\ addr' \in [Conns -> Addrs \cup {"none"}]
      /\ registered' \in Addrs \cup {"none"} /\ open' \subseteq Conns /\ sel' \in Nat
  BY Zenon DEF Managed, Shapes, maps, conns
<1>3. ~failed => sel' = IF active' # 0 THEN 1 ELSE 0
  BY Zenon DEF Managed, SelectorFollowsActive, maps
<1>4. active = 0 \/ active \in open
  BY Zenon DEF Managed, ActiveIsOpen
<1> QED BY Zenon, <1>1, <1>2, <1>3, <1>4, ManagerStep DEF maps, conns

\* A goroutine dials a connection of its own.
LEMMA LoopDialsStep ==
    ASSUME Managed, NEW e \in Evictions, LoopDials(e)
    PROVE  Managed'
<1> DEFINE c == Min(FreeConns)
           new == [loop[e] EXCEPT !.pc = "activate", !.conn = c]
<1>1. /\ c \in Conns /\ c \notin remover \cup {active}
      /\ \A f \in Evictions : loop[f].conn # c
  BY Zenon, FreshConn DEF LoopDials
<1>2. /\ loop' = [loop EXCEPT ![e] = new] /\ addr' = [addr EXCEPT ![c] = loop[e].at]
      /\ open' = open \cup {c} /\ UNCHANGED <<maps, remover, again, pub, failed>>
  BY Zenon DEF LoopDials, world
<1> HIDE DEF c
<1>3. /\ loop \in [Evictions -> Loops] /\ loop[e].at \in Addrs \cup {"none"}
      /\ new \in Loops /\ new.pc = "activate" /\ new.conn = c
  BY Zenon, <1>1 DEF Managed, Shapes, Loops
<1> HIDE DEF new
<1>4. loop' \in [Evictions -> Loops] /\ loop'[e] = new
      /\ \A f \in Evictions : f # e => loop'[f] = loop[f]
  BY Zenon, <1>2, <1>3
<1>5. Shapes'
  BY Zenon, <1>1, <1>2, <1>3, <1>4 DEF Managed, Shapes, maps, pub
<1>6. Dialed'
  BY Zenon, <1>1, <1>2, <1>3, <1>4 DEF Managed, Dialed, maps
<1>7. ActiveIsOpen' /\ SelectorFollowsActive' /\ MarkHasProbe'
  BY Zenon, <1>2 DEF Managed, ActiveIsOpen, SelectorFollowsActive, MarkHasProbe, maps, pub
<1> QED BY Zenon, <1>5, <1>6, <1>7 DEF Managed

\* It hands its connection over or forgets it; nobody else has it.
LEMMA LoopActivatesStep ==
    ASSUME Managed, NEW e \in Evictions, LoopActivates(e)
    PROVE  Managed'
<1> DEFINE c == loop[e].conn
<1>1. /\ loop[e].pc = "activate" /\ loop' = [loop EXCEPT ![e] = IdleLoop]
      /\ UNCHANGED <<registered, addr, open, remover, again, probe, caller, failed>>
      /\ \/ UNCHANGED <<active, evictable, sel, mark>>
         \/ evictable # 0 /\ active' = c /\ evictable' = 0 /\ sel' = sel + 1 /\ UNCHANGED mark
  BY Zenon DEF LoopActivates, conns, world, OnActive, AddNode
<1>2. /\ c \in open /\ c \in Conns /\ c \notin remover \cup {active}
      /\ \A f \in Evictions : f # e /\ loop[f].pc = "activate" => loop[f].conn # c
  BY Zenon, <1>1 DEF Managed, Shapes, Dialed
<1> HIDE DEF c
<1>3. /\ loop \in [Evictions -> Loops] /\ IdleLoop \in Loops /\ IdleLoop.pc = "none"
  BY Zenon DEF Managed, Shapes, Loops, IdleLoop
<1> HIDE DEF IdleLoop
<1>4. loop' \in [Evictions -> Loops] /\ loop'[e] = IdleLoop
      /\ \A f \in Evictions : f # e => loop'[f] = loop[f]
  BY Zenon, <1>1, <1>3
<1>5. sel + 1 \in Nat /\ (~failed /\ active = 0 => sel + 1 = 1)
  BY DEF Managed, Shapes, SelectorFollowsActive
<1>6. Shapes'
  BY Zenon, <1>1, <1>2, <1>4, <1>5 DEF Managed, Shapes
<1>7. Dialed'
  BY Zenon, <1>1, <1>2, <1>3, <1>4 DEF Managed, Dialed
<1>8. c # 0 /\ (evictable # 0 => active = 0)
  BY Zenon, <1>2, NodeClientAssumption DEF Managed, ActiveIsOpen
<1>9. ActiveIsOpen'
  <2>1. CASE UNCHANGED <<active, evictable>>
    BY Zenon, <1>1, <2>1 DEF Managed, ActiveIsOpen
  <2>2. CASE active' = c /\ evictable' = 0
    BY Zenon, <1>1, <1>2, <2>2 DEF ActiveIsOpen
  <2> QED BY Zenon, <1>1, <2>1, <2>2
<1>10. SelectorFollowsActive'
  BY Zenon, <1>1, <1>5, <1>8 DEF Managed, SelectorFollowsActive
<1>11. MarkHasProbe'
  BY Zenon, <1>1 DEF Managed, MarkHasProbe
<1> QED BY Zenon, <1>6, <1>7, <1>9, <1>10, <1>11 DEF Managed

\* Every step of the goroutine.
LEMMA LoopStep ==
    ASSUME Managed, NEW e \in Evictions,
           LoopFails(e) \/ LoopDials(e) \/ LoopActivates(e) \/ LoopStops(e)
    PROVE  Managed' /\ UNCHANGED <<probe, caller, failed>>
<1>1. UNCHANGED <<probe, caller, failed>>
  BY Zenon DEF LoopFails, LoopDials, LoopActivates, LoopStops, pub, world
<1>2. CASE LoopFails(e) \/ LoopStops(e)
  <2>1. /\ loop' \in {loop, [loop EXCEPT ![e] = IdleLoop]}
        /\ UNCHANGED <<maps, conns, remover, again, sel, mark>>
    BY Zenon, <1>2 DEF LoopFails, LoopStops, pub
  <2> QED BY Zenon, <1>1, <2>1, LoopEnds
<1> QED BY Zenon, <1>1, <1>2, LoopDialsStep, LoopActivatesStep

-----------------------------------------------------------------------------
(* checkWritable and its probes *)

\* A step that leaves the connections alone, and the selector until the first failure.
LEMMA PubStep ==
    ASSUME IInv, UNCHANGED pool, failed => failed',
           sel' \in Nat, ~failed' => UNCHANGED sel /\ Quiet',
           mark' \in BOOLEAN, mark' => \E p \in Probes : probe'[p] # "none",
           probe' \in [Probes -> {"none", "wait", "add", "clear"}],
           caller' \in [Callers -> Calls]
    PROVE  IInv'
<1>1. Shapes'
  BY Zenon DEF IInv, Shapes, pool, maps, conns
<1>2. Dialed' /\ ActiveIsOpen'
  BY Zenon DEF IInv, Dialed, ActiveIsOpen, pool, maps, conns
<1>3. SelectorFollowsActive'
  BY Zenon DEF IInv, SelectorFollowsActive, pool, maps
<1>4. Quiet' /\ MarkHasProbe'
  BY Zenon DEF Quiet, MarkHasProbe
<1> QED BY Zenon, <1>1, <1>2, <1>3, <1>4 DEF IInv

\* A publisher.
LEMMA CallerStep ==
    ASSUME IInv, NEW k \in Callers,
           CheckWritable(k) \/ CheckReturns(k) \/ CheckDeletes(k) \/ CheckMarks(k)
    PROVE  IInv'
<1> USE DEF IInv, Shapes
<1>1. CASE CheckWritable(k)
  <2>1. /\ caller' = [caller EXCEPT ![k] = [pc |-> "check", conn |-> active]]
        /\ UNCHANGED <<pool, sel, mark, probe, failed>>
    BY Zenon, <1>1 DEF CheckWritable, world
  <2>2. caller' \in [Callers -> Calls]
    BY Zenon, <2>1 DEF Calls
  <2>3. Quiet'
    BY Zenon, <2>1 DEF Quiet
  <2> QED BY Zenon, <2>1, <2>2, <2>3, PubStep DEF MarkHasProbe
<1>2. CASE CheckReturns(k)
  <2> DEFINE ok == ServiceHealthy(caller[k].conn)
  <2>1. /\ caller' = [caller EXCEPT ![k] = [pc |-> IF ok THEN "idle" ELSE "delete", conn |-> 0]]
        /\ failed' <=> (failed \/ ~ok)
        /\ UNCHANGED <<pool, sel, mark, probe>>
    BY Zenon, <1>2 DEF CheckReturns
  <2> HIDE DEF ok
  <2>2. caller' \in [Callers -> Calls]
    BY Zenon, <2>1 DEF Calls
  <2>3. Quiet'
    BY Zenon, <2>1 DEF Quiet
  <2> QED BY Zenon, <2>1, <2>2, <2>3, PubStep DEF MarkHasProbe
<1>3. CASE CheckDeletes(k)
  <2>1. /\ caller[k].pc = "delete" /\ caller' = [caller EXCEPT ![k].pc = "mark"]
        /\ sel' = Max({sel - 1, 0}) /\ UNCHANGED <<pool, mark, probe, failed>>
    BY Zenon, <1>3 DEF CheckDeletes, world, RemoveNode
  <2>2. caller' \in [Callers -> Calls]
    BY Zenon, <2>1 DEF Calls
  <2>3. failed
    BY Zenon, <2>1 DEF Quiet
  <2>4. sel' \in Nat
    BY Zenon, <2>1, SelectorStep
  <2> QED BY Zenon, <2>1, <2>2, <2>3, <2>4, PubStep DEF MarkHasProbe
<1>4. CASE CheckMarks(k)
  <2> DEFINE free == {p \in Probes : probe[p] = "none"}
  <2>1. /\ caller[k].pc = "mark" /\ caller' = [caller EXCEPT ![k] = IdleCall]
        /\ UNCHANGED <<pool, sel, failed>>
        /\ \/ UNCHANGED <<mark, probe>>
           \/ free # {} /\ mark' = TRUE /\ probe' = [probe EXCEPT ![Min(free)] = "wait"]
    BY Zenon, <1>4 DEF CheckMarks, world
  <2>2. caller' \in [Callers -> Calls]
    BY Zenon, <2>1 DEF Calls, IdleCall
  <2>3. failed
    BY Zenon, <2>1 DEF Quiet
  <2>4. free # {} => Min(free) \in Probes
    <3>1. free \in SUBSET Nat
      BY Zenon, NodeClientAssumption
    <3> QED BY Zenon, <3>1, MinOfNaturals
  <2> HIDE DEF free
  <2>5. /\ probe' \in [Probes -> {"none", "wait", "add", "clear"}] /\ mark' \in BOOLEAN
        /\ mark' => \E p \in Probes : probe'[p] # "none"
    <3>1. CASE UNCHANGED <<mark, probe>>
      BY Zenon, <3>1 DEF MarkHasProbe
    <3>2. CASE free # {} /\ mark' = TRUE /\ probe' = [probe EXCEPT ![Min(free)] = "wait"]
      BY Zenon, <2>4, <3>2
    <3> QED BY Zenon, <2>1, <3>1, <3>2
  <2> QED BY Zenon, <2>1, <2>2, <2>3, <2>5, PubStep
<1> QED BY Zenon, <1>1, <1>2, <1>3, <1>4

\* A probe.
LEMMA ProbeStep ==
    ASSUME IInv, NEW p \in Probes, ProbeTick(p) \/ ProbeAdds(p) \/ ProbeClears(p)
    PROVE  IInv'
<1>1. probe[p] # "none" /\ UNCHANGED <<pool, caller, failed>>
  BY Zenon DEF ProbeTick, ProbeAdds, ProbeClears, world
<1>2. failed
  BY Zenon, <1>1 DEF IInv, Quiet
<1>3. /\ probe \in [Probes -> {"none", "wait", "add", "clear"}] /\ sel \in Nat /\ mark \in BOOLEAN
      /\ caller \in [Callers -> Calls]
  BY Zenon DEF IInv, Shapes
<1>4. CASE ProbeTick(p) \/ ProbeAdds(p)
  <2>1. /\ probe' = [probe EXCEPT ![p] = "clear"] \/ probe' = [probe EXCEPT ![p] = "add"]
        /\ UNCHANGED mark /\ sel' \in {sel, sel + 1}
    BY Zenon, <1>4 DEF ProbeTick, ProbeAdds, AddNode
  <2>2. probe' \in [Probes -> {"none", "wait", "add", "clear"}] /\ probe'[p] # "none"
    BY Zenon, <1>3, <2>1
  <2>3. sel' \in Nat
    BY <1>3, <2>1
  <2> QED BY Zenon, <1>1, <1>2, <1>3, <2>1, <2>2, <2>3, PubStep
<1>5. CASE ProbeClears(p)
  <2>1. probe' = [probe EXCEPT ![p] = "none"] /\ mark' = FALSE /\ UNCHANGED sel
    BY Zenon, <1>5 DEF ProbeClears
  <2>2. probe' \in [Probes -> {"none", "wait", "add", "clear"}]
    BY Zenon, <1>3, <2>1
  <2> QED BY Zenon, <1>1, <1>2, <1>3, <2>1, <2>2, PubStep
<1> QED BY Zenon, <1>4, <1>5

-----------------------------------------------------------------------------

\* Nothing is registered at first.
LEMMA InitIInv == Init => IInv
<1> SUFFICES ASSUME Init PROVE IInv
  BY Zenon
<1>1. Shapes
  BY Zenon DEF Init, Shapes, IdleLoop, IdleCall, Loops, Calls
<1>2. Dialed /\ ActiveIsOpen
  BY Zenon DEF Init, Dialed, IdleLoop, ActiveIsOpen
<1>3. Quiet /\ SelectorFollowsActive /\ MarkHasProbe
  BY Zenon DEF Init, Quiet, SelectorFollowsActive, MarkHasProbe, IdleCall
<1> QED BY Zenon, <1>1, <1>2, <1>3 DEF IInv

\* The invariant is inductive.
LEMMA NextIInv == IInv /\ [Next]_vars => IInv'
<1> SUFFICES ASSUME IInv, [Next]_vars PROVE IInv'
  BY Zenon
<1>1. Managed
  BY Zenon DEF IInv, Managed
<1>2. ASSUME Managed', UNCHANGED <<probe, caller, failed>>
      PROVE  IInv'
  BY Zenon, <1>2 DEF IInv, Managed, Quiet
<1>3. CASE Flip \/ FlipCreds
  <2>1. UNCHANGED <<pool, pub, failed>>
    BY Zenon, <1>3 DEF Flip, FlipCreds
  <2> QED BY Zenon, <2>1
             DEF IInv, Shapes, Dialed, ActiveIsOpen, Quiet, SelectorFollowsActive,
                      MarkHasProbe, pool, maps, conns, pub
<1>4. CASE UNCHANGED vars
  BY Zenon, <1>4
     DEF vars, IInv, Shapes, Dialed, ActiveIsOpen, Quiet, SelectorFollowsActive,
              MarkHasProbe, pool, maps, conns, pub, world
<1> QED BY Zenon, <1>1, <1>2, <1>3, <1>4, PoolStep, LoopStep, CallerStep, ProbeStep DEF Next

\* The client that GetClient hands out has an open connection and is not being
\* reconnected (connmanager.go), whatever goroutines of earlier connections of the
\* name are still running, for any number of connections and evictions.
THEOREM ActiveClientsAreOpen == Spec => []ActiveIsOpen
<1>1. IInv => ActiveIsOpen
  BY Zenon DEF IInv
<1> QED BY <1>1, InitIInv, NextIInv, PTL DEF Spec

\* Until checkWritable first finds a node unhealthy, OnActive and OnInactive are paired
\* on every path of the connection manager: the selector holds the node once while it is
\* active and not otherwise.
THEOREM SelectorIsPaired == Spec => []SelectorFollowsActive
<1>1. IInv => SelectorFollowsActive
  BY Zenon DEF IInv
<1> QED BY <1>1, InitIInv, NextIInv, PTL DEF Spec

\* A mark in writableProbe has a probe goroutine that will clear it (checkWritable),
\* for any number of publishers and probes.
THEOREM MarksHaveProbes == Spec => []MarkHasProbe
<1>1. IInv => MarkHasProbe
  BY Zenon DEF IInv
<1> QED BY <1>1, InitIInv, NextIInv, PTL DEF Spec

=============================================================================
