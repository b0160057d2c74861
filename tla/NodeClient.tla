----------------------------- MODULE NodeClient -----------------------------
(***************************************************************************)
(* One remote node as a liaison sees it: the connection manager            *)
(* (pkg/grpchelper/connmanager.go), the queue client that owns it          *)
(* (banyand/queue/pub/client.go, pub.go) and the node's entries in a       *)
(* round-robin selector (pkg/node/round_robin.go) behind a cluster node    *)
(* registry (banyand/liaison/grpc/node.go).                                *)
(*                                                                         *)
(* Nodes share nothing but the maps and their locks, so one node is enough.*)
(* What runs under ConnManager.mu, the health check included, is one step; *)
(* checkWritable, its probe, the reconnect goroutine and ReconnectAll are  *)
(* split where they hold no lock.                                          *)
(*                                                                         *)
(* Simplifications.                                                        *)
(*  - One topic, and a node that matches the selector's labels and the     *)
(*    client's roles.                                                      *)
(*  - A connection number is used again once nothing refers to it, that of *)
(*    a connection that is dropped without Close included.                 *)
(*  - The circuit breaker and the shutdown of the client (GracefulStop)    *)
(*    are left out.                                                        *)
(***************************************************************************)
EXTENDS Integers, FiniteSets, FiniteSetsExt

CONSTANTS
    Addrs,      \* addresses the node may register with
    Callers,    \* publishers that may call checkWritable
    Conns,      \* numbers for connections
    Evictions,  \* numbers for evictable entries and their goroutines
    Probes,     \* numbers for probe goroutines of checkWritable
    MaxFlips,   \* bound on changes of the node's health
    MaxChurn,   \* bound on deletions and changes of address
    MaxReloads  \* bound on changes of the CA certificate file

ASSUME NodeClientAssumption ==
    /\ Conns \subseteq Nat \ {0} /\ Evictions \subseteq Nat \ {0} /\ Probes \subseteq Nat \ {0}
    /\ MaxFlips \in Nat /\ MaxChurn \in Nat /\ MaxReloads \in Nat /\ "none" \notin Addrs

VARIABLES
    registered, \* the address in registered, or "none"
    active,     \* the connection in active, or 0
    evictable,  \* the entry in evictable, or 0
    addr, open, \* the address a connection dialed; the connections not closed
    loop,       \* reconnect goroutines: [pc, at, conn, stop], stop for a closed en.c
    remover,    \* connections (mn) the goroutines of OnDelete wait on
    again,      \* addresses ReconnectAll has still to register
    sel,        \* entries of the node in roundRobinSelector.nodes
    mark,       \* writableProbe[node][topic] is set
    probe,      \* step of each probe goroutine
    caller,     \* checkWritable calls: [pc, conn]
    alive, writable, creds,     \* the node serves at an address; can write; CA file readable
    failed,     \* some checkWritable has found the service unhealthy
    flips, churn, reloads

maps == <<registered, active, evictable>>
conns == <<addr, open>>
pool == <<maps, conns, loop, remover, again>>
pub == <<sel, mark, probe, caller>>
world == <<alive, writable, creds, failed, flips, churn, reloads>>
vars == <<pool, pub, world>>

IdleLoop == [pc |-> "none", at |-> "none", conn |-> 0, stop |-> FALSE]
IdleCall == [pc |-> "idle", conn |-> 0]

Init ==
    /\ registered = "none" /\ active = 0 /\ evictable = 0
    /\ addr = [c \in Conns |-> "none"] /\ open = {}
    /\ loop = [e \in Evictions |-> IdleLoop]
    /\ remover = {} /\ again = {}
    /\ sel = 0 /\ mark = FALSE
    /\ probe = [p \in Probes |-> "none"]
    /\ caller = [k \in Callers |-> IdleCall]
    /\ alive = [a \in Addrs |-> TRUE] /\ writable = TRUE /\ creds = TRUE
    /\ failed = FALSE /\ flips = 0 /\ churn = 0 /\ reloads = 0

-----------------------------------------------------------------------------
(* Parts of the handlers *)

\* Mutant: a connection that is not closed counts as healthy.
HealthCheckOpen(c) == c \in open

\* healthCheck: the RPC fails on a closed connection.
HealthCheck(c) == c \in open /\ alive[addr[c]]

Referred == {active} \cup remover \cup {loop[e].conn : e \in Evictions}
                     \cup {caller[k].conn : k \in Callers}
FreeConns == Conns \ Referred
FreeEvictions == {e \in Evictions : loop[e].pc = "none" /\ e # evictable}

\* OnActive and OnInactive of pub: AddNode appends, RemoveNode takes out one
\* entry; OnInactive also drops the probe marks of the node.
AddNode == sel' = sel + 1
RemoveNode == sel' = Max({sel - 1, 0})
OnActive == AddNode /\ UNCHANGED mark
OnInactive == RemoveNode /\ mark' = FALSE

\* close(en.c)
CloseEvict == IF evictable = 0 THEN loop ELSE [loop EXCEPT ![evictable].stop = TRUE]

\* Mutant: the evicted client stays in active.
EvictKeepsActive(a, loops) ==
    LET e == Min(FreeEvictions) IN
    /\ FreeEvictions # {}
    /\ evictable' = e /\ UNCHANGED active
    /\ loop' = [loops EXCEPT ![e] = [pc |-> "wait", at |-> a, conn |-> 0, stop |-> FALSE]]

\* checkHealthAndReconnect when the check fails: a new entry and its goroutine.
Evict(a, loops) ==
    LET e == Min(FreeEvictions) IN
    /\ FreeEvictions # {}
    /\ evictable' = e /\ active' = 0
    /\ loop' = [loops EXCEPT ![e] = [pc |-> "wait", at |-> a, conn |-> 0, stop |-> FALSE]]

-----------------------------------------------------------------------------
(* ConnManager *)

\* The part of OnAddOrUpdate that dials; loops and wasActive are what registerNode
\* left: the goroutines with their channels, and whether it dropped a connection
\* and took the node out of the selector.
Connect(a, loops, wasActive) ==
    LET c == Min(FreeConns) IN
    IF ~creds
    THEN /\ active' = 0 /\ evictable' = 0 /\ loop' = loops
         /\ open' = open \ {active} /\ UNCHANGED addr
         /\ IF wasActive THEN OnInactive ELSE UNCHANGED <<sel, mark>>
    ELSE /\ FreeConns # {}
         /\ IF alive[a]
            THEN /\ active' = c /\ evictable' = 0 /\ loop' = loops
                 /\ addr' = [addr EXCEPT ![c] = a]
                 /\ open' = (open \ {active}) \cup {c}
                 /\ IF wasActive THEN sel' = Max({sel - 1, 0}) + 1 /\ mark' = FALSE
                                 ELSE OnActive
            ELSE /\ Evict(a, loops)
                 /\ open' = open \ {active} /\ UNCHANGED addr
                 /\ IF wasActive THEN sel' = Max({sel - 2, 0}) /\ mark' = FALSE
                                 ELSE OnInactive

\* OnAddOrUpdate with registerNode: a change of address drops what there was.
OnAddOrUpdate(a) ==
    /\ registered' = a
    /\ IF registered \notin {"none", a}
       THEN Connect(a, CloseEvict, active # 0)
       ELSE IF active # 0 \/ evictable # 0
            THEN UNCHANGED <<active, evictable, conns, loop, sel, mark>>
            ELSE Connect(a, loop, FALSE)

\* An event of the metadata registry.
Register(a) ==
    /\ registered = a \/ churn < MaxChurn \/ registered = "none"
    /\ churn' = IF registered \in {"none", a} THEN churn ELSE churn + 1
    /\ OnAddOrUpdate(a)
    /\ UNCHANGED <<remover, again, probe, caller, alive, writable, creds, failed, flips, reloads>>

\* Mutant: the handler is not told.
RemoveUnhealthySilently(mn) ==
    /\ active' = 0 /\ open' = open \ {mn} /\ UNCHANGED <<sel, mark>>

\* removeNodeIfUnhealthy once the check of mn has failed.
RemoveUnhealthy(mn) ==
    /\ active' = 0 /\ open' = open \ {mn} /\ OnInactive

\* OnDelete.
OnDelete ==
    /\ registered # "none" /\ churn < MaxChurn
    /\ churn' = churn + 1 /\ registered' = "none"
    /\ \/ /\ evictable # 0
          /\ loop' = CloseEvict /\ evictable' = 0
          /\ UNCHANGED <<active, open, remover, sel, mark>>
       \/ /\ evictable = 0 /\ active = 0
          /\ UNCHANGED <<active, evictable, open, loop, remover, sel, mark>>
       \/ /\ evictable = 0 /\ active # 0 /\ ~HealthCheck(active)
          /\ RemoveUnhealthy(active)
          /\ UNCHANGED <<evictable, loop, remover>>
       \/ /\ evictable = 0 /\ active # 0 /\ HealthCheck(active)
          /\ remover' = remover \cup {active}
          /\ UNCHANGED <<active, evictable, open, loop, sel, mark>>
    /\ UNCHANGED <<addr, again, probe, caller, alive, writable, creds, failed, flips, reloads>>

\* A round of the goroutine OnDelete starts for the connection it saw.
RemoverTick(mn) ==
    /\ mn \in remover
    /\ \/ /\ registered # "none"
          /\ remover' = remover \ {mn} /\ UNCHANGED <<active, open, sel, mark>>
       \/ /\ registered = "none" /\ ~HealthCheck(mn)
          /\ remover' = remover \ {mn} /\ RemoveUnhealthy(mn)
    /\ UNCHANGED <<registered, evictable, addr, loop, again, probe, caller, world>>

\* FailoverNode, from a failed request or the periodic health check.
FailoverNode ==
    /\ \/ /\ evictable # 0 /\ registered = "none"
          /\ loop' = CloseEvict /\ evictable' = 0
          /\ UNCHANGED <<active, open, sel, mark>>
       \/ /\ evictable = 0 /\ active # 0 /\ ~HealthCheck(active)
          /\ Evict(addr[active], loop)
          /\ open' = open \ {active} /\ OnInactive
    /\ UNCHANGED <<registered, addr, remover, again, probe, caller, world>>

\* ReconnectAll after a change of the CA file: every connection goes, then the
\* nodes seen are registered again without the lock.
ReconnectAll ==
    /\ registered # "none" /\ again = {} /\ reloads < MaxReloads
    /\ again' = {registered} /\ reloads' = reloads + 1
    /\ loop' = CloseEvict /\ evictable' = 0
    /\ active' = 0 /\ open' = open \ {active}
    /\ IF active # 0 THEN OnInactive ELSE UNCHANGED <<sel, mark>>
    /\ UNCHANGED <<registered, addr, remover, probe, caller, alive, writable, creds,
                   flips, churn, failed>>

ReRegister ==
    /\ \E a \in again : OnAddOrUpdate(a) /\ again' = again \ {a}
    /\ UNCHANGED <<remover, probe, caller, world>>

-----------------------------------------------------------------------------
(* The reconnect goroutine of an evicted node *)

\* Mutant: one attempt only.
LoopFailsForGood(e) ==
    /\ loop[e].pc = "wait"
    /\ ~creds \/ ~alive[loop[e].at]
    /\ loop' = [loop EXCEPT ![e] = IdleLoop]
    /\ UNCHANGED <<maps, conns, remover, again, pub, world>>

\* An attempt whose dial and health check fail: it goes on while the node is
\* registered.  Without credentials it returns.
LoopFails(e) ==
    /\ loop[e].pc = "wait"
    /\ ~creds \/ ~alive[loop[e].at]
    /\ loop' = IF ~creds \/ registered = "none" THEN [loop EXCEPT ![e] = IdleLoop] ELSE loop
    /\ UNCHANGED <<maps, conns, remover, again, pub, world>>

\* An attempt whose health check succeeds; it then waits for the lock.
LoopDials(e) ==
    /\ loop[e].pc = "wait" /\ creds /\ alive[loop[e].at] /\ FreeConns # {}
    /\ LET c == Min(FreeConns) IN
       /\ loop' = [loop EXCEPT ![e].pc = "activate", ![e].conn = c]
       /\ addr' = [addr EXCEPT ![c] = loop[e].at]
       /\ open' = open \cup {c}
    /\ UNCHANGED <<maps, remover, again, pub, world>>

\* The node moves back to active if the name is still evictable; otherwise the goroutine
\* returns, and the connection stays open.
LoopActivates(e) ==
    /\ loop[e].pc = "activate"
    /\ loop' = [loop EXCEPT ![e] = IdleLoop]
    /\ IF evictable = 0
       THEN UNCHANGED <<active, evictable, sel, mark>>
       ELSE active' = loop[e].conn /\ evictable' = 0 /\ OnActive
    /\ UNCHANGED <<registered, conns, remover, again, probe, caller, world>>

\* en.c is closed.
LoopStops(e) ==
    /\ loop[e].pc = "wait" /\ loop[e].stop
    /\ loop' = [loop EXCEPT ![e] = IdleLoop]
    /\ UNCHANGED <<maps, conns, remover, again, pub, world>>

-----------------------------------------------------------------------------
(* checkWritable and its probe *)

\* checkServiceHealth on a connection.
ServiceHealthy(c) == HealthCheck(c) /\ writable

\* checkWritable takes the active client.
CheckWritable(k) ==
    /\ caller[k].pc = "idle" /\ active # 0
    /\ caller' = [caller EXCEPT ![k] = [pc |-> "check", conn |-> active]]
    /\ UNCHANGED <<pool, sel, mark, probe, world>>

\* The health RPC returns.
CheckReturns(k) ==
    /\ caller[k].pc = "check"
    /\ LET ok == ServiceHealthy(caller[k].conn) IN
       /\ caller' = [caller EXCEPT ![k] = [pc |-> IF ok THEN "idle" ELSE "delete", conn |-> 0]]
       /\ failed' = (failed \/ ~ok)
    /\ UNCHANGED <<pool, sel, mark, probe, alive, writable, creds, flips, churn, reloads>>

\* h.OnDelete takes the node out of the selector.
CheckDeletes(k) ==
    /\ caller[k].pc = "delete"
    /\ caller' = [caller EXCEPT ![k].pc = "mark"]
    /\ RemoveNode
    /\ UNCHANGED <<pool, mark, probe, world>>

\* One probe per node and topic: the mark decides.
CheckMarks(k) ==
    /\ caller[k].pc = "mark"
    /\ caller' = [caller EXCEPT ![k] = IdleCall]
    /\ IF mark THEN UNCHANGED <<mark, probe>>
       ELSE LET free == {p \in Probes : probe[p] = "none"} IN
            /\ free # {}
            /\ mark' = TRUE /\ probe' = [probe EXCEPT ![Min(free)] = "wait"]
    /\ UNCHANGED <<pool, sel, world>>

\* An attempt of the probe: it ends without a client, adds the node when the
\* service is healthy, and otherwise tries again.
ProbeTick(p) ==
    /\ probe[p] = "wait" /\ (active = 0 \/ ServiceHealthy(active))
    /\ probe' = [probe EXCEPT ![p] = IF active = 0 THEN "clear" ELSE "add"]
    /\ UNCHANGED <<pool, sel, mark, caller, world>>

ProbeAdds(p) ==
    /\ probe[p] = "add"
    /\ probe' = [probe EXCEPT ![p] = "clear"]
    /\ AddNode
    /\ UNCHANGED <<pool, mark, caller, world>>

\* Mutant: the mark stays.
ProbeEnds(p) ==
    /\ probe[p] = "clear"
    /\ probe' = [probe EXCEPT ![p] = "none"]
    /\ UNCHANGED <<pool, sel, mark, caller, world>>

\* The deferred clean-up of the mark.
ProbeClears(p) ==
    /\ probe[p] = "clear"
    /\ probe' = [probe EXCEPT ![p] = "none"] /\ mark' = FALSE
    /\ UNCHANGED <<pool, sel, caller, world>>

-----------------------------------------------------------------------------
(* The node *)

Flip ==
    /\ flips < MaxFlips /\ flips' = flips + 1
    /\ \/ \E a \in Addrs : alive' = [alive EXCEPT ![a] = ~@] /\ UNCHANGED writable
       \/ writable' = ~writable /\ UNCHANGED alive
    /\ UNCHANGED <<pool, pub, creds, failed, churn, reloads>>

\* The CA file is replaced: it cannot be read for a while.
FlipCreds ==
    /\ \/ creds /\ reloads < MaxReloads /\ reloads' = reloads + 1
       \/ ~creds /\ UNCHANGED reloads
    /\ creds' = ~creds
    /\ UNCHANGED <<pool, pub, alive, writable, failed, flips, churn>>

Next ==
    \/ \E a \in Addrs : Register(a)
    \/ OnDelete \/ FailoverNode \/ ReconnectAll \/ ReRegister
    \/ \E c \in Conns : RemoverTick(c)
    \/ \E e \in Evictions : LoopFails(e) \/ LoopDials(e) \/ LoopActivates(e) \/ LoopStops(e)
    \/ \E k \in Callers :
          CheckWritable(k) \/ CheckReturns(k) \/ CheckDeletes(k) \/ CheckMarks(k)
    \/ \E p \in Probes : ProbeTick(p) \/ ProbeAdds(p) \/ ProbeClears(p)
    \/ Flip \/ FlipCreds

Spec == Init /\ [][Next]_vars

\* Goroutines keep running, and the failures of an active node are noticed (the
\* periodic health check of the schema client, failed writes of the queue client).
FairSpec ==
    /\ Spec
    /\ \A e \in Evictions :
          /\ WF_vars(LoopDials(e)) /\ WF_vars(LoopActivates(e))
          /\ WF_vars(LoopFails(e)) /\ WF_vars(LoopStops(e))
    /\ \A c \in Conns : WF_vars(RemoverTick(c))
    /\ WF_vars(FailoverNode) /\ WF_vars(ReRegister)

-----------------------------------------------------------------------------
(* Properties *)

\* Type invariant; RemoveNode never takes out an entry that is not there.
TypeOK ==
    /\ registered \in Addrs \cup {"none"}
    /\ active \in Conns \cup {0} /\ evictable \in Evictions \cup {0}
    /\ addr \in [Conns -> Addrs \cup {"none"}] /\ open \subseteq Conns
    /\ \A e \in Evictions : /\ loop[e].pc \in {"none", "wait", "activate"}
                            /\ loop[e].at \in Addrs \cup {"none"}
                            /\ loop[e].conn \in Conns \cup {0} /\ loop[e].stop \in BOOLEAN
    /\ remover \subseteq Conns /\ again \subseteq Addrs
    /\ sel \in Nat /\ mark \in BOOLEAN
    /\ probe \in [Probes -> {"none", "wait", "add", "clear"}]
    /\ \A k \in Callers : /\ caller[k].pc \in {"idle", "check", "delete", "mark"}
                          /\ caller[k].conn \in Conns \cup {0}

\* The client GetClient hands out has an open connection, and its node is not
\* being reconnected at the same time, whatever goroutines of earlier
\* connections of that name are still running.
ActiveIsOpen == active # 0 => active \in open /\ evictable = 0

\* The selector holds the node once while it is active and not otherwise, until
\* checkWritable takes a hand: OnActive and OnInactive are paired on every path
\* (OnAddOrUpdate, OnDelete and its goroutine, FailoverNode, ReconnectAll and the
\* reconnect goroutine).
SelectorFollowsActive == ~failed => sel = IF active # 0 THEN 1 ELSE 0

\* A mark of checkWritable has a goroutine that will clear it; without one no
\* probe would ever start again for that node.
MarkHasProbe == mark => \E p \in Probes : probe[p] # "none"

\* A node that stays registered under one address, and serves there for good, ends
\* up active, as long as its credentials can be read.
NodeReturns ==
    \A a \in Addrs :
        [](churn = 0 /\ creds) /\ <>[](registered = a /\ alive[a]) => <>[](active # 0)

\* A node that stays deregistered leaves the active clients once it is dead at the address
\* it was last connected to, whichever goroutine connected it.
RemovedNodeLeaves ==
    <>[](registered = "none" /\ again = {} /\ (active # 0 => ~alive[addr[active]]))
        => <>[](active = 0)
=============================================================================
