------------------------------- MODULE Gossip -------------------------------
(***************************************************************************)
(* The propagation of repairs of one shard along the nodes that hold it    *)
(* (banyand/property/gossip).  A propagation goes to the first node of the *)
(* list; the node that has it repairs with the next node it can, as the    *)
(* client, and hands the propagation to that node, for 2n - 3 repairs.     *)
(*                                                                         *)
(* Simplifications.                                                        *)
(*  - One propagation of the shard at a time, and one repair.              *)
(*  - All nodes know the same nodes.                                       *)
(***************************************************************************)
EXTENDS PropertyRepair

CONSTANTS
    Starts      \* nodes, documents and trees at first, and the bounds of a behaviour

VARIABLES
    nodes,      \* Context.Nodes
    down,       \* nodes that are not registered
    prop,       \* the propagation: step, node that has it, OriginNode, offset tried,
                \* CurrentPropagationCount, and whether no repair of it failed
    origin,     \* originalNodeID of groupWithShards at each node ("none": no entry)
    expired,    \* nodes whose entry is out of its time to live
    first,      \* db when the propagation began, for the properties
    touched,    \* entities written since then, newer than a leaf by then, or left out by
                \* a repair because a read or a write failed
    plan        \* origins of the propagations to come, a bound of the model

gossip == <<nodes, down, prop, origin, expired, first, touched, plan>>
allVars == <<vars, gossip>>

Members == Range(nodes)
\* Mutant: each node is visited once.
MaxPropagationCountOnce == Len(nodes) - 1

MaxPropagationCount == Len(nodes) * 2 - 3

NoProp == [pc |-> "idle", at |-> "none", origin |-> "none", offset |-> 0, count |-> 0,
           clean |-> TRUE]

Init ==
    /\ \E s \in Starts : /\ nodes = s.nodes /\ db = s.db /\ built = s.built
                         /\ down = s.down /\ budget = s.budget /\ plan = s.plan
    /\ InitRepair
    /\ prop = NoProp /\ origin = [n \in Replicas |-> "none"] /\ expired = {}
    /\ first = db /\ touched = {}

-----------------------------------------------------------------------------

\* service.Propagation on a node: the request goes to the first node, by a call
\* unless it is that node, which needs the node to be registered.
Propagate ==
    /\ prop.pc = "idle" /\ plan # <<>> /\ plan' = Tail(plan)
    /\ LET o == Head(plan) IN
       prop' = IF nodes[1] = o \/ nodes[1] \notin down
               THEN [NoProp EXCEPT !.pc = "sent", !.at = nodes[1], !.origin = o]
               ELSE NoProp
    /\ first' = db
    /\ touched' = {e \in Entities : \E n \in Members : db[n][e] # tree[n][e]}
    /\ UNCHANGED <<vars, nodes, down, origin, expired>>

\* A call of Propagation fails, or the context of handle is done before it.
Lose ==
    /\ prop.pc = "sent" /\ prop' = NoProp
    /\ UNCHANGED <<vars, nodes, down, origin, expired, first, touched, plan>>

\* addToProcess: a request of another origin is discarded during the time to live
\* of the entry, which starts when the entry is made.
AddToProcess ==
    /\ prop.pc = "sent"
    /\ LET n == prop.at IN
       IF origin[n] \in {"none", prop.origin} \/ n \in expired
       THEN /\ origin' = [origin EXCEPT ![n] = prop.origin]
            /\ prop' = [prop EXCEPT !.pc = "select", !.offset = 1]
       ELSE prop' = NoProp /\ UNCHANGED origin
    /\ UNCHANGED <<vars, nodes, down, expired, first, touched, plan>>

\* The entry of a node gets older than half the schedule interval.
Expire(n) ==
    /\ prop.pc = "idle" /\ origin[n] # "none" /\ n \notin expired
    /\ expired' = expired \cup {n}
    /\ UNCHANGED <<vars, nodes, down, prop, origin, first, touched, plan>>

\* nextExistNode
NextOf(n, offset) ==
    LET i == CHOOSE i \in DOMAIN nodes : nodes[i] = n IN
    nodes[1 + ((i - 1 + offset) % Len(nodes))]

\* A turn of the loop of handle: the next node is skipped when it is not registered,
\* and the propagation ends when there is none.
SelectNode ==
    /\ prop.pc = "select"
    /\ LET m == NextOf(prop.at, prop.offset) IN
       \/ /\ prop.offset >= Len(nodes)
          /\ prop' = NoProp /\ UNCHANGED vars
       \/ /\ prop.offset < Len(nodes) /\ m \in down
          /\ prop' = [prop EXCEPT !.offset = @ + 1, !.clean = FALSE] /\ UNCHANGED vars
       \/ /\ prop.offset < Len(nodes) /\ m \notin down
          /\ Rev(prop.at, m)
          /\ prop' = [prop EXCEPT !.pc = "rev"]
    /\ UNCHANGED <<nodes, down, origin, expired, first, touched, plan>>

\* What handle does when Rev has returned.
After(p, end, peer) ==
    CASE end = "abort" -> NoProp
      [] end = "error" -> [p EXCEPT !.pc = "select", !.offset = @ + 1, !.clean = FALSE]
      [] end = "ok" /\ p.count + 1 >= MaxPropagationCount -> [p EXCEPT !.pc = "full", !.count = @ + 1]
      [] OTHER -> [p EXCEPT !.pc = "sent", !.at = peer, !.count = @ + 1]

RevReturns ==
    /\ prop.pc = "rev" /\ ClientReturns
    /\ prop' = After(prop, client.end, Srv)
    /\ UNCHANGED <<nodes, down, origin, expired, first, touched, plan>>

\* handle returns after the last repair.
Finish ==
    /\ prop.pc = "full" /\ prop' = NoProp
    /\ UNCHANGED <<vars, nodes, down, origin, expired, first, touched, plan>>

RepairStep ==
    /\ Repairing \/ Break \/ ServerGivesUp \/ RepairFails
    /\ touched' = touched \cup (written' \ written)
    /\ UNCHANGED <<nodes, down, prop, origin, expired, first, plan>>

WriteStep ==
    /\ \E n \in Members, e \in Entities : Write(n, e) /\ touched' = touched \cup {e}
    /\ UNCHANGED <<nodes, down, prop, origin, expired, first, plan>>

BuildStep == (\E n \in Members : BuildTree(n)) /\ UNCHANGED gossip

Handling == AddToProcess \/ SelectNode \/ RevReturns \/ Finish

Next ==
    \/ \E n \in Members : Expire(n)
    \/ Propagate \/ Lose \/ Handling \/ RepairStep \/ WriteStep \/ BuildStep

Spec == Init /\ [][Next]_allVars

\* The goroutines of the two sides and of the gossip handlers go on.
FairSpec == Spec /\ WF_allVars(Handling) /\ WF_allVars(Repairing /\ UNCHANGED gossip)

-----------------------------------------------------------------------------
(* Properties *)

\* Type invariant: the documents, trees and sides of the repair (repair_gossip.go) and
\* the context of the propagation (gossip/server.go), whose count stays below its
\* maximum while it goes on.
TypeOK ==
    /\ RepairTypeOK
    /\ prop.pc \in {"idle", "sent", "select", "rev", "full"}
    /\ prop.at \in Members \cup {"none"} /\ prop.origin \in Members \cup {"none"}
    /\ prop.offset \in 0..Len(nodes) /\ prop.clean \in BOOLEAN
    /\ prop.count \in 0..MaxPropagationCount
    /\ (prop.count = MaxPropagationCount <=> prop.pc = "full")
    /\ origin \in [Replicas -> Replicas \cup {"none"}] /\ expired \subseteq Replicas

\* A propagation that makes all its repairs, none of which failed, leaves every
\* replica with one version of every entity, and no newer one was anywhere when it
\* began: 2n - 3 repairs along the ring carry what any node has to all of them
\* (handle and MaxPropagationCount), except for entities written meanwhile.
GossipConverges ==
    prop.pc = "full" /\ prop.clean =>
        \A e \in Entities \ touched, m \in Members :
            /\ db[m][e] = db[nodes[1]][e]
            /\ db[m][e].rev = Max({first[n][e].rev : n \in Members})

\* A replica's newest document of an entity is never replaced by an older revision, nor
\* marked as deleted because of one, whatever is in flight: shard.repair decides on what
\* its search found, and a write of the liaison between the search and its own write, a
\* document that comes late, a failed repair or a broken stream do not take a newer
\* document away.
NoStepBack ==
    [][\A n \in Members, e \in Entities :
          db'[n][e].rev >= db[n][e].rev /\ db'[n][e].del # Marked]_allVars

\* Every propagation ends, and the repairs it makes: no side waits for a message
\* the other does not send, documents are not sent back and forth for ever, and
\* nodes that are not registered or lack a tree do not hold it up.
PropagationEnds == prop.pc # "idle" ~> prop.pc = "idle" /\ client.pc = "idle"
=============================================================================
