--------------------------- MODULE ShardContract ---------------------------
(***************************************************************************)
(* What a data node's shard promises about its rows, whatever flushes,     *)
(* merges, manifests and directories do underneath: a row that is visible  *)
(* stays visible until the process stops; a row that has become durable    *)
(* stays for good; a restart brings back the durable rows, perhaps some    *)
(* more, and never a row that nobody sent.                                 *)
(***************************************************************************)
CONSTANT Row

VARIABLES running, offered, visible, durable

vars == <<running, offered, visible, durable>>

Init == running = TRUE /\ offered = {} /\ visible = {} /\ durable = {}

\* A client or a liaison hands over rows.
Offer ==
    /\ running
    /\ offered' \in SUBSET Row /\ offered \subseteq offered'
    /\ UNCHANGED <<running, visible, durable>>

\* Offered rows become visible to queries.
Show ==
    /\ running
    /\ visible' \in SUBSET offered /\ visible \subseteq visible'
    /\ UNCHANGED <<running, offered, durable>>

\* Visible rows reach the disk for good.
Harden ==
    /\ running
    /\ durable' \in SUBSET visible /\ durable \subseteq durable'
    /\ UNCHANGED <<running, offered, visible>>

\* The table is closed or its process dies: what will be visible again has
\* every durable row.
Stop ==
    /\ running /\ running' = FALSE
    /\ visible' \in SUBSET offered /\ durable \subseteq visible'
    /\ UNCHANGED <<offered, durable>>

\* The table is opened again.
Start ==
    /\ ~running /\ running' = TRUE
    /\ UNCHANGED <<offered, visible, durable>>

Next == Offer \/ Show \/ Harden \/ Stop \/ Start

Spec == Init /\ [][Next]_vars
=============================================================================
