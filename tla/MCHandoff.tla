------------------------------ MODULE MCHandoff ------------------------------
EXTENDS Handoff, TLC

CONSTANTS p1, p2, t1, t2

\* Part p1 has a core and a sidx item; part p2, of another table and group, has the same
\* number and a core item that is twice as large.
MCTable == (p1 :> t1) @@ (p2 :> t2)
MCItem == (p1 :> {1, 3}) @@ (p2 :> {2})
MCKey == <<1, 1, 2>>
MCNumber == <<1, 1, 1>>
MCSize == <<1, 2, 1>>
=============================================================================
