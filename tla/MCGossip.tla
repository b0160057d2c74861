------------------------------ MODULE MCGossip ------------------------------
EXTENDS Gossip

V(r, d) == [rev |-> r, del |-> d]

\* Entities 1 and 3 share a slot, 2 and 4 another.
MCSlot == <<1, 2, 1, 2>>

\* The leaves of the second slot are in the order of the comparison, those of the first
\* are not.
MCRank == <<3, 2, 1, 4>>
InOrder == <<1, 2, 3, 4>>

\* What client and server may have of an entity.
Pairs == {<<None, None>>, <<None, V(1, 0)>>, <<V(1, 0), None>>, <<V(1, 0), V(1, 0)>>,
          <<V(1, 0), V(2, 0)>>, <<V(2, 0), V(1, 0)>>, <<V(1, 0), V(1, 1)>>, <<V(1, 1), V(1, 0)>>}
Same == <<V(1, 0), V(1, 0), V(1, 0)>>
Behind == <<V(1, 0), V(2, 0)>>

\* What three replicas may have of one.
Triples == {t \in [1..3 -> {None, V(1, 0), V(1, 1), V(2, 0)}] :
               Cardinality({i \in 1..3 : t[i] = V(1, 0)}) \in {1, 2}}
Absent == <<None, None, None>>

Index(n) == CASE n = "a" -> 1 [] n = "b" -> 2 [] n = "c" -> 3
Replicated(f) ==
    [n \in Replicas |-> [e \in Entities |-> IF Index(n) \in DOMAIN f[e] THEN f[e][Index(n)] ELSE None]]

Begin(ring, f, trees, gone, origins, writes, breaks) ==
    [nodes |-> ring, db |-> Replicated(f), built |-> trees, down |-> gone, plan |-> origins,
     budget |-> [writes |-> writes, breaks |-> breaks]]
Two == <<"a", "b">>
Three == <<"a", "b", "c">>

MCStarts ==
    \* two replicas that differ in any way on three entities
    {Begin(Two, f, {"a", "b"}, {}, <<"a">>, 0, 0) :
             f \in {g \in [Entities -> Pairs] : g[4] \in {<<None, None>>, <<V(1, 0), None>>, Behind}}}
    \* a write, or a broken stream, and another propagation
    \cup {Begin(Two, f, {"a", "b"}, {}, <<"a", o>>, b[1], b[2]) : o \in {"a", "b"},
             f \in {g \in [Entities -> {<<V(1, 0), V(1, 0)>>, Behind}] : g[4] # Behind}, b \in {<<1, 0>>, <<0, 1>>}}
    \* three replicas
    \cup {Begin(Three, <<t, u, <<V(1, 0), None, V(1, 0)>>, Absent>>, Range(Three), {}, <<"b">>, 0, 0) :
             t \in Triples, u \in Triples}
    \* one of them without a tree, down, or with a broken stream
    \cup {Begin(Three, <<t, Same, Absent, Absent>>, Range(Three) \ x[1], x[2], <<"b", "c">>, 0, b) :
             t \in Triples, b \in 0..1,
             x \in {<<{}, {}>>} \cup {<<{n}, {}>> : n \in Replicas} \cup {<<{}, {n}>> : n \in Replicas}}
=============================================================================
