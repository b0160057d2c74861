-------------------------- MODULE PropertyVersion ---------------------------
(***************************************************************************)
(* The version of a property that a shard holds: the newest document of an *)
(* entity, by ModRevision, with its delete time (0 while it is live).      *)
(***************************************************************************)
EXTENDS Naturals

\* No document of the entity.
None == [rev |-> 0, del |-> 0]

\* Mutant: repair only looks for the same document.
KeepsSame(old, new) == old = new

\* The early return of shard.repair: what the shard has is newer, or the same.
Keeps(old, new) == old.rev > new.rev \/ old = new

\* The delete time shard.repair gives to the documents it replaces.
Marked == 3

\* The newest document after shard.repair has written: it adds the new document and
\* marks the ones its search had found, the newest of them old.  Documents of other
\* revisions stay, the ones written since the search as they are.
Repaired(old, own, new) ==
    IF new.rev >= own.rev THEN new
    ELSE IF own.rev = old.rev /\ own.del = 0 THEN [own EXCEPT !.del = Marked] ELSE own

\* What both sides of a repair should end up with: the last write wins, and the
\* client between two states of one revision.
Winner(client, server) == IF server.rev > client.rev THEN server ELSE client
=============================================================================
