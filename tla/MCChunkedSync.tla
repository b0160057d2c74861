--------------------------- MODULE MCChunkedSync ---------------------------
(* Settings for the runs of ChunkedSync. *)
EXTENDS ChunkedSync

Base == [layout |-> <<1, 2, 2, 2, 3>>, chunk |-> 2, faulty |-> {}, corrupts |-> FALSE,
         reordering |-> TRUE, compatible |-> TRUE, anyOrder |-> FALSE]

\* The client against a reordering server, an incompatible one, and a sequential one
\* behind a network that corrupts chunks; unreadable parts that fill chunks of their
\* own, or fail at their first read beside the data of others; peers that send in any
\* order.
Sound == {
    Base,
    [Base EXCEPT !.compatible = FALSE],
    [Base EXCEPT !.reordering = FALSE, !.corrupts = TRUE],
    [Base EXCEPT !.layout = <<1, 1, 2, 2, 3>>, !.faulty = {2}],
    [Base EXCEPT !.layout = <<1, 2, 3, 3>>, !.faulty = {2}],
    [Base EXCEPT !.layout = <<1, 2, 2, 3>>, !.chunk = 1, !.anyOrder = TRUE],
    [Base EXCEPT !.reordering = FALSE, !.anyOrder = TRUE]}

\* Corruption on the way to a reordering server, which is the default.
Corrupting == {[Base EXCEPT !.corrupts = TRUE]}

\* An unreadable part that shares a chunk with another one.
SharedChunk == {[Base EXCEPT !.layout = <<1, 2, 2, 3>>, !.chunk = 3, !.faulty = {2}]}

\* The only part of a session cannot be read.
NothingReadable == {[Base EXCEPT !.layout = <<1, 1>>, !.faulty = {1}]}
=============================================================================
