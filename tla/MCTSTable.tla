----------------------------- MODULE MCTSTable -----------------------------
(***************************************************************************)
(* Model checking of TSTable.  Writes and sync sessions are               *)
(* interchangeable in the specification and in its safety properties.      *)
(***************************************************************************)
EXTENDS TSTable, TLC

Symmetry == Permutations(Writes) \cup Permutations(Receivers)
=============================================================================
