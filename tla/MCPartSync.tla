----------------------------- MODULE MCPartSync -----------------------------
(* A limit of 3 keeps two of the three parts, a limit of 2 the small ones or the large one. *)
EXTENDS PartSync

MCSize == <<1, 1, 2>>
=============================================================================
