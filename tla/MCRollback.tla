----------------------------- MODULE MCRollback -----------------------------
(* Values for the run of Rollback. *)
EXTENDS Rollback, TLC
\* Templates are told apart by equality alone; the properties are invariants.
MCSymmetry == Permutations(Templates)
=============================================================================
