------------------------------ MODULE MCAppLog ------------------------------
(* The run of AppLog: writers are alike. *)
EXTENDS AppLog, TLC
CONSTANTS w1, w2
Alike == Permutations(Writers)
=============================================================================
