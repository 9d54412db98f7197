---------------------------- MODULE MCSecretEdit ----------------------------
(* Model values and symmetry for the runs of SecretEdit. *)
EXTENDS SecretEdit, TLC

Symmetric == Permutations(Keys)
=============================================================================
