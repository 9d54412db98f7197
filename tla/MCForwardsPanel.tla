-------------------------- MODULE MCForwardsPanel --------------------------
(***************************************************************************)
(* ForwardsPanel for TLC.                                                  *)
(***************************************************************************)
EXTENDS ForwardsPanel, TLC

PanelSymmetry == Permutations(Starts) \union Permutations(Stops)
=============================================================================
