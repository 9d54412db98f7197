----------------------------- MODULE MCWatcher -----------------------------
(***************************************************************************)
(* Watcher for TLC.                                                        *)
(***************************************************************************)
EXTENDS Watcher, TLC
=============================================================================
