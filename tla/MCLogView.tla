----------------------------- MODULE MCLogView -----------------------------
(***************************************************************************)
(* LogView for TLC.                                                        *)
(***************************************************************************)
EXTENDS LogView
=============================================================================
