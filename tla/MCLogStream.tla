---------------------------- MODULE MCLogStream ----------------------------
(***************************************************************************)
(* LogStream for TLC.                                                      *)
(***************************************************************************)
EXTENDS LogStream, TLC
=============================================================================
