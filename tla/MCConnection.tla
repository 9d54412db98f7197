---------------------------- MODULE MCConnection ----------------------------
(* Values for the runs of Connection. *)
EXTENDS ConfirmedCalls, TLC
CONSTANTS fa, fb, na, nb, sa, sb
MCHas == (fa :> {na, nb}) @@ (fb :> {na})
MCDefaultSpace == (fa :> ((na :> sa) @@ (nb :> None))) @@ (fb :> ((na :> sb) @@ (nb :> None)))
\* The two connects are interchangeable; the properties checked with this are
\* invariants.
MCSymmetry == Permutations(Connects)
=============================================================================
