--------------------------- MODULE MCPortForward ---------------------------
(***************************************************************************)
(* PortForward for TLC: the calls are model values, alike but for what     *)
(* they are given, so permuting the calls of a kind is a symmetry.         *)
(***************************************************************************)
EXTENDS PortForward, TLC

Symmetry ==
    Permutations(Starts) \union Permutations(Targets) \union Permutations(Stops)

\* Bound: a reconnect meets one start, the application closing meets all.
ReconnectMeetsOne ==
    (\E k \in Connects : kpc[k] # "idle") => \E d \in Starts : \A c \in Starts \ {d} : spc[c] = "idle"
=============================================================================
