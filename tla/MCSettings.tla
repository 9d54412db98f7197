----------------------------- MODULE MCSettings -----------------------------
(***************************************************************************)
(* Settings for TLC: two names that differ in case only, and a third.      *)
(***************************************************************************)
EXTENDS Settings, TLC

CONSTANTS lower, upper, other, i1

MCFold == lower :> lower @@ upper :> lower @@ other :> other

\* A plain preference, the experimental switch, a new template under two
\* names that clash, an edit, a deletion and a selection.
MCAsked ==
    {[op |-> "SetAutoRefresh", on |-> TRUE],
     [op |-> "SetExperimental", on |-> TRUE],
     [op |-> "SetExperimental", on |-> FALSE],
     [op |-> "SaveLogTemplate", draft |-> [id |-> NoId, name |-> lower]],
     [op |-> "SaveLogTemplate", draft |-> [id |-> NoId, name |-> upper]],
     [op |-> "SaveLogTemplate", draft |-> [id |-> i1, name |-> other]],
     [op |-> "DeleteLogTemplate", id |-> i1],
     [op |-> "SetActiveLogTemplate", id |-> i1]}
=============================================================================
