\* Two starts with the same or different targets, a stop request and the
\* application closing; or one start and a reconnect as well.
CONSTANTS
    Starts = {c1, c2}
    Targets = {t1, t2}
    Stops = {s1}
    Connects = {k1}
    Shutdowns = {z1}
SYMMETRY Symmetry
CONSTRAINT ReconnectMeetsOne
SPECIFICATION Spec
\* The calls are finitely many: once all have returned the system may rest.
CHECK_DEADLOCK FALSE
INVARIANTS
    UniqueTunnel
    NoLeakedTunnel
    RemovedIsTerminal
    FinalEventNotLost
