\* Two namespace switches, one toggle and a reconnect.
CONSTANTS
    Switches = {w1, w2}
    Toggles = {a1}
    Namespaces = {n1}
    NoNamespace = nonamespace
    None = none
    MaxConn = 1
SPECIFICATION FairSpec
\* The calls are finitely many, and the streams may all have been cancelled.
CHECK_DEADLOCK FALSE
INVARIANTS
    NoOrphanStream
PROPERTIES
    CancelledEnd
    WatchResumes
