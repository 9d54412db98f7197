\* One forward, one stop, the first list and the one after a reconnect.
CONSTANTS
    Starts = {c1}
    Targets = {t1}
    Stops = {s1}
    Connects = {k1}
    Shutdowns = {}
    Boot = boot
SPECIFICATION FairPanelSpec
\* The calls are finitely many: once all have returned the system may rest.
CHECK_DEADLOCK FALSE
INVARIANTS
    TeardownReaches
    NoResurrection
    IndexMatchesList
PROPERTIES
    EndReachesPanel
    ImplementsTunnels
    StartingResolves
