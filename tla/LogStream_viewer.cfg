\* Two start() calls and the unmounting of the viewer.
CONSTANTS
    Starts = {c1, c2}
    Halts = {}
    Unmount = unmount
    None = none
    MaxLines = 1
SPECIFICATION FairSpec
\* The calls are finitely many and the streams may end.
CHECK_DEADLOCK FALSE
INVARIANTS
    NoLineMissed
    OwnLinesOnly
    RunningCanBeStopped
    StreamingIsTrue
PROPERTIES
    CancelledLeave
