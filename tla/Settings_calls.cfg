\* Two goroutines, two template ids with room for both, names that differ in
\* case only, a failed read and a power loss.
CONSTANTS
    Calls = {k1, k2}
    NoPath = nopath
    Paths = {nopath}
    i1 = i1
    Ids = {i1, i2}
    NoId = noid
    lower = lower
    upper = upper
    other = other
    Names = {lower, upper, other}
    Fold <- MCFold
    Blank = blank
    MaxTemplates = 2
    NoCall = nocall
    Asked <- MCAsked
    MaxFaults = 1
SPECIFICATION Spec
INVARIANTS
    TemplatesSound
    CrashKeepsFileWhole
PROPERTIES
    NoUpdateLost
