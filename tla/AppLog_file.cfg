CONSTANTS
    Writers = {w1, w2}
    w1 = w1
    w2 = w2
    Lengths = {1, 2}
    MaxSize = 3
    MaxLines = 5
    MaxFailures = 2
    None = none
SYMMETRY Alike
SPECIFICATION LogSpec
CHECK_DEADLOCK FALSE
INVARIANTS
    NewestKept DiskBounded
