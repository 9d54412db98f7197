\* Two keys, one text and one binary value, one call, two acts.
CONSTANTS
    Keys = {k1, k2}
    Texts = {a}
    Binaries = {b}
    Garbled = garbled
    None = none
    Jobs = {j1}
    Tries = 2
    MaxActs = 2
SPECIFICATION Spec
SYMMETRY Symmetric
\* The user rests.
CHECK_DEADLOCK FALSE
INVARIANTS
    NothingGarbled
PROPERTIES
    FormKeepsTheRest
    FormLeavesAKey
    DraftIsSaved
