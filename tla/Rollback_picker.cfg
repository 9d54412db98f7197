CONSTANTS
    Kinds = {"Deployment", "StatefulSet"}
    Templates = {ta, tb, tc}
    Calls = {j1}
    MaxRev = 3
    Broken = broken
    None = none
SYMMETRY MCSymmetry
SPECIFICATION Spec
CHECK_DEADLOCK FALSE
INVARIANTS
    ShownIsRestored OutcomeIsTruthful
