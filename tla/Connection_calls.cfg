CONSTANTS
    fa = fa
    fb = fb
    na = na
    nb = nb
    sa = sa
    sb = sb
    Files = {fa, fb}
    Names = {na, nb}
    Has <- MCHas
    Spaces = {sa, sb}
    DefaultSpace <- MCDefaultSpace
    Connects = {k1, k2}
    Picks = {p1}
    MaxLoads = 1
    Calls = {j1}
    Ops = {"DeletePod", "UpdateCronJob", "UpdateSecretFromYAML", "UpdateSecret", "OpenShell"}
    None = none
SYMMETRY MCSymmetry
SPECIFICATION CallsSpec
CHECK_DEADLOCK FALSE
INVARIANTS
    ViewFollowsConnection OneClusterPerCall ResultIsTruthful
