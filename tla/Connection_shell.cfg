CONSTANTS
    fa = fa
    fb = fb
    na = na
    nb = nb
    sa = sa
    sb = sb
    Files = {fa, fb}
    Names = {na, nb}
    Has <- MCHas
    Spaces = {sa, sb}
    DefaultSpace <- MCDefaultSpace
    Connects = {k1, k2}
    Picks = {p1}
    MaxLoads = 1
    Calls = {j1}
    Ops = {"OpenShell", "GetPodNetworkFiles"}
    None = none
SPECIFICATION CallsSpec
CHECK_DEADLOCK FALSE
INVARIANT ShellFollowsConnection
