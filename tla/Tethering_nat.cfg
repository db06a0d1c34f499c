CONSTANTS
    NULL = NULL
    i1 = i1
    i2 = i2
    t1 = t1
    t2 = t2
    Ifaces <- MCIfaces
    Tuns <- MCTuns
    IpForward0 = FALSE
    MaxEnabled = 2
    MaxReplies = 2
    NatMayFail = FALSE
SPECIFICATION UsageSpec
INVARIANT NatForUpstream
