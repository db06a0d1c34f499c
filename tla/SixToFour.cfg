CONSTANTS
    NULL = NULL
    w1 = w1
    w2 = w2
    Addrs <- MCAddrs
    PrivateAddrs <- MCPrivateAddrs
    WebIds <- MCWebIds
    Responses <- MCResponses
    SplitCRLF = FALSE
SPECIFICATION UsageSpec
INVARIANT TypeOK
INVARIANT BodyAsSent
INVARIANT KeptOnOwnProbe
PROPERTY ProbeDecides
