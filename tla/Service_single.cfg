CONSTANTS
    w1 = w1
    w2 = w2
    NoService = NoService
    Services <- One
    Type <- MCType
    Strength <- MCStrength
    Device <- MCDevice
    Method4 <- DHCP
    Method6 <- V6Auto
    HasAgent = FALSE
    MaxRp = 2
    MaxAgent = 1
SPECIFICATION SingleSpec
INVARIANT PendingHasAnswerer
PROPERTY FairPendingAnswered
