CONSTANTS
    MaxInFlight = 2
    Polls <- MCPolls
    z1 = z1
    z2 = z2
    NoZone = NoZone
SPECIFICATION TimeSpec
INVARIANT TypeOK
INVARIANT ClockTypeOK
INVARIANT PollCycle
INVARIANT ClientView
