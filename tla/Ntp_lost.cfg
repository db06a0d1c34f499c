CONSTANTS
    MaxInFlight = 2
    Polls <- MCPolls
SPECIFICATION Spec
INVARIANT PollCycle
