CONSTANTS
    NoTable = NoTable
    Hooks <- MCHooks
    UserChains <- MCUserChains
    Addrs <- MCAddrs
    MaxEntries = 6
    Targets <- MCTargets
INIT MCInit
NEXT UsageNext
INVARIANT TypeOK HeadsAtHookEntries
PROPERTY Refines
