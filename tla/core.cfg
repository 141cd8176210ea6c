SPECIFICATION FairSpec
CONSTANTS
    s1 = s1
    s2 = s2
    s3 = s3
    NoSignal = NoSignal
    NoService = NoService
    NoEntry = NoEntry
    Streams <- MCStreams
    Clear <- MCClear
    LossLimit = 10
    MaxRetries = 3
    StatsFail = FALSE
    ExecFail = FALSE
    Leftovers = FALSE
INVARIANTS
    TypeOK
    LockOnlyWhileStreaming
    LockedEntryNamesOneService
    StreamsWhatWasReported
PROPERTIES
    ImplementsSetTopBox
    LossReachesBoard
    SteadySignalIsStreamed
