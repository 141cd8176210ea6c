SPECIFICATION FairSpec
CONSTANTS
    N = 2
    MaxFrames = 3
    MaxSignals = 2
INVARIANTS
    TypeOK
    QuietUntilSignal
    OrderlyExit
PROPERTIES
    AdaptersGoRound
    SignalEndsProcess
