SPECIFICATION FairSpec
CONSTANTS
    N = 2
    MaxFrames = 3
    MaxSignals = 2
INVARIANT
    GracefulShutdown
