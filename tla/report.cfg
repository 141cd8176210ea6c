SPECIFICATION FairSpec
CONSTANTS
    N = 2
    LossLimit = 3
    Period = 1
    MaxDropped = 1
INVARIANTS
    TypeOK
    OnlyStreamsAreOffered
    LossNoticedInTime
PROPERTY
    CoreFollows
