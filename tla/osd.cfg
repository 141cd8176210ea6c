SPECIFICATION Spec
CONSTANTS
    adapter = adapter
    monitor = monitor
    NoPage = NoPage
    Adapters <- MCAdapters
    Monitors <- MCMonitors
    MaxVisits = 3
    MaxNews = 2
    Buffer = 1
    Word = 32
    MinOffset = 4
    MaxOffset = 6
    MaxBandwidth = 2
    Frequencies <- MCFrequencies
    Offsets <- MCOffsets
    Numbers <- MCNumbers
    Absent = Absent
    None = None
    Top = 65535
    BerMax = 100000
    Raw <- MCRaw
    RawBer <- MCRawBer
    LossLimit = 2
    MaxRetries = 3
    MaxReadings = 5
    Reports <- MCReports
    Unit = 16
    CounterWord <- MCCounterWord
    Counters <- MCCounters
INVARIANTS
    PagesTypeOK
    TunesTheInput
    AcceptedIsSupported
    FiguresTypeOK
    LevelsInRange
    FiguresBelongTogether
    BarsAreRecent
    ServiceTypeOK
    TypesDescribePids
    ClockIsFound
    StatsTypeOK
    SuffixExists
    NetworkIsRight
PROPERTIES
    ReadsAsTheLoop
    NeverGoesBack
    PageFollows
