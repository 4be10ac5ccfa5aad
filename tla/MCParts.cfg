SPECIFICATION PartsSpec
CONSTANTS
    Modes <- AnyFormat
    Vocabularies <- Tables
    MaxTokens = 6
    RecordCount = 3
    Signatures = {"stop", "length", "cancelled"}
    CancelledSignatures = {"cancelled"}
    Revisions = {"A", "B"}
    Shards = {"one", "two", "three"}
    ShardsOf <- WeightFiles
    StagingBound = 2
    ConvertBound = 2
    Exporters = {"first", "second"}
    SourceShards <- BundleShards
    KindOf <- BundleKinds
    MaxVersion = 1
    Layers = {0, 1}
    JanghBound = 2
    RepackBound = 2
    HeaderLengths <- HeadersByEight
    RepackShards = {"p", "q"}
    ShardNames <- ShardsByRevision
    TensorAt <- TensorByRevision
    CacheServers = {"s", "t"}
    GuardBound = 2
    DriverBound = 2
    CellCount = 2
    SweepRows = 1
    CeilingRows = 2
    ArmRunBound = 3
    RowsPerLeg = 2
    ProbeRunBound = 2
INVARIANTS
    StopMeansComplete
    NoSpuriousFailure
    FailsClosed
    StagedIsPinned
    
    ExportIsWhole
    
    CleanCeilingRowsAreOwn
    
    ValidatedServersAreGone
    
    EvidenceIsEarned
    OwnLine
    AttributedIsExact
    VerdictIsEarned
PROPERTIES
    PublishedIsAligned
    RemovalIsSafe
CHECK_DEADLOCK FALSE
