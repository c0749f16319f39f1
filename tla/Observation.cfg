CONSTANTS
    Rules <- MCRules
    Channels = {slack}
    Cooldown = 2
    Stoppers = {s1, s2}
    Objects = {o1, o2}
    SchemaFields <- MCSchemaFields
    CustomRules <- MCCustomRules
    Batches <- MCBatches
    MaxBatches = 2
    MaxAttempts = 2
    SamplingPercent = 100
    SmallBatch = 1
    ErrorThreshold = 10
    WindowSize = 2
    Weights <- MCWeights
    Caps <- MCCaps
    Memory = {1, 3}
    MaxMemory = 2
    Kept = 1
    Listed = 2
    Callers = {s1}
    MaxEvents = 2
    Workers = {w1}
    Operations = {"query"}
    Durations = {1, 11}
    Heaps <- MCHeaps
    Latencies <- MCLatencies
    Rates <- MCRates
    Steady = 1
    Growth <- MCGrowth
    Period = 1
    Samples = 2
    MaxCalls = 2
    Fields = {field}
    FieldStats <- MCFieldStats
    Kinds = {"string", "int"}
    NoMean = NoMean
    Threshold = 10
    Window = 3
    MinSampleSize = 2
    Medium = 20
    High = 50
    MaxTaken = 4
    MaxSecond = 3
    Executors = {x1, x2}
    PolicyNames = {"put", "query"}
    MaxTries = 2
    BackoffFunc = "exponential"
    BaseDelay = 20
    MaxDelay = 10
    Elapsed = {50}
    Significant = 2
    Breakers = {"s3"}
    MaxHooks = 2
    MaxRecords = 1
    MaxTime = 2
SPECIFICATION FairSpec
INVARIANTS
    ReportMatchesCommits
    ReportNeverFlatters
    MeasuresAgree
    DriftJudged
    MetricsAddUp
PROPERTIES
    MonitorStopReturns
    ConditionsAlert
    TrackedCallsReturn
CHECK_DEADLOCK FALSE
