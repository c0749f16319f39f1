SPECIFICATION UpkeepFairSpec
CONSTANTS
    salesforce = salesforce
    hubspot = hubspot
    Names = {salesforce, hubspot}
    MaxEntries = 3
    MaxRuns = 2
    Commits <- MCCommits
    SizeOf <- MCSizeOf
    UnitsPerMB = 2
    Stored = {"a"}
    Frequency = 2
    SizeThreshold = 2
    ManyVersions = 9
    MaxCheckpoints = 1
    Attempts = 2
    MaxVersion = 4
    MaxRequests = 1
    Tables = {"account", "contact"}
    Relationships <- MCRelationships
    Windows <- MCWindows
    MaxStaleness = 1
    DriftLimits <- MCDriftLimits
    BoundaryLimit = 2
    MaxAge = 5
    Synced = {"account", "contact"}
    MaxRelease = 2
INVARIANTS
    NoRunAfterStop
    BacklogBounded
    CheckpointsRecover
PROPERTIES
    StopTerminates
    StalenessReported
    StateSurvivesReleases
CHECK_DEADLOCK FALSE
