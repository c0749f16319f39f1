SPECIFICATION S3FairSpec
CONSTANTS
    c1 = c1
    c2 = c2
    Callers = {c1, c2}
    MaxFailures = 3
    MaxCount = 3
    UploadAttempts = 3
    DownloadAttempts = 2
INVARIANTS
    AckedUploadStored
PROPERTIES
    QuietPeriodKept
    RecoversOnceHealthy
    OperationsReturn
