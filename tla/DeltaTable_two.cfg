SPECIFICATION FairSpec
CONSTANTS
    w1 = w1
    w2 = w2
    Writers = {w1, w2}
    f1 = f1
    f2 = f2
    Files = {f1, f2}
    NoEntry = NoEntry
    MaxVersion = 3
    MaxAttempts = 3
    CheckpointInterval = 2
INVARIANTS
    CreateTableKept
PROPERTIES
    SyncReturns
