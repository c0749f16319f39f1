SPECIFICATION Spec
CONSTANTS
    w1 = w1
    Writers = {w1}
    f1 = f1
    f2 = f2
    f3 = f3
    f4 = f4
    f5 = f5
    Files = {f1, f2, f3, f4, f5}
    NoEntry = NoEntry
    MaxVersion = 7
    MaxAttempts = 3
    CheckpointInterval = 2
SYMMETRY Symmetry
INVARIANTS
    CopiesAreExact
    MarkerSound
PROPERTIES
    ImplementsAppendOnlyLog
