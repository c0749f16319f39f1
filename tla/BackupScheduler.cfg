SPECIFICATION FairSpec
CONSTANTS
    b1 = b1
    Ids = {b1}
    j1 = j1
    op = op
    Callers = {j1, op}
    Jobs = {j1}
    c1 = c1
    Deleters = {c1}
    Cleaners = {c1}
    f1 = f1
    Files = {f1}
    MaxEntries = 1
    None = None
INVARIANTS
    CompletedIsWhole
    ValidatorsAgree
PROPERTIES
    ScheduledJobsEnd
