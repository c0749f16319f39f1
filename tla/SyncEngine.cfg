SPECIFICATION FairSpec
CONSTANTS
    Account = Account
    Contact = Contact
    Objects = {Account, Contact}
    None = None
    MaxChanges = 2
    MaxAttempts = 2
    Concurrencies = {1, 2}
    SkipFailedObjects = FALSE
INVARIANTS
    LostOnlyInWindow
PROPERTIES
    NilMeansSynced
    RunReturns
