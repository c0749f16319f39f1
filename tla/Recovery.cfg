SPECIFICATION FairSpec
CONSTANTS
    Account = Account
    Contact = Contact
    Objects = {Account, Contact}
    None = None
    MaxRetries = 2
    Threshold = 2
    MaxFailures = 3
    MaxLost = 1
INVARIANTS
    RetryBudget
PROPERTIES
    OpenBlocks
    CallsReturn
