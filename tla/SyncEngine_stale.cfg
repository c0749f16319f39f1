SPECIFICATION Spec
CONSTANTS
    Account = Account
    Contact = Contact
    Objects = {Account, Contact}
    None = None
    MaxChanges = 1
    MaxAttempts = 1
    Concurrencies = {2}
    SkipFailedObjects = FALSE
SYMMETRY Symmetry
PROPERTIES
    OnlyThisRunsFailures
