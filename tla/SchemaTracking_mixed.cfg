SPECIFICATION Spec
CONSTANTS
    Evolution <- Account
    None = None
    MaxCommits = 4
    LoadMayFail = FALSE
    MayStop = TRUE
INVARIANTS
    BreakingChangesResync
