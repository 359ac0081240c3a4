CONSTANTS
    a1 = a1
    a2 = a2
    d1 = d1
    d2 = d2
    r1 = r1
    r2 = r2
    b1 = b1
    Attempts = {a1}
    Deleters = {d1, d2}
    Owners = {a1, a2, d1, d2}
    Nobody = Nobody
    None = None
    Removals = {r1}
    Batches = {b1}
    Members <- Alone
    Precedence <- OnlyFirst
    Content = {"old"}
    LockTTL = 1
    MaxVersion = 1
    MaxRecords = 2
    MaxTime = 2
    Timely = TRUE
    Crashes = TRUE
    LateRequests = FALSE
    Drift = FALSE
    UniqueReferences = FALSE
    CleanupFails = TRUE
SYMMETRY ProcessSymmetry
SPECIFICATION DeletionSpec
INVARIANTS
    DeletionTypeOK
    DeletedLeavesNoEntry
    DeletedHoldsNothing
PROPERTIES
    NoDeleteUnderSender
    SubmittedOrDeleted
\* Once every Removal is deleted there is nothing left to do.
CHECK_DEADLOCK FALSE
