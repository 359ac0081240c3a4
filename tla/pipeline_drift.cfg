CONSTANTS
    a1 = a1
    a2 = a2
    r1 = r1
    r2 = r2
    b1 = b1
    Attempts = {a1, a2}
    Owners = {a1, a2}
    Nobody = Nobody
    None = None
    Removals = {r1}
    Batches = {b1}
    Members <- Alone
    Precedence <- OnlyFirst
    Content = {"old", "new"}
    LockTTL = 1
    MaxVersion = 3
    MaxRecords = 2
    MaxTime = 2
    Timely = TRUE
    Crashes = FALSE
    LateRequests = FALSE
    Drift = TRUE
    UniqueReferences = FALSE
SYMMETRY AttemptSymmetry
SPECIFICATION Spec
INVARIANTS
    ActiveVersionsSeparated
    RetirementIsDefinitive
