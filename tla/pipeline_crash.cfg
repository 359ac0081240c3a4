CONSTANTS
    a1 = a1
    a2 = a2
    r1 = r1
    r2 = r2
    b1 = b1
    Attempts = {a1, a2}
    Owners = {a1, a2}
    Nobody = Nobody
    None = None
    Removals = {r1, r2}
    Batches = {b1}
    Members <- OneBatch
    Precedence <- FirstThenSecond
    Content = {"old"}
    LockTTL = 1
    MaxVersion = 2
    MaxRecords = 2
    MaxTime = 2
    Timely = TRUE
    Crashes = TRUE
    LateRequests = FALSE
    Drift = FALSE
    UniqueReferences = FALSE
SYMMETRY AttemptSymmetry
SPECIFICATION Spec
INVARIANTS
    TypeOK
    OneRecordPerReference
    JournaledIsRegistered
    SendersHoldTheirLock
    SubmittedOwnsItsProduction
    ReservationsBelongToDrafts
    MarkedKeepsProduction
    SendersHoldTheirProduction
PROPERTIES
    ClaimsArePermanent
