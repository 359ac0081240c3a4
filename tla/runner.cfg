CONSTANTS
    c1 = c1
    c2 = c2
    Calls = {c1, c2}
    Keys = {"k"}
    Fingerprints = {"f", "g"}
    Instances = {"i1", "i2"}
    MaxAttempts = 2
    Retention = 2
    CallBudget = 1
    MaxTime = 2
SPECIFICATION FairSpec
INVARIANTS
    TypeOK
    OncePerRetention
    InFlightIsExact
PROPERTIES
    AnswersAreTrue
    EveryCallEnds
