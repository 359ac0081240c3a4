CONSTANTS
    p1 = p1
    p2 = p2
    Confirmers = {p1}
    c1 = c1
    c2 = c2
    Contents = {c1, c2}
    Acceptable = {c1}
    Staging = Staging
    NoContent = NoContent
    Lease = 1
    Grace = 1
    MaxLifetime = 2
    Deadline = 2
    Reserve = 1
    CandidateLimit = 2
    Owners = {"open", "archived", "locked"}
SPECIFICATION FairSpec
PROPERTIES
    EvidenceIsKept
    EverythingIsCollected
