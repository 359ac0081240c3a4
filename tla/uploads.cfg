CONSTANTS
    p1 = p1
    p2 = p2
    Confirmers = {p1, p2}
    c1 = c1
    c2 = c2
    Contents = {c1, c2}
    Acceptable = {c1, c2}
    Staging = Staging
    NoContent = NoContent
    Lease = 1
    Grace = 0
    MaxLifetime = 2
    Deadline = 1
    Reserve = 0
    CandidateLimit = 2
    Owners = {"open", "archived"}
SPECIFICATION Spec
SYMMETRY UploadSymmetry
INVARIANTS
    TypeOK
    ObjectsAreOwned
    DeletedStaysDeleted
PROPERTIES
    EvidenceIsKept
