SPECIFICATION Spec
CONSTANTS
    p1 = p1
    p2 = p2
    c1 = c1
    c2 = c2
    c3 = c3
    r1 = r1
    r2 = r2
    a = a
    b = b
    Procs = {p1, p2}
    Commands = {c1, c2, c3}
    Requests = {r1, r2}
    Owners = {a, b}
    MetaPath = meta
    RequestOf <- MCRequestOf
    BaseOf <- MCBaseOf
    WritesOf <- MCWritesOf
    StartRevision = 1
    RemoteRequired = TRUE
    Genesis = Genesis
    Alien = Alien
    Neutral = Neutral
    Foreign = Foreign
    ReadOnly = ReadOnly
    Recover = Recover
    None = None
    Leftovers = {"image", "torn"}
    Budgets <- AllHazards
SYMMETRY Symmetric
INVARIANTS
    TypeOK
    MutualExclusion
    AckedIsDurable
    ReceiptIsDurable
    UndeliveredIsPending
    ReadersSeeDurable
    MetaBehindOwners
    NoRollbackAfterCommit
    ArchivedIsTrue
    RetryAccepted
PROPERTIES
    AlienPreserved
    Ledger
