SPECIFICATION Spec
CONSTANTS
    B1 = B1
    B2 = B2
    r1 = r1
    r2 = r2
    Releases = 3
    Baselines = {B1, B2}
    BaselineOf <- MCBaselineOf
    StateOf <- MCStateOf
    StartRevision <- MCStartRevision
    Requests = {r1, r2}
    SourceBranch = source
    NoBranch = NoBranch
    None = None
    Budgets <- KillAndDeploy
SYMMETRY Symmetric
INVARIANTS
    CommittedStaysDeliverable
CHECK_DEADLOCK FALSE
