SPECIFICATION Spec
CONSTANTS
    p1 = p1
    p2 = p2
    t1 = t1
    t2 = t2
    c1 = c1
    c2 = c2
    Procs = {p1, p2}
    Threads = {t1, t2}
    ProcOf <- MCProcOf
    Commands = {c1, c2}
    BaseOf <- MCBaseOf
    Contested = {c1}
    Waking = {c1}
    Responses = {c2}
    Releases = 2
    MaxKills = 1
    None = None
INVARIANTS
    LeaseHeld
    ReadsCurrent
SYMMETRY MCSwap
PROPERTIES
    ExecutedAsPreviewed
    RetryAnswered
