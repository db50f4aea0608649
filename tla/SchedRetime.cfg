SPECIFICATION Spec
CONSTANTS
    Ceremonies <- None
    Marches <- None
    Companies <- None
    Arrivals <- Routes4
    Reviews <- Routes5
    Contacts <- None
    Every <- Recurrence
    Longest = 3
    ReconcileEvery = 5
    Window = 5
    MaxTime = 8
    BattleReports = FALSE
    RetimesRoutes = TRUE
    SupersedesRoutes = FALSE
INVARIANTS
    NothingOverdue
