SPECIFICATION Spec
CONSTANTS
    Ceremonies <- Routes1
    Marches <- Routes2
    Companies <- Routes3
    Arrivals <- None
    Reviews <- Routes5
    Contacts <- Routes6
    Every <- Recurrence
    Longest = 1
    ReconcileEvery = 2
    Window = 2
    MaxTime = 3
    BattleReports = TRUE
    RetimesRoutes = FALSE
    SupersedesRoutes = FALSE
INVARIANTS
    TypeOK
    NothingOverdue
    HeapCovers
    PositionsExact
    WakeHoldsRoute
    OwedWithinCadence
PROPERTIES
    ClockSpec
