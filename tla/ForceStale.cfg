SPECIFICATION Spec
CONSTANTS
    inf = inf
    cav = cav
    Roles = {inf, cav}
    Line = inf
    Places = {home, away}
    Home = home
    Formations = {f, g}
    Standing = f
    Target = 2
    People = {p}
    Slots = {1, 2, 3}
    Civilians = 1
    Reserve <- MCReserve
    Authorized = 4
    MaxOrders = 1
    MaxDead = 0
    None = None
INVARIANTS
    ExactAgreement
CHECK_DEADLOCK FALSE
