SPECIFICATION Spec
CONSTANTS
    u1 = u1
    u2 = u2
    camp = camp
    field = field
    Captors = {u1, u2}
    Strength <- MCStrength
    Garrison = 2
    Persons = {kuai}
    Places = {camp, field}
    Start = camp
    Room <- MCRoom
    Ratio = 2
    Surrenders = {s1}
    Battles = {b1}
    Cases = {k1}
    Kinds <- MCKinds
    Budgets <- MCBudgets
    None = None
INVARIANTS
    CaptivesConserved
    NamedCustodyExact
    HeldAreReviewed
PROPERTY CapacityShared
SYMMETRY MCSymmetry
