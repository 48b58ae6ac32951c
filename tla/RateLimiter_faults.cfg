SPECIFICATION FaultySpec
CONSTANTS
    Request = {r1, r2}
    Cost = {1, 2}
    Capacity = 2
    MaxDelay = 2
    MaxClock = 7
    MaxCredit = 7
    MaxRewound = 2
SYMMETRY Symmetry
INVARIANTS
    TypeOK
    GrantsBounded
PROPERTY DenialsJustified
