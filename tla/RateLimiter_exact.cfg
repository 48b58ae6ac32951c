SPECIFICATION Spec
CONSTANTS
    Request = {r1, r2}
    Cost = {1, 2}
    Capacity = 3
    MaxDelay = 0
    MaxClock = 10
    MaxCredit = 13
    MaxRewound = 0
PROPERTY ImplementsTokenBucket
