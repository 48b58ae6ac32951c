SPECIFICATION FairSpec
CONSTANTS
    Request = {r1, r2}
    OtpTTL = 3
    ResendCooldown = 2
    MaxAttempts = 2
    MaxCodes = 3
    CountBound = 3
INVARIANTS
    UsedStaysUsed
    CounterKept
PROPERTY CounterExpires
