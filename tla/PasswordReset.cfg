SPECIFICATION FairSpec
CONSTANTS
    Request = {r1, r2}
    Email = {e1}
    OtpTTL = 3
    ResendCooldown = 1
    MaxAttempts = 1
    CookieAge = 3
    PageLife = 2
    PageCooldown = 2
    None = none
    MaxCodes = 2
INVARIANTS
    TypeOK
    LiveCodeCanBeEntered
    BusyIsAsking
PROPERTY ResendOfferedAgain
