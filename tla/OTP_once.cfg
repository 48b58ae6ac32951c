SPECIFICATION Spec
CONSTANTS
    Request = {r1, r2}
    OtpTTL = 3
    ResendCooldown = 2
    MaxAttempts = 2
    MaxCodes = 2
    CountBound = 3
PROPERTY OneTimeUse
