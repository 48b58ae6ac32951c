SPECIFICATION Spec
CONSTANTS
    Request = {r1, r2}
    Email = {e1, e2}
    OtpTTL = 3
    ResendCooldown = 1
    MaxAttempts = 1
    CookieAge = 3
    PageLife = 3
    PageCooldown = 2
    None = none
    MaxCodes = 2
INVARIANT ResendIsServed
