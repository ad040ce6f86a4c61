SPECIFICATION Spec
CONSTANTS
    Reqs = {r1, r2}
    MaxResends = 2
    MaxCodes = 6
    MaxPwdCodes = 0
    MaxFails = 0
INVARIANTS ResendLimit
CHECK_DEADLOCK FALSE
