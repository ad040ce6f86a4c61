SPECIFICATION Spec
CONSTANTS
    Reqs = {r1, r2}
    MaxResends = 2
    MaxCodes = 6
    MaxPwdCodes = 2
    MaxFails = 2
INVARIANTS TypeOK UsesBounded ResendLimitSerial EmailSignInOnce
CHECK_DEADLOCK FALSE
