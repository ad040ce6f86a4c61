SPECIFICATION Spec
CONSTANTS
    Users = {u1}
    Sids = {s1}
    Temps = {}
    Resets = {}
    Reqs = {r1, r2}
    SessionTTL = 2
    AccessTTL = 1
    GraceTTL = 1
    TempTTL = 1
    ResetTTL = 1
    MaxTime = 4
    MaxPwd = 0
    MaxCrash = 1
SYMMETRY Symmetry
INVARIANTS SessionLifetimeBounded CurrentTokenWasSent
CHECK_DEADLOCK FALSE
