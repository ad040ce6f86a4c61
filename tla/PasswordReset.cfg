SPECIFICATION Spec
CONSTANTS
    Users = {u1}
    Sids = {s1, s2}
    Temps = {t1}
    Resets = {k1}
    Reqs = {r1, r2}
    SessionTTL = 1
    AccessTTL = 0
    GraceTTL = 1
    TempTTL = 1
    ResetTTL = 1
    MaxTime = 0
    MaxPwd = 2
    MaxCrash = 1
SYMMETRY Symmetry
INVARIANTS TypeOK ResetEndsOldSessions
PROPERTIES ImplementsLedger
CHECK_DEADLOCK FALSE
