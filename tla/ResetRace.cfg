SPECIFICATION Spec
CONSTANTS
    Users = {u1}
    Sids = {s1, s2}
    Temps = {t1}
    Resets = {k1}
    Reqs = {r1, r2}
    SessionTTL = 1
    AccessTTL = 1
    GraceTTL = 1
    TempTTL = 1
    ResetTTL = 1
    MaxTime = 1
    MaxPwd = 1
    MaxCrash = 0
SYMMETRY Symmetry
INVARIANTS ResetRevokesAll
CHECK_DEADLOCK FALSE
