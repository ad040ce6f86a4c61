SPECIFICATION Spec
CONSTANTS
    Reqs = {r1, r2}
    Count = 2
    MaxSecrets = 2
    MaxBatches = 2
    MaxAborts = 1
INVARIANTS TypeOK BackupCodeOnce ShownFactorsWork DeadCodesStayDead
CHECK_DEADLOCK FALSE
