SPECIFICATION Spec
CONSTANTS
    Reqs = {r1, r2, r3}
    MaxAttempts = 3
    LockDuration = 2
    MaxAborts = 1
INVARIANTS TypeOK LockStopsNewLogins GuessesBounded
PROPERTIES LockAlwaysEnds
