SPECIFICATION Spec
CONSTANTS
    Files = {f1, f2}
    Paths = {a, b}
    MaxSlashes = 2
    Reqs = {r1, r2}
    MaxCalls = 5
    MaxFails = 2
SYMMETRY Symmetry
INVARIANTS TypeOK StoresAgree NothingDestroyed ContentNeverMixed
CHECK_DEADLOCK FALSE
