SPECIFICATION Spec
CONSTANTS
    Files = {f1}
    Paths = {a, b}
    MaxSlashes = 1
    Reqs = {r1}
    MaxCalls = 3
    MaxFails = 0
INVARIANTS RowLeadsToObject
CHECK_DEADLOCK FALSE
