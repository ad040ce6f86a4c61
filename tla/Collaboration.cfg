SPECIFICATION CollaborationSpec
CONSTANTS
    None = None
    Requests = {r1, r2}
    Sockets = {s1, s2, s3}
    ChatUsers = {u1, u2}
    Members = {u1, u2}
    Messages = {m1}
    Calls = {k1, k2, k3}
    Firms = {f1, f2, f3}
    SamePrefix = {f1, f2}
    Lawyers = {l1}
    MaxRows = 4
    PageSize = 2
INVARIANTS
    CollaborationTypeOK
    TrailIsTrue
    OnlineIsConnected
    ViewsAgree
    InStepSeesAll
    OnlyCrossedLinger
    ReadersAreKept
    ListedOnce
    NumberedInOrder
    RefusedHadRival
    
SYMMETRY Symmetry
CHECK_DEADLOCK FALSE
