SPECIFICATION CommerceSpec
CONSTANTS
    None = None
    Requests = {r1, r2}
    Emails = {e1}
    MaxRefusals = 2
    MaxTurns = 6
    Users = {u1, u2}
    Plans = {p1, p2}
    PlanSlugs = {n1, n2, n3}
    Orders = {o1}
    KeySecretSet = TRUE
    MaxCalls = 4
    CatModules = {m1, m2}
    CatFeatures = {f1}
    CatActions = {a1, a2}
    Slugs = {s1}
    MaxReleases = 1
    MaxEdits = 1
INVARIANTS
    CommerceTypeOK
    RegistrationsDoNotMix
    RefusedSignInsAreOlder
    CopyMatchesRow
    SubscribersKeepTheirPlan
    PaidIsServed
    SyncedIsDefinition
PROPERTY SeedKeepsGrants
SYMMETRY Symmetry
CHECK_DEADLOCK FALSE
