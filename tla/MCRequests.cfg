SPECIFICATION BoundedSpec
CONSTANTS
    u1 = u1
    u2 = u2
    w1 = w1
    w2 = w2
    x1 = x1
    x2 = x2
    d1 = d1
    None = None
    Users = {u1, u2}
    Workers = {w1, w2}
    Alerts = {x1, x2}
    Devices = {d1}
    MaxAlerts = 1
    MaxEvents = 1
    MaxDevices = 1
    MaxDelivered = 1
    MaxChanges = 1
    Requests = {w1, w2}
    Limit = 2
    KeepDays = 1
    LastDay = 3
    Buckets = {"a", "b", "c"}
    MaxHits = 2
    Window = 2
    MaxKeys = 1
    LastTime = 5
    v1 = v1
    v2 = v2
    v3 = v3
    Values = {v1, v2, v3}
    Absent = Absent
    Torn = Torn
    Default = Default
    NoAnswer = NoAnswer
    Damage = TRUE
SYMMETRY Symmetry
INVARIANTS
    LimitHolds
    MeterHolds
    FeedMatches
    WithinPlan
    DeletedStaysDeleted
    FileHolds
PROPERTIES
    IsSafeFile
