SPECIFICATION BothSpec
CONSTANTS
    c1 = c1
    c2 = c2
    s1 = s1
    s2 = s2
    Null = Null
    Conns <- MCConns
    Symbols = {s1, s2}
    Fields <- MCFields
    Ticks <- MCTicks
    Tier <- AllRealtime
    Source = "public"
    Mirror = "up"
    QueueMax = 1
    MaxSymbols = 2
    Delay = 2
    Margin = 1
    MaxHistory = 3
    LastTime = 4
    Lags = {0}
INVARIANTS
    LicensedNeverEarly
