SPECIFICATION BothSpec
CONSTANTS
    u1 = u1
    u2 = u2
    w1 = w1
    w2 = w2
    Users = {u1, u2}
    Nobody = Nobody
    Workers = {w1, w2}
    MaxPerUser = 2
    Ttl = 2
    Grace = 1
    SaveMayFail = TRUE
    MaxLinks = 1
    MaxTime = 3
    MaxToken = 4
    MaxLost = 1
SYMMETRY Symmetry
INVARIANTS
    FlowTypeOK
    TokenNamesOneRow
    GraceHonoured
    SessionBound
    EndedStaysEnded
    GrantedWasActive
    OnePasswordPerLink
PROPERTIES
    CreatedIsLive
    ChainNeverForks
    UseNeverProlongs
