SPECIFICATION BothSpec
CONSTANTS
    u1 = u1
    w1 = w1
    w2 = w2
    Users = {u1}
    Nobody = Nobody
    MaxPerUser = 2
    Ttl = 9
    Grace = 0
    SaveMayFail = FALSE
    Workers = {w1, w2}
    MaxLinks = 1
    MaxTime = 2
    MaxToken = 6
    MaxLost = 0
SYMMETRY Symmetry
PROPERTIES
    ResetEndsOtherSessions
