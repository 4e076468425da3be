SPECIFICATION FileSpec
CONSTANTS
    v1 = v1
    v2 = v2
    v3 = v3
    Values = {v1, v2, v3}
    Absent = Absent
    Torn = Torn
    Default = Default
    NoAnswer = NoAnswer
    Damage = TRUE
PROPERTIES
    RecoveryLasts
