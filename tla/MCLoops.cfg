SPECIFICATION FairLoops
CONSTANTS
    s1 = s1
    s2 = s2
    Symbols = {s1, s2}
    Priced = {s1}
    Cadences = {3, 5}
    MaxBatch = 1
    KeepMax = 1
    BackoffAfter = 1
    MaxBackoff = 8
    MaxPoll = 4
    MissCap = 3
    w1 = w1
    p1 = p1
    Workers = {w1}
    Pool = {p1}
    Prewarmer = Prewarmer
    MaxVersion = 2
    MaxGone = 1
    LastCommit = 3
    Broken = {2}
INVARIANTS
    ScheduleHolds
    SingleFlight
    AnswersAsCheckedOut
PROPERTIES
    WorkGoesOn
