SPECIFICATION FairLiveSpec
CONSTANTS
    t1 = t1
    Tabs = {t1}
    MayLose = FALSE
    None = None
    MaxAsked <- Bounds
    MaxStamp <- Stamps
    Items = {1, 2}
    Companies = {"A", "B"}
    Home = "A"
    MaxGen = 1
    MaxTrail = 1
    Fingers = {}
    Nodes = {}
    Links = {}
    MaxRows = 1
    MaxPanes = 1
    MaxPanesPerRow = 1
    Groups = {"A"}
    FirstGroup = "A"
    PaneSymbols = {"X"}
    DefaultSymbol = "D"
    MinWeight = 15
    Desks = {"d"}
    MaxContent = 2
    Symbols = {}
    HomeSymbol = "n"
    PresetBoards = {}
    PresetSymbols <- NoPresets
    HomePresets <- NoPresets
    Unpriced = {}
    MaxSections = 0
    MaxSymbols = 0
    Tickers = {"A"}
    MaxText = 0
    MaxLoads = 0
    MaxSaves = 0
    Keys = {"A", "B"}
    Statuses = {"live", "reconnecting"}
    ShowDelay <- Delays
    MinDwell = 2
    MaxNow = 7
    OnScreen = {"x"}
    Bare = {}
    Functions <- Rail
    Periods = {"1Y"}
    Texts = {"", "k"}
    MaxStack = 1
    MaxRecent = 1
    Spots = {100}
    DefaultSpot = 100
    Structures = {"a"}
    FirstStructure = "a"
    Rules = {"r"}
    Expiries = {1, 2}
    Screens = {0}
    Names = {"n"}
    AlertKinds = {"pe", "spread_10y2y"}
    AlertTickers = {"T"}
    NoTicker = ""
    Values = {10}
    Ids = {"a"}
    FirstId = "a"
    Files = {0, 1}
    Benchmarks = {"n", "s"}
    FirstBenchmark = "n"
    Books = {{}, {"x"}}
INVARIANTS SessionHolds AccountsHold
PROPERTIES NothingStaysBusy Recovers
CHECK_DEADLOCK FALSE
