SPECIFICATION Spec
CONSTANTS
    None = None
    MaxAsked <- Bounds
    MaxStamp <- Stamps
    Items = {}
    Companies = {"A", "B"}
    Home = "A"
    MaxGen = 2
    MaxTrail = 1
    Fingers = {1, 2, 3}
    Nodes = {"m", "n"}
    Links = {"x", "y"}
    MaxRows = 2
    MaxPanes = 2
    MaxPanesPerRow = 3
    Groups = {"A", "B"}
    FirstGroup = "A"
    PaneSymbols = {"X"}
    DefaultSymbol = "D"
    MinWeight = 15
    Desks = {"d", "e"}
    MaxContent = 2
    Symbols = {"n", "u"}
    HomeSymbol = "n"
    PresetBoards = {"us"}
    PresetSymbols <- SymbolsOfPreset
    HomePresets <- PresetsOfHome
    Unpriced = {"u"}
    MaxSections = 3
    MaxSymbols = 2
    ta = ta
    tb = tb
    Tickers = {ta, tb}
    MaxText = 2
    MaxLoads = 2
    MaxSaves = 1
    Keys = {"A", "B"}
    Statuses = {"live", "reconnecting"}
    ShowDelay <- Delays
    MinDwell = 2
    MaxNow = 9
    OnScreen = {"b", "x", "y"}
    Bare = {"b"}
    Functions <- Rail
    Periods = {"1D", "1Y"}
    Texts = {"", "k", "m"}
    MaxStack = 3
    MaxRecent = 1
    Spots = {100, 105, 120}
    DefaultSpot = 100
    Structures = {"a", "b"}
    FirstStructure = "a"
    Rules = {"r", "s"}
    Expiries = {1, 2}
    Screens = {0, 1}
    Names = {"n", "m"}
    AlertKinds = {"price", "volume_spike", "spread_10y2y"}
    AlertTickers = {"T"}
    NoTicker = ""
    Values = {10, 30}
    Ids = {"a", "b"}
    FirstId = "a"
    Files = {}
    Benchmarks = {"n", "s"}
    FirstBenchmark = "n"
    Books = {{}, {"x"}, {"x", "y"}}
INVARIANTS
    ShownIsCurrent
    ArrangementsHold
    
    BookHolds
    
PROPERTIES StepsKeep
SYMMETRY Interchangeable
CHECK_DEADLOCK FALSE
