------------------------------ MODULE Browser --------------------------------
(***************************************************************************)
(* The pages of the browser, one open at a time: `page' is the state of    *)
(* the one that is open, `srv' what lies beyond it (the server, the        *)
(* storage of the browser).  MCBrowser and MCBrowserLive give the pages    *)
(* their small instances; PagesProofs is about every one.                  *)
(***************************************************************************)
EXTENDS Integers, Sequences, FiniteSets

CONSTANTS
    None,
    MaxAsked,   \* bound, by page: requests under way at once
    MaxStamp,   \* bound, by page: requests of a backtester, alerts and edits made
    \* The lists of an account.
    Items,
    \* The value chain map.
    Companies, Home, MaxGen, MaxTrail, Fingers, Nodes, Links,
    \* The workspace.
    MaxRows, MaxPanes, MaxPanesPerRow, Groups, FirstGroup, PaneSymbols, DefaultSymbol,
    MinWeight, Desks, MaxContent,
    \* The dashboard and the watchlist.
    Symbols, HomeSymbol, PresetBoards, PresetSymbols, HomePresets, Unpriced, MaxSections, MaxSymbols,
    \* The notes.
    Tickers, MaxText, MaxLoads, MaxSaves,
    \* The hooks.
    Keys, Statuses, ShowDelay, MinDwell, MaxNow,
    \* The terminal.
    OnScreen, Bare, Functions, Periods, Texts, MaxStack, MaxRecent,
    \* The research pages, whose tickers and periods are those of notes and terminal.
    Spots, DefaultSpot, Structures, FirstStructure, Rules, Expiries, Screens, Names,
    \* The alerts.
    AlertKinds, AlertTickers, NoTicker, Values,
    \* The portfolio.
    Ids, FirstId, Files, Benchmarks, FirstBenchmark, Books

\* What the proofs (PagesProofs) use of the constants.  None stands for null or
\* undefined and is a value of nothing else.  A list of an account is asked for
\* when it is opened, so there is room for a request.
ASSUME ListAssumption == MaxAsked["lists"] \in Nat \ {0}
ASSUME HookAssumption == None \notin Keys
ASSUME BoardAssumption == \A list \in SUBSET Symbols : list # None
\* The rail has functions, and the way back holds at least one ticker (25).
RailSet == {Functions[i] : i \in DOMAIN Functions}
Addresses == [t : OnScreen, fn : RailSet \cup {None}]
ASSUME TerminalAssumption ==
    /\ Functions \in Seq(RailSet) /\ Functions # <<>> /\ MaxStack \in Nat \ {0}
    /\ \A address \in Addresses : address # None
\* A draft is compared with the price, and a structure is laid out around one.
ASSUME ValueAssumption == Values \subseteq Int
ASSUME SpotAssumption == Spots \subseteq Nat \ {0} /\ DefaultSpot \in Nat \ {0}
ASSUME ResearchAssumption ==
    /\ Expiries \subseteq Nat /\ None \notin Expiries
    /\ \A bars \in [of : Tickers \X Periods, enough : BOOLEAN] : bars # None
    /\ \A feed \in [op : {"feed"}, ticker : Tickers, strict : BOOLEAN] : feed # None
ASSUME MapAssumption == Home \in Companies /\ None \notin Nat /\ MaxGen \in Nat /\ None \notin Fingers
ASSUME FolioAssumption == FirstId \in Ids /\ \A wanted \in [pid : Ids \cup {None}] : wanted # None

VARIABLES page, srv

SignIn == INSTANCE SignInPages
Lists == INSTANCE AccountLists WITH MaxAsked <- MaxAsked["lists"]
Map == INSTANCE ValueChainPage WITH MaxAsked <- MaxAsked["map"]
Desk == INSTANCE WorkspacePage WITH Symbols <- PaneSymbols
Board == INSTANCE BoardPages WITH Presets <- PresetBoards, MaxAsked <- MaxAsked["board"]
Note == INSTANCE NotesPage
Hook == INSTANCE DataHooks WITH MaxAsked <- MaxAsked["hook"]
Terminal == INSTANCE TerminalPage WITH Tickers <- OnScreen, MaxAsked <- MaxAsked["terminal"]
Research == INSTANCE ResearchPages WITH MaxAsked <- MaxAsked["research"], MaxStamp <- MaxStamp["research"]
Alert == INSTANCE AlertPages WITH
    Kinds <- AlertKinds, Tickers <- AlertTickers, Blank <- NoTicker, MaxAsked <- MaxAsked["alert"], MaxStamp <- MaxStamp["alert"]
Folio == INSTANCE PortfolioPage WITH MaxAsked <- MaxAsked["folio"]

OpenIn(names) == page.name \in names
MapPages == {"map", "detail", "search", "canvas", "pulse"}
DeskPages == {"desk", "grid", "saving"}
BoardPages == {"board", "watch"}
NotePages == {"notes"}
TerminalPages == {"terminal", "header", "entry", "palette"}
ResearchNames == {"builder", "chain", "tester", "news", "screens"}
AlertNames == {"draft", "delivery", "setup"}
FolioNames == {"book", "stress"}
HookPages == {"panel", "snapshot", "poll", "badge", "ticks"}
SignInNames == {"login", "link"}
ListNames == {"passkeys", "sessions", "tokens", "admin"}

PagesInit ==
    \/ SignIn!Init \/ Lists!Init
    \/ Map!Init \/ Desk!Init \/ Board!Init \/ Note!Init \/ Hook!Init \/ Terminal!Init \/ Research!Init
    \/ Alert!Init \/ Folio!Init
PagesNext ==
    \/ OpenIn(SignInNames) /\ SignIn!Next
    \/ OpenIn(ListNames) /\ Lists!Next
    \/ OpenIn(MapPages) /\ Map!Next
    \/ OpenIn(DeskPages) /\ Desk!Next
    \/ OpenIn(BoardPages) /\ Board!Next
    \/ OpenIn(NotePages) /\ Note!Next
    \/ OpenIn(HookPages) /\ Hook!Next
    \/ OpenIn(TerminalPages) /\ Terminal!Next
    \/ OpenIn(ResearchNames) /\ Research!Next
    \/ OpenIn(AlertNames) /\ Alert!Next
    \/ OpenIn(FolioNames) /\ Folio!Next
PagesSpec == PagesInit /\ [][PagesNext]_<<page, srv>>

-----------------------------------------------------------------------------
\* A mailed link is not spent in vain, a passkey that fails with a message leaves
\* the password form on the screen (a cancelled prompt need not, see
\* SignInPages), and nobody is told that a device is signed out while it is not.
AccountsHold ==
    /\ OpenIn(SignInNames) => SignIn!TypeOK /\ SignIn!NeverALockedDoor
    /\ OpenIn({"link"}) => SignIn!NeverWasted
    /\ OpenIn(ListNames) => Lists!TypeOK /\ Lists!GoneMeansEnded

\* Of what is on a screen, this belongs to what the screen is open for: a map that
\* is neither pinned nor a snapshot to its company, the listing and the price in the
\* panel of a counterparty to it, a note to its ticker, a list to the server, the data of a panel
\* that loads once to its key, the chart of the terminal to its ticker and period,
\* a backtest to what was asked for last, a latched structure to the one that was
\* chosen, the value an alert is checked against to its ticker and a message to
\* what the server knows, a history to its portfolio and a stress test to its
\* benchmark and book; the address and the way back lead to what is on the screen;
\* and a panel that waits for nothing is not blank.
\*
\* Not covered, because the code takes the answer whatever is open by then: the
\* snapshot in the header of the terminal (TerminalPage!SnapOfTicker), what is
\* polled (PollOfKey), the feed and the tone of the news (ToneOfTicker), the chain
\* of an expiry, the scenario, watch and report of a counterparty, the liquidity
\* and the path that are searched by hand, and a note that the shortcut saved
\* before it was on the screen (NotesPage!SavesWhatIsShown).
ShownIsCurrent ==
    /\ OpenIn(MapPages) => Map!MapOfCurrent /\ Map!DetailOfNode
    /\ OpenIn(BoardPages) => Board!ListIsCurrent
    /\ OpenIn(NotePages) => Note!NoteOfTicker
    /\ OpenIn(HookPages) => Hook!PanelOfKey /\ Hook!FramesFollow
    /\ OpenIn(TerminalPages) => Terminal!HistoryTracks /\ Terminal!AddressAgrees /\ Terminal!ChartOfPeriod
                               /\ Terminal!MarkIsListed
    /\ OpenIn(ResearchNames) => Research!LatchedIsChosen /\ Research!TestedIsShown /\ Research!NothingLeftBlank
    /\ OpenIn(AlertNames) => Alert!CheckedAgainstItsOwn /\ Alert!DistanceLeadsThere /\ Alert!EnabledIsSubscribed
    /\ OpenIn(FolioNames) => Folio!HistoryOfChosen /\ Folio!ChosenIsRemembered /\ Folio!StressOfBook

\* However the reader arranges them, the desk, the dashboard and the drawing
\* stay within their limits and can be arranged further.
ArrangementsHold ==
    /\ OpenIn(DeskPages) => Desk!DeskSurvives
    /\ OpenIn(BoardPages) => Board!BoardHolds
    /\ OpenIn(MapPages) => Map!AnchoredPan /\ Map!PulseEnds

\* What a step of the reader, or an answer, may never do to what is there.
StepsKeep ==
    /\ Map!DragNeverPicks
    /\ Desk!DragKeepsTheRow /\ Desk!LinkKeepsTheSymbol /\ Desk!UnsavedUntilStored
    /\ Note!DraftOutlivesFailure
    /\ Hook!BadgeIsSteady

\* The statements of the documentation that the code does not keep.
UnsavedHasDraft == OpenIn(NotePages) => Note!UnsavedHasDraft
PollOfKey == Hook!PollOfKey
NewStructureLaidOut == Research!NewStructureLaidOut
NoSourceStaysNull == OpenIn(AlertNames) => Alert!NoSourceStaysNull
FallsBackWhenGone == Folio!FallsBackWhenGone
=============================================================================
