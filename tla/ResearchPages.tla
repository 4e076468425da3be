--------------------------- MODULE ResearchPages ----------------------------
(***************************************************************************)
(* Pages that ask for something and let it be worked with: the builder of  *)
(* option structures (OptionBuilder.tsx), the option chain                 *)
(* (OptionsChain.tsx), the backtester (Backtester.tsx), the news of one    *)
(* ticker (News.tsx on app/news/page.tsx) and the screens                  *)
(* (app/screeners/page.tsx, ScreenBuilder.tsx).                            *)
(*                                                                         *)
(* What is computed from an answer is in OptionsData, BacktestData and     *)
(* ListsData.  `page.asked' are the requests under way; answers come in    *)
(* any order.  srv is the list of saved screens on the server.             *)
(***************************************************************************)
EXTENDS Integers, FiniteSets

CONSTANTS
    Spots,          \* prices; DefaultSpot is the one before any is known
    DefaultSpot,
    Structures,     \* preset structures; FirstStructure is the one on entry
    FirstStructure,
    Tickers, Periods, Rules,
    Expiries,       \* listed expiries, numbers: the nearest is chosen
    Screens,        \* the built-in screens, numbers; 0 is run on entry
    Names,          \* names of saved screens
    MaxAsked,       \* bound: requests under way at once
    MaxStamp,       \* bound: requests of a backtester, saves
    None

VARIABLES page, srv

vars == <<page, srv>>

Open(name) == page.name = name
To(p) == page' = p /\ UNCHANGED srv
Room == Cardinality(page.asked) < MaxAsked
Answered(q) == [page EXCEPT !.asked = @ \ {q}]

-----------------------------------------------------------------------------
(* The builder.  Its legs are known by the structure and the price they    *)
(* were laid out for, by how many they are and whether a hand was in them. *)

Structure(s, spot) == [of |-> s, at |-> spot, edited |-> FALSE, count |-> 2]
LaidOut(p) == [p EXCEPT !.legs = Structure(p.preset, p.spot), !.anchor = p.spot]
Near(spot, anchor) == 10 * (IF spot > anchor THEN spot - anchor ELSE anchor - spot) < anchor
\* The effect on the structure and the spot; the one on the structure comes after it.
Unlatched(p) == [p EXCEPT !.anchor = None]
Relaid(p) == IF p.anchor # None /\ Near(p.spot, p.anchor) THEN p ELSE LaidOut(p)
SetSpot(p, v) == IF v = p.spot THEN p ELSE Relaid([p EXCEPT !.spot = v])

\* `prop' is the price of the screen around it, None in a pane; `history' says
\* that the one request that still counts is under way.
BuilderPage(prop, spot) ==
    Unlatched(LaidOut([name |-> "builder", prop |-> prop, spot |-> spot, preset |-> FirstStructure, legs |-> None,
                       anchor |-> None, vol |-> "default", seeded |-> FALSE, history |-> TRUE]))

SpotTicks(v) ==
    /\ Open("builder") /\ page.prop \notin {None, v}
    /\ To(SetSpot([page EXCEPT !.prop = v, !.history = TRUE], v))
HistoryArrives(close) ==
    /\ Open("builder") /\ page.history
    /\ LET seeded == [page EXCEPT !.history = FALSE, !.vol = "seeded", !.seeded = TRUE] IN
       To(IF page.prop = None THEN SetSpot(seeded, close) ELSE seeded)
HistoryIsOfNoUse == Open("builder") /\ page.history /\ To([page EXCEPT !.history = FALSE])
PickStructure(s) ==
    /\ Open("builder") /\ s # page.preset
    /\ To(Unlatched(Relaid([page EXCEPT !.preset = s])))
TypeSpot(v) == Open("builder") /\ v # page.spot /\ To(SetSpot(page, v))
TypeVol == Open("builder") /\ To([page EXCEPT !.vol = "typed"])
EditLegs ==
    /\ Open("builder")
    /\ \E n \in 0..2 : /\ n \in {page.legs.count - 1, page.legs.count, page.legs.count + 1}
                       /\ n = page.legs.count => n > 0
                       /\ To([page EXCEPT !.legs.count = n, !.legs.edited = TRUE])

BuilderNext ==
    \/ \E v \in Spots : SpotTicks(v) \/ TypeSpot(v) \/ HistoryArrives(v)
    \/ HistoryIsOfNoUse \/ TypeVol \/ EditLegs
    \/ \E s \in Structures : PickStructure(s)

-----------------------------------------------------------------------------
(* The chain of one ticker, an expiry at a time.                           *)

ChainAsk(p, e) == [p EXCEPT !.expiry = e, !.busy = TRUE, !.error = FALSE, !.asked = @ \cup {[op |-> "chain", expiry |-> e]}]
OptionChainPage ==
    [name |-> "chain", expiries |-> {}, listed |-> FALSE, expiry |-> None, data |-> None, busy |-> FALSE, error |-> FALSE,
     asked |-> {[op |-> "expiries", expiry |-> None]}]
ExpiriesAnswer(q) ==
    /\ Open("chain") /\ q \in page.asked /\ q.op = "expiries"
    /\ \/ \E es \in SUBSET Expiries :
             LET p == [Answered(q) EXCEPT !.expiries = es, !.listed = TRUE] IN
             To(IF es = {} THEN p ELSE ChainAsk(p, CHOOSE e \in es : \A f \in es : e <= f))
       \/ To([Answered(q) EXCEPT !.error = TRUE, !.listed = TRUE])
PickExpiry(e) == Open("chain") /\ e \in page.expiries /\ e # page.expiry /\ Room /\ To(ChainAsk(page, e))
ChainAnswers(q) ==
    /\ Open("chain") /\ q \in page.asked /\ q.op = "chain"
    /\ \/ To([Answered(q) EXCEPT !.data = q.expiry, !.busy = FALSE])
       \/ To([Answered(q) EXCEPT !.error = TRUE, !.busy = FALSE])
OptionChainView ==
    [message |-> page.error /\ page.expiries = {}, none |-> page.listed /\ ~page.error /\ page.expiries = {},
     figures |-> page.data # None /\ ~page.busy]
OptionChainNext ==
    \/ Open("chain") /\ \E q \in page.asked : ExpiriesAnswer(q) \/ ChainAnswers(q)
    \/ \E e \in Expiries : PickExpiry(e)

-----------------------------------------------------------------------------
(* The backtester: the latest request wins.                                *)

Test(p, ticker, period) ==
    [p EXCEPT !.ticker = ticker, !.period = period, !.latest = @ + 1, !.busy = TRUE, !.error = FALSE, !.sweep = None,
              !.asked = @ \cup {[n |-> p.latest + 1, of |-> <<ticker, period>>]}]
TesterPage(ticker, period, rule) ==
    Test([name |-> "tester", ticker |-> ticker, period |-> period, rule |-> rule, bars |-> None, busy |-> FALSE,
          error |-> FALSE, sweep |-> None, latest |-> 0, asked |-> {}], ticker, period)
TestOther(t, d) ==
    /\ Open("tester") /\ page.latest < MaxStamp
    /\ (t = page.ticker /\ d = page.period) => page.error
    /\ t = page.ticker \/ d = page.period
    /\ To(Test(page, t, d))
BarsTaken(q, p) == IF q.n = page.latest THEN p ELSE Answered(q)
BarsAnswer(q) ==
    /\ Open("tester") /\ q \in page.asked
    /\ \/ \E enough \in BOOLEAN :
             To(BarsTaken(q, [Answered(q) EXCEPT !.bars = [of |-> q.of, enough |-> enough], !.error = ~enough, !.busy = FALSE]))
       \/ To(BarsTaken(q, [Answered(q) EXCEPT !.bars = None, !.error = TRUE, !.busy = FALSE]))
ChooseRule(r) == Open("tester") /\ To([page EXCEPT !.rule = r, !.sweep = None])
Tune == Open("tester") /\ To([page EXCEPT !.sweep = None])
\* Turning a cell of the sweep into parameters leaves the sweep.
SweepParameters ==
    /\ Open("tester") /\ page.bars # None /\ ~page.busy
    /\ To([page EXCEPT !.sweep = [rule |-> page.rule, bars |-> page.bars]])
TesterView ==
    [figures |-> ~page.busy /\ page.bars # None /\ page.bars.enough, sweep |-> ~page.busy /\ page.sweep # None,
     thin |-> ~page.busy /\ ~page.error /\ page.bars # None /\ ~page.bars.enough, error |-> page.error, loading |-> page.busy]
TesterNext ==
    \/ \E t \in Tickers, d \in Periods : TestOther(t, d)
    \/ Open("tester") /\ \E q \in page.asked : BarsAnswer(q)
    \/ \E r \in Rules : ChooseRule(r)
    \/ Tune \/ SweepParameters

-----------------------------------------------------------------------------
(* The news of one ticker, and the tone a model reads in them when asked.  *)

AskFeed(p) ==
    [p EXCEPT !.busy = TRUE, !.error = FALSE, !.feed = None, !.asked = @ \cup {[op |-> "feed", ticker |-> p.ticker, strict |-> p.strict]}]
NewsPage(t) ==
    AskFeed([name |-> "news", ticker |-> t, strict |-> TRUE, feed |-> None, busy |-> FALSE, error |-> FALSE,
             tone |-> None, toneBusy |-> FALSE, toneError |-> FALSE, asked |-> {}])
NewsView ==
    [loading |-> page.busy /\ page.feed = None, error |-> page.error, list |-> ~page.error /\ (~page.busy \/ page.feed # None)]
OtherTicker(t) ==
    /\ Open("news") /\ t # page.ticker /\ Room
    /\ To(AskFeed([page EXCEPT !.ticker = t, !.tone = None, !.toneError = FALSE]))
ToggleStrict == Open("news") /\ NewsView.list /\ Room /\ To(AskFeed([page EXCEPT !.strict = ~@]))
RetryFeed == Open("news") /\ NewsView.error /\ Room /\ To(AskFeed(page))
FeedAnswers(q) ==
    /\ Open("news") /\ q \in page.asked /\ q.op = "feed"
    /\ \/ To([Answered(q) EXCEPT !.feed = q, !.busy = FALSE])
       \/ To([Answered(q) EXCEPT !.error = TRUE, !.busy = FALSE])
Analyze ==
    /\ Open("news") /\ NewsView.list /\ ~page.toneBusy /\ Room
    /\ To([page EXCEPT !.toneBusy = TRUE, !.toneError = FALSE,
                       !.asked = @ \cup {[op |-> "tone", ticker |-> page.ticker, strict |-> TRUE]}])
ToneAnswers(q) ==
    /\ Open("news") /\ q \in page.asked /\ q.op = "tone"
    /\ \/ To([Answered(q) EXCEPT !.tone = q.ticker, !.toneBusy = FALSE])
       \/ To([Answered(q) EXCEPT !.toneError = TRUE, !.toneBusy = FALSE])
NewsNext ==
    \/ \E t \in Tickers : OtherTicker(t)
    \/ ToggleStrict \/ RetryFeed \/ Analyze
    \/ Open("news") /\ \E q \in page.asked : FeedAnswers(q) \/ ToneAnswers(q)

-----------------------------------------------------------------------------
(* Screens.  -1 is the builder; `saved' are the reader's own screens, from *)
(* name to the clauses, numbered by when they were written.                *)

Custom == -1
Request(op, of, list) == [op |-> op, of |-> of, list |-> list, live |-> TRUE]
RunScreen(p, s) ==
    [p EXCEPT !.active = s, !.busy = TRUE, !.error = FALSE, !.result = None, !.asked = @ \cup {Request("run", s, None)}]
NoScreens == [n \in {} |-> 0]
Unmounted(asked) ==
    {[q EXCEPT !.live = q.op = "run"] : q \in {r \in asked : r.op # "list"}}
ScreensPage ==
    RunScreen([name |-> "screens", active |-> 0, result |-> None, busy |-> FALSE, error |-> FALSE, saved |-> NoScreens,
               saving |-> FALSE, unsaved |-> FALSE, stamp |-> 0, asked |-> {}], 0)
Building == Open("screens") /\ page.active = Custom
PickScreen(i) ==
    /\ Open("screens") /\ ~page.busy /\ Room
    /\ To(RunScreen([page EXCEPT !.asked = Unmounted(@), !.saved = NoScreens, !.saving = FALSE, !.unsaved = FALSE], i))
\* Opening the builder loads the saved screens; nothing ends what is under way.
Build ==
    /\ Open("screens") /\ Room
    /\ LET p == [page EXCEPT !.active = Custom, !.result = None, !.error = FALSE] IN
       To(IF Building THEN p ELSE [p EXCEPT !.asked = @ \cup {Request("list", 0, srv)}])
RunCustom == Building /\ ~page.busy /\ Room /\ To(RunScreen(page, Custom))
LoadSaved(name) == Building /\ name \in DOMAIN page.saved /\ Room /\ To(RunScreen(page, Custom))
\* The whole list is shown as saved and sent.
Persist(p, list) ==
    [p EXCEPT !.saved = list, !.saving = TRUE, !.stamp = @ + 1, !.asked = @ \cup {Request("save", p.stamp + 1, list)}]
\* The button is disabled while a save is under way, the Enter key is not.
SaveScreen(name) ==
    /\ Building /\ Room /\ page.stamp < MaxStamp
    /\ To(Persist(page, [n \in DOMAIN page.saved \cup {name} |-> IF n = name THEN page.stamp + 1 ELSE page.saved[n]]))
DeleteScreen(name) ==
    /\ Building /\ name \in DOMAIN page.saved /\ Room /\ page.stamp < MaxStamp
    /\ To(Persist(page, [n \in DOMAIN page.saved \ {name} |-> page.saved[n]]))
RunAnswers(q) ==
    /\ Open("screens") /\ q \in page.asked /\ q.op = "run"
    /\ \/ To([Answered(q) EXCEPT !.result = q.of, !.busy = FALSE])
       \/ To([Answered(q) EXCEPT !.error = TRUE, !.busy = FALSE])
\* The list as it was when it was asked for, or as it is now, or none.
ListAnswers(q) ==
    /\ Open("screens") /\ q \in page.asked /\ q.op = "list"
    /\ \E list \in {q.list, srv, NoScreens} : To([Answered(q) EXCEPT !.saved = list])
SaveAnswers(q) ==
    /\ Open("screens") /\ q \in page.asked /\ q.op = "save"
    /\ LET over(failed) == IF q.live THEN [Answered(q) EXCEPT !.saving = FALSE, !.unsaved = failed] ELSE Answered(q)
       IN  \/ page' = over(FALSE) /\ srv' = q.list
           \/ To(over(TRUE))
ScreensNext ==
    \/ \E i \in Screens : PickScreen(i)
    \/ Build \/ RunCustom
    \/ \E n \in Names : LoadSaved(n) \/ SaveScreen(n) \/ DeleteScreen(n)
    \/ Open("screens") /\ \E q \in page.asked : RunAnswers(q) \/ ListAnswers(q) \/ SaveAnswers(q)

-----------------------------------------------------------------------------
Init ==
    /\ \/ \E prop \in Spots \cup {None} : page = BuilderPage(prop, IF prop = None THEN DefaultSpot ELSE prop)
       \/ page = OptionChainPage
       \/ \E t \in Tickers, d \in Periods, r \in Rules : page = TesterPage(t, d, r)
       \/ \E t \in Tickers : page = NewsPage(t)
       \/ page = ScreensPage
    /\ srv = NoScreens

Next == BuilderNext \/ OptionChainNext \/ TesterNext \/ NewsNext \/ ScreensNext

Spec == Init /\ [][Next]_vars

\* A request is answered in the end, or given up by the browser.
Fairness ==
    /\ WF_vars(HistoryIsOfNoUse \/ \E v \in Spots : HistoryArrives(v))
    /\ WF_vars(Open("chain") /\ \E q \in page.asked : ExpiriesAnswer(q))
    /\ WF_vars(Open("chain") /\ \E q \in page.asked : ChainAnswers(q))
    /\ WF_vars(Open("tester") /\ \E q \in page.asked : q.n = page.latest /\ BarsAnswer(q))
    /\ WF_vars(Open("news") /\ \E q \in page.asked : FeedAnswers(q))
    /\ WF_vars(Open("news") /\ \E q \in page.asked : ToneAnswers(q))
    /\ WF_vars(Open("screens") /\ \E q \in page.asked : RunAnswers(q))
    /\ WF_vars(Open("screens") /\ \E q \in page.asked : q.op = "save" /\ SaveAnswers(q))

-----------------------------------------------------------------------------
\* A structure that is latched is the one that was chosen, and it was laid out
\* in the neighbourhood of the current price, however the price moved and
\* whatever was chosen in between (OptionBuilder.tsx:157-173).
LatchedIsChosen ==
    Open("builder") /\ page.anchor # None =>
        page.legs.of = page.preset /\ page.legs.at = page.anchor /\ Near(page.spot, page.anchor)

\* What the backtester shows is of the history that was asked for last, and a
\* sweep of the rule and the history that are shown (Backtester.tsx:194-265).
TestedIsShown ==
    Open("tester") /\ ~page.busy =>
        /\ TesterView.figures => page.bars.of = <<page.ticker, page.period>>
        /\ page.sweep # None => page.sweep.rule = page.rule /\ page.sweep.bars = page.bars
        /\ TesterView.figures \/ page.error \/ TesterView.thin

\* A panel with nothing under way shows what it got or says that it failed, and
\* figures of a chain are of one of its expiries (News.tsx:66-100,
\* OptionsChain.tsx:97-139, app/screeners/page.tsx:84-110).
NothingLeftBlank ==
    /\ Open("news") /\ (\A q \in page.asked : q.op # "feed") => ~page.busy /\ (page.feed # None \/ page.error)
    /\ Open("chain") => (page.asked = {} => ~page.busy /\ (page.data # None \/ page.error \/ OptionChainView.none))
                        /\ (page.data # None => page.data \in page.expiries)
    /\ Open("screens") => (page.busy => \E q \in page.asked : q.op = "run")
                          /\ (page.saving => \E q \in page.asked : q.op = "save" /\ q.live)

Waits(name, flag) == Open(name) /\ page[flag]
\* A page that waits does not wait for ever.
PagesSettle ==
    /\ Waits("builder", "history") ~> ~Waits("builder", "history")
    /\ \A name \in {"chain", "tester", "news", "screens"} : Waits(name, "busy") ~> ~Waits(name, "busy")
    /\ Waits("news", "toneBusy") ~> ~Waits("news", "toneBusy")
    /\ Waits("screens", "saving") ~> ~Waits("screens", "saving")

\* "A new structure always relays out, at whatever spot is current"
\* (OptionBuilder.tsx:172): choosing one lays out its legs.
NewStructureLaidOut ==
    [][Open("builder") /\ page'.preset # page.preset => page'.legs.of = page'.preset]_vars

\* "The sentiment pass is per ticker" (News.tsx:74): the tone that is shown is
\* of the ticker that is open.
ToneOfTicker == Open("news") /\ page.tone # None => page.tone = page.ticker
=============================================================================
