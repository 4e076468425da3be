--------------------------- MODULE ValueChainPage ---------------------------
(***************************************************************************)
(* The value chain screen: the map of a company with its earlier versions, *)
(* the comparison, the time-lapse and the pins (ValueChainMap.tsx), the    *)
(* fingers on its drawing and the headlines that pulse on it, the panel of *)
(* one counterparty (NodeDetail), the liquidity of the exposure view       *)
(* (ExposurePanel.tsx) and the path search (ContagionPath.tsx).            *)
(*                                                                         *)
(* A map is [co, gen]: a company and which of its generations.  A request  *)
(* carries the company and is stale once another load has begun; its       *)
(* answer comes at any time or fails.  `srv' is the latest generation of   *)
(* every company, and the pins and the found listings of this browser.     *)
(***************************************************************************)
EXTENDS Integers, Sequences, FiniteSets, SequencesExt

CONSTANTS
    Companies,  \* companies a map can be centred on
    Home,       \* the one the screen was opened for
    MaxGen,     \* bound: generations of a map
    MaxTrail,   \* bound: crumbs
    MaxAsked,   \* bound: requests under way
    Fingers, Nodes, Links,  \* pointers, what is drawn, headlines
    None

VARIABLES page, srv

vars == <<page, srv>>

Open(name) == page.name = name
To(p) == page' = p /\ UNCHANGED srv
Map(co, gen) == [co |-> co, gen |-> gen]
Room(n) == Cardinality(page.asked) + n <= MaxAsked

-----------------------------------------------------------------------------
(* The map.  `framed' is framedRef, `idx' the frame of the time-lapse. *)

MapPage ==
    [name |-> "map", ticker |-> Home, trail |-> <<>>, data |-> None, pinned |-> FALSE, busy |-> FALSE, err |-> FALSE,
     snapshot |-> None, compare |-> FALSE, history |-> <<>>, playing |-> FALSE, idx |-> 1,
     framed |-> FALSE, asked |-> {}]

Current(p) == IF p.trail = <<>> THEN p.ticker ELSE Last(p.trail)
Chrono(p) == Reverse(p.history)

\* The effect on [playIdx, chrono]: the first time it runs it only notes so.
Framed(p) ==
    IF p.idx \notin DOMAIN Chrono(p) THEN p
    ELSE IF ~p.framed THEN [p EXCEPT !.framed = TRUE]
    ELSE [p EXCEPT !.data = Chrono(p)[p.idx], !.snapshot = Chrono(p)[p.idx].gen]
\* The interval stops itself when there is nothing to play.
Played(p) == IF p.playing /\ Len(p.history) < 2 THEN [p EXCEPT !.playing = FALSE] ELSE p
MovedTo(p, i) == IF i = p.idx THEN p ELSE Framed([p EXCEPT !.idx = i])

\* One more load makes the requests of every earlier one stale.
Load(p, refresh, pins) ==
    LET co == Current(p)
        cleared == [p EXCEPT !.busy = TRUE, !.err = FALSE, !.data = None,
                             !.pinned = FALSE, !.snapshot = None, !.compare = FALSE,
                             !.playing = FALSE, !.framed = FALSE,
                             !.asked = {[q EXCEPT !.fresh = FALSE] : q \in @}]
        q(what) == [what |-> what, co |-> co, fresh |-> TRUE, refresh |-> refresh]
    IN  MovedTo(IF ~refresh /\ pins[co] # None
                THEN [cleared EXCEPT !.data = pins[co], !.pinned = TRUE, !.busy = FALSE]
                ELSE [cleared EXCEPT !.asked = @ \cup {q("map"), q("history")}], 1)

\* What is on the screen, and what it offers when it is a map.
Screen(p) == IF p.busy THEN "loading" ELSE IF p.err THEN "error" ELSE IF p.data = None THEN "nothing" ELSE "map"
Shown(p) == Screen(p) = "map"
Versions(p) ==
    [view |-> Len(p.history) > 1, lapse |-> Len(p.history) > 1,
     compare |-> IF p.snapshot = None /\ Len(p.history) > 1 THEN {m \in Range(p.history) : m.gen # p.data.gen} ELSE {},
     live |-> p.playing \/ p.snapshot # None, regenerate |-> p.snapshot = None]

MountMap ==
    /\ Open("map") /\ page.data = None /\ ~page.busy /\ ~page.err
    /\ Room(2) /\ To(Load(page, FALSE, srv.pins))

\* NodeDetail and ChainTable re-centre; the crumbs lead back.
Recenter(co) ==
    /\ Open("map") /\ Shown(page) /\ Len(page.trail) < MaxTrail /\ co # Current(page)
    /\ Room(2) /\ To(Load([page EXCEPT !.trail = Append(@, co)], FALSE, srv.pins))
Crumb ==
    /\ Open("map") /\ Shown(page) /\ page.trail # <<>>
    /\ Room(2)
    /\ \E k \in 0..(Len(page.trail) - 1) :
          LET p == [page EXCEPT !.trail = SubSeq(@, 1, k)]
          IN  To(IF Current(p) = Current(page) THEN p ELSE Load(p, FALSE, srv.pins))

\* A pane that shows the map is given another ticker, whatever it is doing;
\* bound: once.
ChangeTicker(co) ==
    /\ Open("map") /\ page.ticker = Home /\ co # Home /\ Room(2)
    /\ LET p == [page EXCEPT !.ticker = co, !.trail = <<>>]
       IN  To(IF Current(p) = Current(page) THEN p ELSE Load(p, FALSE, srv.pins))

Regenerate ==
    /\ Open("map") /\ (Screen(page) = "error" \/ (Shown(page) /\ Versions(page).regenerate))
    /\ Room(2) /\ To(Load(page, TRUE, srv.pins))
BackToLive ==
    /\ Open("map") /\ (Screen(page) = "error" \/ (Shown(page) /\ Versions(page).live))
    /\ Room(2) /\ To(Load(page, FALSE, srv.pins))

ViewSnapshot(m) ==
    /\ Open("map") /\ Shown(page) /\ Versions(page).view /\ m \in Range(page.history)
    /\ To([page EXCEPT !.data = m, !.snapshot = m.gen])
\* A version to compare with is chosen among the others, and let go of again.
Compare ==
    /\ Open("map") /\ Shown(page)
    /\ page.compare \/ Versions(page).compare # {}
    /\ To([page EXCEPT !.compare = ~@])

\* The button of the time-lapse, the slider, and a tick of its interval.
Play ==
    /\ Open("map") /\ Shown(page) /\ Versions(page).lapse
    /\ To(IF page.playing THEN [page EXCEPT !.playing = FALSE]
          ELSE [MovedTo(page, IF page.idx >= Len(page.history) THEN 1 ELSE page.idx)
                  EXCEPT !.playing = TRUE])
Scrub(i) ==
    /\ Open("map") /\ Shown(page) /\ Versions(page).lapse /\ i \in DOMAIN page.history
    /\ To(MovedTo([page EXCEPT !.playing = FALSE], i))
PlayTick ==
    /\ Open("map") /\ page.playing
    /\ To(IF page.idx >= Len(page.history) THEN [page EXCEPT !.playing = FALSE]
          ELSE MovedTo(page, page.idx + 1))

TogglePin ==
    /\ Open("map") /\ Shown(page)
    /\ IF page.pinned
       THEN /\ Room(2) /\ srv' = [srv EXCEPT !.pins[Current(page)] = None]
            /\ page' = Load(page, FALSE, srv'.pins)
       ELSE /\ srv' = [srv EXCEPT !.pins[Current(page)] = page.data]
            /\ page' = [page EXCEPT !.pinned = TRUE]

\* A generation the server has, or makes when it is asked to; the history
\* is the newest first.
Generated(q, gen) == IF q.refresh /\ gen < MaxGen THEN gen + 1 ELSE gen
HistoryOf(co, gen) == [i \in 1..gen |-> Map(co, gen + 1 - i)]

StaleNever(q) == FALSE
Stale(q) == ~q.fresh

MapAnswers(q, ok) ==
    LET p == [page EXCEPT !.asked = @ \ {q}]
        gen == Generated(q, srv.gen[q.co])
    IN  /\ q.what = "map"
        /\ srv' = IF ok THEN [srv EXCEPT !.gen[q.co] = gen] ELSE srv
        /\ page' = IF Stale(q) THEN p
                   ELSE IF ok THEN [p EXCEPT !.data = Map(q.co, gen), !.busy = FALSE]
                   ELSE [p EXCEPT !.err = TRUE, !.busy = FALSE]
HistoryAnswers(q, ok) ==
    LET p == [page EXCEPT !.asked = @ \ {q}] IN
    /\ q.what = "history"
    /\ To(IF Stale(q) THEN p
          ELSE Played(Framed([p EXCEPT !.history = IF ok THEN HistoryOf(q.co, srv.gen[q.co]) ELSE <<>>])))

-----------------------------------------------------------------------------
(* The panel of one counterparty.  `cands' are the listings found for a     *)
(* node; `best' is the first of them.  The panel is not remounted when      *)
(* another node is picked.  Requests are told apart by the node or listing  *)
(* they were made for, and the effects cancel theirs (`alive').             *)

DetailPage ==
    [name |-> "detail", node |-> None, cands |-> None, quote |-> None, watch |-> "idle",
     scenario |-> None, running |-> FALSE, reported |-> FALSE, asked |-> {}]

\* resolveNode remembers what it found, a failed search included.
Resolved(p) ==
    IF srv.cache[p.node] # None THEN [p EXCEPT !.cands = srv.cache[p.node]]
    ELSE [p EXCEPT !.asked = @ \cup {[what |-> "search", of |-> p.node]}]
\* What the panel says and offers: a node without a listing can neither be
\* watched nor be re-centred on.
Detail(p) ==
    [listing |-> IF p.cands = None THEN "looking" ELSE IF p.cands = "unlisted" THEN "none" ELSE "listed",
     price |-> p.quote # None, watch |-> p.cands \notin {None, "unlisted"} /\ p.watch = "idle",
     simulate |-> ~p.running, result |-> p.scenario # None, report |-> ~p.reported]
\* The quote and the headlines are asked for once there is a listing.
Quoted(p) == IF Detail(p).listing # "listed" THEN p
             ELSE [p EXCEPT !.asked = @ \cup {[what |-> "quote", of |-> p.cands]}]

ShowNode(n) ==
    /\ Open("detail") /\ n # page.node
    /\ To(Quoted(Resolved(
          [page EXCEPT !.node = n, !.cands = None, !.quote = None, !.reported = FALSE,
                       !.scenario = None,
                       !.asked = {q \in @ : q.what \notin {"search", "quote"}}])))

SearchAnswers(q) ==
    /\ q.what = "search"
    /\ \E found \in {q.of, "unlisted"} :
          /\ srv' = [srv EXCEPT !.cache[q.of] = found]
          /\ page' = Quoted([page EXCEPT !.asked = @ \ {q}, !.cands = found])
QuoteAnswers(q) ==
    /\ q.what = "quote"
    /\ \E v \in {q.of, None} : To([page EXCEPT !.asked = @ \ {q}, !.quote = v])

Watch ==
    /\ Open("detail") /\ Detail(page).watch
    /\ To([page EXCEPT !.watch = "saving", !.asked = @ \cup {[what |-> "watch", of |-> page.cands]}])
Simulate ==
    /\ Open("detail") /\ page.node # None /\ Detail(page).simulate
    /\ To([page EXCEPT !.running = TRUE, !.scenario = None,
                       !.asked = @ \cup {[what |-> "scenario", of |-> page.node]}])
Flag ==
    /\ Open("detail") /\ page.node # None /\ Detail(page).report
    /\ ~\E q \in page.asked : q.what = "flag"
    /\ To([page EXCEPT !.asked = @ \cup {[what |-> "flag", of |-> page.node]}])

DetailAnswers(q) ==
    LET p == [page EXCEPT !.asked = @ \ {q}] IN
    \E ok \in BOOLEAN :
        \/ /\ q.what = "watch" /\ To([p EXCEPT !.watch = IF ok THEN "saved" ELSE "idle"])
        \/ /\ q.what = "scenario"
           /\ To([p EXCEPT !.running = FALSE, !.scenario = IF ok THEN q.of ELSE None])
        \/ /\ q.what = "flag" /\ To([p EXCEPT !.reported = @ \/ ok])

-----------------------------------------------------------------------------
(* A search that is started by hand: the liquidity of the counterparties,   *)
(* which the button starts and whose answer no load cancels, and the path    *)
(* between two companies, which Enter starts again while it is busy.        *)

HandPage ==
    [name |-> "search", subject |-> Home, found |-> None, err |-> FALSE, busy |-> FALSE, asked |-> {}]

AskByHand ==
    /\ Open("search") /\ Cardinality(page.asked) < 2
    /\ To([page EXCEPT !.busy = TRUE, !.err = FALSE, !.found = None,
                       !.asked = @ \cup {[what |-> "hand", of |-> page.subject]}])
ChangeSubject(co) ==
    /\ Open("search") /\ co # page.subject
    /\ To([page EXCEPT !.subject = co, !.found = None, !.err = FALSE])
HandAnswers(q) ==
    /\ q.what = "hand"
    /\ \E ok \in BOOLEAN :
          To([page EXCEPT !.asked = @ \ {q}, !.busy = FALSE, !.err = @ \/ ~ok,
                          !.found = IF ok THEN q.of ELSE @])

-----------------------------------------------------------------------------
(* Fingers on the drawing: one pans, two pinch, and a press that has not    *)
(* moved picks a node.  `pan' is the finger a pan is measured from.  `swept' *)
(* and `most' tell how far and how many since no finger was down; the page   *)
(* does not know them.                                                       *)

CanvasPage ==
    [name |-> "canvas", down |-> {}, pinch |-> FALSE, pan |-> None, dragged |-> FALSE, view |-> "default",
     selected |-> None, tip |-> None, clicks |-> FALSE, swept |-> FALSE, most |-> 0]

PointerDown(f) ==
    /\ Open("canvas") /\ f \notin page.down
    /\ LET n == Cardinality(page.down) + 1
           p == [page EXCEPT !.down = @ \cup {f}, !.dragged = FALSE, !.clicks = FALSE,
                             !.swept = IF n = 1 THEN FALSE ELSE @, !.most = IF n > @ \/ n = 1 THEN n ELSE @]
       IN  To(IF n = 2 THEN [p EXCEPT !.pinch = TRUE, !.pan = None] ELSE [p EXCEPT !.pan = f])
\* A move within the slop is no drag, though it pans; any move of a pinch is.
PointerMove(far) ==
    /\ Open("canvas") /\ page.down # {}
    /\ LET p == [page EXCEPT !.swept = @ \/ far] IN
       To(IF page.pinch /\ Cardinality(page.down) >= 2 THEN [p EXCEPT !.dragged = TRUE, !.view = "moved"]
          ELSE IF page.pan = None THEN p
          ELSE [p EXCEPT !.dragged = @ \/ far, !.view = "moved"])
PointerUp(f) ==
    /\ Open("canvas") /\ f \in page.down
    /\ LET left == page.down \ {f} IN
       To([page EXCEPT !.down = left, !.pinch = @ /\ Cardinality(left) >= 2,
                       !.pan = IF left = {} THEN None ELSE @, !.clicks = left = {} /\ page.most = 1])
Pick(n) ==
    [page EXCEPT !.clicks = FALSE, !.selected = IF page.dragged THEN @ ELSE IF @ = n THEN None ELSE n]
\* The browser makes a click of a press of one finger.
Click(n) == Open("canvas") /\ page.clicks /\ To(Pick(n))
\* Enter or the space bar on a node that has the focus.
PressKey(n) == Open("canvas") /\ page.down = {} /\ To([Pick(n) EXCEPT !.clicks = page.clicks])
Hover(n) == Open("canvas") /\ To([page EXCEPT !.tip = IF @ = n THEN None ELSE n])
Wheel == Open("canvas") /\ To([page EXCEPT !.view = "moved"])
\* Fit, reset and the minimap.
Reframe == Open("canvas") /\ \E v \in {"default", "fit", "moved"} : To([page EXCEPT !.view = v])

-----------------------------------------------------------------------------
(* Headlines that pulse until they were there for six seconds.  They are    *)
(* asked for once a minute; another company starts anew, but what is shown  *)
(* stays until its first answer.                                            *)

PulsePage == [name |-> "pulse", items |-> {}, seen |-> {}, timers |-> {}]
Pulsing(p) == p.items \ p.seen
PullNews ==
    /\ Open("pulse")
    /\ \E items \in SUBSET Links : To([page EXCEPT !.items = items, !.timers = @ \cup {items}])
SixSeconds ==
    /\ Open("pulse")
    /\ \E items \in page.timers : To([page EXCEPT !.seen = @ \cup items, !.timers = @ \ {items}])
OtherCompany == Open("pulse") /\ To([page EXCEPT !.seen = {}, !.timers = {}])

-----------------------------------------------------------------------------
Pages == {"map", "detail", "search"}
Fresh == [gen |-> [co \in Companies |-> 1], pins |-> [co \in Companies |-> None],
          cache |-> [co \in Companies |-> None]]
Init ==
    /\ page \in {MapPage, DetailPage, HandPage, CanvasPage, PulsePage}
    /\ srv \in {Fresh, [Fresh EXCEPT !.gen[Home] = MaxGen]}

Answers ==
    /\ page.name \in Pages
    /\ \E q \in page.asked :
          \/ \E ok \in BOOLEAN : MapAnswers(q, ok) \/ HistoryAnswers(q, ok)
          \/ SearchAnswers(q) \/ QuoteAnswers(q) \/ DetailAnswers(q) \/ HandAnswers(q)

Next ==
    \/ MountMap \/ Crumb \/ Regenerate \/ BackToLive \/ Play \/ PlayTick \/ TogglePin \/ Compare
    \/ \E co \in Companies : Recenter(co) \/ ChangeTicker(co) \/ ShowNode(co) \/ ChangeSubject(co)
    \/ Open("map") /\ \E m \in Range(page.history) : ViewSnapshot(m)
    \/ \E i \in 1..MaxGen : Scrub(i)
    \/ Watch \/ Simulate \/ Flag \/ AskByHand
    \/ \E f \in Fingers : PointerDown(f) \/ PointerUp(f)
    \/ \E far \in BOOLEAN : PointerMove(far)
    \/ \E n \in Nodes : Click(n) \/ PressKey(n) \/ Hover(n)
    \/ Wheel \/ Reframe \/ PullNews \/ SixSeconds \/ OtherCompany
    \/ Answers

Fairness == WF_vars(Answers) /\ WF_vars(SixSeconds)

-----------------------------------------------------------------------------
\* A map that is on the screen without the banner of an earlier version was
\* generated for the company the screen is centred on, unless it was pinned:
\* a slow generation for one that was left must not land (ValueChainMap.tsx:772-773).
MapOfCurrent ==
    Open("map") /\ page.data # None /\ page.snapshot = None /\ ~page.pinned
        => page.data.co = Current(page)

\* The listing and the price in the panel of a node were found for that node
\* (ValueChainMap.tsx:364-381).  Its scenario, and whether it is watched or
\* reported, need not be: those answers are taken for whichever node is open.
DetailOfNode ==
    Open("detail") => /\ page.cands \in {None, "unlisted", page.node}
                      /\ page.quote \in {None, page.node}

\* The screen does not wait for ever for a map.
MapArrives == Open("map") /\ page.busy ~> ~(Open("map") /\ page.busy)

\* A press that became a drag picks nothing, and with two fingers at most the
\* drawing is never moved by a finger that was lifted (ValueChainMap.tsx:745-747).
DragNeverPicks ==
    [][Open("canvas") /\ page.clicks /\ page.selected # page'.selected => ~page.swept]_vars
AnchoredPan == Open("canvas") /\ page.most <= 2 /\ page.pan # None => page.pan \in page.down /\ ~page.pinch

\* What is not seen yet is pulsing and has its six seconds running, unless it
\* is left from another company (ValueChainMap.tsx:850-859).
PulseEnds == Open("pulse") /\ page.timers = {} => page.seen = {} \/ Pulsing(page) = {}
=============================================================================
