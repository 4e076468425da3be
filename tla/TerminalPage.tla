---------------------------- MODULE TerminalPage ----------------------------
(***************************************************************************)
(* The terminal screen (app/terminal/page.tsx): the company and the        *)
(* function it shows, the address they are kept in, the way back and       *)
(* forward, and the name without an exchange that is resolved first; its   *)
(* header and its chart; the box a ticker is typed into (TickerInput.tsx)  *)
(* and the command palette (CommandPalette.tsx).                           *)
(*                                                                         *)
(* React runs the effects of a change before the next event, so they are   *)
(* part of the action that makes the change.  An address that was asked    *)
(* for arrives later, and a newer one takes its place.                     *)
(***************************************************************************)
EXTENDS Integers, Sequences, FiniteSets, SequencesExt

CONSTANTS
    Tickers,    \* what can be on the screen
    Bare,       \* those without an exchange
    Functions,  \* the screens, in the order of the rail
    Periods,
    Texts,      \* what can be typed into a box; "" is too short to search for
    MaxStack,   \* how far back the way back goes
    MaxRecent,  \* how many recent tickers are kept
    MaxAsked,   \* bound: requests under way
    None

VARIABLES page, srv

vars == <<page, srv>>

Open(name) == page.name = name
To(p) == page' = p /\ UNCHANGED srv
Room == Cardinality(page.asked) < MaxAsked

-----------------------------------------------------------------------------
(* The screen.  `resolving' is the request for a bare ticker, with the      *)
(* function that was on the screen when it was made: its answer is handled  *)
(* by the render of that moment.  `going' is the address on its way.        *)

ScreenPage(t) ==
    [name |-> "terminal", ticker |-> t, fn |-> Functions[1], stack |-> <<t>>, idx |-> 1,
     travelling |-> FALSE, url |-> [t |-> None, fn |-> None], going |-> None,
     resolving |-> IF t \in Bare THEN Functions[1] ELSE None, choice |-> "none"]

\* A new visit truncates the way forward and keeps the latest MaxStack.
Visited(p) ==
    LET s == Append(SubSeq(p.stack, 1, p.idx), p.ticker)
        kept == SubSeq(s, IF Len(s) > MaxStack THEN 2 ELSE 1, Len(s))
    IN  [p EXCEPT !.stack = kept, !.idx = Len(kept)]

\* The effects on the ticker.
History(p) ==
    IF p.travelling THEN [p EXCEPT !.travelling = FALSE]
    ELSE IF p.stack[p.idx] = p.ticker THEN p
    ELSE Visited(p)
Resolve(p) == [p EXCEPT !.choice = "none", !.resolving = IF p.ticker \in Bare THEN p.fn ELSE None]
SetTicker(p, t) == IF t = p.ticker THEN p ELSE History(Resolve([p EXCEPT !.ticker = t]))

Replace(p, t, fn) == [p EXCEPT !.going = [t |-> t, fn |-> fn]]
PickFn(p, fn) == Replace([p EXCEPT !.fn = fn], p.ticker, fn)
StepFn(fn, d) ==
    LET i == IndexFirstSubSeq(<<fn>>, Functions) IN Functions[((i - 1 + d) % Len(Functions)) + 1]
Recent(rs, t) ==
    IF t \in Bare THEN rs
    ELSE LET all == <<t>> \o SelectSeq(rs, LAMBDA x : x # t) IN SubSeq(all, 1, IF Len(all) > MaxRecent THEN MaxRecent ELSE Len(all))

\* commitTicker, called by a render that had the function `fn' on the screen;
\* `with' is a function that was given along.
CommitTicker(t, with, fn) ==
    IF t = page.ticker
    THEN To(IF with = None THEN page ELSE PickFn(page, with))
    ELSE /\ page' = Replace(SetTicker([page EXCEPT !.fn = IF with = None THEN @ ELSE with], t), t,
                            IF with = None THEN fn ELSE with)
         /\ srv' = [srv EXCEPT !.recents = Recent(@, t)]

\* What is typed into the command line: a ticker, a function, or both.
RunEntry(t, fn) ==
    /\ Open("terminal")
    /\ IF t = None THEN fn # None /\ To(PickFn(page, fn)) ELSE CommitTicker(t, fn, page.fn)
\* The rail; [ and ], whose listener reads the latest function and callback.
Rail(fn) == Open("terminal") /\ To(PickFn(page, fn))
PressBracket(d) == Open("terminal") /\ To(PickFn(page, StepFn(page.fn, d)))

Travel(d) ==
    /\ Open("terminal") /\ page.idx + d \in DOMAIN page.stack
    /\ LET t == page.stack[page.idx + d]
       IN  To(Replace(SetTicker([page EXCEPT !.travelling = TRUE, !.idx = @ + d], t), t, page.fn))

\* A link to the terminal, which need not name a function; bound: followed
\* only when no address is on its way.
FollowLink(t, fn) == Open("terminal") /\ page.going = None /\ To(Replace(page, t, fn))
\* The effect on the address: its ticker and its function, if it has one.
UrlArrives ==
    /\ Open("terminal") /\ page.going # None
    /\ LET p == [page EXCEPT !.url = page.going, !.going = None] IN
       To(IF page.going = page.url THEN p
          ELSE SetTicker([p EXCEPT !.fn = IF page.going.fn = None THEN @ ELSE page.going.fn], page.going.t))

\* The answer for a bare ticker that is still on the screen: one listing,
\* several to choose from, none, or nothing at all when the request fails.
ResolveAnswers ==
    /\ Open("terminal") /\ page.resolving # None
    /\ \/ \E t \in Tickers \ Bare : CommitTicker(t, None, page.resolving)
       \/ \E c \in {"pick", "nothing", "none"} : To([page EXCEPT !.resolving = None, !.choice = c])
\* The candidates of an ambiguous name, or what the reader may have meant.
Offers(p) == IF p.choice \in {"pick", "nothing"} THEN Tickers ELSE {}
PickListing ==
    /\ Open("terminal")
    /\ \E t \in Offers(page) : CommitTicker(t, None, page.fn)

-----------------------------------------------------------------------------
(* What the screen has loaded for its ticker: the fundamentals, the quote   *)
(* it asks for again and again, the chart of a period, and whether a bare   *)
(* name (`resolving') turned out to be nobody's (`unknown').  A quote keeps *)
(* its error over a change of ticker.                                       *)

HeaderPage(t) ==
    [name |-> "header", ticker |-> t, period |-> CHOOSE q \in Periods : TRUE, snap |-> None, snapBusy |-> TRUE,
     quote |-> FALSE, quoteErr |-> FALSE, candles |-> None, chartBusy |-> TRUE, hits |-> None,
     resolving |-> t \in Bare, unknown |-> FALSE,
     asked |-> {[what |-> "snap", of |-> t], [what |-> "chart", of |-> <<t, CHOOSE q \in Periods : TRUE>>, fresh |-> TRUE]}]

Loading(p) == ~p.quote /\ p.snap = None /\ ~p.quoteErr /\ ~p.unknown
Failed(p) == p.unknown \/ (p.quoteErr /\ ~p.quote /\ p.snap = None)
\* What stands below the header; a screen with a chart chooses its period.
Body(p) == IF Loading(p) THEN "skeleton" ELSE IF Failed(p) THEN "not found" ELSE "screen"
Chart(p) ==
    [p EXCEPT !.chartBusy = TRUE,
              !.asked = {IF q.what = "chart" THEN [q EXCEPT !.fresh = FALSE] ELSE q : q \in @}
                        \cup {[what |-> "chart", of |-> <<p.ticker, p.period>>, fresh |-> TRUE]}]
\* Close matches are looked for when nothing could be loaded.
Suggest(p, q) ==
    LET others == {r \in q.asked : r.what # "hits"} IN
    IF ~Failed(q) THEN [q EXCEPT !.hits = None, !.asked = others]
    ELSE IF Failed(p) /\ p.ticker = q.ticker THEN q
    ELSE [q EXCEPT !.asked = others \cup {[what |-> "hits", of |-> q.ticker]}]
Snap(p) == [p EXCEPT !.snapBusy = TRUE, !.asked = @ \cup {[what |-> "snap", of |-> p.ticker]}]

ChangeTicker(t) ==
    /\ Open("header") /\ t # page.ticker /\ Room
    /\ To(Suggest(page, Snap(Chart([page EXCEPT !.ticker = t, !.snap = None, !.quote = FALSE,
                                                 !.resolving = t \in Bare, !.unknown = FALSE]))))
ChangePeriod(q) ==
    Open("header") /\ Body(page) = "screen" /\ q # page.period /\ Room /\ To(Chart([page EXCEPT !.period = q]))
\* The answer for a bare name; one that leads to a listing changes the ticker.
HeaderResolves ==
    /\ Open("header") /\ page.resolving
    /\ \E none \in BOOLEAN : To(Suggest(page, [page EXCEPT !.resolving = FALSE, !.unknown = none]))
RefreshHeader == Open("header") /\ Room /\ To(Snap(page))
QuoteAnswers ==
    /\ Open("header")
    /\ \E ok \in BOOLEAN : To(Suggest(page, [page EXCEPT !.quote = @ \/ ok, !.quoteErr = ~ok]))
ChartAnswers(q, ok) ==
    IF q.fresh THEN [page EXCEPT !.asked = @ \ {q}, !.candles = IF ok THEN q.of ELSE None, !.chartBusy = FALSE]
    ELSE [page EXCEPT !.asked = @ \ {q}]
\* An answer with the fundamentals lands whatever is on the screen by then.
SnapAnswers(q, ok) ==
    LET p == [page EXCEPT !.asked = @ \ {q}, !.snap = IF ok THEN q.of ELSE @, !.snapBusy = FALSE]
    IN  Suggest(page, p)
HeaderAnswers ==
    /\ Open("header")
    /\ \E q \in page.asked, ok \in BOOLEAN :
          To(CASE q.what = "chart" -> ChartAnswers(q, ok)
               [] q.what = "snap" -> SnapAnswers(q, ok)
               [] q.what = "hits" -> [page EXCEPT !.asked = @ \ {q}, !.hits = IF ok THEN q.of ELSE @])

-----------------------------------------------------------------------------
(* The box a ticker is typed into.  `hits' is the text they were found for  *)
(* and how many they are; `timer' the text a search is waiting to ask for.  *)
(* A search that was asked for is not withdrawn.                            *)

EntryPage(blurs) ==
    [name |-> "entry", blurs |-> blurs, value |-> "", text |-> "", hits |-> <<>>, open |-> FALSE, sel |-> 0,
     skip |-> FALSE, timer |-> None, asked |-> {}]

\* The effect on the text and the value.
Search(p) ==
    LET q == [p EXCEPT !.timer = None] IN
    IF p.skip THEN [q EXCEPT !.skip = FALSE]
    ELSE IF p.text \in {"", p.value} THEN [q EXCEPT !.hits = <<>>, !.open = FALSE]
    ELSE [q EXCEPT !.timer = p.text]
Changed(p, q) == IF p.text = q.text /\ p.value = q.value THEN q ELSE Search(q)
\* The parent takes the ticker as the new value, or, when it was a function,
\* keeps the old one.
Commit(t) ==
    \E kept \in BOOLEAN :
        To(Changed(page, [page EXCEPT !.skip = TRUE, !.text = t, !.open = FALSE, !.hits = <<>>,
                                      !.value = IF kept THEN @ ELSE t]))
Type(t) == Open("entry") /\ t # page.text /\ To(Changed(page, [page EXCEPT !.text = t]))
TimerRuns ==
    /\ Open("entry") /\ page.timer # None /\ Room
    /\ To([page EXCEPT !.timer = None, !.asked = @ \cup {page.timer}])
Hits(q, found) == [page EXCEPT !.asked = @ \ {q}, !.hits = found, !.open = TRUE, !.sel = 0]
SearchAnswers ==
    /\ Open("entry")
    /\ \E q \in page.asked :
          \/ \E n \in 0..2 : To(Hits(q, [i \in 1..n |-> q]))
          \/ To([page EXCEPT !.asked = @ \ {q}, !.hits = <<>>, !.open = FALSE])
Listed(p) == p.open /\ p.hits # <<>>
\* The arrows and the mouse mark a line; 0 is none.
Mark ==
    /\ Open("entry") /\ Listed(page)
    /\ \/ To([page EXCEPT !.sel = (@ % Len(page.hits)) + 1])
       \/ To([page EXCEPT !.sel = ((@ - 2 + Len(page.hits)) % Len(page.hits)) + 1])
       \/ \E i \in DOMAIN page.hits : To([page EXCEPT !.sel = i])
PressEnter ==
    /\ Open("entry")
    /\ IF Listed(page) /\ page.sel > 0 THEN Commit(page.hits[page.sel]) ELSE Commit(page.text)
ClickHit == Open("entry") /\ Listed(page) /\ \E i \in DOMAIN page.hits : Commit(page.hits[i])
CloseList == Open("entry") /\ page.open /\ To([page EXCEPT !.open = FALSE])
Blur ==
    /\ Open("entry") /\ page.blurs
    /\ IF page.text \notin {"", page.value} THEN Commit(page.text) ELSE To([page EXCEPT !.open = FALSE])

-----------------------------------------------------------------------------
(* The command palette: what is found for what was typed, and the answer to *)
(* a question.  Neither request is withdrawn when the palette is closed.    *)

PalettePage ==
    [name |-> "palette", open |-> FALSE, q |-> "", hits |-> None, timer |-> None, asking |-> FALSE,
     answer |-> None, err |-> FALSE, recents |-> {}, asked |-> {}]

Shut(p) == [p EXCEPT !.open = FALSE, !.answer = None, !.err = FALSE, !.asking = FALSE]
OpenPalette == Open("palette") /\ ~page.open /\ To([page EXCEPT !.open = TRUE, !.recents = ToSet(srv.recents)])
ClosePalette == Open("palette") /\ page.open /\ To(Shut(page))
SetQ(p, t) == IF t = p.q THEN p
              ELSE IF t = "" THEN [p EXCEPT !.q = t, !.hits = None, !.timer = None]
              ELSE [p EXCEPT !.q = t, !.timer = t]
TypeQuery(t) == Open("palette") /\ page.open /\ t # page.q /\ To(SetQ(page, t))
\* What is offered depends on what was typed; everything but a question closes
\* the palette and leads somewhere.
Offered(p) ==
    IF p.q = "" THEN {"page"} \cup (IF p.recents # {} THEN {"recent"} ELSE {})
    ELSE {"page", "question", "command", "typed"} \cup (IF p.hits # None THEN {"security"} ELSE {})
Lead ==
    /\ Open("palette") /\ page.open /\ Offered(page) \ {"question"} # {}
    /\ To(SetQ(Shut(page), ""))
AskQuestion ==
    /\ Open("palette") /\ page.open /\ "question" \in Offered(page) /\ Room
    /\ To([page EXCEPT !.asking = TRUE, !.err = FALSE, !.answer = None,
                       !.asked = @ \cup {[what |-> "ask", of |-> page.q]}])
PaletteTimer ==
    /\ Open("palette") /\ page.timer # None /\ Room
    /\ To([page EXCEPT !.timer = None, !.asked = @ \cup {[what |-> "search", of |-> page.timer]}])
FoundAnswers ==
    /\ Open("palette")
    /\ \E q \in page.asked, ok \in BOOLEAN :
          q.what = "search" /\ To([page EXCEPT !.asked = @ \ {q}, !.hits = IF ok THEN q.of ELSE None])
QuestionAnswers ==
    /\ Open("palette")
    /\ \E q \in page.asked, ok \in BOOLEAN :
          /\ q.what = "ask"
          /\ To([page EXCEPT !.asked = @ \ {q}, !.asking = FALSE, !.answer = IF ok THEN q.of ELSE @,
                             !.err = @ \/ ~ok])
ClearAnswer == Open("palette") /\ page.answer # None /\ To([page EXCEPT !.answer = None])

-----------------------------------------------------------------------------
Init ==
    /\ srv = [recents |-> <<>>]
    /\ \/ \E t \in Tickers : page \in {ScreenPage(t), HeaderPage(t)}
       \/ \E b \in BOOLEAN : page = EntryPage(b)
       \/ page = PalettePage

Next ==
    \/ \E t \in Tickers \cup {None}, fn \in Range(Functions) \cup {None} : RunEntry(t, fn)
    \/ \E t \in Tickers, fn \in Range(Functions) \cup {None} : FollowLink(t, fn)
    \/ \E fn \in Range(Functions) : Rail(fn)
    \/ \E d \in {-1, 1} : PressBracket(d) \/ Travel(d)
    \/ UrlArrives \/ ResolveAnswers \/ PickListing
    \/ \E t \in Tickers : ChangeTicker(t)
    \/ \E q \in Periods : ChangePeriod(q)
    \/ RefreshHeader \/ HeaderResolves \/ QuoteAnswers \/ HeaderAnswers
    \/ \E t \in Texts : Type(t) \/ TypeQuery(t)
    \/ TimerRuns \/ SearchAnswers \/ Mark \/ PressEnter \/ ClickHit \/ CloseList \/ Blur
    \/ OpenPalette \/ ClosePalette \/ Lead \/ AskQuestion \/ PaletteTimer \/ FoundAnswers \/ QuestionAnswers \/ ClearAnswer

Fairness == WF_vars(QuestionAnswers)

-----------------------------------------------------------------------------
\* The way back stands where the screen is, whoever moved it: a visit, the
\* buttons, an address or a resolved name (page.tsx:183-199).
HistoryTracks ==
    Open("terminal") => /\ page.idx \in DOMAIN page.stack /\ page.stack[page.idx] = page.ticker
                        /\ ~page.travelling /\ Len(page.stack) <= MaxStack

\* When no address is on its way, the address names the company on the screen
\* (page.tsx:58-61).
AddressAgrees == Open("terminal") /\ page.going = None => page.url.t \in {None, page.ticker}

\* ... and its function.
FunctionAgrees == Open("terminal") /\ page.going = None => page.url.fn \in {None, page.fn}

\* A chart that is not loading is of the ticker and the period that are chosen
\* (page.tsx:138-141).
ChartOfPeriod ==
    Open("header") /\ ~page.chartBusy => page.candles \in {None, <<page.ticker, page.period>>}

\* The fundamentals in the header are those of its ticker.  No run checks this: a
\* request of the ticker before is not withdrawn, and its answer becomes the
\* snapshot of the new one (loadSnap, page.tsx:112-119; the chart beside it is
\* guarded by a request id, 143-147).
SnapOfTicker == Open("header") => page.snap \in {None, page.ticker}

\* Enter takes a line that is listed.
MarkIsListed == Open("entry") /\ Listed(page) => page.sel \in 0..Len(page.hits)

\* The palette is not left thinking: a question that was asked is answered.
QuestionsEnd == Open("palette") /\ page.asking ~> ~(Open("palette") /\ page.asking)

\* Closing discards the answer: a reply to an earlier question does not greet
\* whoever opens the palette again (CommandPalette.tsx:43-44).
ClosingDiscards == Open("palette") /\ ~page.open => page.answer = None /\ ~page.err
=============================================================================
