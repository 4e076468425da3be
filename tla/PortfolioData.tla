--------------------------- MODULE PortfolioData ----------------------------
(***************************************************************************)
(* What the portfolio page computes: its totals from live ticks            *)
(* (app/portfolio/page.tsx), attribution, concentration, beta and history  *)
(* (lib/portfolioAnalytics.ts), the stress test (lib/stress.ts), and the   *)
(* rows of an imported file.                                               *)
(***************************************************************************)
EXTENDS Figures

CONSTANTS
    BookInputs,     \* the computations to run: [name |-> ..., ...]
    MaxPositions,   \* holdings a stress test asks histories for
    MinReturns,     \* returns below which no beta is fitted
    Numbers         \* the cells of a file that are numbers, and their values

VARIABLES given, answer

vars == <<given, answer>>

Percent == 100

-----------------------------------------------------------------------------
(* A position: [qty, cost, price, value, pnl, beta, day].                  *)

ValueOf(r) == IF r.price # None THEN r.price * r.qty ELSE r.value
PnlOf(r) == IF r.price # None THEN (r.price - r.cost) * r.qty ELSE r.pnl

\* Shares are of the movement, not of its net.
AttributionOfNet(rows) ==
    LET priced == SelectSeq(rows, LAMBDA r : PnlOf(r) # None)
        net == Magnitude(SumBy(priced, PnlOf))
    IN  [rows |-> SortedBy(MapSeq(priced, LAMBDA r : [pnl |-> PnlOf(r), share |-> IF net > 0 THEN ShareOf(Magnitude(PnlOf(r)), net, Percent) ELSE 0]),
                           LAMBDA c : c.pnl, FALSE),
         gross |-> net, total |-> SumBy(priced, PnlOf), half |-> None]
Attribution(rows) ==
    LET priced == SelectSeq(rows, LAMBDA r : PnlOf(r) # None)
        gross == SumBy(priced, LAMBDA r : Magnitude(PnlOf(r)))
        moves == SortedBy(MapSeq(priced, LAMBDA r : Magnitude(PnlOf(r))), LAMBDA m : m, FALSE)
        reaches(n) == 2 * SumOf(FirstOf(moves, n)) >= gross
    IN  [rows |-> SortedBy(MapSeq(priced, LAMBDA r :
                      [pnl |-> PnlOf(r), share |-> IF gross > 0 THEN ShareOf(Magnitude(PnlOf(r)), gross, Percent) ELSE 0]),
                  LAMBDA c : c.pnl, FALSE),
         gross |-> gross,
         total |-> SumBy(priced, PnlOf),
         half |-> IF gross = 0 THEN None ELSE CHOOSE n \in 1..Len(moves) : reaches(n) /\ \A m \in 1..(n - 1) : ~reaches(m)]
Winners(a) == SelectSeq(a.rows, LAMBDA c : c.pnl > 0)
Losers(a) == Reverse(SelectSeq(a.rows, LAMBDA c : c.pnl < 0))

AttributionNote(a, positions) ==
    IF a.rows = <<>> THEN {"nothing priced"}
    ELSE {"of the gross", "unrealised"} \cup
         Said({<<"one position", a.half = 1>>, <<"several positions", a.half \notin {1, None}>>,
               <<"some excluded", Len(a.rows) < positions>>})

\* Herfindahl: `sq' over `total' squared; its inverse is the effective number
\* of positions.
Band(total, sq) ==
    IF total * total <= 5 * sq THEN "concentrated" ELSE IF total * total <= 15 * sq THEN "focused" ELSE "diversified"
BookConcentration(values) ==
    LET held == SortedBy(SelectSeq(values, LAMBDA v : v # None /\ v > 0), LAMBDA v : v, FALSE)
        total == SumOf(held)
        sq == SumBy(held, LAMBDA v : v * v)
    IN  IF held = <<>> THEN [total |-> 0, sq |-> 0, top |-> None, band |-> "unknown", positions |-> Len(values)]
        ELSE [total |-> total, sq |-> sq, positions |-> Len(held), band |-> Band(total, sq),
              top |-> [n \in {1, 3, 5} |-> SumOf(FirstOf(held, n))]]

SectorConcentration(weights) ==
    [BookConcentration(weights) EXCEPT !.positions = Len(SelectSeq(weights, LAMBDA w : w # None /\ w > 0))]
ConcentrationNote(c, s) ==
    IF c.band = "unknown" THEN {"not measured"}
    ELSE {"behaves like", "exposure"} \cup
         Said({<<"one name moves it", c.band = "concentrated">>,
               <<"sectors narrower", s.band # "unknown" /\ s.total * s.total < 3 * s.sq>>})

\* Beta is weighted over what has one.
BetaBreakdown(rows) ==
    LET priced == SelectSeq(rows, LAMBDA r : ValueOf(r) # None /\ ValueOf(r) > 0)
        known == SelectSeq(priced, LAMBDA r : r.beta # None)
        total == SumBy(priced, ValueOf)
        covered == SumBy(known, ValueOf)
    IN  [rows |-> SortedBy(MapSeq(known, LAMBDA r : [beta |-> r.beta, pull |-> ValueOf(r) * r.beta]),
                           LAMBDA r : Magnitude(r.pull), FALSE),
         total |-> total, covered |-> covered,
         weighted |-> IF covered > 0 THEN SumBy(known, LAMBDA r : ValueOf(r) * r.beta) ELSE None,
         missing |-> Len(priced) - Len(known)]

BetaNote(b) ==
    IF b.weighted = None THEN {"no beta"}
    ELSE {"weighted", "looks back"} \cup
         Said({<<"partly covered", 10 * b.covered < 9 * b.total>>, <<"two supply it", Len(b.rows) >= 2>>})

\* The book over time; a fall is in percent of the highest value before.
HistoryStats(points) ==
    LET peak(i) == Greatest([j \in 1..i |-> points[j].value])
        falls == [i \in DOMAIN points |-> IF peak(i) > 0 THEN ShareOf(points[i].value, peak(i), Percent) - Percent ELSE 0]
        steps == [i \in 1..(Len(points) - 1) |->
                     IF points[i].value > 0 THEN ShareOf(points[i + 1].value, points[i].value, Percent) - Percent ELSE None]
        last == points[Len(points)]
    IN  IF Len(points) < 2 THEN [return |-> None, worst |-> None, best |-> None, down |-> None]
        ELSE [return |-> IF last.cost > 0 THEN ShareOf(last.value, last.cost, Percent) - Percent ELSE None,
              down |-> Least(falls),
              best |-> IF Figured(steps) = <<>> THEN None ELSE Greatest(Figured(steps)),
              worst |-> IF Figured(steps) = <<>> THEN None ELSE Least(Figured(steps))]

HistoryNote(points, s) ==
    IF Len(points) < 2 THEN {"too short"}
    ELSE {"recorded points", "not a return"} \cup Said({<<"deep fall", s.down # None /\ s.down < -10>>})

\* A row of the table and the totals above it, both from the tick of the
\* ticker: [ltp, chg, seeded], or None.
Live(t) == IF t # None /\ ~t.seeded THEN t.ltp ELSE None
RowOf(p, t) ==
    LET ltp == Or(Live(t), p.price) IN
    [value |-> IF ltp # None THEN ltp * p.qty ELSE p.value,
     pnl |-> IF ltp # None THEN (ltp - p.cost) * p.qty ELSE p.pnl,
     day |-> IF Live(t) # None /\ t.chg # None THEN t.chg * p.qty ELSE p.day]
LiveTotals(positions, ticks, fallback) ==
    LET ltp(i) == Or(Live(ticks[i]), positions[i].price)
        priced == {i \in DOMAIN positions : ltp(i) # None}
        chg(i) == IF ticks[i] # None /\ ~ticks[i].seeded THEN ticks[i].chg ELSE None
        sum(Op(_)) == SumOf([i \in DOMAIN positions |-> IF i \in priced THEN Op(i) ELSE 0])
    IN  IF priced = {} THEN fallback
        ELSE [value |-> sum(LAMBDA i : ltp(i) * positions[i].qty),
              pnl |-> sum(LAMBDA i : (ltp(i) - positions[i].cost) * positions[i].qty),
              day |-> sum(LAMBDA i : IF chg(i) # None THEN chg(i) * positions[i].qty ELSE Or(positions[i].day, 0))]

SortRows(rows, key, ascending) ==
    SortedBy(rows, LAMBDA r : CASE key = "value" -> ValueOf(r) [] key = "pnl" -> PnlOf(r) [] OTHER -> r[key], ascending)

-----------------------------------------------------------------------------
(* An imported file: lines of cells.                                       *)

Header(cells) == "ticker" \in Range(cells)
ColumnOf(cells, words) == LET at == {i \in DOMAIN cells : cells[i] \in words}
                          IN  IF at = {} THEN None ELSE CHOOSE i \in at : \A j \in at : i <= j
Cell(line, col) == IF col \in DOMAIN line THEN line[col] ELSE None
ParseFloat(cell) == IF cell \in DOMAIN Numbers THEN Numbers[cell] ELSE None
ParseCsv(lines) ==
    LET named == lines # <<>> /\ Header(lines[1])
        t == IF named THEN ColumnOf(lines[1], {"ticker"}) ELSE 1
        q == IF named THEN ColumnOf(lines[1], {"qty", "quantity"}) ELSE 2
        c == IF named THEN ColumnOf(lines[1], {"cost", "price", "avg_cost"}) ELSE 3
        body == IF named THEN Tail(lines) ELSE lines
        row(l) == [ticker |-> Cell(l, t), qty |-> ParseFloat(Cell(l, q)), cost |-> ParseFloat(Cell(l, c))]
        valid(r) == r.ticker # None /\ r.qty # None /\ r.cost # None /\ r.qty > 0 /\ r.cost >= 0
        rows == MapSeq(body, row)
    IN  IF q = None \/ c = None THEN [rows |-> <<>>, skipped |-> 1]
        ELSE [rows |-> SelectSeq(rows, valid), skipped |-> Len(rows) - Len(SelectSeq(rows, valid))]

-----------------------------------------------------------------------------
(* The stress test.  A series is a sequence of [day, close].               *)

\* The return over a window in percent, from the first day on or after its
\* start to the last on or before its end.
WindowReturn(s, from, to) ==
    LET starts == {i \in DOMAIN s : s[i].day >= from}
        ends == {i \in DOMAIN s : s[i].day <= to}
        a == CHOOSE i \in starts : \A j \in starts : i <= j
        b == CHOOSE i \in ends : \A j \in ends : i >= j
    IN  IF starts = {} \/ ends = {} THEN None
        ELSE IF b <= a \/ s[a].close <= 0 \/ s[b].close <= 0 THEN None
        ELSE ShareOf(s[b].close, s[a].close, Percent) - Percent

\* The worst windows of the benchmark that do not overlap one chosen before.
WorstWindows(bench, bars, n) ==
    LET usable == {i \in 1..(Len(bench) - bars) : bench[i].close > 0 /\ bench[i + bars].close > 0}
        ret(i) == ShareOf(bench[i + bars].close, bench[i].close, Percent) - Percent
        worst == SortedBy(SetToSortSeq(usable, <), ret, TRUE)
        pick(out, i) == IF Len(out) >= n \/ \E u \in Range(out) : Magnitude(u - i) < bars THEN out ELSE Append(out, i)
    IN  FoldLeft(pick, <<>>, worst)

\* A holding without a return is left out, never taken as flat.
Modelled(legs) == SelectSeq(legs, LAMBDA l : l.ret # None)
Impact(legs) ==
    LET m == Modelled(legs)
        value == SumBy(m, LAMBDA l : l.value)
        pnl == SumBy(m, LAMBDA l : l.value * l.ret)
    IN  [pnl |-> pnl, modelled |-> value, total |-> SumBy(legs, LAMBDA l : l.value),
         worst |-> IF m = <<>> THEN None ELSE Least(MapSeq(m, LAMBDA l : l.ret)),
         best |-> IF m = <<>> THEN None ELSE Greatest(MapSeq(m, LAMBDA l : l.ret))]
Replay(legs, from, to) ==
    Impact(MapSeq(legs, LAMBDA l : [value |-> l.value, ret |-> IF l.series = None THEN None ELSE WindowReturn(l.series, from, to)]))

\* Returns on the days both traded, and the slope of one on the other: `cov'
\* over `var', from enough returns that vary.
AlignedReturns(a, b) ==
    LET shared == SelectSeq(a, LAMBDA x : x.close > 0 /\ \E y \in Range(b) : y.day = x.day /\ y.close > 0)
        other(x) == CHOOSE y \in Range(b) : y.day = x.day
        ret(p, q) == ShareOf(q.close, p.close, Percent) - Percent
    IN  [i \in 1..(Len(shared) - 1) |->
            [x |-> ret(shared[i], shared[i + 1]), y |-> ret(other(shared[i]), other(shared[i + 1]))]]
Scatter(pairs, X(_), Y(_)) ==
    Len(pairs) * SumBy(pairs, LAMBDA p : X(p) * Y(p)) - SumBy(pairs, X) * SumBy(pairs, Y)
EstimateBeta(pairs) ==
    LET x(p) == p.x
        y(p) == p.y
        fit == [cov |-> Scatter(pairs, x, y), var |-> Scatter(pairs, y, y), own |-> Scatter(pairs, x, x)]
    IN  IF Len(pairs) < MinReturns \/ fit.var <= 0 \/ fit.own <= 0 THEN None ELSE fit
\* A fit that explains less than a fifth of what the holding does.
WeakFit(fit) == fit # None /\ 5 * fit.cov * fit.cov < fit.own * fit.var
\* The largest holdings; one whose history did not come has no series.
Tested(held) ==
    FirstOf(SortedBy(SelectSeq(held, LAMBDA h : h.value # None /\ h.value > 0), LAMBDA h : h.value, FALSE), MaxPositions)
Fit(l, bench) == IF l.series = None THEN None ELSE EstimateBeta(AlignedReturns(l.series, bench))
ApplyShock(legs, fits, shock) ==
    Impact([i \in DOMAIN legs |->
        [value |-> legs[i].value,
         ret |-> IF fits[i] = None THEN None ELSE (fits[i].cov * shock) \div fits[i].var]])

-----------------------------------------------------------------------------
Init == given \in BookInputs /\ answer = None
For(name) == given.name = name /\ answer = None
Answer(a) == answer' = a /\ UNCHANGED given

Analyse ==
    /\ For("book")
    /\ LET a == Attribution(given.rows)
           c == BookConcentration(MapSeq(given.rows, ValueOf))
           b == BetaBreakdown(given.rows)
       IN  Answer([attribution |-> a, concentration |-> c, beta |-> b,
                   said |-> AttributionNote(a, Len(given.rows)) \cup BetaNote(b)
                              \cup ConcentrationNote(c, SectorConcentration(given.sectors)),
                   sorted |-> [up \in BOOLEAN |-> SortRows(given.rows, "pnl", up)]])
Total == For("totals") /\ Answer(LiveTotals(given.rows, given.ticks, [value |-> 0, pnl |-> 0, day |-> 0]))
Record == For("history") /\ LET s == HistoryStats(given.points) IN Answer([stats |-> s, said |-> HistoryNote(given.points, s)])
Import == For("csv") /\ Answer(ParseCsv(given.lines))
Unmodelled(l, fit) == l.series = None \/ fit = None
Stress ==
    /\ For("stress")
    /\ LET windows == WorstWindows(given.bench, given.bars, 2)
           legs == Tested(given.legs)
           fits == MapSeq(legs, LAMBDA l : Fit(l, given.bench))
       IN
       Answer([windows |-> windows, weak |-> {i \in DOMAIN fits : WeakFit(fits[i])},
               left |-> {i \in DOMAIN legs : Unmodelled(legs[i], fits[i])}, tested |-> legs,
               replays |-> MapSeq(windows, LAMBDA i :
                              Replay(legs, given.bench[i].day, given.bench[i + given.bars].day)),
               shocked |-> ApplyShock(legs, fits, -10)])

Next == Analyse \/ Total \/ Record \/ Import \/ Stress

Done(name) == given.name = name /\ answer # None

-----------------------------------------------------------------------------
\* The shares of the positions are of all the movement, so that they add up
\* to it and none exceeds it, whatever the gains and losses net to; some
\* positions, as many as are said to make half of it, do make it, and no fewer
\* could (portfolioAnalytics.ts:81-91, 117-125).
SharesAddUp ==
    Done("book") =>
        LET a == answer.attribution IN
        /\ a.gross > 0 => Magnitude(SumBy(a.rows, LAMBDA c : c.share) - Percent) <= Len(a.rows)
        /\ \A c \in Range(a.rows) : c.share \in 0..Percent
        /\ a.total = SumBy(Winners(a), LAMBDA c : c.pnl) + SumBy(Losers(a), LAMBDA c : c.pnl)
        /\ a.half # None <=> a.gross > 0
        /\ \A some \in SUBSET DOMAIN a.rows :
              a.gross > 0 /\ 2 * SumOf([i \in DOMAIN a.rows |-> IF i \in some THEN Magnitude(a.rows[i].pnl) ELSE 0]) >= a.gross
                  => Cardinality(some) >= a.half
        /\ a.gross > 0 => \E some \in SUBSET DOMAIN a.rows :
              /\ Cardinality(some) = a.half
              /\ 2 * SumOf([i \in DOMAIN a.rows |-> IF i \in some THEN Magnitude(a.rows[i].pnl) ELSE 0]) >= a.gross
        /\ "one position" \in answer.said => \E c \in Range(a.rows) : 2 * c.share >= Percent
        /\ "some excluded" \in answer.said =>
              \E r \in Range(given.rows) : r.price = None /\ r.pnl = None
        /\ \A up \in BOOLEAN :
              LET s == answer.sorted[up] IN
              /\ Len(s) = Len(given.rows) /\ Range(s) = Range(given.rows)
              /\ \A i, j \in DOMAIN s : i < j /\ PnlOf(s[i]) = None => PnlOf(s[j]) = None

\* The effective number of positions is between one and the number of priced
\* ones, and a beta is a mean of those that are known: never outside them.
BookIsOne ==
    Done("book") =>
        LET c == answer.concentration
            b == answer.beta
        IN  /\ c.band # "unknown" => c.sq <= c.total * c.total /\ c.total * c.total <= c.positions * c.sq
                                     /\ c.top[1] <= c.top[3] /\ c.top[5] <= c.total
            /\ b.weighted # None =>
                  \A n \in -9..9 :
                     /\ (\A r \in Range(b.rows) : r.beta <= n) => b.weighted <= n * b.covered
                     /\ (\A r \in Range(b.rows) : r.beta >= n) => b.weighted >= n * b.covered
            /\ b.covered <= b.total /\ ("partly covered" \in answer.said => b.missing > 0)
            /\ "behaves like" \in answer.said <=> c.positions > 0 /\ c.total > 0

\* What the positions supply adds up to the beta of the book
\* (portfolioAnalytics.ts:263-264, 336-340).  It does so only while every
\* position has a beta: the parts are of the whole book, their sum of what is
\* covered.
BetaIsSupplied ==
    Done("book") /\ answer.beta.weighted # None =>
        LET b == answer.beta IN
        SumBy(b.rows, LAMBDA r : r.pull) * b.covered = b.weighted * b.total

\* The totals are the sums of the rows below them, while every tick that is
\* not a seed has a price (page.tsx:31-39, 86-101).
TotalsOfRows ==
    Done("totals") /\ (\E i \in DOMAIN given.rows : RowOf(given.rows[i], given.ticks[i]).value # None) =>
        LET row(i) == RowOf(given.rows[i], given.ticks[i])
            sum(Op(_)) == SumOf([i \in DOMAIN given.rows |-> IF row(i).value = None THEN 0 ELSE Op(i)])
        IN  answer = [value |-> sum(LAMBDA i : row(i).value), pnl |-> sum(LAMBDA i : row(i).pnl),
                      day |-> sum(LAMBDA i : Or(row(i).day, 0))]

\* A drawdown is never a gain and never less than the worst single step; every
\* line of a file is a row or is skipped.
RecordIsKept ==
    /\ Done("history") /\ "too short" \notin answer.said =>
          LET s == answer.stats IN
          /\ s.down <= 0 /\ (s.worst # None => s.down <= s.worst \/ s.worst >= 0)
          /\ "deep fall" \in answer.said => \E i \in DOMAIN given.points : given.points[i].value < given.points[1].value
                                                \/ \E j \in 1..i : given.points[j].value > given.points[i].value
    /\ Done("csv") /\ answer.rows # <<>> =>
          Len(answer.rows) + answer.skipped = Len(given.lines) - (IF Header(given.lines[1]) THEN 1 ELSE 0)

\* What the benchmark did from bar i on, over as many bars as a window has.
BenchReturn(i) ==
    ShareOf(given.bench[i + given.bars].close, given.bench[i].close, Percent) - Percent

\* The worst windows are apart and the first is the worst there is: a window
\* that was not taken overlaps a worse one that was, or comes after all of
\* them; what a book would lose lies between its worst and its best holding and
\* counts the holdings with a history only (stress.ts:47-86, 99-101, 137-148).
StressIsOfTheBook ==
    Done("stress") =>
        /\ \A i, j \in DOMAIN answer.windows : i # j => Magnitude(answer.windows[i] - answer.windows[j]) >= given.bars
        /\ \A i \in 1..(Len(given.bench) - given.bars) :
              given.bench[i].close > 0 /\ given.bench[i + given.bars].close > 0 =>
                 LET taken == answer.windows
                     worse(u) == BenchReturn(u) <= BenchReturn(i)
                 IN  /\ taken # <<>> /\ worse(taken[1])
                     /\ \/ \E u \in Range(taken) : Magnitude(u - i) < given.bars /\ worse(u)
                        \/ Len(taken) = 2 /\ \A u \in Range(taken) : worse(u)
        /\ \A r \in Range(answer.replays) \cup {answer.shocked} :
              /\ r.modelled <= r.total
              /\ r.worst = None => r.pnl = 0 /\ r.modelled = 0
              /\ r.total = SumBy(answer.tested, LAMBDA l : l.value)
              /\ answer.left = {} => answer.shocked.modelled = answer.shocked.total
              /\ answer.weak # {} => answer.shocked.modelled > 0
              /\ r.worst # None => r.worst * r.modelled <= r.pnl /\ r.pnl <= r.best * r.modelled
=============================================================================
