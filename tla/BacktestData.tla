---------------------------- MODULE BacktestData ----------------------------
(***************************************************************************)
(* The strategy backtester (lib/backtest.ts, components/Backtester.tsx).   *)
(*                                                                         *)
(* Prices and equity are kept as their logarithms: what compounds in the   *)
(* code adds up here, and a gain is still a gain.  A cost is what is taken *)
(* off the logarithm of the equity.  The two rules on exponential          *)
(* averages (ema_cross, macd_cross) are left out: they differ from the     *)
(* crossing of plain averages only in how they weigh the past.             *)
(***************************************************************************)
EXTENDS Figures

CONSTANTS
    BacktestInputs, \* the computations to run: [name |-> ..., ...]
    MinBars,        \* bars below which nothing is tested
    Alternatives    \* other prices a bar could have closed at

VARIABLES given, answer

vars == <<given, answer>>

-----------------------------------------------------------------------------
(* A bar: [year, close].  The options: [strategy, a, b, cost].              *)

Usable(bars) == SelectSeq(bars, LAMBDA b : b.close # None)

\* The mean of the last n closes, times n; None while there are fewer.
WindowSum(closes, n, i) == IF i < n THEN None ELSE SumOf(SubSeq(closes, i - n + 1, i))
\* Wilder's average of the moves of n bars: the mean of the first n, and from
\* then on the average before it weighs n - 1 times the new move.  It is kept
\* times n for every bar it was divided at, so that it stays an integer.
Wilder(Move(_), n, i) ==
    LET kept[j \in 1..i] == IF j = 1 THEN 0 ELSE IF j <= n + 1 THEN kept[j - 1] + Move(j)
                            ELSE (n - 1) * kept[j - 1] + n^(j - n - 1) * Move(j)
    IN  kept[i]
\* The oscillator, as the rises and the falls it is the share of; without a
\* fall it is 100.
Rsi(closes, n, i) ==
    IF i <= n THEN None
    ELSE [up |-> Wilder(LAMBDA j : Larger(closes[j] - closes[j - 1], 0), n, i),
          down |-> Wilder(LAMBDA j : Larger(closes[j - 1] - closes[j], 0), n, i)]
Below(r, level) == r # None /\ r.down # 0 /\ 100 * r.up < level * (r.up + r.down)
Above(r, level) == r # None /\ (IF r.down = 0 THEN 100 > level ELSE 100 * r.up > level * (r.up + r.down))

\* Held from one bar to the next until something ends it.
Latched(n, Enters(_), Leaves(_)) ==
    LET held[i \in 0..n] == IF i = 0 THEN 0 ELSE IF Leaves(i) THEN 0 ELSE IF Enters(i) THEN 1 ELSE held[i - 1]
    IN  Kept([i \in 1..n |-> held[i]])
SignalsFor(closes, opts) ==
    LET n == Len(closes)
        fast == Larger(2, opts.a)
        slow == Larger(fast + 1, opts.b)
        cross(i) == WindowSum(closes, slow, i) # None /\ WindowSum(closes, fast, i) * slow > WindowSum(closes, slow, i) * fast
        rsi(i) == Rsi(closes, Larger(2, opts.a), i)
        cheap(i) == Below(rsi(i), opts.b)
        dear(i) == Above(rsi(i), 100 - opts.b)
        high(i) == i > fast /\ \A j \in (i - fast)..(i - 1) : closes[i] > closes[j]
        low(i) == i > Larger(2, opts.b) /\ \A j \in (i - Larger(2, opts.b))..(i - 1) : closes[i] < closes[j]
    IN  CASE opts.strategy = "sma_cross" -> Kept([i \in 1..n |-> IF cross(i) THEN 1 ELSE 0])
          [] opts.strategy = "rsi_reversion" -> Latched(n, cheap, dear)
          [] opts.strategy = "donchian" -> Latched(n, high, low)

Positions(signal) == <<0>> \o Front(signal)
Changed(position, i) == i > 1 /\ position[i] # position[i - 1]
Curve(closes, position, cost) ==
    LET net(i) == position[i] * (closes[i] - closes[i - 1]) - (IF Changed(position, i) THEN cost ELSE 0)
        equity[i \in DOMAIN closes] == IF i = 1 THEN 0 ELSE equity[i - 1] + net(i)
    IN  Kept(equity)

\* One trade for each time the position is taken up; the last may be open.
Trades(closes, position, equity) ==
    LET n == Len(closes)
        taken == {i \in DOMAIN closes : Changed(position, i) /\ position[i] = 1}
        left(i) == {j \in (i + 1)..n : Changed(position, j) /\ position[j] = 0}
        exit(i) == IF left(i) = {} THEN n ELSE CHOOSE j \in left(i) : \A k \in left(i) : j <= k
        trade(i) == [entry |-> i, exit |-> exit(i), open |-> left(i) = {}, entryPx |-> closes[i],
                     exitPx |-> IF left(i) = {} THEN None ELSE closes[exit(i)], ret |-> equity[exit(i)] - equity[i - 1]]
    IN  MapSeq(SetToSortSeq(taken, <), trade)

MaxDrawdown(equity) ==
    LET peak(i) == Greatest(SubSeq(equity, 1, i)) IN Least([i \in DOMAIN equity |-> equity[i] - peak(i)])
StatsOf(closes, position, equity, trades) ==
    LET closed == MapSeq(SelectSeq(trades, LAMBDA t : ~t.open), LAMBDA t : t.ret)
        wins == SelectSeq(closed, LAMBDA r : r > 0)
        losses == SelectSeq(closed, LAMBDA r : r <= 0)
        known(s, v) == IF s = <<>> THEN None ELSE v
    IN  [total |-> equity[Len(equity)], hold |-> closes[Len(closes)] - closes[1],
         down |-> MaxDrawdown(equity), holdDown |-> MaxDrawdown(closes),
         trades |-> Len(closed), wins |-> known(closed, Len(wins)),
         won |-> SumOf(wins), lost |-> -SumOf(losses), factor |-> SumOf(losses) < 0,
         best |-> known(closed, Greatest(closed)), worst |-> known(closed, Least(closed)),
         exposure |-> SumOf(position)]
RunBacktest(bars, opts) ==
    LET clean == Usable(bars)
        closes == MapSeq(clean, LAMBDA b : b.close)
        position == Positions(SignalsFor(closes, opts))
        equity == Curve(closes, position, Larger(0, opts.cost))
        trades == Trades(closes, position, equity)
    IN  IF Len(clean) < MinBars THEN None
        ELSE [bars |-> clean, equity |-> equity, hold |-> MapSeq(closes, LAMBDA c : c - closes[1]),
              position |-> position, trades |-> trades, stats |-> StatsOf(closes, position, equity, trades)]

\* The same rule with other parameters, and the cell that did best.
Sweep(bars, opts, as, bs) ==
    LET cell(a, b) == [a |-> a, b |-> b, res |-> RunBacktest(bars, [opts EXCEPT !.a = a, !.b = b])]
    IN  SelectSeq(FlattenSeq(MapSeq(as, LAMBDA a : MapSeq(bs, LAMBDA b : cell(a, b)))), LAMBDA c : c.res # None)
BestCell(cells) == SortedBy(cells, LAMBDA c : c.res.stats.total, FALSE)[1]
GridAround(centre, step, count) ==
    LET at(k) == centre + (k - 1 - count \div 2) * step
    IN  SelectSeq([k \in 1..count |-> at(k)], LAMBDA v : v > 1)

\* Fitted on the first six tenths, and judged on the rest.
SplitSample(bars, opts) ==
    LET clean == Usable(bars)
        cut == (6 * Len(clean)) \div 10
        judged(a, b) ==
            [first |-> a, second |-> b, decay |-> b.stats.total - a.stats.total,
             read |-> IF b.stats.total <= 0 /\ a.stats.total > 0 THEN "that window"
                      ELSE IF b.stats.total > b.stats.hold THEN "beats holding" ELSE "survives"]
    IN  IF cut < MinBars \/ Len(clean) - cut < MinBars THEN [first |-> None, second |-> None, decay |-> None, read |-> "too short"]
        ELSE judged(RunBacktest(SubSeq(clean, 1, cut), opts), RunBacktest(SubSeq(clean, cut + 1, Len(clean)), opts))

\* A year begins where the one before it ended.
YearlyReturns(res) ==
    LET years == SetToSortSeq({b.year : b \in Range(res.bars)}, <)
        of(y) == {i \in DOMAIN res.bars : res.bars[i].year = y}
        gain(curve, y) == curve[Max(of(y))] - curve[Larger(1, Min(of(y)) - 1)]
    IN  MapSeq(years, LAMBDA y : [year |-> y, own |-> gain(res.equity, y), hold |-> gain(res.hold, y)])
YearlyNote(rows) ==
    LET total == SumBy(rows, LAMBDA r : r.own)
        best == SortedBy(rows, LAMBDA r : r.own, FALSE)[1].own
    IN  IF Len(rows) < 2 THEN {"too short"}
        ELSE {"beat"} \cup Said({<<"one good year", total # 0 /\ best > 0 /\ total > 0 /\ 100 * best > 60 * total>>})

\* The stretches that are shaded: from where a position is taken up to where it is left.
Bands(position) ==
    LET n == Len(position)
        starts == {i \in 1..n : position[i] = 1 /\ (i = 1 \/ position[Larger(1, i - 1)] = 0)}
        ends(i) == {j \in i..n : position[j] = 0}
    IN  {[from |-> i, to |-> IF ends(i) = {} THEN n ELSE Min(ends(i))] : i \in starts}

-----------------------------------------------------------------------------
Init == given \in BacktestInputs /\ answer = None
For(name) == given.name = name /\ answer = None
Answer(a) == answer' = a /\ UNCHANGED given

Test ==
    /\ For("backtest")
    /\ \E res \in {RunBacktest(given.bars, given.opts)} :
       \E years \in {IF res = None THEN <<>> ELSE YearlyReturns(res)} :
          Answer([res |-> res, split |-> SplitSample(given.bars, given.opts), years |-> years,
                  said |-> IF res = None THEN {} ELSE YearlyNote(years),
                  bands |-> IF res = None THEN {} ELSE Bands(res.position)])
RunSweep ==
    /\ For("sweep")
    /\ \E cells \in {Sweep(given.bars, given.opts, GridAround(given.opts.a, 1, 3), GridAround(given.opts.b, 1, 3))} :
          Answer([cells |-> cells, best |-> IF cells = <<>> THEN None ELSE BestCell(cells)])
Next == Test \/ RunSweep

Done(name) == given.name = name /\ answer # None
Tested == Done("backtest") /\ answer.res # None

-----------------------------------------------------------------------------
\* "No same-bar fills, so the engine cannot buy a move it only knew about
\* after the fact" (backtest.ts:6-11): what a bar earns was decided before it
\* closed, and nothing that comes after a bar changes what was earned by then.
NothingForeseen ==
    Tested =>
        LET res == answer.res
            bars == res.bars
        IN  \A i \in DOMAIN bars :
               /\ \A v \in Alternatives :
                     RunBacktest([bars EXCEPT ![i].close = v], given.opts).position[i] = res.position[i]
               /\ i >= MinBars => RunBacktest(SubSeq(bars, 1, i), given.opts).equity = SubSeq(res.equity, 1, i)

\* The trades in the list, each with the costs of taking it up and of leaving
\* it, make all of the result; so do the years, of the rule and of holding; the
\* shaded stretches are those in the market, one for each trade of the list;
\* what was won and lost is of the trades that were closed, one for each stretch
\* that was left, and only the last trade can be open (backtest.ts:275-305,
\* 314-332, 464-490; Backtester.tsx:57-63, 356-357).
ResultIsExplained ==
    Tested =>
        LET res == answer.res
            sum(s, Op(_)) == SumBy(s, Op)
        IN  /\ sum(res.trades, LAMBDA t : t.ret) = res.stats.total
            /\ sum(answer.years, LAMBDA y : y.own) = res.stats.total
            /\ sum(answer.years, LAMBDA y : y.hold) = res.stats.hold
            /\ \A i \in DOMAIN res.position : res.position[i] = 1 => \E b \in answer.bands : i \in b.from..b.to
            /\ Cardinality(answer.bands) = Len(res.trades)
            /\ res.stats.exposure = 0 <=> res.trades = <<>>
            /\ res.stats.trades = Cardinality({b \in answer.bands : res.position[b.to] = 0})
            /\ \A i \in DOMAIN res.trades : res.trades[i].open => i = Len(res.trades)
            /\ res.stats.won - res.stats.lost + sum(res.trades, LAMBDA t : IF t.open THEN t.ret ELSE 0) = res.stats.total
            /\ res.stats.down <= Smaller(0, res.stats.total)
            /\ "one good year" \in answer.said => \E y \in Range(answer.years) : 2 * y.own > res.stats.total

\* A rule is judged only on what it was not fitted on, and what is ringed in a
\* sweep beats every other cell (backtest.ts:410-445; Backtester.tsx:119-133).
JudgedApart ==
    /\ Done("backtest") /\ answer.split.first # None =>
          /\ Len(answer.split.first.bars) + Len(answer.split.second.bars) = Len(answer.res.bars)
          /\ answer.split.first.equity = SubSeq(answer.res.equity, 1, Len(answer.split.first.bars))
          /\ "beats holding" = answer.split.read => answer.split.second.stats.total > answer.split.second.stats.hold
    /\ Done("sweep") /\ answer.best # None => \A c \in Range(answer.cells) : c.res.stats.total <= answer.best.res.stats.total

\* "It is acted on at bar i+1's close" (backtest.ts:8-9): a trade without
\* costs returns what lies between the prices the list shows for it.
TradesAtTheirPrices ==
    Tested /\ given.opts.cost = 0 =>
        \A t \in Range(answer.res.trades) : ~t.open => t.ret = t.exitPx - t.entryPx
=============================================================================
