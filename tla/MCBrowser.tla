--------------------------- MODULE MCBrowser ---------------------------------
(***************************************************************************)
(* The working pages of the browser (Browser), small; or no page is open,  *)
(* and what the pages compute is computed, over all small inputs: `given'  *)
(* is one of them and `answer' what the code makes of it.  Safety; the     *)
(* account pages, and that requests end, are checked by MCBrowserLive.     *)
(***************************************************************************)
EXTENDS Browser, TLC

\* Nothing tells the tickers of notes and research from each other.
CONSTANTS ta, tb
Interchangeable == Permutations(Tickers)

VARIABLES given, answer

calculation == <<given, answer>>
vars == <<page, srv, given, answer>>

SeqsUpTo(S, n) == UNION {[1..k -> S] : k \in 0..n}

\* Three companies, one under two names, and one that has only a short name.
ChainNames == {<<"acme">>, <<"acme", "foods">>, <<"acme", "steel">>, <<"acme", "inc">>, <<"ab">>}
ChainNodes ==
    {[role |-> r, words |-> w, ticker |-> t, revenue |-> v, cogs |-> None, usd |-> None, verified |-> v = 30] :
        r \in {"supplier", "customer"}, w \in ChainNames, t \in {None, "AC"}, v \in {20}}
    \cup [role : {"supplier"}, words : {<<"acme">>, <<"ab">>}, ticker : {"ZE"}, revenue : {30}, cogs : {None}, usd : {None}, verified : {TRUE}]
FewNodes ==
    {[role |-> r, words |-> w, ticker |-> None, revenue |-> v, cogs |-> None, usd |-> None, verified |-> FALSE] :
        r \in {"supplier", "customer"}, w \in {<<"acme">>, <<"acme", "foods">>, <<"zenith">>}, v \in {20, 26}}
FiguredNodes ==
    {[role |-> r, words |-> w, ticker |-> None, revenue |-> v, cogs |-> c, usd |-> 5, verified |-> v # None] :
        r \in {"supplier", "customer"}, w \in {<<"acme">>, <<"acme", "foods">>, <<"acme", "steel">>, <<"ab">>},
        v \in {None, 30}, c \in {None, 10, 40}}
ChainRows ==
    {[key |-> t, role |-> r, country |-> IF t = "AC" THEN "fr" ELSE None, ticker |-> t, revenue |-> v, cogs |-> v, usd |-> u] :
        t \in {"AC", "ZE", None}, r \in {"supplier", "customer"}, v \in {None, 10, 30}, u \in {None, 7}}
Headlines == {<<"subject", "buys", "acme">>, <<"acme", "foods", "grows">>, <<"acme", "steel", "drops", "subject">>}
Reported == {<<[key |-> <<"acme">>, count |-> 1], [key |-> <<"acme", "foods">>, count |-> 2], [key |-> <<"zenith">>, count |-> 1]>>}
ChainInputs ==
    [name : {"merge"}, nodes : SeqsUpTo(ChainNodes, 3)]
    \cup [name : {"diff"}, nodes : SeqsUpTo(FewNodes, 2), base : SeqsUpTo({n \in FewNodes : n.role = "supplier"}, 2)]
    \cup [name : {"table"}, nodes : SeqsUpTo(FiguredNodes, 2)]
    \cup [name : {"trade"}, rows : SeqsUpTo(ChainRows, 2), notional : {100},
          lines : {[revenue |-> None, cogs |-> None], [revenue |-> 50, cogs |-> 80]}, depth : {("AC" :> 20) @@ ("ZE" :> d) : d \in {None, 1, 400}}]
    \cup [name : {"draw"}, nodes : SeqsUpTo(FiguredNodes, 2), want : {"revenue"}, subject : {<<"subject">>},
          held : {{"AC"}}, deals : {<<[symbol |-> "AF"]>>}, counts : Reported, news : {<<l>> : l \in Headlines}]
    \cup [name : {"draw"}, nodes : SeqsUpTo(FiguredNodes, 2), want : {"usd"}, subject : {<<"subject">>},
          held : {{}}, deals : {<<>>}, counts : Reported, news : {<<>>}]

Chain == INSTANCE ValueChainData WITH Inputs <- ChainInputs, LegalForms <- {"inc"}, Short <- {<<"ab">>}, Everyday <- {<<"target">>},
                                      SymbolOf <- (<<"acme", "foods">> :> "AF"), MostDrawn <- [supplier |-> 1, customer |-> 2, competitor |-> 1]

Positions == {[qty |-> 2, cost |-> 3, price |-> p, value |-> v, pnl |-> g, beta |-> b, day |-> 1] :
                  p \in {None, 1, 5}, v \in {None, 4}, g \in {None, -2}, b \in {None, -1, 2}}
FewPositions == {[qty |-> q, cost |-> 3, price |-> p, value |-> IF p = None THEN None ELSE q * p, pnl |-> IF p = None THEN None ELSE q * (p - 3), beta |-> None, day |-> IF p = None THEN None ELSE d] :
                  q \in {1, 2}, p \in {None, 5}, d \in {None, 1}}
Ticks == {None} \cup {[ltp |-> l, chg |-> c, seeded |-> s] : l \in {None, 7}, c \in {None, -1}, s \in BOOLEAN}
LiveTicks == {t \in Ticks : t = None \/ t.seeded \/ t.ltp # None}
Points == {[value |-> v, cost |-> c] : v \in {0, 10, 20}, c \in {0, 15}}
Lines == {<<"acme", "2", "3">>, <<"acme", "-1", "3">>, <<"acme", "2">>, <<"ticker", "quantity", "cost">>, <<"cost", "ticker", "qty">>, <<"ticker", "cost">>, <<"2", "acme", "2">>}
Series(closes) == [i \in DOMAIN closes |-> [day |-> i, close |-> closes[i]]]
Closes == [1..5 -> {10, 12}] \cup {<<10, 0, 10, 9, 11>>}
Legs == {<<[value |-> 5, series |-> u], [value |-> v, series |-> None], [value |-> 10, series |-> s]>> :
           s \in {None, Series(<<8, 9, 7, 9, 8>>), <<[day |-> 2, close |-> 5], [day |-> 4, close |-> 6]>>}, u \in {None, Series(<<4,4,4,4,4>>)}, v \in {None, 3, 7}}
PortfolioInputs ==
    [name : {"book"}, rows : SeqsUpTo(Positions, 2), sectors : {<<>>, <<60, 40>>, <<50, None, 25, 25>>}]
    \cup [name : {"book"}, rows : [1..3 -> {p \in Positions : p.value = None /\ p.beta = None}], sectors : {<<>>}]
    \cup [name : {"totals"}, rows : SeqsUpTo(FewPositions, 1), ticks : [1..1 -> LiveTicks]]
    \cup [name : {"totals"}, rows : [1..2 -> FewPositions], ticks : [1..2 -> LiveTicks]]
    \cup [name : {"history"}, points : SeqsUpTo(Points, 4)]
    \cup [name : {"csv"}, lines : SeqsUpTo(Lines, 3)]
    \cup [name : {"stress"}, bench : {Series(b) : b \in Closes}, bars : 1..2, legs : Legs]

Book == INSTANCE PortfolioData WITH BookInputs <- PortfolioInputs, MinReturns <- 3, MaxPositions <- 2,
                                    Numbers <- ("2" :> 2) @@ ("3" :> 3) @@ ("-1" :> -1)

-----------------------------------------------------------------------------
Strikes == [kind : {"call", "put"}, dir : {1, -1}, strike : {48, 96}, qty : {1, 2}]
Quotes ==
    {[bid |-> None, ask |-> None, last |-> 8, volume |-> 3, oi |-> 6], [bid |-> 10, ask |-> 10, last |-> None, volume |-> 2, oi |-> 5],
     [bid |-> 0, ask |-> 8, last |-> 5, volume |-> 0, oi |-> None], [bid |-> 4, ask |-> 8, last |-> None, volume |-> None, oi |-> 9]}
Quoted(k, v, q) == [strike |-> k, iv |-> v] @@ q
Contracts ==
    {Quoted(k, v, q) : k \in {40, 50, 60, None}, v \in {2, None}, q \in Quotes}
    \cup {Quoted(k, 30, q) : k \in {40, 60}, q \in {r \in Quotes : r.bid = 10}}
FewContracts == {c \in Contracts : c.oi # 5 /\ (c.strike = None \/ c.iv # None)}
OptionInputs ==
    [name : {"structure"}, legs : SeqsUpTo(Strikes, 2), spot : {96}, time : {0, 24, 48}]
    \cup [name : {"preset"}, preset : {"long_put", "bull_call_spread", "strangle", "iron_condor", "butterfly", "collar"}, spot : 40..160 \cup {199, 250, 999}]
    \cup [name : {"chain"}, calls : SeqsUpTo(Contracts, 1), puts : SeqsUpTo(FewContracts, 2), spot : {50}, expiry : {0}]
    \cup [name : {"chain"}, calls : SeqsUpTo(Contracts, 1), puts : SeqsUpTo(FewContracts, 2), spot : {55}, expiry : {9}]
    \cup [name : {"chain"}, calls : SeqsUpTo(FewContracts, 2), puts : SeqsUpTo(Contracts, 1), spot : {50}, expiry : {None}]

Options == INSTANCE OptionsData WITH Grid <- {2 * i : i \in 0..120}

-----------------------------------------------------------------------------
Bars == {<<[year |-> 1, close |-> 1]>> \o s : s \in [1..2 -> [year : {1}, close : {0, 1, 2}]]}
LaterBars == {s \o t : s \in Bars, t \in [1..3 -> [year : {2}, close : {0, 1, 2}]] \cup {<<[year |-> 2, close |-> None], [year |-> 2, close |-> 2]>>}}
Strategies ==
    [strategy : {"sma_cross"}, a : {2}, b : {3}, cost : {0, 1}] \cup [strategy : {"donchian"}, a : {2}, b : {2, 3}, cost : {0}]
    \cup [strategy : {"rsi_reversion"}, a : {2}, b : {40}, cost : {1}]
BacktestInputs ==
    [name : {"backtest"}, bars : Bars \cup LaterBars, opts : Strategies]
    \cup [name : {"sweep"}, bars : {b \in LaterBars : b[2].close = 2}, opts : {r \in Strategies : r.strategy = "donchian"}]

Backtest == INSTANCE BacktestData WITH MinBars <- 3, Alternatives <- {0, 3}

-----------------------------------------------------------------------------
Cells == [p : {None, 1, 2}, q : {None, 1}]
FewCells == {c \in Cells : c.p # 2}
Headings == [words : {{}, {"a", "b", "c", "the"}, {"b", "c", "d", "a"}, {"c", "d", "b", "e"}, {"the", "d", "e", "b"}},
             source : {None, "s"}, publisher : {None, "t"}, at : {None, 0, 100}]
FewHeadings == {h \in Headings : h.source # h.publisher}
Recent == {h \in Headings : h.at = 100 /\ h.source = None}
Tags == [words : {{}, {"a", "b", "c", "the"}, {"c", "d", "b", "e"}}, sentiment : {"bull", "bear"}]
ListInputs ==
    [name : {"arrange"}, rows : SeqsUpTo(FewCells, 2), now : SeqsUpTo(Cells, 2) \cup [1..3 -> {c \in Cells : c.q # None}], size : {1, 2},
     ops : {<<<<"turn", 1>>, <<"sort", "p">>, <<"turn", 1>>>>, <<<<"sort", "p">>, <<"sort", "p">>, <<"turn", 1>>>>,
            <<<<"turn", 1>>, <<"filter", 1>>, <<"turn", 1>>>>}]
    \cup [name : {"screen"}, rows : SeqsUpTo(FewCells, 3), scanned : {None, 0, 10}, evaluable : {None, 4, 10},
          meta : {None, [coverage |-> [p |-> 1, q |-> 5], evaluable |-> 10]}]
    \cup [name : {"feed"}, items : SeqsUpTo(FewHeadings, 2), now : {100}, tagged : SeqsUpTo(Tags, 1), strict : {TRUE}, dropped : {0},
          filter : {[source |-> None, words |-> {"b"}, within |-> 1], [source |-> "s", words |-> {"b"}, within |-> 0]}]
    \cup [name : {"feed"}, items : [1..3 -> Recent], now : {300}, tagged : SeqsUpTo(Tags, 1), strict : {FALSE}, dropped : {None, 2},
          filter : [source : {None}, words : {{}}, within : {0}]]

Rows == INSTANCE ListsData WITH Stopwords <- {"the"}, Hour <- 20

-----------------------------------------------------------------------------
NothingGiven == given = [name |-> "none"] /\ answer = None
Given == Chain!Init \/ Book!Init \/ Options!Init \/ Backtest!Init \/ Rows!Init
Answered == Chain!Next \/ Book!Next \/ Options!Next \/ Backtest!Next \/ Rows!Next


\* Portfolio: what is attributed, totalled, recorded, imported and stressed.
BookHolds == Book!SharesAddUp /\ Book!BookIsOne /\ Book!TotalsOfRows /\ Book!RecordIsKept /\ Book!StressIsOfTheBook


-----------------------------------------------------------------------------
\* What the constants that are functions or sequences are (the bounds by page
\* are named in Browser).
Bounds == [lists |-> 1, map |-> 3, board |-> 2, hook |-> 3, terminal |-> 2, research |-> 3, alert |-> 2, folio |-> 2]
Stamps == [research |-> 3, alert |-> 1]
SymbolsOfPreset == [us |-> <<"n">>]
PresetsOfHome == [IN |-> <<"us">>]
Delays == [live |-> 1, reconnecting |-> 3]
Rail == <<"DES", "FA">>

WorkingPages == ~OpenIn(SignInNames \cup ListNames)
NoPage == page = [name |-> "none"] /\ srv = None
Init == (PagesInit /\ WorkingPages /\ NothingGiven) \/ (NoPage /\ Given)
Next == (PagesNext /\ UNCHANGED calculation) \/ (Answered /\ UNCHANGED <<page, srv>>)
Spec == Init /\ [][Next]_vars
OpenSpec == (PagesInit /\ WorkingPages /\ NothingGiven) /\ [][PagesNext /\ UNCHANGED calculation]_vars
=============================================================================
