---------------------------- MODULE OptionsData -----------------------------
(***************************************************************************)
(* What the option screens compute: the value, the payoff and the profile  *)
(* of a structure (lib/optionStrategy.ts), and what a chain says           *)
(* (lib/optionsRead.ts).                                                   *)
(*                                                                         *)
(* The lognormal is not computed: what time adds to an option is a convex  *)
(* curve that is highest at its strike, and what the market puts below a   *)
(* price grows with it.                                                    *)
(***************************************************************************)
EXTENDS Figures

CONSTANTS
    OptionInputs,   \* the computations to run: [name |-> ..., ...]
    Grid            \* the prices at which a structure is looked at

VARIABLES given, answer

vars == <<given, answer>>

-----------------------------------------------------------------------------
(* A leg: [kind, dir, strike, qty].  `time' is what time adds at the strike, *)
(* 0 at expiry or without volatility.                                        *)

Intrinsic(kind, strike, spot) == Larger(IF kind = "call" THEN spot - strike ELSE strike - spot, 0)
TimeValue(strike, spot, time) == Larger(time - Magnitude(spot - strike) \div 2, 0)
\* The share of the outcomes below a price, in percent.
Below(price) == Smaller(price \div 2, 100)

\* Value and delta, the delta in halves.
BsGreeks(kind, strike, spot, time) ==
    LET call == IF time = 0 THEN IF spot > strike THEN 2 ELSE 0
                ELSE IF spot <= strike - 2 * time THEN 0 ELSE IF spot >= strike + 2 * time THEN 2 ELSE 1
        put == IF time = 0 THEN IF spot < strike THEN -2 ELSE 0 ELSE call - 2
    IN  IF spot <= 0 \/ strike <= 0 THEN [price |-> None, delta |-> None]
        ELSE [price |-> Intrinsic(kind, strike, spot) + TimeValue(strike, spot, time),
              delta |-> IF kind = "call" THEN call ELSE put]
StrategyGreeks(legs, spot, time) ==
    LET greeks(l) == BsGreeks(l.kind, l.strike, spot, time)
    IN  [price |-> SumBy(legs, LAMBDA l : l.dir * l.qty * greeks(l).price),
         delta |-> SumBy(legs, LAMBDA l : l.dir * l.qty * greeks(l).delta)]
PayoffAt(legs, spot) == SumBy(legs, LAMBDA l : l.dir * l.qty * Intrinsic(l.kind, l.strike, spot))
PayoffCurve(legs, spot, time, lo, hi, steps) ==
    LET entry == StrategyGreeks(legs, spot, time).price
        at(i) == lo + ((hi - lo) * (i - 1)) \div (steps - 1)
    IN  [i \in 1..steps |-> [spot |-> at(i), expiry |-> PayoffAt(legs, at(i)) - entry,
                             now |-> StrategyGreeks(legs, at(i), time).price - entry]]

\* Every strike and a wing on each side; between two of them the payoff is a line.
Strikes(legs) == SetToSortSeq({l.strike : l \in Range(legs)}, <)
Wing(legs) == Larger(Greatest(Strikes(legs)) \div 2, 1)
Knots(legs) ==
    <<Larger(0, Least(Strikes(legs)) - Wing(legs))>> \o Strikes(legs) \o <<Greatest(Strikes(legs)) + Wing(legs)>>
Breakevens(knots, Pnl(_)) ==
    LET crossing(i) ==
            LET a == knots[i]
                fa == Pnl(a)
                fb == Pnl(knots[i + 1])
            IN  IF fa = 0 THEN {a}
                ELSE IF (fa < 0) # (fb < 0) /\ fb # 0 THEN {a + (-fa * (knots[i + 1] - a)) \div (fb - fa)} ELSE {}
        last == knots[Len(knots)]
    IN  UNION {crossing(i) : i \in 1..(Len(knots) - 1)} \cup (IF Pnl(last) = 0 THEN {last} ELSE {})
\* A structure with a slope beyond its last strike has no bound there.
Unbounded(legs, sign) ==
    LET slope(kind) == SumBy(legs, LAMBDA l : IF l.kind = kind THEN l.dir * l.qty ELSE 0)
    IN  sign * slope("call") > 0 \/ sign * slope("put") > 0
Analyse(legs, entry) ==
    LET pnl(s) == PayoffAt(legs, s) - entry
    IN  IF legs = <<>> THEN [debit |-> entry, breakevens |-> {}, profit |-> None, loss |-> None]
        ELSE [debit |-> entry, breakevens |-> Breakevens(Knots(legs), pnl),
              profit |-> IF Unbounded(legs, 1) THEN None ELSE Greatest(MapSeq(Knots(legs), pnl)),
              loss |-> IF Unbounded(legs, -1) THEN None ELSE Least(MapSeq(Knots(legs), pnl))]

\* The outcomes between two crossings all pay, or none does.
ProbProfit(legs, profile, time) ==
    LET bounds == <<0>> \o SetToSortSeq(profile.breakevens, <)
        n == Len(bounds)
        mid(i) == IF i = n THEN (3 * bounds[i]) \div 2 + 1 ELSE (bounds[i] + bounds[i + 1]) \div 2
        mass(i) == (IF i = n THEN 100 ELSE Below(bounds[i + 1])) - (IF bounds[i] = 0 THEN 0 ELSE Below(bounds[i]))
        pays(i) == PayoffAt(legs, mid(i)) - profile.debit > 0
    IN  IF profile.breakevens = {} \/ time = 0 THEN None
        ELSE Clamp(SumOf([i \in 1..n |-> IF pays(i) THEN mass(i) ELSE 0]), 0, 100)

-----------------------------------------------------------------------------
(* The structures on offer, their strikes in percent of the spot.           *)

PresetLeg(kind, dir, at, qty) == [kind |-> kind, dir |-> dir, at |-> at, qty |-> qty]
Presets == [
    long_call |-> <<PresetLeg("call", 1, 100, 1)>>,
    long_put |-> <<PresetLeg("put", 1, 100, 1)>>,
    bull_call_spread |-> <<PresetLeg("call", 1, 100, 1), PresetLeg("call", -1, 110, 1)>>,
    bear_put_spread |-> <<PresetLeg("put", 1, 100, 1), PresetLeg("put", -1, 90, 1)>>,
    straddle |-> <<PresetLeg("call", 1, 100, 1), PresetLeg("put", 1, 100, 1)>>,
    strangle |-> <<PresetLeg("call", 1, 110, 1), PresetLeg("put", 1, 90, 1)>>,
    iron_condor |-> <<PresetLeg("put", 1, 85, 1), PresetLeg("put", -1, 93, 1),
                      PresetLeg("call", -1, 107, 1), PresetLeg("call", 1, 115, 1)>>,
    butterfly |-> <<PresetLeg("call", 1, 92, 1), PresetLeg("call", -1, 100, 2), PresetLeg("call", 1, 108, 1)>>,
    covered_call |-> <<PresetLeg("call", -1, 105, 1)>>,
    protective_put |-> <<PresetLeg("put", 1, 95, 1)>>,
    collar |-> <<PresetLeg("put", 1, 95, 1), PresetLeg("call", -1, 105, 1)>>]

\* The 1-2.5-5 ladder, in hundredths: the highest rung not above a fortieth of the spot.
Rungs == {100, 250, 500, 1000, 2500, 5000, 10000, 25000}
StrikeStep(spot) == CHOOSE r \in Rungs : 40 * r <= 100 * spot /\ \A q \in Rungs : 40 * q <= 100 * spot => q <= r
RoundToStep(x, step) == Rounded(x, step) * step
Laid(preset, spot, step) ==
    MapSeq(Presets[preset], LAMBDA l : [kind |-> l.kind, dir |-> l.dir, strike |-> RoundToStep(spot * l.at, step), qty |-> l.qty])

-----------------------------------------------------------------------------
(* A chain: rows of [strike, bid, ask, last, iv, oi, volume].               *)

Nearest(rows, spot) ==
    SortedBy(SelectSeq(rows, LAMBDA r : r.strike # None), LAMBDA r : Magnitude(r.strike - spot), TRUE)
Median(s) ==
    LET t == SortedBy(s, LAMBDA v : v, TRUE)
        m == Len(s) \div 2
    IN  IF s = <<>> THEN None ELSE IF Len(s) % 2 = 1 THEN t[m + 1] ELSE Rounded(t[m] + t[m + 1], 2)
IsItm(strike, spot, side) ==
    /\ strike # None /\ spot > 0
    /\ IF side = "calls" THEN strike < spot ELSE strike > spot
DaysToExpiry(expiry, now) == IF expiry = None THEN None ELSE expiry - now

PriceOf(r) ==
    IF r.bid # None /\ r.ask # None /\ Or(r.ask, 0) > 0 /\ Or(r.bid, 0) >= 0 THEN Rounded(r.bid + r.ask, 2) ELSE r.last
NoMove(problem) == [pct |-> None, amount |-> None, strike |-> None, problem |-> problem]
ExpectedMove(calls, puts, spot) ==
    LET c == Nearest(calls, spot)
        p == Nearest(puts, spot)
        quoted(r) == PriceOf(r) # None /\ Or(PriceOf(r), 0) > 0
    IN  IF spot <= 0 THEN NoMove("no spot")
        ELSE IF c = <<>> \/ p = <<>> THEN NoMove("one side")
        ELSE IF c[1].strike # p[1].strike THEN NoMove("different strikes")
        ELSE IF ~quoted(c[1]) \/ ~quoted(p[1]) THEN NoMove("not quoted")
        ELSE LET amount == PriceOf(c[1]) + PriceOf(p[1])
             IN  [pct |-> ShareOf(amount, spot, 100), amount |-> amount, strike |-> c[1].strike, problem |-> None]

\* An implied volatility in percent; one up to 3 is a fraction.
IvPct(r) == IF r.iv = None \/ Or(r.iv, 0) <= 0 THEN None ELSE IF r.iv <= 3 THEN 100 * r.iv ELSE r.iv
OtmAt(rows, spot, away, side) ==
    LET want == IF side = "calls" THEN spot + (spot * away) \div 100 ELSE spot - (spot * away) \div 100
        eligible == SelectSeq(rows, LAMBDA r :
                        r.strike # None /\ IvPct(r) # None /\ (IF side = "calls" THEN r.strike > spot ELSE r.strike < spot))
    IN  SortedBy(eligible, LAMBDA r : Magnitude(r.strike - want), TRUE)
IvSkew(calls, puts, spot) ==
    LET atm == Nearest(SelectSeq(calls, LAMBDA r : IvPct(r) # None), spot)
        put == OtmAt(puts, spot, 10, "puts")
        call == OtmAt(calls, spot, 10, "calls")
        points == IvPct(put[1]) - IvPct(call[1])
        read == IF points > 8 THEN "steep" ELSE IF points > 2 THEN "ordinary" ELSE IF points < -2 THEN "calls dearer" ELSE "flat"
    IN  [atm |-> IF atm = <<>> THEN None ELSE IvPct(atm[1]),
         points |-> IF put = <<>> \/ call = <<>> THEN None ELSE points,
         read |-> IF put = <<>> \/ call = <<>> THEN "thin" ELSE read]

\* The strike with the most open interest on its side of the spot; the first of equals.
Wall(rows, spot, above) ==
    LET beyond(r) == IF above THEN r.strike > spot ELSE r.strike < spot
        held == SortedBy(SelectSeq(rows, LAMBDA r : r.strike # None /\ r.oi # None /\ Or(r.oi, 0) > 0 /\ beyond(r)), LAMBDA r : r.oi, FALSE)
    IN  IF held = <<>> THEN None ELSE held[1].strike
OiProfile(calls, puts, spot) ==
    LET sum(rows) == SumBy(rows, LAMBDA r : Or(r.oi, 0))
        up == Wall(calls, spot, TRUE)
        down == Wall(puts, spot, FALSE)
        c == sum(calls)
        p == sum(puts)
    IN  [calls |-> c, puts |-> p, callWall |-> up, putWall |-> down,
         said |-> Said({<<"bracket", up # None /\ down # None>>, <<"one side", (up = None) # (down = None)>>,
                        <<"none", up = None /\ down = None>>, <<"puts heavy", c > 0 /\ 10 * p > 13 * c>>,
                        <<"calls heavy", c > 0 /\ 10 * p < 7 * c>>})]

Quoted(r) == r.bid # None /\ r.ask # None /\ Or(r.ask, 0) > 0 /\ Or(r.bid, 0) > 0 /\ Or(r.ask, 0) >= Or(r.bid, 0)
Tradability(rows) ==
    LET quoted == SelectSeq(rows, Quoted)
        spread == Median(MapSeq(quoted, LAMBDA r : Rounded(200 * (r.ask - r.bid), r.ask + r.bid)))
        idle == Len(SelectSeq(rows, LAMBDA r : Or(r.volume, 0) = 0))
    IN  [spread |-> spread, quoted |-> Len(quoted), total |-> Len(rows),
         untraded |-> IF rows = <<>> THEN None ELSE ShareOf(idle, Len(rows), 100),
         verdict |-> IF spread = None THEN "unknown"
                     ELSE IF spread <= 5 THEN "tradable" ELSE IF spread <= 20 THEN "wide" ELSE "illiquid"]
ChainNote(dte, t) ==
    {"european"} \cup Said({<<"expired", dte # None /\ Or(dte, 1) <= 0>>, <<"close in", dte # None /\ Or(dte, 8) \in 1..7>>,
                            <<"days left", dte # None /\ Or(dte, 0) > 7>>, <<"edge below the spread", t.verdict \in {"wide", "illiquid"}>>})

-----------------------------------------------------------------------------
Init == given \in OptionInputs /\ answer = None
For(name) == given.name = name /\ answer = None
Answer(a) == answer' = a /\ UNCHANGED given

Profile ==
    /\ For("structure")
    /\ LET entry == StrategyGreeks(given.legs, given.spot, given.time).price
           profile == Analyse(given.legs, entry)
       IN  Answer([profile |-> profile, delta |-> StrategyGreeks(given.legs, given.spot, given.time).delta,
                   pop |-> ProbProfit(given.legs, profile, given.time),
                   curve |-> PayoffCurve(given.legs, given.spot, given.time, (7 * given.spot) \div 10, (13 * given.spot) \div 10, 5)])
LayOut == For("preset") /\ Answer(Laid(given.preset, given.spot, StrikeStep(given.spot)))
ReadChain ==
    /\ For("chain")
    /\ LET trade == Tradability(given.calls \o given.puts)
           oi == OiProfile(given.calls, given.puts, given.spot)
       IN  Answer([move |-> ExpectedMove(given.calls, given.puts, given.spot),
                   skew |-> IvSkew(given.calls, given.puts, given.spot),
                   oi |-> oi, trade |-> trade, note |-> ChainNote(DaysToExpiry(given.expiry, 0), trade),
                   calls |-> MapSeq(given.calls, LAMBDA r : [itm |-> IsItm(r.strike, given.spot, "calls"), wall |-> oi.callWall # None /\ r.strike = oi.callWall]),
                   puts |-> MapSeq(given.puts, LAMBDA r : [itm |-> IsItm(r.strike, given.spot, "puts"), wall |-> oi.putWall # None /\ r.strike = oi.putWall])])

Next == Profile \/ LayOut \/ ReadChain

Done(name) == given.name = name /\ answer # None

-----------------------------------------------------------------------------
Pnl(s) == PayoffAt(given.legs, s) - answer.profile.debit
Crosses(s, t) == (Pnl(s) > 0) # (Pnl(t) > 0)

\* A bound that is shown is one at every price, a breakeven is one, and the
\* chance of a profit is the share of the outcomes that pay: as long as no
\* crossing lies beyond the wings (optionStrategy.ts:178-233, 367-386).
ProfileIsOfThePayoff ==
    Done("structure") /\ given.legs # <<>> =>
        LET p == answer.profile
            lo == Knots(given.legs)[1]
            hi == Knots(given.legs)[Len(Knots(given.legs))]
            inside == \A s \in Grid : s < lo \/ s >= hi => ~Crosses(s, s + 2)
            paying == {s \in Grid : Pnl(s + 1) > 0}
        IN  /\ \A s \in Grid : (p.profit # None => Pnl(s) <= p.profit) /\ (p.loss # None => Pnl(s) >= p.loss)
            /\ \A b \in p.breakevens : Pnl(b) = 0
            /\ answer.pop # None /\ inside =>
                  answer.pop = FoldSet(LAMBDA s, n : n + Below(s + 2) - Below(s), 0, paying)
            /\ \A c \in Range(answer.curve) : c.spot \in p.breakevens => c.expiry = 0

\* However low or high the spot, rounding to the step of the strikes never
\* puts two legs of a structure on one strike of one kind
\* (optionStrategy.ts:337-345).
PresetsStandApart ==
    Done("preset") => \A i, j \in DOMAIN answer : i # j => answer[i].kind # answer[j].kind \/ answer[i].strike # answer[j].strike

\* The walls stand on either side of the spot, so that the contracts marked as
\* walls are never in the money; a move is quoted off one strike, and an edge
\* is called untradable only where somebody quotes.
ChainReads ==
    Done("chain") =>
        /\ \A r \in Range(answer.calls) \cup Range(answer.puts) : ~(r.itm /\ r.wall)
        /\ "bracket" \in answer.oi.said => answer.oi.putWall < given.spot /\ given.spot < answer.oi.callWall
        /\ answer.move.problem = None => \E c \in Range(given.calls), p \in Range(given.puts) :
              c.strike = answer.move.strike /\ p.strike = answer.move.strike /\ answer.move.amount = PriceOf(c) + PriceOf(p)
        /\ "edge below the spread" \in answer.note => answer.trade.quoted > 0 /\ answer.trade.spread > 5
        /\ answer.trade.verdict = "tradable" => \E r \in Range(given.calls \o given.puts) : Quoted(r)
        /\ answer.skew.points # None => \E c \in Range(given.calls), p \in Range(given.puts) :
              /\ p.strike # None /\ c.strike # None
              /\ p.strike < given.spot /\ given.spot < c.strike /\ answer.skew.points = IvPct(p) - IvPct(c)

\* "The function is linear between strikes, so evaluating at every strike plus
\* the two outer wings finds every kink exactly" (optionStrategy.ts:181-184):
\* every price at which the structure turns is a breakeven.
EveryCrossingFound ==
    Done("structure") => \A s \in Grid : Crosses(s, s + 2) => \E b \in answer.profile.breakevens : b \in s..(s + 2)

\* "null means unbounded in that direction" (optionStrategy.ts:173).  A price
\* does not fall below nothing: what a put can gain is bounded.
UnboundedIsUnbounded ==
    Done("structure") /\ given.legs # <<>> /\ answer.profile.profit = None =>
        \E top \in Grid : \A s \in Grid : s <= top /\ (s < top => Pnl(s) < Pnl(top))
=============================================================================
