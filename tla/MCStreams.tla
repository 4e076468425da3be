------------------------------ MODULE MCStreams ------------------------------
(***************************************************************************)
(* Two small instances of StreamHub, one of which runs: a public feed with *)
(* two browsers that are served at once, and a licensed one (the variables *)
(* with a final L) with a browser that is served with a delay.  Every tick *)
(* has a price; some have a bid.  MaxTime bounds the clock, Pages what     *)
(* each browser subscribes to.                                             *)
(***************************************************************************)
EXTENDS StreamHub, TLC

CONSTANTS c1, c2, s1, s2, LastTime

VARIABLES connsL, symbolsL, queueL, refcountL, lastL, mirrorL, historyL, pollingL, nowL, viewL, runs

licensedVars == <<connsL, symbolsL, queueL, refcountL, lastL, mirrorL, historyL, pollingL, nowL, viewL>>

MCConns == {c1, c2}
MCFields == {"ltp", "bid"}
TicksOf(prices, bids) ==
    [{"ltp"} -> prices] \cup
    {t \in [MCFields -> prices \cup bids] : t["ltp"] \in prices /\ t["bid"] \in bids}
MCTicks == TicksOf({1}, {1})
AllRealtime == [c \in MCConns |-> "realtime"]
TableAndCell == (c1 :> {s1, s2}) @@ (c2 :> {s1})

Licensed == INSTANCE StreamHub WITH
    Conns <- {c2}, Symbols <- {s1}, Ticks <- TicksOf({1, 2}, {}), Tier <- c2 :> "delayed",
    Source <- "licensed", Mirror <- "none", MaxSymbols <- 1, Lags <- {0, 1, 3},
    conns <- connsL, symbols <- symbolsL, queue <- queueL, refcount <- refcountL, last <- lastL,
    mirror <- mirrorL, history <- historyL, polling <- pollingL, now <- nowL, view <- viewL

BothInit == runs \in {"public", "licensed"} /\ Init /\ Licensed!Init
PublicNext ==
    /\ runs = "public" /\ Next
    /\ now' <= 0 /\ \A c \in Conns : symbols'[c] \subseteq TableAndCell[c]
    /\ UNCHANGED <<licensedVars, runs>>
LicensedNext ==
    /\ runs = "licensed" /\ Licensed!Next /\ nowL' <= LastTime
    /\ UNCHANGED <<vars, runs>>
BothNext == PublicNext \/ LicensedNext
BothSpec == BothInit /\ [][BothNext]_<<vars, licensedVars, runs>>

\* The tick frames that publish() and the delayed plane send a delayed browser
\* are old enough, and what the delayed plane releases of a symbol goes forward
\* in time as long as no tick is later than the margin.
LicensedDelayed == []Licensed!PxHeldBack /\ Licensed!ReleasedForward

\* A delayed browser is sent no licensed price before its time, in whatever frame
\* (hub.py:183-190).
LicensedNeverEarly == Licensed!NeverEarly
=============================================================================
