----------------------------- MODULE StreamIngest -----------------------------
(***************************************************************************)
(* The polling loop of backend/stream/ingest.py: which of the subscribed   *)
(* symbols a pass asks for, and when each is due again.                    *)
(*                                                                         *)
(* The time a symbol is due is kept as the time left until then, which     *)
(* Tick counts down, so the clock itself needs no bound.  A pass holds its *)
(* list while its worker thread runs; a pass that takes longer than the    *)
(* cadence finds the symbols it polled due again as soon as it ends.  The  *)
(* loop's own sleep (0.25 s) is short beside a unit of time.               *)
(***************************************************************************)
EXTENDS Integers, FiniteSets, SequencesExt

CONSTANTS
    Symbols,
    Priced,         \* symbols the providers can price
    Cadences,       \* what cadence_ms may answer, by market and hour
    MaxBatch,       \* _MAX_BATCH
    KeepMax,        \* schedule entries kept before pruning: 4 * _MAX_BATCH
    BackoffAfter,   \* _BACKOFF_AFTER
    MaxBackoff,     \* _MAX_BACKOFF_MS
    MaxPoll,        \* the longest a pass may take
    MissCap         \* misses beyond this many are alike: the delay is MaxBackoff

ASSUME IngestAssumption ==
    /\ Priced \subseteq Symbols
    /\ Cadences \subseteq Nat \ {0} /\ Cadences # {} /\ MaxBatch \in Nat \ {0} /\ KeepMax \in Nat
    /\ BackoffAfter \in Nat /\ MaxBackoff \in Nat /\ MaxPoll \in Nat
    /\ MissCap \in Nat /\ MissCap > BackoffAfter
    /\ \A b \in Cadences : b <= MaxBackoff /\ b * 2^(MissCap - BackoffAfter) >= MaxBackoff

VARIABLES
    active,     \* hub.active_symbols(), in the order of first subscription
    left,       \* _next_due: symbol -> time left until it is due
    misses,     \* _misses: symbol -> consecutive polls without a price
    due,        \* the batch of the pass under way, or none
    asked,      \* the active symbols when the pass under way started
    age         \* how long the pass has been under way

vars == <<active, left, misses, due, asked, age>>

Wanted == {active[i] : i \in 1..Len(active)}
Put(f, x, v) == [y \in DOMAIN f \cup {x} |-> IF y = x THEN v ELSE f[y]]
Least(a, b) == IF a <= b THEN a ELSE b
Later(t, d) == IF t > d THEN t - d ELSE 0

\* next_delay_ms: the cadence, doubling from the first miss past the grace,
\* up to MaxBackoff.  The exponent is capped at 20.
NextDelayUncapped(base, n) ==
    IF n <= BackoffAfter THEN base ELSE base * 2^(n - BackoffAfter)

NextDelay(base, n) ==
    IF n <= BackoffAfter THEN base
    ELSE Least(base * 2^Least(n - BackoffAfter, 20), MaxBackoff)

\* _due: the active symbols whose time has come, the first of them up to a batch.
DueNow ==
    LET ready == {i \in DOMAIN active : active[i] \notin DOMAIN left \/ left[active[i]] = 0}
        first == {i \in ready : Cardinality({j \in ready : j < i}) < MaxBatch}
    IN  {active[i] : i \in first}

-----------------------------------------------------------------------------
Init ==
    /\ active = << >>
    /\ left = [s \in {} |-> 0]
    /\ misses = [s \in {} |-> 0]
    /\ due = {}
    /\ asked = {}
    /\ age = 0

\* The hub's first subscription to s, and the end of the last one.
Subscribe(s) ==
    /\ s \notin Wanted
    /\ active' = Append(active, s)
    /\ UNCHANGED <<left, misses, due, asked, age>>

Unsubscribe(s) ==
    /\ \E i \in DOMAIN active : active[i] = s /\ active' = RemoveAt(active, i)
    /\ UNCHANGED <<left, misses, due, asked, age>>

\* A pass starts when something is due.
PollStart ==
    /\ due = {}
    /\ DueNow # {}
    /\ due' = DueNow
    /\ asked' = Wanted
    /\ age' = 0
    /\ UNCHANGED <<active, left, misses>>

\* A price resets the count of misses; the schedule counts from the start of
\* the pass, so the time it took is already gone.
MissesAfter(missed) ==
    [s \in (DOMAIN misses \ due) \cup missed |->
        IF s \notin missed THEN misses[s]
        ELSE IF s \in DOMAIN misses THEN Least(misses[s] + 1, MissCap) ELSE 1]

LeftAfterPricedOnly(missed, base) ==
    [s \in DOMAIN left \cup due |->
        IF s \in due \ missed THEN Later(base[s], age)
        ELSE IF s \in due THEN 0 ELSE left[s]]

LeftAfter(missed, base) ==
    [s \in DOMAIN left \cup due |->
        IF s \in missed THEN Later(NextDelay(base[s], MissesAfter(missed)[s]), age)
        ELSE IF s \in due THEN Later(base[s], age)
        ELSE left[s]]

Kept(f, entries) ==
    IF Cardinality(entries) > KeepMax
    THEN [s \in DOMAIN f \cap asked |-> f[s]]
    ELSE f

\* The pass ends: what was priced is due a cadence after the pass started,
\* what was not a backoff after it.  Past KeepMax schedule entries, those of
\* symbols that were not active when the pass started go.
PollAnswer ==
    /\ due # {}
    /\ \E missed \in SUBSET due, base \in [due -> Cadences] :
          LET later == LeftAfter(missed, base) IN
          /\ due \ Priced \subseteq missed
          /\ left' = Kept(later, DOMAIN later)
          /\ misses' = Kept(MissesAfter(missed), DOMAIN later)
    /\ due' = {}
    /\ asked' = {}
    /\ age' = 0
    /\ UNCHANGED active

\* quotes_bulk raised: the loop logs it and the schedule is what it was.
PollFails ==
    /\ due # {}
    /\ due' = {}
    /\ asked' = {}
    /\ age' = 0
    /\ UNCHANGED <<active, left, misses>>

\* Time passes, but not past the end of a pass, and not while a pass could
\* start: the loop wakes well within a unit of time.
Tick ==
    /\ IF due = {} THEN DueNow = {} ELSE age < MaxPoll
    /\ left' = [s \in DOMAIN left |-> Later(left[s], 1)]
    /\ age' = IF due = {} THEN 0 ELSE age + 1
    /\ UNCHANGED <<active, misses, due, asked>>

Next ==
    \/ \E s \in Symbols : Subscribe(s) \/ Unsubscribe(s)
    \/ PollStart \/ PollAnswer \/ PollFails
    \/ Tick

\* run() loops for ever and survives a failed pass, a pass ends, and the
\* providers do not raise on every pass from some point on.  The loop and the
\* clock do not wait for the clients to stop subscribing, so what a
\* subscription enables and disables in turn is taken in the end (SF).
Fairness ==
    /\ SF_vars(PollStart)
    /\ WF_vars(PollAnswer \/ PollFails)
    /\ SF_vars(PollAnswer)
    /\ SF_vars(Tick)

Spec == Init /\ [][Next]_vars
FairSpec == Spec /\ Fairness

-----------------------------------------------------------------------------
TypeOK ==
    /\ active \in Seq(Symbols) /\ IsInjective(active)
    /\ DOMAIN left \subseteq Symbols /\ \A s \in DOMAIN left : left[s] \in Nat
    /\ DOMAIN misses \subseteq DOMAIN left /\ \A s \in DOMAIN misses : misses[s] \in Nat
    /\ due \subseteq asked
    /\ age \in 0..MaxPoll

\* However long a symbol has failed, it is asked for again within MaxBackoff,
\* and one with no more than the free misses within the cadence.
BackoffBounded ==
    \A s \in DOMAIN left :
        /\ left[s] <= MaxBackoff
        /\ \/ s \in DOMAIN misses /\ misses[s] > BackoffAfter
           \/ \E b \in Cadences : left[s] <= b

\* Between two passes no symbol is put off for longer than the longest backoff, and
\* none that answers for longer than its cadence (ingest.py:52-63).
ScheduleHolds == TypeOK /\ BackoffBounded

\* A symbol somebody watches is polled again and again (ingest.py:3-5: "each symbol
\* is polled at a cadence set by its market's session state").
NobodyStarves ==
    \A s \in Symbols : s \in Wanted ~> (s \in due \/ s \notin Wanted)

\* No pass lasts as long as the shortest cadence, and what is watched fits into two
\* batches.  Otherwise the first batch may be due again before the last had its
\* turn, and as _due takes the first, NobodyStarves does not hold.
InTime == \A b \in Cadences : age < b
FitsTwoBatches == Wanted \in {W \in SUBSET Symbols : Cardinality(W) <= 2 * MaxBatch}

\* As long as the passes are in time and two batches are enough, nobody starves, in
\* whatever order symbols were subscribed, however many of them miss and however
\* often a pass is lost.
EveryonePolled == []<>~InTime \/ []<>~FitsTwoBatches \/ NobodyStarves
=============================================================================
