------------------------------- MODULE Metering -------------------------------
(***************************************************************************)
(* The daily allowance of one account for one metered route: meter() of    *)
(* backend/entitlements.py over the counters of backend/usage.py.  A       *)
(* request looks at the counter in one lock section and counts itself in   *)
(* another, each of which asks for the date itself, before the route runs. *)
(* The counters are cached; a save may fail and the process restart.       *)
(***************************************************************************)
EXTENDS Naturals, FiniteSets

CONSTANTS
    Requests,   \* the threads that serve them
    Limit,      \* the allowance of the plan
    KeepDays,   \* past days that are kept
    LastDay     \* bound

VARIABLES
    today,
    cached, stored,     \* uses per day, in memory and in usage.json
    passed,             \* requests that were within the allowance when they looked
    ran                 \* history: routes run per day since the counters were cleared

meterVars == <<today, cached, stored, passed, ran>>
Days == 1..LastDay
NoUses == [d \in Days |-> 0]

MeterInit ==
    /\ today = 1 /\ cached = NoUses /\ stored = NoUses
    /\ passed = {} /\ ran = NoUses

\* used(): within the allowance, or 402, which leaves no trace.
Look(r) ==
    /\ r \notin passed /\ cached[today] < Limit
    /\ passed' = passed \cup {r}
    /\ UNCHANGED <<today, cached, stored, ran>>

\* record(): counted, old days dropped, saved; then the route runs.
Pruned(c) == [d \in Days |-> IF d + KeepDays < today THEN 0 ELSE c[d]]
Counted == Pruned([cached EXCEPT ![today] = @ + 1])

\* Counted only in memory.
RecordUnsaved(r) ==
    /\ r \in passed
    /\ passed' = passed \ {r}
    /\ cached' = Counted /\ stored' = stored
    /\ ran' = [ran EXCEPT ![today] = @ + 1]
    /\ UNCHANGED today

Record(r) ==
    /\ r \in passed
    /\ passed' = passed \ {r}
    /\ cached' = Counted /\ stored' = Counted
    /\ ran' = [ran EXCEPT ![today] = @ + 1]
    /\ UNCHANGED today

\* The save fails: the use stays counted in memory, the route does not run.
RecordFails(r) ==
    /\ r \in passed
    /\ passed' = passed \ {r}
    /\ cached' = Counted
    /\ UNCHANGED <<today, stored, ran>>

\* reset(): the counters are cleared in memory, and saved if there were any.
Reset ==
    /\ cached' = NoUses /\ ran' = NoUses
    /\ \/ cached # NoUses /\ stored' \in {NoUses, stored}
       \/ cached = NoUses /\ UNCHANGED stored
    /\ UNCHANGED <<today, passed>>

Midnight ==
    /\ today < LastDay
    /\ today' = today + 1
    /\ UNCHANGED <<cached, stored, passed, ran>>

MeterRestart ==
    /\ cached' = stored /\ passed' = {}
    /\ UNCHANGED <<today, stored, ran>>

MeterNext ==
    \/ \E r \in Requests : Look(r) \/ Record(r) \/ RecordFails(r)
    \/ Reset \/ Midnight \/ MeterRestart

MeterSpec == MeterInit /\ [][MeterNext]_meterVars

-----------------------------------------------------------------------------
Kept == {d \in Days : d + KeepDays >= today}

\* No route runs uncounted: a run is in the file before it begins, whichever saves
\* fail and however often the process restarts (entitlements.py:54 "Records the use
\* BEFORE the route runs"); and of one day no more are run than the allowance and
\* the requests that looked at the counter at the same time.
MeterHolds ==
    \A d \in Kept : /\ ran[d] <= stored[d] /\ ran[d] <= cached[d]
                    /\ ran[d] < Limit + Cardinality(Requests)
=============================================================================
