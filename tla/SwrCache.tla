------------------------------- MODULE SwrCache -------------------------------
(***************************************************************************)
(* One answer in the response cache (backend/cache.py, without Redis): a   *)
(* fresh and a last-known-good copy in an LRU that threads use without a   *)
(* lock.  A request without a fresh copy is given the other one while a    *)
(* pool computes a new one; only without either does it call the provider  *)
(* itself.  The other answers appear as what they do to these two copies:  *)
(* push them over the limit, the least recently used first.                *)
(***************************************************************************)
EXTENDS Naturals, Sequences, FiniteSets

CONSTANTS
    Workers, Pool,  \* request threads, threads of the pool
    Prewarmer,      \* the thread that calls refresh()
    MaxVersion,     \* bound: how often the answer changes
    MaxGone         \* bound: how often a copy is pushed out or outlives its day

VARIABLES
    lru,        \* the copies there are, least recently used first
    inflight,   \* the answer is marked as being refreshed
    queue,      \* refreshes the pool has not begun
    job,        \* what each thread is at, and the value it carries
    truth,      \* what the provider would answer now
    served,     \* history: the last answer given, 0 for none
    gone        \* how often a copy was pushed out or outlived its day

cacheVars == <<lru, inflight, queue, job, truth, served, gone>>
Threads == Workers \cup Pool \cup {Prewarmer}
Copies == {"fresh", "stale"}

Idle == [pc |-> "idle", value |-> 0]

-----------------------------------------------------------------------------
\* _LRU.
Holds(c) == \E i \in DOMAIN lru : lru[i].copy = c
Copy(c) == lru[CHOOSE i \in DOMAIN lru : lru[i].copy = c]
Live(c) == Holds(c) /\ Copy(c).live
Without(c) == SelectSeq(lru, LAMBDA e : e.copy # c)
Touched(c) == Append(Without(c), Copy(c))
Replaced(c, e) == [i \in DOMAIN lru |-> IF lru[i].copy = c THEN e ELSE lru[i]]

CacheInit ==
    /\ lru = <<>> /\ inflight = FALSE /\ queue = 0
    /\ job = [t \in Threads |-> Idle]
    /\ truth = 1 /\ served = 0 /\ gone = 0

Goes(t, pc) == job' = [job EXCEPT ![t].pc = pc] /\ UNCHANGED <<inflight, served>>
Carries(t, pc, v) == job' = [job EXCEPT ![t] = [pc |-> pc, value |-> v]] /\ UNCHANGED <<inflight, served>>

\* A thread is done.  A refresh of the pool gives up its mark however it ends;
\* its error, and the prewarmer's, goes nowhere else.
Ends(t) ==
    /\ job' = [job EXCEPT ![t] = Idle]
    /\ inflight' = (inflight /\ t \notin Pool)

Answered(t) ==
    /\ Ends(t)
    /\ served' = IF t \in Workers THEN job[t].value ELSE served

Errs(t) == Ends(t) /\ UNCHANGED served

-----------------------------------------------------------------------------
\* wrapper(): the fresh copy; before the provider is called, and again when it
\* has failed, the other.
Looks == [begin |-> "fresh", stale |-> "stale", again |-> "stale"]
Found == [begin |-> "hit", stale |-> "behind", again |-> "instead"]
Missed == [begin |-> "stale", stale |-> "call"]
Drops == [begin |-> "drop", stale |-> "dropStale", again |-> "dropAgain"]

\* Nothing was found the second time: the error of the provider is raised.
Misses(t, at) == IF at = "again" THEN Errs(t) ELSE Goes(t, Missed[at])

Request(t) ==
    /\ job[t] = Idle
    /\ Goes(t, "begin")
    /\ UNCHANGED <<lru, queue, truth, gone>>

\* get(): a copy, none, or one that has lapsed.
Look(t) ==
    /\ job[t].pc \in DOMAIN Looks
    /\ LET c == Looks[job[t].pc]
       IN  \/ Live(c) /\ Carries(t, Found[job[t].pc], Copy(c).value)
           \/ ~Holds(c) /\ Misses(t, job[t].pc)
           \/ Holds(c) /\ ~Live(c) /\ Goes(t, Drops[job[t].pc])
    /\ UNCHANGED <<lru, queue, truth, gone>>

\* pop() of the copy that had lapsed: whatever is there by then goes.
Drop(t) ==
    /\ \E at \in DOMAIN Looks :
          /\ job[t].pc = Drops[at]
          /\ lru' = Without(Looks[at])
          /\ Misses(t, at)
    /\ UNCHANGED <<queue, truth, gone>>

\* move_to_end, and the copy is served.
Hit(t) ==
    /\ job[t].pc = "hit" /\ Holds("fresh")
    /\ lru' = Touched("fresh") /\ Answered(t)
    /\ UNCHANGED <<queue, truth, gone>>

\* A refresh for every request.
RevalidateEach == inflight' = TRUE /\ queue' = queue + 1

\* _revalidate: a refresh behind the request, at most one at a time.
Revalidate ==
    IF inflight THEN UNCHANGED <<inflight, queue>>
    ELSE inflight' = TRUE /\ queue' = queue + 1

\* The last-known-good copy is served, and refreshed unless the provider has just
\* failed.
ServeStale(t) ==
    /\ job[t].pc \in {"behind", "instead"} /\ Holds("stale")
    /\ lru' = Touched("stale")
    /\ served' = job[t].value
    /\ job' = [job EXCEPT ![t] = Idle]
    /\ IF job[t].pc = "behind" THEN Revalidate ELSE UNCHANGED <<inflight, queue>>
    /\ UNCHANGED <<truth, gone>>

\* move_to_end is a KeyError, which ends the request or the refresh, if the copy
\* went over the limit, or another thread found it lapsed, in between.
Needs == [hit |-> "fresh", behind |-> "stale", instead |-> "stale", endFresh |-> "fresh", endStale |-> "stale"]

Trips(t) ==
    /\ job[t].pc \in DOMAIN Needs /\ ~Holds(Needs[job[t].pc])
    /\ Errs(t)
    /\ UNCHANGED <<lru, queue, truth, gone>>

\* refresh(), which the prewarmer calls; a refresh the pool begins.
Prewarm ==
    /\ job[Prewarmer] = Idle
    /\ Goes(Prewarmer, "call")
    /\ UNCHANGED <<lru, queue, truth, gone>>

Take(t) ==
    /\ job[t] = Idle /\ queue > 0
    /\ queue' = queue - 1
    /\ Goes(t, "call")
    /\ UNCHANGED <<lru, truth, gone>>

\* fn() returns, or raises.
ProviderAnswers(t) ==
    /\ job[t].pc = "call"
    /\ Carries(t, "setFresh", truth)
    /\ UNCHANGED <<lru, queue, truth, gone>>

ProviderFails(t) ==
    /\ job[t].pc = "call"
    /\ IF t \in Workers THEN Goes(t, "again") ELSE Errs(t)
    /\ UNCHANGED <<lru, queue, truth, gone>>

\* _store: the fresh copy, then the other.  set() puts a copy in, in the place of
\* the one it replaces, and then moves it to the end.
Set(t) ==
    /\ job[t].pc \in {"setFresh", "setStale"}
    /\ LET c == IF job[t].pc = "setFresh" THEN "fresh" ELSE "stale"
           e == [copy |-> c, value |-> job[t].value, live |-> TRUE]
       IN  /\ lru' = IF Holds(c) THEN Replaced(c, e) ELSE Append(lru, e)
           /\ Goes(t, IF c = "fresh" THEN "endFresh" ELSE "endStale")
    /\ UNCHANGED <<queue, truth, gone>>

EndSet(t) ==
    /\ \/ /\ job[t].pc = "endFresh" /\ Holds("fresh")
          /\ lru' = Touched("fresh") /\ Goes(t, "setStale")
       \/ /\ job[t].pc = "endStale" /\ Holds("stale")
          /\ lru' = Touched("stale") /\ Answered(t)
    /\ UNCHANGED <<queue, truth, gone>>

\* A copy lapses, a fresh one in minutes and the other in a day, which is longer
\* than a thread takes to store one; the other answers push one out; the answer
\* changes.
Lapse(c) ==
    /\ Live(c) /\ \A t \in Threads : job[t].pc \notin {"endFresh", "endStale"}
    /\ lru' = Replaced(c, [Copy(c) EXCEPT !.live = FALSE])
    /\ gone' = gone + (IF c = "stale" THEN 1 ELSE 0) /\ gone' <= MaxGone
    /\ UNCHANGED <<inflight, queue, job, truth, served>>

Evict ==
    /\ lru # <<>>
    /\ lru' = Tail(lru)
    /\ gone < MaxGone /\ gone' = gone + 1
    /\ UNCHANGED <<inflight, queue, job, truth, served>>

Changes ==
    /\ truth < MaxVersion
    /\ truth' = truth + 1
    /\ UNCHANGED <<lru, inflight, queue, job, served, gone>>

ThreadStep(t) ==
    \/ Look(t) \/ Drop(t) \/ Hit(t) \/ ServeStale(t) \/ Trips(t)
    \/ ProviderAnswers(t) \/ ProviderFails(t) \/ Set(t) \/ EndSet(t)

CacheNext ==
    \/ \E t \in Workers : Request(t)
    \/ \E t \in Pool : Take(t)
    \/ \E t \in Threads : ThreadStep(t)
    \/ \E c \in Copies : Lapse(c)
    \/ Prewarm \/ Evict \/ Changes

\* Threads run, the answer is asked for again and again, a fresh copy lapses in
\* the end, and the provider does not fail a thread every time.
Runs(t) == ThreadStep(t) \/ (t \in Workers /\ Request(t)) \/ (t \in Pool /\ Take(t))
CacheFairness ==
    /\ \A t \in Threads : WF_cacheVars(Runs(t))
    /\ \A t \in Workers \cup Pool : SF_cacheVars(ProviderAnswers(t))
    /\ SF_cacheVars(Lapse("fresh"))

CacheSpec == CacheInit /\ [][CacheNext]_cacheVars

-----------------------------------------------------------------------------
\* One refresh at a time, and the answer is marked exactly while there is one
\* (cache.py:38 "Single-flight: one refresh per key at a time").
SingleFlight ==
    queue + Cardinality({t \in Pool : job[t] # Idle}) = IF inflight THEN 1 ELSE 0

\* An older answer may overwrite a newer one, but it does not stay: what is asked
\* for again and again is in the end answered as the provider would.
CatchesUp == []<>(served = truth)
=============================================================================
