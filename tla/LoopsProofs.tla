------------------------------ MODULE LoopsProofs ------------------------------
(***************************************************************************)
(* Three loops that run beside the requests.                               *)
(*                                                                         *)
(* The cache refreshes one thing at a time, for every number of request    *)
(* threads and of threads in the pool, whatever is evicted or lapses under *)
(* them.  SingleFlight counts the threads of the pool that are not idle,   *)
(* so what must be known besides is where those threads can be: only on    *)
(* the way from the provider to the second copy, never in the part of      *)
(* wrapper() that serves a copy and asks for a refresh.                    *)
(*                                                                         *)
(* The deploy script leaves the machine as it says, for every history of   *)
(* pushes and whichever commits are broken.  While it watches the          *)
(* containers they are what is checked out; that is what makes Healthy     *)
(* leave a truth behind.                                                   *)
(*                                                                         *)
(* The polling loop puts nothing off for longer than the longest backoff,  *)
(* for every set of symbols and of cadences and every length of a pass.    *)
(***************************************************************************)
EXTENDS SwrCache, AutoDeploy, StreamIngest, FiniteSetTheorems, SequenceTheorems, TLAPS

PoolAssumption == IsFiniteSet(Pool) /\ Pool \cap (Workers \cup {Prewarmer}) = {}

\* Where a refresh can be; the threads of the pool that are at one.
Refreshing == {"call", "setFresh", "endFresh", "setStale", "endStale"}
Busy == {t \in Pool : job[t] # Idle}

PoolTypes ==
    /\ queue \in Nat /\ truth \in Nat /\ inflight \in BOOLEAN
    /\ job = [t \in Threads |-> job[t]]
    /\ \A t \in Pool : job[t] = Idle \/ job[t] \in [pc : Refreshing, value : Nat]

IInv == PoolTypes /\ SingleFlight

LEMMA BusyFinite ==
    ASSUME PoolAssumption, NEW S \in SUBSET Pool
    PROVE  IsFiniteSet(S) /\ Cardinality(S) \in Nat
  BY FS_Subset, FS_CardinalityType DEF PoolAssumption

\* A step of a thread leaves the other threads where they are.
LEMMA OthersStay ==
    ASSUME PoolTypes, NEW t \in Threads, NEW p \in Threads \ {t},
           \/ Ends(t)
           \/ \E pc : Goes(t, pc)
           \/ \E pc, v : Carries(t, pc, v)
           \/ job' = [job EXCEPT ![t] = Idle]
    PROVE  job'[p] = job[p] /\ job' = [x \in Threads |-> job'[x]]
<1> USE DEF PoolTypes
<1>1. CASE job' = [job EXCEPT ![t] = Idle]
  BY <1>1
<1>2. CASE Ends(t)
  BY <1>1, <1>2 DEF Ends
<1>3. CASE \E pc : Goes(t, pc)
  BY <1>3 DEF Goes
<1>4. CASE \E pc, v : Carries(t, pc, v)
  BY <1>4 DEF Carries
<1> QED BY <1>1, <1>2, <1>3, <1>4

\* A request thread or the prewarmer leaves the pool alone and may ask for one
\* refresh, when none is marked.
LEMMA OutsideStep ==
    ASSUME PoolAssumption, PoolTypes, NEW t \in Threads \ Pool,
           ThreadStep(t) \/ Request(t) \/ (t = Prewarmer /\ Prewarm)
    PROVE  /\ \A p \in Pool : job'[p] = job[p]
           /\ job' = [x \in Threads |-> job'[x]]
           /\ truth' = truth
           /\ \/ inflight' = inflight /\ queue' = queue
              \/ ~inflight /\ inflight' = TRUE /\ queue' = queue + 1
<1> DEFINE Moves == \/ Ends(t)
                    \/ \E pc : Goes(t, pc)
                    \/ \E pc, v : Carries(t, pc, v)
           Rest == truth' = truth /\ queue' = queue
<1>1. ASSUME Moves, Rest PROVE /\ \A p \in Pool : job'[p] = job[p]
                               /\ job' = [x \in Threads |-> job'[x]]
                               /\ inflight' = inflight
  <2>1. inflight' = inflight
    BY <1>1 DEF Ends, Goes, Carries, PoolTypes
  <2>2. \A p \in Pool : p \in Threads \ {t}
    BY DEF Threads
  <2>4. job' = [x \in Threads |-> job'[x]]
    <3>1. CASE Ends(t)
      BY <3>1 DEF Ends, PoolTypes
    <3>2. CASE \E pc : Goes(t, pc)
      BY <3>2 DEF Goes, PoolTypes
    <3>3. CASE \E pc, v : Carries(t, pc, v)
      BY <3>3 DEF Carries, PoolTypes
    <3> QED BY <1>1, <3>1, <3>2, <3>3
  <2>5. \A p \in Pool : job'[p] = job[p]
    BY <1>1, <2>2, OthersStay
  <2> QED BY <2>1, <2>4, <2>5
<1>2. CASE Request(t)
  <2>1. Goes(t, "begin") /\ Rest
    BY <1>2 DEF Request
  <2> QED BY <1>1, <2>1
<1>3. CASE t = Prewarmer /\ Prewarm
  <2>1. Goes(t, "call") /\ Rest
    BY <1>3 DEF Prewarm
  <2> QED BY <1>1, <2>1
<1>4. ASSUME NEW at, Misses(t, at) PROVE Moves
  BY <1>4 DEF Misses, Errs
<1>5. CASE Look(t)
  <2>1. Moves /\ Rest
    BY <1>4, <1>5 DEF Look
  <2> QED BY <1>1, <2>1
<1>6. CASE Drop(t)
  <2>1. Moves /\ Rest
    BY <1>4, <1>6 DEF Drop
  <2> QED BY <1>1, <2>1
<1>7. CASE Hit(t) \/ Trips(t)
  <2>1. Moves /\ Rest
    BY <1>7 DEF Hit, Trips, Answered, Errs
  <2> QED BY <1>1, <2>1
<1>8. CASE ProviderAnswers(t) \/ ProviderFails(t)
  <2>1. Moves /\ Rest
    BY <1>8 DEF ProviderAnswers, ProviderFails, Errs
  <2> QED BY <1>1, <2>1
<1>9. CASE Set(t) \/ EndSet(t)
  <2>1. Moves /\ Rest
    BY <1>9 DEF Set, EndSet, Answered
  <2> QED BY <1>1, <2>1
<1>10. CASE ServeStale(t)
  <2>1. job' = [job EXCEPT ![t] = Idle] /\ truth' = truth
    BY <1>10 DEF ServeStale
  <2>2. /\ \A p \in Pool : job'[p] = job[p]
        /\ job' = [x \in Threads |-> job'[x]]
    BY <2>1 DEF PoolTypes, Threads
  <2>3. \/ inflight' = inflight /\ queue' = queue
        \/ ~inflight /\ inflight' = TRUE /\ queue' = queue + 1
    BY <1>10 DEF ServeStale, Revalidate
  <2> QED BY <2>1, <2>2, <2>3
<1> QED BY <1>2, <1>3, <1>5, <1>6, <1>7, <1>8, <1>9, <1>10 DEF ThreadStep

\* A thread of the pool goes on with its refresh, or ends it and takes the mark
\* with it.
LEMMA PoolStep ==
    ASSUME PoolAssumption, PoolTypes, NEW t \in Pool, ThreadStep(t)
    PROVE  /\ job[t] # Idle
           /\ queue' = queue /\ truth' = truth
           /\ \A p \in Pool \ {t} : job'[p] = job[p]
           /\ job' = [x \in Threads |-> job'[x]]
           /\ \/ inflight' = FALSE /\ job'[t] = Idle
              \/ inflight' = inflight /\ job'[t] \in [pc : Refreshing, value : Nat]
<1> DEFINE On == inflight' = inflight /\ job'[t] \in [pc : Refreshing, value : Nat]
           Off == inflight' = FALSE /\ job'[t] = Idle
<1>0. /\ t \in Threads /\ t \notin Workers /\ \A p \in Pool : p \in Threads
      /\ job[t] = Idle \/ job[t] \in [pc : Refreshing, value : Nat]
  BY DEF PoolAssumption, PoolTypes, Threads
<1>1. job[t] # Idle => job[t].pc \in Refreshing /\ job[t] \in [pc : Refreshing, value : Nat]
  BY <1>0
<1>2. job[t].pc \in Refreshing \cup {"idle"}
  BY <1>0 DEF Idle
<1>3. ASSUME Ends(t) PROVE /\ Off
                           /\ \A p \in Pool \ {t} : job'[p] = job[p]
                           /\ job' = [x \in Threads |-> job'[x]]
  BY <1>0, <1>3 DEF Ends, PoolTypes
<1>4. ASSUME NEW pc \in Refreshing, Goes(t, pc), job[t] # Idle
      PROVE  /\ On
             /\ \A p \in Pool \ {t} : job'[p] = job[p]
             /\ job' = [x \in Threads |-> job'[x]]
  BY <1>0, <1>1, <1>4 DEF Goes, PoolTypes
<1>5. ~Look(t) /\ ~Drop(t) /\ ~Hit(t) /\ ~ServeStale(t)
  BY <1>2 DEF Look, Drop, Hit, ServeStale, Looks, Drops, Refreshing
<1>6. CASE Trips(t)
  <2>1. Ends(t) /\ queue' = queue /\ truth' = truth /\ job[t] # Idle
    BY <1>6 DEF Trips, Errs, Needs, Idle
  <2> QED BY <1>3, <2>1
<1>7. CASE ProviderAnswers(t)
  <2>1. job[t] # Idle /\ queue' = queue /\ truth' = truth /\ Carries(t, "setFresh", truth)
    BY <1>7 DEF ProviderAnswers, Idle
  <2>2. On /\ \A p \in Pool \ {t} : job'[p] = job[p]
    BY <1>0, <2>1 DEF Carries, PoolTypes, Refreshing
  <2>3. job' = [x \in Threads |-> job'[x]]
    BY <2>1 DEF Carries, PoolTypes
  <2> QED BY <2>1, <2>2, <2>3
<1>8. CASE ProviderFails(t)
  <2>1. Ends(t) /\ queue' = queue /\ truth' = truth /\ job[t] # Idle
    BY <1>0, <1>8 DEF ProviderFails, Errs, Idle
  <2> QED BY <1>3, <2>1
<1>9. CASE Set(t)
  <2>1. job[t] # Idle /\ queue' = queue /\ truth' = truth
    BY <1>9 DEF Set, Idle
  <2>2. PICK pc \in {"endFresh", "endStale"} : Goes(t, pc)
    BY <1>9 DEF Set
  <2>3. pc \in Refreshing
    BY DEF Refreshing
  <2> QED BY <1>4, <2>1, <2>2, <2>3
<1>10. CASE EndSet(t)
  <2>1. job[t] # Idle /\ queue' = queue /\ truth' = truth
    BY <1>10 DEF EndSet, Idle
  <2>2. Ends(t) \/ Goes(t, "setStale")
    BY <1>10 DEF EndSet, Answered
  <2>3. "setStale" \in Refreshing
    BY DEF Refreshing
  <2> QED BY <1>3, <1>4, <2>1, <2>2, <2>3
<1> QED BY <1>5, <1>6, <1>7, <1>8, <1>9, <1>10 DEF ThreadStep

LEMMA CacheInitInv == ASSUME PoolAssumption, CacheInit PROVE IInv
<1>1. PoolTypes
  BY DEF CacheInit, PoolTypes, Threads
<1>2. Busy = {}
  BY DEF CacheInit, Busy, Threads
<1>3. Cardinality(Busy) = 0
  BY <1>2, FS_EmptySet
<1>4. queue + Cardinality(Busy) = (IF inflight THEN 1 ELSE 0)
  BY <1>3 DEF CacheInit
<1> QED BY <1>1, <1>4 DEF IInv, SingleFlight, Busy

LEMMA CacheStepInv == ASSUME PoolAssumption, IInv, [CacheNext]_cacheVars PROVE IInv'
<1>0. PoolTypes /\ SingleFlight /\ queue \in Nat /\ truth \in Nat /\ inflight \in BOOLEAN
  BY DEF IInv, PoolTypes
<1>1. queue + Cardinality(Busy) = IF inflight THEN 1 ELSE 0
  BY <1>0 DEF SingleFlight, Busy
<1>2. IsFiniteSet(Busy) /\ Cardinality(Busy) \in Nat
  BY BusyFinite DEF Busy
\* It is enough to follow the two counts.
<1>3. ASSUME PoolTypes', queue' + Cardinality(Busy') = (IF inflight' THEN 1 ELSE 0)
      PROVE  IInv'
  BY <1>3 DEF IInv, SingleFlight, Busy
<1>4. ASSUME NEW t \in Threads \ Pool, ThreadStep(t) \/ Request(t) \/ (t = Prewarmer /\ Prewarm)
      PROVE  IInv'
  <2>1. /\ \A p \in Pool : job'[p] = job[p]
        /\ job' = [x \in Threads |-> job'[x]]
        /\ truth' = truth
        /\ \/ inflight' = inflight /\ queue' = queue
           \/ ~inflight /\ inflight' = TRUE /\ queue' = queue + 1
    BY <1>0, <1>4, OutsideStep
  <2>2. PoolTypes'
    <3>1. queue' \in Nat /\ truth' \in Nat
      BY <1>0, <2>1
    <3>3. inflight' \in BOOLEAN
      <4>1. inflight' = inflight \/ inflight' = TRUE
        BY <2>1
      <4> QED BY <1>0, <4>1
    <3>2. \A p \in Pool : job'[p] = Idle \/ job'[p] \in [pc : Refreshing, value : Nat]
      BY <1>0, <2>1 DEF PoolTypes
    <3> QED BY <2>1, <3>1, <3>2, <3>3 DEF PoolTypes
  <2>3. Busy' = Busy
    BY <2>1 DEF Busy
  <2>4. queue' + Cardinality(Busy') = (IF inflight' THEN 1 ELSE 0)
    BY <1>0, <1>1, <1>2, <2>1, <2>3
  <2> QED BY <1>3, <2>2, <2>4
<1>5. ASSUME NEW t \in Pool, ThreadStep(t) PROVE IInv'
  <2>1. /\ job[t] # Idle
        /\ queue' = queue /\ truth' = truth
        /\ \A p \in Pool \ {t} : job'[p] = job[p]
        /\ job' = [x \in Threads |-> job'[x]]
        /\ \/ inflight' = FALSE /\ job'[t] = Idle
           \/ inflight' = inflight /\ job'[t] \in [pc : Refreshing, value : Nat]
    BY <1>0, <1>5, PoolStep
  <2>2. PoolTypes'
    BY <1>0, <2>1 DEF PoolTypes
  <2>3. CASE inflight' = FALSE /\ job'[t] = Idle
    <3>1. t \in Busy /\ Busy' = Busy \ {t}
      BY <2>1, <2>3 DEF Busy
    <3>2. Cardinality(Busy \ {t}) = Cardinality(Busy) - 1
      BY <1>2, <3>1, FS_RemoveElement
    <3>3. Cardinality(Busy \ {t}) \in Nat
      BY BusyFinite DEF Busy
    <3>4. queue' + Cardinality(Busy') = 0
      BY <1>0, <1>1, <1>2, <2>1, <3>1, <3>2, <3>3
    <3> QED BY <1>3, <2>2, <2>3, <3>4
  <2>4. CASE inflight' = inflight /\ job'[t] \in [pc : Refreshing, value : Nat]
    <3>1. job'[t] # Idle
      BY <2>4 DEF Refreshing, Idle
    <3>2. Busy' = Busy
      BY <2>1, <3>1 DEF Busy
    <3> QED BY <1>1, <1>3, <2>1, <2>2, <2>4, <3>2
  <2> QED BY <2>1, <2>3, <2>4
<1>6. ASSUME NEW t \in Pool, Take(t) PROVE IInv'
  <2>1. /\ job[t] = Idle /\ queue > 0 /\ queue' = queue - 1
        /\ truth' = truth /\ inflight' = inflight
        /\ job' = [job EXCEPT ![t].pc = "call"]
    BY <1>6 DEF Take, Goes
  <2>2. t \in Threads /\ \A p \in Pool : p \in Threads
    BY DEF Threads
  <2>3. /\ job'[t] \in [pc : Refreshing, value : Nat] /\ job'[t] # Idle
        /\ \A p \in Pool \ {t} : job'[p] = job[p]
        /\ job' = [x \in Threads |-> job'[x]]
    BY <1>0, <2>1, <2>2 DEF PoolTypes, Refreshing, Idle
  <2>4. PoolTypes'
    BY <1>0, <2>1, <2>3 DEF PoolTypes
  <2>5. t \notin Busy /\ Busy' = Busy \cup {t}
    BY <2>1, <2>3 DEF Busy
  <2>6. Cardinality(Busy \cup {t}) = Cardinality(Busy) + 1
    BY <1>2, <2>5, FS_AddElement
  <2>7. queue' + Cardinality(Busy') = (IF inflight' THEN 1 ELSE 0)
    BY <1>0, <1>1, <1>2, <2>1, <2>5, <2>6
  <2> QED BY <1>3, <2>4, <2>7
<1>7. ASSUME (\E c \in Copies : Lapse(c)) \/ Evict \/ Changes \/ UNCHANGED cacheVars
      PROVE  IInv'
  <2>1. job' = job /\ inflight' = inflight /\ queue' = queue /\ truth' \in Nat
    <3>1. CASE \E c \in Copies : Lapse(c)
      BY <1>0, <3>1 DEF Lapse
    <3>2. CASE Evict
      BY <1>0, <3>2 DEF Evict
    <3>3. CASE Changes
      BY <1>0, <3>3 DEF Changes
    <3>4. CASE UNCHANGED cacheVars
      BY <1>0, <3>4 DEF cacheVars
    <3> QED BY <1>7, <3>1, <3>2, <3>3, <3>4
  <2> QED BY <1>0, <2>1 DEF IInv, PoolTypes, SingleFlight
<1>8. \A t \in Workers : t \in Threads \ Pool
  BY DEF Threads, PoolAssumption
<1>9. Prewarmer \in Threads \ Pool
  BY DEF Threads, PoolAssumption
<1> QED BY <1>4, <1>5, <1>6, <1>7, <1>8, <1>9 DEF CacheNext

\* The answer is marked exactly while one refresh of it is queued or under way, so
\* the provider is never asked twice for the same one, for every number of request
\* threads and of threads in the pool.
THEOREM SingleFlightAlways ==
    ASSUME PoolAssumption
    PROVE  CacheSpec => []SingleFlight
<1>1. CacheInit => IInv
  BY CacheInitInv
<1>2. IInv /\ [CacheNext]_cacheVars => IInv'
  BY CacheStepInv
<1>3. IInv => SingleFlight
  BY DEF IInv
<1> QED BY <1>1, <1>2, <1>3, PTL DEF CacheSpec

-----------------------------------------------------------------------------
ScriptSteps == {"waiting", "checkout", "build", "watch", "goBack", "buildAgain", "watchAgain"}
ScriptTypes == script \in [pc : ScriptSteps, previous : Nat, remote : Nat] /\ head \in Nat /\ origin \in Nat

Watched == At("watch") \/ At("watchAgain") => deployed = head

DeployIInv == ScriptTypes /\ Watched /\ AnswersAsCheckedOut

LEMMA DeployInitInv == DeployInit => DeployIInv
  BY DEF DeployInit, DeployIInv, ScriptTypes, Watched, AnswersAsCheckedOut, At, Waiting, ScriptSteps

LEMMA DeployStepInv == DeployIInv /\ [DeployNext]_deployVars => DeployIInv'
<1> SUFFICES ASSUME DeployIInv, [DeployNext]_deployVars PROVE DeployIInv'
  OBVIOUS
<1> USE DEF DeployIInv, ScriptTypes, Watched, AnswersAsCheckedOut, At, GoesTo, Waiting, ScriptSteps
<1>1. CASE Push
  BY <1>1 DEF Push
<1>2. CASE NothingNew \/ UNCHANGED deployVars
  BY <1>2 DEF NothingNew, deployVars
<1>3. CASE Begin
  BY <1>3 DEF Begin
<1>4. CASE Checkout
  BY <1>4 DEF Checkout
<1>5. CASE GoBack
  BY <1>5 DEF GoBack
<1>6. CASE Build
  <2>1. CASE Failed /\ UNCHANGED <<deployed, up>>
    BY <1>6, <2>1 DEF Build, Failed
  <2>2. CASE deployed' = head /\ UNCHANGED <<origin, head, cut>>
             /\ GoesTo(IF At("build") THEN "watch" ELSE "watchAgain")
    BY <1>6, <2>2 DEF Build
  <2> QED BY <1>6, <2>1, <2>2 DEF Build
<1>7. CASE Healthy
  BY <1>7 DEF Healthy
<1>8. CASE TimesOut
  BY <1>8 DEF TimesOut, Failed
<1>9. CASE Killed
  BY <1>9 DEF Killed
<1> QED BY <1>1, <1>2, <1>3, <1>4, <1>5, <1>6, <1>7, <1>8, <1>9 DEF DeployNext, ScriptStep

\* Between two runs of the script the backend answers and is what HEAD says, unless
\* the last run was killed or neither commit came up: a failed build, a backend that
\* stays unhealthy and a failed git reset all end with the machine consistent.
THEOREM AnswersAsCheckedOutAlways == DeploySpec => []AnswersAsCheckedOut
<1>1. DeployIInv => AnswersAsCheckedOut
  BY DEF DeployIInv
<1> QED BY <1>1, DeployInitInv, DeployStepInv, PTL DEF DeploySpec
-----------------------------------------------------------------------------
(* The schedule: nothing is known of the providers, the market hours or the *)
(* subscribers, so every pass may price and miss what it likes.             *)

ScheduleIInv == ScheduleHolds /\ asked \subseteq Symbols

\* The factor of the backoff is a number, however often a symbol was missed.
LEMMA PowerType == \A k \in 1..20 : 2^k \in Nat
<1>1. /\ 2^1 \in Nat /\ 2^2 \in Nat /\ 2^3 \in Nat /\ 2^4 \in Nat /\ 2^5 \in Nat
      /\ 2^6 \in Nat /\ 2^7 \in Nat /\ 2^8 \in Nat /\ 2^9 \in Nat /\ 2^10 \in Nat
  OBVIOUS
<1>2. /\ 2^11 \in Nat /\ 2^12 \in Nat /\ 2^13 \in Nat /\ 2^14 \in Nat /\ 2^15 \in Nat
      /\ 2^16 \in Nat /\ 2^17 \in Nat /\ 2^18 \in Nat /\ 2^19 \in Nat /\ 2^20 \in Nat
  OBVIOUS
<1>3. 1..20 = {1, 2, 3, 4, 5, 6, 7, 8, 9, 10} \cup {11, 12, 13, 14, 15, 16, 17, 18, 19, 20}
  OBVIOUS
<1>4. \A k \in {1, 2, 3, 4, 5, 6, 7, 8, 9, 10} : 2^k \in Nat
  BY <1>1, Zenon
<1>5. \A k \in {11, 12, 13, 14, 15, 16, 17, 18, 19, 20} : 2^k \in Nat
  BY <1>2, Zenon
<1> QED BY <1>3, <1>4, <1>5, Zenon

\* next_delay_ms: never more than the ceiling, and within the grace the cadence.
LEMMA DelayBounded ==
    ASSUME NEW b \in Cadences, NEW n \in Nat
    PROVE  /\ NextDelay(b, n) \in Nat /\ NextDelay(b, n) <= MaxBackoff
           /\ n <= BackoffAfter => NextDelay(b, n) = b
<1>1. b \in Nat /\ b <= MaxBackoff /\ MaxBackoff \in Nat /\ BackoffAfter \in Nat
  BY IngestAssumption
<1>2. CASE n <= BackoffAfter
  BY <1>1, <1>2 DEF NextDelay
<1>3. CASE n > BackoffAfter
  <2> DEFINE k == Least(n - BackoffAfter, 20)
  <2>1. k \in 1..20
    BY <1>1, <1>3 DEF Least
  <2>2. 2^k \in Nat
    BY <2>1, PowerType
  <2>3. NextDelay(b, n) = Least(b * 2^k, MaxBackoff)
    BY <1>1, <1>3 DEF NextDelay
  <2> HIDE DEF k
  <2> DEFINE t == 2^k
  <2>4. t \in Nat /\ NextDelay(b, n) = Least(b * t, MaxBackoff)
    BY <2>2, <2>3
  <2> HIDE DEF t
  <2>5. b * t \in Nat
    BY <1>1, <2>4
  <2> QED BY <1>1, <1>3, <2>4, <2>5 DEF Least
<1> QED BY <1>1, <1>2, <1>3

LEMMA LaterBounded ==
    ASSUME NEW t \in Nat, NEW d \in Nat
    PROVE  Later(t, d) \in Nat /\ Later(t, d) <= t
  BY DEF Later

\* A list without repetitions keeps none of what is removed from it.
LEMMA RemovedFromList ==
    ASSUME NEW A, NEW q \in Seq(A), NEW i \in 1..Len(q), IsInjective(q)
    PROVE  RemoveAt(q, i) \in Seq(A) /\ IsInjective(RemoveAt(q, i))
<1> DEFINE front == SubSeq(q, 1, i - 1)
           back == SubSeq(q, i + 1, Len(q))
           rest == RemoveAt(q, i)
<1>1. /\ front \in Seq(A) /\ Len(front) = i - 1
      /\ \A k \in 1..(i - 1) : front[k] = q[k]
  BY SubSeqProperties
<1>2. /\ back \in Seq(A) /\ Len(back) = Len(q) - i
      /\ \A k \in 1..(Len(q) - i) : back[k] = q[i + k]
  BY SubSeqProperties
<1> HIDE DEF front, back
<1>3. /\ rest \in Seq(A) /\ Len(rest) = Len(q) - 1
      /\ \A k \in 1..Len(rest) : rest[k] = IF k < i THEN q[k] ELSE q[k + 1]
  <2>1. rest = front \o back
    BY DEF RemoveAt, front, back
  <2>2. /\ rest \in Seq(A) /\ Len(rest) = Len(front) + Len(back)
        /\ \A k \in 1..(Len(front) + Len(back)) :
              rest[k] = IF k <= Len(front) THEN front[k] ELSE back[k - Len(front)]
    <3> HIDE DEF rest
    <3> QED BY <1>1, <1>2, <2>1, ConcatProperties
  <2> HIDE DEF rest
  <2>3. ASSUME NEW k \in 1..Len(rest) PROVE rest[k] = IF k < i THEN q[k] ELSE q[k + 1]
    <3>1. CASE k < i
      BY <1>1, <1>2, <2>2, <3>1
    <3>2. CASE ~(k < i)
      <4>1. k - (i - 1) \in 1..(Len(q) - i) /\ i + (k - (i - 1)) = k + 1
        BY <1>1, <1>2, <2>2, <3>2
      <4>2. rest[k] = back[k - (i - 1)] /\ back[k - (i - 1)] = q[i + (k - (i - 1))]
        BY <1>1, <1>2, <2>2, <3>2, <4>1
      <4> QED BY <3>2, <4>1, <4>2
    <3> QED BY <3>1, <3>2
  <2> QED BY <1>1, <1>2, <2>2, <2>3
<1> HIDE DEF rest
<1>4. ASSUME NEW k \in DOMAIN rest, NEW l \in DOMAIN rest, rest[k] = rest[l] PROVE k = l
  <2>1. k \in 1..Len(rest) /\ l \in 1..Len(rest) /\ DOMAIN q = 1..Len(q)
    BY <1>3
  <2> DEFINE here(j) == IF j < i THEN j ELSE j + 1
  <2>2. /\ here(k) \in DOMAIN q /\ here(l) \in DOMAIN q
        /\ rest[k] = q[here(k)] /\ rest[l] = q[here(l)]
    BY <1>3, <2>1
  <2>3. here(k) = here(l)
    BY <1>4, <2>2 DEF IsInjective
  <2> QED BY <2>1, <2>3
<1>5. IsInjective(rest)
  BY <1>4 DEF IsInjective
<1> QED BY <1>3, <1>5 DEF rest

LEMMA ScheduleInit == Init => ScheduleIInv
  BY IngestAssumption DEF Init, ScheduleIInv, ScheduleHolds, TypeOK, BackoffBounded, IsInjective

\* The end of a pass.
LEMMA AnswerKeeps == ScheduleIInv /\ PollAnswer => ScheduleIInv'
<1> SUFFICES ASSUME ScheduleIInv, PollAnswer PROVE ScheduleIInv'
  OBVIOUS
<1> USE DEF ScheduleIInv, ScheduleHolds
<1>0. /\ MaxBackoff \in Nat /\ BackoffAfter \in Nat /\ MaxPoll \in Nat /\ age \in Nat
      /\ MissCap \in Nat /\ MissCap > BackoffAfter
      /\ \A b \in Cadences : b \in Nat /\ b <= MaxBackoff
  BY IngestAssumption DEF TypeOK
<1>1. PICK missed \in SUBSET due, base \in [due -> Cadences] :
          /\ left' = Kept(LeftAfter(missed, base), DOMAIN LeftAfter(missed, base))
          /\ misses' = Kept(MissesAfter(missed), DOMAIN LeftAfter(missed, base))
  BY DEF PollAnswer
<1> DEFINE later == LeftAfter(missed, base)
           again == MissesAfter(missed)
<1>2. /\ DOMAIN later = DOMAIN left \cup due
      /\ DOMAIN again = (DOMAIN misses \ due) \cup missed
  BY DEF LeftAfter, MissesAfter
<1>3. \A s \in DOMAIN again : again[s] \in Nat /\ (s \notin missed => again[s] = misses[s])
  BY <1>0 DEF TypeOK, MissesAfter, Least
<1>4. ASSUME NEW s \in DOMAIN later
      PROVE  /\ later[s] \in Nat /\ later[s] <= MaxBackoff
             /\ \/ s \in DOMAIN again /\ again[s] > BackoffAfter
                \/ \E b \in Cadences : later[s] <= b
  <2>1. CASE s \in missed
    <3>1. base[s] \in Cadences /\ again[s] \in Nat /\ s \in DOMAIN again
      BY <1>1, <1>2, <1>3, <2>1
    <3>2. later[s] = Later(NextDelay(base[s], again[s]), age)
      BY <1>2, <2>1 DEF LeftAfter
    <3>3. /\ NextDelay(base[s], again[s]) \in Nat /\ NextDelay(base[s], again[s]) <= MaxBackoff
          /\ again[s] <= BackoffAfter => NextDelay(base[s], again[s]) = base[s]
      BY <3>1, DelayBounded
    <3>4. later[s] \in Nat /\ later[s] <= NextDelay(base[s], again[s])
      BY <1>0, <3>2, <3>3, LaterBounded
    <3> HIDE DEF later, again
    <3> QED BY <1>0, <3>1, <3>3, <3>4
  <2>2. CASE s \in due \ missed
    <3>1. base[s] \in Cadences /\ base[s] \in Nat
      BY <1>0, <1>1, <2>2
    <3>2. later[s] = Later(base[s], age)
      BY <1>2, <2>2 DEF LeftAfter
    <3>3. later[s] \in Nat /\ later[s] <= base[s]
      BY <1>0, <3>1, <3>2, LaterBounded
    <3> HIDE DEF later, again
    <3> QED BY <1>0, <3>1, <3>3
  <2>3. CASE s \notin due
    <3>1. s \in DOMAIN left /\ later[s] = left[s] /\ s \notin missed
      BY <1>1, <1>2, <2>3 DEF LeftAfter
    <3>2. s \in DOMAIN misses => s \in DOMAIN again /\ again[s] = misses[s]
      BY <1>2, <1>3, <2>3, <3>1
    <3> HIDE DEF later, again
    <3> QED BY <3>1, <3>2 DEF TypeOK, BackoffBounded
  <2> QED BY <2>1, <2>2, <2>3
<1>5. /\ DOMAIN later \subseteq Symbols /\ DOMAIN again \subseteq DOMAIN later
  BY <1>1, <1>2 DEF TypeOK
<1> HIDE DEF later, again
<1>6. \E S : /\ DOMAIN left' = DOMAIN later \cap S /\ \A s \in DOMAIN left' : left'[s] = later[s]
             /\ DOMAIN misses' = DOMAIN again \cap S /\ \A s \in DOMAIN misses' : misses'[s] = again[s]
  <2>1. left' = Kept(later, DOMAIN later) /\ misses' = Kept(again, DOMAIN later)
    BY <1>1 DEF later, again
  <2>2. CASE Cardinality(DOMAIN later) > KeepMax
    <3>1. DOMAIN left' = DOMAIN later \cap asked /\ \A s \in DOMAIN left' : left'[s] = later[s]
      BY <2>1, <2>2 DEF Kept
    <3>2. DOMAIN misses' = DOMAIN again \cap asked /\ \A s \in DOMAIN misses' : misses'[s] = again[s]
      BY <2>1, <2>2 DEF Kept
    <3> QED BY <3>1, <3>2
  <2>3. CASE ~(Cardinality(DOMAIN later) > KeepMax)
    <3>1. left' = later /\ misses' = again
      BY <2>1, <2>3 DEF Kept
    <3>2. DOMAIN later = DOMAIN later \cap DOMAIN later /\ DOMAIN again = DOMAIN again \cap DOMAIN later
      BY <1>5
    <3> QED BY <3>1, <3>2
  <2> QED BY <2>2, <2>3
<1>7. /\ DOMAIN left' \subseteq Symbols /\ DOMAIN misses' \subseteq DOMAIN left'
      /\ \A s \in DOMAIN left' : left'[s] \in Nat
      /\ \A s \in DOMAIN misses' : misses'[s] \in Nat
  BY <1>3, <1>4, <1>5, <1>6
<1>8. BackoffBounded'
  BY <1>4, <1>5, <1>6 DEF BackoffBounded
<1>9. active' = active /\ due' = {} /\ asked' = {} /\ age' = 0
  BY DEF PollAnswer
<1> QED BY <1>0, <1>7, <1>8, <1>9 DEF TypeOK

LEMMA ScheduleStep == ScheduleIInv /\ [Next]_vars => ScheduleIInv'
<1> SUFFICES ASSUME ScheduleIInv, [Next]_vars PROVE ScheduleIInv'
  OBVIOUS
<1> USE DEF ScheduleIInv, ScheduleHolds
<1>1. ASSUME NEW s \in Symbols, Subscribe(s) PROVE ScheduleIInv'
  <2>1. active' \in Seq(Symbols) /\ IsInjective(active')
    BY <1>1 DEF Subscribe, TypeOK, Wanted, IsInjective
  <2> QED BY <1>1, <2>1 DEF Subscribe, TypeOK, BackoffBounded
<1>2. ASSUME NEW s \in Symbols, Unsubscribe(s) PROVE ScheduleIInv'
  <2>1. active' \in Seq(Symbols) /\ IsInjective(active')
    BY <1>2, RemovedFromList DEF Unsubscribe, TypeOK
  <2> QED BY <1>2, <2>1 DEF Unsubscribe, TypeOK, BackoffBounded
<1>3. CASE PollStart
  <2>0. DOMAIN active = 1..Len(active) /\ active \in [1..Len(active) -> Symbols]
    BY DEF TypeOK
  <2>1. DueNow \subseteq Wanted /\ Wanted \subseteq Symbols
    BY <2>0, Zenon DEF DueNow, Wanted
  <2> QED BY <1>3, <2>1, IngestAssumption DEF PollStart, TypeOK, BackoffBounded
<1>4. CASE PollAnswer
  BY <1>4, AnswerKeeps
<1>5. CASE PollFails
  BY <1>5, IngestAssumption DEF PollFails, TypeOK, BackoffBounded
<1>6. CASE Tick
  <2>0. /\ MaxPoll \in Nat /\ MaxBackoff \in Nat /\ \A b \in Cadences : b \in Nat
    BY IngestAssumption
  <2>1. /\ DOMAIN left' = DOMAIN left
        /\ \A s \in DOMAIN left : left'[s] = Later(left[s], 1) /\ left[s] \in Nat
    BY <1>6 DEF Tick, TypeOK
  <2>2. \A s \in DOMAIN left : left'[s] \in Nat /\ left'[s] <= left[s]
    BY <2>1, LaterBounded
  <2>3. age' \in 0..MaxPoll
    BY <1>6, <2>0 DEF Tick, TypeOK
  <2>4. BackoffBounded'
    BY <1>6, <2>0, <2>1, <2>2 DEF Tick, TypeOK, BackoffBounded
  <2> QED BY <1>6, <2>1, <2>2, <2>3, <2>4 DEF Tick, TypeOK
<1>7. CASE UNCHANGED vars
  BY <1>7 DEF vars, TypeOK, BackoffBounded
<1> QED BY <1>1, <1>2, <1>3, <1>4, <1>5, <1>6, <1>7 DEF Next

\* Whatever the providers answer, however long a pass takes and whoever comes and
\* goes, no symbol is put off for longer than the longest backoff, and one that is
\* within its free misses for no longer than its cadence (next_delay_ms).
THEOREM ScheduleHoldsAlways == Spec => []ScheduleHolds
<1>1. ScheduleIInv => ScheduleHolds
  BY DEF ScheduleIInv
<1> QED BY <1>1, ScheduleInit, ScheduleStep, PTL DEF Spec
=============================================================================
