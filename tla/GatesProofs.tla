---------------------------- MODULE GatesProofs ----------------------------
(***************************************************************************)
(* What stands before a route, for every allowance and limit, any number   *)
(* of requests at once, of days kept and of callers; and the file in which *)
(* the counters, like every other document, lie, for every set of contents.*)
(*                                                                         *)
(* The daily allowance: MeterHolds is not inductive, as a request that     *)
(* looked at the counter runs later, when nothing is looked at again.      *)
(* InFlight counts what ran today together with the requests that may      *)
(* still run; it survives midnight because nothing has run of a day to     *)
(* come.                                                                   *)
(*                                                                         *)
(* The windows: LimitHolds is inductive once the hits of a bucket are      *)
(* known to be told apart, so that to add one is to count one more.        *)
(*                                                                         *)
(* The file: an unmangled one is always one whole content, and every step  *)
(* of AtomicFile keeps the promise of SafeFile.                            *)
(***************************************************************************)
EXTENDS Metering, RateLimit, AtomicFile, FiniteSetTheorems, TLAPS

MeterAssumption ==
    /\ IsFiniteSet(Requests)
    /\ Limit \in Nat \ {0} /\ KeepDays \in Nat /\ LastDay \in Nat \ {0}

MeterTypes ==
    /\ today \in Days
    /\ cached \in [Days -> Nat] /\ stored \in [Days -> Nat] /\ ran \in [Days -> Nat]
    /\ passed \subseteq Requests

Most == Limit + Cardinality(Requests)

InFlight ==
    /\ ran[today] + Cardinality(passed) < Most
    /\ \A d \in Days : d > today => ran[d] = 0

MeterIInv == MeterTypes /\ MeterHolds /\ InFlight

\* The requests that may still run are finitely many, and no more than there are.
LEMMA PassedCounted ==
    ASSUME MeterAssumption, NEW S \in SUBSET Requests
    PROVE  /\ IsFiniteSet(S) /\ Cardinality(S) \in Nat /\ Cardinality(S) < Most
           /\ Most \in Nat
<1>1. IsFiniteSet(S) /\ Cardinality(S) <= Cardinality(Requests)
  BY FS_Subset DEF MeterAssumption
<1>2. Cardinality(S) \in Nat /\ Cardinality(Requests) \in Nat
  BY <1>1, FS_CardinalityType DEF MeterAssumption
<1> QED BY <1>1, <1>2 DEF MeterAssumption, Most

LEMMA OneLess ==
    ASSUME MeterAssumption, NEW S \in SUBSET Requests, NEW r \in S
    PROVE  Cardinality(S \ {r}) = Cardinality(S) - 1
  BY PassedCounted, FS_RemoveElement

\* Dropping old days leaves the days that are kept as they were.
LEMMA PrunedKept ==
    ASSUME MeterAssumption, MeterTypes, NEW c \in [Days -> Nat]
    PROVE  /\ Pruned(c) \in [Days -> Nat]
           /\ \A d \in Kept : Pruned(c)[d] = c[d]
<1>1. \A d \in Days : d \in Nat
  BY DEF Days, MeterAssumption
<1>2. today \in Nat /\ KeepDays \in Nat
  BY <1>1 DEF MeterTypes, MeterAssumption
<1>3. ASSUME NEW d \in Kept PROVE d \in Days /\ ~(d + KeepDays < today)
  BY <1>1, <1>2 DEF Kept
<1> QED BY <1>3 DEF Pruned

\* One more use today is in memory whatever becomes of it.
LEMMA CountedKept ==
    ASSUME MeterAssumption, MeterTypes
    PROVE  /\ Counted \in [Days -> Nat]
           /\ \A d \in Kept : Counted[d] = cached[d] + (IF d = today THEN 1 ELSE 0)
<1> DEFINE c == [cached EXCEPT ![today] = @ + 1]
<1>1. c \in [Days -> Nat]
  BY DEF MeterTypes
<1>2. \A d \in Kept : c[d] = cached[d] + (IF d = today THEN 1 ELSE 0)
  BY DEF MeterTypes, Kept
<1>3. Pruned(c) \in [Days -> Nat] /\ \A d \in Kept : Pruned(c)[d] = c[d]
  BY <1>1, PrunedKept
<1> QED BY <1>2, <1>3 DEF Counted

LEMMA MeterInitInv == ASSUME MeterAssumption, MeterInit PROVE MeterIInv
<1>1. today \in Days /\ NoUses \in [Days -> Nat] /\ \A d \in Days : NoUses[d] = 0
  BY DEF MeterInit, Days, NoUses, MeterAssumption
<1>2. Cardinality({}) = 0 /\ 0 < Most
  BY PassedCounted, FS_EmptySet
<1> QED BY <1>1, <1>2 DEF MeterInit, MeterIInv, MeterTypes, MeterHolds, InFlight, Kept, Most

LEMMA MeterStepInv == ASSUME MeterAssumption, MeterIInv, [MeterNext]_meterVars PROVE MeterIInv'
<1> USE DEF MeterIInv
<1>0. /\ today \in Nat /\ KeepDays \in Nat /\ today \in Kept
      /\ \A d \in Days : d \in Nat
  BY DEF MeterTypes, Days, Kept, MeterAssumption
<1>1. ASSUME NEW r \in Requests, Look(r) PROVE MeterIInv'
  <2>1. ran[today] < Limit
    <3>1. ran[today] <= cached[today] /\ cached[today] < Limit
      BY <1>0, <1>1 DEF Look, MeterHolds
    <3> QED BY <1>0, <3>1 DEF MeterTypes, MeterAssumption
  <2>2. passed' \subseteq Requests
    BY <1>1 DEF Look, MeterTypes
  <2>3. /\ Cardinality(passed') \in Nat /\ Cardinality(Requests) \in Nat
        /\ Cardinality(passed') <= Cardinality(Requests)
    BY <2>2, FS_Subset, FS_CardinalityType DEF MeterAssumption
  <2>4. ran[today] + Cardinality(passed') < Most
    BY <1>0, <2>1, <2>3 DEF Most, MeterTypes, MeterAssumption
  <2> QED BY <1>1, <2>2, <2>4 DEF Look, MeterTypes, MeterHolds, InFlight, Kept, Most
\* What running a request does to the histories, whether or not it is saved.
<1>2. ASSUME NEW r \in passed, passed' = passed \ {r}, today' = today,
             cached' = Counted, stored' \in {stored, Counted},
             ran' \in {ran, [ran EXCEPT ![today] = @ + 1]},
             stored' = Counted \/ ran' = ran
      PROVE  MeterIInv'
  <2>1. MeterTypes'
    BY <1>2, CountedKept DEF MeterTypes
  <2>2. ASSUME NEW d \in Kept
        PROVE  ran'[d] <= stored'[d] /\ ran'[d] <= cached'[d]
    <3>1. /\ ran[d] \in Nat /\ cached[d] \in Nat /\ stored[d] \in Nat
          /\ ran[d] <= stored[d] /\ ran[d] <= cached[d]
      BY DEF MeterTypes, MeterHolds, Kept
    <3>2. Counted[d] = cached[d] + (IF d = today THEN 1 ELSE 0)
      BY CountedKept
    <3>3. CASE ran' = ran
      BY <1>2, <3>1, <3>2, <3>3
    <3>4. CASE ran' # ran
      <4>1. stored' = Counted
        BY <1>2, <3>4
      <4>2. ran'[d] = ran[d] + (IF d = today THEN 1 ELSE 0)
        BY <1>2, <3>4 DEF MeterTypes, Kept
      <4> QED BY <1>2, <3>1, <3>2, <4>1, <4>2
    <3> QED BY <3>3, <3>4
  <2>3. /\ Cardinality(passed \ {r}) = Cardinality(passed) - 1
        /\ Cardinality(passed) \in Nat /\ Most \in Nat
    <3>1. passed \in SUBSET Requests
      BY DEF MeterTypes
    <3> QED BY <3>1, OneLess, PassedCounted
  <2>4. \A d \in Days : ran'[d] = ran[d] \/ (d = today /\ ran'[d] = ran[d] + 1)
    BY <1>2 DEF MeterTypes
  <2>5. Cardinality(passed \ {r}) \in Nat
    <3>1. passed \ {r} \in SUBSET Requests
      BY DEF MeterTypes
    <3> QED BY <3>1, PassedCounted
  <2>6. \A d \in Days : ran[d] \in Nat /\ ran'[d] \in Nat
    BY <2>1 DEF MeterTypes
  <2>7. ran'[today] + Cardinality(passed') < Most
    BY <1>2, <2>3, <2>4, <2>6 DEF InFlight, MeterTypes
  <2>8. \A d \in Kept : ran'[d] < Most
    <3>1. \A d \in Kept : ran[d] < Most /\ d \in Days
      BY DEF MeterHolds, Kept, Most
    <3>2. ran'[today] < Most
      BY <1>2, <2>3, <2>5, <2>6, <2>7 DEF MeterTypes
    <3> QED BY <2>4, <3>1, <3>2
  <2>9. MeterHolds'
    BY <1>2, <2>2, <2>8 DEF MeterHolds, Kept, Most
  <2>10. InFlight'
    BY <1>0, <1>2, <2>4, <2>7 DEF InFlight, Most
  <2> QED BY <2>1, <2>9, <2>10
<1>3. ASSUME NEW r \in Requests, Record(r) PROVE MeterIInv'
  BY <1>2, <1>3 DEF Record, MeterTypes
<1>4. ASSUME NEW r \in Requests, RecordFails(r) PROVE MeterIInv'
  BY <1>2, <1>4 DEF RecordFails
<1>5. ASSUME Reset PROVE MeterIInv'
  <2>1. NoUses \in [Days -> Nat] /\ \A d \in Days : NoUses[d] = 0
    BY DEF NoUses
  <2>2. stored' \in [Days -> Nat]
    BY <1>5, <2>1 DEF Reset, MeterTypes
  <2>3. Cardinality(passed) < Most /\ Cardinality(passed) \in Nat /\ 0 < Most
    <3>1. passed \in SUBSET Requests /\ {} \in SUBSET Requests
      BY DEF MeterTypes
    <3> QED BY <3>1, PassedCounted, FS_EmptySet
  <2> QED BY <1>5, <2>1, <2>2, <2>3 DEF Reset, MeterTypes, MeterHolds, InFlight, Kept, Most
<1>6. ASSUME Midnight PROVE MeterIInv'
  <2>1. today' = today + 1 /\ today' \in Days /\ today' > today
    BY <1>0, <1>6 DEF Midnight, Days, MeterAssumption
  <2>2. ran[today'] = 0
    BY <2>1 DEF InFlight
  <2>3. Cardinality(passed) < Most /\ Cardinality(passed) \in Nat
    <3>1. passed \in SUBSET Requests
      BY DEF MeterTypes
    <3> QED BY <3>1, PassedCounted
  <2>4. Kept' \subseteq Kept
    <3>1. \A d \in Days : d + KeepDays >= today + 1 => d + KeepDays >= today
      BY <1>0
    <3> QED BY <2>1, <3>1 DEF Kept
  <2>5. \A d \in Days : d > today' => ran[d] = 0
    BY <1>0, <2>1 DEF InFlight
  <2> QED BY <1>6, <2>1, <2>2, <2>3, <2>4, <2>5
          DEF Midnight, MeterTypes, MeterHolds, InFlight, Most
<1>7. ASSUME MeterRestart PROVE MeterIInv'
  <2>1. Cardinality({}) = 0 /\ Cardinality(passed) \in Nat /\ Most \in Nat
    <3>1. passed \in SUBSET Requests
      BY DEF MeterTypes
    <3> QED BY <3>1, PassedCounted, FS_EmptySet
  <2>2. ran[today] + 0 < Most
    BY <2>1 DEF InFlight, MeterTypes
  <2> QED BY <1>7, <2>1, <2>2 DEF MeterRestart, MeterTypes, MeterHolds, InFlight, Kept, Most
<1>8. CASE UNCHANGED meterVars
  BY <1>8 DEF meterVars, MeterTypes, MeterHolds, InFlight, Kept, Most
<1> QED BY <1>1, <1>3, <1>4, <1>5, <1>6, <1>7, <1>8 DEF MeterNext

\* A run is in the file before it begins, and of one day no more are run than the
\* allowance and the requests that looked at the counter at the same time, for
\* every allowance, number of requests, days kept and days.
THEOREM MeterHoldsAlways ==
    ASSUME MeterAssumption
    PROVE  MeterSpec => []MeterHolds
<1>1. MeterInit => MeterIInv
  BY MeterInitInv
<1>2. MeterIInv /\ [MeterNext]_meterVars => MeterIInv'
  BY MeterStepInv
<1>3. MeterIInv => MeterHolds
  BY DEF MeterIInv
<1> QED BY <1>1, <1>2, <1>3, PTL DEF MeterSpec
-----------------------------------------------------------------------------
(* The windows.  What a bucket holds and what was granted to it differ only  *)
(* in hits that have aged out, unless it was shed; that a dead bucket is     *)
(* dropped is no difference, because there is nothing fresh in it.           *)

FreshAt(stamps, t) == {h \in stamps : t < h.at + Window}

\* The hits of a bucket are told apart: no number is beyond the hits of its time.
Numbered(stamps) ==
    /\ IsFiniteSet(stamps)
    /\ \A h \in stamps : /\ h.at \in Nat /\ h.n \in Nat
                         /\ h.n <= Cardinality({g \in stamps : g.at = h.at})

LimitTypes ==
    /\ time \in Nat /\ refused \subseteq Buckets
    /\ granted = [k \in Buckets |-> granted[k]]
    /\ hits = [k \in DOMAIN hits |-> hits[k]]
    /\ DOMAIN hits \subseteq Buckets /\ IsFiniteSet(DOMAIN hits)
    /\ \A k \in DOMAIN hits : \A h \in hits[k] : h.at \in Nat
    /\ \A k \in Buckets : Numbered(granted[k])

LimitIInv == LimitTypes /\ LimitHolds

LEMMA FreshNow == \A s : Fresh(s) = FreshAt(s, time) /\ Fresh(s)' = FreshAt(s, time')
  BY DEF Fresh, FreshAt

\* Hits age together with those of their time.
LEMMA FreshNumbered ==
    ASSUME NEW s, Numbered(s), NEW t \in Nat
    PROVE  /\ Numbered(FreshAt(s, t)) /\ FreshAt(FreshAt(s, t), t) = FreshAt(s, t)
           /\ Cardinality(FreshAt(s, t)) \in Nat
<1>1. IsFiniteSet(FreshAt(s, t))
  BY FS_Subset DEF Numbered, FreshAt
<1>2. ASSUME NEW h \in FreshAt(s, t)
      PROVE  {g \in FreshAt(s, t) : g.at = h.at} = {g \in s : g.at = h.at}
  BY DEF FreshAt
<1>3. Numbered(FreshAt(s, t))
  BY <1>1, <1>2 DEF Numbered, FreshAt
<1> QED BY <1>1, <1>3, FS_CardinalityType DEF FreshAt

LEMMA FreshLater ==
    ASSUME NEW s, \A h \in s : h.at \in Nat, NEW t \in Nat
    PROVE  /\ FreshAt(s, t + 1) \subseteq FreshAt(s, t)
           /\ FreshAt(s, t + 1) = FreshAt(FreshAt(s, t), t + 1)
  BY RatesAssumption DEF FreshAt

\* A hit more is one more, however many there are of its time already.
LEMMA OneMoreCounts ==
    ASSUME NEW s, Numbered(s), time \in Nat
    PROVE  Numbered(OneMoreHit(s)) /\ Cardinality(OneMoreHit(s)) = Cardinality(s) + 1
<1> DEFINE now == {h \in s : h.at = time}
           hit == [at |-> time, n |-> Cardinality(now) + 1]
<1>1. IsFiniteSet(now) /\ Cardinality(now) \in Nat /\ IsFiniteSet(s)
  BY FS_Subset, FS_CardinalityType DEF Numbered
<1>2. OneMoreHit(s) = s \cup {hit}
  BY DEF OneMoreHit
<1>3. hit.at = time /\ hit.n = Cardinality(now) + 1
  OBVIOUS
<1> HIDE DEF hit
<1>4. hit \notin s
  <2>1. SUFFICES ASSUME hit \in s PROVE FALSE
    OBVIOUS
  <2>2. hit.n <= Cardinality(now)
    BY <1>3, <2>1 DEF Numbered
  <2> QED BY <1>1, <1>3, <2>2
<1>5. IsFiniteSet(s \cup {hit}) /\ Cardinality(s \cup {hit}) = Cardinality(s) + 1
  BY <1>1, <1>4, FS_AddElement
<1>6. ASSUME NEW h \in s \cup {hit}
      PROVE  /\ h.at \in Nat /\ h.n \in Nat
             /\ h.n <= Cardinality({g \in s \cup {hit} : g.at = h.at})
  <2>1. CASE h.at = time
    <3>1. {g \in s \cup {hit} : g.at = h.at} = now \cup {hit}
      BY <1>3, <2>1
    <3>2. hit \notin now
      BY <1>4
    <3>3. Cardinality(now \cup {hit}) = Cardinality(now) + 1
      BY <1>1, <3>2, FS_AddElement
    <3>4. h \in s => h.n \in Nat /\ h.n <= Cardinality(now)
      BY <2>1 DEF Numbered
    <3>5. h.at \in Nat /\ h.n \in Nat /\ h.n <= Cardinality(now) + 1
      <4>1. CASE h \in s
        <5>1. h.at \in Nat /\ h.n \in Nat
          BY <4>1 DEF Numbered
        <5> HIDE DEF now
        <5> QED BY <1>1, <3>4, <4>1, <5>1
      <4>2. CASE h = hit
        BY <1>1, <1>3, <4>2
      <4> QED BY <4>1, <4>2
    <3> QED BY <3>1, <3>3, <3>5
  <2>2. CASE h.at # time
    <3>1. h \in s /\ {g \in s \cup {hit} : g.at = h.at} = {g \in s : g.at = h.at}
      BY <1>3, <2>2
    <3> QED BY <3>1 DEF Numbered
  <2> QED BY <2>1, <2>2
<1> HIDE DEF now
<1> QED BY <1>2, <1>5, <1>6 DEF Numbered

LEMMA LimitInitInv == LimitInit => LimitIInv
<1> SUFFICES ASSUME LimitInit PROVE LimitIInv
  OBVIOUS
<1>1. IsFiniteSet({}) /\ Cardinality({}) = 0
  BY FS_EmptySet
<1>2. Numbered({})
  BY <1>1 DEF Numbered
<1>3. /\ time = 0 /\ DOMAIN hits = {} /\ refused = {}
      /\ hits = [k \in DOMAIN hits |-> hits[k]]
      /\ granted = [k \in Buckets |-> {}]
  BY DEF LimitInit
<1>4. LimitTypes
  BY <1>1, <1>2, <1>3 DEF LimitTypes
<1>5. \A k \in Buckets : Fresh(granted[k]) = {}
  BY <1>3 DEF Fresh
<1>6. \A k \in Buckets : k \notin DOMAIN hits /\ k \notin refused
  BY <1>3
<1>7. 0 <= MaxHits /\ Cardinality(DOMAIN hits) <= MaxKeys + 1
  BY <1>1, <1>3, RatesAssumption
<1>8. LimitHolds
  BY <1>1, <1>5, <1>6, <1>7 DEF LimitHolds
<1> QED BY <1>4, <1>8 DEF LimitIInv

LEMMA PassesInv == LimitIInv /\ Passes => LimitIInv'
<1> SUFFICES ASSUME LimitIInv, Passes PROVE LimitIInv'
  OBVIOUS
<1>1. /\ time \in Nat /\ time' = time + 1 /\ refused' = {} /\ hits' = hits /\ granted' = granted
      /\ LimitTypes /\ LimitHolds
  BY DEF LimitIInv, LimitTypes, Passes
<1>2. LimitTypes'
  BY <1>1 DEF LimitTypes
<1>3. ASSUME NEW k \in Buckets
      PROVE  /\ Cardinality(FreshAt(granted[k], time + 1)) <= MaxHits
             /\ FreshAt(granted[k], time + 1) =
                   IF k \in DOMAIN hits THEN FreshAt(hits[k], time + 1) ELSE {}
  <2>1. /\ Numbered(granted[k]) /\ Cardinality(FreshAt(granted[k], time)) <= MaxHits
        /\ FreshAt(granted[k], time) = IF k \in DOMAIN hits THEN FreshAt(hits[k], time) ELSE {}
        /\ k \in DOMAIN hits => \A h \in hits[k] : h.at \in Nat
    BY <1>1, FreshNow DEF LimitTypes, LimitHolds
  <2>2. /\ FreshAt(granted[k], time + 1) \subseteq FreshAt(granted[k], time)
        /\ FreshAt(granted[k], time + 1) = FreshAt(FreshAt(granted[k], time), time + 1)
    BY <1>1, <2>1, FreshLater DEF Numbered
  <2>3. k \in DOMAIN hits => FreshAt(hits[k], time + 1) = FreshAt(FreshAt(hits[k], time), time + 1)
    BY <1>1, <2>1, FreshLater
  <2>4. FreshAt({}, time + 1) = {}
    BY DEF FreshAt
  <2>5. IsFiniteSet(FreshAt(granted[k], time)) /\ Cardinality(FreshAt(granted[k], time)) \in Nat
    BY <1>1, <2>1, FreshNumbered DEF Numbered
  <2>6. /\ Cardinality(FreshAt(granted[k], time + 1)) <= Cardinality(FreshAt(granted[k], time))
        /\ Cardinality(FreshAt(granted[k], time + 1)) \in Nat
    BY <2>2, <2>5, FS_Subset, FS_CardinalityType
  <2>7. Cardinality(FreshAt(granted[k], time + 1)) <= MaxHits
    BY <2>1, <2>5, <2>6, RatesAssumption
  <2>8. CASE k \in DOMAIN hits
    BY <2>1, <2>2, <2>3, <2>7, <2>8
  <2>9. CASE k \notin DOMAIN hits
    BY <2>1, <2>2, <2>4, <2>7, <2>9
  <2> QED BY <2>8, <2>9
<1>4. LimitHolds'
  BY <1>1, <1>3, FreshNow DEF LimitHolds
<1> QED BY <1>2, <1>4 DEF LimitIInv

\* The table and what was granted, when some buckets are shed.
KeptBut(shed) ==
    IF Cardinality(DOMAIN hits) > MaxKeys THEN [l \in Alive \ shed |-> hits[l]] ELSE hits
GrantedBut(shed) == [l \in Buckets |-> IF l \in shed THEN {} ELSE Fresh(granted[l])]

\* What is left of the table before the hit is charged: room for one bucket more, and
\* of every bucket what was granted to it and has not aged out.
LEMMA TableLeft ==
    ASSUME LimitIInv, NEW shed \in IF Cardinality(DOMAIN hits) > MaxKeys THEN Shed ELSE {{}}
    PROVE  LET kept == KeptBut(shed)
               before == GrantedBut(shed)
           IN
           /\ kept = [l \in DOMAIN kept |-> hits[l]] /\ DOMAIN kept \subseteq DOMAIN hits
           /\ IsFiniteSet(DOMAIN kept) /\ Cardinality(DOMAIN kept) <= MaxKeys
           /\ \A l \in Buckets : /\ Numbered(before[l]) /\ Cardinality(before[l]) <= MaxHits
                                 /\ FreshAt(before[l], time) = before[l]
                                 /\ before[l] = IF l \in DOMAIN kept THEN Fresh(kept[l]) ELSE {}
<1> DEFINE kept == KeptBut(shed)
           before == GrantedBut(shed)
<1>0. /\ time \in Nat /\ hits = [k \in DOMAIN hits |-> hits[k]] /\ DOMAIN hits \subseteq Buckets
      /\ IsFiniteSet(DOMAIN hits) /\ Cardinality(DOMAIN hits) \in Nat /\ MaxKeys \in Nat /\ MaxHits \in Nat
  BY FS_CardinalityType, RatesAssumption DEF LimitIInv, LimitTypes
<1>1. /\ kept = [l \in DOMAIN kept |-> hits[l]] /\ DOMAIN kept \subseteq DOMAIN hits
      /\ \A l \in shed : l \notin DOMAIN kept
      /\ \A l \in DOMAIN hits \ DOMAIN kept : l \in shed \/ Fresh(hits[l]) = {}
  <2>1. CASE Cardinality(DOMAIN hits) > MaxKeys
    BY <2>1 DEF Alive, Dead, KeptBut
  <2>2. CASE ~(Cardinality(DOMAIN hits) > MaxKeys)
    BY <1>0, <2>2 DEF KeptBut
  <2> QED BY <2>1, <2>2
<1>2. IsFiniteSet(DOMAIN kept) /\ Cardinality(DOMAIN kept) <= MaxKeys
  <2>1. IsFiniteSet(DOMAIN kept)
    BY <1>0, <1>1, FS_Subset
  <2>2. CASE ~(Cardinality(DOMAIN hits) > MaxKeys)
    BY <1>0, <2>1, <2>2 DEF KeptBut
  <2>3. CASE Cardinality(DOMAIN hits) > MaxKeys
    <3>1. IsFiniteSet(Alive) /\ Cardinality(Alive) \in Nat /\ DOMAIN kept = Alive \ shed /\ shed \in Shed
      BY <1>0, <2>3, FS_Subset, FS_CardinalityType DEF Alive, KeptBut
    <3>2. CASE Cardinality(Alive) <= MaxKeys
      BY <3>1, <3>2 DEF Shed
    <3>3. CASE ~(Cardinality(Alive) <= MaxKeys)
      <4>1. shed \subseteq Alive /\ Cardinality(shed) = Cardinality(Alive) - MaxKeys
        BY <3>1, <3>3 DEF Shed
      <4>2. Alive \cap shed = shed
        BY <4>1
      <4>3. Cardinality(Alive \ shed) = Cardinality(Alive) - Cardinality(Alive \cap shed)
        BY <3>1, <4>1, FS_Difference
      <4>4. Cardinality(DOMAIN kept) = Cardinality(Alive) - Cardinality(shed)
        BY <3>1, <4>2, <4>3
      <4>5. Cardinality(DOMAIN kept) = MaxKeys
        BY <1>0, <3>1, <4>1, <4>4
      <4> QED BY <1>0, <2>1, <4>5
    <3> QED BY <3>2, <3>3
  <2> QED BY <2>1, <2>2, <2>3
<1>3. ASSUME NEW l \in Buckets
      PROVE  /\ Numbered(before[l]) /\ Cardinality(before[l]) <= MaxHits
             /\ FreshAt(before[l], time) = before[l]
             /\ before[l] = IF l \in DOMAIN kept THEN Fresh(kept[l]) ELSE {}
  <2>1. /\ Numbered(granted[l]) /\ Cardinality(Fresh(granted[l])) <= MaxHits
        /\ Fresh(granted[l]) = IF l \in DOMAIN hits THEN Fresh(hits[l]) ELSE {}
    BY DEF LimitIInv, LimitTypes, LimitHolds
  <2>2. CASE l \in shed
    <3>1. before[l] = {} /\ l \notin DOMAIN kept
      BY <1>1, <2>2 DEF GrantedBut
    <3> QED BY <1>0, <3>1, FS_EmptySet DEF Numbered, FreshAt
  <2>3. CASE l \notin shed
    <3>1. before[l] = Fresh(granted[l]) /\ Fresh(granted[l]) = FreshAt(granted[l], time)
      BY <2>3, FreshNow DEF GrantedBut
    <3>2. Numbered(before[l]) /\ FreshAt(before[l], time) = before[l]
      BY <1>0, <2>1, <3>1, FreshNumbered
    <3>3. before[l] = IF l \in DOMAIN kept THEN Fresh(kept[l]) ELSE {}
      BY <1>1, <2>1, <2>3, <3>1
    <3> QED BY <2>1, <3>1, <3>2, <3>3
  <2> QED BY <2>2, <2>3
<1> QED BY <1>1, <1>2, <1>3

LEMMA OneBucketMore ==
    ASSUME NEW s, IsFiniteSet(s), NEW k, Cardinality(s) <= MaxKeys
    PROVE  IsFiniteSet(s \cup {k}) /\ Cardinality(s \cup {k}) <= MaxKeys + 1
<1>1. Cardinality(s) \in Nat /\ MaxKeys \in Nat
  BY FS_CardinalityType, RatesAssumption
<1>2. CASE k \in s
  <2>1. s \cup {k} = s
    BY <1>2
  <2>2. IsFiniteSet(s \cup {k}) /\ Cardinality(s \cup {k}) = Cardinality(s)
    BY <2>1, Zenon
  <2> QED BY <1>1, <2>2
<1>3. CASE k \notin s
  <2>1. IsFiniteSet(s \cup {k}) /\ Cardinality(s \cup {k}) = Cardinality(s) + 1
    BY <1>3, FS_AddElement
  <2> QED BY <1>1, <2>1
<1> QED BY <1>2, <1>3

LEMMA ConsumeInv == ASSUME LimitIInv, NEW k \in Buckets, Consume(k) PROVE LimitIInv'
<1>1. PICK shed \in IF Cardinality(DOMAIN hits) > MaxKeys THEN Shed ELSE {{}} :
          Charge(k, KeptBut(shed), GrantedBut(shed))
  BY DEF Consume, KeptBut, GrantedBut
<1> DEFINE kept == KeptBut(shed)
           before == GrantedBut(shed)
           stamps == before[k]
<1>2. /\ kept = [l \in DOMAIN kept |-> hits[l]] /\ DOMAIN kept \subseteq DOMAIN hits
      /\ IsFiniteSet(DOMAIN kept) /\ Cardinality(DOMAIN kept) <= MaxKeys
      /\ \A l \in Buckets : /\ Numbered(before[l]) /\ Cardinality(before[l]) <= MaxHits
                            /\ FreshAt(before[l], time) = before[l]
                            /\ before[l] = IF l \in DOMAIN kept THEN Fresh(kept[l]) ELSE {}
  BY TableLeft
<1>3. Charge(k, kept, before) /\ before = [l \in Buckets |-> before[l]]
  BY <1>1 DEF GrantedBut
<1> HIDE DEF kept, before
<1>4. /\ time \in Nat /\ time' = time /\ MaxKeys \in Nat /\ MaxHits \in Nat
      /\ DOMAIN kept \subseteq Buckets
      /\ \A l \in DOMAIN kept : kept[l] = hits[l] /\ \A h \in kept[l] : h.at \in Nat
      /\ Numbered(stamps) /\ Cardinality(stamps) \in Nat /\ Cardinality(stamps) <= MaxHits
  BY <1>2, RatesAssumption, FS_CardinalityType DEF LimitIInv, LimitTypes, Consume, Numbered
<1>5. PICK charged :
          /\ hits' = [l \in DOMAIN kept \cup {k} |-> IF l = k THEN charged ELSE kept[l]]
          /\ granted' = [before EXCEPT ![k] = charged]
          /\ Numbered(charged) /\ Cardinality(charged) <= MaxHits /\ FreshAt(charged, time) = FreshAt(charged, time')
          /\ \/ refused' = {}
             \/ refused' = {k} /\ Cardinality(FreshAt(charged, time)) = MaxHits
          /\ Cardinality(FreshAt(charged, time)) <= MaxHits
  <2>1. stamps = IF k \in DOMAIN kept THEN Fresh(kept[k]) ELSE {}
    BY <1>2
  <2>2. CASE Cardinality(stamps) >= MaxHits
    <3>1. /\ hits' = [l \in DOMAIN kept \cup {k} |-> IF l = k THEN stamps ELSE kept[l]]
          /\ granted' = before /\ refused' = {k}
      BY <1>3, <2>1, <2>2 DEF Charge
    <3>2. before = [before EXCEPT ![k] = stamps]
      BY <1>3
    <3>3. FreshAt(stamps, time) = stamps /\ Cardinality(stamps) = MaxHits
      BY <1>2, <1>4, <2>2
    <3> QED BY <1>4, <3>1, <3>2, <3>3
  <2>3. CASE ~(Cardinality(stamps) >= MaxHits)
    <3>1. /\ hits' = [l \in DOMAIN kept \cup {k} |-> IF l = k THEN OneMoreHit(stamps) ELSE kept[l]]
          /\ granted' = [before EXCEPT ![k] = OneMoreHit(stamps)] /\ refused' = {}
      BY <1>3, <2>1, <2>3 DEF Charge
    <3>2. Numbered(OneMoreHit(stamps)) /\ Cardinality(OneMoreHit(stamps)) = Cardinality(stamps) + 1
      BY <1>4, OneMoreCounts
    <3>3. /\ IsFiniteSet(OneMoreHit(stamps)) /\ FreshAt(OneMoreHit(stamps), time) \subseteq OneMoreHit(stamps)
      BY <3>2 DEF Numbered, FreshAt
    <3>4. /\ Cardinality(FreshAt(OneMoreHit(stamps), time)) <= Cardinality(OneMoreHit(stamps))
          /\ Cardinality(FreshAt(OneMoreHit(stamps), time)) \in Nat
      BY <3>3, FS_Subset, FS_CardinalityType
    <3> DEFINE more == OneMoreHit(stamps)
    <3>5. /\ Cardinality(more) <= MaxHits /\ Cardinality(FreshAt(more, time)) <= MaxHits
          /\ FreshAt(more, time) = FreshAt(more, time')
      <4> HIDE DEF more, stamps
      <4> QED BY <1>4, <2>3, <3>2, <3>4 DEF more
    <3> HIDE DEF more
    <3> QED BY <3>1, <3>2, <3>5 DEF more
  <2> QED BY <2>2, <2>3
<1> HIDE DEF stamps
<1>6. \A l \in Buckets : granted'[l] = IF l = k THEN charged ELSE before[l]
  BY <1>3, <1>5
<1>7. /\ DOMAIN hits' = DOMAIN kept \cup {k}
      /\ \A l \in DOMAIN hits' : hits'[l] = IF l = k THEN charged ELSE kept[l]
  BY <1>5
<1>8. /\ IsFiniteSet(DOMAIN kept \cup {k}) /\ Cardinality(DOMAIN kept \cup {k}) <= MaxKeys + 1
  BY <1>2, <1>4, OneBucketMore
<1>9. LimitTypes'
  <2>1. \A l \in Buckets : Numbered(granted'[l])
    BY <1>2, <1>5, <1>6
  <2>2. \A l \in DOMAIN hits' : \A h \in hits'[l] : h.at \in Nat
    BY <1>4, <1>5, <1>7 DEF Numbered
  <2>3. granted' = [l \in Buckets |-> granted'[l]] /\ hits' = [l \in DOMAIN hits' |-> hits'[l]]
    BY <1>3, <1>5
  <2> QED BY <1>4, <1>5, <1>7, <1>8, <2>1, <2>2, <2>3 DEF LimitTypes
<1>10. ASSUME NEW l \in Buckets
       PROVE  /\ Cardinality(FreshAt(granted'[l], time')) <= MaxHits
              /\ FreshAt(granted'[l], time') = IF l \in DOMAIN hits' THEN FreshAt(hits'[l], time') ELSE {}
              /\ l \in refused' => Cardinality(FreshAt(granted'[l], time')) = MaxHits
  <2>1. CASE l = k
    BY <1>4, <1>5, <1>6, <1>7, <2>1
  <2>2. CASE l # k
    <3>1. /\ granted'[l] = before[l] /\ FreshAt(before[l], time) = before[l]
          /\ Cardinality(before[l]) <= MaxHits /\ l \notin refused'
      BY <1>2, <1>5, <1>6, <2>2
    <3>2. before[l] = IF l \in DOMAIN kept THEN FreshAt(kept[l], time) ELSE {}
      BY <1>2, FreshNow
    <3>3. l \in DOMAIN hits' <=> l \in DOMAIN kept
      BY <1>7, <2>2
    <3>4. l \in DOMAIN kept => hits'[l] = kept[l]
      BY <1>7, <2>2
    <3> QED BY <1>4, <3>1, <3>2, <3>3, <3>4
  <2> QED BY <2>1, <2>2
<1>11. LimitHolds'
  BY <1>7, <1>8, <1>10, FreshNow DEF LimitHolds
<1> QED BY <1>9, <1>11 DEF LimitIInv

\* Of one bucket no more hits are granted in a window than the limit, none is refused
\* below it, and nothing of a window is forgotten but by being shed, for every number
\* of buckets, every limit, window and size of the table.
THEOREM LimitHoldsAlways == LimitSpec => []LimitHolds
<1>1. ASSUME LimitIInv, UNCHANGED limitVars PROVE LimitIInv'
  BY <1>1 DEF LimitIInv, LimitTypes, LimitHolds, limitVars, Fresh
<1>2. LimitIInv /\ [LimitNext]_limitVars => LimitIInv'
  BY <1>1, PassesInv, ConsumeInv DEF LimitNext
<1>3. LimitIInv => LimitHolds
  BY DEF LimitIInv
<1> QED BY <1>2, <1>3, LimitInitInv, PTL DEF LimitSpec

-----------------------------------------------------------------------------
(* The file. *)


Whole == Values \cup {Absent}

\* What is being written, and what a damaged file is recovered to.
InHand ==
    /\ pc # "idle" => new \in Values
    /\ reader \in {"idle", "quarantine"}
    /\ reader # "idle" => recovered \in Values \cup {Default}

\* Everything the path may turn out to hold was once completely written, and is
\* among what the last write, or a crash, left open.  A damaged file is only met
\* once something has mangled it.
Accounted ==
    ~mangled =>
        /\ saved \subseteq Whole
        /\ reverts \subseteq saved
        /\ file \in Whole
        /\ pc = "sync" => file = new
        /\ pc # "sync" => file \in saved
        /\ reader = "idle"

IInv == FileTypeOK /\ InHand /\ Accounted

\* The initial states satisfy the inductive invariant.
LEMMA InitIInv == FileInit => IInv
  BY FileAssumption
     DEF FileInit, IInv, FileTypeOK, InHand, Accounted, Whole, Contents

\* The types, and what is in hand, survive every step.
LEMMA TypeStep == IInv /\ [FileNext]_fileVars => FileTypeOK' /\ InHand'
<1> SUFFICES ASSUME IInv, [FileNext]_fileVars
             PROVE  FileTypeOK' /\ InHand'
  OBVIOUS
<1> USE FileAssumption DEF IInv, FileTypeOK, InHand, Contents
<1>1. ASSUME NEW v \in Values, WriteBegin(v) PROVE FileTypeOK' /\ InHand'
  BY <1>1 DEF WriteBegin, reading
<1>2. CASE WriteData
  BY <1>2 DEF WriteData, reading
<1>3. CASE BackupBegin \/ BackupEnd \/ BackupRefused
  BY <1>3 DEF BackupBegin, BackupEnd, BackupRefused, reading, disk
<1>4. CASE Replace
  BY <1>4 DEF Replace, reading
<1>5. CASE SyncDir \/ SyncDirRefused
  BY <1>5 DEF SyncDir, SyncDirRefused, reading, disk
<1>6. CASE WriteFails
  BY <1>6 DEF WriteFails, reading
<1>7. CASE Kill \/ PowerLoss
  BY <1>7 DEF Kill, PowerLoss, Stop
<1>8. CASE Mangle
  BY <1>8 DEF Mangle, reading
<1>9. CASE Read \/ ReadDamaged
  BY <1>9 DEF Read, ReadDamaged, disk, writing
<1>10. CASE Quarantine
  BY <1>10 DEF Quarantine, writing
<1>11. CASE UNCHANGED fileVars
  BY <1>11 DEF fileVars, disk, writing, reading
<1> QED
  BY <1>1, <1>2, <1>3, <1>4, <1>5, <1>6, <1>7, <1>8, <1>9, <1>10, <1>11 DEF FileNext

\* Every content stays accounted for.  Only the rename, the two ways a write
\* returns and the crashes change what the path may hold.
LEMMA AccountedStep == IInv /\ [FileNext]_fileVars => Accounted'
<1> SUFFICES ASSUME IInv, [FileNext]_fileVars, ~mangled'
             PROVE  Accounted'
  BY DEF Accounted
<1>0. ~mangled
  BY DEF IInv, FileTypeOK, FileNext, fileVars, disk, writing, reading, WriteBegin, WriteData,
     BackupBegin, BackupEnd, BackupRefused, Replace, SyncDir, SyncDirRefused,
     WriteFails, Kill, PowerLoss, Stop, Mangle, Read, ReadDamaged, Quarantine
<1> USE FileAssumption, <1>0 DEF IInv, FileTypeOK, InHand, Accounted, Whole
<1>1. ASSUME NEW v \in Values, WriteBegin(v) PROVE Accounted'
  BY <1>1 DEF WriteBegin, reading
<1>2. CASE WriteData \/ BackupBegin \/ BackupEnd \/ BackupRefused
  BY <1>2 DEF WriteData, BackupBegin, BackupEnd, BackupRefused, reading, disk
<1>3. CASE Replace
  \* The temporary file holds the new content; the old one may still come back.
  BY <1>3 DEF Replace, reading
<1>4. CASE SyncDir \/ SyncDirRefused
  BY <1>4 DEF SyncDir, SyncDirRefused, reading, disk
<1>5. CASE WriteFails
  BY <1>5 DEF WriteFails, reading
<1>6. CASE Kill \/ PowerLoss
  BY <1>6 DEF Kill, PowerLoss, Stop
<1>7. CASE Mangle
  BY <1>7 DEF Mangle
<1>8. CASE Read \/ ReadDamaged \/ Quarantine
  \* Only a mangled file is unreadable.
  BY <1>8 DEF Read, ReadDamaged, Quarantine, disk, writing
<1>9. CASE UNCHANGED fileVars
  BY <1>9 DEF fileVars, disk, writing, reading
<1> QED
  BY <1>1, <1>2, <1>3, <1>4, <1>5, <1>6, <1>7, <1>8, <1>9 DEF FileNext

\* At every step of a write, after every failure and after a crash the file is
\* one whole content: what was saved, or what a write has just put in its place;
\* and the disk, the writer and the reader keep their types (write_json_atomic).
THEOREM FileHoldsAlways == FileSpec => []FileHolds
<1>1. IInv /\ [FileNext]_fileVars => IInv'
  BY TypeStep, AccountedStep DEF IInv
<1>2. IInv => FileHolds
  BY DEF IInv, FileTypeOK, Accounted, Whole, WholeOldOrNew, FileHolds
<1> QED
  BY InitIInv, <1>1, <1>2, PTL DEF FileSpec

\* Every step of the file is a step of SafeFile, or none: only the rename puts a
\* content in place, only a return or a crash settles what may come back, and
\* a read that is answered at once is answered with the content.
LEMMA StepIsSafe == IInv /\ IInv' /\ [FileNext]_fileVars => [Safe!Next]_(Safe!vars)
<1> SUFFICES ASSUME IInv, IInv', [FileNext]_fileVars, ~mangled'
             PROVE  [Safe!Next]_(Safe!vars)
  BY DEF Safe!Next
<1>0. ~mangled
  BY DEF IInv, FileTypeOK, FileNext, fileVars, disk, writing, reading, WriteBegin, WriteData,
     BackupBegin, BackupEnd, BackupRefused, Replace, SyncDir, SyncDirRefused,
     WriteFails, Kill, PowerLoss, Stop, Mangle, Read, ReadDamaged, Quarantine
<1> USE <1>0, FileAssumption DEF IInv, FileTypeOK, InHand, Accounted, Whole
<1>1. CASE (\E v \in Values : WriteBegin(v)) \/ WriteData \/ BackupBegin
           \/ BackupEnd \/ BackupRefused \/ WriteFails \/ ReadDamaged
           \/ UNCHANGED fileVars
  BY <1>1 DEF WriteBegin, WriteData, BackupBegin, BackupEnd, BackupRefused,
     WriteFails, ReadDamaged, fileVars, disk, writing, reading, Safe!vars
<1>2. CASE Replace
  <2>1. new \in Values /\ file' = new /\ pc' = "sync" /\ answer' = answer
        /\ saved' = saved /\ new' = new /\ pc # "sync" /\ mangled' = mangled
    BY <1>2 DEF Replace, reading
  <2> QED
    BY <2>1 DEF Safe!Next, Safe!Kept, Safe!Write
<1>3. CASE SyncDir \/ SyncDirRefused \/ Kill \/ PowerLoss
  <2>1. Safe!Settle
    BY <1>3 DEF SyncDir, SyncDirRefused, Kill, PowerLoss, Stop, disk, reading, Safe!Settle
  <2>2. UNCHANGED mangled
    BY <1>3 DEF SyncDir, SyncDirRefused, Kill, PowerLoss, Stop, disk
  <2> QED
    BY <2>1, <2>2 DEF Safe!Next, Safe!Kept
<1>4. CASE Read
  BY <1>4 DEF Read, disk, writing, Safe!Next, Safe!Kept, Safe!Read
<1>5. CASE Mangle \/ Quarantine
  \* Only a mangled file is unreadable.
  BY <1>5 DEF Mangle, Quarantine, writing
<1> QED
  BY <1>1, <1>2, <1>3, <1>4, <1>5 DEF FileNext

\* AtomicFile implements SafeFile: a write happens in one step or not at all, no
\* crash takes back what a write that returned has written, and a reader is
\* given the content (write_json_atomic, read_json_resilient).
THEOREM ImplementsSafeFile == FileSpec => IsSafeFile
<1>1. FileInit => Safe!Init
  BY DEF FileInit, Safe!Init
<1>2. IInv /\ [FileNext]_fileVars => IInv'
  BY TypeStep, AccountedStep DEF IInv
<1> QED
  BY InitIInv, <1>1, <1>2, StepIsSafe, PTL DEF FileSpec, IsSafeFile, Safe!Spec
=============================================================================
