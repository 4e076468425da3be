------------------------------ MODULE RateLimit -------------------------------
(***************************************************************************)
(* The sliding windows of backend/ratelimit.py.  A bucket (an address with *)
(* the rule that matched, or the handshakes of an address) holds the hits  *)
(* it accepted, each the time it came, and its number among those of that  *)
(* time; a refused hit is not recorded.  When there are too many buckets   *)
(* the dead ones are dropped, and of the live ones the oldest.  All        *)
(* windows have the same length, as they have in the code.                 *)
(***************************************************************************)
EXTENDS Naturals, FiniteSets

CONSTANTS
    Buckets,
    MaxHits,        \* the limit of the rule
    Window,
    MaxKeys,        \* _MAX_KEYS
    LastTime        \* bound

ASSUME RatesAssumption == MaxHits \in Nat /\ Window \in Nat /\ MaxKeys \in Nat /\ LastTime \in Nat

VARIABLES
    time,
    hits,       \* _hits
    granted,    \* history: what a bucket accepted in the last window, since it was last shed
    refused     \* history: the bucket that was just refused, if any

limitVars == <<time, hits, granted, refused>>

LimitInit ==
    /\ time = 0 /\ hits = [k \in {} |-> {}]
    /\ granted = [k \in Buckets |-> {}] /\ refused = {}

\* The hits that have not aged out; one more, now.
Fresh(stamps) == {h \in stamps : time < h.at + Window}
OneMoreHit(stamps) ==
    stamps \cup {[at |-> time, n |-> Cardinality({h \in stamps : h.at = time}) + 1]}

\* _evict_locked: the buckets of which every hit has aged out; if there are still too
\* many, the ones hit longest ago, in either order those hit last at the same time.
DeadByOldest == {k \in DOMAIN hits : Fresh(hits[k]) # hits[k]}
Dead == {k \in DOMAIN hits : Fresh(hits[k]) = {}}
Alive == DOMAIN hits \ Dead
HitNoLater(k, l) == \A h \in hits[k] : \E g \in hits[l] : h.at <= g.at
Shed ==
    IF Cardinality(Alive) <= MaxKeys THEN {{}}
    ELSE {s \in SUBSET Alive :
            /\ Cardinality(s) = Cardinality(Alive) - MaxKeys
            /\ \A k \in s, l \in Alive \ s : HitNoLater(k, l)}

\* _consume: the limit is compared with what is fresh.
Charge(k, kept, before) ==
    LET stamps == IF k \in DOMAIN kept THEN Fresh(kept[k]) ELSE {}
        Holding(s) == [l \in DOMAIN kept \cup {k} |-> IF l = k THEN s ELSE kept[l]]
    IN  IF Cardinality(stamps) >= MaxHits
        THEN hits' = Holding(stamps) /\ granted' = before /\ refused' = {k}
        ELSE /\ hits' = Holding(OneMoreHit(stamps)) /\ refused' = {}
             /\ granted' = [before EXCEPT ![k] = OneMoreHit(@)]

Consume(k) ==
    /\ \E shed \in IF Cardinality(DOMAIN hits) > MaxKeys THEN Shed ELSE {{}} :
          Charge(k,
                 IF Cardinality(DOMAIN hits) > MaxKeys THEN [l \in Alive \ shed |-> hits[l]] ELSE hits,
                 [l \in Buckets |-> IF l \in shed THEN {} ELSE Fresh(granted[l])])
    /\ UNCHANGED time

Passes ==
    /\ time < LastTime
    /\ time' = time + 1 /\ refused' = {}
    /\ UNCHANGED <<hits, granted>>

LimitNext == Passes \/ \E k \in Buckets : Consume(k)
LimitSpec == LimitInit /\ [][LimitNext]_limitVars

-----------------------------------------------------------------------------
\* No window sees more than the limit, nobody is refused below it, and a bucket
\* forgets nothing of its window unless it was shed, whatever is dropped around it
\* and however many hits were refused (ratelimit.py:245-252); and the table stays
\* bounded.
LimitHolds ==
    /\ \A k \in Buckets :
          /\ Cardinality(Fresh(granted[k])) <= MaxHits
          /\ Fresh(granted[k]) = IF k \in DOMAIN hits THEN Fresh(hits[k]) ELSE {}
          /\ k \in refused => Cardinality(Fresh(granted[k])) = MaxHits
    /\ Cardinality(DOMAIN hits) <= MaxKeys + 1
=============================================================================
