------------------------------ MODULE StreamHub ------------------------------
(***************************************************************************)
(* The tick hub of backend/stream/hub.py and the delayed plane of          *)
(* backend/stream/delayed.py, up to what a browser ends up showing.        *)
(*                                                                         *)
(* The hub lives on one event loop and none of its functions awaits, so    *)
(* each is one action.  What interleaves with them are the send loops that *)
(* drain the connections' queues, the sockets that come and go, and a poll *)
(* that took its list of symbols before its worker thread answered.        *)
(*                                                                         *)
(* A tick is a function on the fields it carries: a null field is absent   *)
(* from it, as it is from the dict publish() stores.  A delta may carry    *)
(* Null, the explicit clear.  The currency, source and staleness labels    *)
(* travel with the fields and are left out.                                *)
(***************************************************************************)
EXTENDS Integers, FiniteSets, Sequences

CONSTANTS
    Conns,          \* connections a browser may hold
    Symbols,
    Fields,         \* _FIELDS
    Ticks,          \* what a poll may return: functions from a set of fields
    Null,
    Tier,           \* connection -> "realtime" or "delayed"
    Source,         \* source class of the feed: "public" or "licensed"
    Mirror,         \* Redis: "none", "up" or "flaky"
    QueueMax,       \* _QUEUE_MAX
    MaxSymbols,     \* _MAX_SYMBOLS
    Delay, Margin,  \* DELAY_SECONDS, _MARGIN_SECONDS
    MaxHistory,     \* _MAX_PER_SYMBOL
    Lags            \* how far a tick's timestamp may be behind the clock

ASSUME QueueAssumption == QueueMax \in Nat \ {0} /\ MaxHistory \in Nat \ {0}
ASSUME TierAssumption  == Tier \in [Conns -> {"realtime", "delayed"}]
ASSUME ConnsAssumption == IsFiniteSet(Conns)
ASSUME TicksAssumption ==
    /\ "ts" \notin Fields
    /\ \A tick \in Ticks : DOMAIN tick \subseteq Fields /\ \A f \in DOMAIN tick : tick[f] # Null
ASSUME ClockAssumption == Delay \in Nat /\ Margin \in Nat /\ Lags \subseteq Nat

VARIABLES
    conns,      \* _conns: the registered connections
    symbols,    \* connection -> its symbols
    queue,      \* connection -> the frames its send loop has to send
    refcount,   \* _refcount: symbol -> number of connections
    last,       \* _last: symbol -> the full tick
    mirror,     \* the Redis copy of last
    history,    \* delayed._history: symbol -> stamped ticks
    polling,    \* the symbols the poll in flight asked for
    now,        \* the clock
    view        \* what each browser shows: symbol -> fields

vars == <<conns, symbols, queue, refcount, last, mirror, history, polling, now, view>>

Empty == [x \in {} |-> x]
Put(f, x, v) == [y \in DOMAIN f \cup {x} |-> IF y = x THEN v ELSE f[y]]
Drop(f, X) == [y \in DOMAIN f \ X |-> f[y]]
Over(f, g) == [y \in DOMAIN f \cup DOMAIN g |-> IF y \in DOMAIN g THEN g[y] ELSE f[y]]
At(f, x) == IF x \in DOMAIN f THEN f[x] ELSE Empty
Value(tick, f) == IF f \in DOMAIN tick THEN tick[f] ELSE Null

-----------------------------------------------------------------------------
(* Frames: [t, d] with d a function from symbols to (partial) ticks. *)

Snap(S, ticks) == [t |-> "snap", d |-> [s \in S \cap DOMAIN ticks |-> ticks[s]]]

\* _enqueue: append, or collapse a full backlog into one snapshot of ticks.
EnqueueUnbounded(q, frame, S, ticks) == Append(q, frame)

DropOldest(q, frame, S, ticks) ==
    IF Len(q) < QueueMax THEN Append(q, frame) ELSE Append(Tail(q), frame)

Enqueue(q, frame, S, ticks) ==
    IF Len(q) < QueueMax THEN Append(q, frame) ELSE <<Snap(S, ticks)>>

\* The fields of a tick that differ from the previous one, clears included.
Delta(prev, tick) ==
    [f \in {f \in Fields : Value(tick, f) # Value(prev, f)} |-> Value(tick, f)]

\* quoteStore.ts merges a frame into what it shows, field by field.
Merge(shown, frame) ==
    [s \in DOMAIN shown \cup DOMAIN frame.d |->
        IF s \in DOMAIN frame.d THEN Over(At(shown, s), frame.d[s]) ELSE shown[s]]

-----------------------------------------------------------------------------
(* Reference counts; the last reference takes the symbol's data with it. *)

Incref(S) ==
    refcount' = [s \in DOMAIN refcount \cup S |->
                    IF s \in DOMAIN refcount
                    THEN refcount[s] + (IF s \in S THEN 1 ELSE 0)
                    ELSE 1]

Decref(S) ==
    LET kept == {x \in DOMAIN refcount : x \notin S \/ refcount[x] > 1} IN
    /\ refcount' = [s \in kept |-> IF s \in S THEN refcount[s] - 1 ELSE refcount[s]]
    /\ last' = Drop(last, S \ kept)
    /\ history' = Drop(history, S \ kept)

-----------------------------------------------------------------------------
Init ==
    /\ conns = {}
    /\ symbols = [c \in Conns |-> {}]
    /\ queue = [c \in Conns |-> << >>]
    /\ refcount = Empty
    /\ last = Empty
    /\ mirror = Empty
    /\ history = Empty
    /\ polling = {}
    /\ now = 0
    /\ view = [c \in Conns |-> Empty]

\* register(): a browser opens a socket; it keeps what it was showing.
Register(c) ==
    /\ c \notin conns
    /\ conns' = conns \cup {c}
    /\ UNCHANGED <<symbols, queue, refcount, last, mirror, history, polling, now, view>>

\* unregister(): the socket closed; its queue dies with it.
Unregister(c) ==
    /\ c \in conns
    /\ conns' = conns \ {c}
    /\ Decref(symbols[c])
    /\ symbols' = [symbols EXCEPT ![c] = {}]
    /\ queue' = [queue EXCEPT ![c] = << >>]
    /\ UNCHANGED <<mirror, polling, now, view>>

\* {op: "sub"}: as many of the wanted symbols as there is room for; those not
\* yet subscribed are counted, and what is known of them, in memory or in the
\* mirror, goes out as one snapshot.
Wanted(c, S) ==
    {T \in SUBSET S :
        \/ T = S /\ Cardinality(S) <= MaxSymbols - Cardinality(symbols[c])
        \/ Cardinality(T) = MaxSymbols - Cardinality(symbols[c])}

Loadable(S) ==
    LET found == (S \ DOMAIN last) \cap DOMAIN mirror
    IN  IF Mirror = "flaky" THEN SUBSET found ELSE {found}

Subscribe(c, S) ==
    /\ c \in conns
    /\ \E T \in Wanted(c, S) :
       LET fresh == T \ symbols[c] IN
       /\ symbols' = [symbols EXCEPT ![c] = @ \cup fresh]
       /\ Incref(fresh)
       /\ \E L \in Loadable(fresh) :
             last' = Over(last, [s \in L |-> mirror[s]])
       /\ queue' = IF fresh \cap DOMAIN last' = {} THEN queue
                   ELSE [queue EXCEPT ![c] =
                            Enqueue(@, Snap(fresh, last'), symbols'[c], last')]
    /\ UNCHANGED <<conns, mirror, history, polling, now, view>>

\* {op: "unsub"}: the browser has already dropped what it was showing.
UnsubscribeTwice(c, S) ==
    /\ c \in conns
    /\ symbols' = [symbols EXCEPT ![c] = @ \ S]
    /\ Decref(S)
    /\ view' = [view EXCEPT ![c] = Drop(@, S)]
    /\ UNCHANGED <<conns, queue, mirror, polling, now>>

Unsubscribe(c, S) ==
    /\ c \in conns
    /\ symbols' = [symbols EXCEPT ![c] = @ \ S]
    /\ Decref(S \cap symbols[c])
    /\ view' = [view EXCEPT ![c] = Drop(@, S)]
    /\ UNCHANGED <<conns, queue, mirror, polling, now>>

\* {op: "ping"}: a heartbeat carries nothing; it matters when it finds the queue
\* full, which it collapses like any frame.
Ping(c) ==
    /\ c \in conns
    /\ Len(queue[c]) = QueueMax
    /\ queue' = [queue EXCEPT ![c] = <<Snap(symbols[c], last)>>]
    /\ UNCHANGED <<conns, symbols, refcount, last, mirror, history, polling, now, view>>

-----------------------------------------------------------------------------
\* The poller takes the union of the subscriptions and goes to its thread.
PollStart ==
    /\ polling = {}
    /\ polling' = DOMAIN refcount
    /\ UNCHANGED <<conns, symbols, queue, refcount, last, mirror, history, now, view>>

Held(s) == IF s \in DOMAIN history THEN history[s] ELSE << >>

\* The delayed history: append, prune by the tick's own stamp, cap.
Recorded(hist, tick) ==
    LET all   == Append(hist, tick)
        keep  == {i \in 1..Len(all) : \E j \in 1..i : all[j].ts >= tick.ts - (Delay + Margin)}
        fresh == Len(all) - Cardinality(keep)
        first == IF Len(all) - fresh > MaxHistory THEN Len(all) - MaxHistory ELSE fresh
    IN  SubSeq(all, first + 1, Len(all))

\* released(): the first of the newest ticks at least Delay old, or Empty.
ReleasedTail(s, t) ==
    LET hist == Held(s)
        old  == {i \in 1..Len(hist) : hist[i].ts + Delay <= t}
    IN  IF old = {} THEN Empty ELSE hist[CHOOSE i \in old : \A j \in old : j <= i]

Released(s, t) ==
    LET hist == Held(s)
        old  == {i \in 1..Len(hist) : hist[i].ts + Delay <= t}
        best == {i \in old : \A j \in old : hist[j].ts <= hist[i].ts}
    IN  IF old = {} THEN Empty ELSE hist[CHOOSE i \in best : \A j \in best : i <= j]

RequiresDelay(c) == Source = "licensed" /\ Tier[c] # "realtime"

Subscribers(s) == {c \in conns : s \in symbols[c]}

\* publish(): store the full tick, mirror it, and send what changed to the
\* subscribers entitled to it now; a licensed change is also recorded for the
\* others.  A tick that changes nothing is stored and goes no further.
Publish(s, tick, ts) ==
    LET full  == Put(tick, "ts", ts)
        delta == Delta(At(last, s), tick)
        frame == [t |-> "px", d |-> Put(Empty, s, Put(delta, "ts", ts))]
    IN
    /\ s \in polling
    /\ polling' = polling \ {s}
    /\ last' = Put(last, s, full)
    /\ \/ Mirror # "none" /\ mirror' = Put(mirror, s, full)
       \/ Mirror # "up" /\ UNCHANGED mirror
    /\ IF delta = Empty
       THEN UNCHANGED <<history, queue>>
       ELSE /\ history' = IF Source = "licensed"
                          THEN Put(history, s, Recorded(Held(s), full))
                          ELSE history
            /\ queue' = [c \in Conns |->
                  IF c \in Subscribers(s) /\ ~RequiresDelay(c)
                  THEN Enqueue(queue[c], frame, symbols[c], last')
                  ELSE queue[c]]
    /\ UNCHANGED <<conns, symbols, refcount, now, view>>

\* publish_delayed(): what may be released of s goes to the delayed plane.
PublishDelayed(s) ==
    LET tick == Released(s, now) IN
    /\ Source = "licensed"
    /\ tick # Empty
    /\ queue' = [c \in Conns |->
          IF c \in Subscribers(s) /\ Tier[c] # "realtime"
          THEN Enqueue(queue[c], [t |-> "px", d |-> Put(Empty, s, tick)], symbols[c], last)
          ELSE queue[c]]
    /\ UNCHANGED <<conns, symbols, refcount, last, mirror, history, polling, now, view>>

\* A symbol the poll found no price for.
Miss(s) ==
    /\ s \in polling
    /\ polling' = polling \ {s}
    /\ UNCHANGED <<conns, symbols, queue, refcount, last, mirror, history, now, view>>

\* The send loop takes the next frame and the browser merges it.
Send(c) ==
    /\ queue[c] # << >>
    /\ view' = [view EXCEPT ![c] = Merge(@, Head(queue[c]))]
    /\ queue' = [queue EXCEPT ![c] = Tail(@)]
    /\ UNCHANGED <<conns, symbols, refcount, last, mirror, history, polling, now>>

\* The backend restarts: only the mirror and the browsers remember.
Restart ==
    /\ conns' = {}
    /\ symbols' = [c \in Conns |-> {}]
    /\ queue' = [c \in Conns |-> << >>]
    /\ refcount' = Empty
    /\ last' = Empty
    /\ history' = Empty
    /\ polling' = {}
    /\ UNCHANGED <<mirror, now, view>>

Tick ==
    /\ now' = now + 1
    /\ UNCHANGED <<conns, symbols, queue, refcount, last, mirror, history, polling, view>>

Next ==
    \/ \E c \in Conns : Register(c) \/ Unregister(c) \/ Ping(c) \/ Send(c)
    \/ \E c \in Conns, S \in (SUBSET Symbols) \ {{}} : Subscribe(c, S) \/ Unsubscribe(c, S)
    \/ PollStart
    \/ \E s \in Symbols, tick \in Ticks, lag \in Lags : lag <= now /\ Publish(s, tick, now - lag)
    \/ \E s \in Symbols : Miss(s) \/ PublishDelayed(s)
    \/ Restart
    \/ Tick

Spec == Init /\ [][Next]_vars

-----------------------------------------------------------------------------
TypeOK ==
    /\ conns \subseteq Conns
    /\ symbols \in [Conns -> SUBSET Symbols]
    /\ DOMAIN queue = Conns /\ \A c \in Conns : Len(queue[c]) <= QueueMax
    /\ DOMAIN refcount \subseteq Symbols
    /\ \A s \in DOMAIN refcount : refcount[s] \in Nat \ {0}
    /\ polling \subseteq Symbols
    /\ now \in Nat

\* The poller's working set is exactly what is subscribed: a symbol is counted
\* once per connection that holds it, whatever the order of repeated sub and
\* unsub messages, disconnections and restarts, so no symbol is polled for
\* nobody and none that somebody watches is dropped.
RefcountExact ==
    /\ \A s \in Symbols :
          IF Subscribers(s) = {} THEN s \notin DOMAIN refcount
          ELSE s \in DOMAIN refcount /\ refcount[s] = Cardinality(Subscribers(s))
    /\ \A c \in Conns \ conns : symbols[c] = {}

\* Once it has received every frame of q, a browser that shows shown now will show
\* value for field f of s: the last frame to mention it says so, or none does.
WillShow(q, shown, s, f, value) ==
    LET mentions(i) == s \in DOMAIN q[i].d /\ f \in DOMAIN q[i].d[s]
    IN  \/ \E i \in 1..Len(q) :
              /\ mentions(i) /\ q[i].d[s][f] = value
              /\ \A j \in (i + 1)..Len(q) : ~mentions(j)
        \/ (\A i \in 1..Len(q) : ~mentions(i)) /\ Value(At(shown, s), f) = value

\* Sending only what changed loses nothing: a subscriber that is sent ticks as
\* they come ends up with every field of the last one, through slow sockets
\* whose backlog was collapsed, reconnections and restarts.
NothingMissed ==
    \A c \in conns : ~RequiresDelay(c) =>
        \A s \in symbols[c] \cap DOMAIN last : \A f \in DOMAIN last[s] \ {"ts"} :
            WillShow(queue[c], view[c], s, f, last[s][f])

FramesTo(c) == {queue[c][i] : i \in 1..Len(queue[c])}
HeldBack(frame) == \A s \in DOMAIN frame.d : frame.d[s]["ts"] + Delay <= now

\* A tick frame queued for a connection on the delayed plane is at least Delay
\* old by the feed's clock, however late or out of order it was recorded.  Of
\* the snapshots, which a subscription and a full queue put there too, this
\* says nothing: see NeverEarly.
PxHeldBack ==
    Source = "licensed" =>
        \A c \in Conns : Tier[c] = "delayed" =>
            \A frame \in FramesTo(c) : frame.t = "px" => HeldBack(frame)

\* Nothing of a licensed feed that is on its way to a connection without
\* entitlement is younger than the delay (hub.py:183 "A licensed tick must never
\* reach a subscriber who is not entitled to it", 187-190 "at the single point
\* every tick passes through").
NeverEarly ==
    Source = "licensed" =>
        \A c \in Conns : Tier[c] = "delayed" => \A frame \in FramesTo(c) : HeldBack(frame)

\* No tick in the history of s is later than the margin: recorded after one that
\* is newer than it by more.
InMargin(s) ==
    \A i, j \in 1..Len(Held(s)) : i < j => Held(s)[j].ts >= Held(s)[i].ts - Margin

\* What the delayed plane releases of a symbol never goes back to an older
\* tick while the history is below its cap and no tick left in it is later than
\* the margin, though ticks are recorded out of order and pruned.
ReleasedForward ==
    [][\A s \in Symbols :
          LET before == Released(s, now)
              after  == Released(s, now)'
          IN  /\ Len(Held(s)) < MaxHistory /\ InMargin(s)'
              /\ before # Empty /\ after # Empty
              => before["ts"] <= after["ts"]]_vars
=============================================================================
