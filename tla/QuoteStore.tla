------------------------------ MODULE QuoteStore ------------------------------
(***************************************************************************)
(* The browser's one connection for live prices:                           *)
(* frontend/src/lib/quoteStore.ts.  Components mount and unmount, each     *)
(* asking for a set of symbols; the store counts them, keeps a WebSocket   *)
(* (or, after three failures, an event stream) open, tells the server what *)
(* is wanted and fills the cells from seeds and ticks.                     *)
(*                                                                         *)
(* JavaScript runs one callback at a time: an action is one callback.      *)
(* Prices do not matter here, only whether a symbol has a tick.  The three *)
(* answers of evalStatus that depend on the clock and the market hours     *)
(* (live, stale, closed) are one, "on".                                    *)
(***************************************************************************)
EXTENDS Integers, FiniteSets, SequencesExt

CONSTANTS
    Cells,      \* mounted components
    Symbols,
    Asks,       \* the symbols a component may ask for
    GiveUp,     \* WebSocket failures before the fallback
    MaxFetch    \* bound on the seed requests in flight

ASSUME StoreAssumption ==
    /\ IsFiniteSet(Cells)   \* a page mounts finitely many components
    /\ Asks \in [Cells -> SUBSET SUBSET Symbols]
    /\ GiveUp \in Nat \ {0} /\ MaxFetch \in Nat \ {0}

VARIABLES
    cells,      \* what each component asked for; {} = not mounted
    refs,       \* refcount
    dialing,    \* connecting: ensureToken is awaited
    ws,         \* the WebSocket's readyState, or "none"
    es,         \* the EventSource's, or "none"
    asked,      \* what the server was told on this connection
    wire,       \* symbols with a tick under way to the browser
    useSse,
    failures,   \* wsFailures, up to GiveUp: beyond it they are alike
    timer,      \* reconnectTimer is set
    evaluator,  \* evalTimer is set
    status,
    ticks,      \* symbols with an entry
    pending,    \* symbols waiting for the next flush
    queue,      \* seedQueue; seedTimer is set when it is not empty
    fetches     \* the seed requests in flight

demand == <<cells, refs>>
link == <<dialing, ws, es, asked, wire, useSse, failures, timer>>
badge == <<evaluator, status>>
prices == <<ticks, pending, queue, fetches>>
vars == <<demand, link, badge, prices>>

Wanted == {s \in Symbols : refs[s] > 0}
Connected == ws # "none" \/ es # "none"

-----------------------------------------------------------------------------
Init ==
    /\ cells = [c \in Cells |-> {}]
    /\ refs = [s \in Symbols |-> 0]
    /\ dialing = FALSE /\ ws = "none" /\ es = "none"
    /\ asked = {} /\ wire = {}
    /\ useSse = FALSE /\ failures = 0 /\ timer = FALSE
    /\ evaluator = FALSE /\ status = "idle"
    /\ ticks = {} /\ pending = {} /\ queue = {} /\ fetches = << >>

\* evalStatus, read after the variables of the connection have changed.
Status ==
    IF Wanted' = {} THEN "idle"
    ELSE IF ws' = "open" \/ es' # "none" THEN "on"
    ELSE IF timer' THEN "reconnecting" ELSE "connecting"

\* ensureConnected: dial unless there is a connection or a dial under way.
EnsureConnected ==
    IF Connected \/ dialing
    THEN UNCHANGED <<dialing, evaluator>>
    ELSE dialing' = TRUE /\ evaluator' = TRUE

ScheduleReconnectWs == timer' = TRUE /\ UNCHANGED useSse

\* scheduleReconnect, after failures' failures.  A timer already set is kept,
\* and with it the status.
ScheduleReconnect ==
    /\ timer' = TRUE
    /\ useSse' = IF timer THEN useSse ELSE useSse \/ failures' >= GiveUp

Reconnecting == status' = IF timer THEN status ELSE "reconnecting"

SendWsOnly(told) ==
    /\ IF ws = "open" THEN asked' = told ELSE UNCHANGED asked
    /\ UNCHANGED <<es, wire, timer, useSse>>

\* send: over an open socket the server learns of the change; an event stream
\* is closed, to be opened again with the new set; otherwise nothing is sent
\* and the connection under way will carry the whole set.
Send(told) ==
    CASE ws = "open" ->
           asked' = told /\ UNCHANGED <<es, wire, timer, useSse>>
      [] es # "none" ->
           es' = "none" /\ asked' = {} /\ wire' = {} /\ ScheduleReconnect
      [] OTHER ->
           UNCHANGED <<es, asked, wire, timer, useSse>>

-----------------------------------------------------------------------------
SubscribeFresh(c, S) ==
    LET fresh == {s \in S : refs[s] = 0} IN
    /\ cells[c] = {} /\ fresh # {}
    /\ cells' = [cells EXCEPT ![c] = S]
    /\ refs' = [s \in Symbols |-> IF s \in fresh THEN 1 ELSE refs[s]]
    /\ EnsureConnected
    /\ Send(asked \cup fresh)
    /\ IF es # "none" THEN Reconnecting ELSE UNCHANGED status
    /\ queue' = queue \cup (fresh \ ticks)
    /\ UNCHANGED <<ws, failures, ticks, pending, fetches>>

\* subscribe(symbols), by a component that mounts.
Subscribe(c, S) ==
    LET fresh == {s \in S : refs[s] = 0} IN
    /\ cells[c] = {} /\ S # {}
    /\ cells' = [cells EXCEPT ![c] = S]
    /\ refs' = [s \in Symbols |-> IF s \in S THEN refs[s] + 1 ELSE refs[s]]
    /\ IF fresh = {}
       THEN UNCHANGED <<link, badge, queue>>
       ELSE /\ EnsureConnected
            /\ Send(asked \cup fresh)
            /\ IF es # "none" THEN Reconnecting ELSE UNCHANGED status
            /\ queue' = queue \cup (fresh \ ticks)
            /\ UNCHANGED <<ws, failures>>
    /\ UNCHANGED <<ticks, pending, fetches>>

\* What subscribe returned, called when the component unmounts.
Unsubscribe(c) ==
    LET gone == {s \in cells[c] : refs[s] = 1} IN
    /\ cells[c] # {}
    /\ cells' = [cells EXCEPT ![c] = {}]
    /\ refs' = [s \in Symbols |-> IF s \in cells[c] THEN refs[s] - 1 ELSE refs[s]]
    /\ ticks' = ticks \ gone
    /\ UNCHANGED <<dialing, ws, failures>>
    /\ IF gone = {} THEN UNCHANGED <<es, asked, wire, timer, useSse>>
                    ELSE Send(asked \ gone)
    /\ evaluator' = (evaluator /\ Wanted' # {})
    /\ status' = Status
    /\ UNCHANGED <<pending, queue, fetches>>

\* ensureToken answers (it never rejects): open a WebSocket or, once given up,
\* an event stream whose address names the symbols wanted now.
TokenArrives ==
    /\ dialing
    /\ dialing' = FALSE
    /\ IF Connected THEN UNCHANGED <<ws, es, asked, status>>
       ELSE /\ status' = "connecting"
            /\ IF useSse THEN es' = "connecting" /\ asked' = Wanted /\ UNCHANGED ws
                         ELSE ws' = "connecting" /\ UNCHANGED <<es, asked>>
    /\ UNCHANGED <<demand, wire, useSse, failures, timer, evaluator, prices>>

Failed == IF failures < GiveUp THEN failures + 1 ELSE failures

WsThrowsQuietly ==
    /\ dialing /\ ~Connected /\ ~useSse
    /\ dialing' = FALSE
    /\ failures' = Failed
    /\ UNCHANGED <<demand, ws, es, asked, wire, useSse, timer, badge, prices>>

\* The WebSocket constructor throws.
WsThrows ==
    /\ dialing /\ ~Connected /\ ~useSse
    /\ dialing' = FALSE
    /\ failures' = Failed
    /\ ScheduleReconnect
    /\ Reconnecting
    /\ UNCHANGED <<demand, ws, es, asked, wire, evaluator, prices>>

\* onopen: resubscribeAll.
WsOpen ==
    /\ ws = "connecting"
    /\ ws' = "open"
    /\ failures' = 0
    /\ asked' = Wanted
    /\ UNCHANGED <<demand, dialing, es, wire, useSse, timer, evaluator, prices>>
    /\ status' = Status

\* onerror, which closes the socket; onclose comes later.
WsError ==
    /\ ws \in {"connecting", "open"}
    /\ ws' = "closing"
    /\ failures' = Failed
    /\ UNCHANGED <<demand, dialing, es, asked, wire, useSse, timer, badge, prices>>

WsClose ==
    /\ ws \in {"open", "closing"}
    /\ ws' = "none" /\ asked' = {} /\ wire' = {}
    /\ UNCHANGED failures
    /\ ScheduleReconnect
    /\ Reconnecting
    /\ UNCHANGED <<demand, dialing, es, evaluator, prices>>

SseOpen ==
    /\ es = "connecting"
    /\ es' = "open"
    /\ UNCHANGED <<demand, dialing, ws, asked, wire, useSse, failures, timer, evaluator, prices>>
    /\ status' = Status

SseError ==
    /\ es # "none"
    /\ es' = "none" /\ asked' = {} /\ wire' = {}
    /\ UNCHANGED failures
    /\ ScheduleReconnect
    /\ Reconnecting
    /\ UNCHANGED <<demand, dialing, ws, evaluator, prices>>

TimerFires ==
    /\ timer
    /\ timer' = FALSE
    /\ IF Wanted # {} THEN EnsureConnected /\ UNCHANGED status
                      ELSE status' = "closed" /\ UNCHANGED <<dialing, evaluator>>
    /\ UNCHANGED <<demand, ws, es, asked, wire, useSse, failures, prices>>

\* The evaluator's second, and the frames after which the store re-evaluates.
Evaluate ==
    /\ evaluator \/ ws = "open" \/ es = "open"
    /\ UNCHANGED <<demand, link, evaluator, prices>>
    /\ status' = Status

-----------------------------------------------------------------------------
\* The server sends a tick of a symbol it was asked for.
ServerTick(s) ==
    /\ s \in asked /\ (ws = "open" \/ es = "open")
    /\ wire' = wire \cup {s}
    /\ UNCHANGED <<demand, dialing, ws, es, asked, useSse, failures, timer, badge, prices>>

\* onFrame: into the buffer the next flush empties.
OnFrame(s) ==
    /\ s \in wire
    /\ wire' = wire \ {s}
    /\ pending' = pending \cup {s}
    /\ UNCHANGED <<demand, dialing, ws, es, asked, useSse, failures, timer, badge>>
    /\ UNCHANGED <<ticks, queue, fetches>>

Flush ==
    /\ pending # {}
    /\ ticks' = ticks \cup pending
    /\ pending' = {}
    /\ UNCHANGED <<demand, link, badge, queue, fetches>>

\* The seed window ends: one request for what still has no tick.
SeedTimer ==
    LET need == queue \ ticks IN
    /\ queue # {} /\ Len(fetches) < MaxFetch
    /\ queue' = {}
    /\ fetches' = IF need = {} THEN fetches ELSE Append(fetches, need)
    /\ UNCHANGED <<demand, link, badge, ticks, pending>>

\* A seed request is answered, in any order, with some of the quotes or none.
SeedAnswer(i, quotes) ==
    /\ quotes \subseteq fetches[i]
    /\ ticks' = ticks \cup quotes
    /\ fetches' = RemoveAt(fetches, i)
    /\ UNCHANGED <<demand, link, badge, pending, queue>>

Next ==
    \/ \E c \in Cells : Unsubscribe(c) \/ \E S \in Asks[c] : Subscribe(c, S)
    \/ TokenArrives \/ WsThrows \/ WsOpen \/ WsError \/ WsClose
    \/ SseOpen \/ SseError \/ TimerFires \/ Evaluate
    \/ \E s \in Symbols : ServerTick(s) \/ OnFrame(s)
    \/ Flush \/ SeedTimer
    \/ \E i \in 1..Len(fetches) : \E quotes \in SUBSET fetches[i] : SeedAnswer(i, quotes)

Spec == Init /\ [][Next]_vars

\* Callbacks and timers run; a socket being opened settles one way or the
\* other and a closing one closes.  Of the transports only the event stream is
\* assumed to work now and then; seeds may fail for ever.
Fairness ==
    /\ WF_vars(TokenArrives \/ WsThrows)
    /\ WF_vars(WsOpen \/ WsError) /\ WF_vars(ws = "closing" /\ WsClose)
    /\ WF_vars(TimerFires)
    /\ SF_vars(SseOpen)
    /\ \A s \in Symbols : SF_vars(ServerTick(s)) /\ SF_vars(OnFrame(s))
    /\ WF_vars(Flush)

FairSpec == Spec /\ Fairness

-----------------------------------------------------------------------------
TypeOK ==
    /\ \A c \in Cells : cells[c] \subseteq Symbols
    /\ \A s \in Symbols : refs[s] = Cardinality({c \in Cells : s \in cells[c]})
    /\ ws \in {"none", "connecting", "open", "closing"}
    /\ es \in {"none", "connecting", "open"}
    /\ ws = "none" \/ es = "none"
    /\ status \in {"idle", "connecting", "reconnecting", "closed", "on"}
    /\ wire \subseteq Symbols /\ asked \subseteq Symbols /\ ticks \cup pending \cup queue \subseteq Symbols
    /\ failures \in 0..GiveUp

\* The server is asked for exactly the symbols on the page, whichever way they
\* were told: one by one over the open socket, all at once when it opens, or
\* in the address of the event stream (quoteStore.ts:222-236).
AsksForThePage ==
    ws = "open" \/ es # "none" => asked = Wanted

\* While anything is on the page there is a connection, a dial under way or a
\* timer that will start one.
NeverStranded == Wanted # {} => Connected \/ dialing \/ timer

\* Every mounted cell gets a price in the end, even if no WebSocket ever opens
\* and every seed fails, as long as the event stream and the feed work now and
\* then.
EveryCellFills ==
    \A s \in Symbols : s \in Wanted ~> s \in ticks \/ s \notin Wanted
=============================================================================
