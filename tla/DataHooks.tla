----------------------------- MODULE DataHooks ------------------------------
(***************************************************************************)
(* How every panel of the browser gets its data: useAsync (once, with a    *)
(* deadline), useLive (polling, while the tab is visible), the bare        *)
(* "alive" effects of components/workspace/PaneBody.tsx, and the badge     *)
(* that smooths the state of the socket (lib/streamBadge.ts).              *)
(*                                                                         *)
(* One hook is mounted at a time.  `page.key' is what its dependencies     *)
(* now are (a ticker, a market), and an answer is the key it was asked for.*)
(***************************************************************************)
EXTENDS Integers, FiniteSets

CONSTANTS
    Keys,
    MaxAsked,       \* bound: requests under way at once
    Statuses,       \* of the socket
    ShowDelay,      \* [Statuses -> time]
    MinDwell,
    MaxNow,         \* bound: time
    None

VARIABLES page, srv

vars == <<page, srv>>

Open(name) == page.name = name
To(p) == page' = p /\ UNCHANGED srv
Room == Cardinality(page.asked) < MaxAsked

-----------------------------------------------------------------------------
(* useAsync.  A request is the latest until another starts or its deadline *)
(* passes; only the latest is heard.  A hook that is not enabled starts    *)
(* nothing, and what it had started goes on without a deadline.            *)

Load(p) ==
    IF ~p.enabled THEN p ELSE
    [p EXCEPT !.busy = TRUE, !.error = FALSE, !.data = None,
              !.asked = {[q EXCEPT !.latest = FALSE] : q \in @} \cup {[key |-> p.key, latest |-> TRUE]}]
PanelPage(k, on) ==
    Load([name |-> "panel", key |-> k, enabled |-> on, data |-> None, busy |-> on, error |-> FALSE, asked |-> {}])

PanelKey == Open("panel") /\ Room /\ \E k \in Keys \ {page.key} : To(Load([page EXCEPT !.key = k]))
PanelToggle == Open("panel") /\ Room /\ To(Load([page EXCEPT !.enabled = ~@]))
PanelRetry == Open("panel") /\ Room /\ page.error /\ To(Load(page))

PanelAnswers(q, ok) ==
    LET p == [page EXCEPT !.asked = @ \ {q}] IN
    To(IF ~q.latest THEN p
       ELSE IF ok THEN [p EXCEPT !.data = q.key, !.busy = FALSE]
       ELSE [p EXCEPT !.error = TRUE, !.busy = FALSE])
\* The deadline is an error, and turns the latest request into one that is
\* not heard.  The request itself may never end.
GiveUp(q) ==
    /\ q.latest /\ page.enabled
    /\ To([page EXCEPT !.error = TRUE, !.busy = FALSE, !.asked = (@ \ {q}) \cup {[q EXCEPT !.latest = FALSE]}])

PanelHears == Open("panel") /\ \E q \in page.asked, ok \in BOOLEAN : PanelAnswers(q, ok)
PanelDeadline == Open("panel") /\ \E q \in page.asked : GiveUp(q)

-----------------------------------------------------------------------------
(* useSnapshot, ChartPane, PlanCard: the effect that is torn down sets     *)
(* `alive' to false for its own request.                                   *)

SnapshotPage(k) ==
    [name |-> "snapshot", key |-> k, data |-> None, error |-> FALSE,
     asked |-> {[key |-> k, alive |-> TRUE]}]
Fetch(p) ==
    [p EXCEPT !.data = None, !.error = FALSE,
              !.asked = {[q EXCEPT !.alive = FALSE] : q \in @} \cup {[key |-> p.key, alive |-> TRUE]}]
SnapshotKey == Open("snapshot") /\ Room /\ \E k \in Keys \ {page.key} : To(Fetch([page EXCEPT !.key = k]))
SnapshotRetry == Open("snapshot") /\ Room /\ page.error /\ To(Fetch(page))
SnapshotAnswers(q, ok) ==
    LET p == [page EXCEPT !.asked = @ \ {q}] IN
    To(IF ~q.alive THEN p ELSE IF ok THEN [p EXCEPT !.data = q.key] ELSE [p EXCEPT !.error = TRUE])
SnapshotHears == Open("snapshot") /\ \E q \in page.asked, ok \in BOOLEAN : SnapshotAnswers(q, ok)

\* What the panes and the plan card show of it: one of the three.
SnapshotShows(p) == IF p.error THEN "error" ELSE IF p.data = None THEN "loading" ELSE "data"

-----------------------------------------------------------------------------
(* useLive.  `run' is skipped while a request is under way, the one for    *)
(* the keys before included.                                               *)

\* `due': an interval has passed since the last run.
Run(p) ==
    IF p.inFlight # None THEN p ELSE [p EXCEPT !.inFlight = p.key, !.due = FALSE]
Mounted(p) == Run([p EXCEPT !.data = None, !.timer = p.visible])
PollPage(k, visible) ==
    Mounted([name |-> "poll", key |-> k, data |-> None, error |-> FALSE, inFlight |-> None,
             visible |-> visible, timer |-> FALSE, due |-> TRUE])

PollKey == Open("poll") /\ \E k \in Keys \ {page.key} : To(Mounted([page EXCEPT !.key = k]))
Refresh == Open("poll") /\ To(Run(page))
Elapse == Open("poll") /\ ~page.due /\ To([page EXCEPT !.due = TRUE])
Poll == Open("poll") /\ page.timer /\ page.due /\ page.inFlight = None /\ To(Run(page))
Hide == Open("poll") /\ page.visible /\ To([page EXCEPT !.visible = FALSE, !.timer = FALSE])
Show ==
    /\ Open("poll") /\ ~page.visible
    /\ LET p == [page EXCEPT !.visible = TRUE] IN
       To([IF p.due THEN Run(p) ELSE p EXCEPT !.timer = TRUE])

PollAnswers ==
    /\ Open("poll") /\ page.inFlight # None
    /\ To([page EXCEPT !.data = page.inFlight, !.error = FALSE, !.inFlight = None])
\* A failure or the deadline: the data there is stays.
PollFails ==
    /\ Open("poll") /\ page.inFlight # None
    /\ To([page EXCEPT !.error = TRUE, !.inFlight = None])

-----------------------------------------------------------------------------
(* The badge.  Its timer is set for the moment the state could change on   *)
(* its own, and set again whenever the state changes.                      *)

BadgePage(s) ==
    [name |-> "badge", raw |-> s, now |-> 0, timer |-> None,
     state |-> [shown |-> s, shownSince |-> 0, candidate |-> s, candidateSince |-> 0]]

StepBadge(prev, incoming, now) ==
    LET since == IF incoming # prev.candidate THEN now ELSE prev.candidateSince
        next == [prev EXCEPT !.candidate = incoming, !.candidateSince = since]
    IN  IF /\ incoming # prev.shown
           /\ now - since >= ShowDelay[incoming] /\ now - prev.shownSince >= MinDwell
        THEN [next EXCEPT !.shown = incoming, !.shownSince = now] ELSE next

MsUntilChange(s, now) ==
    LET hold == ShowDelay[s.candidate] - (now - s.candidateSince)
        dwell == MinDwell - (now - s.shownSince)
        most == IF hold > dwell THEN hold ELSE dwell
    IN  IF s.candidate = s.shown THEN None ELSE IF most > 0 THEN most ELSE 0

\* The effect on [state].
Timed(p, s) ==
    [p EXCEPT !.state = s, !.timer = IF MsUntilChange(s, p.now) = None THEN None ELSE p.now + MsUntilChange(s, p.now)]

SocketChanges ==
    /\ Open("badge")
    /\ \E s \in Statuses \ {page.raw} : To(Timed([page EXCEPT !.raw = s], StepBadge(page.state, s, page.now)))
Tick ==
    /\ Open("badge") /\ page.now < MaxNow
    /\ page.timer # None => page.now < page.timer
    /\ To([page EXCEPT !.now = @ + 1])
BadgeTimer ==
    /\ Open("badge") /\ page.timer # None /\ page.timer <= page.now
    /\ To(Timed(page, StepBadge(page.state, page.state.candidate, page.now)))

-----------------------------------------------------------------------------
(* A table that is drawn again once per frame however many ticks came       *)
(* (useLiveTicks).  Ticks are counted modulo four.                          *)

TicksPage == [name |-> "ticks", latest |-> 0, drawn |-> 0, scheduled |-> FALSE]
TickComes == Open("ticks") /\ To([page EXCEPT !.latest = (@ + 1) % 4, !.scheduled = TRUE])
FrameRuns == Open("ticks") /\ page.scheduled /\ To([page EXCEPT !.drawn = page.latest, !.scheduled = FALSE])

-----------------------------------------------------------------------------
Init ==
    /\ srv = None
    /\ \/ \E k \in Keys : page \in {PanelPage(k, TRUE), PanelPage(k, FALSE), SnapshotPage(k), PollPage(k, TRUE), PollPage(k, FALSE)}
       \/ \E s \in Statuses : page = BadgePage(s)
       \/ page = TicksPage

Next ==
    \/ PanelKey \/ PanelToggle \/ PanelRetry \/ PanelHears \/ PanelDeadline
    \/ SnapshotKey \/ SnapshotRetry \/ SnapshotHears
    \/ PollKey \/ Refresh \/ Elapse \/ Poll \/ Hide \/ Show \/ PollAnswers \/ PollFails
    \/ SocketChanges \/ Tick \/ BadgeTimer
    \/ TickComes \/ FrameRuns

\* Timers fire and time passes.  A request of a panel need not end; a poll
\* ends by its own deadline.
Fairness ==
    /\ WF_vars(PanelDeadline) /\ WF_vars(SnapshotHears)
    /\ WF_vars(Elapse) /\ WF_vars(Poll) /\ WF_vars(PollAnswers \/ PollFails)
    /\ WF_vars(Tick) /\ WF_vars(BadgeTimer)

-----------------------------------------------------------------------------
\* A panel that loads once shows nothing of the ticker before, unless its hook is
\* switched off; it shows no error beside the data, and is not left "loading"
\* when nothing it would hear is under way (useAsync.ts:7-9, PaneBody.tsx:46-54).
PanelOfKey ==
    /\ Open("snapshot") \/ (Open("panel") /\ page.enabled) => page.data \in {None, page.key}
    /\ Open("panel") \/ Open("snapshot") => ~(page.error /\ page.data # None)
    /\ Open("panel") /\ page.busy => \E q \in page.asked : q.latest
    /\ Open("snapshot") /\ SnapshotShows(page) = "loading" => \E q \in page.asked : q.alive

\* No tick is left undrawn without a frame to draw it (useQuote.ts:55-63).
FramesFollow == Open("ticks") /\ page.drawn # page.latest => page.scheduled

\* No panel waits for ever, even for a request that never ends, while its hook
\* is on (useAsync.ts:18-19); switching it off takes the deadline away (90).
PanelEnds ==
    Open("panel") /\ page.enabled /\ page.busy ~> ~(Open("panel") /\ page.enabled /\ page.busy)

\* A poll that hangs or fails does not stop the next one: while the tab is
\* visible what is shown is asked for again (useLive.ts:44-51).
PollGoesOn == [](Open("poll") => <>(Open("poll") /\ (~page.visible \/ page.inFlight = page.key)))

\* What is polled for one market is not shown under another
\* (MoversBoard.tsx:101-103).
PollOfKey == Open("poll") => page.data \in {None, page.key}

\* The badge never claims what has not lasted, never changes twice within the
\* dwell time, and comes to show a state that lasts (streamBadge.ts:13-21).
BadgeIsSteady ==
    [][Open("badge") /\ page'.state.shown # page.state.shown =>
          /\ page'.state.shown = page'.raw
          /\ page'.now - page.state.shownSince >= MinDwell
          /\ page'.now - page'.state.candidateSince >= ShowDelay[page'.raw]]_vars
BadgeTells ==
    Open("badge") /\ page.timer # None /\ page.now + ShowDelay[page.raw] + MinDwell <= MaxNow
        ~> Open("badge") /\ (page.state.shown = page.raw \/ page.now = MaxNow)
=============================================================================
