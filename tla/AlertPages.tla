----------------------------- MODULE AlertPages -----------------------------
(***************************************************************************)
(* The page of alerts (app/alerts/page.tsx, lib/alertCheck.ts): the form   *)
(* that checks an alert before it is armed, with the list of those that    *)
(* are there ("draft"), the panel of delivery channels ("delivery") and    *)
(* the settings of the administrator ("setup").                            *)
(*                                                                         *)
(* Numbers are tenths.  srv is what the server keeps: the alerts, what is  *)
(* linked, and the settings.  What the server does with an alert is in     *)
(* Alerts.tla; here it may fire and be deactivated at any time.            *)
(***************************************************************************)
EXTENDS Integers, FiniteSets

CONSTANTS
    Kinds,          \* the kinds that are chosen from, of KINDS below
    Tickers, Blank, \* what is typed as a ticker; Blank is none
    Values,         \* numbers: thresholds, and what is measured
    MaxAsked,       \* bound: requests under way at once
    MaxStamp,       \* bound: alerts made, edits of the settings
    None

VARIABLES page, srv

vars == <<page, srv>>

Open(name) == page.name = name
To(p) == page' = p /\ UNCHANGED srv
Room == Cardinality(page.asked) < MaxAsked
Ask(p, q) == [p EXCEPT !.asked = @ \cup {q}]
Answered(q) == [page EXCEPT !.asked = @ \ {q}]
Waiting(op) == {q \in page.asked : q.op = op}

-----------------------------------------------------------------------------
(* Checking an alert.                                                      *)

Spread == "spread_10y2y"
KINDS == [price |-> [min |-> 0, max |-> 100000000], pe |-> [min |-> 0, max |-> 5000], move |-> [min |-> 0, max |-> 500],
          volume_spike |-> [min |-> 1, max |-> 200], spread_10y2y |-> [min |-> -50, max |-> 50]]
NeedsTicker(kind) == kind # Spread
Abs(n) == IF n < 0 THEN -n ELSE n
Distance(op, threshold, current) ==
    [gap |-> Abs(threshold - current), pct |-> IF current = 0 THEN None ELSE (100 * (threshold - current)) \div Abs(current),
     direction |-> IF op = ">" THEN "up" ELSE "down"]
AlreadyTrue(op, threshold, current) == IF op = ">" THEN current > threshold ELSE current < threshold
\* What is wrong with a draft; each is an error, a warning or a note.
Errors == {"no value", "no ticker", "already true"}
Validate(d, current) ==
    IF d.value = None THEN {"no value"} ELSE
    LET entered == (IF NeedsTicker(d.kind) /\ d.ticker = Blank THEN {"no ticker"} ELSE {})
                   \cup (IF d.value < KINDS[d.kind].min \/ d.value > KINDS[d.kind].max THEN {"unit"} ELSE {})
    IN  IF current = None THEN entered \cup {"unchecked"}
        ELSE IF AlreadyTrue(d.op, d.value, current) THEN entered \cup {"already true"}
        ELSE IF current # 0 /\ d.kind = "price" /\ Abs(Distance(d.op, d.value, current).pct) > 90 THEN entered \cup {"far"}
        ELSE entered
FindDuplicate(existing, d) ==
    LET t == IF d.ticker = Blank THEN None ELSE d.ticker IN
    {a \in existing : a.kind = d.kind /\ a.ticker = t /\ a.op = d.op /\ a.value = d.value}
Health(alerts) ==
    LET armed == Cardinality({a \in alerts : a.active}) IN
    [armed |-> armed, fired |-> Cardinality(alerts) - armed, total |-> Cardinality(alerts)]

-----------------------------------------------------------------------------
(* The form and the list.  `current' is what was measured last, with what  *)
(* it is of; `wanted' is the one request for it that still counts.         *)

Source(kind) == IF kind \in {"pe", "move"} THEN kind ELSE "price"
Measuring(p) == [of |-> Source(p.kind), ticker |-> p.ticker]
\* The effect on kind and ticker; the spinner is left as it is where nothing is asked.
Checked(p) ==
    IF NeedsTicker(p.kind) /\ p.ticker # Blank
    THEN [p EXCEPT !.busy = TRUE, !.wanted = Measuring(p)]
    ELSE [p EXCEPT !.current = None, !.wanted = None]
Poll(p) == IF p.poll = None THEN [p EXCEPT !.poll = srv.alerts] ELSE p

DraftPage ==
    [name |-> "draft", kind |-> "price", ticker |-> Blank, op |-> "<", value |-> None, current |-> None, busy |-> FALSE,
     wanted |-> None, alerts |-> None, poll |-> {}, error |-> FALSE, made |-> 0, asked |-> {}]
Shown == IF page.alerts = None THEN {} ELSE page.alerts
Number == IF page.current = None THEN None ELSE page.current.n
Problems == IF page.value = None THEN {} ELSE Validate(page, Number)
Blocked == Problems \cap Errors # {}
DraftView ==
    [checking |-> NeedsTicker(page.kind) /\ page.ticker # Blank /\ page.busy,
     now |-> NeedsTicker(page.kind) /\ page.ticker # Blank /\ ~page.busy /\ page.current # None,
     distance |-> Problems = {} /\ page.value # None, health |-> Health(Shown),
     beside |-> {a \in Shown : a.active /\ a.ticker = page.ticker /\ page.current # None}]

SetKind(k) == Open("draft") /\ k # page.kind /\ To(Checked([page EXCEPT !.kind = k]))
SetTicker(t) == Open("draft") /\ NeedsTicker(page.kind) /\ t # page.ticker /\ To(Checked([page EXCEPT !.ticker = t]))
SetOp(op) == Open("draft") /\ To([page EXCEPT !.op = op])
SetValue(v) == Open("draft") /\ To([page EXCEPT !.value = v])
Measured ==
    /\ Open("draft") /\ page.wanted # None
    /\ \/ \E n \in Values : To([page EXCEPT !.current = [of |-> page.wanted.of, ticker |-> page.wanted.ticker, n |-> n],
                                            !.busy = FALSE, !.wanted = None])
       \/ To([page EXCEPT !.current = None, !.busy = FALSE, !.wanted = None])
Tick == Open("draft") /\ page.poll = None /\ To(Poll(page))
PollAnswers ==
    /\ Open("draft") /\ page.poll # None
    /\ \/ \E alerts \in {page.poll, srv.alerts} : To([page EXCEPT !.poll = None, !.alerts = alerts])
       \/ To([page EXCEPT !.poll = None])
\* Only a twin on the list asks for a confirmation; the button stays enabled while it sends.
Create(confirmed) ==
    /\ Open("draft") /\ ~Blocked /\ Room /\ page.made < MaxStamp
    /\ IF page.value = None \/ (NeedsTicker(page.kind) /\ page.ticker = Blank)
       THEN To([page EXCEPT !.error = TRUE])
       ELSE /\ FindDuplicate(Shown, page) # {} => confirmed
            /\ To(Ask([page EXCEPT !.error = FALSE, !.made = @ + 1],
                      [op |-> "create",
                       alert |-> [id |-> page.made + 1, kind |-> page.kind, op |-> page.op, value |-> page.value, active |-> TRUE,
                                  ticker |-> IF page.kind = Spread THEN None ELSE page.ticker]]))
CreateAnswers(q) ==
    /\ Open("draft") /\ q \in Waiting("create")
    /\ \/ /\ srv' = [srv EXCEPT !.alerts = @ \cup {q.alert}]
          /\ LET p == [Answered(q) EXCEPT !.value = None] IN
             page' = IF p.poll = None THEN [p EXCEPT !.poll = srv'.alerts] ELSE p
       \/ To([Answered(q) EXCEPT !.error = TRUE])
Delete(a) == Open("draft") /\ a \in Shown /\ Room /\ To(Ask(page, [op |-> "delete", id |-> a.id]))
DeleteAnswers(q) ==
    /\ Open("draft") /\ q \in Waiting("delete")
    /\ \/ /\ srv' = [srv EXCEPT !.alerts = {a \in @ : a.id # q.id}]
          /\ LET p == Answered(q) IN page' = IF p.poll = None THEN [p EXCEPT !.poll = srv'.alerts] ELSE p
       \/ To(Answered(q))
Fire(a) ==
    /\ Open("draft") /\ a \in srv.alerts /\ a.active
    /\ srv' = [srv EXCEPT !.alerts = (@ \ {a}) \cup {[a EXCEPT !.active = FALSE]}] /\ UNCHANGED page

DraftNext ==
    \/ \E k \in Kinds : SetKind(k)
    \/ \E t \in Tickers \cup {Blank} : SetTicker(t)
    \/ \E op \in {"<", ">"} : SetOp(op)
    \/ \E v \in Values \cup {None} : SetValue(v)
    \/ Measured \/ Tick \/ PollAnswers \/ \E c \in BOOLEAN : Create(c)
    \/ Open("draft") /\ (\E q \in page.asked : CreateAnswers(q) \/ DeleteAnswers(q))
    \/ Open("draft") /\ ((\E a \in Shown : Delete(a)) \/ \E a \in srv.alerts : Fire(a))

-----------------------------------------------------------------------------
(* Delivery.  srv.channels is what the server has for this reader.         *)

DeliveryPage ==
    [name |-> "delivery", cfg |-> None, push |-> "idle", email |-> "none", emailMsg |-> "none", code |-> FALSE, tgMsg |-> "none",
     testMsg |-> "none", asked |-> {[op |-> "cfg"]}]
LoadCfg(p) == Ask(p, [op |-> "cfg"])
CfgAnswers ==
    /\ Open("delivery") /\ [op |-> "cfg"] \in page.asked
    /\ \/ To([Answered([op |-> "cfg"]) EXCEPT !.cfg = srv.channels, !.email = srv.channels.email])
       \/ To([Answered([op |-> "cfg"]) EXCEPT !.cfg = None])
Has(channel) == page.cfg # None /\ page.cfg[channel]
DeliveryView ==
    [off |-> page.cfg # None /\ ~page.cfg.key, linked |-> Has("linked") /\ ~page.code, link |-> ~Has("linked") /\ ~page.code,
     enable |-> Has("key") /\ page.push # "enabled"]
TypeEmail(e) == Open("delivery") /\ To([page EXCEPT !.email = e])
SaveEmail == Open("delivery") /\ To(Ask([page EXCEPT !.emailMsg = "saving"], [op |-> "email", email |-> page.email]))
\* The message is of the address as it was when the button was pressed.
EmailAnswers(q) ==
    /\ Open("delivery") /\ q \in Waiting("email")
    /\ \/ page' = [Answered(q) EXCEPT !.emailMsg = "saved"] /\ srv' = [srv EXCEPT !.channels.email = q.email]
       \/ To([Answered(q) EXCEPT !.emailMsg = "failed"])
TgStart == Open("delivery") /\ DeliveryView.link /\ To(Ask([page EXCEPT !.tgMsg = "none"], [op |-> "start"]))
StartAnswers(q) ==
    /\ Open("delivery") /\ q \in Waiting("start")
    /\ \E ok \in BOOLEAN : To(IF ok THEN [Answered(q) EXCEPT !.code = TRUE] ELSE [Answered(q) EXCEPT !.tgMsg = "failed"])
TgVerify == Open("delivery") /\ page.code /\ To(Ask([page EXCEPT !.tgMsg = "checking"], [op |-> "verify"]))
VerifyAnswers(q) ==
    /\ Open("delivery") /\ q \in Waiting("verify")
    /\ \/ /\ srv' = [srv EXCEPT !.channels.linked = TRUE]
          /\ page' = LoadCfg([Answered(q) EXCEPT !.code = FALSE, !.tgMsg = "linked"])
       \/ To([Answered(q) EXCEPT !.tgMsg = "failed"])
Unlink == Open("delivery") /\ DeliveryView.linked /\ To(Ask(page, [op |-> "unlink"]))
UnlinkAnswers(q) ==
    /\ Open("delivery") /\ q \in Waiting("unlink")
    /\ srv' \in {srv, [srv EXCEPT !.channels.linked = FALSE]}
    /\ page' = LoadCfg(Answered(q))
EnablePush ==
    /\ Open("delivery") /\ DeliveryView.enable /\ page.push # "enabling"
    /\ To(Ask([page EXCEPT !.push = "enabling"], [op |-> "permit"]))
\* Permission, registration of the worker, and the subscription at the browser's service.
Permitted(q) == To(Ask(Answered(q), [op |-> "subscribe"]))
PermitAnswers(q) ==
    /\ Open("delivery") /\ q \in Waiting("permit")
    /\ Permitted(q) \/ \E s \in {"denied", "error"} : To([Answered(q) EXCEPT !.push = s])
SubscribeAnswers(q) ==
    /\ Open("delivery") /\ q \in Waiting("subscribe")
    /\ \/ page' = [Answered(q) EXCEPT !.push = "enabled"] /\ srv' = [srv EXCEPT !.channels.push = TRUE]
       \/ To([Answered(q) EXCEPT !.push = "error"])
TestChannels == Open("delivery") /\ To(Ask([page EXCEPT !.testMsg = "sending"], [op |-> "test"]))
TestAnswers(q) ==
    /\ Open("delivery") /\ q \in Waiting("test")
    /\ \E m \in {"sent", "none active", "failed"} : To([Answered(q) EXCEPT !.testMsg = m])

DeliveryNext ==
    \/ CfgAnswers
    \/ Open("delivery") /\ Room /\ (SaveEmail \/ TgStart \/ TgVerify \/ Unlink \/ EnablePush \/ TestChannels)
    \/ \E e \in {"none", "typed"} : TypeEmail(e)
    \/ Open("delivery") /\ \E q \in page.asked : \/ EmailAnswers(q) \/ StartAnswers(q) \/ VerifyAnswers(q) \/ UnlinkAnswers(q)
                                                 \/ PermitAnswers(q) \/ SubscribeAnswers(q) \/ TestAnswers(q)

-----------------------------------------------------------------------------
(* The settings of the administrator: a number stands for what is in the   *)
(* fields, 0 for none.                                                     *)

SetupPage == [name |-> "setup", open |-> FALSE, fields |-> 0, stamp |-> 1, msg |-> "none", asked |-> {}]
ToggleSetup ==
    /\ Open("setup") /\ Room
    /\ To(IF page.open THEN [page EXCEPT !.open = FALSE] ELSE Ask([page EXCEPT !.open = TRUE], [op |-> "settings"]))
EditField == Open("setup") /\ page.open /\ page.stamp < MaxStamp /\ To([page EXCEPT !.stamp = @ + 1, !.fields = page.stamp + 1])
SettingsAnswer(q) ==
    /\ Open("setup") /\ q \in Waiting("settings")
    /\ To([Answered(q) EXCEPT !.fields = srv.settings]) \/ To(Answered(q))
SaveSettings == Open("setup") /\ page.open /\ Room /\ To(Ask([page EXCEPT !.msg = "saving"], [op |-> "save", fields |-> page.fields]))
SettingsSaved(q) ==
    /\ Open("setup") /\ q \in Waiting("save")
    /\ \/ page' = [Answered(q) EXCEPT !.msg = "saved"] /\ srv' = [srv EXCEPT !.settings = IF q.fields = 0 THEN @ ELSE q.fields]
       \/ To([Answered(q) EXCEPT !.msg = "failed"])
SetupNext ==
    \/ ToggleSetup \/ EditField \/ SaveSettings
    \/ Open("setup") /\ \E q \in page.asked : SettingsAnswer(q) \/ SettingsSaved(q)

-----------------------------------------------------------------------------
Server(linked) ==
    [alerts |-> {}, channels |-> [email |-> "none", key |-> TRUE, linked |-> linked, push |-> FALSE], settings |-> 1]
Init ==
    /\ page \in {DraftPage, DeliveryPage, SetupPage}
    /\ srv \in IF page.name = "delivery" THEN {Server(FALSE), Server(TRUE)} ELSE {Server(FALSE)}
Next == DraftNext \/ DeliveryNext \/ SetupNext
Spec == Init /\ [][Next]_vars

\* A request is answered in the end, or given up by the browser.
Fairness ==
    /\ WF_vars(Measured)
    /\ WF_vars(Open("delivery") /\ \E q \in page.asked : VerifyAnswers(q))
    /\ WF_vars(Open("delivery") /\ \E q \in page.asked : PermitAnswers(q))
    /\ WF_vars(Open("delivery") /\ \E q \in page.asked : SubscribeAnswers(q))

-----------------------------------------------------------------------------
\* The value a draft is checked against is of what its kind is measured by, and
\* of its ticker, however fast both are changed; while it says that it checks,
\* it has asked for that (app/alerts/page.tsx:293-310, 395-400).
CheckedAgainstItsOwn ==
    Open("draft") =>
        /\ DraftView.now => page.current.of = Source(page.kind) /\ page.current.ticker = page.ticker
        /\ DraftView.checking => page.wanted = Measuring(page)

\* The distance that is shown leads from the current value to the threshold,
\* in the direction it names (lib/alertCheck.ts:103-152).
DistanceLeadsThere ==
    Open("draft") => (DraftView.distance /\ page.current # None =>
        LET d == Distance(page.op, page.value, Number) IN
        page.value = Number + (IF d.direction = "up" THEN d.gap ELSE -d.gap))

\* A device that is said to receive alerts is known to the server, whichever of
\* the permission, the worker and the two subscriptions failed
\* (app/alerts/page.tsx:82-97).
EnabledIsSubscribed == Open("delivery") /\ page.push = "enabled" => srv.channels.push

Says(name, field, what) == Open(name) /\ page[field] = what
\* "checking current value", "Checking..." and "Enabling..." end.
PagesSettle ==
    /\ (Open("draft") /\ DraftView.checking) ~> (Open("draft") => ~DraftView.checking)
    /\ Says("delivery", "tgMsg", "checking") ~> ~Says("delivery", "tgMsg", "checking")
    /\ Says("delivery", "push", "enabling") ~> ~Says("delivery", "push", "enabling")

\* "A kind with no cheap source stays null, and the validator says so rather
\* than implying the alert is fine" (app/alerts/page.tsx:299-300): a draft is
\* checked against nothing that is not of its kind.
NoSourceStaysNull == Open("draft") /\ DraftView.now => page.current.of = page.kind
=============================================================================
