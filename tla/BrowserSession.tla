--------------------------- MODULE BrowserSession ---------------------------
(***************************************************************************)
(* The session as the browser lives it: the tabs of one browser share a    *)
(* cookie jar (the HttpOnly refresh cookie and the readable CSRF cookie)   *)
(* and nothing else.  Each tab keeps its access token and a copy of the    *)
(* CSRF token in the memory of lib/api.ts, shares one refresh among all    *)
(* its callers, retries a rejected request once, and is let in or sent to  *)
(* the login page by the gate of components/Shell.tsx.                     *)
(*                                                                         *)
(* A refresh token is what it is to the server now: the current one of the *)
(* session, its predecessor, dead, or the one of a session that a later    *)
(* login left behind.  A CSRF copy equals the cookie, is stale or is none. *)
(***************************************************************************)
EXTENDS Naturals, FiniteSets

CONSTANTS
    Tabs,
    MayLose     \* whether an answer may be lost after the server acted

VARIABLES
    tab,        \* the memory and the route of each tab
    jar,        \* the refresh cookie, and whether there is a CSRF cookie
    grace       \* is the predecessor still honoured (Sessions.Recent)?

vars == <<tab, jar, grace>>

Roles == {"none", "cur", "prev", "dead", "old"}
Live(r) == r \in {"cur", "prev", "old"}

NoFlight == [stage |-> "none", r |-> "none", match |-> FALSE, reply |-> "none"]
NoCall == [kind |-> "none", stage |-> "idle", auth |-> FALSE, attempt |-> 0]

\* The role of every token changes at once, in the jar and under way.
Renamed(tb, f) ==
    [t \in Tabs |-> [tb[t] EXCEPT !.flight.r = f[@], !.bye.r = f[@]]]
RolesNow == [r \in Roles |-> r]
Rotated == [RolesNow EXCEPT !["cur"] = "prev", !["prev"] = "dead"]
Ended == [RolesNow EXCEPT !["cur"] = "dead", !["prev"] = "dead"]
LeftBehind == [Ended EXCEPT !["cur"] = "old", !["prev"] = "old"]

\* The CSRF cookie changes: the copies of the other tabs no longer equal it.
CsrfMoves(tb, t) ==
    [u \in Tabs |-> IF u # t /\ tb[u].csrf = "same"
                    THEN [tb[u] EXCEPT !.csrf = "stale"] ELSE tb[u]]

-----------------------------------------------------------------------------
(* The pieces of lib/api.ts, over the memory m of one tab. *)

\* A cookie-authenticated request leaves with the cookies and, in a header,
\* csrf.get(): the copy in memory or else the cookie.  csrf.require will
\* compare the two.
Leaves(m) ==
    [stage |-> "sent", r |-> jar.r, reply |-> "none",
     match |-> jar.c /\ m.csrf # "stale"]

\* refreshSession(): join the refresh under way, or start one.
RefreshAlone(m) == [m EXCEPT !.flight = Leaves(m)]
Refresh(m) == IF m.flight # NoFlight THEN m ELSE [m EXCEPT !.flight = Leaves(m)]

\* token.clear()
Cleared(m) == [m EXCEPT !.access = "none", !.csrf = "none"]

\* token.set() and csrf.set() after a login or a refresh.
SignedIn(m) == [m EXCEPT !.access = "fresh", !.csrf = "same"]

\* The gate is gone, and with it whoever listened to /auth/me.
Unlistened(m) == [m EXCEPT !.call.kind = IF @ = "me" THEN "data" ELSE @]

\* bootstrapSession() when the shell mounts: ensureToken answers at once when
\* the token is fresh and otherwise waits for a refresh.
Boot(m) ==
    LET b == [Unlistened(m) EXCEPT !.page = "app", !.offline = FALSE]
    IN  IF b.access = "fresh" THEN [b EXCEPT !.gate = "verify"]
        ELSE [Refresh(b) EXCEPT !.gate = "checking"]

ToLogin(m) == [Unlistened(m) EXCEPT !.page = "login", !.gate = "off"]

\* apiFetchMeta(): ensureToken, then the request with whatever it returned.
Ask(m, kind, n) ==
    LET c == [kind |-> kind, stage |-> "waiting", auth |-> FALSE, attempt |-> n]
    IN  IF m.access = "fresh"
        THEN [m EXCEPT !.call = [c EXCEPT !.stage = "sent", !.auth = TRUE]]
        ELSE [Refresh(m) EXCEPT !.call = c]

\* The final 401 of a request: the token goes, and the gate reacts to its own.
Rejected(m) ==
    LET e == [Cleared(m) EXCEPT !.call = NoCall]
    IN  IF m.call.kind = "me" THEN ToLogin(e) ELSE e

\* A 401: one retry after a refresh, then give up.
UnauthorizedForEver(m) ==
    [Refresh(Cleared(m)) EXCEPT !.call.stage = "again"]
Unauthorized(m) ==
    IF m.call.attempt = 0
    THEN [Refresh(Cleared(m)) EXCEPT !.call.stage = "again"]
    ELSE Rejected(m)

\* Whoever awaited the refresh resumes with the token it left, if any.
GateResumes(m) ==
    IF m.gate # "checking" THEN m
    ELSE IF m.access # "none" THEN [m EXCEPT !.gate = "verify"]
    ELSE IF m.offline THEN [m EXCEPT !.gate = "offline"]
    ELSE ToLogin(m)

CallResumes(m) ==
    CASE m.call.stage = "waiting" ->
            [m EXCEPT !.call.stage = "sent", !.call.auth = m.access # "none"]
      [] m.call.stage = "again" /\ m.access # "none" -> Ask(m, m.call.kind, 1)
      [] m.call.stage = "again" /\ m.access = "none" -> Rejected(m)
      [] OTHER -> m

-----------------------------------------------------------------------------
Blank == [page |-> "login", access |-> "none", csrf |-> "none", gate |-> "off",
          offline |-> FALSE, flight |-> NoFlight, call |-> NoCall, bye |-> NoFlight]

Init ==
    /\ tab = [t \in Tabs |-> Blank]
    /\ jar = [r |-> "none", c |-> FALSE]
    /\ grace = FALSE

(* What the server does with a request that reached it. *)

\* POST /auth/refresh: the CSRF check first, then sessions.rotate().
ServerRefresh(t) ==
    LET f == tab[t].flight
        To(tb, what, r) == [tb EXCEPT ![t].flight.stage = "answered",
                                      ![t].flight.reply = what, ![t].flight.r = r]
    IN  /\ f.stage = "sent"
        /\ \/ /\ ~f.match
              /\ tab' = To(tab, "refused", f.r)
              /\ UNCHANGED <<jar, grace>>
           \/ /\ f.match /\ f.r \in {"none", "dead"}
              /\ tab' = To(tab, "over", f.r)
              /\ UNCHANGED <<jar, grace>>
           \/ /\ f.match /\ f.r = "cur"
              /\ tab' = To(Renamed(tab, Rotated), "ok", "cur")
              /\ jar' = [jar EXCEPT !.r = Rotated[@]]
              /\ grace' = TRUE
           \/ /\ f.match /\ f.r = "prev" /\ grace
              /\ tab' = To(tab, "ok", "cur")
              /\ UNCHANGED <<jar, grace>>
           \/ /\ f.match /\ f.r = "prev" /\ ~grace
              /\ tab' = To(Renamed(tab, Ended), "reuse", "dead")
              /\ jar' = [jar EXCEPT !.r = Ended[@]]
              /\ UNCHANGED grace

\* It never arrives, the server answers 5xx, or (MayLose) the answer is lost.
NetworkFails(t) ==
    \E field \in {"flight", "bye"} :
        /\ \/ tab[t][field].stage = "sent"
           \/ MayLose /\ tab[t][field].stage = "answered"
        /\ tab' = [tab EXCEPT ![t][field].stage = "answered", ![t][field].reply = "lost"]
        /\ UNCHANGED <<jar, grace>>

\* The refresh returns: cookies, memory, and everyone who was waiting.
Kept(m, reply) ==
    CASE reply = "ok" -> SignedIn([m EXCEPT !.offline = FALSE])
      [] reply = "lost" -> [m EXCEPT !.offline = TRUE]
      [] OTHER -> Cleared([m EXCEPT !.offline = FALSE])

RefreshReturns(t) ==
    LET m == tab[t]
        after == [Kept(m, m.flight.reply) EXCEPT !.flight = NoFlight]
        now == [tab EXCEPT ![t] = CallResumes(GateResumes(after))]
    IN  /\ m.flight.stage = "answered"
        /\ CASE m.flight.reply = "ok" ->
                  /\ jar' = [r |-> m.flight.r, c |-> TRUE]
                  /\ tab' = CsrfMoves(now, t)
             [] m.flight.reply \in {"over", "reuse"} ->
                  /\ jar' = [r |-> "none", c |-> FALSE]
                  /\ tab' = CsrfMoves(now, t)
             [] OTHER ->
                  /\ tab' = now
                  /\ UNCHANGED jar
        /\ UNCHANGED grace

(* Requests with the access token. *)

Idle(t) == tab[t].call.stage = "idle"

\* A page asks for data; the shell verifies; the login form is submitted.
AskData(t) ==
    /\ tab[t].page = "app" /\ Idle(t)
    /\ tab' = [tab EXCEPT ![t] = Ask(@, "data", 0)]
    /\ UNCHANGED <<jar, grace>>

Verify(t) ==
    /\ tab[t].gate = "verify" /\ Idle(t)
    /\ tab' = [tab EXCEPT ![t] = Ask([@ EXCEPT !.gate = "verifying"], "me", 0)]
    /\ UNCHANGED <<jar, grace>>

SubmitLogin(t) ==
    /\ tab[t].page = "login" /\ Idle(t)
    /\ tab' = [tab EXCEPT ![t] = Ask(@, "login", 0)]
    /\ UNCHANGED <<jar, grace>>

CallSucceeds(t) ==
    LET m == tab[t] IN
    /\ m.call.stage = "sent" /\ m.call.kind # "login" /\ m.call.auth
    /\ tab' = [tab EXCEPT ![t].call = NoCall,
                          ![t].gate = IF m.call.kind = "me" THEN "open" ELSE @]
    /\ UNCHANGED <<jar, grace>>

\* The right password: a new session beside whatever the jar held.  Bound:
\* no refresh is under way anywhere, and no other tab is signing out.
LoginSucceeds(t) ==
    LET m == tab[t]
        left == Renamed(tab, LeftBehind)
    IN
    /\ m.call.stage = "sent" /\ m.call.kind = "login"
    /\ \A u \in Tabs : tab[u].flight = NoFlight /\ (u # t => tab[u].bye = NoFlight)
    /\ jar' = [r |-> "cur", c |-> TRUE]
    /\ grace' = FALSE
    /\ tab' = CsrfMoves([left EXCEPT ![t] = Boot([SignedIn(@) EXCEPT !.call = NoCall])], t)

\* 401: a wrong password, or a token the server does not take (expired, a
\* drifted clock, a new JWT secret).
CallUnauthorized(t) ==
    /\ tab[t].call.stage = "sent"
    /\ tab' = [tab EXCEPT ![t] = Unauthorized(@)]
    /\ UNCHANGED <<jar, grace>>

\* A timeout, no network or a 5xx: the gate tries /auth/me again and, after
\* its last try, lets the user in.
CallFails(t) ==
    LET m == tab[t] IN
    /\ m.call.stage = "sent"
    /\ \E g \in IF m.call.kind = "me" THEN {"verify", "open"} ELSE {m.gate} :
          tab' = [tab EXCEPT ![t].call = NoCall, ![t].gate = g]
    /\ UNCHANGED <<jar, grace>>

(* The routes. *)

\* Another page of the app: every page mounts a shell of its own.  From the
\* login page it is the back button, not while the form is under way.
Navigate(t) ==
    /\ tab[t].gate \in {"open", "off"} /\ tab[t].call.kind # "login"
    /\ tab' = [tab EXCEPT ![t] = Boot(@)]
    /\ UNCHANGED <<jar, grace>>

\* A reload: the memory goes, and with it the answers still under way.
Reload(t) ==
    /\ tab[t].gate = "open"
    /\ MayLose \/ tab[t].flight.stage # "answered"
    /\ tab' = [tab EXCEPT ![t] = Boot(Blank)]
    /\ UNCHANGED <<jar, grace>>

\* The shell's timer while offline: setTimeout(boot, 5000).
RetryBootWithToken(t) ==
    /\ tab[t].gate = "offline" /\ tab[t].access # "none"
    /\ tab' = [tab EXCEPT ![t] = Boot(@)]
    /\ UNCHANGED <<jar, grace>>
RetryBoot(t) ==
    /\ tab[t].gate = "offline"
    /\ tab' = [tab EXCEPT ![t] = Boot(@)]
    /\ UNCHANGED <<jar, grace>>

\* logout(): endSession() is sent and the page is left at once.
SignOut(t) ==
    /\ tab[t].gate = "open" /\ tab[t].bye = NoFlight
    /\ tab' = [tab EXCEPT ![t] = [ToLogin(@) EXCEPT !.bye = Leaves(tab[t])]]
    /\ UNCHANGED <<jar, grace>>

\* POST /auth/logout: without a session there is nothing to check.
ServerSignOut(t) ==
    LET f == tab[t].bye
        To(tb, what) == [tb EXCEPT ![t].bye.stage = "answered", ![t].bye.reply = what]
    IN
    /\ f.stage = "sent"
    /\ IF f.r # "none" /\ ~f.match
       THEN /\ tab' = To(tab, "refused")
            /\ UNCHANGED jar
       ELSE LET gone == IF f.r = "old" THEN [RolesNow EXCEPT !["old"] = "dead"]
                        ELSE IF Live(f.r) THEN Ended ELSE RolesNow
            IN  /\ tab' = To(Renamed(tab, gone), "ended")
                /\ jar' = [jar EXCEPT !.r = gone[@]]
    /\ UNCHANGED grace

\* endSession() looks at no answer: the tab forgets its tokens either way.
SignOutReturns(t) ==
    LET m == tab[t]
        now == [tab EXCEPT ![t] = [Cleared(@) EXCEPT !.bye = NoFlight]]
    IN
    /\ m.bye.stage = "answered"
    /\ IF m.bye.reply = "ended"
       THEN /\ jar' = [r |-> "none", c |-> FALSE]
            /\ tab' = CsrfMoves(now, t)
       ELSE /\ tab' = now
            /\ UNCHANGED jar
    /\ UNCHANGED grace

(* Time and the rest of the world. *)

\* The access token comes within REFRESH_SKEW_MS of its end.
Age(t) ==
    /\ tab[t].access = "fresh"
    /\ tab' = [tab EXCEPT ![t].access = "aging"]
    /\ UNCHANGED <<jar, grace>>

\* No request is under way for longer than the grace window.
GraceEnds ==
    /\ grace
    /\ \A t \in Tabs : tab[t].flight = NoFlight /\ tab[t].bye = NoFlight
    /\ grace' = FALSE
    /\ UNCHANGED <<tab, jar>>

\* Signed out everywhere from another device, or deactivated.
EndedElsewhere ==
    /\ jar.r \in {"cur", "prev"}
    /\ tab' = Renamed(tab, Ended)
    /\ jar' = [jar EXCEPT !.r = Ended[@]]
    /\ UNCHANGED grace

Next ==
    \/ \E t \in Tabs :
         \/ ServerRefresh(t) \/ NetworkFails(t) \/ RefreshReturns(t)
         \/ AskData(t) \/ Verify(t) \/ SubmitLogin(t)
         \/ CallSucceeds(t) \/ LoginSucceeds(t) \/ CallUnauthorized(t) \/ CallFails(t)
         \/ Navigate(t) \/ Reload(t) \/ RetryBoot(t)
         \/ SignOut(t) \/ ServerSignOut(t) \/ SignOutReturns(t)
         \/ Age(t)
    \/ GraceEnds \/ EndedElsewhere

Spec == Init /\ [][Next]_vars

\* Requests end one way or the other (apiFetchMeta aborts them after its
\* timeout, a refresh is settled by the network), in the end the server is
\* reached when the gate asks, and the gate's timer does not fire only in the
\* moments in which somebody else's refresh has just failed.
Fairness ==
    \A t \in Tabs :
        /\ WF_vars(ServerRefresh(t) \/ NetworkFails(t))
        /\ SF_vars(tab[t].gate = "checking" /\ ServerRefresh(t))
        /\ WF_vars(RefreshReturns(t))
        /\ WF_vars(CallSucceeds(t) \/ LoginSucceeds(t) \/ CallUnauthorized(t) \/ CallFails(t))
        /\ WF_vars(RetryBoot(t))
        /\ SF_vars(tab[t].flight = NoFlight /\ RetryBoot(t))

FairSpec == Spec /\ Fairness

-----------------------------------------------------------------------------
TypeOK ==
    /\ \A t \in Tabs : LET m == tab[t] IN
          /\ m.page \in {"app", "login"}
          /\ m.access \in {"none", "fresh", "aging"} /\ m.csrf \in {"none", "same", "stale"}
          /\ m.gate \in {"off", "checking", "offline", "verify", "verifying", "open"}
          /\ m.page = "login" <=> m.gate = "off"
          /\ m.gate = "checking" => m.flight # NoFlight
          /\ m.gate = "verifying" => m.call.kind = "me"
          /\ m.call.stage \in {"waiting", "again"} => m.flight # NoFlight
          /\ {m.flight.r, m.bye.r} \subseteq Roles
    /\ jar.r \in Roles /\ jar.c \in BOOLEAN /\ grace \in BOOLEAN

\* The tab has the browser for itself.
Alone == \A t, u \in Tabs : t = u

\* A browser of one tab never trips the theft detection by itself, however
\* many callers, reloads and retries there are (api.ts:112-121, "single-flight
\* ... a correctness requirement"), as long as answers arrive.
NeverOwnThief ==
    Alone /\ ~MayLose =>
        \A t \in Tabs : tab[t].flight.stage = "answered" => tab[t].flight.reply # "reuse"

\* A sign-out the server answered has ended the session whose cookie it
\* presented (Shell.tsx:345-347, api.ts:205), and that of a tab which has the
\* browser for itself is never turned down.
SignOutEnds ==
    \A t \in Tabs : tab[t].bye.stage = "answered" =>
        /\ tab[t].bye.reply = "ended" => ~Live(tab[t].bye.r)
        /\ Alone => tab[t].bye.reply # "refused"

\* A browser does not end its own session but by signing out, a sign-out ends
\* it, and meanwhile a tab is only ever where the code can be: nobody waits for
\* a refresh that is not under way, and the login page has no gate.
SessionHolds == TypeOK /\ NeverOwnThief /\ SignOutEnds

\* A dropped connection is not a sign-out (api.ts:152-154, Shell.tsx:176-185): a
\* refresh that could not reach the server sends nobody to the login page.
DropIsNoSignOut ==
    [][\A t \in Tabs :
          tab[t].page = "app" /\ tab[t].flight.reply = "lost" /\ tab'[t].flight = NoFlight
              => tab'[t].page = "app"]_vars

\* No request is retried for ever, not even against a revoked session, and
\* nobody waits for a refresh that is not under way.
EveryRequestEnds == \A t \in Tabs : tab[t].call.stage # "idle" ~> tab[t].call.stage = "idle"

\* A shell that came up without a network recovers by itself once there is
\* one: it is let in, or learns that the session is over (Shell.tsx:215-227).
OfflineRecovers ==
    \A t \in Tabs : tab[t].gate = "offline" ~> tab[t].gate \notin {"offline", "checking"}
=============================================================================
