------------------------ MODULE BrowserSessionProofs ------------------------
(***************************************************************************)
(* What is proved of the session of a browser (BrowserSession), for any    *)
(* number of tabs.  The invariant is one predicate of one tab and of the   *)
(* cookie in the jar they share (Good), so that a step is about the tab    *)
(* that takes it and about what it does to the cookie of the others.       *)
(***************************************************************************)
EXTENDS BrowserSession, TLAPS

Flights == [stage : {"none", "sent", "answered"}, r : Roles, match : BOOLEAN,
            reply : {"none", "ok", "over", "refused", "reuse", "lost", "ended"}]
Calls == [kind : {"none", "data", "me", "login"}, stage : {"idle", "waiting", "sent", "again"},
          auth : BOOLEAN, attempt : {0, 1}]
Memories ==
    [page : {"app", "login"}, access : {"none", "fresh", "aging"}, csrf : {"none", "same", "stale"},
     gate : {"off", "checking", "offline", "verify", "verifying", "open"},
     offline : BOOLEAN, flight : Flights, call : Calls, bye : Flights]

\* What is under way is, and what ended has ended.
Flown(m) ==
    /\ m.bye.stage = "answered" /\ m.bye.reply = "ended" => ~Live(m.bye.r)
    /\ m.flight.stage = "none" <=> m.flight = NoFlight
    /\ m.bye.stage = "none" <=> m.bye = NoFlight
\* Who waits for a refresh waits for one that is under way.
Awaited(m) ==
    /\ m.call.stage \in {"waiting", "again"} => m.flight # NoFlight
    /\ m.call.stage = "idle" <=> m.call.kind = "none"
\* The gate is where the page and the requests are.
Gated(m) ==
    /\ m.page = "login" <=> m.gate = "off"
    /\ m.gate = "checking" => m.flight # NoFlight
    /\ m.call.kind = "me" <=> m.gate = "verifying"
\* Of a tab that has the browser for itself.
Unshared(m) ==
    /\ m.csrf # "stale"
    /\ m.bye.stage = "sent" /\ m.bye.r # "none" => m.bye.match
    /\ m.bye.stage = "answered" => m.bye.reply # "refused"
\* And whose answers arrive; r is the cookie in the jar.
Punctual(m, r) ==
    /\ r = "prev" => m.flight.stage = "answered" /\ m.flight.reply = "ok"
    /\ m.flight.stage = "sent" => m.flight.r # "prev"
    /\ m.flight.stage = "answered" => m.flight.reply # "reuse"
    /\ m.flight.reply = "ok" => m.flight.stage = "answered" /\ m.flight.r # "prev"

JarOK == jar \in [r : Roles, c : BOOLEAN] /\ (jar.r # "none" => jar.c)
Loose(m, r) ==
    /\ m \in Memories /\ Flown(m)
    /\ Alone => Unshared(m)
    /\ Alone /\ ~MayLose => Punctual(m, r)
Good(m, r) == Loose(m, r) /\ Awaited(m) /\ Gated(m)
\* As good, but for what depends on the cookie.
Steady(m) == m \in Memories /\ Flown(m) /\ (Alone => Unshared(m)) /\ Awaited(m) /\ Gated(m)
IInv ==
    /\ JarOK /\ grace \in BOOLEAN
    /\ DOMAIN tab = Tabs /\ tab = [t \in Tabs |-> tab[t]]
    /\ \A t \in Tabs : Good(tab[t], jar.r)

\* A step of one tab that leaves the jar alone.
LEMMA OneTab ==
    ASSUME IInv, NEW t \in Tabs, NEW m, tab' = [tab EXCEPT ![t] = m], Good(m, jar.r), UNCHANGED jar, grace' \in BOOLEAN
    PROVE  IInv'
<1>1. DOMAIN tab' = Tabs /\ tab' = [u \in Tabs |-> tab'[u]]
  BY DEF IInv
<1>2. \A u \in Tabs : Good(tab'[u], jar.r)
  BY DEF IInv
<1>3. JarOK'
  BY DEF IInv, JarOK
<1>4. \A u \in Tabs : Good(tab'[u], jar'.r)
  BY <1>2
<1> QED
  BY <1>1, <1>3, <1>4 DEF IInv

LEMMA LeavesSent ==
    ASSUME JarOK, NEW m \in Memories
    PROVE  /\ Leaves(m) \in Flights /\ Leaves(m).stage = "sent" /\ Leaves(m) # NoFlight
           /\ Leaves(m).r = jar.r /\ Leaves(m).reply = "none"
           /\ Leaves(m).match = (jar.c /\ m.csrf # "stale")
BY DEF JarOK, Leaves, Flights, NoFlight

\* A change that touches neither the flights nor the CSRF copy.
LEMMA LooseKept ==
    ASSUME NEW m, NEW r, Loose(m, r), NEW n \in Memories,
           n.flight = m.flight, n.bye = m.bye, n.csrf = "stale" => m.csrf = "stale"
    PROVE  Loose(n, r)
<1>1. Flown(n)
  BY DEF Loose, Flown
<1>2. Alone => Unshared(n)
  BY DEF Loose, Unshared
<1>3. Alone /\ ~MayLose => Punctual(n, r)
  BY DEF Loose, Punctual
<1> QED BY <1>1, <1>2, <1>3 DEF Loose

\* A refresh is sent.
LEMMA LooseSent ==
    ASSUME NEW m, NEW r, Loose(m, r), m.flight = NoFlight, Alone /\ ~MayLose => r # "prev",
           NEW n \in Memories, n.bye = m.bye, n.csrf = "stale" => m.csrf = "stale",
           n.flight.stage = "sent", n.flight # NoFlight, n.flight.reply = "none", n.flight.r = r
    PROVE  Loose(n, r)
<1>1. Flown(n)
  BY DEF Loose, Flown
<1>2. Alone => Unshared(n)
  BY DEF Loose, Unshared
<1>3. Alone /\ ~MayLose => Punctual(n, r)
  BY DEF Loose, Punctual
<1> QED BY <1>1, <1>2, <1>3 DEF Loose

Asked(m, kind, r, a) ==
    \E c \in Calls, f \in Flights :
       /\ c.kind = kind /\ f.stage = "sent" /\ f # NoFlight /\ f.r = r /\ f.reply = "none"
       /\ \/ m.access = "fresh" /\ c.stage = "sent" /\ a = [m EXCEPT !.call = c]
          \/ m.flight # NoFlight /\ c.stage = "waiting" /\ a = [m EXCEPT !.call = c]
          \/ /\ m.flight = NoFlight /\ c.stage = "waiting" /\ m.access # "fresh"
             /\ a = [[m EXCEPT !.flight = f] EXCEPT !.call = c]

LEMMA AskShape ==
    ASSUME JarOK, NEW m \in Memories,
           NEW kind \in {"data", "me", "login"}, NEW n \in {0, 1}
    PROVE  Asked(m, kind, jar.r, Ask(m, kind, n))
<1> DEFINE f == Leaves(m)
           c == [kind |-> kind, stage |-> "waiting", auth |-> FALSE, attempt |-> n]
           s == [c EXCEPT !.stage = "sent", !.auth = TRUE]
           a == Ask(m, kind, n)
<1>1. f \in Flights /\ f.stage = "sent" /\ f # NoFlight /\ f.r = jar.r /\ f.reply = "none"
  BY LeavesSent
<1>2. c \in Calls /\ c.kind = kind /\ c.stage = "waiting"
  BY DEF Calls
<1>3. s \in Calls /\ s.kind = kind /\ s.stage = "sent"
  BY <1>2 DEF Calls
<1>4. a = IF m.access = "fresh" THEN [m EXCEPT !.call = s]
          ELSE [IF m.flight # NoFlight THEN m ELSE [m EXCEPT !.flight = f] EXCEPT !.call = c]
  BY DEF Ask, Refresh
<1> SUFFICES Asked(m, kind, jar.r, a)
  OBVIOUS
<1> HIDE DEF f, c, s, a
<1>5. CASE m.access = "fresh"
  <2>1. a = [m EXCEPT !.call = s]
    BY <1>4, <1>5
  <2> QED BY <1>1, <1>3, <1>5, <2>1, Zenon DEF Asked
<1>6. CASE m.access # "fresh" /\ m.flight # NoFlight
  <2>1. a = [m EXCEPT !.call = c]
    BY <1>4, <1>6
  <2> QED BY <1>1, <1>2, <1>6, <2>1, Zenon DEF Asked
<1>7. CASE m.access # "fresh" /\ m.flight = NoFlight
  <2>1. a = [[m EXCEPT !.flight = f] EXCEPT !.call = c]
    BY <1>4, <1>7
  <2> QED BY <1>1, <1>2, <1>7, <2>1, Zenon DEF Asked
<1> QED BY <1>5, <1>6, <1>7

\* Asking on a memory whose gate is where it may be for that kind of request.
LEMMA AskGood ==
    ASSUME JarOK, NEW m, NEW r, Loose(m, r),
           m.access # "fresh" /\ m.flight = NoFlight => r = jar.r /\ (Alone /\ ~MayLose => r # "prev"),
           NEW kind \in {"data", "me", "login"}, NEW n \in {0, 1},
           m.page = "login" <=> m.gate = "off",
           m.gate = "checking" => m.flight # NoFlight,
           kind = "me" <=> m.gate = "verifying"
    PROVE  Good(Ask(m, kind, n), r)
<1> DEFINE a == Ask(m, kind, n)
<1>0. m \in Memories
  BY DEF Loose
<1>1. Asked(m, kind, jar.r, a)
  BY <1>0, AskShape
<1> SUFFICES Good(a, r)
  OBVIOUS
<1> HIDE DEF a
<1>2. PICK c \in Calls, f \in Flights :
       /\ c.kind = kind /\ f.stage = "sent" /\ f # NoFlight /\ f.r = jar.r /\ f.reply = "none"
       /\ \/ m.access = "fresh" /\ c.stage = "sent" /\ a = [m EXCEPT !.call = c]
          \/ m.flight # NoFlight /\ c.stage = "waiting" /\ a = [m EXCEPT !.call = c]
          \/ /\ m.flight = NoFlight /\ c.stage = "waiting" /\ m.access # "fresh"
             /\ a = [[m EXCEPT !.flight = f] EXCEPT !.call = c]
  BY <1>1 DEF Asked
<1>3. CASE a = [m EXCEPT !.call = c] /\ (c.stage = "sent" \/ (m.flight # NoFlight /\ c.stage = "waiting"))
  <2>1. /\ a \in Memories /\ a.flight = m.flight /\ a.bye = m.bye /\ a.csrf = m.csrf /\ a.call = c
        /\ a.gate = m.gate /\ a.page = m.page
    BY <1>0, <1>3 DEF Memories
  <2>2. Loose(a, r)
    BY <1>2, <1>3, <2>1, LooseKept
  <2> QED BY <1>2, <1>3, <2>1, <2>2 DEF Good, Gated, Awaited
<1>4. CASE m.flight = NoFlight /\ m.access # "fresh" /\ a = [[m EXCEPT !.flight = f] EXCEPT !.call = c] /\ c.stage = "waiting"
  <2>1. /\ a \in Memories /\ a.flight = f /\ a.bye = m.bye /\ a.csrf = m.csrf /\ a.call = c
        /\ a.gate = m.gate /\ a.page = m.page
    BY <1>0, <1>4 DEF Memories
  <2>2. f.r = r /\ (Alone /\ ~MayLose => r # "prev")
    BY <1>2, <1>4
  <2>3. f.stage = "sent" /\ f # NoFlight /\ f.reply = "none"
    BY <1>2
  <2>4. Loose(a, r)
    BY <1>4, <2>1, <2>2, <2>3, LooseSent
  <2> QED BY <1>2, <2>1, <2>4 DEF Good, Gated, Awaited
<1> QED BY <1>2, <1>3, <1>4

\* The listener of /auth/me is gone.
LEMMA UnlistenedLoose ==
    ASSUME NEW m, NEW r, Loose(m, r)
    PROVE  LET u == Unlistened(m) IN
           /\ Loose(u, r) /\ u.call.kind # "me"
           /\ u.call.stage = m.call.stage /\ (u.call.kind = "none" <=> m.call.kind = "none")
           /\ u.access = m.access /\ u.flight = m.flight
<1> DEFINE c == [m.call EXCEPT !.kind = IF @ = "me" THEN "data" ELSE @]
           u == Unlistened(m)
<1>1. c \in Calls /\ c.kind # "me" /\ c.stage = m.call.stage /\ (c.kind = "none" <=> m.call.kind = "none")
  BY DEF Loose, Memories, Calls
<1>2. u = [m EXCEPT !.call = c]
  BY DEF Unlistened, Loose, Memories
<1> SUFFICES /\ Loose(u, r) /\ u.call.kind # "me"
             /\ u.call.stage = m.call.stage /\ (u.call.kind = "none" <=> m.call.kind = "none")
             /\ u.access = m.access /\ u.flight = m.flight
  OBVIOUS
<1> HIDE DEF c, u
<1>3. /\ u \in Memories /\ u.flight = m.flight /\ u.bye = m.bye /\ u.csrf = m.csrf /\ u.call = c
      /\ u.access = m.access
  BY <1>1, <1>2 DEF Loose, Memories
<1>5. Loose(u, r)
  BY <1>1, <1>3, LooseKept
<1> QED BY <1>1, <1>3, <1>5

LEMMA ToLoginGood ==
    ASSUME NEW m, NEW r, Loose(m, r), Awaited(m)
    PROVE  Good(ToLogin(m), r)
<1> DEFINE u == Unlistened(m)
           l == ToLogin(m)
<1>1. l = [u EXCEPT !.page = "login", !.gate = "off"]
  BY DEF ToLogin
<1>2. /\ Loose(u, r) /\ u.call.kind # "me" /\ u.flight = m.flight
      /\ u.call.stage = m.call.stage /\ (u.call.kind = "none" <=> m.call.kind = "none")
  BY UnlistenedLoose
<1> SUFFICES Good(l, r)
  OBVIOUS
<1> HIDE DEF u, l
<1>3. /\ l \in Memories /\ l.flight = u.flight /\ l.bye = u.bye /\ l.csrf = u.csrf /\ l.call = u.call
      /\ l.page = "login" /\ l.gate = "off"
  BY <1>1, <1>2 DEF Loose, Memories
<1>5. Loose(l, r)
  BY <1>2, <1>3, LooseKept
<1> QED BY <1>2, <1>3, <1>5 DEF Good, Gated, Awaited

LEMMA BootGood ==
    ASSUME JarOK, NEW m, NEW r, Loose(m, r), Awaited(m),
           m.access # "fresh" /\ m.flight = NoFlight => r = jar.r /\ (Alone /\ ~MayLose => r # "prev")
    PROVE  Good(Boot(m), r)
<1> DEFINE u == Unlistened(m)
           b == [u EXCEPT !.page = "app", !.offline = FALSE]
           f == Leaves(b)
           v == Boot(m)
<1>1. /\ Loose(u, r) /\ u.call.kind # "me" /\ u.access = m.access /\ u.flight = m.flight
      /\ u.call.stage = m.call.stage /\ (u.call.kind = "none" <=> m.call.kind = "none")
  BY UnlistenedLoose
<1>2. v = IF b.access = "fresh" THEN [b EXCEPT !.gate = "verify"]
          ELSE [IF b.flight # NoFlight THEN b ELSE [b EXCEPT !.flight = f] EXCEPT !.gate = "checking"]
  BY DEF Boot, Refresh
<1> SUFFICES Good(v, r)
  OBVIOUS
<1> HIDE DEF u, v
<1>3. /\ b \in Memories /\ b.flight = m.flight /\ b.bye = u.bye /\ b.csrf = u.csrf /\ b.call = u.call
      /\ b.page = "app" /\ b.access = m.access
  BY <1>1 DEF Loose, Memories
<1>4. f \in Flights /\ f.stage = "sent" /\ f # NoFlight /\ f.r = jar.r /\ f.reply = "none"
  BY <1>3, LeavesSent
<1> HIDE DEF b, f
<1>6. Loose(b, r)
  BY <1>1, <1>3, LooseKept
<1>7. CASE m.access = "fresh" \/ m.flight # NoFlight
  <2>1. /\ v \in Memories /\ v.flight = b.flight /\ v.bye = b.bye /\ v.csrf = b.csrf /\ v.call = b.call
        /\ v.page = "app" /\ v.gate \in {"verify", "checking"} /\ (v.gate = "checking" => m.flight # NoFlight)
    BY <1>2, <1>3, <1>7 DEF Memories
  <2>2. Loose(v, r)
    BY <1>6, <2>1, LooseKept
  <2> QED BY <1>1, <1>3, <2>1, <2>2 DEF Good, Gated, Awaited
<1>8. CASE m.access # "fresh" /\ m.flight = NoFlight
  <2>1. /\ v \in Memories /\ v.flight = f /\ v.bye = b.bye /\ v.csrf = b.csrf /\ v.call = b.call
        /\ v.page = "app" /\ v.gate = "checking"
    BY <1>2, <1>3, <1>4, <1>8 DEF Memories
  <2>2. Loose(v, r)
    BY <1>3, <1>4, <1>6, <1>8, <2>1, LooseSent
  <2> QED BY <1>1, <1>3, <1>4, <2>1, <2>2 DEF Good, Gated, Awaited
<1> QED BY <1>7, <1>8

\* The roles of the tokens change, everywhere at once.
LEMMA RenamedGood ==
    ASSUME NEW m, NEW r \in Roles, Good(m, r), NEW f \in [Roles -> Roles], f["none"] = "none",
           \A x \in Roles : Live(f[x]) => Live(x)
    PROVE  LET n == [m EXCEPT !.flight.r = f[@], !.bye.r = f[@]] IN
           /\ Steady(n)
           /\ (Alone /\ ~MayLose => \A x \in Roles : f[x] = "prev" => x = "prev") => Good(n, f[r])
           /\ \A k \in {"page", "access", "csrf", "gate", "offline", "call"} : n[k] = m[k]
           /\ n.flight.stage = m.flight.stage /\ n.flight.r = f[m.flight.r] /\ n.flight.reply = m.flight.reply
           /\ n.bye.stage = m.bye.stage /\ n.bye.r = f[m.bye.r] /\ n.bye.reply = m.bye.reply
           /\ n.bye.match = m.bye.match
           /\ n.flight = NoFlight <=> m.flight = NoFlight
<1> DEFINE g == [m.flight EXCEPT !.r = f[@]]
           b == [m.bye EXCEPT !.r = f[@]]
           n == [m EXCEPT !.flight.r = f[@], !.bye.r = f[@]]
<1>1. g \in Flights /\ g.stage = m.flight.stage /\ g.r = f[m.flight.r] /\ g.reply = m.flight.reply
  BY DEF Good, Loose, Memories, Flights
<1>2. b \in Flights /\ b.stage = m.bye.stage /\ b.r = f[m.bye.r] /\ b.reply = m.bye.reply /\ b.match = m.bye.match
  BY DEF Good, Loose, Memories, Flights
<1>3. g = NoFlight <=> m.flight = NoFlight
  <2>1. g = NoFlight => m.flight = NoFlight
    BY <1>1 DEF NoFlight, Good, Loose, Flown
  <2>2. m.flight = NoFlight => g = NoFlight
    BY DEF NoFlight
  <2> QED BY <2>1, <2>2
<1>4. b = NoFlight <=> m.bye = NoFlight
  <2>1. b = NoFlight => m.bye = NoFlight
    BY <1>2 DEF NoFlight, Good, Loose, Flown
  <2>2. m.bye = NoFlight => b = NoFlight
    BY DEF NoFlight
  <2> QED BY <2>1, <2>2
<1>5. n = [[m EXCEPT !.flight = g] EXCEPT !.bye = b]
  BY DEF Good, Loose, Memories
<1>6. m.flight.r \in Roles /\ m.bye.r \in Roles
  BY DEF Good, Loose, Memories, Flights
<1> HIDE DEF g, b, n
<1>7. /\ n \in Memories /\ n.flight = g /\ n.bye = b
      /\ n.page = m.page /\ n.access = m.access /\ n.csrf = m.csrf /\ n.gate = m.gate /\ n.offline = m.offline /\ n.call = m.call
  BY <1>1, <1>2, <1>5 DEF Good, Loose, Memories
<1>8. Flown(n)
  BY <1>1, <1>2, <1>3, <1>4, <1>6, <1>7 DEF Flown, Good, Loose
<1>9. Alone => Unshared(n)
  BY <1>2, <1>7 DEF Unshared, Good, Loose
<1>10. Alone /\ ~MayLose /\ (\A x \in Roles : f[x] = "prev" => x = "prev") => Punctual(n, f[r])
  BY <1>1, <1>6, <1>7 DEF Punctual, Good, Loose
<1>11. Awaited(n) /\ Gated(n)
  BY <1>3, <1>7 DEF Awaited, Gated, Good
<1>12. Steady(n) /\ ((Alone /\ ~MayLose => \A x \in Roles : f[x] = "prev" => x = "prev") => Good(n, f[r]))
  BY <1>7, <1>8, <1>9, <1>10, <1>11 DEF Good, Loose, Steady
<1> SUFFICES /\ Steady(n)
             /\ (Alone /\ ~MayLose => \A x \in Roles : f[x] = "prev" => x = "prev") => Good(n, f[r])
             /\ \A k \in {"page", "access", "csrf", "gate", "offline", "call"} : n[k] = m[k]
             /\ n.flight.stage = m.flight.stage /\ n.flight.r = f[m.flight.r] /\ n.flight.reply = m.flight.reply
             /\ n.bye.stage = m.bye.stage /\ n.bye.r = f[m.bye.r] /\ n.bye.reply = m.bye.reply
             /\ n.bye.match = m.bye.match
             /\ n.flight = NoFlight <=> m.flight = NoFlight
  BY DEF n
<1> QED BY <1>1, <1>2, <1>3, <1>7, <1>12

Rotates == {Rotated, Ended, LeftBehind, RolesNow, [RolesNow EXCEPT !["old"] = "dead"]}
LEMMA RolesChange ==
    /\ \A f \in Rotates : f \in [Roles -> Roles] /\ f["none"] = "none" /\ \A x \in Roles : Live(f[x]) => Live(x)
    /\ \A f \in Rotates \ {Rotated} : \A x \in Roles : f[x] = "prev" => x = "prev"
    /\ \A x \in Roles : x # "none" /\ Live(x) => ~Live(Ended[x]) \/ x = "old"
    /\ \A x \in Roles : Ended[x] # "none" => x # "none"
    /\ Rotated["cur"] = "prev" /\ \A x \in Roles : Rotated[x] = "prev" <=> x = "cur"
BY DEF Rotates, Rotated, Ended, LeftBehind, RolesNow, Roles, Live

\* The answer of a request with which the browser does nothing yet.
LEMMA AnsweredGood ==
    ASSUME NEW m, NEW r, Steady(m), m.flight.stage # "none",
           NEW what \in {"over", "refused", "reuse", "lost", "ok"}, NEW x \in Roles,
           what = "ok" => x # "prev",
           Alone /\ ~MayLose => what # "reuse" /\ (r = "prev" => what = "ok")
    PROVE  Good([m EXCEPT !.flight.stage = "answered", !.flight.reply = what, !.flight.r = x], r)
<1> DEFINE f == [m.flight EXCEPT !.stage = "answered", !.reply = what, !.r = x]
           n == [m EXCEPT !.flight.stage = "answered", !.flight.reply = what, !.flight.r = x]
<1>1. f \in Flights /\ f.stage = "answered" /\ f.reply = what /\ f.r = x
  BY DEF Steady, Memories, Flights
<1>2. n = [m EXCEPT !.flight = f]
  BY DEF Steady, Memories
<1> SUFFICES Good(n, r)
  OBVIOUS
<1> HIDE DEF f, n
<1>3. n \in Memories /\ n.flight = f /\ n.bye = m.bye /\ n.page = m.page /\ n.csrf = m.csrf /\ n.gate = m.gate /\ n.call = m.call
  BY <1>1, <1>2 DEF Steady, Memories
<1>4. f # NoFlight
  BY <1>1 DEF NoFlight
<1>5. Flown(n)
  BY <1>1, <1>3, <1>4 DEF Flown, Steady
<1>6. Alone => Unshared(n)
  BY <1>3 DEF Unshared, Steady
<1>7. Alone /\ ~MayLose => Punctual(n, r)
  BY <1>1, <1>3 DEF Punctual
<1>8. Awaited(n) /\ Gated(n)
  BY <1>3, <1>4 DEF Awaited, Gated, Steady
<1> QED BY <1>3, <1>5, <1>6, <1>7, <1>8 DEF Good, Loose

LEMMA ByeGood ==
    ASSUME NEW m, NEW r, Good(m, r), m.bye.stage # "none",
           NEW what \in {"refused", "lost", "ended"},
           what = "ended" => ~Live(m.bye.r), Alone => what # "refused"
    PROVE  Good([m EXCEPT !.bye.stage = "answered", !.bye.reply = what], r)
<1> DEFINE f == [m.bye EXCEPT !.stage = "answered", !.reply = what]
           n == [m EXCEPT !.bye.stage = "answered", !.bye.reply = what]
<1>1. f \in Flights /\ f.stage = "answered" /\ f.reply = what /\ f.r = m.bye.r
  BY DEF Good, Loose, Memories, Flights
<1>2. n = [m EXCEPT !.bye = f]
  BY DEF Good, Loose, Memories
<1> SUFFICES Good(n, r)
  OBVIOUS
<1> HIDE DEF f, n
<1>3. n \in Memories /\ n.flight = m.flight /\ n.bye = f /\ n.page = m.page /\ n.csrf = m.csrf /\ n.gate = m.gate /\ n.call = m.call
  BY <1>1, <1>2 DEF Good, Loose, Memories
<1>4. f # NoFlight
  BY <1>1 DEF NoFlight
<1>5. Flown(n)
  BY <1>1, <1>3, <1>4 DEF Flown, Good, Loose
<1>6. Alone => Unshared(n)
  BY <1>1, <1>3 DEF Unshared, Good, Loose
<1>7. Alone /\ ~MayLose => Punctual(n, r)
  BY <1>3 DEF Punctual, Good, Loose
<1>8. Awaited(n) /\ Gated(n)
  BY <1>3, <1>4 DEF Awaited, Gated, Good
<1> QED BY <1>3, <1>5, <1>6, <1>7, <1>8 DEF Good, Loose

\* With other tabs beside it, a tab's memory is as good with any cookie.
LEMMA GoodAnyRole ==
    ASSUME NEW m, NEW r, Good(m, r), ~Alone, NEW x
    PROVE  Good(m, x)
BY DEF Good, Loose

LEMMA MovedGood ==
    ASSUME NEW m, NEW r, Good(m, r), ~Alone, NEW x
    PROVE  Good([m EXCEPT !.csrf = "stale"], x)
<1> DEFINE n == [m EXCEPT !.csrf = "stale"]
<1>1. n \in Memories /\ n.flight = m.flight /\ n.bye = m.bye /\ n.page = m.page /\ n.gate = m.gate /\ n.call = m.call
  BY DEF Good, Loose, Memories
<1> HIDE DEF n
<1>2. Loose(n, x)
  BY <1>1 DEF Good, Loose, Flown
<1>3. Good(n, x)
  BY <1>1, <1>2 DEF Good, Awaited, Gated
<1> QED BY <1>3 DEF n

\* The tabs after the CSRF cookie moved, with the one that moved it.
LEMMA MovedInv ==
    ASSUME NEW tb, DOMAIN tb = Tabs, NEW t \in Tabs, NEW r, NEW x,
           Good(tb[t], x), \A u \in Tabs : u # t => Good(tb[u], r),
           tab' = CsrfMoves(tb, t), jar' \in [r : Roles, c : BOOLEAN], jar'.r = x, x # "none" => jar'.c, grace' \in BOOLEAN
    PROVE  IInv'
<1>1. DOMAIN tab' = Tabs /\ tab' = [u \in Tabs |-> tab'[u]]
  BY DEF CsrfMoves
<1>2. JarOK'
  BY DEF JarOK
<1>3. ASSUME NEW u \in Tabs
      PROVE  Good(tab'[u], x)
  <2>1. CASE u = t
    <3>1. tab'[u] = tb[t]
      BY <2>1 DEF CsrfMoves
    <3> QED BY <3>1
  <2>2. CASE u # t
    <3>1. ~Alone
      BY <2>2 DEF Alone
    <3>2. tab'[u] = tb[u] \/ tab'[u] = [tb[u] EXCEPT !.csrf = "stale"]
      BY DEF CsrfMoves
    <3>3. Good(tb[u], x) /\ Good([tb[u] EXCEPT !.csrf = "stale"], x)
      BY <2>2, <3>1, GoodAnyRole, MovedGood
    <3> QED BY <3>2, <3>3
  <2> QED BY <2>1, <2>2
<1>4. \A u \in Tabs : Good(tab'[u], jar'.r)
  BY <1>3
<1> QED BY <1>1, <1>2, <1>4 DEF IInv

\* The tabs after the roles of the tokens changed.
LEMMA RenamedTabs ==
    ASSUME IInv, NEW f \in Rotates
    PROVE  /\ DOMAIN Renamed(tab, f) = Tabs
           /\ \A u \in Tabs : LET m == tab[u]
                                n == Renamed(tab, f)[u] IN
                 /\ Steady(n) /\ ((Alone /\ ~MayLose => f # Rotated) => Good(n, f[jar.r]))
                 /\ \A k \in {"page", "access", "csrf", "gate", "offline", "call"} : n[k] = m[k]
                 /\ n.flight.stage = m.flight.stage /\ n.flight.r = f[m.flight.r] /\ n.flight.reply = m.flight.reply
                 /\ n.bye.stage = m.bye.stage /\ n.bye.r = f[m.bye.r] /\ n.bye.reply = m.bye.reply
                 /\ n.bye.match = m.bye.match
                 /\ n.flight = NoFlight <=> m.flight = NoFlight
<1>1. /\ f \in [Roles -> Roles] /\ f["none"] = "none" /\ (\A x \in Roles : Live(f[x]) => Live(x))
      /\ (f # Rotated => \A x \in Roles : f[x] = "prev" => x = "prev")
  BY RolesChange
<1>2. jar.r \in Roles /\ \A u \in Tabs : Good(tab[u], jar.r)
  BY DEF IInv, JarOK
<1>3. \A u \in Tabs : Renamed(tab, f)[u] = [tab[u] EXCEPT !.flight.r = f[@], !.bye.r = f[@]]
  BY DEF Renamed
<1> SUFFICES ASSUME NEW u \in Tabs
             PROVE LET m == tab[u]
                       n == Renamed(tab, f)[u] IN
                 /\ Steady(n) /\ ((Alone /\ ~MayLose => f # Rotated) => Good(n, f[jar.r]))
                 /\ \A k \in {"page", "access", "csrf", "gate", "offline", "call"} : n[k] = m[k]
                 /\ n.flight.stage = m.flight.stage /\ n.flight.r = f[m.flight.r] /\ n.flight.reply = m.flight.reply
                 /\ n.bye.stage = m.bye.stage /\ n.bye.r = f[m.bye.r] /\ n.bye.reply = m.bye.reply
                 /\ n.bye.match = m.bye.match
                 /\ n.flight = NoFlight <=> m.flight = NoFlight
  BY DEF Renamed
<1> DEFINE m == tab[u]
           r == jar.r
           n == [m EXCEPT !.flight.r = f[@], !.bye.r = f[@]]
<1>4. Good(m, r) /\ r \in Roles
  BY <1>2
<1>5. /\ Steady(n) /\ ((Alone /\ ~MayLose => f # Rotated) => Good(n, f[r]))
      /\ \A k \in {"page", "access", "csrf", "gate", "offline", "call"} : n[k] = m[k]
      /\ n.flight.stage = m.flight.stage /\ n.flight.r = f[m.flight.r] /\ n.flight.reply = m.flight.reply
      /\ n.bye.stage = m.bye.stage /\ n.bye.r = f[m.bye.r] /\ n.bye.reply = m.bye.reply
      /\ n.bye.match = m.bye.match
      /\ n.flight = NoFlight <=> m.flight = NoFlight
  <2> HIDE DEF m, r
  <2> QED BY <1>1, <1>4, RenamedGood
<1> QED BY <1>3, <1>5

LEMMA TabsInv ==
    ASSUME NEW tb, DOMAIN tb = Tabs, NEW t \in Tabs, NEW n, NEW x,
           Good(n, x), \A u \in Tabs : u # t => Good(tb[u], x),
           tab' = [tb EXCEPT ![t] = n], jar' = [jar EXCEPT !.r = x], JarOK, x \in Roles, x # "none" => jar.c, grace' \in BOOLEAN
    PROVE  IInv'
<1>1. DOMAIN tab' = Tabs /\ tab' = [u \in Tabs |-> tab'[u]]
  OBVIOUS
<1>2. jar' \in [r : Roles, c : BOOLEAN] /\ jar'.r = x /\ jar'.c = jar.c
  BY DEF JarOK
<1>3. JarOK'
  BY <1>2 DEF JarOK
<1>4. \A u \in Tabs : Good(tab'[u], x)
  OBVIOUS
<1>5. \A u \in Tabs : Good(tab'[u], jar'.r)
  BY <1>2, <1>4
<1> QED BY <1>1, <1>3, <1>5 DEF IInv

-----------------------------------------------------------------------------
-----------------------------------------------------------------------------
(* The refresh: the server handles it, the network fails, the tab learns.  *)

LEMMA ServerRefreshKeeps ==
    ASSUME IInv, NEW t \in Tabs, ServerRefresh(t)
    PROVE  IInv'
<1> DEFINE m == tab[t]
           f == tab[t].flight
           Put(tb, what, r) == [tb EXCEPT ![t].flight.stage = "answered",
                                          ![t].flight.reply = what, ![t].flight.r = r]
           Answer(p, what, r) == [p EXCEPT !.flight.stage = "answered", !.flight.reply = what, !.flight.r = r]
<1>1. Good(m, jar.r) /\ Steady(m) /\ f.r \in Roles /\ f.stage = "sent" /\ jar.r \in Roles
  BY DEF IInv, JarOK, Good, Loose, Memories, Flights, ServerRefresh, Steady
<1>2. Alone /\ ~MayLose => jar.r # "prev" /\ f.r # "prev"
  BY <1>1 DEF Good, Loose, Punctual
<1>3. "cur" \in Roles /\ "dead" \in Roles
  BY DEF Roles
<1>4. CASE UNCHANGED <<jar, grace>> /\ \E what \in {"refused", "over"} : tab' = Put(tab, what, f.r)
  <2>1. PICK what \in {"refused", "over"} : tab' = Put(tab, what, f.r)
    BY <1>4
  <2>2. Good(Answer(m, what, f.r), jar.r)
    BY <1>1, <1>2, AnsweredGood
  <2>3. tab' = [tab EXCEPT ![t] = Answer(m, what, f.r)]
    BY <2>1 DEF IInv
  <2> HIDE DEF Answer, Put
  <2> QED BY <1>4, <2>2, <2>3, OneTab DEF IInv
<1>5. CASE UNCHANGED <<jar, grace>> /\ tab' = Put(tab, "ok", "cur")
  <2>1. Good(Answer(m, "ok", "cur"), jar.r)
    BY <1>1, <1>3, AnsweredGood
  <2>2. tab' = [tab EXCEPT ![t] = Answer(m, "ok", "cur")]
    BY <1>5 DEF IInv
  <2> HIDE DEF Answer, Put
  <2> QED BY <1>5, <2>1, <2>2, OneTab DEF IInv
<1>6. CASE /\ f.r = "cur" /\ tab' = Put(Renamed(tab, Rotated), "ok", "cur")
           /\ jar' = [jar EXCEPT !.r = Rotated[@]] /\ grace' = TRUE
  <2> DEFINE tb == Renamed(tab, Rotated)
             r == Rotated[jar.r]
             n == tb[t]
  <2>1. /\ DOMAIN tb = Tabs /\ Steady(n) /\ n.flight.stage = "sent"
        /\ \A u \in Tabs : (~Alone => Good(tb[u], r))
    BY <1>1, RenamedTabs DEF Rotates
  <2>2. r \in Roles /\ (r # "none" => jar.c)
    <3>1. Rotated \in [Roles -> Roles] /\ Rotated["none"] = "none"
      BY RolesChange DEF Rotates
    <3> QED BY <1>1, <3>1 DEF IInv, JarOK
  <2>3. \A u \in Tabs : u # t => Good(tb[u], r)
    BY <2>1 DEF Alone
  <2> HIDE DEF tb
  <2>4. tab' = [tb EXCEPT ![t] = Answer(n, "ok", "cur")]
    BY <1>6, <2>1 DEF tb
  <2>5. jar' = [jar EXCEPT !.r = r]
    BY <1>6 DEF IInv, JarOK
  <2> HIDE DEF r
  <2>6. Good(Answer(n, "ok", "cur"), r)
    <3> HIDE DEF n
    <3> QED BY <1>3, <2>1, AnsweredGood
  <2> HIDE DEF Answer, Put, n
  <2> QED BY <1>6, <2>1, <2>2, <2>3, <2>4, <2>5, <2>6, TabsInv DEF IInv
<1>7. CASE /\ f.r = "prev" /\ tab' = Put(Renamed(tab, Ended), "reuse", "dead")
           /\ jar' = [jar EXCEPT !.r = Ended[@]] /\ UNCHANGED grace
  <2> DEFINE tb == Renamed(tab, Ended)
             r == Ended[jar.r]
             n == tb[t]
  <2>1. Ended # Rotated
    BY DEF Ended, Rotated, RolesNow, Roles
  <2>2. /\ DOMAIN tb = Tabs /\ Steady(n) /\ n.flight.stage = "sent"
        /\ \A u \in Tabs : Good(tb[u], r)
    BY <1>1, <2>1, RenamedTabs DEF Rotates
  <2>3. r \in Roles /\ (r # "none" => jar.c)
    <3>1. Ended \in [Roles -> Roles] /\ Ended["none"] = "none"
      BY RolesChange DEF Rotates
    <3> QED BY <1>1, <3>1 DEF IInv, JarOK
  <2> HIDE DEF tb
  <2>4. tab' = [tb EXCEPT ![t] = Answer(n, "reuse", "dead")]
    BY <1>7, <2>2 DEF tb
  <2>5. jar' = [jar EXCEPT !.r = r]
    BY <1>7 DEF IInv, JarOK
  <2> HIDE DEF r
  <2>6. Good(Answer(n, "reuse", "dead"), r)
    <3>1. ~(Alone /\ ~MayLose)
      BY <1>2, <1>7
    <3> HIDE DEF n
    <3> QED BY <1>3, <2>2, <3>1, AnsweredGood
  <2>7. grace' \in BOOLEAN /\ JarOK
    BY <1>7 DEF IInv
  <2> DEFINE a == Answer(n, "reuse", "dead")
  <2> HIDE DEF a, Answer, Put, n
  <2>8. Good(a, r) /\ tab' = [tb EXCEPT ![t] = a]
    BY <2>4, <2>6 DEF a
  <2> QED BY <2>2, <2>3, <2>5, <2>7, <2>8, TabsInv
<1> QED BY <1>4, <1>5, <1>6, <1>7 DEF ServerRefresh

LEMMA NetworkFailsKeeps ==
    ASSUME IInv, NEW t \in Tabs, NetworkFails(t)
    PROVE  IInv'
<1> DEFINE m == tab[t]
           g == [m EXCEPT !.flight.stage = "answered", !.flight.reply = "lost", !.flight.r = m.flight.r]
           b == [m EXCEPT !.bye.stage = "answered", !.bye.reply = "lost"]
<1>1. Good(m, jar.r) /\ Steady(m) /\ m.flight.r \in Roles
  BY DEF IInv, JarOK, Good, Loose, Memories, Flights, Steady
<1>2. UNCHANGED <<jar, grace>>
  BY DEF NetworkFails
<1>3. PICK field \in {"flight", "bye"} :
        /\ m[field].stage = "sent" \/ (MayLose /\ m[field].stage = "answered")
        /\ tab' = [tab EXCEPT ![t][field].stage = "answered", ![t][field].reply = "lost"]
  BY DEF NetworkFails
<1>4. CASE field = "flight"
  <2>1. m.flight.stage = "sent" \/ MayLose
    BY <1>3, <1>4
  <2>2. Alone /\ ~MayLose => jar.r # "prev"
    BY <1>1, <2>1 DEF Good, Loose, Punctual
  <2>3. m.flight.stage # "none"
    BY <1>3, <1>4
  <2>4. Good(g, jar.r)
    <3> HIDE DEF m
    <3> QED BY <1>1, <2>2, <2>3, AnsweredGood
  <2>5. g = [m EXCEPT !.flight.stage = "answered", !.flight.reply = "lost"]
    BY <1>1 DEF Steady, Memories, Flights
  <2>6. tab' = [tab EXCEPT ![t] = g]
    BY <1>3, <1>4, <2>5 DEF IInv
  <2> HIDE DEF g
  <2> QED BY <1>2, <2>4, <2>6, OneTab DEF IInv
<1>5. CASE field = "bye"
  <2>1. m.bye.stage # "none"
    BY <1>3, <1>5
  <2>2. Good(b, jar.r)
    <3> HIDE DEF m
    <3> QED BY <1>1, <2>1, ByeGood
  <2>3. tab' = [tab EXCEPT ![t] = b]
    BY <1>3, <1>5 DEF IInv
  <2> HIDE DEF b
  <2> QED BY <1>2, <2>2, <2>3, OneTab DEF IInv
<1> QED BY <1>4, <1>5

\* The refresh is over, and whoever awaited it has not resumed yet.
LEMMA KeptSteady ==
    ASSUME IInv, NEW t \in Tabs, tab[t].flight.stage = "answered", NEW r,
           Alone /\ ~MayLose => r # "prev"
    PROVE  LET m == tab[t]
               n == [Kept(m, m.flight.reply) EXCEPT !.flight = NoFlight] IN
           /\ Loose(n, r) /\ n.flight = NoFlight
           /\ n.call = m.call /\ n.gate = m.gate /\ n.page = m.page
           /\ m.flight.reply = "ok" => n.access = "fresh"
           /\ m.flight.reply \in {"over", "reuse", "refused"} => n.access = "none"
<1> DEFINE m == tab[t]
           k == Kept(m, m.flight.reply)
           n == [k EXCEPT !.flight = NoFlight]
<1>1. Good(m, jar.r) /\ m \in Memories
  BY DEF IInv, Good, Loose
<1> SUFFICES /\ Loose(n, r) /\ n.flight = NoFlight
             /\ n.call = m.call /\ n.gate = m.gate /\ n.page = m.page
             /\ m.flight.reply = "ok" => n.access = "fresh"
             /\ m.flight.reply \in {"over", "reuse", "refused"} => n.access = "none"
  OBVIOUS
<1> HIDE DEF m
<1>2. /\ k \in Memories /\ k.call = m.call /\ k.gate = m.gate /\ k.page = m.page /\ k.bye = m.bye
      /\ k.csrf \in {"none", "same", m.csrf}
      /\ m.flight.reply = "ok" => k.access = "fresh"
      /\ m.flight.reply \in {"over", "reuse", "refused"} => k.access = "none"
  BY <1>1 DEF Kept, SignedIn, Cleared, Memories
<1> HIDE DEF k
<1>3. NoFlight \in Flights
  BY DEF NoFlight, Flights, Roles
<1>4. /\ n \in Memories /\ n.flight = NoFlight /\ n.call = k.call /\ n.gate = k.gate /\ n.page = k.page
      /\ n.bye = k.bye /\ n.csrf = k.csrf /\ n.access = k.access
  BY <1>2, <1>3 DEF Memories
<1> HIDE DEF n
<1>5. Flown(n)
  BY <1>1, <1>2, <1>4 DEF Flown, Good, Loose, NoFlight
<1>6. Alone => Unshared(n)
  BY <1>1, <1>2, <1>4 DEF Unshared, Good, Loose
<1>7. Alone /\ ~MayLose => Punctual(n, r)
  BY <1>4 DEF Punctual, NoFlight
<1> QED BY <1>2, <1>4, <1>5, <1>6, <1>7 DEF Loose

\* The gate resumes: to the login page, or to ask who this is.
LEMMA GateResumesLoose ==
    ASSUME NEW m, NEW r, Loose(m, r), m.flight = NoFlight,
           m.page = "login" <=> m.gate = "off",
           m.call.kind = "me" <=> m.gate = "verifying",
           m.call.stage = "idle" <=> m.call.kind = "none"
    PROVE  LET g == GateResumes(m) IN
           /\ Loose(g, r) /\ g.flight = NoFlight /\ g.access = m.access
           /\ g.page = "login" <=> g.gate = "off"
           /\ g.gate # "checking"
           /\ g.call.kind = "me" <=> g.gate = "verifying"
           /\ g.call.stage = "idle" <=> g.call.kind = "none"
<1> DEFINE g == GateResumes(m)
           u == Unlistened(m)
<1> SUFFICES /\ Loose(g, r) /\ g.flight = NoFlight /\ g.access = m.access
             /\ g.page = "login" <=> g.gate = "off"
             /\ g.gate # "checking"
             /\ g.call.kind = "me" <=> g.gate = "verifying"
             /\ g.call.stage = "idle" <=> g.call.kind = "none"
  OBVIOUS
<1>1. /\ Loose(u, r) /\ u.call.kind # "me"
      /\ u.call.stage = m.call.stage /\ (u.call.kind = "none" <=> m.call.kind = "none")
      /\ u.access = m.access /\ u.flight = m.flight
  BY UnlistenedLoose
<1>2. CASE m.gate # "checking"
  <2>1. g = m
    BY <1>2 DEF GateResumes
  <2> QED BY <1>2, <2>1
<1>3. CASE m.gate = "checking" /\ \E x \in {"verify", "offline"} : g = [m EXCEPT !.gate = x]
  <2>1. PICK x \in {"verify", "offline"} : g = [m EXCEPT !.gate = x]
    BY <1>3
  <2> HIDE DEF g
  <2>2. /\ g \in Memories /\ g.flight = m.flight /\ g.bye = m.bye /\ g.csrf = m.csrf /\ g.call = m.call
        /\ g.page = m.page /\ g.gate = x /\ g.access = m.access
    BY <2>1 DEF Loose, Memories
  <2>3. Loose(g, r)
    BY <2>2, LooseKept
  <2> QED BY <1>3, <2>2, <2>3
<1>4. CASE m.gate = "checking" /\ g = ToLogin(m)
  <2>1. g = [u EXCEPT !.page = "login", !.gate = "off"]
    BY <1>4 DEF ToLogin
  <2> HIDE DEF g, u
  <2>2. /\ g \in Memories /\ g.flight = u.flight /\ g.bye = u.bye /\ g.csrf = u.csrf /\ g.call = u.call
        /\ g.page = "login" /\ g.gate = "off" /\ g.access = u.access
    BY <1>1, <2>1 DEF Loose, Memories
  <2>3. Loose(g, r)
    BY <1>1, <2>2, LooseKept
  <2> QED BY <1>1, <2>2, <2>3
<1> QED BY <1>2, <1>3, <1>4 DEF GateResumes

LEMMA RejectedGood ==
    ASSUME NEW m, NEW r, Loose(m, r),
           m.page = "login" <=> m.gate = "off",
           m.gate = "checking" => m.flight # NoFlight,
           m.call.kind = "me" <=> m.gate = "verifying"
    PROVE  Good(Rejected(m), r)
<1> DEFINE k == Cleared(m)
           e == [k EXCEPT !.call = NoCall]
<1>1. /\ k \in Memories /\ k.csrf = "none" /\ k.flight = m.flight /\ k.bye = m.bye /\ k.gate = m.gate
      /\ k.page = m.page /\ k.call = m.call
  BY DEF Cleared, Loose, Memories
<1>2. NoCall \in Calls /\ NoCall.kind = "none" /\ NoCall.stage = "idle"
  BY DEF NoCall, Calls
<1>3. Rejected(m) = IF m.call.kind = "me" THEN ToLogin(e) ELSE e
  BY DEF Rejected
<1> HIDE DEF k
<1>4. /\ e \in Memories /\ e.csrf = "none" /\ e.flight = m.flight /\ e.bye = m.bye /\ e.gate = m.gate
      /\ e.page = m.page /\ e.call = NoCall
  BY <1>1, <1>2 DEF Memories
<1> HIDE DEF e
<1>5. Loose(e, r) /\ Awaited(e)
  BY <1>2, <1>4, LooseKept DEF Awaited
<1>6. m.call.kind = "me" => Good(ToLogin(e), r)
  BY <1>5, ToLoginGood
<1>7. m.call.kind # "me" => Good(e, r)
  BY <1>2, <1>4, <1>5 DEF Good, Gated
<1> QED BY <1>3, <1>6, <1>7

LEMMA CallResumesGood ==
    ASSUME JarOK, NEW g, NEW r, Loose(g, r), g.flight = NoFlight,
           g.access \notin {"none", "fresh"} => r = jar.r /\ (Alone /\ ~MayLose => r # "prev"),
           g.page = "login" <=> g.gate = "off",
           g.gate # "checking",
           g.call.kind = "me" <=> g.gate = "verifying",
           g.call.stage = "idle" <=> g.call.kind = "none"
    PROVE  Good(CallResumes(g), r)
<1>0. g \in Memories /\ g.call \in Calls
  BY DEF Loose, Memories
<1>1. CASE g.call.stage = "waiting"
  <2> DEFINE c == [g.call EXCEPT !.stage = "sent", !.auth = g.access # "none"]
             n == CallResumes(g)
  <2>1. c \in Calls /\ c.kind = g.call.kind /\ c.stage = "sent"
    BY <1>0 DEF Calls
  <2>2. n = [g EXCEPT !.call = c]
    BY <1>0, <1>1 DEF CallResumes, Memories, Calls
  <2> SUFFICES Good(n, r)
    OBVIOUS
  <2> HIDE DEF c, n
  <2>3. /\ n \in Memories /\ n.call = c /\ n.flight = g.flight /\ n.bye = g.bye /\ n.csrf = g.csrf /\ n.gate = g.gate
        /\ n.page = g.page
    BY <1>0, <2>1, <2>2 DEF Memories
  <2>4. Loose(n, r)
    BY <2>3, LooseKept
  <2> QED BY <1>1, <2>1, <2>3, <2>4 DEF Good, Awaited, Gated
<1>2. CASE g.call.stage = "again" /\ g.access # "none"
  <2>1. CallResumes(g) = Ask(g, g.call.kind, 1)
    BY <1>2 DEF CallResumes
  <2>2. g.call.kind \in {"data", "me", "login"}
    BY <1>0, <1>2 DEF Calls
  <2> QED BY <1>2, <2>1, <2>2, AskGood
<1>3. CASE g.call.stage = "again" /\ g.access = "none"
  <2>1. CallResumes(g) = Rejected(g)
    BY <1>3 DEF CallResumes
  <2> QED BY <2>1, RejectedGood
<1>4. CASE g.call.stage \in {"idle", "sent"}
  <2>1. CallResumes(g) = g
    BY <1>4 DEF CallResumes
  <2> QED BY <1>4, <2>1 DEF Good, Awaited, Gated
<1> QED BY <1>0, <1>1, <1>2, <1>3, <1>4 DEF Calls

LEMMA RefreshReturnsKeeps ==
    ASSUME IInv, NEW t \in Tabs, RefreshReturns(t)
    PROVE  IInv'
<1> DEFINE m == tab[t]
           after == [Kept(m, m.flight.reply) EXCEPT !.flight = NoFlight]
           g == GateResumes(after)
           n == CallResumes(g)
           r == jar'.r
<1>1. Good(m, jar.r) /\ m.flight.stage = "answered" /\ m.flight \in Flights /\ JarOK
  BY DEF IInv, Good, Loose, Memories, RefreshReturns
<1>2. /\ JarOK' /\ grace' \in BOOLEAN
      /\ (m.flight.reply = "lost" => jar' = jar)
      /\ (m.flight.reply # "ok" /\ jar' # jar => r = "none")
      /\ (m.flight.reply = "ok" => r = m.flight.r)
  <2>1. CASE m.flight.reply = "ok"
    <3>1. jar' = [r |-> m.flight.r, c |-> TRUE] /\ grace' = grace
      BY <2>1 DEF RefreshReturns
    <3> QED BY <1>1, <2>1, <3>1 DEF JarOK, Flights, IInv
  <2>2. CASE m.flight.reply \in {"over", "reuse"}
    <3>1. jar' = [r |-> "none", c |-> FALSE] /\ grace' = grace
      BY <2>2 DEF RefreshReturns
    <3> QED BY <2>2, <3>1 DEF JarOK, Roles, IInv
  <2>3. CASE m.flight.reply \notin {"ok", "over", "reuse"}
    <3>1. jar' = jar /\ grace' = grace
      BY <2>3 DEF RefreshReturns
    <3> QED BY <2>3, <3>1 DEF JarOK, IInv
  <2> QED BY <2>1, <2>2, <2>3
<1>3. Alone /\ ~MayLose => r # "prev"
  BY <1>1, <1>2 DEF Good, Loose, Punctual
<1>4. /\ Loose(after, r) /\ after.flight = NoFlight
      /\ after.call = m.call /\ after.gate = m.gate /\ after.page = m.page
      /\ m.flight.reply = "ok" => after.access = "fresh"
      /\ m.flight.reply \in {"over", "reuse", "refused"} => after.access = "none"
  BY <1>1, <1>3, KeptSteady
<1> HIDE DEF after
<1>5. /\ Loose(g, r) /\ g.flight = NoFlight /\ g.access = after.access
      /\ g.page = "login" <=> g.gate = "off"
      /\ g.gate # "checking"
      /\ g.call.kind = "me" <=> g.gate = "verifying"
      /\ g.call.stage = "idle" <=> g.call.kind = "none"
  <2>1. /\ after.page = "login" <=> after.gate = "off"
        /\ after.call.kind = "me" <=> after.gate = "verifying"
        /\ after.call.stage = "idle" <=> after.call.kind = "none"
    BY <1>1, <1>4 DEF Good, Gated, Awaited
  <2> QED BY <1>4, <2>1, GateResumesLoose
<1> HIDE DEF g
<1>6. g.access \notin {"none", "fresh"} => r = jar.r /\ (Alone /\ ~MayLose => r # "prev")
  <2>1. m.flight.reply \in {"none", "ok", "over", "refused", "reuse", "lost", "ended"}
    BY <1>1 DEF Flights
  <2>2. m.flight.reply \in {"none", "ended"} => jar' = jar
    BY DEF RefreshReturns
  <2> QED BY <1>2, <1>3, <1>4, <1>5, <2>1, <2>2
<1>7. Good(n, r)
  BY <1>1, <1>5, <1>6, CallResumesGood
<1> DEFINE now == [tab EXCEPT ![t] = n]
<1>8. DOMAIN now = Tabs /\ now[t] = n /\ \A u \in Tabs : u # t => now[u] = tab[u]
  BY DEF IInv
<1>9. CASE m.flight.reply \in {"ok", "over", "reuse"}
  <2>1. tab' = CsrfMoves(now, t)
    BY <1>9 DEF RefreshReturns, after, g
  <2> HIDE DEF now, n
  <2>2. jar' \in [r : Roles, c : BOOLEAN] /\ (r # "none" => jar'.c)
    BY <1>2 DEF JarOK
  <2>3. Good(now[t], r) /\ \A u \in Tabs : u # t => Good(now[u], jar.r)
    BY <1>7, <1>8 DEF IInv
  <2> QED BY <1>2, <1>8, <2>1, <2>2, <2>3, MovedInv
<1>10. CASE m.flight.reply \notin {"ok", "over", "reuse"}
  <2>1. tab' = now /\ UNCHANGED jar
    BY <1>10 DEF RefreshReturns, after, g
  <2> HIDE DEF n
  <2> QED BY <1>2, <1>7, <2>1, OneTab
<1> QED BY <1>9, <1>10

\* What a tab does by itself, with its memory.
LEMMA TabActs ==
    ASSUME IInv, NEW t \in Tabs,
           AskData(t) \/ Verify(t) \/ SubmitLogin(t) \/ Navigate(t) \/ Reload(t) \/ RetryBoot(t)
    PROVE  IInv'
<1> DEFINE m == tab[t]
           r == jar.r
<1>1. Good(m, r) /\ m \in Memories /\ JarOK /\ grace \in BOOLEAN
  BY DEF IInv, Good, Loose
<1>2. m.flight = NoFlight => (Alone /\ ~MayLose => r # "prev")
  BY <1>1 DEF Good, Loose, Punctual, NoFlight
<1>3. m.call.stage = "idle" => m.call.kind = "none"
  BY <1>1 DEF Good, Awaited
<1>4. CASE AskData(t) \/ SubmitLogin(t)
  <2>1. PICK kind \in {"data", "login"} : tab' = [tab EXCEPT ![t] = Ask(m, kind, 0)]
    BY <1>4 DEF AskData, SubmitLogin
  <2>2. m.call.stage = "idle" /\ UNCHANGED <<jar, grace>>
    BY <1>4 DEF AskData, SubmitLogin, Idle
  <2> HIDE DEF m
  <2>3. /\ Loose(m, r) /\ (m.page = "login" <=> m.gate = "off")
        /\ (m.gate = "checking" => m.flight # NoFlight)
        /\ m.gate # "verifying" /\ kind # "me" /\ kind \in {"data", "me", "login"}
    BY <1>1, <1>3, <2>2 DEF Good, Gated
  <2>4. Good(Ask(m, kind, 0), r)
    BY <1>1, <1>2, <2>3, AskGood
  <2> QED BY <1>1, <2>1, <2>2, <2>4, OneTab
<1>5. CASE Verify(t)
  <2> DEFINE v == [m EXCEPT !.gate = "verifying"]
  <2>1. tab' = [tab EXCEPT ![t] = Ask(v, "me", 0)] /\ UNCHANGED <<jar, grace>> /\ m.gate = "verify"
    BY <1>5 DEF Verify
  <2>2. /\ v \in Memories /\ v.flight = m.flight /\ v.bye = m.bye /\ v.csrf = m.csrf /\ v.page = m.page
        /\ v.gate = "verifying"
    BY <1>1 DEF Memories
  <2> HIDE DEF v, m
  <2>3. Loose(v, r) /\ (v.page = "login" <=> v.gate = "off")
    BY <1>1, <2>1, <2>2, LooseKept DEF Good, Gated
  <2>4. Good(Ask(v, "me", 0), r)
    BY <1>1, <1>2, <2>2, <2>3, AskGood
  <2> QED BY <1>1, <2>1, <2>4, OneTab
<1>6. CASE Navigate(t) \/ RetryBoot(t)
  <2>1. tab' = [tab EXCEPT ![t] = Boot(m)] /\ UNCHANGED <<jar, grace>>
    BY <1>6 DEF Navigate, RetryBoot
  <2> HIDE DEF m
  <2>2. Good(Boot(m), r)
    BY <1>1, <1>2, BootGood DEF Good
  <2> QED BY <1>1, <2>1, <2>2, OneTab
<1>7. CASE Reload(t)
  <2>1. tab' = [tab EXCEPT ![t] = Boot(Blank)] /\ UNCHANGED <<jar, grace>> /\ (MayLose \/ m.flight.stage # "answered")
    BY <1>7 DEF Reload
  <2>2. NoFlight \in Flights /\ NoCall \in Calls
    BY DEF NoFlight, Flights, Roles, NoCall, Calls
  <2>3. Blank \in Memories /\ Blank.flight = NoFlight /\ Blank.bye = NoFlight /\ Blank.call = NoCall /\ Blank.csrf = "none"
    BY <2>2 DEF Blank, Memories
  <2>4. Alone /\ ~MayLose => r # "prev"
    BY <1>1, <2>1 DEF Good, Loose, Punctual
  <2> HIDE DEF m
  <2>5. Loose(Blank, r) /\ Awaited(Blank)
    BY <2>3, <2>4 DEF Loose, Flown, Unshared, Punctual, NoFlight, Awaited, NoCall
  <2>6. Good(Boot(Blank), r)
    BY <1>1, <2>4, <2>5, BootGood
  <2> QED BY <1>1, <2>1, <2>6, OneTab
<1> QED BY <1>4, <1>5, <1>6, <1>7

\* What the answer to a request with the access token does.
-----------------------------------------------------------------------------
(* An ordinary request, and what ends a session.                           *)

LEMMA CallEnds ==
    ASSUME IInv, NEW t \in Tabs, CallSucceeds(t) \/ CallUnauthorized(t) \/ CallFails(t) \/ Age(t)
    PROVE  IInv'
<1> DEFINE m == tab[t]
           r == jar.r
<1>1. Good(m, r) /\ m \in Memories /\ JarOK /\ grace \in BOOLEAN
  BY DEF IInv, Good, Loose
<1>2. m.flight = NoFlight => (Alone /\ ~MayLose => r # "prev")
  BY <1>1 DEF Good, Loose, Punctual, NoFlight
<1>3. NoCall \in Calls /\ NoCall.kind = "none" /\ NoCall.stage = "idle"
  BY DEF NoCall, Calls
<1>4. UNCHANGED <<jar, grace>>
  BY DEF CallSucceeds, CallUnauthorized, CallFails, Age
<1>5. CASE CallSucceeds(t) \/ CallFails(t)
  <2>1. PICK x \in {"verify", "open", m.gate} :
          /\ tab' = [tab EXCEPT ![t] = [m EXCEPT !.call = NoCall, !.gate = x]]
          /\ x # m.gate => m.call.kind = "me"
          /\ m.call.kind = "me" => x # "verifying"
    <3>1. CASE CallSucceeds(t)
      <4>1. tab' = [tab EXCEPT ![t] = [m EXCEPT !.call = NoCall, !.gate = IF m.call.kind = "me" THEN "open" ELSE @]]
        BY <3>1 DEF CallSucceeds, IInv
      <4>2. CASE m.call.kind = "me"
        BY <4>1, <4>2
      <4>3. CASE m.call.kind # "me"
        BY <1>1, <4>1, <4>3
      <4> QED BY <4>2, <4>3
    <3>2. CASE CallFails(t)
      <4>1. PICK x \in IF m.call.kind = "me" THEN {"verify", "open"} ELSE {m.gate} :
               tab' = [tab EXCEPT ![t].call = NoCall, ![t].gate = x]
        BY <3>2 DEF CallFails
      <4>2. tab' = [tab EXCEPT ![t] = [m EXCEPT !.call = NoCall, !.gate = x]]
        BY <4>1 DEF IInv
      <4> QED BY <4>1, <4>2
    <3> QED BY <1>5, <3>1, <3>2
  <2> DEFINE n == [m EXCEPT !.call = NoCall, !.gate = x]
  <2> HIDE DEF m
  <2>2. /\ n \in Memories /\ n.flight = m.flight /\ n.bye = m.bye /\ n.csrf = m.csrf /\ n.page = m.page
        /\ n.gate = x /\ n.call = NoCall
    BY <1>1, <1>3 DEF Memories
  <2> HIDE DEF n
  <2>3. Loose(n, r)
    BY <1>1, <2>2, LooseKept DEF Good
  <2>4. Good(n, r)
    BY <1>1, <1>3, <2>1, <2>2, <2>3 DEF Good, Awaited, Gated
  <2>5. tab' = [tab EXCEPT ![t] = n]
    BY <2>1 DEF n
  <2> QED BY <1>1, <1>4, <2>4, <2>5, OneTab
<1>6. CASE Age(t)
  <2> DEFINE n == [m EXCEPT !.access = "aging"]
  <2>1. tab' = [tab EXCEPT ![t] = n]
    BY <1>6 DEF Age, IInv
  <2>2. /\ n \in Memories /\ n.flight = m.flight /\ n.bye = m.bye /\ n.csrf = m.csrf /\ n.page = m.page
        /\ n.gate = m.gate /\ n.call = m.call
    BY <1>1 DEF Memories
  <2> HIDE DEF n, m
  <2>3. Loose(n, r)
    BY <1>1, <2>2, LooseKept DEF Good
  <2>4. Good(n, r)
    BY <1>1, <2>2, <2>3 DEF Good, Awaited, Gated
  <2> QED BY <1>1, <1>4, <2>1, <2>4, OneTab
<1>7. CASE CallUnauthorized(t)
  <2>1. tab' = [tab EXCEPT ![t] = Unauthorized(m)] /\ m.call.stage = "sent"
    BY <1>7 DEF CallUnauthorized
  <2> HIDE DEF m
  <2>2. Good(Unauthorized(m), r)
    <3> DEFINE k == Cleared(m)
               f == Leaves(k)
               c == [m.call EXCEPT !.stage = "again"]
               q == IF k.flight # NoFlight THEN k ELSE [k EXCEPT !.flight = f]
               n == [q EXCEPT !.call.stage = "again"]
    <3>1. Unauthorized(m) = IF m.call.attempt = 0 THEN n ELSE Rejected(m)
      BY DEF Unauthorized, Refresh
    <3>2. /\ k \in Memories /\ k.csrf = "none" /\ k.flight = m.flight /\ k.bye = m.bye /\ k.gate = m.gate
          /\ k.page = m.page /\ k.call = m.call
      BY <1>1 DEF Cleared, Memories
    <3>3. f \in Flights /\ f.stage = "sent" /\ f # NoFlight /\ f.r = jar.r /\ f.reply = "none"
      BY <1>1, <3>2, LeavesSent
    <3>4. c \in Calls /\ c.stage = "again" /\ c.kind = m.call.kind
      BY <1>1 DEF Memories, Calls
    <3> HIDE DEF k, f
    <3>5. /\ q \in Memories /\ q.csrf = "none" /\ q.bye = m.bye /\ q.gate = m.gate /\ q.page = m.page /\ q.call = m.call
          /\ q.flight = IF m.flight # NoFlight THEN m.flight ELSE f
      BY <3>2, <3>3 DEF Memories
    <3> HIDE DEF q
    <3>6. n = [q EXCEPT !.call = c]
      BY <3>5 DEF Memories
    <3> HIDE DEF n, c
    <3>7. /\ n \in Memories /\ n.csrf = "none" /\ n.bye = m.bye /\ n.gate = m.gate /\ n.page = m.page /\ n.call = c
          /\ n.flight = IF m.flight # NoFlight THEN m.flight ELSE f
      BY <3>4, <3>5, <3>6 DEF Memories
    <3>8. Loose(n, r)
      <4>1. CASE m.flight # NoFlight
        BY <1>1, <3>7, <4>1, LooseKept DEF Good
      <4>2. CASE m.flight = NoFlight
        <5>1. n.flight = f
          BY <3>7, <4>2
        <5> QED BY <1>1, <1>2, <3>3, <3>7, <4>2, <5>1, LooseSent DEF Good
      <4> QED BY <4>1, <4>2
    <3>9. Good(n, r)
      BY <1>1, <2>1, <3>3, <3>4, <3>7, <3>8 DEF Good, Awaited, Gated
    <3>10. Good(Rejected(m), r)
      BY <1>1, RejectedGood DEF Good, Gated
    <3> QED BY <3>1, <3>9, <3>10
  <2> DEFINE n == Unauthorized(m)
  <2> HIDE DEF n
  <2>3. tab' = [tab EXCEPT ![t] = n] /\ Good(n, r)
    BY <2>1, <2>2 DEF n
  <2> QED BY <1>1, <1>4, <2>3, OneTab
<1> QED BY <1>5, <1>6, <1>7

LEMMA SignOutKeeps ==
    ASSUME IInv, NEW t \in Tabs, SignOut(t)
    PROVE  IInv'
<1> DEFINE m == tab[t]
           r == jar.r
           f == Leaves(m)
           l == ToLogin(m)
           n == [l EXCEPT !.bye = f]
<1>1. Good(m, r) /\ m \in Memories /\ JarOK /\ grace \in BOOLEAN
  BY DEF IInv, Good, Loose
<1>2. tab' = [tab EXCEPT ![t] = n] /\ UNCHANGED <<jar, grace>>
  BY DEF SignOut
<1>3. /\ f \in Flights /\ f.stage = "sent" /\ f # NoFlight /\ f.r = jar.r
      /\ f.match = (jar.c /\ m.csrf # "stale")
  BY <1>1, LeavesSent
<1>4. Good(l, r) /\ l \in Memories
  BY <1>1, ToLoginGood DEF Good, Loose
<1>5. (jar.r # "none" => jar.c) /\ (Alone => m.csrf # "stale")
  BY <1>1 DEF JarOK, Good, Loose, Unshared
<1> HIDE DEF f, l
<1>6. /\ n \in Memories /\ n.flight = l.flight /\ n.bye = f /\ n.csrf = l.csrf /\ n.page = l.page
      /\ n.gate = l.gate /\ n.call = l.call
  BY <1>3, <1>4 DEF Memories
<1> HIDE DEF n
<1>7. Flown(n)
  BY <1>3, <1>4, <1>6 DEF Flown, Good, Loose
<1>8. Alone => Unshared(n)
  BY <1>3, <1>4, <1>5, <1>6 DEF Unshared, Good, Loose
<1>9. Alone /\ ~MayLose => Punctual(n, r)
  BY <1>4, <1>6 DEF Punctual, Good, Loose
<1>10. Good(n, r)
  BY <1>4, <1>6, <1>7, <1>8, <1>9 DEF Good, Loose, Awaited, Gated
<1> QED BY <1>1, <1>2, <1>10, OneTab

LEMMA ServerSignOutKeeps ==
    ASSUME IInv, NEW t \in Tabs, ServerSignOut(t)
    PROVE  IInv'
<1> DEFINE m == tab[t]
           b == tab[t].bye
           gone == IF b.r = "old" THEN [RolesNow EXCEPT !["old"] = "dead"]
                   ELSE IF Live(b.r) THEN Ended ELSE RolesNow
           tb == Renamed(tab, gone)
           k == tb[t]
           Put(p, what) == [p EXCEPT !.bye.stage = "answered", !.bye.reply = what]
           x == gone[jar.r]
<1>1. Good(m, jar.r) /\ b \in Flights /\ b.stage = "sent" /\ JarOK /\ grace' \in BOOLEAN
  BY DEF IInv, Good, Loose, Memories, ServerSignOut
<1>2. CASE b.r # "none" /\ ~b.match
  <2>1. tab' = [tab EXCEPT ![t] = Put(m, "refused")] /\ UNCHANGED jar
    BY <1>2 DEF ServerSignOut, IInv
  <2>2. Alone => "refused" # "refused"
    BY <1>1, <1>2 DEF Good, Loose, Unshared
  <2>3. Good(Put(m, "refused"), jar.r)
    <3> HIDE DEF m
    <3>1. m.bye.stage = "sent"
      BY <1>1 DEF m
    <3> QED BY <1>1, <2>2, <3>1, ByeGood
  <2> HIDE DEF Put
  <2> QED BY <1>1, <2>1, <2>3, OneTab
<1>3. CASE ~(b.r # "none" /\ ~b.match)
  <2>1. tab' = [tb EXCEPT ![t].bye.stage = "answered", ![t].bye.reply = "ended"] /\ jar' = [jar EXCEPT !.r = gone[@]]
    BY <1>3 DEF ServerSignOut
  <2>2. gone \in Rotates /\ gone # Rotated /\ ~Live(gone[b.r])
    <3>1. b.r \in Roles
      BY <1>1 DEF Flights
    <3>2. gone \in Rotates
      BY DEF Rotates
    <3>3. gone["cur"] # "prev"
      BY DEF Ended, RolesNow, Roles
    <3>4. Rotated["cur"] = "prev"
      BY RolesChange
    <3>5. ~Live(gone[b.r])
      BY <3>1 DEF Ended, RolesNow, Roles, Live
    <3> HIDE DEF gone
    <3> QED BY <3>2, <3>3, <3>4, <3>5
  <2> HIDE DEF gone
  <2>3. /\ DOMAIN tb = Tabs /\ k.bye.stage = "sent" /\ k.bye.r = gone[b.r]
        /\ \A u \in Tabs : Good(tb[u], x)
    BY <1>1, <2>2, RenamedTabs
  <2>4. x \in Roles /\ (x # "none" => jar.c)
    BY <1>1, <2>2, RolesChange DEF JarOK
  <2> HIDE DEF tb
  <2>5. tab' = [tb EXCEPT ![t] = Put(k, "ended")]
    BY <2>1, <2>3
  <2>6. jar' = [jar EXCEPT !.r = x]
    BY <1>1, <2>1 DEF JarOK
  <2>7. Good(Put(k, "ended"), x)
    <3>1. Good(k, x) /\ k.bye.stage # "none" /\ ~Live(k.bye.r)
      BY <2>2, <2>3
    <3> HIDE DEF k, x
    <3> QED BY <3>1, ByeGood
  <2> DEFINE a == Put(k, "ended")
  <2>8. Good(a, x) /\ tab' = [tb EXCEPT ![t] = a]
    BY <2>5, <2>7
  <2> HIDE DEF a, x, k, Put
  <2> QED BY <1>1, <2>3, <2>4, <2>6, <2>8, TabsInv
<1> QED BY <1>2, <1>3

LEMMA SignOutReturnsKeeps ==
    ASSUME IInv, NEW t \in Tabs, SignOutReturns(t)
    PROVE  IInv'
<1> DEFINE m == tab[t]
           k == Cleared(m)
           n == [k EXCEPT !.bye = NoFlight]
           now == [tab EXCEPT ![t] = n]
           r == jar'.r
<1>1. Good(m, jar.r) /\ m \in Memories /\ JarOK /\ grace' \in BOOLEAN
  BY DEF IInv, Good, Loose, SignOutReturns
<1>2. NoFlight \in Flights
  BY DEF NoFlight, Flights, Roles
<1>3. /\ k \in Memories /\ k.csrf = "none" /\ k.flight = m.flight /\ k.gate = m.gate /\ k.page = m.page /\ k.call = m.call
  BY <1>1 DEF Cleared, Memories
<1> HIDE DEF k
<1>4. /\ n \in Memories /\ n.csrf = "none" /\ n.flight = m.flight /\ n.gate = m.gate /\ n.page = m.page /\ n.call = m.call
      /\ n.bye = NoFlight
  BY <1>2, <1>3 DEF Memories
<1> HIDE DEF n
<1>5. Good(n, jar.r) /\ Good(n, "none")
  <2>1. Flown(n)
    BY <1>1, <1>4 DEF Flown, Good, Loose, NoFlight
  <2>2. Alone => Unshared(n)
    BY <1>4 DEF Unshared, NoFlight
  <2>3. Alone /\ ~MayLose => Punctual(n, jar.r) /\ Punctual(n, "none")
    BY <1>1, <1>4 DEF Punctual, Good, Loose
  <2> QED BY <1>1, <1>4, <2>1, <2>2, <2>3 DEF Good, Loose, Awaited, Gated
<1>6. DOMAIN now = Tabs /\ now[t] = n /\ \A u \in Tabs : u # t => now[u] = tab[u]
  BY DEF IInv
<1>7. CASE m.bye.reply = "ended"
  <2>1. tab' = CsrfMoves(now, t) /\ jar' = [r |-> "none", c |-> FALSE]
    BY <1>7 DEF SignOutReturns, n, k
  <2>2. jar' \in [r : Roles, c : BOOLEAN] /\ r = "none"
    BY <2>1 DEF Roles
  <2>3. Good(now[t], r) /\ \A u \in Tabs : u # t => Good(now[u], jar.r)
    BY <1>5, <1>6, <2>2 DEF IInv
  <2> HIDE DEF now
  <2> QED BY <1>1, <1>6, <2>1, <2>2, <2>3, MovedInv
<1>8. CASE m.bye.reply # "ended"
  <2>1. tab' = now /\ UNCHANGED jar
    BY <1>8 DEF SignOutReturns, n, k
  <2> QED BY <1>1, <1>5, <2>1, OneTab
<1> QED BY <1>7, <1>8

LEMMA LoginSucceedsKeeps ==
    ASSUME IInv, NEW t \in Tabs, LoginSucceeds(t)
    PROVE  IInv'
<1> DEFINE left == Renamed(tab, LeftBehind)
           k == left[t]
           s == SignedIn(k)
           n == [s EXCEPT !.call = NoCall]
           tb == [left EXCEPT ![t] = Boot(n)]
<1>1. LeftBehind \in Rotates /\ LeftBehind # Rotated /\ JarOK
  <2>1. LeftBehind["cur"] # "prev"
    BY DEF LeftBehind, Ended, RolesNow, Roles
  <2>2. Rotated["cur"] = "prev"
    BY RolesChange
  <2> QED BY <2>1, <2>2 DEF Rotates, IInv
<1>2. /\ DOMAIN left = Tabs /\ k.flight = NoFlight
      /\ \A u \in Tabs : Good(left[u], LeftBehind[jar.r])
  <2>1. tab[t].flight = NoFlight
    BY DEF LoginSucceeds
  <2> QED BY <1>1, <2>1, RenamedTabs
<1>3. /\ jar' = [r |-> "cur", c |-> TRUE] /\ grace' = FALSE
      /\ tab' = CsrfMoves(tb, t)
  <2>1. tb = [left EXCEPT ![t] = Boot([SignedIn(@) EXCEPT !.call = NoCall])]
    OBVIOUS
  <2> QED BY <2>1 DEF LoginSucceeds
<1> HIDE DEF left
<1>4. Good(k, LeftBehind[jar.r]) /\ k \in Memories
  BY <1>2 DEF Good, Loose
<1> HIDE DEF k
<1>5. NoCall \in Calls /\ NoCall.stage = "idle" /\ NoCall.kind = "none"
  BY DEF NoCall, Calls
<1>6. /\ s \in Memories /\ s.access = "fresh" /\ s.csrf = "same" /\ s.flight = k.flight /\ s.bye = k.bye
      /\ s.page = k.page /\ s.gate = k.gate
  BY <1>4 DEF SignedIn, Memories
<1> HIDE DEF s
<1>7. /\ n \in Memories /\ n.access = "fresh" /\ n.csrf = "same" /\ n.flight = k.flight /\ n.bye = k.bye /\ n.call = NoCall
  BY <1>5, <1>6 DEF Memories
<1> HIDE DEF n
<1>8. Loose(n, "cur") /\ Awaited(n)
  <2>1. Flown(n)
    BY <1>4, <1>7 DEF Flown, Good, Loose
  <2>2. Alone => Unshared(n)
    BY <1>4, <1>7 DEF Unshared, Good, Loose
  <2>3. Punctual(n, "cur")
    BY <1>2, <1>7 DEF Punctual, NoFlight
  <2> QED BY <1>5, <1>7, <2>1, <2>2, <2>3 DEF Loose, Awaited
<1>9. Good(Boot(n), "cur")
  BY <1>1, <1>7, <1>8, BootGood
<1>10. DOMAIN tb = Tabs /\ tb[t] = Boot(n) /\ \A u \in Tabs : u # t => tb[u] = left[u]
  BY <1>2
<1>11. Good(tb[t], "cur") /\ \A u \in Tabs : u # t => Good(tb[u], LeftBehind[jar.r])
  BY <1>2, <1>9, <1>10
<1>12. jar' \in [r : Roles, c : BOOLEAN] /\ jar'.r = "cur" /\ jar'.c /\ grace' \in BOOLEAN
  BY <1>3 DEF Roles
<1> HIDE DEF tb
<1> QED BY <1>3, <1>10, <1>11, <1>12, MovedInv

LEMMA EndedElsewhereKeeps ==
    ASSUME IInv, EndedElsewhere
    PROVE  IInv'
<1> DEFINE x == Ended[jar.r]
<1>1. tab' = Renamed(tab, Ended) /\ jar' = [jar EXCEPT !.r = Ended[@]] /\ grace' \in BOOLEAN
  BY DEF EndedElsewhere, IInv
<1>2. Ended \in Rotates /\ Ended # Rotated
  <2>1. Ended["cur"] # "prev"
    BY DEF Ended, RolesNow, Roles
  <2>2. Rotated["cur"] = "prev"
    BY RolesChange
  <2> QED BY <2>1, <2>2 DEF Rotates
<1>3. DOMAIN tab' = Tabs /\ \A u \in Tabs : Good(tab'[u], x)
  BY <1>1, <1>2, RenamedTabs
<1>4. x \in Roles /\ (x # "none" => jar.c) /\ JarOK
  BY <1>2, RolesChange DEF IInv, JarOK
<1>5. jar' \in [r : Roles, c : BOOLEAN] /\ jar'.r = x /\ jar'.c = jar.c
  BY <1>1, <1>4 DEF JarOK
<1>6. tab' = [u \in Tabs |-> tab'[u]]
  BY <1>1 DEF Renamed
<1>7. JarOK' /\ \A u \in Tabs : Good(tab'[u], jar'.r)
  BY <1>3, <1>4, <1>5 DEF JarOK
<1> QED BY <1>1, <1>3, <1>6, <1>7 DEF IInv

-----------------------------------------------------------------------------
LEMMA SessionInit == Init => IInv
<1> SUFFICES ASSUME Init PROVE IInv
  OBVIOUS
<1>1. JarOK /\ jar.r = "none" /\ grace \in BOOLEAN
  BY DEF Init, JarOK, Roles
<1>2. NoFlight \in Flights /\ NoCall \in Calls /\ NoCall.kind = "none" /\ NoCall.stage = "idle"
  BY DEF NoFlight, Flights, Roles, NoCall, Calls
<1>3. /\ Blank \in Memories /\ Blank.flight = NoFlight /\ Blank.bye = NoFlight /\ Blank.call = NoCall /\ Blank.csrf = "none"
      /\ Blank.page = "login" /\ Blank.gate = "off"
  BY <1>2 DEF Blank, Memories
<1>4. Good(Blank, "none")
  BY <1>2, <1>3 DEF Good, Loose, Flown, Unshared, Punctual, NoFlight, Awaited, Gated
<1>5. DOMAIN tab = Tabs /\ tab = [t \in Tabs |-> tab[t]] /\ \A t \in Tabs : tab[t] = Blank
  BY DEF Init
<1> QED BY <1>1, <1>4, <1>5 DEF IInv

LEMMA SessionStep == IInv /\ [Next]_vars => IInv'
<1> SUFFICES ASSUME IInv, [Next]_vars PROVE IInv'
  OBVIOUS
<1>1. CASE UNCHANGED vars
  BY <1>1 DEF vars, IInv, JarOK
<1>2. ASSUME NEW t \in Tabs,
             \/ ServerRefresh(t) \/ NetworkFails(t) \/ RefreshReturns(t)
             \/ AskData(t) \/ Verify(t) \/ SubmitLogin(t)
             \/ CallSucceeds(t) \/ LoginSucceeds(t) \/ CallUnauthorized(t) \/ CallFails(t)
             \/ Navigate(t) \/ Reload(t) \/ RetryBoot(t)
             \/ SignOut(t) \/ ServerSignOut(t) \/ SignOutReturns(t)
             \/ Age(t)
      PROVE  IInv'
  BY <1>2, ServerRefreshKeeps, NetworkFailsKeeps, RefreshReturnsKeeps, TabActs, CallEnds, LoginSucceedsKeeps,
     SignOutKeeps, ServerSignOutKeeps, SignOutReturnsKeeps
<1>3. CASE GraceEnds
  <2>1. UNCHANGED <<tab, jar>> /\ grace' \in BOOLEAN
    BY <1>3 DEF GraceEnds
  <2> QED BY <2>1 DEF IInv, JarOK
<1>4. CASE EndedElsewhere
  BY <1>4, EndedElsewhereKeeps
<1> QED BY <1>1, <1>2, <1>3, <1>4 DEF Next

LEMMA SessionImplied == IInv => SessionHolds
<1> SUFFICES ASSUME IInv PROVE SessionHolds
  OBVIOUS
<1>1. ASSUME NEW t \in Tabs
      PROVE  LET m == tab[t] IN
             /\ m.page \in {"app", "login"}
             /\ m.access \in {"none", "fresh", "aging"} /\ m.csrf \in {"none", "same", "stale"}
             /\ m.gate \in {"off", "checking", "offline", "verify", "verifying", "open"}
             /\ m.page = "login" <=> m.gate = "off"
             /\ m.gate = "checking" => m.flight # NoFlight
             /\ m.gate = "verifying" => m.call.kind = "me"
             /\ m.call.stage \in {"waiting", "again"} => m.flight # NoFlight
             /\ {m.flight.r, m.bye.r} \subseteq Roles
             /\ Alone /\ ~MayLose /\ m.flight.stage = "answered" => m.flight.reply # "reuse"
             /\ m.bye.stage = "answered" /\ m.bye.reply = "ended" => ~Live(m.bye.r)
             /\ m.bye.stage = "answered" /\ Alone => m.bye.reply # "refused"
  <2> DEFINE m == tab[t]
  <2>1. Good(m, jar.r)
    BY DEF IInv
  <2> HIDE DEF m
  <2>2. /\ m.page \in {"app", "login"}
        /\ m.access \in {"none", "fresh", "aging"} /\ m.csrf \in {"none", "same", "stale"}
        /\ m.gate \in {"off", "checking", "offline", "verify", "verifying", "open"}
        /\ {m.flight.r, m.bye.r} \subseteq Roles
    BY <2>1 DEF Good, Loose, Memories, Flights
  <2>3. /\ m.page = "login" <=> m.gate = "off"
        /\ m.gate = "checking" => m.flight # NoFlight
        /\ m.gate = "verifying" => m.call.kind = "me"
        /\ m.call.stage \in {"waiting", "again"} => m.flight # NoFlight
    BY <2>1 DEF Good, Awaited, Gated
  <2>4. /\ Alone /\ ~MayLose /\ m.flight.stage = "answered" => m.flight.reply # "reuse"
        /\ m.bye.stage = "answered" /\ m.bye.reply = "ended" => ~Live(m.bye.r)
        /\ m.bye.stage = "answered" /\ Alone => m.bye.reply # "refused"
    BY <2>1 DEF Good, Loose, Flown, Unshared, Punctual
  <2> QED BY <2>2, <2>3, <2>4 DEF m
<1>2. jar.r \in Roles /\ jar.c \in BOOLEAN /\ grace \in BOOLEAN
  BY DEF IInv, JarOK
<1>3. TypeOK
  BY <1>1, <1>2 DEF TypeOK
<1>4. NeverOwnThief /\ SignOutEnds
  BY <1>1 DEF NeverOwnThief, SignOutEnds
<1> QED BY <1>3, <1>4 DEF SessionHolds

\* However refreshes, retries, sign-outs and a failing network overlap in any
\* number of tabs, nobody waits for a refresh that is not under way, the gate is
\* where the page is, and a sign-out the server answered ended the session; a
\* tab that has the browser for itself and whose answers arrive never presents
\* a superseded token, which the server takes for theft
\* (api.ts:122, 205, 355, Shell.tsx:176-227, 345-347).
THEOREM SessionIsHeld == Spec => []SessionHolds
BY SessionInit, SessionStep, SessionImplied, PTL DEF Spec
=============================================================================
