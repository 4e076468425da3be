---------------------------- MODULE PagesProofs ------------------------------
(***************************************************************************)
(* What is proved of the pages of the browser (Browser), for every value   *)
(* of their constants.  Of every page there is a set of the records it can *)
(* be, an invariant that says what of it belongs together (named after the *)
(* page, "...Good"), and a lemma that its steps preserve it; the theorems   *)
(* at the end put the pages together.                                      *)
(***************************************************************************)
EXTENDS Browser, FiniteSetTheorems, NaturalsInduction, WellFoundedInduction, TLAPS

-----------------------------------------------------------------------------
(* The sign-in page and the page of a link.                                *)

LoginType(p) ==
    /\ DOMAIN p = {"name", "can", "primary", "shown", "step", "error", "reset", "in"} /\ p.name = "login"
    /\ p.can \in {"unknown", "yes", "no"} /\ p.reset \in {"no", "asking", "sent"}
    /\ p.step \in {"idle", "begin", "prompt", "finish", "login", "forgot"}
    /\ p.shown \in BOOLEAN /\ p.error \in BOOLEAN
LinkType(p) ==
    /\ DOMAIN p = {"name", "checking", "usable", "asked", "answer", "same", "error", "in"} /\ p.name = "link"
    /\ p.asked \in {"no", "inspect", "accept"} /\ p.same \in BOOLEAN

\* A password is asked for, or failed, on a form that is on the screen.
LoginGood(p) == LoginType(p) /\ (p.error \/ p.step = "login" => p.shown \/ p.can = "no")
\* A link is accepted with two passwords that are the same, or not at all.
LinkGood(p) == LinkType(p) /\ (p.asked = "accept" => p.same)
SignInGood == srv \in {"valid", "spent"} /\ (LoginGood(page) \/ LinkGood(page))

LEMMA SignInStarts == SignIn!Init => SignInGood
BY DEF SignIn!Init, SignIn!LoginPage, SignInGood, LoginGood, LoginType

LEMMA OpenedAgain ==
    ASSUME srv \in {"valid", "spent"}, SignIn!OpenAgain
    PROVE  SignInGood'
<1>1. CASE page' = SignIn!LinkPage /\ srv' \in {srv, "valid"}
  BY <1>1 DEF SignIn!LinkPage, SignInGood, LinkGood, LinkType
<1>2. ASSUME NEW b, SignIn!To([SignIn!LoginPage EXCEPT !.primary = b])
      PROVE  SignInGood'
  BY <1>2 DEF SignIn!LoginPage, SignIn!To, SignInGood, LoginGood, LoginType
<1> QED
  BY <1>1, <1>2, Zenon DEF SignIn!OpenAgain

LEMMA LoginKeeps ==
    ASSUME LoginGood(page), srv \in {"valid", "spent"}, SignIn!Next
    PROVE  SignInGood'
<1>1. CASE SignIn!StartPasskey \/ SignIn!SubmitPassword \/ SignIn!SubmitReset \/ SignIn!LoginClicks
  <2>1. LoginGood(page') /\ UNCHANGED srv
    BY <1>1 DEF SignIn!StartPasskey, SignIn!SubmitPassword, SignIn!SubmitReset, SignIn!LoginClicks, SignIn!Begin, SignIn!To,
       SignIn!PasswordForm, LoginGood, LoginType
  <2> QED
    BY <2>1 DEF SignInGood
<1>2. CASE SignIn!Probe \/ SignIn!PasskeyProceeds \/ SignIn!PasswordAnswers \/ SignIn!ResetAnswers
  <2>1. LoginGood(page') /\ UNCHANGED srv
    <3>1. CASE SignIn!Probe \/ SignIn!PasswordAnswers \/ SignIn!ResetAnswers
      BY <3>1, Zenon DEF SignIn!Probe, SignIn!Available, SignIn!PasswordAnswers, SignIn!ResetAnswers, SignIn!To, LoginGood, LoginType
    <3>2. CASE SignIn!PasskeyProceeds
      <4>1. /\ UNCHANGED srv
            /\ \/ \E step \in {"prompt", "finish", "idle"} : page' = [page EXCEPT !.step = step]
               \/ page' = SignIn!PasskeyFailed(page)
               \/ page' = [page EXCEPT !.step = "idle", !.in = TRUE, !.primary = TRUE]
        BY <3>2, Zenon DEF SignIn!PasskeyProceeds, SignIn!Ceremony, SignIn!To
      <4> QED
        BY <4>1 DEF SignIn!PasskeyFailed, LoginGood, LoginType
    <3> QED
      BY <1>2, <3>1, <3>2
  <2> QED
    BY <2>1 DEF SignInGood
<1>3. CASE SignIn!OpenAgain
  BY <1>3, OpenedAgain
<1> QED
  BY <1>1, <1>2, <1>3
     DEF SignIn!Next, SignIn!Answers, SignIn!LinkHandled, SignIn!LinkAnswers, SignIn!MountLink, SignIn!SubmitLink, SignIn!LinkEnds,
         SignIn!Open, LoginGood, LoginType

LEMMA LinkKeeps ==
    ASSUME LinkGood(page), srv \in {"valid", "spent"}, SignIn!Next
    PROVE  SignInGood'
<1>1. CASE SignIn!MountLink \/ SignIn!SubmitLink \/ SignIn!LinkAnswers
  <2>1. LinkGood(page') /\ UNCHANGED srv
    BY <1>1, Zenon DEF SignIn!MountLink, SignIn!SubmitLink, SignIn!LinkAnswers, SignIn!Ask, SignIn!To, LinkGood, LinkType
  <2> QED
    BY <2>1 DEF SignInGood
<1>2. CASE SignIn!LinkHandled \/ SignIn!LinkEnds
  <2>1. LinkGood(page') /\ srv' \in {"valid", "spent"}
    BY <1>2 DEF SignIn!LinkHandled, SignIn!LinkEnds, LinkGood, LinkType
  <2> QED
    BY <2>1 DEF SignInGood
<1>3. CASE SignIn!OpenAgain
  BY <1>3, OpenedAgain
<1> QED
  BY <1>1, <1>2, <1>3
     DEF SignIn!Next, SignIn!Answers, SignIn!StartPasskey, SignIn!SubmitPassword, SignIn!SubmitReset, SignIn!LoginClicks, SignIn!Probe,
         SignIn!PasskeyProceeds, SignIn!PasswordAnswers, SignIn!ResetAnswers, SignIn!Open, LinkGood, LinkType

LEMMA SignInKeeps == SignInGood /\ SignIn!Next => SignInGood'
BY LoginKeeps, LinkKeeps DEF SignInGood

LEMMA SignInHolds ==
    SignInGood => OpenIn(SignInNames) /\ SignIn!TypeOK /\ SignIn!NeverALockedDoor /\ SignIn!NeverWasted
BY DEF SignInGood, LoginGood, LoginType, LinkGood, LinkType, SignIn!TypeOK, SignIn!NeverALockedDoor, SignIn!NeverWasted, SignIn!Open,
       SignIn!PasswordForm, OpenIn, SignInNames

-----------------------------------------------------------------------------
(* The lists of an account.                                                *)

OpsOf ==
    [passkeys |-> {"list", "create", "remove", "reload"}, sessions |-> {"list", "remove", "all"},
     tokens |-> {"list", "create", "remove", "reload"}, admin |-> {"list", "create", "remove"}]
ListRequests(kind) == [op : OpsOf[kind], item : Items \cup {0}, stage : {"sent", "ok"}, got : SUBSET Items]
ListShape(p) ==
    /\ DOMAIN p = {"name", "rows", "loaded", "was", "busy", "error", "fresh", "forbidden", "left", "asked"}
    /\ p.name \in ListNames /\ p.rows \subseteq Items /\ p.loaded \in BOOLEAN
    /\ p.busy \in Items \cup {0, 100, 101, 102}
ListType(p) ==
    /\ ListShape(p)
    /\ IsFiniteSet(p.asked) /\ Cardinality(p.asked) <= MaxAsked["lists"]
    /\ p.asked \subseteq ListRequests(p.name)

\* The sessions are asked for once.  What is on its way is a list that lacks
\* none that lives, and news of sessions that have ended.
Awaited(p, list) ==
    /\ \A q, r \in p.asked : q.op = "list" /\ r.op = "list" => q = r /\ ~p.loaded
    /\ \A q \in p.asked : q.stage = "ok" /\ q.op = "list" => list \subseteq q.got
    /\ \A q \in p.asked : q.stage = "ok" /\ q.op = "remove" => q.item \notin list
ListGood(p, list) ==
    /\ ListType(p)
    /\ p.name = "sessions" => Awaited(p, list) /\ (p.loaded => (p.was \ p.rows) \cap list = {})
ListsGood == srv \subseteq Items /\ ListGood(page, srv)

\* The pages count as the lemmas do.
LEMMA ListCount == \A S : Lists!Cardinality(S) = Cardinality(S)
BY DEF Lists!Cardinality, Cardinality

\* Room for one request more, and the room that one leaves.
LEMMA OneMore ==
    ASSUME NEW S, IsFiniteSet(S), NEW x, NEW n \in Nat, Cardinality(S) < n
    PROVE  IsFiniteSet(S \cup {x}) /\ Cardinality(S \cup {x}) <= n
<1>1. Cardinality(S) \in Nat
  BY FS_CardinalityType
<1>2. IsFiniteSet(S \cup {x}) /\ (Cardinality(S \cup {x}) = Cardinality(S) \/ Cardinality(S \cup {x}) = Cardinality(S) + 1)
  BY FS_AddElement
<1> QED
  BY <1>1, <1>2

LEMMA OneLess ==
    ASSUME NEW S, IsFiniteSet(S), NEW x \in S, NEW n \in Nat, Cardinality(S) <= n
    PROVE  IsFiniteSet(S \ {x}) /\ Cardinality(S \ {x}) < n
<1>1. Cardinality(S) \in Nat
  BY FS_CardinalityType
<1>2. IsFiniteSet(S \ {x}) /\ Cardinality(S \ {x}) = Cardinality(S) - 1
  BY FS_RemoveElement
<1> QED
  BY <1>1, <1>2

LEMMA ListsStart == Lists!Init => ListsGood
<1> SUFFICES ASSUME NEW kind \in ListNames, page = Lists!ListPage(kind), srv \in SUBSET Items
             PROVE  ListsGood
  BY Zenon DEF Lists!Init, Lists!Kinds, ListNames
<1> DEFINE q == Lists!Request("list", 0)
<1>1. q \in ListRequests(kind) /\ q.stage = "sent"
  BY DEF Lists!Request, ListRequests, OpsOf, ListNames
<1>2. /\ DOMAIN page = {"name", "rows", "loaded", "was", "busy", "error", "fresh", "forbidden", "left", "asked"}
      /\ page.name = kind /\ page.rows = {} /\ page.loaded = FALSE /\ page.busy = 0 /\ page.asked = {q}
  BY DEF Lists!ListPage
<1> HIDE DEF q
<1>3. IsFiniteSet({q}) /\ Cardinality({q}) <= MaxAsked["lists"]
  <2>1. IsFiniteSet({q}) /\ Cardinality({q}) = 1
    BY FS_Singleton
  <2> QED
    BY <2>1, ListAssumption
<1> QED
  BY <1>1, <1>2, <1>3 DEF ListsGood, ListGood, ListType, ListShape, Awaited

\* Pages that differ in what no invariant is about, and in one request more.
Same(r, p) ==
    /\ DOMAIN r = DOMAIN p /\ r.busy \in Items \cup {0, 100, 101, 102}
    /\ r.name = p.name /\ r.rows = p.rows /\ r.loaded = p.loaded /\ r.was = p.was
Sets(r, p) == Same(r, p) /\ r.asked = p.asked
Asks(r, p, op, item) ==
    /\ Same(r, p) /\ r.asked = p.asked \cup {Lists!Request(op, item)}
    /\ op \in OpsOf[p.name] /\ item \in Items \cup {0} /\ (p.name = "sessions" => op # "list")

LEMMA ListSet ==
    ASSUME NEW p, NEW list, ListGood(p, list), NEW r, Sets(r, p)
    PROVE  ListGood(r, list)
BY DEF ListGood, ListType, ListShape, Awaited, Sets, Same

LEMMA ListAsk ==
    ASSUME NEW p, NEW list, ListGood(p, list), Cardinality(p.asked) < MaxAsked["lists"], NEW op, NEW item,
           NEW r, Asks(r, p, op, item)
    PROVE  ListGood(r, list)
<1> DEFINE q == Lists!Request(op, item)
<1>1. q \in ListRequests(p.name) /\ q.op = op /\ q.stage = "sent"
  BY DEF Lists!Request, ListRequests, Asks
<1>2. Same(r, p) /\ r.asked = p.asked \cup {q} /\ (p.name = "sessions" => op # "list")
  BY DEF Asks
<1> HIDE DEF q
<1>3. IsFiniteSet(p.asked \cup {q}) /\ Cardinality(p.asked \cup {q}) <= MaxAsked["lists"]
  BY OneMore, ListAssumption DEF ListGood, ListType, ListShape
<1>4. ListType(r)
  BY <1>1, <1>2, <1>3 DEF ListGood, ListType, ListShape, Same
<1>5. p.name = "sessions" => Awaited(r, list)
  BY <1>1, <1>2 DEF ListGood, Awaited, Same
<1> QED
  BY <1>2, <1>4, <1>5 DEF ListGood, Same

LEMMA ListActs ==
    ASSUME ListsGood, Lists!Act \/ Lists!EnrolPrompt
    PROVE  ListsGood'
<1>0. ListGood(page, srv) /\ ListShape(page)
  BY DEF ListsGood, ListGood, ListType, ListShape
<1>1. ASSUME Sets(page', page), UNCHANGED srv PROVE ListsGood'
  BY <1>0, <1>1, ListSet DEF ListsGood
<1>2. ASSUME NEW op, NEW item, Lists!Room, Asks(page', page, op, item), UNCHANGED srv PROVE ListsGood'
  BY <1>0, <1>2, ListAsk, ListCount DEF ListsGood, Lists!Room
<1>3. CASE Lists!Enrol \/ Lists!HideFresh
  <2>1. CASE Lists!Enrol
    <3>1. Sets(page', page) /\ UNCHANGED srv
      BY <1>0, <2>1 DEF Lists!Enrol, Lists!To, Lists!Prompting, ListShape, Sets, Same
    <3> QED
      BY <3>1, <1>1
  <2>2. CASE Lists!HideFresh
    <3>1. Sets(page', page) /\ UNCHANGED srv
      BY <1>0, <2>2 DEF Lists!HideFresh, Lists!To, ListShape, Sets, Same
    <3> QED
      BY <3>1, <1>1
  <2> QED
    BY <1>3, <2>1, <2>2
<1>4. CASE Lists!EnrolPrompt
  <2>1. CASE Lists!Room /\ Lists!To(Lists!Ask([page EXCEPT !.busy = 100], "create", 0))
    <3>1. Asks(page', page, "create", 0) /\ UNCHANGED srv
      BY <1>0, <1>4, <2>1 DEF Lists!EnrolPrompt, Lists!To, Lists!Ask, Lists!Open, ListShape, Asks, Same, OpsOf
    <3> QED
      BY <3>1, <2>1, <1>2
  <2>2. CASE Lists!To([page EXCEPT !.busy = 0])
    <3>1. Sets(page', page) /\ UNCHANGED srv
      BY <1>0, <2>2 DEF Lists!To, ListShape, Sets, Same
    <3> QED
      BY <3>1, <1>1
  <2>3. CASE Lists!To([[page EXCEPT !.busy = 0] EXCEPT !.error = TRUE])
    <3>1. Sets(page', page) /\ UNCHANGED srv
      BY <1>0, <2>3 DEF Lists!To, ListShape, Sets, Same
    <3> QED
      BY <3>1, <1>1
  <2> QED
    BY <1>4, <2>1, <2>2, <2>3 DEF Lists!EnrolPrompt, Lists!Failed, Lists!Nobody, Lists!Creating
<1>5. CASE Lists!RevokeAll
  <2>1. "all" \in OpsOf[page.name] /\ UNCHANGED srv /\ Lists!Room
    BY <1>5 DEF Lists!RevokeAll, Lists!Open, Lists!To, OpsOf
  <2>2. Same(page', page) /\ page'.asked = page.asked \cup {Lists!Request("all", 0)}
    BY <1>0, <1>5 DEF Lists!RevokeAll, Lists!To, Lists!Ask, Lists!Everything, ListShape, Same
  <2>3. Asks(page', page, "all", 0)
    BY <2>1, <2>2 DEF Asks
  <2> QED
    BY <2>1, <2>3, <1>2
<1>6. CASE Lists!CreateToken
  <2>1. Asks(page', page, "create", 0) /\ UNCHANGED srv /\ Lists!Room
    BY <1>0, <1>6 DEF Lists!CreateToken, Lists!TokenControls, Lists!Open, Lists!To, Lists!Ask, Lists!Creating, ListShape, Asks, Same, OpsOf
  <2> QED
    BY <2>1, <1>2
<1>7. CASE Lists!RetryTokens
  <2>1. Asks(page', page, "list", 0) /\ UNCHANGED srv /\ Lists!Room
    BY <1>0, <1>7 DEF Lists!RetryTokens, Lists!TokenControls, Lists!Open, Lists!To, Lists!Ask, ListShape, Asks, Same, OpsOf
  <2> QED
    BY <2>1, <1>2
<1>8. CASE Lists!CreateUser
  <2>1. CASE Lists!To(Lists!Failed(page))
    <3>1. Sets(page', page) /\ UNCHANGED srv
      BY <1>0, <2>1 DEF Lists!To, Lists!Failed, ListShape, Sets, Same
    <3> QED
      BY <3>1, <1>1
  <2>2. CASE Lists!To(Lists!Ask(page, "create", 0))
    <3>1. Asks(page', page, "create", 0) /\ UNCHANGED srv /\ Lists!Room
      BY <1>0, <1>8, <2>2 DEF Lists!CreateUser, Lists!AdminControls, Lists!Open, Lists!To, Lists!Ask, ListShape, Asks, Same, OpsOf
    <3> QED
      BY <3>1, <1>2
  <2> QED
    BY <1>8, <2>1, <2>2 DEF Lists!CreateUser
<1>9. ASSUME NEW i \in Items, Lists!RemovePasskey(i) \/ Lists!RevokeSession(i) \/ Lists!RevokeToken(i) \/ Lists!Deactivate(i)
      PROVE  ListsGood'
  <2>1. "remove" \in OpsOf[page.name] /\ UNCHANGED srv /\ Lists!Room
    BY <1>9 DEF Lists!RemovePasskey, Lists!RevokeSession, Lists!RevokeToken, Lists!Deactivate, Lists!PasskeyControls,
       Lists!SessionControls, Lists!TokenControls, Lists!AdminControls, Lists!Open, Lists!To, OpsOf
  <2>2. Same(page', page) /\ page'.asked = page.asked \cup {Lists!Request("remove", i)}
    <3>1. CASE page' = Lists!Ask([page EXCEPT !.busy = i, !.error = FALSE], "remove", i)
      BY <1>0, <3>1 DEF Lists!Ask, ListShape, Same
    <3>2. CASE page' = Lists!Ask(page, "remove", i)
      BY <1>0, <3>2 DEF Lists!Ask, ListShape, Same
    <3> QED
      BY <1>9, <3>1, <3>2 DEF Lists!RemovePasskey, Lists!RevokeSession, Lists!RevokeToken, Lists!Deactivate, Lists!To
  <2>3. Asks(page', page, "remove", i)
    BY <2>1, <2>2 DEF Asks
  <2> QED
    BY <2>1, <2>3, <1>2
<1> QED
  BY <1>3, <1>4, <1>5, <1>6, <1>7, <1>8, <1>9 DEF Lists!Act

\* The list on the server loses one, a request leaves, the server handles one.
LEMMA ListShrinks ==
    ASSUME NEW p, NEW list, ListGood(p, list), NEW less \in SUBSET list
    PROVE  ListGood(p, less)
BY DEF ListGood, Awaited

LEMMA ListWithout ==
    ASSUME NEW p, NEW list, ListGood(p, list), NEW q \in p.asked, NEW r, Same(r, p), r.asked = p.asked \ {q}
    PROVE  /\ ListGood(r, list) /\ Cardinality(r.asked) < MaxAsked["lists"]
           /\ p.name = "sessions" /\ q.op = "list" => ~r.loaded /\ \A x \in r.asked : x.op # "list"
<1>1. IsFiniteSet(p.asked \ {q}) /\ Cardinality(p.asked \ {q}) < MaxAsked["lists"]
  BY OneLess, ListAssumption DEF ListGood, ListType, ListShape
<1>2. Cardinality(p.asked \ {q}) \in Nat
  BY <1>1, FS_CardinalityType
<1>3. ListType(r)
  BY <1>1, <1>2, ListAssumption DEF ListGood, ListType, ListShape, Same
<1>4. p.name = "sessions" => Awaited(r, list)
  BY DEF ListGood, Awaited, Same
<1> QED
  BY <1>1, <1>3, <1>4 DEF ListGood, Awaited, Same

LEMMA ListHandled ==
    ASSUME NEW p, NEW list, ListGood(p, list), NEW q \in p.asked, NEW h \in ListRequests(p.name), h.op = q.op, h.stage = "ok",
           NEW next, p.name = "sessions" => next \subseteq list /\ (h.op = "list" => next \subseteq h.got)
                                            /\ (h.op = "remove" => h.item \notin next),
           NEW r, Same(r, p), r.asked = (p.asked \ {q}) \cup {h}
    PROVE  ListGood(r, next)
<1>1. /\ IsFiniteSet(p.asked \ {q}) /\ Cardinality(p.asked \ {q}) < MaxAsked["lists"]
  BY OneLess, ListAssumption DEF ListGood, ListType, ListShape
<1> DEFINE S == p.asked \ {q}
<1>2. IsFiniteSet(S \cup {h}) /\ Cardinality(S \cup {h}) <= MaxAsked["lists"]
  <2> HIDE DEF S
  <2> QED
    BY <1>1, OneMore, ListAssumption DEF S
<1>3. ListType(r)
  BY <1>2 DEF ListGood, ListType, ListShape, Same
<1>4. p.name = "sessions" => Awaited(r, next)
  BY DEF ListGood, Awaited, Same
<1> QED
  BY <1>3, <1>4 DEF ListGood, Same

LEMMA ListsServed ==
    ASSUME ListsGood, NEW q \in page.asked, Lists!ServerHandles(q)
    PROVE  ListsGood'
<1>0. ListGood(page, srv) /\ ListType(page) /\ q \in ListRequests(page.name) /\ srv \subseteq Items
  BY DEF ListsGood, ListGood, ListType, ListShape
<1>1. q.item \in Items \cup {0} /\ q.op \in OpsOf[page.name]
  BY <1>0 DEF ListRequests
<1>2. ASSUME NEW item \in Items \cup {0}, NEW got \in SUBSET Items, Lists!Handled(q, item, got), srv' \subseteq Items,
             page.name = "sessions" => srv' \subseteq srv /\ (q.op = "list" => srv' \subseteq got)
                                       /\ (q.op = "remove" => item \notin srv')
      PROVE  ListsGood'
  <2> DEFINE h == [q EXCEPT !.stage = "ok", !.item = item, !.got = got]
  <2>1. h \in ListRequests(page.name) /\ h.op = q.op /\ h.stage = "ok" /\ h.item = item /\ h.got = got
    BY <1>0 DEF ListRequests
  <2>2. Same(page', page) /\ page'.asked = (page.asked \ {q}) \cup {h}
    BY <1>0, <1>2 DEF Lists!Handled, Same, ListType, ListShape
  <2> HIDE DEF h
  <2>3. ListGood(page', srv')
    BY <1>0, <1>2, <2>1, <2>2, ListHandled
  <2> QED
    BY <2>3, <1>2 DEF ListsGood
<1>3. CASE q.op \in {"list", "reload"} /\ Lists!Handled(q, q.item, srv) /\ UNCHANGED srv
  BY <1>0, <1>1, <1>2, <1>3
<1>4. CASE q.op = "remove" /\ Lists!Handled(q, q.item, {}) /\ srv' = srv \ {q.item}
  BY <1>0, <1>1, <1>2, <1>4
<1>5. CASE q.op = "all" /\ Lists!Handled(q, q.item, {}) /\ srv' = {}
  BY <1>0, <1>1, <1>2, <1>5
<1>6. ASSUME q.op = "create", NEW i \in Items \ srv, Lists!Handled(q, i, srv \cup {i}), srv' = srv \cup {i}
      PROVE  ListsGood'
  <2>1. page.name # "sessions"
    BY <1>1, <1>6 DEF OpsOf
  <2>2. srv \cup {i} \in SUBSET Items /\ i \in Items \cup {0}
    BY <1>0
  <2> QED
    BY <1>2, <1>6, <2>1, <2>2
<1> QED
  BY <1>3, <1>4, <1>5, <1>6 DEF Lists!ServerHandles

\* What a panel other than that of the sessions makes of an answer.
Answered(r, p) ==
    /\ DOMAIN r = DOMAIN p /\ r.name = p.name /\ r.rows \subseteq Items /\ r.loaded \in BOOLEAN
    /\ r.busy \in Items \cup {0, 100, 101, 102}
    /\ \/ r.asked = p.asked
       \/ \E op \in OpsOf[p.name] : r.asked = p.asked \cup {Lists!Request(op, 0)}

LEMMA ListAnswered ==
    ASSUME NEW p, NEW list, ListGood(p, list), p.name # "sessions", Cardinality(p.asked) < MaxAsked["lists"], NEW r, Answered(r, p)
    PROVE  ListGood(r, list)
<1>1. r.asked \subseteq ListRequests(p.name)
  BY DEF Lists!Request, ListRequests, ListGood, ListType, ListShape, Answered
<1>2. IsFiniteSet(r.asked) /\ Cardinality(r.asked) <= MaxAsked["lists"]
  <2>1. CASE r.asked = p.asked
    BY <2>1 DEF ListGood, ListType, ListShape
  <2>2. ASSUME NEW x, r.asked = p.asked \cup {x} PROVE IsFiniteSet(r.asked) /\ Cardinality(r.asked) <= MaxAsked["lists"]
    <3>1. IsFiniteSet(p.asked) /\ MaxAsked["lists"] \in Nat
      BY ListAssumption DEF ListGood, ListType
    <3>2. IsFiniteSet(p.asked \cup {x}) /\ Cardinality(p.asked \cup {x}) <= MaxAsked["lists"]
      BY <3>1, OneMore
    <3> QED
      BY <2>2, <3>2
  <2> QED
    BY <2>1, <2>2 DEF Answered
<1> QED
  BY <1>1, <1>2 DEF ListGood, ListType, ListShape, Answered

LEMMA PanelsAnswer ==
    ASSUME NEW p, ListShape(p), NEW q \in ListRequests(p.name), NEW ok \in BOOLEAN
    PROVE  /\ p.name = "passkeys" => Answered(Lists!PasskeysAnswer(p, q, ok), p)
           /\ p.name = "tokens" => Answered(Lists!TokensAnswer(p, q, ok), p)
           /\ p.name = "admin" => Answered(Lists!AdminAnswer(p, q, ok), p)
<1>1. q.op \in OpsOf[p.name] /\ q.got \subseteq Items /\ q.item \in Items \cup {0}
  BY DEF ListRequests
<1> DEFINE got == IF ok THEN q.got ELSE {}
<1>2. ASSUME NEW r, DOMAIN r = DOMAIN p, r.name = p.name, p.name # "sessions", r.busy \in Items \cup {0, 100, 101, 102}, r.asked = p.asked,
             NEW g \in SUBSET Items
      PROVE  Answered(Lists!Show(r, g), p)
  BY <1>2 DEF Lists!Show, ListShape, Answered
<1>3. ASSUME NEW r, DOMAIN r = DOMAIN p, r.name = p.name, r.rows = p.rows, r.loaded = p.loaded,
             r.busy \in Items \cup {0, 100, 101, 102}, r.asked = p.asked
      PROVE  /\ Answered(r, p) /\ Answered(Lists!Failed(r), p)
             /\ \A op \in OpsOf[p.name] : Answered(Lists!Ask(r, op, 0), p)
  <2>1. Answered(r, p)
    BY <1>3 DEF ListShape, Answered
  <2>2. Answered(Lists!Failed(r), p)
    BY <1>3 DEF Lists!Failed, ListShape, Answered
  <2>3. ASSUME NEW op \in OpsOf[p.name] PROVE Answered(Lists!Ask(r, op, 0), p)
    <3> DEFINE s == Lists!Ask(r, op, 0)
    <3>1. /\ DOMAIN s = DOMAIN p /\ s.name = p.name /\ s.rows = p.rows /\ s.loaded = p.loaded /\ s.busy = r.busy
          /\ s.asked = p.asked \cup {Lists!Request(op, 0)}
      BY <1>3 DEF Lists!Ask, ListShape
    <3> HIDE DEF s
    <3>2. Answered(s, p)
      BY <3>1, <1>3, <2>3 DEF ListShape, Answered
    <3> QED
      BY <3>2 DEF s
  <2> QED
    BY <2>1, <2>2, <2>3
<1> DEFINE idle == [p EXCEPT !.busy = 0]
<1>4. ASSUME NEW b PROVE
        LET r == [p EXCEPT !.fresh = b] IN
        /\ DOMAIN r = DOMAIN p /\ r.name = p.name /\ r.rows = p.rows /\ r.loaded = p.loaded
        /\ r.busy \in Items \cup {0, 100, 101, 102} /\ r.asked = p.asked
  BY DEF ListShape
<1>5. LET r == [p EXCEPT !.error = FALSE] IN
      /\ DOMAIN r = DOMAIN p /\ r.name = p.name /\ r.rows = p.rows /\ r.loaded = p.loaded
      /\ r.busy \in Items \cup {0, 100, 101, 102} /\ r.asked = p.asked
  BY DEF ListShape
<1>6. /\ DOMAIN idle = DOMAIN p /\ idle.name = p.name /\ idle.rows = p.rows /\ idle.loaded = p.loaded
      /\ idle.busy \in Items \cup {0, 100, 101, 102} /\ idle.asked = p.asked
  BY DEF ListShape
<1>7. p.busy \in Items \cup {0, 100, 101, 102}
  BY DEF ListShape
<1>8. got \in SUBSET Items
  BY <1>1
<1>9. ASSUME NEW r, Answered(r, p) PROVE Answered([r EXCEPT !.error = FALSE], p)
  BY <1>9 DEF ListShape, Answered
<1> HIDE DEF idle, got
<1>10. CASE p.name = "passkeys"
  <2>1. q.op \in {"list", "create", "remove", "reload"} /\ "reload" \in OpsOf[p.name]
    BY <1>1, <1>10 DEF OpsOf
  <2>2. Lists!PasskeysAnswer(p, q, ok) \in {Lists!Show(p, got), Lists!Show(idle, got), Lists!Failed(idle), Lists!Ask(p, "reload", 0)}
    BY <2>1 DEF Lists!PasskeysAnswer, Lists!Nobody, idle, got
  <2> QED
    BY <1>2, <1>3, <1>6, <1>7, <1>8, <1>10, <2>1, <2>2
<1>11. CASE p.name = "tokens"
  <2>1. q.op \in {"list", "create", "remove", "reload"} /\ {"reload", "list"} \subseteq OpsOf[p.name]
    BY <1>1, <1>11 DEF OpsOf
  <2>2. Lists!TokensAnswer(p, q, ok) \in
          {[Lists!Show(p, q.got) EXCEPT !.error = FALSE], [Lists!Show(idle, q.got) EXCEPT !.error = FALSE], Lists!Failed(p),
           Lists!Failed(idle), Lists!Ask([p EXCEPT !.fresh = q.item], "reload", 0), Lists!Ask(p, "list", 0)}
    BY <2>1 DEF Lists!TokensAnswer, Lists!Nobody, idle
  <2>3. /\ Answered([Lists!Show(p, q.got) EXCEPT !.error = FALSE], p)
        /\ Answered([Lists!Show(idle, q.got) EXCEPT !.error = FALSE], p)
    BY <1>1, <1>2, <1>6, <1>7, <1>9, <1>11
  <2>4. Answered(Lists!Ask([p EXCEPT !.fresh = q.item], "reload", 0), p)
    BY <1>3, <1>4, <2>1
  <2>5. Answered(Lists!Failed(p), p) /\ Answered(Lists!Failed(idle), p) /\ Answered(Lists!Ask(p, "list", 0), p)
    BY <1>3, <1>6, <1>7, <2>1
  <2> QED
    BY <1>11, <2>2, <2>3, <2>4, <2>5
<1>12. CASE p.name = "admin"
  <2>1. q.op \in {"list", "create", "remove"} /\ "list" \in OpsOf[p.name]
    BY <1>1, <1>12 DEF OpsOf
  <2>2. Lists!AdminAnswer(p, q, ok) \in
          {Lists!Show(p, got), Lists!Ask([p EXCEPT !.error = FALSE], "list", 0), Lists!Failed(p), Lists!Ask(p, "list", 0), p}
    BY <2>1 DEF Lists!AdminAnswer, got
  <2>3. Answered(Lists!Ask([p EXCEPT !.error = FALSE], "list", 0), p)
    BY <1>3, <1>5, <2>1
  <2> QED
    BY <1>2, <1>3, <1>7, <1>8, <1>12, <2>1, <2>2, <2>3
<1> QED
  BY <1>10, <1>11, <1>12

\* What the panel of the sessions makes of one: the first list is what it was
\* told of, and a row leaves with its session.
LEMMA SessionsAnswered ==
    ASSUME NEW p, NEW list, ListGood(p, list), p.name = "sessions", NEW q \in p.asked, NEW ok \in BOOLEAN, ok => q.stage = "ok"
    PROVE  LET w == [p EXCEPT !.asked = @ \ {q}] IN ListGood(Lists!SessionsAnswer(w, q, ok), list)
<1> DEFINE w == [p EXCEPT !.asked = @ \ {q}]
           r == Lists!SessionsAnswer(w, q, ok)
<1>1. q.op \in {"list", "remove", "all"} /\ q.got \subseteq Items /\ q.item \in Items \cup {0}
  BY DEF ListRequests, ListGood, ListType, ListShape, OpsOf
<1>2. Same(w, p) /\ w.asked = p.asked \ {q}
  BY DEF Same, ListGood, ListType, ListShape
<1>3. /\ ListGood(w, list)
      /\ q.op = "list" => ~w.loaded /\ \A x \in w.asked : x.op # "list"
  BY <1>2, ListWithout
<1>4. /\ q.op = "list" /\ ok => list \subseteq q.got
      /\ q.op = "remove" /\ ok => q.item \notin list
  BY DEF ListGood, Awaited
<1>5. w.name = "sessions"
  BY <1>2 DEF Same
<1> HIDE DEF w
<1>6. /\ DOMAIN r = DOMAIN w /\ r.name = w.name /\ r.busy \in Items \cup {0, 100, 101, 102} /\ r.asked = w.asked
      /\ \/ r.rows = w.rows /\ r.was = w.was /\ r.loaded = w.loaded
         \/ q.op = "list" /\ ok /\ r.rows = q.got /\ r.was = q.got /\ r.loaded = TRUE
         \/ q.op = "remove" /\ ok /\ r.rows = w.rows \ {q.item} /\ r.was = w.was /\ r.loaded = w.loaded
  BY <1>1, <1>3, <1>5, Zenon DEF Lists!SessionsAnswer, Lists!Show, Lists!Failed, Lists!Nobody, ListGood, ListType, ListShape
<1> HIDE DEF r
<1>7. ListType(r)
  BY <1>1, <1>3, <1>6 DEF ListGood, ListType, ListShape
<1>8. Awaited(r, list) /\ (r.loaded => (r.was \ r.rows) \cap list = {})
  BY <1>3, <1>4, <1>5, <1>6 DEF ListGood, Awaited
<1>9. ListGood(r, list)
  BY <1>7, <1>8 DEF ListGood
<1> QED
  BY <1>9 DEF r, w

LEMMA ListsAnswered ==
    ASSUME ListsGood, NEW q \in page.asked, Lists!Answer(q)
    PROVE  ListsGood'
<1> DEFINE w == [page EXCEPT !.asked = @ \ {q}]
<1>1. PICK ok \in BOOLEAN :
        /\ ok => q.stage = "ok"
        /\ \/ Lists!Open("passkeys") /\ Lists!To(Lists!PasskeysAnswer(w, q, ok))
           \/ Lists!Open("sessions") /\ Lists!To(Lists!SessionsAnswer(w, q, ok))
           \/ Lists!Open("tokens") /\ Lists!To(Lists!TokensAnswer(w, q, ok))
           \/ Lists!Open("admin") /\ Lists!To(Lists!AdminAnswer(w, q, ok))
  BY Zenon DEF Lists!Answer
<1>0. ListGood(page, srv) /\ q \in ListRequests(page.name) /\ srv \subseteq Items
  BY DEF ListsGood, ListGood, ListType, ListShape
<1>2. CASE page.name = "sessions"
  <2>1. page' = Lists!SessionsAnswer(w, q, ok) /\ UNCHANGED srv
    BY <1>1, <1>2 DEF Lists!To, Lists!Open
  <2>2. ListGood(Lists!SessionsAnswer(w, q, ok), srv)
    BY <1>0, <1>1, <1>2, SessionsAnswered
  <2> QED
    BY <2>1, <2>2, <1>0 DEF ListsGood
<1>3. CASE page.name # "sessions"
  <2>1. Same(w, page) /\ w.asked = page.asked \ {q}
    BY <1>0 DEF Same, ListGood, ListType, ListShape
  <2>2. ListGood(w, srv) /\ Cardinality(w.asked) < MaxAsked["lists"] /\ w.name = page.name
    BY <1>0, <2>1, ListWithout, Zenon DEF Same
  <2> HIDE DEF w
  <2>3. Answered(page', w) /\ UNCHANGED srv
    BY <1>0, <1>1, <1>3, <2>2, PanelsAnswer DEF Lists!To, Lists!Open, ListGood, ListType
  <2>4. ListGood(page', srv)
    BY <1>3, <2>2, <2>3, ListAnswered
  <2> QED
    BY <2>3, <2>4, <1>0 DEF ListsGood
<1> QED
  BY <1>2, <1>3

LEMMA ListsKeep == ListsGood /\ Lists!Next => ListsGood'
<1> SUFFICES ASSUME ListsGood, Lists!Next PROVE ListsGood'
  OBVIOUS
<1>1. CASE Lists!Act \/ Lists!EnrolPrompt
  BY <1>1, ListActs
<1>2. CASE Lists!Forbidden
  <2>1. PICK q \in page.asked : Lists!To([page EXCEPT !.asked = @ \ {q}, !.forbidden = TRUE])
    BY <1>2, Zenon DEF Lists!Forbidden
  <2>2. Same(page', page) /\ page'.asked = page.asked \ {q} /\ UNCHANGED srv
    BY <2>1 DEF Lists!To, Same, ListsGood, ListGood, ListType, ListShape
  <2> QED
    BY <2>2, ListWithout DEF ListsGood
<1>3. ASSUME NEW q \in page.asked, Lists!ServerHandles(q) \/ Lists!Answer(q) PROVE ListsGood'
  BY <1>3, ListsServed, ListsAnswered
<1>4. ASSUME NEW i \in Items, Lists!Elsewhere(i) PROVE ListsGood'
  <2>1. UNCHANGED page /\ srv' \subseteq srv
    BY <1>4 DEF Lists!Elsewhere
  <2> QED
    BY <2>1, ListShrinks DEF ListsGood
<1> QED
  BY <1>1, <1>2, <1>3, <1>4 DEF Lists!Next

LEMMA ListsHold == ListsGood => OpenIn(ListNames) /\ Lists!TypeOK /\ Lists!GoneMeansEnded
BY ListCount DEF ListsGood, ListGood, ListType, ListShape, Lists!TypeOK, Lists!GoneMeansEnded, Lists!Open, Lists!Nobody, Lists!Creating, Lists!Everything,
       Lists!Prompting, OpenIn, ListNames

-----------------------------------------------------------------------------
(* The hooks that load, poll and draw.                                     *)

PanelType(p) ==
    /\ DOMAIN p = {"name", "key", "enabled", "data", "busy", "error", "asked"} /\ p.name = "panel" /\ p.key \in Keys
    /\ p.enabled \in BOOLEAN /\ p.busy \in BOOLEAN /\ p.error \in BOOLEAN
    /\ p.asked \subseteq [key : Keys, latest : BOOLEAN]
\* There is one latest request, which the panel waits for; it is for the key of
\* the panel while the hook is on.
PanelGood(p) ==
    /\ PanelType(p) /\ (p.enabled => p.data \in {None, p.key}) /\ ~(p.error /\ p.data # None)
    /\ \A q \in p.asked : q.latest => (p.enabled => q.key = p.key) /\ p.busy /\ p.data = None /\ ~p.error
    /\ \A q, r \in p.asked : q.latest /\ r.latest => q = r
    /\ p.busy => \E q \in p.asked : q.latest

SnapshotType(p) ==
    /\ DOMAIN p = {"name", "key", "data", "error", "asked"} /\ p.name = "snapshot" /\ p.key \in Keys /\ p.error \in BOOLEAN
    /\ p.asked \subseteq [key : Keys, alive : BOOLEAN]
SnapshotGood(p) ==
    /\ SnapshotType(p) /\ p.data \in {None, p.key} /\ ~(p.error /\ p.data # None)
    /\ \A q \in p.asked : q.alive => q.key = p.key /\ p.data = None /\ ~p.error
    /\ ~p.error /\ p.data = None => \E q \in p.asked : q.alive

\* Of a page only its name, where no theorem is about the rest.
Named(p, names) == "name" \in DOMAIN p /\ p.name \in names

\* What the badge waits for is what the socket says.
BadgeGood(p) ==
    /\ DOMAIN p = {"name", "raw", "now", "timer", "state"} /\ p.name = "badge"
    /\ DOMAIN p.state = {"shown", "shownSince", "candidate", "candidateSince"}
    /\ p.state.candidate = p.raw
\* A tick that is not drawn has its frame.
TicksGood(p) ==
    /\ DOMAIN p = {"name", "latest", "drawn", "scheduled"} /\ p.name = "ticks"
    /\ p.drawn # p.latest => p.scheduled

HookGood == PanelGood(page) \/ SnapshotGood(page) \/ Named(page, {"poll"}) \/ BadgeGood(page) \/ TicksGood(page)

LEMMA PanelLoads ==
    ASSUME NEW p, PanelType(p), ~p.enabled => PanelGood(p)
    PROVE  PanelGood(Hook!Load(p))
<1> DEFINE old == {[q EXCEPT !.latest = FALSE] : q \in p.asked}
           new == [key |-> p.key, latest |-> TRUE]
           r == Hook!Load(p)
<1>0. CASE ~p.enabled
  BY <1>0 DEF Hook!Load
<1>1. old \subseteq [key : Keys, latest : {FALSE}]
  BY DEF PanelType
<1>2. new \in [key : Keys, latest : BOOLEAN] /\ new.key = p.key /\ new.latest = TRUE
  BY DEF PanelType
<1>3. ASSUME p.enabled
      PROVE  /\ DOMAIN r = DOMAIN p /\ r.name = "panel" /\ r.key = p.key /\ r.enabled = p.enabled
             /\ r.busy = TRUE /\ r.error = FALSE /\ r.data = None /\ r.asked = old \cup {new}
  BY <1>3 DEF Hook!Load, PanelType
<1> HIDE DEF old, new, r
<1>4. ASSUME p.enabled
      PROVE  /\ r.asked \subseteq [key : Keys, latest : BOOLEAN] /\ new \in r.asked
             /\ \A q \in r.asked : q.latest => q = new
  BY <1>1, <1>2, <1>3, <1>4
<1>5. ASSUME p.enabled PROVE PanelGood(r)
  BY <1>2, <1>3, <1>4, <1>5 DEF PanelType, PanelGood
<1> QED
  BY <1>0, <1>5 DEF r

LEMMA SnapshotFetches ==
    ASSUME NEW p, SnapshotType(p)
    PROVE  SnapshotGood(Hook!Fetch(p))
<1> DEFINE old == {[q EXCEPT !.alive = FALSE] : q \in p.asked}
           new == [key |-> p.key, alive |-> TRUE]
           r == Hook!Fetch(p)
<1>1. old \subseteq [key : Keys, alive : {FALSE}]
  BY DEF SnapshotType
<1>2. new \in [key : Keys, alive : BOOLEAN] /\ new.key = p.key /\ new.alive = TRUE
  BY DEF SnapshotType
<1>3. /\ DOMAIN r = DOMAIN p /\ r.name = "snapshot" /\ r.key = p.key /\ r.error = FALSE /\ r.data = None
      /\ r.asked = old \cup {new}
  BY DEF Hook!Fetch, SnapshotType
<1> HIDE DEF old, new, r
<1>4. /\ r.asked \subseteq [key : Keys, alive : BOOLEAN] /\ new \in r.asked
      /\ \A q \in r.asked : q.alive => q = new
  BY <1>1, <1>2, <1>3
<1>5. SnapshotGood(r)
  BY <1>2, <1>3, <1>4 DEF SnapshotType, SnapshotGood
<1> QED
  BY <1>5 DEF r

LEMMA HookStarts == Hook!Init => HookGood
<1>1. ASSUME NEW k \in Keys, NEW on \in BOOLEAN, page = Hook!PanelPage(k, on) PROVE PanelGood(page)
  <2> DEFINE p == [name |-> "panel", key |-> k, enabled |-> on, data |-> None, busy |-> on, error |-> FALSE, asked |-> {}]
  <2>1. PanelType(p) /\ (~p.enabled => PanelGood(p))
    BY DEF PanelType, PanelGood
  <2> QED
    BY <1>1, <2>1, PanelLoads DEF Hook!PanelPage
<1>2. ASSUME NEW k \in Keys, page = Hook!SnapshotPage(k) PROVE SnapshotGood(page)
  <2> DEFINE q == [key |-> k, alive |-> TRUE]
  <2>1. q \in [key : Keys, alive : BOOLEAN] /\ q.key = k /\ q.alive = TRUE
    OBVIOUS
  <2>2. /\ DOMAIN page = {"name", "key", "data", "error", "asked"} /\ page.name = "snapshot" /\ page.key = k
        /\ page.data = None /\ page.error = FALSE /\ page.asked = {q}
    BY <1>2 DEF Hook!SnapshotPage
  <2> HIDE DEF q
  <2> QED
    BY <2>1, <2>2 DEF SnapshotGood, SnapshotType
<1>3. ASSUME NEW k \in Keys, NEW v \in BOOLEAN, page = Hook!PollPage(k, v) PROVE Named(page, {"poll"})
  BY <1>3 DEF Hook!PollPage, Hook!Mounted, Hook!Run, Named
<1>4. ASSUME NEW s \in Statuses, page = Hook!BadgePage(s) PROVE BadgeGood(page)
  BY <1>4 DEF Hook!BadgePage, BadgeGood
<1>5. ASSUME page = Hook!TicksPage PROVE TicksGood(page)
  BY <1>5 DEF Hook!TicksPage, TicksGood
<1> QED
  BY <1>1, <1>2, <1>3, <1>4, <1>5 DEF Hook!Init, HookGood

LEMMA PanelKeeps ==
    ASSUME PanelGood(page), Hook!Next
    PROVE  PanelGood(page')
<1>0. PanelType(page)
  BY DEF PanelGood
<1>1. CASE Hook!PanelKey
  <2>1. PICK k \in Keys \ {page.key} : page' = Hook!Load([page EXCEPT !.key = k])
    BY <1>1 DEF Hook!PanelKey, Hook!To
  <2> DEFINE p == [page EXCEPT !.key = k]
  <2>2. PanelType(p) /\ (~p.enabled => PanelGood(p))
    BY <1>0 DEF PanelType, PanelGood
  <2> QED
    BY <2>1, <2>2, PanelLoads
<1>5. CASE Hook!PanelToggle
  <2> DEFINE p == [page EXCEPT !.enabled = ~@]
  <2>1. PanelType(p) /\ (~p.enabled => PanelGood(p))
    BY <1>0 DEF PanelType, PanelGood
  <2> QED
    BY <1>5, <2>1, PanelLoads DEF Hook!PanelToggle, Hook!To
<1>2. CASE Hook!PanelRetry
  BY <1>0, <1>2, PanelLoads DEF Hook!PanelRetry, Hook!To
<1>3. CASE Hook!PanelHears
  <2>1. PICK q \in page.asked, ok \in BOOLEAN : Hook!PanelAnswers(q, ok)
    BY <1>3 DEF Hook!PanelHears
  <2> QED
    BY <2>1 DEF Hook!PanelAnswers, Hook!To, PanelGood, PanelType
<1>4. CASE Hook!PanelDeadline
  <2>1. PICK q \in page.asked : Hook!GiveUp(q)
    BY <1>4 DEF Hook!PanelDeadline
  <2>2. \A r \in page.asked : r.latest => r = q
    BY <2>1 DEF Hook!GiveUp, PanelGood
  <2>3. /\ q.latest /\ page.data = None
        /\ [q EXCEPT !.latest = FALSE] \in [key : Keys, latest : {FALSE}]
    BY <2>1 DEF Hook!GiveUp, PanelGood, PanelType
  <2> DEFINE r == [q EXCEPT !.latest = FALSE]
  <2>4. page' = [page EXCEPT !.error = TRUE, !.busy = FALSE, !.asked = (@ \ {q}) \cup {r}]
    BY <2>1 DEF Hook!GiveUp, Hook!To
  <2> HIDE DEF r
  <2>5. r \in [key : Keys, latest : {FALSE}]
    BY <2>3 DEF r
  <2> QED
    BY <2>2, <2>3, <2>4, <2>5 DEF PanelGood, PanelType
<1> QED
  BY <1>0, <1>1, <1>2, <1>3, <1>4, <1>5
     DEF Hook!Next, Hook!SnapshotKey, Hook!SnapshotRetry, Hook!SnapshotHears, Hook!PollKey, Hook!Refresh, Hook!Elapse, Hook!Poll,
         Hook!Hide, Hook!Show, Hook!PollAnswers, Hook!PollFails, Hook!SocketChanges, Hook!Tick, Hook!BadgeTimer, Hook!TickComes,
         Hook!FrameRuns, Hook!Open, PanelType

LEMMA SnapshotKeeps ==
    ASSUME SnapshotGood(page), Hook!Next
    PROVE  SnapshotGood(page')
<1>0. SnapshotType(page)
  BY DEF SnapshotGood
<1>1. CASE Hook!SnapshotKey
  <2>1. PICK k \in Keys \ {page.key} : page' = Hook!Fetch([page EXCEPT !.key = k])
    BY <1>1 DEF Hook!SnapshotKey, Hook!To
  <2>2. SnapshotType([page EXCEPT !.key = k])
    BY <1>0 DEF SnapshotType
  <2> QED
    BY <2>1, <2>2, SnapshotFetches
<1>2. CASE Hook!SnapshotRetry
  BY <1>0, <1>2, SnapshotFetches DEF Hook!SnapshotRetry, Hook!To
<1>3. CASE Hook!SnapshotHears
  <2>1. PICK q \in page.asked, ok \in BOOLEAN : Hook!SnapshotAnswers(q, ok)
    BY <1>3 DEF Hook!SnapshotHears
  <2>2. \A r \in page.asked : r.alive => r = [key |-> page.key, alive |-> TRUE]
    BY DEF SnapshotGood, SnapshotType
  <2> QED
    BY <2>1, <2>2, HookAssumption DEF Hook!SnapshotAnswers, Hook!To, SnapshotGood, SnapshotType
<1> QED
  BY <1>0, <1>1, <1>2, <1>3
     DEF Hook!Next, Hook!PanelKey, Hook!PanelToggle, Hook!PanelRetry, Hook!PanelHears, Hook!PanelDeadline, Hook!PollKey, Hook!Refresh, Hook!Elapse,
         Hook!Poll, Hook!Hide, Hook!Show, Hook!PollAnswers, Hook!PollFails, Hook!SocketChanges, Hook!Tick, Hook!BadgeTimer,
         Hook!TickComes, Hook!FrameRuns, Hook!Open, SnapshotType

LEMMA PollKeeps ==
    ASSUME Named(page, {"poll"}), Hook!Next
    PROVE  Named(page', {"poll"})
<1>1. Hook!PollKey \/ Hook!Refresh \/ Hook!Elapse \/ Hook!Poll \/ Hook!Hide \/ Hook!Show \/ Hook!PollAnswers \/ Hook!PollFails
  BY DEF Hook!Next, Hook!PanelKey, Hook!PanelToggle, Hook!PanelRetry, Hook!PanelHears, Hook!PanelDeadline, Hook!SnapshotKey, Hook!SnapshotRetry,
         Hook!SnapshotHears, Hook!SocketChanges, Hook!Tick, Hook!BadgeTimer, Hook!TickComes, Hook!FrameRuns, Hook!Open, Named
<1> QED
  BY <1>1, Zenon DEF Hook!PollKey, Hook!Refresh, Hook!Elapse, Hook!Poll, Hook!Hide, Hook!Show, Hook!PollAnswers, Hook!PollFails,
     Hook!Mounted, Hook!Run, Hook!To, Named

\* The badge keeps waiting for what the socket says, and what it changes to has
\* lasted.
LEMMA BadgeSteps ==
    ASSUME NEW s, DOMAIN s = {"shown", "shownSince", "candidate", "candidateSince"}, NEW raw, NEW now
    PROVE  LET t == Hook!StepBadge(s, raw, now) IN
           /\ DOMAIN t = DOMAIN s /\ t.candidate = raw
           /\ t.shown # s.shown =>
                 /\ t.shown = raw /\ now - s.shownSince >= MinDwell
                 /\ now - t.candidateSince >= ShowDelay[raw]
BY DEF Hook!StepBadge

BadgeLasts ==
    page'.state.shown # page.state.shown =>
        /\ page'.state.shown = page'.raw
        /\ page'.now - page.state.shownSince >= MinDwell
        /\ page'.now - page'.state.candidateSince >= ShowDelay[page'.raw]

LEMMA BadgeKeeps ==
    ASSUME BadgeGood(page), Hook!Next
    PROVE  BadgeGood(page') /\ BadgeLasts
<1>1. CASE Hook!SocketChanges
  <2>1. PICK s \in Statuses : page' = Hook!Timed([page EXCEPT !.raw = s], Hook!StepBadge(page.state, s, page.now))
    BY <1>1 DEF Hook!SocketChanges, Hook!To
  <2> DEFINE t == Hook!StepBadge(page.state, s, page.now)
  <2>2. /\ DOMAIN page' = DOMAIN page /\ page'.name = "badge" /\ page'.raw = s /\ page'.now = page.now /\ page'.state = t
    BY <2>1 DEF Hook!Timed, BadgeGood
  <2> HIDE DEF t
  <2>3. /\ DOMAIN t = DOMAIN page.state /\ t.candidate = s
        /\ t.shown # page.state.shown =>
              /\ t.shown = s /\ page.now - page.state.shownSince >= MinDwell
              /\ page.now - t.candidateSince >= ShowDelay[s]
    BY BadgeSteps DEF t, BadgeGood
  <2> QED
    BY <2>2, <2>3 DEF BadgeGood, BadgeLasts
<1>2. CASE Hook!BadgeTimer
  <2> DEFINE s == page.raw
             t == Hook!StepBadge(page.state, s, page.now)
  <2>2. /\ DOMAIN page' = DOMAIN page /\ page'.name = "badge" /\ page'.raw = s /\ page'.now = page.now /\ page'.state = t
    BY <1>2 DEF Hook!BadgeTimer, Hook!Timed, Hook!To, BadgeGood
  <2> HIDE DEF t
  <2>3. /\ DOMAIN t = DOMAIN page.state /\ t.candidate = s
        /\ t.shown # page.state.shown =>
              /\ t.shown = s /\ page.now - page.state.shownSince >= MinDwell
              /\ page.now - t.candidateSince >= ShowDelay[s]
    BY BadgeSteps DEF t, BadgeGood
  <2> QED
    BY <2>2, <2>3 DEF BadgeGood, BadgeLasts
<1>3. CASE Hook!Tick
  BY <1>3 DEF Hook!Tick, Hook!To, BadgeGood, BadgeLasts
<1> QED
  BY <1>1, <1>2, <1>3
     DEF Hook!Next, Hook!PanelKey, Hook!PanelToggle, Hook!PanelRetry, Hook!PanelHears, Hook!PanelDeadline, Hook!SnapshotKey, Hook!SnapshotRetry,
         Hook!SnapshotHears, Hook!PollKey, Hook!Refresh, Hook!Elapse, Hook!Poll, Hook!Hide, Hook!Show, Hook!PollAnswers,
         Hook!PollFails, Hook!TickComes, Hook!FrameRuns, Hook!Open, BadgeGood

LEMMA TicksKeep ==
    ASSUME TicksGood(page), Hook!Next
    PROVE  TicksGood(page')
<1>1. Hook!TickComes \/ Hook!FrameRuns
  BY DEF Hook!Next, Hook!PanelKey, Hook!PanelToggle, Hook!PanelRetry, Hook!PanelHears, Hook!PanelDeadline, Hook!SnapshotKey, Hook!SnapshotRetry,
         Hook!SnapshotHears, Hook!PollKey, Hook!Refresh, Hook!Elapse, Hook!Poll, Hook!Hide, Hook!Show, Hook!PollAnswers,
         Hook!PollFails, Hook!SocketChanges, Hook!Tick, Hook!BadgeTimer, Hook!Open, TicksGood
<1> QED
  BY <1>1 DEF Hook!TickComes, Hook!FrameRuns, Hook!To, TicksGood

LEMMA HookKeeps == HookGood /\ Hook!Next => HookGood'
BY PanelKeeps, SnapshotKeeps, PollKeeps, BadgeKeeps, TicksKeep DEF HookGood

LEMMA HookHolds == HookGood => OpenIn(HookPages) /\ Hook!PanelOfKey /\ Hook!FramesFollow
BY DEF HookGood, PanelGood, PanelType, SnapshotGood, SnapshotType, Named, BadgeGood, TicksGood, Hook!PanelOfKey, Hook!FramesFollow,
       Hook!SnapshotShows, Hook!Open, OpenIn, HookPages

-----------------------------------------------------------------------------
(* The dashboard and the watchlist.                                        *)

WatchType(p) ==
    /\ DOMAIN p = {"name", "list", "gone", "creating", "busy", "err", "waited", "asked"} /\ p.name = "watch"
    /\ p.err \in BOOLEAN /\ p.waited \in BOOLEAN
    /\ \A q \in p.asked : DOMAIN q = {"what", "list", "done"}
Current(p, list) == IF list = None THEN p.gone ELSE p.list = list
\* For a reader who waits, the one request under way knows the list of the
\* server; when there is none, the page does, or says that it failed.
WatchGood(p, list) ==
    /\ WatchType(p)
    /\ p.waited =>
          /\ \A q, r \in p.asked : q = r
          /\ \A q \in p.asked : q.done /\ q.what = "load" /\ list # None => q.list = list
          /\ p.asked = {} /\ ~p.err => Current(p, list)
BoardGood == WatchGood(page, srv) \/ Named(page, {"board"})

LEMMA BoardStarts == Board!Init => BoardGood
<1>1. ASSUME srv \in SUBSET Symbols, page = Board!WatchPage(srv) PROVE WatchGood(page, srv)
  BY <1>1, BoardAssumption DEF Board!WatchPage, WatchGood, WatchType, Current
<1>2. ASSUME NEW r, page = Board!BoardPage(None, r) PROVE Named(page, {"board"})
  BY <1>2 DEF Board!BoardPage, Named
<1> QED
  BY <1>1, <1>2 DEF Board!Init, BoardGood

\* A request is sent from a page of the watchlist, whatever else the click did.
LEMMA WatchAsks ==
    ASSUME WatchGood(page, srv), NEW p, DOMAIN p = DOMAIN page, p.name = page.name, p.err \in BOOLEAN, p.waited = page.waited,
           NEW q, \/ p.asked = page.asked
                  \/ q \in page.asked /\ p.asked = page.asked \ {q},
           NEW what, NEW list
    PROVE  WatchGood(Board!Ask(p, what, list), srv)
<1> DEFINE x == [what |-> what, list |-> list, done |-> FALSE]
           r == Board!Ask(p, what, list)
<1>1. DOMAIN x = {"what", "list", "done"} /\ x.done = FALSE
  OBVIOUS
<1>2. /\ DOMAIN r = DOMAIN page /\ r.name = page.name /\ r.err \in BOOLEAN /\ r.asked = p.asked \cup {x}
      /\ r.waited = (page.waited /\ p.asked = {})
  BY DEF Board!Ask, WatchGood, WatchType
<1> HIDE DEF x, r
<1>3. r.waited => page.waited /\ p.asked = {}
  BY <1>2
<1>4. WatchType(r)
  BY <1>1, <1>2 DEF WatchGood, WatchType
<1>5. WatchGood(r, srv)
  BY <1>1, <1>2, <1>3, <1>4 DEF WatchGood
<1> QED
  BY <1>5 DEF r

LEMMA WatchClicks ==
    ASSUME WatchGood(page, srv), Board!EditList \/ Board!Delete \/ Board!Create \/ Board!RetryLoad
    PROVE  WatchGood(page', srv) /\ UNCHANGED srv
<1>0. WatchType(page)
  BY DEF WatchGood
<1>1. ASSUME NEW what, NEW list, page' = Board!Ask(page, what, list) PROVE WatchGood(page', srv)
  BY <1>0, <1>1, WatchAsks DEF WatchType
<1>2. ASSUME NEW list, page' = Board!Ask([page EXCEPT !.busy = TRUE, !.err = FALSE], "save", list) PROVE WatchGood(page', srv)
  <2> DEFINE p == [page EXCEPT !.busy = TRUE, !.err = FALSE]
  <2>1. DOMAIN p = DOMAIN page /\ p.name = page.name /\ p.err \in BOOLEAN /\ p.waited = page.waited /\ p.asked = page.asked
    BY <1>0 DEF WatchType
  <2> HIDE DEF p
  <2>2. WatchGood(Board!Ask(p, "save", list), srv)
    BY <2>1, WatchAsks
  <2> QED
    BY <1>2, <2>2 DEF p
<1>3. ASSUME NEW list, page' = Board!Ask([page EXCEPT !.creating = TRUE, !.err = FALSE], "create", list) PROVE WatchGood(page', srv)
  <2> DEFINE p == [page EXCEPT !.creating = TRUE, !.err = FALSE]
  <2>1. DOMAIN p = DOMAIN page /\ p.name = page.name /\ p.err \in BOOLEAN /\ p.waited = page.waited /\ p.asked = page.asked
    BY <1>0 DEF WatchType
  <2> HIDE DEF p
  <2>2. WatchGood(Board!Ask(p, "create", list), srv)
    BY <2>1, WatchAsks
  <2> QED
    BY <1>3, <2>2 DEF p
<1> QED
  BY <1>1, <1>2, <1>3 DEF Board!EditList, Board!Mutate, Board!Delete, Board!Create, Board!RetryLoad, Board!To

LEMMA WatchServed ==
    ASSUME WatchGood(page, srv), NEW q \in page.asked, Board!ServerAnswers(q)
    PROVE  WatchGood(page', srv')
<1> DEFINE h == [q EXCEPT !.done = TRUE, !.list = IF q.what = "load" /\ srv # None THEN srv ELSE @]
<1>1. DOMAIN q = {"what", "list", "done"}
  BY DEF WatchGood, WatchType
<1>2. DOMAIN h = {"what", "list", "done"} /\ h.what = q.what /\ (h.what = "load" /\ srv # None => h.list = srv)
  BY <1>1
<1>3. page' = [page EXCEPT !.asked = (@ \ {q}) \cup {h}] /\ (q.what = "load" => srv' = srv)
  BY DEF Board!ServerAnswers
<1> HIDE DEF h
<1>4. /\ DOMAIN page' = DOMAIN page /\ page'.name = page.name /\ page'.err = page.err /\ page'.waited = page.waited
      /\ page'.asked = (page.asked \ {q}) \cup {h}
  BY <1>3 DEF WatchGood, WatchType
<1>5. WatchType(page')
  BY <1>2, <1>4 DEF WatchGood, WatchType
<1>6. page.waited => page.asked = {q}
  BY DEF WatchGood
<1> QED
  BY <1>2, <1>3, <1>4, <1>5, <1>6 DEF WatchGood

LEMMA WatchAnswered ==
    ASSUME WatchGood(page, srv), NEW q \in page.asked, NEW ok \in BOOLEAN, ok => q.done, Board!Answers(q, ok)
    PROVE  WatchGood(page', srv) /\ UNCHANGED srv
<1> DEFINE p == [page EXCEPT !.asked = @ \ {q}]
<1>0. WatchType(page) /\ (page.waited => page.asked = {q})
  BY DEF WatchGood
<1>1. DOMAIN p = DOMAIN page /\ p.name = page.name /\ p.err = page.err /\ p.waited = page.waited /\ p.asked = page.asked \ {q}
  BY <1>0 DEF WatchType
<1>2. UNCHANGED srv
  BY DEF Board!Answers, Board!To
\* A failure says so.
<1>3. ASSUME DOMAIN page' = DOMAIN page, page'.name = page.name, page'.err = TRUE, page'.waited = page.waited, page'.asked = page.asked \ {q}
      PROVE  WatchGood(page', srv)
  BY <1>0, <1>3 DEF WatchGood, WatchType
<1>4. CASE q.what = "load" /\ ok
  <2>1. page' = [p EXCEPT !.list = q.list, !.gone = srv = None, !.err = FALSE]
    BY <1>4 DEF Board!Answers, Board!To
  <2>2. /\ DOMAIN page' = DOMAIN page /\ page'.name = page.name /\ page'.err = FALSE /\ page'.waited = page.waited
        /\ page'.asked = page.asked \ {q} /\ page'.list = q.list /\ page'.gone = (srv = None)
    BY <1>0, <1>1, <2>1 DEF WatchType
  <2>3. page.waited /\ srv # None => q.list = srv
    BY <1>4 DEF WatchGood
  <2>4. page.waited => Current(page', srv)
    <3>1. CASE srv = None
      BY <2>2, <3>1 DEF Current
    <3>2. CASE srv # None
      BY <2>2, <2>3, <3>2 DEF Current
    <3> QED
      BY <3>1, <3>2
  <2>5. WatchType(page')
    BY <1>0, <2>2 DEF WatchType
  <2> QED
    BY <1>0, <1>2, <2>2, <2>4, <2>5 DEF WatchGood
<1>5. CASE q.what # "load" /\ ok
  <2>1. \/ page' = Board!Ask([p EXCEPT !.busy = FALSE], "load", {})
        \/ page' = Board!Ask([p EXCEPT !.creating = FALSE], "load", {})
        \/ page' = Board!Ask(p, "load", {})
    BY <1>5 DEF Board!Answers, Board!To
  <2>2. ASSUME NEW r, DOMAIN r = DOMAIN p, r.name = p.name, r.err = p.err, r.waited = p.waited, r.asked = p.asked,
               page' = Board!Ask(r, "load", {})
        PROVE  WatchGood(page', srv)
    <3>1. DOMAIN r = DOMAIN page /\ r.name = page.name /\ r.err \in BOOLEAN /\ r.waited = page.waited /\ r.asked = page.asked \ {q}
      BY <1>0, <1>1, <2>2 DEF WatchType
    <3> QED
      BY <2>2, <3>1, WatchAsks
  <2>3. LET r == [p EXCEPT !.busy = FALSE] IN
        DOMAIN r = DOMAIN p /\ r.name = p.name /\ r.err = p.err /\ r.waited = p.waited /\ r.asked = p.asked
    BY <1>0, <1>1 DEF WatchType
  <2>4. LET r == [p EXCEPT !.creating = FALSE] IN
        DOMAIN r = DOMAIN p /\ r.name = p.name /\ r.err = p.err /\ r.waited = p.waited /\ r.asked = p.asked
    BY <1>0, <1>1 DEF WatchType
  <2> HIDE DEF p
  <2> QED
    BY <1>2, <2>1, <2>2, <2>3, <2>4
<1>6. CASE ~ok
  <2>1. \/ page' = [p EXCEPT !.err = TRUE]
        \/ page' = [p EXCEPT !.busy = FALSE, !.err = TRUE]
        \/ page' = [p EXCEPT !.creating = FALSE, !.err = TRUE]
    BY <1>6 DEF Board!Answers, Board!To
  <2> HIDE DEF p
  <2>2. /\ DOMAIN page' = DOMAIN page /\ page'.name = page.name /\ page'.err = TRUE /\ page'.waited = page.waited
        /\ page'.asked = page.asked \ {q}
    BY <1>0, <1>1, <2>1 DEF WatchType
  <2> QED
    BY <1>2, <2>2, <1>3
<1> QED
  BY <1>2, <1>4, <1>5, <1>6

LEMMA BoardKeeps == BoardGood /\ Board!Next => BoardGood'
<1>1. ASSUME WatchGood(page, srv), Board!Next PROVE WatchGood(page', srv')
  <2>1. CASE Board!EditList \/ Board!Delete \/ Board!Create \/ Board!RetryLoad
    BY <1>1, <2>1, WatchClicks
  <2>2. CASE Board!WatchRequests
    BY <1>1, <2>2, WatchServed, WatchAnswered DEF Board!WatchRequests
  <2> QED
    BY <1>1, <2>1, <2>2
       DEF Board!Next, Board!Edit, Board!Hide, Board!AddPreset, Board!AddCustom, Board!AddOther, Board!Move, Board!RemoveBoard,
           Board!Rename, Board!Collapse, Board!EditSymbols, Board!SwitchRegion, Board!Reset, Board!Reload, Board!Editing, Board!Update,
           Board!Open, WatchGood, WatchType
<1>2. ASSUME Named(page, {"board"}), Board!Next PROVE Named(page', {"board"})
  <2>1. \/ \E b : page' = [page EXCEPT !.editing = b]
        \/ \E l : page' = [page EXCEPT !.layout = l]
        \/ \E l : page' = [page EXCEPT !.layout = l, !.editing = TRUE]
        \/ \E l, r : page' = Board!BoardPage(l, r)
    BY <1>2, Zenon
       DEF Board!Next, Board!Edit, Board!Hide, Board!AddPreset, Board!AddCustom, Board!AddOther, Board!Move, Board!RemoveBoard,
           Board!Rename, Board!Collapse, Board!EditSymbols, Board!SwitchRegion, Board!Reset, Board!Reload, Board!Editing, Board!Update,
           Board!EditList, Board!Delete, Board!Create, Board!RetryLoad, Board!WatchRequests, Board!CanAsk, Board!To, Board!Open, Named
  <2>2. ASSUME NEW l, NEW r PROVE Named(Board!BoardPage(l, r), {"board"})
    BY DEF Board!BoardPage, Named
  <2>3. ASSUME NEW l, NEW b
        PROVE  /\ Named([page EXCEPT !.editing = b], {"board"}) /\ Named([page EXCEPT !.layout = l], {"board"})
               /\ Named([page EXCEPT !.layout = l, !.editing = TRUE], {"board"})
    BY <1>2 DEF Named
  <2> QED
    BY <2>1, <2>2, <2>3, Zenon
<1> QED
  BY <1>1, <1>2 DEF BoardGood

LEMMA BoardKept == BoardGood => OpenIn(BoardPages) /\ Board!ListIsCurrent
BY DEF BoardGood, WatchGood, WatchType, Current, Named, Board!ListIsCurrent, Board!Open, OpenIn, BoardPages

-----------------------------------------------------------------------------
(* The notes.                                                              *)

NoteShape(p) ==
    /\ DOMAIN p = {"name", "ticker", "loads", "busy", "error", "text", "serverText", "timer", "status", "recover",
                   "asked"}
    /\ p.name = "notes" /\ p.ticker \in Tickers
\* Whatever is on its way was typed for the ticker it is of.
LoadsOf(loads, s) ==
    \A q \in loads : /\ DOMAIN q = {"ticker", "latest", "got"} /\ q.ticker \in Tickers
                     /\ q.got # None => q.got.text \in s.texts[q.ticker]
SavesOf(asked, s) ==
    \A q \in asked : DOMAIN q = {"ticker", "text", "done"} /\ q.ticker \in Tickers /\ q.text \in s.texts[q.ticker]
StoreOf(s) ==
    /\ DOMAIN s = {"note", "draft", "texts", "clock"}
    /\ DOMAIN s.note = Tickers /\ DOMAIN s.draft = Tickers /\ DOMAIN s.texts = Tickers
    /\ \A t \in Tickers : 0 \in s.texts[t] /\ s.note[t].text \in s.texts[t]
NoteGood(p, s) ==
    /\ NoteShape(p) /\ StoreOf(s) /\ LoadsOf(p.loads, s) /\ SavesOf(p.asked, s)
    /\ \A q \in p.loads : q.latest => q.ticker = p.ticker
    /\ p.text \in s.texts[p.ticker]
    /\ p.timer # None => p.timer \in s.texts[p.ticker]

LEMMA NoteLoads ==
    ASSUME NEW p, NoteShape(p), NEW s, StoreOf(s), LoadsOf(p.loads, s), SavesOf(p.asked, s), NEW t \in Tickers
    PROVE  NoteGood(Note!Loading(p, t), s) /\ Note!Loading(p, t).asked = p.asked
<1> DEFINE old == {[q EXCEPT !.latest = FALSE] : q \in p.loads}
           new == [ticker |-> t, latest |-> TRUE, got |-> None]
           r == Note!Loading(p, t)
<1>1. \A x \in old : /\ DOMAIN x = {"ticker", "latest", "got"} /\ x.ticker \in Tickers /\ x.latest = FALSE
                     /\ x.got # None => x.got.text \in s.texts[x.ticker]
  BY DEF LoadsOf
<1>2. DOMAIN new = {"ticker", "latest", "got"} /\ new.ticker = t /\ new.latest = TRUE /\ new.got = None
  OBVIOUS
<1>3. /\ DOMAIN r = DOMAIN p /\ r.name = "notes" /\ r.ticker = t /\ r.text = 0 /\ r.timer = None /\ r.asked = p.asked
      /\ r.loads = old \cup {new}
  BY Zenon DEF Note!Loading, Note!Clean, Note!Quiet, NoteShape
<1> HIDE DEF old, new, r
<1>4. LoadsOf(r.loads, s) /\ \A q \in r.loads : q.latest => q.ticker = t
  BY <1>1, <1>2, <1>3 DEF LoadsOf
<1>5. NoteShape(r) /\ 0 \in s.texts[t]
  BY <1>3 DEF NoteShape, StoreOf
<1>6. NoteGood(r, s)
  BY <1>3, <1>4, <1>5 DEF NoteGood
<1> QED
  BY <1>3, <1>6 DEF r

\* The page opens, from the start or again.
LEMMA NoteOpens ==
    ASSUME NEW s, StoreOf(s), NEW t \in Tickers
    PROVE  NoteGood(Note!Start(t), s)
<1> DEFINE p == [name |-> "notes", ticker |-> t, loads |-> {}, busy |-> TRUE, error |-> FALSE,
                 text |-> 0, serverText |-> 0, timer |-> None,
                 status |-> "idle", recover |-> None, asked |-> {}]
<1>1. NoteShape(p) /\ LoadsOf(p.loads, s) /\ SavesOf(p.asked, s)
  BY DEF NoteShape, LoadsOf, SavesOf
<1> HIDE DEF p
<1>2. NoteGood(Note!Loading(p, t), s)
  BY <1>1, NoteLoads
<1> QED
  BY <1>2 DEF Note!Start, p

LEMMA NoteStarts == Note!Init => NoteGood(page, srv)
<1> SUFFICES ASSUME Note!Init PROVE NoteGood(page, srv)
  OBVIOUS
<1>1. PICK t \in Tickers :
        /\ page = Note!Start(t)
        /\ srv = [note |-> [x \in Tickers |-> [text |-> 0, at |-> None]],
                  draft |-> [x \in Tickers |-> None], texts |-> [x \in Tickers |-> {0}], clock |-> 0]
  BY DEF Note!Init
<1>2. StoreOf(srv)
  BY <1>1 DEF StoreOf
<1> QED
  BY <1>1, <1>2, NoteOpens

\* What a step may do to the drafts.
DraftsLast ==
    \A t \in Tickers :
        srv.draft[t] # None /\ srv'.draft[t] = None =>
            \/ \E q \in page.asked \ page'.asked : q.ticker = t /\ q.done
            \/ page.ticker = t /\ page'.asked = page.asked

LEMMA NoteLoading ==
    ASSUME NoteGood(page, srv), Note!LoadRequests \/ Note!RetryNote
    PROVE  NoteGood(page', srv) /\ UNCHANGED srv
<1>0. NoteShape(page) /\ StoreOf(srv) /\ LoadsOf(page.loads, srv) /\ SavesOf(page.asked, srv)
  BY DEF NoteGood
<1>1. CASE Note!RetryNote
  <2>1. page' = Note!Loading(page, page.ticker) /\ UNCHANGED srv
    BY <1>1 DEF Note!RetryNote, Note!To
  <2> QED
    BY <2>1, <1>0, NoteLoads DEF NoteShape
<1>3. ASSUME NEW q \in page.loads, Note!NoteRead(q) PROVE NoteGood(page', srv) /\ UNCHANGED srv
  <2> DEFINE h == [q EXCEPT !.got = srv.note[q.ticker]]
  <2>1. /\ DOMAIN h = {"ticker", "latest", "got"} /\ h.ticker = q.ticker /\ h.ticker \in Tickers /\ h.latest = q.latest
        /\ h.got.text \in srv.texts[h.ticker]
    BY <1>0 DEF LoadsOf, StoreOf
  <2>2. page' = [page EXCEPT !.loads = (@ \ {q}) \cup {h}] /\ UNCHANGED srv
    BY <1>3 DEF Note!NoteRead, Note!To
  <2> HIDE DEF h
  <2>3. /\ DOMAIN page' = DOMAIN page /\ page'.name = "notes" /\ page'.ticker = page.ticker /\ page'.text = page.text
        /\ page'.timer = page.timer /\ page'.asked = page.asked /\ page'.loads = (page.loads \ {q}) \cup {h}
    BY <1>0, <2>2 DEF NoteShape
  <2>4. LoadsOf(page'.loads, srv) /\ \A x \in page'.loads : x.latest => x.ticker = page.ticker
    BY <1>0, <2>1, <2>3 DEF LoadsOf, NoteGood
  <2>5. NoteShape(page')
    BY <1>0, <2>3 DEF NoteShape
  <2> QED
    BY <2>2, <2>3, <2>4, <2>5 DEF NoteGood
\* What the page makes of the end of a load: its text, if any, is of its ticker.
<1>4. ASSUME NEW q \in page.loads, DOMAIN page' = DOMAIN page, page'.name = "notes", page'.ticker = page.ticker,
             page'.text \in srv.texts[page.ticker], page'.timer = page.timer, page'.asked = page.asked,
             page'.loads = page.loads \ {q}
      PROVE  NoteGood(page', srv)
  BY <1>0, <1>4 DEF NoteShape, LoadsOf, NoteGood
<1>5. ASSUME NEW q \in page.loads, Note!NoteArrives(q) PROVE NoteGood(page', srv) /\ UNCHANGED srv
  <2> DEFINE p == [page EXCEPT !.loads = @ \ {q}]
  <2>1. /\ DOMAIN p = DOMAIN page /\ p.name = "notes" /\ p.ticker = page.ticker /\ p.text = page.text
        /\ p.timer = page.timer /\ p.asked = page.asked /\ p.loads = page.loads \ {q}
    BY <1>0 DEF NoteShape
  <2>2. page' = (IF q.latest THEN Note!Loaded(p, q.got, srv.draft[page.ticker]) ELSE p) /\ UNCHANGED srv
    BY <1>5 DEF Note!NoteArrives, Note!To
  <2>3. q.latest => q.got.text \in srv.texts[page.ticker]
    BY <1>5 DEF Note!NoteArrives, NoteGood, LoadsOf
  <2> HIDE DEF p
  <2>4. CASE q.latest
    <3>1. /\ DOMAIN page' = DOMAIN page /\ page'.name = "notes" /\ page'.ticker = page.ticker
          /\ page'.text = q.got.text /\ page'.timer = page.timer /\ page'.asked = page.asked /\ page'.loads = page.loads \ {q}
      BY <1>0, <2>1, <2>2, <2>4 DEF Note!Loaded, Note!Clean, Note!Quiet, NoteShape
    <3> QED
      BY <3>1, <2>2, <2>3, <2>4, <1>4
  <2>5. CASE ~q.latest
    BY <2>1, <2>2, <2>5, <1>4 DEF NoteGood
  <2> QED
    BY <2>4, <2>5
<1>6. ASSUME NEW q \in page.loads, Note!NoteFails(q) PROVE NoteGood(page', srv) /\ UNCHANGED srv
  <2>1. /\ DOMAIN page' = DOMAIN page /\ page'.name = "notes" /\ page'.ticker = page.ticker /\ page'.text = page.text
        /\ page'.timer = page.timer /\ page'.asked = page.asked /\ page'.loads = page.loads \ {q} /\ UNCHANGED srv
    BY <1>0, <1>6 DEF Note!NoteFails, Note!To, NoteShape
  <2> QED
    BY <2>1, <1>4 DEF NoteGood
<1> QED
  BY <1>1, <1>3, <1>5, <1>6 DEF Note!LoadRequests

\* An edit makes the typed text one of its ticker.
LEMMA NoteEdits ==
    ASSUME NoteGood(page, srv), NEW value, Note!EditTo(value)
    PROVE  NoteGood(page', srv') /\ DraftsLast
<1>0. NoteShape(page) /\ StoreOf(srv) /\ LoadsOf(page.loads, srv) /\ SavesOf(page.asked, srv)
  BY DEF NoteGood
<1>1. /\ DOMAIN page' = DOMAIN page /\ page'.name = "notes" /\ page'.ticker = page.ticker /\ page'.text = value
      /\ page'.timer \in {value, None} /\ page'.asked = page.asked /\ page'.loads = page.loads
  BY <1>0 DEF Note!EditTo, Note!Edited, Note!Quiet, NoteShape
<1>2. PICK d : srv' = [srv EXCEPT !.clock = @ + 1, !.texts[page.ticker] = @ \cup {value}, !.draft[page.ticker] = d]
  BY Zenon DEF Note!EditTo
<1>3. /\ DOMAIN srv' = DOMAIN srv /\ srv'.note = srv.note /\ DOMAIN srv'.draft = Tickers /\ DOMAIN srv'.texts = Tickers
      /\ srv'.texts[page.ticker] = srv.texts[page.ticker] \cup {value}
      /\ \A t \in Tickers \ {page.ticker} : srv'.texts[t] = srv.texts[t] /\ srv'.draft[t] = srv.draft[t]
  BY <1>0, <1>2 DEF StoreOf, NoteShape
<1>4. \A t \in Tickers : srv.texts[t] \subseteq srv'.texts[t]
  BY <1>3
<1>5. StoreOf(srv')
  BY <1>0, <1>3, <1>4 DEF StoreOf
<1>6. LoadsOf(page'.loads, srv') /\ SavesOf(page'.asked, srv')
  BY <1>0, <1>1, <1>4 DEF LoadsOf, SavesOf
<1>7. NoteShape(page')
  BY <1>0, <1>1 DEF NoteShape
<1>8. DraftsLast
  BY <1>1, <1>3 DEF DraftsLast
<1> QED
  BY <1>1, <1>3, <1>5, <1>6, <1>7, <1>8 DEF NoteGood

\* What is stored was typed for the ticker it is stored under.
LEMMA NoteStores ==
    ASSUME StoreOf(srv), NEW q, q.ticker \in Tickers, q.text \in srv.texts[q.ticker], srv' = Note!Stored(q)
    PROVE  StoreOf(srv') /\ srv'.texts = srv.texts /\ srv'.draft = srv.draft
BY DEF Note!Stored, StoreOf

\* What is sent is of the ticker it is sent for.
LEMMA NoteSends ==
    ASSUME NEW p, NEW s, NoteGood(p, s), NEW value \in s.texts[p.ticker]
    PROVE  NoteGood(Note!Saving(p, value), s)
<1> DEFINE q == [ticker |-> p.ticker, text |-> value, done |-> FALSE]
           r == Note!Saving(p, value)
<1>0. NoteShape(p) /\ LoadsOf(p.loads, s) /\ SavesOf(p.asked, s)
  BY DEF NoteGood
<1>1. DOMAIN q = {"ticker", "text", "done"} /\ q.ticker = p.ticker /\ q.text = value
  OBVIOUS
<1>2. /\ DOMAIN r = DOMAIN p /\ r.name = "notes" /\ r.ticker = p.ticker /\ r.text = p.text
      /\ r.timer = None /\ r.asked = p.asked \cup {q} /\ r.loads = p.loads
  BY <1>0 DEF Note!Saving, NoteShape
<1> HIDE DEF q, r
<1>3. NoteShape(r) /\ SavesOf(r.asked, s)
  BY <1>0, <1>1, <1>2 DEF NoteShape, SavesOf
<1>4. NoteGood(r, s)
  BY <1>2, <1>3 DEF NoteGood
<1> QED
  BY <1>4 DEF r

\* The text that was on the screen becomes one of the new ticker's when the
\* shortcut saves it there.
LEMMA NoteSwitches ==
    ASSUME NoteGood(page, srv), Note!SwitchTicker
    PROVE  NoteGood(page', srv') /\ DraftsLast
<1>0. NoteShape(page) /\ StoreOf(srv) /\ LoadsOf(page.loads, srv) /\ SavesOf(page.asked, srv)
  BY DEF NoteGood
<1>1. ASSUME NEW t \in Tickers, page' = Note!Loading(page, t), UNCHANGED srv PROVE NoteGood(page', srv') /\ DraftsLast
  BY <1>0, <1>1, NoteLoads DEF DraftsLast
<1>2. ASSUME NEW t \in Tickers, page' = Note!Saving(Note!Loading(page, t), page.text),
             srv' = [srv EXCEPT !.texts[t] = @ \cup {page.text}]
      PROVE  NoteGood(page', srv') /\ DraftsLast
  <2>1. /\ DOMAIN srv' = DOMAIN srv /\ srv'.note = srv.note /\ srv'.draft = srv.draft /\ DOMAIN srv'.texts = Tickers
        /\ srv'.texts[t] = srv.texts[t] \cup {page.text} /\ \A u \in Tickers : srv.texts[u] \subseteq srv'.texts[u]
    BY <1>0, <1>2 DEF StoreOf
  <2>2. StoreOf(srv') /\ LoadsOf(page.loads, srv') /\ SavesOf(page.asked, srv')
    BY <1>0, <2>1 DEF StoreOf, LoadsOf, SavesOf
  <2>3. NoteGood(Note!Loading(page, t), srv')
    BY <1>0, <2>2, NoteLoads
  <2>4. Note!Loading(page, t).ticker = t
    BY <1>0, Zenon DEF Note!Loading, Note!Clean, Note!Quiet, NoteShape
  <2>5. page.text \in srv'.texts[Note!Loading(page, t).ticker]
    BY <2>1, <2>4
  <2>6. NoteGood(page', srv')
    BY <1>2, <2>3, <2>5, NoteSends
  <2> QED
    BY <2>1, <2>6 DEF DraftsLast
<1>3. PICK t \in Tickers : \/ page' = Note!Loading(page, t) /\ UNCHANGED srv
                          \/ /\ page' = Note!Saving(Note!Loading(page, t), page.text)
                             /\ srv' = [srv EXCEPT !.texts[t] = @ \cup {page.text}]
  BY Zenon DEF Note!SwitchTicker, Note!To
<1> QED
  BY <1>1, <1>2, <1>3

LEMMA NoteSaves ==
    ASSUME NoteGood(page, srv),
           Note!Autosave \/ Note!SaveNow \/ Note!Shortcut \/ Note!SaveRequests \/ Note!DiscardDraft \/ Note!Reopen
    PROVE  NoteGood(page', srv') /\ DraftsLast
<1>0. NoteShape(page) /\ StoreOf(srv) /\ LoadsOf(page.loads, srv) /\ SavesOf(page.asked, srv)
  BY DEF NoteGood
<1>1. ASSUME NEW value, value \in srv.texts[page.ticker], page' = Note!Saving(page, value), UNCHANGED srv
      PROVE  NoteGood(page', srv') /\ DraftsLast
  BY <1>1, NoteSends DEF DraftsLast
<1>2. CASE Note!Autosave \/ Note!SaveNow \/ Note!Shortcut
  <2>1. PICK value : value \in srv.texts[page.ticker] /\ page' = Note!Saving(page, value) /\ UNCHANGED srv
    BY <1>2, Zenon DEF Note!Autosave, Note!SaveNow, Note!Shortcut, Note!To, NoteGood
  <2> QED
    BY <2>1, <1>1
<1>3. ASSUME NEW q \in page.asked, Note!NoteStored(q) PROVE NoteGood(page', srv') /\ DraftsLast
  <2> DEFINE h == [q EXCEPT !.done = TRUE]
  <2>1. /\ DOMAIN h = {"ticker", "text", "done"} /\ h.ticker = q.ticker /\ h.text = q.text
        /\ q.ticker \in Tickers /\ q.text \in srv.texts[q.ticker]
    BY <1>0 DEF SavesOf
  <2>2. page' = [page EXCEPT !.asked = (@ \ {q}) \cup {h}] /\ srv' = Note!Stored(q)
    BY <1>3 DEF Note!NoteStored
  <2> HIDE DEF h
  <2>3. /\ DOMAIN page' = DOMAIN page /\ page'.name = "notes" /\ page'.ticker = page.ticker /\ page'.text = page.text
        /\ page'.timer = page.timer /\ page'.asked = (page.asked \ {q}) \cup {h} /\ page'.loads = page.loads
    BY <1>0, <2>2 DEF NoteShape
  <2>4. StoreOf(srv') /\ srv'.texts = srv.texts /\ srv'.draft = srv.draft
    BY <1>0, <2>1, <2>2, NoteStores
  <2>5. NoteShape(page') /\ SavesOf(page'.asked, srv') /\ LoadsOf(page'.loads, srv')
    BY <1>0, <2>1, <2>3, <2>4 DEF NoteShape, SavesOf, LoadsOf
  <2>6. DraftsLast
    BY <2>4 DEF DraftsLast
  <2> QED
    BY <2>3, <2>4, <2>5, <2>6 DEF NoteGood
<1>4. ASSUME NEW q \in page.asked, Note!SaveSucceeds(q) PROVE NoteGood(page', srv') /\ DraftsLast
  <2>1. /\ DOMAIN page' = DOMAIN page /\ page'.name = "notes" /\ page'.ticker = page.ticker /\ page'.text = page.text
        /\ page'.timer = page.timer /\ page'.asked = page.asked \ {q} /\ page'.loads = page.loads
    BY <1>0, <1>4 DEF Note!SaveSucceeds, NoteShape
  <2>2. /\ srv' = [srv EXCEPT !.draft[q.ticker] = None] /\ q.done
    BY <1>4 DEF Note!SaveSucceeds
  <2>3. /\ DOMAIN srv' = DOMAIN srv /\ srv'.texts = srv.texts /\ srv'.note = srv.note /\ DOMAIN srv'.draft = Tickers
        /\ \A t \in Tickers : t # q.ticker => srv'.draft[t] = srv.draft[t]
    BY <1>0, <2>2 DEF StoreOf
  <2>4. StoreOf(srv') /\ NoteShape(page') /\ SavesOf(page'.asked, srv') /\ LoadsOf(page'.loads, srv')
    BY <1>0, <2>1, <2>3 DEF StoreOf, NoteShape, SavesOf, LoadsOf
  <2>5. DraftsLast
    BY <2>1, <2>2, <2>3 DEF DraftsLast
  <2> QED
    BY <2>1, <2>3, <2>4, <2>5 DEF NoteGood
<1>5. ASSUME NEW q \in page.asked, Note!SaveFails(q) PROVE NoteGood(page', srv') /\ DraftsLast
  <2>1. /\ DOMAIN page' = DOMAIN page /\ page'.name = "notes" /\ page'.ticker = page.ticker /\ page'.text = page.text
        /\ page'.timer = page.timer /\ page'.asked = page.asked \ {q} /\ page'.loads = page.loads /\ UNCHANGED srv
    BY <1>0, <1>5 DEF Note!SaveFails, Note!To, NoteShape
  <2>2. NoteShape(page') /\ SavesOf(page'.asked, srv)
    BY <1>0, <2>1 DEF NoteShape, SavesOf
  <2> QED
    BY <2>1, <2>2 DEF NoteGood, DraftsLast
<1>6. CASE Note!DiscardDraft
  <2>1. /\ DOMAIN page' = DOMAIN page /\ page'.name = "notes" /\ page'.ticker = page.ticker /\ page'.text = page.text
        /\ page'.timer = page.timer /\ page'.asked = page.asked /\ page'.loads = page.loads
    BY <1>0, <1>6 DEF Note!DiscardDraft, NoteShape
  <2>2. /\ srv' = [srv EXCEPT !.draft[page.ticker] = None]
    BY <1>6 DEF Note!DiscardDraft
  <2>3. /\ DOMAIN srv' = DOMAIN srv /\ srv'.texts = srv.texts /\ srv'.note = srv.note /\ DOMAIN srv'.draft = Tickers
        /\ \A t \in Tickers : t # page.ticker => srv'.draft[t] = srv.draft[t]
    BY <1>0, <2>2 DEF StoreOf
  <2>4. StoreOf(srv') /\ NoteShape(page') /\ SavesOf(page'.asked, srv') /\ LoadsOf(page'.loads, srv')
    BY <1>0, <2>1, <2>3 DEF StoreOf, NoteShape, SavesOf, LoadsOf
  <2>5. DraftsLast
    BY <2>1, <2>3 DEF DraftsLast
  <2> QED
    BY <2>1, <2>3, <2>4, <2>5 DEF NoteGood
<1>7. CASE Note!Reopen
  <2>1. page' = Note!Start(page.ticker) /\ StoreOf(srv') /\ srv'.draft = srv.draft
    <3>1. CASE UNCHANGED srv
      BY <1>0, <1>7, <3>1 DEF Note!Reopen
    <3>2. ASSUME NEW q \in page.asked, srv' = Note!Stored(q) PROVE StoreOf(srv') /\ srv'.draft = srv.draft
      BY <1>0, <3>2, NoteStores DEF SavesOf
    <3> QED
      BY <1>7, <3>1, <3>2 DEF Note!Reopen
  <2>2. NoteGood(page', srv')
    BY <1>0, <2>1, NoteOpens DEF NoteShape
  <2> QED
    BY <2>1, <2>2 DEF DraftsLast
<1> QED
  BY <1>2, <1>3, <1>4, <1>5, <1>6, <1>7 DEF Note!SaveRequests

LEMMA NoteKeeps == NoteGood(page, srv) /\ Note!Next => NoteGood(page', srv') /\ DraftsLast
<1> SUFFICES ASSUME NoteGood(page, srv), Note!Next PROVE NoteGood(page', srv') /\ DraftsLast
  OBVIOUS
<1>1. CASE Note!LoadRequests \/ Note!RetryNote
  BY <1>1, NoteLoading DEF DraftsLast
<1>4. CASE Note!SwitchTicker
  BY <1>4, NoteSwitches
<1>2. CASE Note!Type \/ Note!TypeBack \/ Note!RestoreDraft
  BY <1>2, NoteEdits DEF Note!Type, Note!TypeBack, Note!RestoreDraft
<1>3. CASE Note!Autosave \/ Note!SaveNow \/ Note!Shortcut \/ Note!SaveRequests \/ Note!DiscardDraft \/ Note!Reopen
  BY <1>3, NoteSaves
<1> QED
  BY <1>1, <1>2, <1>3, <1>4 DEF Note!Next

LEMMA NoteHolds == NoteGood(page, srv) => OpenIn(NotePages) /\ Note!NoteOfTicker
BY DEF NoteGood, NoteShape, StoreOf, Note!NoteOfTicker, OpenIn, NotePages

-----------------------------------------------------------------------------
(* The terminal.                                                           *)

\* The way back stands on the screen, no two stops in a row are the same, and
\* an address on its way, or the one that is there, is of the screen.
ScreenType(p) ==
    /\ DOMAIN p = {"name", "ticker", "fn", "stack", "idx", "travelling", "url", "going", "resolving", "choice"}
    /\ p.name = "terminal" /\ p.ticker \in OnScreen /\ p.fn \in RailSet
    /\ p.resolving \in RailSet \cup {None} /\ p.travelling \in BOOLEAN
    /\ p.stack \in Seq(OnScreen) /\ Len(p.stack) <= MaxStack /\ p.idx \in 1..Len(p.stack)
    /\ \A i \in 1..(Len(p.stack) - 1) : p.stack[i] # p.stack[i + 1]
ScreenGood(p) ==
    /\ ScreenType(p) /\ ~p.travelling /\ p.stack[p.idx] = p.ticker
    /\ p.going \in Addresses \cup {None}
    /\ p.going = None => p.url.t \in {None, p.ticker}
    /\ p.going # None => p.going.t = p.ticker \/ p.url.t \in {None, p.ticker}

\* Only the request for the chart that is chosen is fresh.
HeaderGood(p) ==
    /\ DOMAIN p = {"name", "ticker", "period", "snap", "snapBusy", "quote", "quoteErr", "candles", "chartBusy", "hits",
                  "resolving", "unknown", "asked"}
    /\ p.name = "header" /\ p.chartBusy \in BOOLEAN
    /\ \A q \in p.asked :
          /\ q.what \in {"snap", "chart", "hits"}
          /\ q.what = "chart" => DOMAIN q = {"what", "of", "fresh"} /\ q.fresh \in BOOLEAN
          /\ q.what = "chart" /\ q.fresh => q.of = <<p.ticker, p.period>>
    /\ ~p.chartBusy => p.candles \in {None, <<p.ticker, p.period>>}

EntryGood(p) ==
    /\ DOMAIN p = {"name", "blurs", "value", "text", "hits", "open", "sel", "skip", "timer", "asked"}
    /\ p.name = "entry"
    /\ p.open /\ p.hits # <<>> => Len(p.hits) \in Nat \ {0} /\ DOMAIN p.hits = 1..Len(p.hits) /\ p.sel \in 0..Len(p.hits)

TerminalGood == ScreenGood(page) \/ HeaderGood(page) \/ EntryGood(page) \/ Named(page, {"palette"})

LEMMA Least0 ==
    ASSUME NEW S, S \subseteq Nat, S # {}
    PROVE  \E n \in S : \A m \in S : ~(<<m, n>> \in OpToRel(<, Nat))
BY NatLessThanWellFounded, WFMin, Zenon

\* A set of numbers that is not empty has a least.
LEMMA Least ==
    ASSUME NEW S, S \subseteq Nat, S # {}
    PROVE  \E n \in S : \A m \in S : n <= m
<1>1. PICK n \in S : \A m \in S : ~(<<m, n>> \in OpToRel(<, Nat))
  BY Least0, Zenon
<1>2. \A m \in S : ~(m < n)
  BY <1>1 DEF OpToRel
<1> QED
  BY <1>2

\* The keys [ and ] lead from a function of the rail to one.
LEMMA StepsOnRail ==
    ASSUME NEW fn \in RailSet, NEW d \in {-1, 1}
    PROVE  Terminal!StepFn(fn, d) \in RailSet
<1> DEFINE Found(i) == <<fn>> \in Terminal!SubSeqs(SubSeq(Functions, 1, i))
           S == {i \in 0..Len(Functions) : Found(i)}
<1>0. Functions \in Seq(RailSet) /\ Len(Functions) \in Nat \ {0}
  BY TerminalAssumption
<1>1. PICK k \in 1..Len(Functions) : Functions[k] = fn
  BY <1>0 DEF RailSet
<1>2. Found(k)
  <2> DEFINE s == SubSeq(Functions, 1, k)
  <2>1. s \in Seq(RailSet) /\ Len(s) = k /\ s[k] = fn
    BY <1>0, <1>1
  <2> HIDE DEF s
  <2> DEFINE one == SubSeq(s, (k - 1) + 1, k)
  <2>2. one = <<fn>>
    <3>1. one \in Seq(RailSet) /\ Len(one) = 1 /\ one[1] = fn
      BY <2>1, <1>1
    <3> HIDE DEF one
    <3> QED
      BY <3>1
  <2>3. k - 1 \in 0..Len(s) /\ k \in 0..Len(s)
    BY <2>1, <1>1
  <2>4. <<fn>> \in Terminal!SubSeqs(s)
    <3>1. \E i \in 0..Len(s) : \E j \in 0..Len(s) : <<fn>> = SubSeq(s, i + 1, j)
      BY <2>2, <2>3, Zenon
    <3> QED
      BY <3>1 DEF Terminal!SubSeqs
  <2> QED
    BY <2>4 DEF s
<1>3. k \in S /\ S \subseteq Nat
  BY <1>0, <1>2
<1>4. PICK n \in S : \A m \in S : n <= m
  <2> HIDE DEF S
  <2> QED
    BY <1>3, Least
<1>5. n \in 0..Len(Functions) /\ Found(n) /\ \A j \in 0..n-1 : ~Found(j)
  <2> HIDE DEF Found
  <2> QED
    BY <1>0, <1>4
<1> DEFINE last == CHOOSE i \in 0..Len(Functions) : Found(i) /\ \A j \in 0..i-1 : ~Found(j)
<1>6. last \in 0..Len(Functions)
  <2> HIDE DEF Found
  <2> QED
    BY <1>5
<1>7. Terminal!IndexFirstSubSeq(<<fn>>, Functions) = last - (Len(<<fn>>) - 1)
  BY DEF Terminal!IndexFirstSubSeq
<1> HIDE DEF last
<1>8. Terminal!IndexFirstSubSeq(<<fn>>, Functions) = last
  BY <1>6, <1>7
<1>9. ((last - 1 + d) % Len(Functions)) + 1 \in 1..Len(Functions)
  BY <1>0, <1>6
<1>10. \A i \in 1..Len(Functions) : Functions[i] \in RailSet
  BY <1>0
<1> QED
  BY <1>8, <1>9, <1>10 DEF Terminal!StepFn

Kept(stack, idx, t) ==
    LET s == Append(SubSeq(stack, 1, idx), t) IN SubSeq(s, IF Len(s) > MaxStack THEN 2 ELSE 1, Len(s))

LEMMA Visits ==
    ASSUME NEW stack \in Seq(OnScreen), Len(stack) <= MaxStack, NEW idx \in 1..Len(stack),
           \A i \in 1..(Len(stack) - 1) : stack[i] # stack[i + 1], NEW t \in OnScreen, stack[idx] # t
    PROVE  LET kept == Kept(stack, idx, t)
           IN  /\ kept \in Seq(OnScreen) /\ Len(kept) \in 1..MaxStack /\ kept[Len(kept)] = t
               /\ \A i \in 1..(Len(kept) - 1) : kept[i] # kept[i + 1]
<1> DEFINE s == Append(SubSeq(stack, 1, idx), t)
           n == IF Len(s) > MaxStack THEN 2 ELSE 1
           kept == SubSeq(s, n, Len(s))
<1>1. /\ s \in Seq(OnScreen) /\ Len(s) = idx + 1 /\ s[idx + 1] = t /\ \A i \in 1..idx : s[i] = stack[i]
  BY DEF s
<1>2. \A i \in 1..idx : s[i] # s[i + 1]
  BY <1>1
<1> HIDE DEF s
<1>3. n \in 1..2 /\ n <= Len(s) /\ Len(s) + 1 - n \in 1..MaxStack
  BY <1>1, TerminalAssumption
<1> HIDE DEF n
<1>4. kept \in Seq(OnScreen) /\ Len(kept) = Len(s) + 1 - n /\ \A i \in 1..Len(kept) : kept[i] = s[i + n - 1]
  BY <1>1, <1>3
<1> HIDE DEF kept
<1>5. kept[Len(kept)] = t
  BY <1>1, <1>3, <1>4
<1>6. ASSUME NEW i \in 1..(Len(kept) - 1) PROVE kept[i] # kept[i + 1]
  <2>1. kept[i] = s[i + n - 1] /\ kept[i + 1] = s[i + n] /\ i + n - 1 \in 1..idx
    BY <1>1, <1>3, <1>4
  <2> QED
    BY <2>1, <1>2, <1>3
<1> QED
  BY <1>3, <1>4, <1>5, <1>6 DEF kept, n, s, Kept

\* A ticker is set by a click or an address, or by a step along the way back.
LEMMA TickerIsSet ==
    ASSUME NEW p, ScreenType(p), NEW t \in OnScreen,
           \/ ~p.travelling /\ p.stack[p.idx] = p.ticker
           \/ p.travelling /\ p.stack[p.idx] = t /\ t # p.ticker
    PROVE  LET r == Terminal!SetTicker(p, t) IN
           /\ ScreenType(r) /\ ~r.travelling /\ r.stack[r.idx] = t /\ r.ticker = t
           /\ r.url = p.url /\ r.going = p.going /\ r.fn = p.fn
<1>1. CASE t = p.ticker
  BY <1>1 DEF Terminal!SetTicker
<1>2. CASE t # p.ticker
  <2> DEFINE q == Terminal!Resolve([p EXCEPT !.ticker = t])
  <2>1. /\ DOMAIN q = DOMAIN p /\ q.name = p.name /\ q.ticker = t /\ q.fn = p.fn /\ q.stack = p.stack /\ q.idx = p.idx
        /\ q.travelling = p.travelling /\ q.url = p.url /\ q.going = p.going /\ q.resolving \in RailSet \cup {None}
    BY DEF Terminal!Resolve, ScreenType
  <2>2. Terminal!SetTicker(p, t) = Terminal!History(q)
    BY <1>2 DEF Terminal!SetTicker
  <2> HIDE DEF q
  <2>3. CASE p.travelling
    <3> DEFINE r == [q EXCEPT !.travelling = FALSE]
    <3>1. Terminal!History(q) = r
      BY <2>1, <2>3 DEF Terminal!History
    <3>2. /\ DOMAIN r = DOMAIN p /\ r.name = p.name /\ r.ticker = t /\ r.fn = p.fn /\ r.stack = p.stack /\ r.idx = p.idx
          /\ r.travelling = FALSE /\ r.url = p.url /\ r.going = p.going /\ r.resolving \in RailSet \cup {None}
      BY <2>1 DEF ScreenType
    <3> HIDE DEF r
    <3>3. ScreenType(r)
      BY <3>2 DEF ScreenType
    <3> QED
      BY <2>2, <2>3, <3>1, <3>2, <3>3
  <2>4. CASE ~p.travelling
    <3> DEFINE kept == Kept(p.stack, p.idx, t)
               r == [q EXCEPT !.stack = kept, !.idx = Len(kept)]
    <3>1. Terminal!History(q) = r
      BY <1>2, <2>1, <2>4 DEF Terminal!History, Terminal!Visited, Kept
    <3>2. /\ kept \in Seq(OnScreen) /\ Len(kept) \in 1..MaxStack /\ kept[Len(kept)] = t
          /\ \A i \in 1..(Len(kept) - 1) : kept[i] # kept[i + 1]
      <4>1. /\ p.stack \in Seq(OnScreen) /\ Len(p.stack) <= MaxStack /\ p.idx \in 1..Len(p.stack) /\ t \in OnScreen
            /\ \A i \in 1..(Len(p.stack) - 1) : p.stack[i] # p.stack[i + 1]
        BY DEF ScreenType
      <4>2. p.stack[p.idx] # t
        BY <1>2, <2>4
      <4> QED
        BY <4>1, <4>2, Visits
    <3> HIDE DEF kept
    <3>3. /\ DOMAIN r = DOMAIN p /\ r.name = p.name /\ r.ticker = t /\ r.fn = p.fn /\ r.stack = kept /\ r.idx = Len(kept)
          /\ r.travelling = p.travelling /\ r.url = p.url /\ r.going = p.going /\ r.resolving \in RailSet \cup {None}
      BY <2>1 DEF ScreenType
    <3> HIDE DEF r
    <3>4. ScreenType(r)
      BY <3>2, <3>3, TerminalAssumption DEF ScreenType
    <3> QED
      BY <2>2, <2>4, <3>1, <3>2, <3>3, <3>4
  <2> QED
    BY <2>3, <2>4
<1> QED
  BY <1>1, <1>2

\* An address of the screen is asked for.
LEMMA AddressAsked ==
    ASSUME NEW p, ScreenType(p), ~p.travelling, p.stack[p.idx] = p.ticker, NEW t \in OnScreen,
           t = p.ticker \/ p.url.t \in {None, p.ticker}, NEW fn \in RailSet \cup {None}
    PROVE  ScreenGood(Terminal!Replace(p, t, fn))
<1> DEFINE a == [t |-> t, fn |-> fn]
           r == Terminal!Replace(p, t, fn)
<1>1. a \in Addresses /\ a # None /\ a.t = t
  BY TerminalAssumption DEF Addresses
<1>2. /\ DOMAIN r = DOMAIN p /\ r.name = p.name /\ r.ticker = p.ticker /\ r.fn = p.fn /\ r.stack = p.stack /\ r.idx = p.idx
      /\ r.travelling = p.travelling /\ r.url = p.url /\ r.going = a /\ r.resolving = p.resolving
  BY DEF Terminal!Replace, ScreenType
<1> HIDE DEF a, r
<1>3. ScreenType(r)
  BY <1>2 DEF ScreenType
<1>4. ScreenGood(r)
  BY <1>1, <1>2, <1>3 DEF ScreenGood
<1> QED
  BY <1>4 DEF r

LEMMA FunctionPicked ==
    ASSUME ScreenGood(page), NEW fn \in RailSet
    PROVE  ScreenGood(Terminal!PickFn(page, fn))
<1> DEFINE p == [page EXCEPT !.fn = fn]
<1>1. /\ DOMAIN p = DOMAIN page /\ p.name = page.name /\ p.ticker = page.ticker /\ p.fn = fn /\ p.stack = page.stack
      /\ p.idx = page.idx /\ p.travelling = page.travelling /\ p.url = page.url /\ p.resolving = page.resolving
  BY DEF ScreenGood, ScreenType
<1> HIDE DEF p
<1>2. ScreenType(p) /\ ~p.travelling /\ p.stack[p.idx] = p.ticker
  BY <1>1 DEF ScreenGood, ScreenType
<1>3. page.ticker \in OnScreen
  BY DEF ScreenGood, ScreenType
<1>4. ScreenGood(Terminal!Replace(p, page.ticker, fn))
  BY <1>1, <1>2, <1>3, AddressAsked
<1> QED
  BY <1>4 DEF Terminal!PickFn, p

LEMMA TickerCommits ==
    ASSUME ScreenGood(page), NEW t \in OnScreen, NEW with \in RailSet \cup {None}, NEW fn \in RailSet, Terminal!CommitTicker(t, with, fn)
    PROVE  ScreenGood(page')
<1>1. CASE t = page.ticker
  <2>1. page' = page \/ (with \in RailSet /\ page' = Terminal!PickFn(page, with))
    BY <1>1 DEF Terminal!CommitTicker, Terminal!To
  <2> QED
    BY <2>1, FunctionPicked
<1>2. CASE t # page.ticker
  <2> DEFINE p == [page EXCEPT !.fn = IF with = None THEN @ ELSE with]
             r == Terminal!SetTicker(p, t)
             to == IF with = None THEN fn ELSE with
  <2>1. page' = Terminal!Replace(r, t, to)
    BY <1>2 DEF Terminal!CommitTicker
  <2>2. /\ DOMAIN p = DOMAIN page /\ p.name = page.name /\ p.ticker = page.ticker /\ p.fn \in RailSet /\ p.stack = page.stack
        /\ p.idx = page.idx /\ p.travelling = page.travelling /\ p.url = page.url /\ p.resolving = page.resolving
    BY DEF ScreenGood, ScreenType
  <2> HIDE DEF p
  <2>3. ScreenType(p) /\ ~p.travelling /\ p.stack[p.idx] = p.ticker
    BY <2>2 DEF ScreenGood, ScreenType
  <2>4. ScreenType(r) /\ ~r.travelling /\ r.stack[r.idx] = r.ticker /\ r.ticker = t
    BY <2>3, TickerIsSet
  <2>5. to \in RailSet
    OBVIOUS
  <2> HIDE DEF r, to
  <2> QED
    BY <2>1, <2>4, <2>5, AddressAsked
<1> QED
  BY <1>1, <1>2

LEMMA ScreenTravels ==
    ASSUME ScreenGood(page), NEW d \in {-1, 1}, Terminal!Travel(d)
    PROVE  ScreenGood(page')
<1> DEFINE t == page.stack[page.idx + d]
           p == [page EXCEPT !.travelling = TRUE, !.idx = @ + d]
           r == Terminal!SetTicker(p, t)
<1>1. page' = Terminal!Replace(r, t, page.fn) /\ page.idx + d \in DOMAIN page.stack
  BY DEF Terminal!Travel, Terminal!To
<1>2. page.stack \in Seq(OnScreen) /\ page.idx \in 1..Len(page.stack) /\ page.idx + d \in 1..Len(page.stack)
  BY <1>1 DEF ScreenGood, ScreenType
\* A step of the way leads to another ticker.
<1>3. t \in OnScreen /\ t # page.ticker
  <2>1. t \in OnScreen
    BY <1>2
  <2>2. CASE d = 1
    <3>1. page.idx \in 1..(Len(page.stack) - 1)
      BY <1>2, <2>2
    <3> QED
      BY <2>1, <2>2, <3>1 DEF ScreenGood, ScreenType
  <2>3. CASE d = -1
    <3>1. page.idx - 1 \in 1..(Len(page.stack) - 1) /\ (page.idx - 1) + 1 = page.idx /\ page.idx + d = page.idx - 1
      BY <1>2, <2>3
    <3>2. page.stack[page.idx - 1] # page.stack[(page.idx - 1) + 1]
      BY <3>1 DEF ScreenGood, ScreenType
    <3> QED
      BY <2>1, <2>3, <3>1, <3>2 DEF ScreenGood
  <2> QED
    BY <2>2, <2>3
<1>4. /\ DOMAIN p = DOMAIN page /\ p.name = page.name /\ p.ticker = page.ticker /\ p.fn = page.fn /\ p.stack = page.stack
      /\ p.idx = page.idx + d /\ p.travelling = TRUE /\ p.resolving = page.resolving
  BY DEF ScreenGood, ScreenType
<1>5. p.stack[p.idx] = t
  BY <1>4
<1> HIDE DEF p, t
<1>6. ScreenType(p) /\ p.travelling /\ p.stack[p.idx] = t /\ t # p.ticker
  BY <1>2, <1>3, <1>4, <1>5 DEF ScreenGood, ScreenType
<1>7. ScreenType(r) /\ ~r.travelling /\ r.stack[r.idx] = r.ticker /\ r.ticker = t
  BY <1>3, <1>6, TickerIsSet
<1>8. page.fn \in RailSet
  BY DEF ScreenGood, ScreenType
<1> HIDE DEF r
<1> QED
  BY <1>1, <1>3, <1>7, <1>8, AddressAsked

LEMMA ScreenArrives ==
    ASSUME ScreenGood(page), Terminal!UrlArrives
    PROVE  ScreenGood(page')
<1> DEFINE p == [page EXCEPT !.url = page.going, !.going = None]
           q == [p EXCEPT !.fn = IF page.going.fn = None THEN @ ELSE page.going.fn]
           r == Terminal!SetTicker(q, page.going.t)
<1>0. page.going \in Addresses /\ page.going.t \in OnScreen /\ page.going.fn \in RailSet \cup {None}
  BY DEF Terminal!UrlArrives, ScreenGood, Addresses
<1>1. page' = IF page.going = page.url THEN p ELSE r
  BY DEF Terminal!UrlArrives, Terminal!To
<1>2. /\ DOMAIN p = DOMAIN page /\ p.name = page.name /\ p.ticker = page.ticker /\ p.fn = page.fn /\ p.stack = page.stack
      /\ p.idx = page.idx /\ p.travelling = page.travelling /\ p.resolving = page.resolving
      /\ p.url = page.going /\ p.going = None
  BY DEF ScreenGood, ScreenType
<1> HIDE DEF p
<1>3. ScreenType(p)
  BY <1>2 DEF ScreenGood, ScreenType
<1>4. CASE page.going = page.url
  <2>1. page.going.t \in {None, page.ticker}
    BY <1>4 DEF Terminal!UrlArrives, ScreenGood
  <2>2. ScreenGood(p)
    BY <1>2, <1>3, <2>1 DEF ScreenGood
  <2> QED
    BY <1>1, <1>4, <2>2
<1>5. CASE page.going # page.url
  <2>1. /\ DOMAIN q = DOMAIN p /\ q.name = p.name /\ q.ticker = p.ticker /\ q.fn \in RailSet /\ q.stack = p.stack
        /\ q.idx = p.idx /\ q.travelling = p.travelling /\ q.resolving = p.resolving /\ q.url = p.url /\ q.going = p.going
    BY <1>0, <1>2, <1>3 DEF ScreenType
  <2> HIDE DEF q
  <2>2. ScreenType(q) /\ ~q.travelling /\ q.stack[q.idx] = q.ticker
    BY <1>2, <1>3, <2>1 DEF ScreenType, ScreenGood
  <2>3. ScreenType(r) /\ ~r.travelling /\ r.stack[r.idx] = r.ticker /\ r.ticker = page.going.t /\ r.url = q.url /\ r.going = q.going
    BY <1>0, <2>2, TickerIsSet
  <2> HIDE DEF r
  <2>4. ScreenGood(r)
    BY <1>2, <2>1, <2>3 DEF ScreenGood
  <2> QED
    BY <1>1, <1>5, <2>4
<1> QED
  BY <1>4, <1>5

LEMMA ScreenKeeps ==
    ASSUME ScreenGood(page), Terminal!Next
    PROVE  ScreenGood(page')
<1>0. ScreenType(page) /\ page.ticker \in OnScreen /\ page.fn \in RailSet /\ page.resolving \in RailSet \cup {None}
  BY DEF ScreenGood, ScreenType
<1>1. RailSet = Terminal!Range(Functions)
  BY DEF RailSet, Terminal!Range
<1>2. ASSUME NEW t \in OnScreen \cup {None}, NEW fn \in RailSet \cup {None}, Terminal!RunEntry(t, fn) PROVE ScreenGood(page')
  <2>1. CASE t = None
    BY <1>2, <2>1, FunctionPicked DEF Terminal!RunEntry, Terminal!To
  <2>2. CASE t # None
    <3>1. t \in OnScreen /\ Terminal!CommitTicker(t, fn, page.fn)
      BY <1>2, <2>2 DEF Terminal!RunEntry
    <3> QED
      BY <1>0, <1>2, <3>1, TickerCommits
  <2> QED
    BY <2>1, <2>2
<1>3. ASSUME NEW t \in OnScreen, NEW fn \in RailSet \cup {None}, Terminal!FollowLink(t, fn) PROVE ScreenGood(page')
  <2>1. page' = Terminal!Replace(page, t, fn) /\ page.going = None
    BY <1>3 DEF Terminal!FollowLink, Terminal!To
  <2>2. ~page.travelling /\ page.stack[page.idx] = page.ticker /\ page.url.t \in {None, page.ticker}
    BY <2>1 DEF ScreenGood
  <2>3. ScreenGood(Terminal!Replace(page, t, fn))
    BY <1>0, <1>3, <2>2, AddressAsked
  <2> QED
    BY <2>1, <2>3
<1>4. ASSUME NEW fn \in RailSet, Terminal!Rail(fn) PROVE ScreenGood(page')
  BY <1>4, FunctionPicked DEF Terminal!Rail, Terminal!To
<1>5. ASSUME NEW d \in {-1, 1}, Terminal!PressBracket(d) PROVE ScreenGood(page')
  BY <1>0, <1>5, FunctionPicked, StepsOnRail DEF Terminal!PressBracket, Terminal!To
<1>6. CASE Terminal!ResolveAnswers
  <2>1. ASSUME NEW t \in OnScreen, Terminal!CommitTicker(t, None, page.resolving) PROVE ScreenGood(page')
    <3>1. page.resolving \in RailSet
      BY <1>0, <1>6 DEF Terminal!ResolveAnswers
    <3> QED
      BY <2>1, <3>1, TickerCommits
  <2>2. ASSUME NEW c, page' = [page EXCEPT !.resolving = None, !.choice = c] PROVE ScreenGood(page')
    <3>1. /\ DOMAIN page' = DOMAIN page /\ page'.name = page.name /\ page'.ticker = page.ticker /\ page'.fn = page.fn
          /\ page'.stack = page.stack /\ page'.idx = page.idx /\ page'.travelling = page.travelling
          /\ page'.resolving = None /\ page'.url = page.url /\ page'.going = page.going
      BY <1>0, <2>2 DEF ScreenType
    <3>2. ScreenType(page')
      BY <1>0, <3>1 DEF ScreenType
    <3> QED
      BY <3>1, <3>2 DEF ScreenGood
  <2> QED
    BY <1>6, <2>1, <2>2, Zenon DEF Terminal!ResolveAnswers, Terminal!To
<1>7. CASE Terminal!PickListing
  <2>1. PICK t \in OnScreen : Terminal!CommitTicker(t, None, page.fn)
    BY <1>7 DEF Terminal!PickListing, Terminal!Offers
  <2> QED
    BY <1>0, <2>1, TickerCommits
<1> QED
  BY <1>0, <1>1, <1>2, <1>3, <1>4, <1>5, <1>6, <1>7, ScreenTravels, ScreenArrives
     DEF Terminal!Next, Terminal!ChangeTicker, Terminal!ChangePeriod, Terminal!RefreshHeader, Terminal!HeaderResolves, Terminal!QuoteAnswers,
         Terminal!HeaderAnswers, Terminal!Type, Terminal!TypeQuery, Terminal!TimerRuns, Terminal!SearchAnswers, Terminal!Mark,
         Terminal!PressEnter, Terminal!ClickHit, Terminal!CloseList, Terminal!Blur, Terminal!OpenPalette, Terminal!ClosePalette,
         Terminal!Lead, Terminal!AskQuestion, Terminal!PaletteTimer, Terminal!FoundAnswers, Terminal!QuestionAnswers,
         Terminal!ClearAnswer, Terminal!Open, ScreenType

\* What stands below the header does not touch its chart: the new one is the
\* only fresh request, or the requests and the chart are as they were.
HeaderShape(p) ==
    /\ DOMAIN p = {"name", "ticker", "period", "snap", "snapBusy", "quote", "quoteErr", "candles", "chartBusy", "hits",
                  "resolving", "unknown", "asked"}
    /\ p.name = "header" /\ p.chartBusy \in BOOLEAN
RequestsOf(asked, of) ==
    \A q \in asked :
        /\ q.what \in {"snap", "chart", "hits"}
        /\ q.what = "chart" => DOMAIN q = {"what", "of", "fresh"} /\ q.fresh \in BOOLEAN
        /\ q.what = "chart" /\ q.fresh => q.of = of

LEMMA HeaderIs ==
    \A p : HeaderGood(p) <=> /\ HeaderShape(p) /\ RequestsOf(p.asked, <<p.ticker, p.period>>)
                             /\ ~p.chartBusy => p.candles \in {None, <<p.ticker, p.period>>}
BY DEF HeaderGood, HeaderShape, RequestsOf

LEMMA Suggests ==
    ASSUME NEW p, NEW q, HeaderGood(q)
    PROVE  HeaderGood(Terminal!Suggest(p, q))
<1> DEFINE others == {r \in q.asked : r.what # "hits"}
           x == [what |-> "hits", of |-> q.ticker]
           new == others \cup {x}
           r == Terminal!Suggest(p, q)
<1>1. HeaderShape(q) /\ RequestsOf(q.asked, <<q.ticker, q.period>>) /\ (~q.chartBusy => q.candles \in {None, <<q.ticker, q.period>>})
  BY HeaderIs
<1>2. x.what = "hits"
  OBVIOUS
<1> HIDE DEF x
<1>3. RequestsOf(others, <<q.ticker, q.period>>) /\ RequestsOf(new, <<q.ticker, q.period>>)
  BY <1>1, <1>2 DEF RequestsOf
<1> HIDE DEF others, new
<1>4. r = q \/ r = [q EXCEPT !.asked = new] \/ r = [q EXCEPT !.hits = None, !.asked = others]
  BY DEF Terminal!Suggest, others, new, x
<1> HIDE DEF r
<1>5. ASSUME NEW asked, RequestsOf(asked, <<q.ticker, q.period>>), r = [q EXCEPT !.asked = asked] \/ r = [q EXCEPT !.hits = None, !.asked = asked]
      PROVE  HeaderGood(r)
  <2>1. /\ DOMAIN r = DOMAIN q /\ r.name = q.name /\ r.ticker = q.ticker /\ r.period = q.period /\ r.candles = q.candles
        /\ r.chartBusy = q.chartBusy /\ r.asked = asked
    BY <1>1, <1>5 DEF HeaderShape
  <2> QED
    BY <1>1, <1>5, <2>1, HeaderIs DEF HeaderShape
<1>6. HeaderGood(r)
  BY <1>3, <1>4, <1>5, Zenon
<1> QED
  BY <1>6 DEF r

LEMMA Charts ==
    ASSUME NEW p, HeaderShape(p), NEW of, RequestsOf(p.asked, of)
    PROVE  HeaderGood(Terminal!Chart(p))
<1> DEFINE Old(q) == IF q.what = "chart" THEN [q EXCEPT !.fresh = FALSE] ELSE q
           old == {Old(q) : q \in p.asked}
           x == [what |-> "chart", of |-> <<p.ticker, p.period>>, fresh |-> TRUE]
           r == Terminal!Chart(p)
<1>1. \A q \in p.asked : /\ Old(q).what \in {"snap", "chart", "hits"}
                         /\ Old(q).what = "chart" => DOMAIN Old(q) = {"what", "of", "fresh"} /\ Old(q).fresh = FALSE
  BY DEF RequestsOf
<1>2. x.what = "chart" /\ DOMAIN x = {"what", "of", "fresh"} /\ x.fresh = TRUE /\ x.of = <<p.ticker, p.period>>
  OBVIOUS
<1>3. /\ DOMAIN r = DOMAIN p /\ r.name = p.name /\ r.ticker = p.ticker /\ r.period = p.period /\ r.chartBusy = TRUE
      /\ r.asked = old \cup {x}
  BY DEF Terminal!Chart, HeaderShape
<1> HIDE DEF x, r, Old
<1>4. \A y \in old : y.what \in {"snap", "chart", "hits"} /\ (y.what = "chart" => DOMAIN y = {"what", "of", "fresh"} /\ y.fresh = FALSE)
  BY <1>1
<1> HIDE DEF old
<1>5. RequestsOf(r.asked, <<r.ticker, r.period>>)
  BY <1>2, <1>3, <1>4 DEF RequestsOf
<1>6. HeaderGood(r)
  BY <1>3, <1>5, HeaderIs DEF HeaderShape
<1> QED
  BY <1>6 DEF r

LEMMA Snaps ==
    ASSUME NEW p, HeaderGood(p)
    PROVE  HeaderGood(Terminal!Snap(p))
<1> DEFINE x == [what |-> "snap", of |-> p.ticker]
           r == Terminal!Snap(p)
<1>1. HeaderShape(p) /\ RequestsOf(p.asked, <<p.ticker, p.period>>) /\ (~p.chartBusy => p.candles \in {None, <<p.ticker, p.period>>})
  BY HeaderIs
<1>2. x.what = "snap"
  OBVIOUS
<1>3. /\ DOMAIN r = DOMAIN p /\ r.name = p.name /\ r.ticker = p.ticker /\ r.period = p.period /\ r.chartBusy = p.chartBusy
      /\ r.candles = p.candles /\ r.asked = p.asked \cup {x}
  BY <1>1 DEF Terminal!Snap, HeaderShape
<1> HIDE DEF x, r
<1>4. RequestsOf(r.asked, <<r.ticker, r.period>>)
  BY <1>1, <1>2, <1>3 DEF RequestsOf
<1>5. HeaderGood(r)
  BY <1>1, <1>3, <1>4, HeaderIs DEF HeaderShape
<1> QED
  BY <1>5 DEF r

LEMMA HeaderKeeps ==
    ASSUME HeaderGood(page), Terminal!Next
    PROVE  HeaderGood(page')
<1>0. /\ HeaderShape(page) /\ RequestsOf(page.asked, <<page.ticker, page.period>>)
      /\ ~page.chartBusy => page.candles \in {None, <<page.ticker, page.period>>}
  BY HeaderIs
<1>1. ASSUME NEW t, Terminal!ChangeTicker(t) PROVE HeaderGood(page')
  <2> DEFINE p == [page EXCEPT !.ticker = t, !.snap = None, !.quote = FALSE, !.resolving = t \in Bare, !.unknown = FALSE]
  <2>1. page' = Terminal!Suggest(page, Terminal!Snap(Terminal!Chart(p)))
    BY <1>1 DEF Terminal!ChangeTicker, Terminal!To
  <2>2. HeaderShape(p) /\ p.asked = page.asked
    BY <1>0 DEF HeaderShape
  <2> HIDE DEF p
  <2>3. HeaderGood(Terminal!Chart(p))
    BY <1>0, <2>2, Charts
  <2>4. HeaderGood(Terminal!Snap(Terminal!Chart(p)))
    BY <2>3, Snaps
  <2> QED
    BY <2>1, <2>4, Suggests
<1>2. ASSUME NEW q, Terminal!ChangePeriod(q) PROVE HeaderGood(page')
  <2> DEFINE p == [page EXCEPT !.period = q]
  <2>1. page' = Terminal!Chart(p)
    BY <1>2 DEF Terminal!ChangePeriod, Terminal!To
  <2>2. HeaderShape(p) /\ p.asked = page.asked
    BY <1>0 DEF HeaderShape
  <2> HIDE DEF p
  <2> QED
    BY <1>0, <2>1, <2>2, Charts
<1>3. CASE Terminal!RefreshHeader
  BY <1>3, Snaps DEF Terminal!RefreshHeader, Terminal!To
\* The chart, its period and its requests, or fewer of them.
<1>4. ASSUME NEW p, DOMAIN p = DOMAIN page, p.name = page.name, p.ticker = page.ticker, p.period = page.period,
             p.candles = page.candles, p.chartBusy = page.chartBusy, p.asked \subseteq page.asked
      PROVE  HeaderGood(p)
  <2>1. RequestsOf(p.asked, <<p.ticker, p.period>>)
    BY <1>0, <1>4 DEF RequestsOf
  <2> QED
    BY <1>0, <1>4, <2>1, HeaderIs DEF HeaderShape
<1>5. CASE Terminal!QuoteAnswers
  <2>1. PICK ok \in BOOLEAN : page' = Terminal!Suggest(page, [page EXCEPT !.quote = @ \/ ok, !.quoteErr = ~ok])
    BY <1>5, Zenon DEF Terminal!QuoteAnswers, Terminal!To
  <2>2. ASSUME NEW a, NEW b PROVE HeaderGood([page EXCEPT !.quote = a, !.quoteErr = b])
    <3> DEFINE p == [page EXCEPT !.quote = a, !.quoteErr = b]
    <3>1. /\ DOMAIN p = DOMAIN page /\ p.name = page.name /\ p.ticker = page.ticker /\ p.period = page.period
          /\ p.candles = page.candles /\ p.chartBusy = page.chartBusy /\ p.asked \subseteq page.asked
      BY <1>0 DEF HeaderShape
    <3> HIDE DEF p
    <3>2. HeaderGood(p)
      BY <1>4, <3>1
    <3> QED
      BY <3>2 DEF p
  <2>3. HeaderGood([page EXCEPT !.quote = @ \/ ok, !.quoteErr = ~ok])
    BY <2>2, Zenon
  <2> QED
    BY <2>1, <2>3, Suggests
<1>6. CASE Terminal!HeaderAnswers
  <2>1. PICK q \in page.asked, ok \in BOOLEAN :
          page' = CASE q.what = "chart" -> Terminal!ChartAnswers(q, ok)
                    [] q.what = "snap" -> Terminal!SnapAnswers(q, ok)
                    [] q.what = "hits" -> [page EXCEPT !.asked = @ \ {q}, !.hits = IF ok THEN q.of ELSE @]
    BY <1>6, Zenon DEF Terminal!HeaderAnswers, Terminal!To
  <2>2. q.what \in {"snap", "chart", "hits"} /\ (q.what = "chart" /\ q.fresh => q.of = <<page.ticker, page.period>>)
    BY <1>0 DEF RequestsOf
  <2>3. CASE q.what = "chart"
    <3>1. page' = Terminal!ChartAnswers(q, ok)
      BY <2>1, <2>3
    <3>2. CASE q.fresh
      <4>1. /\ DOMAIN page' = DOMAIN page /\ page'.name = page.name /\ page'.ticker = page.ticker /\ page'.period = page.period
            /\ page'.candles = (IF ok THEN q.of ELSE None) /\ page'.chartBusy = FALSE /\ page'.asked = page.asked \ {q}
        BY <1>0, <3>1, <3>2 DEF Terminal!ChartAnswers, HeaderShape
      <4>2. RequestsOf(page'.asked, <<page'.ticker, page'.period>>)
        BY <1>0, <4>1 DEF RequestsOf
      <4> QED
        BY <1>0, <2>2, <2>3, <3>2, <4>1, <4>2, HeaderIs DEF HeaderShape
    <3>3. CASE ~q.fresh
      <4>1. /\ DOMAIN page' = DOMAIN page /\ page'.name = page.name /\ page'.ticker = page.ticker /\ page'.period = page.period
            /\ page'.candles = page.candles /\ page'.chartBusy = page.chartBusy /\ page'.asked \subseteq page.asked
        BY <1>0, <3>1, <3>3 DEF Terminal!ChartAnswers, HeaderShape
      <4> QED
        BY <4>1, <1>4
    <3> QED
      BY <3>2, <3>3
  <2>4. CASE q.what = "snap"
    <3> DEFINE p == [page EXCEPT !.asked = @ \ {q}, !.snap = IF ok THEN q.of ELSE @, !.snapBusy = FALSE]
    <3>1. page' = Terminal!Suggest(page, p)
      BY <2>1, <2>4 DEF Terminal!SnapAnswers
    <3>2. /\ DOMAIN p = DOMAIN page /\ p.name = page.name /\ p.ticker = page.ticker /\ p.period = page.period
          /\ p.candles = page.candles /\ p.chartBusy = page.chartBusy /\ p.asked \subseteq page.asked
      BY <1>0 DEF HeaderShape
    <3> HIDE DEF p
    <3> QED
      BY <3>1, <3>2, <1>4, Suggests
  <2>5. CASE q.what = "hits"
    <3>1. page' = [page EXCEPT !.asked = @ \ {q}, !.hits = IF ok THEN q.of ELSE @]
      BY <2>1, <2>5
    <3>2. /\ DOMAIN page' = DOMAIN page /\ page'.name = page.name /\ page'.ticker = page.ticker /\ page'.period = page.period
          /\ page'.candles = page.candles /\ page'.chartBusy = page.chartBusy /\ page'.asked \subseteq page.asked
      BY <1>0, <3>1 DEF HeaderShape
    <3> QED
      BY <3>2, <1>4
  <2> QED
    BY <2>2, <2>3, <2>4, <2>5
<1>7. CASE Terminal!HeaderResolves
  <2>1. PICK none \in BOOLEAN : page' = Terminal!Suggest(page, [page EXCEPT !.resolving = FALSE, !.unknown = none])
    BY <1>7, Zenon DEF Terminal!HeaderResolves, Terminal!To
  <2> DEFINE p == [page EXCEPT !.resolving = FALSE, !.unknown = none]
  <2>2. /\ DOMAIN p = DOMAIN page /\ p.name = page.name /\ p.ticker = page.ticker /\ p.period = page.period
        /\ p.candles = page.candles /\ p.chartBusy = page.chartBusy /\ p.asked \subseteq page.asked
    BY <1>0 DEF HeaderShape
  <2>3. page' = Terminal!Suggest(page, p)
    BY <2>1
  <2> HIDE DEF p
  <2> QED
    BY <2>2, <2>3, <1>4, Suggests
<1> QED
  BY <1>0, <1>1, <1>2, <1>3, <1>5, <1>6, <1>7
     DEF Terminal!Next, Terminal!RunEntry, Terminal!FollowLink, Terminal!Rail, Terminal!PressBracket, Terminal!Travel,
         Terminal!UrlArrives, Terminal!ResolveAnswers, Terminal!PickListing, Terminal!Type, Terminal!TypeQuery, Terminal!TimerRuns,
         Terminal!SearchAnswers, Terminal!Mark, Terminal!PressEnter, Terminal!ClickHit, Terminal!CloseList, Terminal!Blur,
         Terminal!OpenPalette, Terminal!ClosePalette, Terminal!Lead, Terminal!AskQuestion, Terminal!PaletteTimer,
         Terminal!FoundAnswers, Terminal!QuestionAnswers, Terminal!ClearAnswer, Terminal!Open, HeaderShape

EntryShape(p) ==
    /\ DOMAIN p = {"name", "blurs", "value", "text", "hits", "open", "sel", "skip", "timer", "asked"}
    /\ p.name = "entry"
Marked(p) == p.open /\ p.hits # <<>> => Len(p.hits) \in Nat \ {0} /\ DOMAIN p.hits = 1..Len(p.hits) /\ p.sel \in 0..Len(p.hits)

LEMMA Searches ==
    ASSUME NEW p, NEW q, EntryShape(q), Marked(q)
    PROVE  EntryGood(Terminal!Changed(p, q))
<1> DEFINE r == Terminal!Changed(p, q)
<1>1. /\ DOMAIN r = DOMAIN q /\ r.name = q.name
      /\ \/ r.hits = q.hits /\ r.open = q.open /\ r.sel = q.sel
         \/ r.open = FALSE
  BY DEF Terminal!Changed, Terminal!Search, EntryShape
<1> HIDE DEF r
<1>2. EntryGood(r)
  BY <1>1 DEF EntryShape, Marked, EntryGood
<1> QED
  BY <1>2 DEF r

LEMMA Commits ==
    ASSUME EntryGood(page), NEW t, Terminal!Commit(t)
    PROVE  EntryGood(page')
<1>1. PICK kept \in BOOLEAN :
        page' = Terminal!Changed(page, [page EXCEPT !.skip = TRUE, !.text = t, !.open = FALSE, !.hits = <<>>, !.value = IF kept THEN @ ELSE t])
  BY Zenon DEF Terminal!Commit, Terminal!To
<1> DEFINE q == [page EXCEPT !.skip = TRUE, !.text = t, !.open = FALSE, !.hits = <<>>, !.value = IF kept THEN @ ELSE t]
<1>2. EntryShape(q) /\ q.open = FALSE
  BY DEF EntryGood, EntryShape
<1> HIDE DEF q
<1>3. EntryGood(Terminal!Changed(page, q))
  BY <1>2, Searches DEF Marked
<1> QED
  BY <1>1, <1>3 DEF q

LEMMA EntryKeeps ==
    ASSUME EntryGood(page), Terminal!Next
    PROVE  EntryGood(page')
<1>0. EntryShape(page) /\ Marked(page)
  BY DEF EntryGood, EntryShape, Marked
<1>1. ASSUME NEW t, Terminal!Type(t) PROVE EntryGood(page')
  <2> DEFINE q == [page EXCEPT !.text = t]
  <2>1. page' = Terminal!Changed(page, q)
    BY <1>1 DEF Terminal!Type, Terminal!To
  <2>2. EntryShape(q) /\ q.open = page.open /\ q.hits = page.hits /\ q.sel = page.sel
    BY <1>0 DEF EntryShape
  <2> HIDE DEF q
  <2>3. Marked(q)
    BY <1>0, <2>2 DEF Marked
  <2> QED
    BY <2>1, <2>2, <2>3, Searches
<1>2. CASE Terminal!TimerRuns \/ Terminal!CloseList
  BY <1>2 DEF Terminal!TimerRuns, Terminal!CloseList, Terminal!To, EntryGood
<1>3. CASE Terminal!SearchAnswers
  <2>1. ASSUME NEW q, NEW n \in 0..2, page' = Terminal!Hits(q, [i \in 1..n |-> q]) PROVE EntryGood(page')
    <3> DEFINE found == [i \in 1..n |-> q]
    <3>1. found \in Seq({q}) /\ Len(found) = n
      OBVIOUS
    <3>2. page'.hits = found /\ page'.sel = 0 /\ DOMAIN page' = DOMAIN page /\ page'.name = page.name
      BY <1>0, <2>1 DEF Terminal!Hits, EntryShape
    <3> HIDE DEF found
    <3>3. found # <<>> => Len(found) \in Nat \ {0} /\ DOMAIN found = 1..Len(found)
      BY <3>1
    <3> QED
      BY <1>0, <3>1, <3>2, <3>3 DEF EntryShape, EntryGood
  <2>2. ASSUME NEW q, page' = [page EXCEPT !.asked = @ \ {q}, !.hits = <<>>, !.open = FALSE] PROVE EntryGood(page')
    BY <2>2 DEF EntryGood
  <2> QED
    BY <1>3, <2>1, <2>2, Zenon DEF Terminal!SearchAnswers, Terminal!To
<1>4. CASE Terminal!Mark
  <2>1. Len(page.hits) \in Nat \ {0} /\ page.sel \in 0..Len(page.hits) /\ DOMAIN page.hits = 1..Len(page.hits)
    BY <1>0, <1>4 DEF Terminal!Mark, Terminal!Listed, Marked
  <2>2. ASSUME NEW sel \in 0..Len(page.hits), page' = [page EXCEPT !.sel = sel] PROVE EntryGood(page')
    BY <2>1, <2>2 DEF EntryGood
  <2>3. /\ (page.sel % Len(page.hits)) + 1 \in 0..Len(page.hits)
        /\ ((page.sel - 2 + Len(page.hits)) % Len(page.hits)) + 1 \in 0..Len(page.hits)
    <3> DEFINE n == Len(page.hits)
               s == page.sel
    <3>1. n \in Nat \ {0} /\ s \in Int /\ s - 2 + n \in Int
      BY <2>1
    <3> HIDE DEF n, s
    <3>2. \A k \in Int : (k % n) + 1 \in 0..n
      BY <3>1
    <3>3. (s % n) + 1 \in 0..n /\ ((s - 2 + n) % n) + 1 \in 0..n
      BY <3>1, <3>2
    <3> QED
      BY <3>3 DEF n, s
  <2>4. ASSUME NEW i \in DOMAIN page.hits, page' = [page EXCEPT !.sel = i] PROVE EntryGood(page')
    <3>1. i \in 0..Len(page.hits)
      BY <2>1, <2>4
    <3> QED
      BY <2>2, <2>4, <3>1
  <2> QED
    BY <1>4, <2>2, <2>3, <2>4 DEF Terminal!Mark, Terminal!To
<1>5. CASE Terminal!PressEnter \/ Terminal!ClickHit
  BY <1>5, Commits DEF Terminal!PressEnter, Terminal!ClickHit
<1>6. CASE Terminal!Blur
  <2>1. ASSUME page' = [page EXCEPT !.open = FALSE] PROVE EntryGood(page')
    BY <2>1 DEF EntryGood
  <2> QED
    BY <1>6, <2>1, Commits, Zenon DEF Terminal!Blur, Terminal!To
<1> QED
  BY <1>0, <1>1, <1>2, <1>3, <1>4, <1>5, <1>6
     DEF Terminal!Next, Terminal!RunEntry, Terminal!FollowLink, Terminal!Rail, Terminal!PressBracket, Terminal!Travel,
         Terminal!UrlArrives, Terminal!ResolveAnswers, Terminal!PickListing, Terminal!ChangeTicker, Terminal!ChangePeriod,
         Terminal!RefreshHeader, Terminal!HeaderResolves, Terminal!QuoteAnswers, Terminal!HeaderAnswers, Terminal!TypeQuery, Terminal!OpenPalette,
         Terminal!ClosePalette, Terminal!Lead, Terminal!AskQuestion, Terminal!PaletteTimer, Terminal!FoundAnswers,
         Terminal!QuestionAnswers, Terminal!ClearAnswer, Terminal!Open, EntryShape

LEMMA PaletteKeeps ==
    ASSUME Named(page, {"palette"}), Terminal!Next
    PROVE  Named(page', {"palette"})
<1>1. \/ Terminal!OpenPalette \/ Terminal!ClosePalette \/ Terminal!Lead \/ Terminal!AskQuestion \/ Terminal!PaletteTimer
      \/ Terminal!FoundAnswers \/ Terminal!QuestionAnswers \/ Terminal!ClearAnswer \/ \E t \in Texts : Terminal!TypeQuery(t)
  BY Zenon DEF Terminal!Next, Terminal!RunEntry, Terminal!FollowLink, Terminal!Rail, Terminal!PressBracket, Terminal!Travel,
         Terminal!UrlArrives, Terminal!ResolveAnswers, Terminal!PickListing, Terminal!ChangeTicker, Terminal!ChangePeriod,
         Terminal!RefreshHeader, Terminal!HeaderResolves, Terminal!QuoteAnswers, Terminal!HeaderAnswers, Terminal!Type, Terminal!TimerRuns,
         Terminal!SearchAnswers, Terminal!Mark, Terminal!PressEnter, Terminal!ClickHit, Terminal!CloseList, Terminal!Blur,
         Terminal!Open, Named
<1>2. CASE Terminal!OpenPalette \/ Terminal!ClosePalette \/ Terminal!Lead \/ Terminal!ClearAnswer \/ \E t \in Texts : Terminal!TypeQuery(t)
  BY <1>2, Zenon DEF Terminal!OpenPalette, Terminal!ClosePalette, Terminal!Lead, Terminal!ClearAnswer, Terminal!TypeQuery, Terminal!SetQ,
     Terminal!Shut, Terminal!To, Named
<1>3. CASE Terminal!AskQuestion \/ Terminal!PaletteTimer
  BY <1>3 DEF Terminal!AskQuestion, Terminal!PaletteTimer, Terminal!To, Named
<1>4. CASE Terminal!FoundAnswers
  BY <1>4 DEF Terminal!FoundAnswers, Terminal!To, Named
<1>5. CASE Terminal!QuestionAnswers
  <2>1. PICK q \in page.asked, ok \in BOOLEAN : page' = [page EXCEPT !.asked = @ \ {q}, !.asking = FALSE, !.answer = IF ok THEN q.of ELSE @, !.err = @ \/ ~ok]
    BY <1>5, Zenon DEF Terminal!QuestionAnswers, Terminal!To
  <2>2. ASSUME NEW a, NEW b, NEW c, NEW d PROVE Named([page EXCEPT !.asked = a, !.asking = b, !.answer = c, !.err = d], {"palette"})
    BY DEF Named
  <2> QED
    BY <2>1, <2>2, Zenon
<1> QED
  BY <1>1, <1>2, <1>3, <1>4, <1>5

LEMMA TerminalStarts == Terminal!Init => TerminalGood
<1>1. ASSUME NEW t \in OnScreen, page = Terminal!ScreenPage(t) PROVE ScreenGood(page)
  <2>1. Functions[1] \in RailSet /\ <<t>> \in Seq(OnScreen) /\ Len(<<t>>) = 1 /\ <<t>>[1] = t
    BY TerminalAssumption
  <2> DEFINE s == <<t>>
  <2>2. /\ DOMAIN page = {"name", "ticker", "fn", "stack", "idx", "travelling", "url", "going", "resolving", "choice"}
        /\ page.name = "terminal" /\ page.ticker = t /\ page.fn = Functions[1] /\ page.stack = s /\ page.idx = 1
        /\ page.travelling = FALSE /\ page.url.t = None /\ page.going = None /\ page.resolving \in {Functions[1], None}
    BY <1>1 DEF Terminal!ScreenPage
  <2> HIDE DEF s
  <2>3. s \in Seq(OnScreen) /\ Len(s) = 1 /\ s[1] = t
    BY <2>1 DEF s
  <2>4. page.fn \in RailSet /\ page.resolving \in RailSet \cup {None} /\ page.ticker \in OnScreen
    BY <2>1, <2>2
  <2>5. /\ page.stack \in Seq(OnScreen) /\ Len(page.stack) <= MaxStack /\ page.idx \in 1..Len(page.stack)
        /\ page.stack[page.idx] = page.ticker /\ \A i \in 1..Len(page.stack) - 1 : page.stack[i] # page.stack[i + 1]
    BY <2>2, <2>3, TerminalAssumption
  <2> QED
    BY <2>2, <2>4, <2>5 DEF ScreenGood, ScreenType
<1>2. ASSUME NEW t \in OnScreen, page = Terminal!HeaderPage(t) PROVE HeaderGood(page)
  <2> DEFINE of == <<t, CHOOSE q \in Periods : TRUE>>
             a == [what |-> "snap", of |-> t]
             b == [what |-> "chart", of |-> of, fresh |-> TRUE]
  <2>1. /\ HeaderShape(page) /\ page.chartBusy = TRUE /\ page.asked = {a, b} /\ <<page.ticker, page.period>> = of
    BY <1>2 DEF Terminal!HeaderPage, HeaderShape
  <2>2. a.what = "snap" /\ b.what = "chart" /\ DOMAIN b = {"what", "of", "fresh"} /\ b.fresh = TRUE /\ b.of = of
    OBVIOUS
  <2> HIDE DEF a, b, of
  <2>3. RequestsOf(page.asked, <<page.ticker, page.period>>)
    BY <2>1, <2>2 DEF RequestsOf
  <2> QED
    BY <2>1, <2>3, HeaderIs
<1>3. ASSUME NEW b, page = Terminal!EntryPage(b) PROVE EntryGood(page)
  BY <1>3, Zenon DEF Terminal!EntryPage, EntryGood
<1>4. ASSUME page = Terminal!PalettePage PROVE Named(page, {"palette"})
  BY <1>4, Zenon DEF Terminal!PalettePage, Named
<1> QED
  BY <1>1, <1>2, <1>3, <1>4 DEF Terminal!Init, TerminalGood

LEMMA TerminalKeeps == TerminalGood /\ Terminal!Next => TerminalGood'
BY ScreenKeeps, HeaderKeeps, EntryKeeps, PaletteKeeps DEF TerminalGood

LEMMA TerminalHolds ==
    TerminalGood => /\ OpenIn(TerminalPages)
                    /\ Terminal!HistoryTracks /\ Terminal!AddressAgrees /\ Terminal!ChartOfPeriod /\ Terminal!MarkIsListed
<1>1. CASE ScreenGood(page)
  BY <1>1 DEF ScreenGood, ScreenType, Terminal!HistoryTracks, Terminal!AddressAgrees, Terminal!ChartOfPeriod, Terminal!MarkIsListed,
     Terminal!Open, OpenIn, TerminalPages
<1>2. CASE HeaderGood(page)
  BY <1>2 DEF HeaderGood, Terminal!HistoryTracks, Terminal!AddressAgrees, Terminal!ChartOfPeriod, Terminal!MarkIsListed,
     Terminal!Open, OpenIn, TerminalPages
<1>3. CASE EntryGood(page)
  BY <1>3 DEF EntryGood, Terminal!HistoryTracks, Terminal!AddressAgrees, Terminal!ChartOfPeriod, Terminal!MarkIsListed,
     Terminal!Listed, Terminal!Open, OpenIn, TerminalPages
<1>4. CASE Named(page, {"palette"})
  BY <1>4 DEF Named, Terminal!HistoryTracks, Terminal!AddressAgrees, Terminal!ChartOfPeriod, Terminal!MarkIsListed,
     Terminal!Open, OpenIn, TerminalPages
<1> QED
  BY <1>1, <1>2, <1>3, <1>4 DEF TerminalGood

-----------------------------------------------------------------------------
(* The alerts.                                                             *)

\* A draft waits for what its kind is measured by, or has that, or nothing.
DraftShape(p) ==
    /\ DOMAIN p = {"name", "kind", "ticker", "op", "value", "current", "busy", "wanted", "alerts", "poll", "error", "made", "asked"}
    /\ p.name = "draft" /\ p.value \in Values \cup {None} /\ p.op \in {"<", ">"} /\ p.busy \in BOOLEAN
    /\ p.current # None => DOMAIN p.current = {"of", "ticker", "n"} /\ p.current.n \in Values
DraftGood(p) ==
    /\ DraftShape(p)
    /\ p.wanted # None => p.wanted = Alert!Measuring(p)
    /\ Alert!NeedsTicker(p.kind) /\ p.ticker # NoTicker =>
          /\ p.busy => p.wanted = Alert!Measuring(p)
          /\ ~p.busy /\ p.current # None => p.current.of = Alert!Source(p.kind) /\ p.current.ticker = p.ticker

\* A device is said to receive alerts when the server has it.
ServerOf(s) ==
    /\ DOMAIN s = {"alerts", "channels", "settings"} /\ DOMAIN s.channels = {"email", "key", "linked", "push"}
    /\ s.channels.push \in BOOLEAN
DeliveryGood(p, s) ==
    /\ DOMAIN p = {"name", "cfg", "push", "email", "emailMsg", "code", "tgMsg", "testMsg", "asked"} /\ p.name = "delivery"
    /\ ServerOf(s) /\ (p.push = "enabled" => s.channels.push)

AlertGood == DraftGood(page) \/ DeliveryGood(page, srv) \/ Named(page, {"setup"})

LEMMA DraftStays ==
    ASSUME NEW p, NEW q, DraftGood(p), DraftShape(q), q.kind = p.kind, q.ticker = p.ticker, q.current = p.current, q.busy = p.busy, q.wanted = p.wanted
    PROVE  DraftGood(q)
BY DEF DraftGood, Alert!Measuring

LEMMA DraftKeeps ==
    ASSUME DraftGood(page), Alert!Next
    PROVE  DraftGood(page')
<1>0. DraftShape(page)
  BY DEF DraftGood
<1>1. ASSUME NEW p, DraftShape(p) PROVE DraftGood(Alert!Checked(p))
  <2>1. CASE Alert!NeedsTicker(p.kind) /\ p.ticker # NoTicker
    <3>1. Alert!Checked(p) = [p EXCEPT !.busy = TRUE, !.wanted = Alert!Measuring(p)]
      BY <2>1 DEF Alert!Checked
    <3> QED
      BY <1>1, <3>1 DEF DraftGood, DraftShape, Alert!Measuring
  <2>2. CASE ~(Alert!NeedsTicker(p.kind) /\ p.ticker # NoTicker)
    <3>1. Alert!Checked(p) = [p EXCEPT !.current = None, !.wanted = None]
      BY <2>2 DEF Alert!Checked
    <3> QED
      BY <1>1, <2>2, <3>1 DEF DraftGood, DraftShape, Alert!Measuring
  <2> QED
    BY <2>1, <2>2
<1>2. ASSUME NEW k, Alert!SetKind(k) \/ Alert!SetTicker(k) PROVE DraftGood(page')
  <2>1. PICK p \in {[page EXCEPT !.kind = k], [page EXCEPT !.ticker = k]} : page' = Alert!Checked(p)
    BY <1>2 DEF Alert!SetKind, Alert!SetTicker, Alert!To
  <2>2. DraftShape(p)
    BY <1>0 DEF DraftShape
  <2> QED
    BY <1>1, <2>1, <2>2
<1>3. ASSUME NEW v, (v \in {"<", ">"} /\ Alert!SetOp(v)) \/ (v \in Values \cup {None} /\ Alert!SetValue(v)) PROVE DraftGood(page')
  <2>1. /\ DraftShape(page') /\ page'.kind = page.kind /\ page'.ticker = page.ticker /\ page'.current = page.current
        /\ page'.busy = page.busy /\ page'.wanted = page.wanted
    BY <1>0, <1>3 DEF Alert!SetOp, Alert!SetValue, Alert!To, DraftShape
  <2> QED
    BY <2>1, DraftStays
<1>4. CASE Alert!Measured
  <2>1. ASSUME NEW n \in Values, page.wanted # None,
               page' = [page EXCEPT !.current = [of |-> page.wanted.of, ticker |-> page.wanted.ticker, n |-> n], !.busy = FALSE, !.wanted = None]
        PROVE  DraftGood(page')
    <3>1. page.wanted.of = Alert!Source(page.kind) /\ page.wanted.ticker = page.ticker
      BY <2>1 DEF DraftGood, Alert!Measuring
    <3>2. /\ DOMAIN page' = DOMAIN page /\ page'.name = page.name /\ page'.value = page.value /\ page'.op = page.op /\ page'.kind = page.kind
          /\ page'.ticker = page.ticker /\ page'.busy = FALSE /\ page'.wanted = None
          /\ DOMAIN page'.current = {"of", "ticker", "n"} /\ page'.current.n = n
          /\ page'.current.of = page.wanted.of /\ page'.current.ticker = page.wanted.ticker
      BY <1>0, <2>1 DEF DraftShape
    <3> QED
      BY <1>0, <3>1, <3>2 DEF DraftGood, DraftShape
  <2>2. ASSUME page' = [page EXCEPT !.current = None, !.busy = FALSE, !.wanted = None] PROVE DraftGood(page')
    BY <1>0, <2>2 DEF DraftGood, DraftShape
  <2> QED
    BY <1>4, <2>1, <2>2, Zenon DEF Alert!Measured, Alert!To
<1>5. CASE Alert!Tick \/ Alert!PollAnswers \/ (\E c \in BOOLEAN : Alert!Create(c)) \/ (\E a \in Alert!Shown : Alert!Delete(a))
           \/ \E a \in srv.alerts : Alert!Fire(a)
  <2>1. /\ DraftShape(page') /\ page'.kind = page.kind /\ page'.ticker = page.ticker /\ page'.current = page.current
        /\ page'.busy = page.busy /\ page'.wanted = page.wanted
    BY <1>0, <1>5, Zenon DEF Alert!Tick, Alert!Poll, Alert!PollAnswers, Alert!Create, Alert!Delete, Alert!Fire, Alert!Ask, Alert!To, DraftShape
  <2> QED
    BY <2>1, DraftStays
<1>6. ASSUME NEW q \in page.asked, Alert!CreateAnswers(q) \/ Alert!DeleteAnswers(q) PROVE DraftGood(page')
  <2>1. /\ DraftShape(page') /\ page'.kind = page.kind /\ page'.ticker = page.ticker /\ page'.current = page.current
        /\ page'.busy = page.busy /\ page'.wanted = page.wanted
    <3>1. CASE Alert!CreateAnswers(q)
      BY <1>0, <3>1, Zenon DEF Alert!CreateAnswers, Alert!Answered, Alert!To, DraftShape
    <3>2. ASSUME Alert!DeleteAnswers(q) PROVE page' \in {Alert!Answered(q), [Alert!Answered(q) EXCEPT !.poll = srv'.alerts]}
      BY <3>2 DEF Alert!DeleteAnswers, Alert!To
    <3>3. CASE Alert!DeleteAnswers(q)
      BY <1>0, <3>2, <3>3 DEF Alert!Answered, DraftShape
    <3> QED
      BY <1>6, <3>1, <3>3
  <2> QED
    BY <2>1, DraftStays
<1>7. Alert!DraftNext
  BY <1>0 DEF DraftShape, Alert!Next, Alert!DeliveryNext, Alert!SetupNext, Alert!Open, Alert!CfgAnswers, Alert!TypeEmail,
     Alert!ToggleSetup, Alert!EditField, Alert!SaveSettings
<1> QED
  BY <1>2, <1>3, <1>4, <1>5, <1>6, <1>7 DEF Alert!DraftNext

LEMMA DeliveryKeeps ==
    ASSUME DeliveryGood(page, srv), Alert!Next
    PROVE  DeliveryGood(page', srv')
<1>1. Alert!DeliveryNext
  BY DEF DeliveryGood, Alert!Next, Alert!DraftNext, Alert!SetupNext, Alert!Open, Alert!SetKind, Alert!SetTicker, Alert!SetOp,
     Alert!SetValue, Alert!Measured, Alert!Tick, Alert!PollAnswers, Alert!Create, Alert!ToggleSetup, Alert!EditField, Alert!SaveSettings
<1>0. ServerOf(srv)
  BY DEF DeliveryGood
<1>2. CASE Alert!CfgAnswers \/ Alert!SaveEmail \/ Alert!TgStart \/ Alert!TgVerify \/ Alert!Unlink \/ Alert!EnablePush
           \/ Alert!TestChannels \/ \E e \in {"none", "typed"} : Alert!TypeEmail(e)
  BY <1>2 DEF DeliveryGood, ServerOf, Alert!CfgAnswers, Alert!SaveEmail, Alert!TgStart, Alert!TgVerify, Alert!Unlink, Alert!EnablePush,
     Alert!TestChannels, Alert!TypeEmail, Alert!Ask, Alert!Answered, Alert!To
<1>3. ASSUME NEW v, NEW s \in {srv, [srv EXCEPT !.channels.email = v], [srv EXCEPT !.channels.linked = v]}
      PROVE  ServerOf(s) /\ s.channels.push = srv.channels.push
  BY <1>0, <1>3 DEF ServerOf
<1>4. ASSUME NEW q, Alert!EmailAnswers(q) \/ Alert!VerifyAnswers(q) \/ Alert!UnlinkAnswers(q) PROVE DeliveryGood(page', srv')
  <2>1. ServerOf(srv') /\ srv'.channels.push = srv.channels.push
    BY <1>3, <1>4 DEF Alert!EmailAnswers, Alert!VerifyAnswers, Alert!UnlinkAnswers, Alert!To
  <2>2. DOMAIN page' = DOMAIN page /\ page'.name = "delivery" /\ page'.push = page.push
    BY <1>4 DEF Alert!EmailAnswers, Alert!VerifyAnswers, Alert!UnlinkAnswers, Alert!LoadCfg, Alert!Ask, Alert!Answered, Alert!To, DeliveryGood
  <2> QED
    BY <2>1, <2>2 DEF DeliveryGood
<1>5. ASSUME NEW q, Alert!StartAnswers(q) \/ Alert!PermitAnswers(q) \/ Alert!TestAnswers(q) PROVE DeliveryGood(page', srv')
  BY <1>5 DEF DeliveryGood, ServerOf, Alert!StartAnswers, Alert!PermitAnswers, Alert!Permitted, Alert!TestAnswers, Alert!Ask, Alert!Answered, Alert!To
<1>6. ASSUME NEW q, Alert!SubscribeAnswers(q) PROVE DeliveryGood(page', srv')
  <2>1. CASE srv' = [srv EXCEPT !.channels.push = TRUE]
    <3>1. ServerOf(srv') /\ srv'.channels.push
      BY <1>0, <2>1 DEF ServerOf
    <3>2. DOMAIN page' = DOMAIN page /\ page'.name = "delivery"
      BY <1>6 DEF Alert!SubscribeAnswers, Alert!Answered, Alert!To, DeliveryGood
    <3> QED
      BY <3>1, <3>2 DEF DeliveryGood
  <2>2. CASE UNCHANGED srv /\ page' = [Alert!Answered(q) EXCEPT !.push = "error"]
    BY <2>2 DEF DeliveryGood, ServerOf, Alert!Answered
  <2> QED
    BY <1>6, <2>1, <2>2 DEF Alert!SubscribeAnswers, Alert!To
<1> QED
  BY <1>1, <1>2, <1>4, <1>5, <1>6 DEF Alert!DeliveryNext

LEMMA SetupKeeps ==
    ASSUME Named(page, {"setup"}), Alert!Next
    PROVE  Named(page', {"setup"})
<1>1. Alert!SetupNext
  BY Zenon DEF Named, Alert!Next, Alert!DraftNext, Alert!DeliveryNext, Alert!Open, Alert!SetKind, Alert!SetTicker, Alert!SetOp,
     Alert!SetValue, Alert!Measured, Alert!Tick, Alert!PollAnswers, Alert!Create, Alert!CfgAnswers, Alert!TypeEmail
<1> QED
  BY <1>1, Zenon DEF Named, Alert!SetupNext, Alert!ToggleSetup, Alert!EditField, Alert!SaveSettings, Alert!SettingsAnswer,
     Alert!SettingsSaved, Alert!Ask, Alert!Answered, Alert!To

LEMMA AlertStarts == Alert!Init => AlertGood
<1>1. ASSUME page = Alert!DraftPage PROVE DraftGood(page)
  BY <1>1 DEF Alert!DraftPage, DraftGood, DraftShape
<1>2. ASSUME page = Alert!DeliveryPage, NEW b \in BOOLEAN, srv = Alert!Server(b) PROVE DeliveryGood(page, srv)
  BY <1>2 DEF Alert!DeliveryPage, Alert!Server, DeliveryGood, ServerOf
<1>3. ASSUME page = Alert!SetupPage PROVE Named(page, {"setup"})
  BY <1>3 DEF Alert!SetupPage, Named
<1>4. page = Alert!DeliveryPage => page.name = "delivery"
  BY DEF Alert!DeliveryPage
<1> QED
  BY <1>1, <1>2, <1>3, <1>4 DEF Alert!Init, AlertGood

LEMMA AlertKeeps == AlertGood /\ Alert!Next => AlertGood'
BY DraftKeeps, DeliveryKeeps, SetupKeeps DEF AlertGood

LEMMA DistanceLeads ==
    ASSUME DraftGood(page)
    PROVE  Alert!DistanceLeadsThere
<1> SUFFICES ASSUME Alert!DraftView.distance, page.current # None
             PROVE  LET d == Alert!Distance(page.op, page.value, Alert!Number) IN
                    page.value = Alert!Number + (IF d.direction = "up" THEN d.gap ELSE -d.gap)
  BY DEF Alert!DistanceLeadsThere
<1>1. Alert!Problems = {} /\ page.value # None
  BY DEF Alert!DraftView
<1>2. Alert!Number = page.current.n /\ page.current.n \in Values /\ page.value \in Values /\ page.op \in {"<", ">"}
  BY <1>1 DEF Alert!Number, DraftGood, DraftShape
<1> DEFINE n == page.current.n
           v == page.value
<1>3. Alert!Validate(page, n) = {}
  BY <1>1, <1>2 DEF Alert!Problems
<1>4. n # None /\ ~Alert!AlreadyTrue(page.op, v, n)
  BY <1>1, <1>3, Zenon DEF Alert!Validate
<1>5. n \in Int /\ v \in Int
  BY <1>2, ValueAssumption
<1> DEFINE d == Alert!Distance(page.op, v, n)
<1>6. d.gap = Alert!Abs(v - n) /\ d.direction = (IF page.op = ">" THEN "up" ELSE "down")
  BY DEF Alert!Distance
<1> HIDE DEF d
<1>7. v = n + (IF d.direction = "up" THEN d.gap ELSE -d.gap)
  BY <1>2, <1>4, <1>5, <1>6 DEF Alert!AlreadyTrue, Alert!Abs
<1> QED
  BY <1>2, <1>7 DEF d

LEMMA AlertHolds ==
    AlertGood => OpenIn(AlertNames) /\ Alert!CheckedAgainstItsOwn /\ Alert!DistanceLeadsThere /\ Alert!EnabledIsSubscribed
<1>1. ASSUME DraftGood(page) PROVE OpenIn(AlertNames) /\ Alert!CheckedAgainstItsOwn /\ Alert!DistanceLeadsThere /\ Alert!EnabledIsSubscribed
  <2>1. Alert!CheckedAgainstItsOwn
    BY <1>1 DEF DraftGood, DraftShape, Alert!CheckedAgainstItsOwn, Alert!DraftView
  <2> QED
    BY <1>1, <2>1, DistanceLeads DEF DraftGood, DraftShape, OpenIn, AlertNames, Alert!EnabledIsSubscribed, Alert!Open
<1>2. ASSUME DeliveryGood(page, srv) \/ Named(page, {"setup"})
      PROVE OpenIn(AlertNames) /\ Alert!CheckedAgainstItsOwn /\ Alert!DistanceLeadsThere /\ Alert!EnabledIsSubscribed
  BY <1>2 DEF DeliveryGood, Named, OpenIn, AlertNames, Alert!CheckedAgainstItsOwn, Alert!DistanceLeadsThere, Alert!EnabledIsSubscribed, Alert!Open
<1> QED
  BY <1>1, <1>2 DEF AlertGood

-----------------------------------------------------------------------------
(* The builder, the chain, the backtester, the news and the screens.       *)

\* A latched structure is the chosen one, laid out near the price.
BuilderShape(p) ==
    /\ DOMAIN p = {"name", "prop", "spot", "preset", "legs", "anchor", "vol", "seeded", "history"} /\ p.name = "builder"
    /\ p.spot \in Nat \ {0} /\ DOMAIN p.legs = {"of", "at", "edited", "count"}
BuilderGood(p) ==
    /\ BuilderShape(p)
    /\ p.anchor # None => p.legs.of = p.preset /\ p.legs.at = p.anchor /\ Research!Near(p.spot, p.anchor)

LEMMA LaidOutNear ==
    ASSUME NEW p, BuilderShape(p)
    PROVE  BuilderGood(Research!LaidOut(p))
<1> DEFINE q == Research!LaidOut(p)
<1>1. /\ DOMAIN q = DOMAIN p /\ q.name = p.name /\ q.spot = p.spot /\ q.preset = p.preset /\ q.anchor = p.spot
      /\ q.legs = Research!Structure(p.preset, p.spot)
  BY DEF Research!LaidOut, BuilderShape
<1> HIDE DEF q
<1>2. DOMAIN q.legs = {"of", "at", "edited", "count"} /\ q.legs.of = p.preset /\ q.legs.at = p.spot
  BY <1>1 DEF Research!Structure
<1>3. Research!Near(p.spot, p.spot)
  BY DEF Research!Near, BuilderShape
<1>4. BuilderGood(q)
  BY <1>1, <1>2, <1>3 DEF BuilderGood, BuilderShape
<1> QED
  BY <1>4 DEF q

LEMMA SpotMoves ==
    ASSUME NEW p, BuilderGood(p), NEW v \in Nat \ {0}
    PROVE  BuilderGood(Research!SetSpot(p, v))
<1>1. CASE v = p.spot
  BY <1>1 DEF Research!SetSpot
<1>2. CASE v # p.spot
  <2> DEFINE q == [p EXCEPT !.spot = v]
  <2>1. BuilderShape(q) /\ q.anchor = p.anchor /\ q.legs = p.legs /\ q.preset = p.preset /\ q.spot = v
    BY DEF BuilderGood, BuilderShape
  <2>2. Research!SetSpot(p, v) = Research!Relaid(q)
    BY <1>2 DEF Research!SetSpot
  <2> HIDE DEF q
  <2>3. CASE q.anchor # None /\ Research!Near(q.spot, q.anchor)
    <3>1. Research!Relaid(q) = q
      BY <2>3 DEF Research!Relaid
    <3> QED
      BY <2>1, <2>2, <2>3, <3>1 DEF BuilderGood
  <2>4. CASE ~(q.anchor # None /\ Research!Near(q.spot, q.anchor))
    <3>1. Research!Relaid(q) = Research!LaidOut(q)
      BY <2>4 DEF Research!Relaid
    <3> QED
      BY <2>1, <2>2, <3>1, LaidOutNear
  <2> QED
    BY <2>3, <2>4
<1> QED
  BY <1>1, <1>2

LEMMA BuilderKeeps ==
    ASSUME BuilderGood(page), Research!Next
    PROVE  BuilderGood(page')
<1>0. BuilderShape(page)
  BY DEF BuilderGood
<1>1. Research!BuilderNext
  BY <1>0 DEF BuilderShape, Research!Next, Research!OptionChainNext, Research!TesterNext, Research!NewsNext, Research!ScreensNext,
     Research!Open, Research!PickExpiry, Research!TestOther, Research!ChooseRule, Research!Tune, Research!SweepParameters,
     Research!OtherTicker, Research!ToggleStrict, Research!RetryFeed, Research!Analyze, Research!PickScreen, Research!Build,
     Research!RunCustom, Research!LoadSaved, Research!SaveScreen, Research!DeleteScreen, Research!Building
<1>2. ASSUME NEW p, DOMAIN p = DOMAIN page, p.name = page.name, p.spot = page.spot, p.preset = page.preset, p.legs = page.legs, p.anchor = page.anchor
      PROVE  BuilderGood(p)
  BY <1>0, <1>2 DEF BuilderGood, BuilderShape
<1>3. ASSUME NEW v \in Spots, Research!SpotTicks(v) \/ Research!TypeSpot(v) \/ Research!HistoryArrives(v) PROVE BuilderGood(page')
  <2>1. \E p \in {[page EXCEPT !.prop = v, !.history = TRUE], [page EXCEPT !.history = FALSE, !.vol = "seeded", !.seeded = TRUE], page} :
           page' \in {p, Research!SetSpot(p, v)}
    BY <1>3 DEF Research!SpotTicks, Research!TypeSpot, Research!HistoryArrives, Research!To
  <2>2. ASSUME NEW p \in {[page EXCEPT !.prop = v, !.history = TRUE], [page EXCEPT !.history = FALSE, !.vol = "seeded", !.seeded = TRUE], page}
        PROVE  BuilderGood(p)
    BY <1>0, <1>2 DEF BuilderShape
  <2>3. v \in Nat \ {0}
    BY SpotAssumption
  <2> QED
    BY <2>1, <2>2, <2>3, SpotMoves
<1>4. CASE Research!HistoryIsOfNoUse \/ Research!TypeVol
  BY <1>0, <1>2, <1>4 DEF Research!HistoryIsOfNoUse, Research!TypeVol, Research!To, BuilderShape
<1>5. ASSUME NEW s, Research!PickStructure(s) PROVE BuilderGood(page')
  <2> DEFINE p == [page EXCEPT !.preset = s]
             q == Research!Relaid(p)
  <2>1. BuilderShape(p)
    BY <1>0 DEF BuilderShape
  <2>2. page' = [q EXCEPT !.anchor = None]
    BY <1>5 DEF Research!PickStructure, Research!Unlatched, Research!To
  <2> HIDE DEF p
  <2>3. BuilderShape(q)
    <3>1. CASE q = p
      BY <2>1, <3>1
    <3>2. CASE q = Research!LaidOut(p)
      BY <2>1, <3>2, LaidOutNear DEF BuilderGood
    <3> QED
      BY <3>1, <3>2 DEF Research!Relaid
  <2> HIDE DEF q
  <2> QED
    BY <2>2, <2>3 DEF BuilderGood, BuilderShape
<1>6. CASE Research!EditLegs
  <2>1. PICK n : page' = [page EXCEPT !.legs.count = n, !.legs.edited = TRUE]
    BY <1>6, Zenon DEF Research!EditLegs, Research!To
  <2>2. /\ DOMAIN page' = DOMAIN page /\ page'.name = page.name /\ page'.spot = page.spot /\ page'.preset = page.preset
        /\ page'.anchor = page.anchor /\ DOMAIN page'.legs = DOMAIN page.legs /\ page'.legs.of = page.legs.of
        /\ page'.legs.at = page.legs.at
    BY <1>0, <2>1 DEF BuilderShape
  <2> QED
    BY <2>2 DEF BuilderGood, BuilderShape
<1> QED
  BY <1>1, <1>3, <1>4, <1>5, <1>6 DEF Research!BuilderNext

LEMMA BuilderStarts ==
    ASSUME NEW prop \in Spots \cup {None}, page = Research!BuilderPage(prop, IF prop = None THEN DefaultSpot ELSE prop)
    PROVE  BuilderGood(page)
<1> DEFINE spot == IF prop = None THEN DefaultSpot ELSE prop
           p == [name |-> "builder", prop |-> prop, spot |-> spot, preset |-> FirstStructure, legs |-> None,
                 anchor |-> None, vol |-> "default", seeded |-> FALSE, history |-> TRUE]
           q == Research!LaidOut(p)
<1>1. spot \in Nat \ {0}
  BY SpotAssumption
<1>2. page = [q EXCEPT !.anchor = None]
  BY DEF Research!BuilderPage, Research!Unlatched
<1>3. /\ DOMAIN p = {"name", "prop", "spot", "preset", "legs", "anchor", "vol", "seeded", "history"}
      /\ p.name = "builder" /\ p.spot = spot
  OBVIOUS
<1> HIDE DEF p
<1>4. DOMAIN q = DOMAIN p /\ q.name = p.name /\ q.spot = p.spot /\ q.legs = Research!Structure(p.preset, p.spot)
  BY <1>3 DEF Research!LaidOut
<1> HIDE DEF q, spot
<1>5. BuilderShape(q)
  BY <1>1, <1>3, <1>4 DEF BuilderShape, Research!Structure
<1> QED
  BY <1>2, <1>5 DEF BuilderGood, BuilderShape

\* The expiries are asked for first and alone; then there is a chain of one of
\* them, one that is asked for, or a failure.
ExpiryRequest == [op |-> "expiries", expiry |-> None]
ChainShape(p) ==
    /\ DOMAIN p = {"name", "expiries", "listed", "expiry", "data", "busy", "error", "asked"} /\ p.name = "chain"
    /\ p.busy \in BOOLEAN /\ p.expiries \subseteq Expiries
    /\ \A q \in p.asked : q.op \in {"expiries", "chain"} /\ (q.op = "chain" => q.expiry \in p.expiries)
ChainGood(p) ==
    /\ ChainShape(p)
    /\ p.data # None => p.data \in p.expiries
    /\ (\E q \in p.asked : q.op = "expiries") => p.asked = {ExpiryRequest} /\ p.data = None /\ p.expiries = {}
    /\ p.busy => \E q \in p.asked : q.op = "chain"
    /\ p.asked = {} => p.data # None \/ p.error \/ (p.listed /\ p.expiries = {})

LEMMA ChainAsked ==
    ASSUME NEW p, ChainShape(p), p.data # None => p.data \in p.expiries, \A q \in p.asked : q.op = "chain", NEW e \in p.expiries
    PROVE  ChainGood(Research!ChainAsk(p, e))
<1> DEFINE a == [op |-> "chain", expiry |-> e]
           r == Research!ChainAsk(p, e)
<1>1. /\ DOMAIN r = DOMAIN p /\ r.name = p.name /\ r.expiries = p.expiries /\ r.data = p.data /\ r.busy = TRUE
      /\ r.asked = p.asked \cup {a}
  BY DEF Research!ChainAsk, ChainShape
<1>2. a.op = "chain" /\ a.expiry = e
  OBVIOUS
<1> HIDE DEF a, r
<1>3. ChainGood(r)
  BY <1>1, <1>2 DEF ChainGood, ChainShape
<1> QED
  BY <1>3 DEF r

LEMMA ChainKeeps ==
    ASSUME ChainGood(page), Research!Next
    PROVE  ChainGood(page')
<1>0. ChainShape(page)
  BY DEF ChainGood
<1>1. Research!OptionChainNext
  BY <1>0 DEF ChainShape, Research!Next, Research!BuilderNext, Research!TesterNext, Research!NewsNext, Research!ScreensNext,
     Research!Open, Research!SpotTicks, Research!TypeSpot, Research!HistoryArrives, Research!HistoryIsOfNoUse, Research!TypeVol,
     Research!EditLegs, Research!PickStructure, Research!TestOther, Research!ChooseRule, Research!Tune, Research!SweepParameters,
     Research!OtherTicker, Research!ToggleStrict, Research!RetryFeed, Research!Analyze, Research!PickScreen, Research!Build,
     Research!RunCustom, Research!LoadSaved, Research!SaveScreen, Research!DeleteScreen, Research!Building
<1>2. ASSUME NEW q \in page.asked, Research!ExpiriesAnswer(q) PROVE ChainGood(page')
  <2>1. page.asked = {q} /\ page.data = None
    BY <1>2, Zenon DEF Research!ExpiriesAnswer, ChainGood
  <2>2. CASE page' = [Research!Answered(q) EXCEPT !.error = TRUE, !.listed = TRUE]
    <3>1. /\ DOMAIN page' = DOMAIN page /\ page'.name = page.name /\ page'.expiries = page.expiries /\ page'.data = None
          /\ page'.busy = page.busy /\ page'.error = TRUE /\ page'.asked = {}
      BY <1>0, <2>1, <2>2 DEF Research!Answered, ChainShape
    <3>2. page'.busy = FALSE
      BY <1>0, <1>2, <2>1, <3>1, Zenon DEF ChainGood, ChainShape, Research!ExpiriesAnswer
    <3> QED
      BY <1>0, <3>1, <3>2 DEF ChainGood, ChainShape
  <2>3. ASSUME NEW es \in SUBSET Expiries,
               page' = (LET p == [Research!Answered(q) EXCEPT !.expiries = es, !.listed = TRUE] IN
                        IF es = {} THEN p ELSE Research!ChainAsk(p, CHOOSE e \in es : \A f \in es : e <= f))
        PROVE  ChainGood(page')
    <3> DEFINE p == [Research!Answered(q) EXCEPT !.expiries = es, !.listed = TRUE]
    <3>1. /\ DOMAIN p = DOMAIN page /\ p.name = page.name /\ p.expiries = es /\ p.data = None /\ p.busy = page.busy
          /\ p.listed = TRUE /\ p.asked = {}
      BY <1>0, <2>1 DEF Research!Answered, ChainShape
    <3>2. p.busy = FALSE
      BY <1>0, <1>2, <2>1, <3>1, Zenon DEF ChainGood, ChainShape, Research!ExpiriesAnswer
    <3> HIDE DEF p
    <3>3. (ChainShape(p) /\ ChainGood(p)) \/ es # {}
      BY <1>0, <3>1, <3>2 DEF ChainGood, ChainShape
    <3>4. CASE es = {}
      BY <2>3, <3>3, <3>4 DEF p
    <3>5. CASE es # {}
      <4> DEFINE least == CHOOSE e \in es : \A f \in es : e <= f
      <4>1. \E e \in es : \A f \in es : e <= f
        BY <3>5, Least, ResearchAssumption
      <4>2. least \in es
        BY <4>1
      <4>3. page' = Research!ChainAsk(p, least)
        BY <2>3, <3>5 DEF p
      <4> HIDE DEF least
      <4>4. ChainShape(p)
        BY <1>0, <3>1 DEF ChainShape
      <4>5. ChainGood(Research!ChainAsk(p, least))
        BY <3>1, <4>2, <4>4, ChainAsked
      <4> QED
        BY <4>3, <4>5
    <3> QED
      BY <3>4, <3>5
  <2> QED
    BY <1>2, <2>2, <2>3, Zenon DEF Research!ExpiriesAnswer, Research!To
<1>3. ASSUME NEW q \in page.asked, Research!ChainAnswers(q) PROVE ChainGood(page')
  <2>1. q.op = "chain" /\ q.expiry \in page.expiries /\ \A r \in page.asked : r.op = "chain"
    BY <1>0, <1>3 DEF Research!ChainAnswers, ChainGood, ChainShape, ExpiryRequest
  <2>2. q.expiry # None
    BY <1>0, <2>1, ResearchAssumption DEF ChainShape
  <2>3. /\ DOMAIN page' = DOMAIN page /\ page'.name = page.name /\ page'.expiries = page.expiries /\ page'.busy = FALSE
        /\ page'.asked = page.asked \ {q}
        /\ page'.data = q.expiry \/ (page'.data = page.data /\ page'.error = TRUE)
    BY <1>0, <1>3 DEF Research!ChainAnswers, Research!Answered, Research!To, ChainShape
  <2> QED
    BY <1>0, <2>1, <2>2, <2>3 DEF ChainGood, ChainShape
<1>4. ASSUME NEW e, Research!PickExpiry(e) PROVE ChainGood(page')
  <2>1. e \in page.expiries /\ page' = Research!ChainAsk(page, e)
    BY <1>4 DEF Research!PickExpiry, Research!To
  <2>2. \A q \in page.asked : q.op = "chain"
    BY <1>0, <2>1 DEF ChainGood, ChainShape
  <2>3. page.data # None => page.data \in page.expiries
    BY DEF ChainGood
  <2> QED
    BY <1>0, <2>1, <2>2, <2>3, ChainAsked
<1> QED
  BY <1>1, <1>2, <1>3, <1>4 DEF Research!OptionChainNext

\* Only the latest request of a backtester counts, and while it is under way
\* nothing is shown of the one before.
TestRequest(q) == q = [n |-> q.n, of |-> q.of]
TesterShape(p) ==
    /\ DOMAIN p = {"name", "ticker", "period", "rule", "bars", "busy", "error", "sweep", "latest", "asked"} /\ p.name = "tester"
    /\ p.ticker \in Tickers /\ p.period \in Periods /\ p.latest \in Nat /\ p.busy \in BOOLEAN /\ p.error \in BOOLEAN
    /\ p.bars # None => DOMAIN p.bars = {"of", "enough"} /\ p.bars.enough \in BOOLEAN
    /\ \A q \in p.asked : TestRequest(q) /\ q.n \in Nat /\ q.n <= p.latest
TesterGood(p) ==
    /\ TesterShape(p)
    /\ \A q \in p.asked : q.n = p.latest => p.busy /\ q.of = <<p.ticker, p.period>>
    /\ p.busy => p.sweep = None
    /\ ~p.busy => /\ p.bars # None => p.bars.of = <<p.ticker, p.period>>
                  /\ p.bars = None => p.error
                  /\ p.sweep # None => p.sweep.rule = p.rule /\ p.sweep.bars = p.bars

LEMMA Tests ==
    ASSUME NEW p, TesterShape(p), NEW t \in Tickers, NEW d \in Periods
    PROVE  TesterGood(Research!Test(p, t, d))
<1> DEFINE r == Research!Test(p, t, d)
           of == <<t, d>>
           a == [n |-> p.latest + 1, of |-> of]
<1>1. /\ DOMAIN r = DOMAIN p /\ r.name = p.name /\ r.ticker = t /\ r.period = d /\ r.latest = p.latest + 1 /\ r.busy = TRUE
      /\ r.error = FALSE /\ r.sweep = None /\ r.bars = p.bars /\ r.asked = p.asked \cup {a} /\ <<r.ticker, r.period>> = of
  BY DEF Research!Test, TesterShape
<1>2. TestRequest(a) /\ a.n = p.latest + 1 /\ a.of = of
  BY DEF TestRequest
<1> HIDE DEF a, r, of
<1>3. \A q \in r.asked : TestRequest(q) /\ q.n \in Nat /\ q.n <= r.latest
  BY <1>1, <1>2 DEF TesterShape
<1>6. r.ticker \in Tickers /\ r.period \in Periods /\ r.latest \in Nat /\ r.busy \in BOOLEAN /\ r.error \in BOOLEAN
  <2>1. p.latest + 1 \in Nat
    BY DEF TesterShape
  <2> QED
    BY <1>1, <2>1
<1>7. r.bars # None => DOMAIN r.bars = {"of", "enough"} /\ r.bars.enough \in BOOLEAN
  BY <1>1 DEF TesterShape
<1>5. TesterShape(r)
  <2>1. DOMAIN r = {"name", "ticker", "period", "rule", "bars", "busy", "error", "sweep", "latest", "asked"} /\ r.name = "tester"
    BY <1>1 DEF TesterShape
  <2> QED
    BY <2>1, <1>3, <1>6, <1>7, Zenon DEF TesterShape
<1>4. TesterGood(r)
  BY <1>1, <1>2, <1>5 DEF TesterGood, TesterShape
<1> QED
  BY <1>4 DEF r

LEMMA TesterKeeps ==
    ASSUME TesterGood(page), Research!Next
    PROVE  TesterGood(page')
<1>0. TesterShape(page)
  BY DEF TesterGood
<1>1. Research!TesterNext
  BY <1>0 DEF TesterShape, Research!Next, Research!BuilderNext, Research!OptionChainNext, Research!NewsNext, Research!ScreensNext,
     Research!Open, Research!SpotTicks, Research!TypeSpot, Research!HistoryArrives, Research!HistoryIsOfNoUse, Research!TypeVol,
     Research!EditLegs, Research!PickStructure, Research!PickExpiry, Research!OtherTicker, Research!ToggleStrict, Research!RetryFeed,
     Research!Analyze, Research!PickScreen, Research!Build, Research!RunCustom, Research!LoadSaved, Research!SaveScreen,
     Research!DeleteScreen, Research!Building
<1>2. ASSUME NEW t \in Tickers, NEW d \in Periods, Research!TestOther(t, d) PROVE TesterGood(page')
  BY <1>0, <1>2, Tests DEF Research!TestOther, Research!To
<1>3. ASSUME NEW q \in page.asked, Research!BarsAnswer(q) PROVE TesterGood(page')
  <2>1. CASE q.n # page.latest
    <3>1. page' = [page EXCEPT !.asked = @ \ {q}]
      BY <1>3, <2>1 DEF Research!BarsAnswer, Research!BarsTaken, Research!Answered, Research!To
    <3> QED
      BY <1>0, <3>1 DEF TesterGood, TesterShape
  <2>2. CASE q.n = page.latest
    <3>1. /\ q.of = <<page.ticker, page.period>> /\ page.busy = TRUE /\ page.sweep = None
          /\ \A r \in page.asked \ {q} : r.n # page.latest
      BY <1>0, <2>2 DEF TesterGood, TesterShape, TestRequest
    <3>2. ASSUME NEW enough \in BOOLEAN,
                 page' = [Research!Answered(q) EXCEPT !.bars = [of |-> q.of, enough |-> enough], !.error = ~enough, !.busy = FALSE]
          PROVE  TesterGood(page')
      <4> DEFINE bars == [of |-> q.of, enough |-> enough]
      <4>1. bars \in [of : Tickers \X Periods, enough : BOOLEAN] /\ DOMAIN bars = {"of", "enough"} /\ bars.of = q.of /\ bars.enough = enough
        BY <1>0, <3>1 DEF TesterShape
      <4>2. /\ DOMAIN page' = DOMAIN page /\ page'.name = page.name /\ page'.ticker = page.ticker /\ page'.period = page.period
            /\ page'.latest = page.latest /\ page'.busy = FALSE /\ page'.error = ~enough /\ page'.sweep = None
            /\ page'.asked = page.asked \ {q} /\ page'.bars = bars
        BY <1>0, <3>1, <3>2 DEF Research!Answered, TesterShape
      <4> HIDE DEF bars
      <4>3. bars # None
        BY <4>1, ResearchAssumption
      <4>4. TesterShape(page')
        BY <1>0, <4>1, <4>2 DEF TesterShape
      <4> QED
        BY <3>1, <4>1, <4>2, <4>3, <4>4 DEF TesterGood
    <3>3. ASSUME page' = [Research!Answered(q) EXCEPT !.bars = None, !.error = TRUE, !.busy = FALSE]
          PROVE  TesterGood(page')
      <4>2. /\ DOMAIN page' = DOMAIN page /\ page'.name = page.name /\ page'.ticker = page.ticker /\ page'.period = page.period
            /\ page'.latest = page.latest /\ page'.busy = FALSE /\ page'.error = TRUE /\ page'.sweep = None
            /\ page'.asked = page.asked \ {q} /\ page'.bars = None
        BY <1>0, <3>1, <3>3 DEF Research!Answered, TesterShape
      <4> QED
        BY <1>0, <3>1, <4>2 DEF TesterGood, TesterShape
    <3> QED
      BY <1>3, <2>2, <3>2, <3>3, Zenon DEF Research!BarsAnswer, Research!BarsTaken, Research!To
  <2> QED
    BY <2>1, <2>2
<1>4. CASE Research!Tune \/ \E r \in Rules : Research!ChooseRule(r)
  <2>1. /\ DOMAIN page' = DOMAIN page /\ page'.name = page.name /\ page'.ticker = page.ticker /\ page'.period = page.period
        /\ page'.latest = page.latest /\ page'.busy = page.busy /\ page'.error = page.error /\ page'.sweep = None
        /\ page'.asked = page.asked /\ page'.bars = page.bars
    BY <1>0, <1>4, Zenon DEF Research!Tune, Research!ChooseRule, Research!To, TesterShape
  <2> QED
    BY <1>0, <2>1 DEF TesterGood, TesterShape
<1>5. CASE Research!SweepParameters
  <2>1. page' = [page EXCEPT !.sweep = [rule |-> page.rule, bars |-> page.bars]] /\ ~page.busy
    BY <1>5 DEF Research!SweepParameters, Research!To
  <2>2. /\ DOMAIN page' = DOMAIN page /\ page'.name = page.name /\ page'.ticker = page.ticker /\ page'.period = page.period
        /\ page'.latest = page.latest /\ page'.busy = page.busy /\ page'.error = page.error /\ page'.rule = page.rule
        /\ page'.asked = page.asked /\ page'.bars = page.bars /\ page'.sweep.rule = page.rule /\ page'.sweep.bars = page.bars
    BY <1>0, <2>1 DEF TesterShape
  <2> QED
    BY <1>0, <2>1, <2>2 DEF TesterGood, TesterShape
<1> QED
  BY <1>1, <1>2, <1>3, <1>4, <1>5 DEF Research!TesterNext

\* What is waited for is asked for; a panel that waits for nothing has its
\* headlines, or failed.
NewsGood(p) ==
    /\ DOMAIN p = {"name", "ticker", "strict", "feed", "busy", "error", "tone", "toneBusy", "toneError", "asked"} /\ p.name = "news"
    /\ p.ticker \in Tickers /\ p.strict \in BOOLEAN /\ p.busy \in BOOLEAN
    /\ \A q \in p.asked : q.op = "feed" => q \in [op : {"feed"}, ticker : Tickers, strict : BOOLEAN]
    /\ p.busy => \E q \in p.asked : q.op = "feed"
    /\ ~p.busy => p.feed # None \/ p.error

LEMMA FeedAsked ==
    ASSUME NEW p, DOMAIN p = {"name", "ticker", "strict", "feed", "busy", "error", "tone", "toneBusy", "toneError", "asked"},
           p.name = "news", p.ticker \in Tickers, p.strict \in BOOLEAN,
           \A q \in p.asked : q.op = "feed" => q \in [op : {"feed"}, ticker : Tickers, strict : BOOLEAN]
    PROVE  NewsGood(Research!AskFeed(p))
<1> DEFINE r == Research!AskFeed(p)
           a == [op |-> "feed", ticker |-> p.ticker, strict |-> p.strict]
<1>1. /\ DOMAIN r = DOMAIN p /\ r.name = p.name /\ r.ticker = p.ticker /\ r.strict = p.strict /\ r.busy = TRUE
      /\ r.asked = p.asked \cup {a}
  BY DEF Research!AskFeed
<1>2. a \in [op : {"feed"}, ticker : Tickers, strict : BOOLEAN] /\ a.op = "feed"
  OBVIOUS
<1> HIDE DEF a, r
<1>3. NewsGood(r)
  BY <1>1, <1>2 DEF NewsGood
<1> QED
  BY <1>3 DEF r

LEMMA NewsKeeps ==
    ASSUME NewsGood(page), Research!Next
    PROVE  NewsGood(page')
<1>1. Research!NewsNext
  BY DEF NewsGood, Research!Next, Research!BuilderNext, Research!OptionChainNext, Research!TesterNext, Research!ScreensNext,
     Research!Open, Research!SpotTicks, Research!TypeSpot, Research!HistoryArrives, Research!HistoryIsOfNoUse, Research!TypeVol,
     Research!EditLegs, Research!PickStructure, Research!PickExpiry, Research!TestOther, Research!ChooseRule, Research!Tune,
     Research!SweepParameters, Research!PickScreen, Research!Build, Research!RunCustom, Research!LoadSaved, Research!SaveScreen,
     Research!DeleteScreen, Research!Building
<1>2. ASSUME NEW t \in Tickers, Research!OtherTicker(t) PROVE NewsGood(page')
  <2> DEFINE p == [page EXCEPT !.ticker = t, !.tone = None, !.toneError = FALSE]
  <2>1. DOMAIN p = DOMAIN page /\ p.name = page.name /\ p.ticker = t /\ p.strict = page.strict /\ p.asked = page.asked
    BY DEF NewsGood
  <2>2. page' = Research!AskFeed(p)
    BY <1>2 DEF Research!OtherTicker, Research!To
  <2> HIDE DEF p
  <2> QED
    BY <2>1, <2>2, FeedAsked DEF NewsGood
<1>3. CASE Research!ToggleStrict
  <2> DEFINE p == [page EXCEPT !.strict = ~page.strict]
  <2>1. DOMAIN p = DOMAIN page /\ p.name = page.name /\ p.ticker = page.ticker /\ p.strict \in BOOLEAN /\ p.asked = page.asked
    BY DEF NewsGood
  <2>2. page' = Research!AskFeed(p)
    BY <1>3 DEF Research!ToggleStrict, Research!To
  <2> HIDE DEF p
  <2> QED
    BY <2>1, <2>2, FeedAsked DEF NewsGood
<1>4. CASE Research!RetryFeed
  BY <1>4, FeedAsked DEF Research!RetryFeed, Research!To, NewsGood
<1>5. CASE Research!Analyze
  <2> DEFINE a == [op |-> "tone", ticker |-> page.ticker, strict |-> TRUE]
  <2>1. /\ DOMAIN page' = DOMAIN page /\ page'.name = page.name /\ page'.ticker = page.ticker /\ page'.strict = page.strict
        /\ page'.busy = page.busy /\ page'.error = page.error /\ page'.feed = page.feed /\ page'.asked = page.asked \cup {a}
    BY <1>5 DEF Research!Analyze, Research!To, NewsGood
  <2>2. a.op # "feed"
    OBVIOUS
  <2> HIDE DEF a
  <2> QED
    BY <2>1, <2>2 DEF NewsGood
<1>6. ASSUME NEW q \in page.asked, Research!FeedAnswers(q) PROVE NewsGood(page')
  <2>1. q # None
    BY <1>6, ResearchAssumption DEF Research!FeedAnswers, NewsGood
  <2>2. /\ DOMAIN page' = DOMAIN page /\ page'.name = page.name /\ page'.ticker = page.ticker /\ page'.strict = page.strict
        /\ page'.busy = FALSE /\ page'.asked = page.asked \ {q}
        /\ page'.feed = q \/ (page'.feed = page.feed /\ page'.error = TRUE)
    <3>1. CASE page' = [Research!Answered(q) EXCEPT !.feed = q, !.busy = FALSE]
      BY <3>1 DEF Research!Answered, NewsGood
    <3>2. CASE page' = [Research!Answered(q) EXCEPT !.error = TRUE, !.busy = FALSE]
      BY <3>2 DEF Research!Answered, NewsGood
    <3> QED
      BY <1>6, <3>1, <3>2 DEF Research!FeedAnswers, Research!To
  <2> QED
    BY <2>1, <2>2 DEF NewsGood
<1>7. ASSUME NEW q \in page.asked, Research!ToneAnswers(q) PROVE NewsGood(page')
  <2>1. /\ DOMAIN page' = DOMAIN page /\ page'.name = page.name /\ page'.ticker = page.ticker /\ page'.strict = page.strict
        /\ page'.busy = page.busy /\ page'.error = page.error /\ page'.feed = page.feed /\ page'.asked = page.asked \ {q}
        /\ q.op = "tone"
    <3>1. CASE page' = [Research!Answered(q) EXCEPT !.tone = q.ticker, !.toneBusy = FALSE]
      BY <1>7, <3>1 DEF Research!ToneAnswers, Research!Answered, NewsGood
    <3>2. CASE page' = [Research!Answered(q) EXCEPT !.toneError = TRUE, !.toneBusy = FALSE]
      BY <1>7, <3>2 DEF Research!ToneAnswers, Research!Answered, NewsGood
    <3> QED
      BY <1>7, <3>1, <3>2 DEF Research!ToneAnswers, Research!To
  <2> QED
    BY <2>1 DEF NewsGood
<1> QED
  BY <1>1, <1>2, <1>3, <1>4, <1>5, <1>6, <1>7 DEF Research!NewsNext

\* A screen that runs was asked for, and so was a list that is being saved.
ScreensShape(p) ==
    /\ DOMAIN p = {"name", "active", "result", "busy", "error", "saved", "saving", "unsaved", "stamp", "asked"} /\ p.name = "screens"
ScreensGood(p) ==
    /\ ScreensShape(p)
    /\ p.busy => \E q \in p.asked : q.op = "run"
    /\ p.saving => \E q \in p.asked : q.op = "save" /\ q.live

LEMMA ScreenRuns ==
    ASSUME NEW p, ScreensShape(p), NEW s, p.saving => \E q \in p.asked : q.op = "save" /\ q.live
    PROVE  ScreensGood(Research!RunScreen(p, s))
<1> DEFINE r == Research!RunScreen(p, s)
           a == Research!Request("run", s, None)
<1>1. DOMAIN r = DOMAIN p /\ r.name = p.name /\ r.saving = p.saving /\ r.asked = p.asked \cup {a}
  BY DEF Research!RunScreen, ScreensShape
<1>2. a.op = "run"
  BY DEF Research!Request
<1> HIDE DEF a, r
<1>3. ScreensGood(r)
  BY <1>1, <1>2 DEF ScreensGood, ScreensShape
<1> QED
  BY <1>3 DEF r

LEMMA ListSaved ==
    ASSUME NEW p, ScreensGood(p), NEW list
    PROVE  ScreensGood(Research!Persist(p, list))
<1> DEFINE r == Research!Persist(p, list)
           a == Research!Request("save", p.stamp + 1, list)
<1>1. DOMAIN r = DOMAIN p /\ r.name = p.name /\ r.busy = p.busy /\ r.asked = p.asked \cup {a}
  BY DEF Research!Persist, ScreensGood, ScreensShape
<1>2. a.op = "save" /\ a.live
  BY DEF Research!Request
<1> HIDE DEF a, r
<1>3. ScreensGood(r)
  BY <1>1, <1>2 DEF ScreensGood, ScreensShape
<1> QED
  BY <1>3 DEF r

LEMMA ScreensKeep ==
    ASSUME ScreensGood(page), Research!Next
    PROVE  ScreensGood(page')
<1>0. ScreensShape(page)
  BY DEF ScreensGood
<1>1. Research!ScreensNext
  BY <1>0 DEF ScreensShape, Research!Next, Research!BuilderNext, Research!OptionChainNext, Research!TesterNext, Research!NewsNext,
     Research!Open, Research!SpotTicks, Research!TypeSpot, Research!HistoryArrives, Research!HistoryIsOfNoUse, Research!TypeVol,
     Research!EditLegs, Research!PickStructure, Research!PickExpiry, Research!TestOther, Research!ChooseRule, Research!Tune,
     Research!SweepParameters, Research!OtherTicker, Research!ToggleStrict, Research!RetryFeed, Research!Analyze
<1>2. ASSUME NEW i, Research!PickScreen(i) PROVE ScreensGood(page')
  <2> DEFINE p == [page EXCEPT !.asked = Research!Unmounted(page.asked), !.saved = Research!NoScreens, !.saving = FALSE, !.unsaved = FALSE]
  <2>1. ScreensShape(p) /\ p.saving = FALSE
    BY <1>0 DEF ScreensShape
  <2>2. page' = Research!RunScreen(p, i)
    BY <1>2 DEF Research!PickScreen, Research!To
  <2> HIDE DEF p
  <2> QED
    BY <2>1, <2>2, ScreenRuns
<1>3. CASE Research!Build
  <2> DEFINE a == Research!Request("list", 0, srv)
  <2>1. /\ DOMAIN page' = DOMAIN page /\ page'.name = page.name /\ page'.busy = page.busy /\ page'.saving = page.saving
        /\ page.asked \subseteq page'.asked
    BY <1>0, <1>3 DEF Research!Build, Research!To, ScreensShape
  <2> QED
    BY <1>0, <2>1 DEF ScreensGood, ScreensShape
<1>4. CASE Research!RunCustom \/ \E n \in Names : Research!LoadSaved(n)
  BY <1>0, <1>4, ScreenRuns DEF Research!RunCustom, Research!LoadSaved, Research!To, ScreensGood
<1>5. ASSUME NEW n, Research!SaveScreen(n) \/ Research!DeleteScreen(n) PROVE ScreensGood(page')
  <2>1. \E list : page' = Research!Persist(page, list)
    BY <1>5 DEF Research!SaveScreen, Research!DeleteScreen, Research!To
  <2> QED
    BY <2>1, ListSaved
<1>6. ASSUME NEW q \in page.asked, Research!RunAnswers(q) PROVE ScreensGood(page')
  <2>1. /\ DOMAIN page' = DOMAIN page /\ page'.name = page.name /\ page'.busy = FALSE /\ page'.saving = page.saving
        /\ page'.asked = page.asked \ {q} /\ q.op = "run"
    BY <1>0, <1>6 DEF Research!RunAnswers, Research!Answered, Research!To, ScreensShape
  <2> QED
    BY <1>0, <2>1 DEF ScreensGood, ScreensShape
<1>7. ASSUME NEW q \in page.asked, Research!ListAnswers(q) PROVE ScreensGood(page')
  <2>1. /\ DOMAIN page' = DOMAIN page /\ page'.name = page.name /\ page'.busy = page.busy /\ page'.saving = page.saving
        /\ page'.asked = page.asked \ {q} /\ q.op = "list"
    BY <1>0, <1>7 DEF Research!ListAnswers, Research!Answered, Research!To, ScreensShape
  <2> QED
    BY <1>0, <2>1 DEF ScreensGood, ScreensShape
<1>8. ASSUME NEW q \in page.asked, Research!SaveAnswers(q) PROVE ScreensGood(page')
  <2>0. PICK failed \in BOOLEAN : page' = IF q.live THEN [Research!Answered(q) EXCEPT !.saving = FALSE, !.unsaved = failed] ELSE Research!Answered(q)
    BY <1>8, Zenon DEF Research!SaveAnswers, Research!To
  <2>1. /\ DOMAIN page' = DOMAIN page /\ page'.name = page.name /\ page'.busy = page.busy
        /\ page'.asked = page.asked \ {q} /\ q.op = "save" /\ page'.saving = IF q.live THEN FALSE ELSE page.saving
    BY <1>0, <1>8, <2>0 DEF Research!SaveAnswers, Research!Answered, ScreensShape
  <2> QED
    BY <1>0, <2>1 DEF ScreensGood, ScreensShape
<1> QED
  BY <1>1, <1>2, <1>3, <1>4, <1>5, <1>6, <1>7, <1>8 DEF Research!ScreensNext

ResearchGood == BuilderGood(page) \/ ChainGood(page) \/ TesterGood(page) \/ NewsGood(page) \/ ScreensGood(page)

LEMMA ResearchStarts == Research!Init => ResearchGood
<1>1. ASSUME page = Research!OptionChainPage PROVE ChainGood(page)
  <2> DEFINE a == [op |-> "expiries", expiry |-> None]
  <2>1. /\ DOMAIN page = {"name", "expiries", "listed", "expiry", "data", "busy", "error", "asked"} /\ page.name = "chain"
        /\ page.expiries = {} /\ page.data = None /\ page.busy = FALSE /\ page.asked = {a} /\ a = ExpiryRequest /\ a.op = "expiries"
    BY <1>1 DEF Research!OptionChainPage, ExpiryRequest
  <2> HIDE DEF a
  <2> QED
    BY <2>1 DEF ChainGood, ChainShape
<1>2. ASSUME NEW t \in Tickers, NEW d \in Periods, NEW r \in Rules, page = Research!TesterPage(t, d, r) PROVE TesterGood(page)
  <2> DEFINE p == [name |-> "tester", ticker |-> t, period |-> d, rule |-> r, bars |-> None, busy |-> FALSE,
                   error |-> FALSE, sweep |-> None, latest |-> 0, asked |-> {}]
  <2>1. TesterShape(p)
    BY DEF TesterShape
  <2>2. page = Research!Test(p, t, d)
    BY <1>2 DEF Research!TesterPage
  <2> HIDE DEF p
  <2> QED
    BY <2>1, <2>2, Tests
<1>3. ASSUME NEW t \in Tickers, page = Research!NewsPage(t) PROVE NewsGood(page)
  <2> DEFINE p == [name |-> "news", ticker |-> t, strict |-> TRUE, feed |-> None, busy |-> FALSE, error |-> FALSE,
                   tone |-> None, toneBusy |-> FALSE, toneError |-> FALSE, asked |-> {}]
  <2>1. /\ DOMAIN p = {"name", "ticker", "strict", "feed", "busy", "error", "tone", "toneBusy", "toneError", "asked"}
        /\ p.name = "news" /\ p.ticker \in Tickers /\ p.strict \in BOOLEAN /\ p.asked = {}
    OBVIOUS
  <2>2. page = Research!AskFeed(p)
    BY <1>3 DEF Research!NewsPage
  <2> HIDE DEF p
  <2> QED
    BY <2>1, <2>2, FeedAsked
<1>4. ASSUME page = Research!ScreensPage PROVE ScreensGood(page)
  <2> DEFINE p == [name |-> "screens", active |-> 0, result |-> None, busy |-> FALSE, error |-> FALSE, saved |-> Research!NoScreens,
                   saving |-> FALSE, unsaved |-> FALSE, stamp |-> 0, asked |-> {}]
  <2>1. ScreensShape(p) /\ p.saving = FALSE
    BY DEF ScreensShape
  <2>2. page = Research!RunScreen(p, 0)
    BY <1>4 DEF Research!ScreensPage
  <2> HIDE DEF p
  <2> QED
    BY <2>1, <2>2, ScreenRuns
<1> QED
  BY <1>1, <1>2, <1>3, <1>4, BuilderStarts DEF Research!Init, ResearchGood

LEMMA ResearchKeeps == ResearchGood /\ Research!Next => ResearchGood'
BY BuilderKeeps, ChainKeeps, TesterKeeps, NewsKeeps, ScreensKeep DEF ResearchGood

LEMMA ResearchHolds ==
    ResearchGood => OpenIn(ResearchNames) /\ Research!LatchedIsChosen /\ Research!TestedIsShown /\ Research!NothingLeftBlank
<1>1. ResearchGood => OpenIn(ResearchNames)
  BY DEF ResearchGood, BuilderGood, BuilderShape, ChainGood, ChainShape, TesterGood, TesterShape, NewsGood, ScreensGood, ScreensShape,
     OpenIn, ResearchNames
<1>2. ResearchGood => Research!LatchedIsChosen
  BY DEF ResearchGood, BuilderGood, ChainGood, ChainShape, TesterGood, TesterShape, NewsGood, ScreensGood, ScreensShape,
     Research!LatchedIsChosen, Research!Open
<1>3. ASSUME ResearchGood, page.name = "tester", ~page.busy PROVE Research!TestedIsShown
  <2>1. TesterGood(page)
    BY <1>3 DEF ResearchGood, BuilderGood, BuilderShape, ChainGood, ChainShape, NewsGood, ScreensGood, ScreensShape
  <2> QED
    BY <1>3, <2>1 DEF TesterGood, TesterShape, Research!TestedIsShown, Research!TesterView
<1>4. ASSUME ResearchGood, page.name = "news" PROVE Research!NothingLeftBlank
  <2>1. NewsGood(page)
    BY <1>4 DEF ResearchGood, BuilderGood, BuilderShape, ChainGood, ChainShape, TesterGood, TesterShape, ScreensGood, ScreensShape
  <2> QED
    BY <1>4, <2>1 DEF NewsGood, Research!NothingLeftBlank, Research!Open
<1>5. ASSUME ResearchGood, page.name = "chain" PROVE Research!NothingLeftBlank
  <2>1. ChainGood(page)
    BY <1>5 DEF ResearchGood, BuilderGood, BuilderShape, NewsGood, TesterGood, TesterShape, ScreensGood, ScreensShape
  <2>2. page.asked = {} => ~page.busy /\ (page.data # None \/ page.error \/ Research!OptionChainView.none)
    BY <2>1 DEF ChainGood, ChainShape, Research!OptionChainView
  <2> QED
    BY <1>5, <2>1, <2>2 DEF ChainGood, Research!NothingLeftBlank, Research!Open
<1>6. ASSUME ResearchGood, page.name = "screens" PROVE Research!NothingLeftBlank
  <2>1. ScreensGood(page)
    BY <1>6 DEF ResearchGood, BuilderGood, BuilderShape, NewsGood, TesterGood, TesterShape, ChainGood, ChainShape
  <2> QED
    BY <1>6, <2>1 DEF ScreensGood, Research!NothingLeftBlank, Research!Open
<1> QED
  BY <1>1, <1>2, <1>3, <1>4, <1>5, <1>6 DEF Research!TestedIsShown, Research!NothingLeftBlank, Research!Open

-----------------------------------------------------------------------------
(* The value chain map.                                                    *)

\* A request that is fresh is of the company the map is centred on, and so is
\* the map, unless it is pinned or an earlier version.
Maps == [co : Companies, gen : Nat]
MapRequest(q) == DOMAIN q = {"what", "co", "fresh", "refresh"} /\ q.what \in {"map", "history"} /\ q.co \in Companies /\ q.fresh \in BOOLEAN
MapShape(p) ==
    /\ DOMAIN p = {"name", "ticker", "trail", "data", "pinned", "busy", "err", "snapshot", "compare", "history", "playing", "idx",
                   "framed", "asked"}
    /\ p.name = "map" /\ p.ticker \in Companies /\ p.trail \in Seq(Companies) /\ p.history \in Seq(Maps) /\ p.pinned \in BOOLEAN
    /\ \A q \in p.asked : MapRequest(q)
OfCurrent(p) ==
    /\ \A q \in p.asked : q.fresh => q.co = Map!Current(p)
    /\ p.data # None /\ p.snapshot = None /\ ~p.pinned => p.data.co = Map!Current(p)
ChainStore(s) ==
    /\ DOMAIN s = {"gen", "pins", "cache"} /\ s.gen \in [Companies -> Nat]
    /\ DOMAIN s.cache = Companies /\ \A n \in Companies : s.cache[n] \in {None, "unlisted", n}
MapGood(p) == MapShape(p) /\ OfCurrent(p)

LEMMA MapCentre ==
    ASSUME NEW p, MapShape(p)
    PROVE  Map!Current(p) \in Companies
<1>1. ASSUME p.trail # <<>> PROVE p.trail[Len(p.trail)] \in Companies
  BY <1>1 DEF MapShape
<1> QED
  BY <1>1 DEF MapShape, Map!Current, Map!Last

\* The company in the middle is told by the ticker and the crumbs alone.
LEMMA MapStays ==
    ASSUME NEW p, NEW q, MapGood(p), MapShape(q), q.ticker = p.ticker, q.trail = p.trail, q.asked \subseteq p.asked,
           q.data # None /\ q.snapshot = None /\ ~q.pinned => p.data = q.data /\ p.snapshot = None /\ ~p.pinned
    PROVE  MapGood(q)
BY DEF MapGood, OfCurrent, Map!Current

LEMMA MapFramed ==
    ASSUME NEW p, MapGood(p)
    PROVE  MapGood(Map!Framed(p))
<1> DEFINE c == Map!Chrono(p)
<1>0. MapShape(p)
  BY DEF MapGood
<1>1. CASE p.idx \notin DOMAIN c
  BY <1>1 DEF Map!Framed
<1>2. CASE p.idx \in DOMAIN c /\ ~p.framed
  <2> DEFINE r == [p EXCEPT !.framed = TRUE]
  <2>1. Map!Framed(p) = r
    BY <1>2 DEF Map!Framed
  <2>2. MapShape(r) /\ r.ticker = p.ticker /\ r.trail = p.trail /\ r.asked = p.asked /\ r.data = p.data /\ r.snapshot = p.snapshot /\ r.pinned = p.pinned
    BY <1>0 DEF MapShape
  <2> HIDE DEF r
  <2> QED
    BY <2>1, <2>2, MapStays
<1>3. CASE p.idx \in DOMAIN c /\ p.framed
  <2> DEFINE m == c[p.idx]
             r == [p EXCEPT !.data = m, !.snapshot = m.gen]
  <2>1. Map!Framed(p) = r
    BY <1>3 DEF Map!Framed
  <2>2. m \in Maps
    <3>1. c = [i \in 1..Len(p.history) |-> p.history[Len(p.history) - i + 1]]
      BY DEF Map!Chrono, Map!Reverse
    <3>2. p.idx \in 1..Len(p.history) /\ m = p.history[Len(p.history) - p.idx + 1]
      BY <1>3, <3>1
    <3>3. Len(p.history) - p.idx + 1 \in 1..Len(p.history)
      BY <1>0, <3>2 DEF MapShape
    <3> QED
      BY <1>0, <3>2, <3>3 DEF MapShape
  <2>3. m.gen # None
    BY <2>2, MapAssumption DEF Maps
  <2> HIDE DEF m
  <2>4. MapShape(r) /\ r.ticker = p.ticker /\ r.trail = p.trail /\ r.asked = p.asked /\ r.snapshot # None
    BY <1>0, <2>3 DEF MapShape
  <2> HIDE DEF r
  <2> QED
    BY <2>1, <2>4, MapStays
<1> QED
  BY <1>1, <1>2, <1>3

LEMMA MapMoved ==
    ASSUME NEW p, MapGood(p), NEW i
    PROVE  MapGood(Map!MovedTo(p, i))
<1> DEFINE r == [p EXCEPT !.idx = i]
<1>1. MapShape(r) /\ r.ticker = p.ticker /\ r.trail = p.trail /\ r.asked = p.asked /\ r.data = p.data /\ r.snapshot = p.snapshot /\ r.pinned = p.pinned
  BY DEF MapGood, MapShape
<1>2. Map!MovedTo(p, i) \in {p, Map!Framed(r)}
  BY DEF Map!MovedTo
<1> HIDE DEF r
<1>3. MapGood(r)
  BY <1>1, MapStays
<1> QED
  BY <1>2, <1>3, MapFramed

LEMMA MapLoads ==
    ASSUME NEW p, MapShape(p), NEW refresh, NEW pins
    PROVE  MapGood(Map!Load(p, refresh, pins))
<1> DEFINE co == Map!Current(p)
           gone(q) == [q EXCEPT !.fresh = FALSE]
           old == {gone(q) : q \in p.asked}
           cleared == [p EXCEPT !.busy = TRUE, !.err = FALSE, !.data = None,
                                !.pinned = FALSE, !.snapshot = None, !.compare = FALSE,
                                !.playing = FALSE, !.framed = FALSE, !.asked = old]
           a == [what |-> "map", co |-> co, fresh |-> TRUE, refresh |-> refresh]
           b == [what |-> "history", co |-> co, fresh |-> TRUE, refresh |-> refresh]
           kept == [cleared EXCEPT !.data = pins[co], !.pinned = TRUE, !.busy = FALSE]
           sent == [cleared EXCEPT !.asked = cleared.asked \cup {a, b}]
<1>1. Map!Load(p, refresh, pins) \in {Map!MovedTo(kept, 1), Map!MovedTo(sent, 1)}
  BY DEF Map!Load
<1>2. co \in Companies
  BY MapCentre
<1> HIDE DEF co
<1>3. MapRequest(a) /\ MapRequest(b) /\ a.co = co /\ b.co = co
  BY <1>2 DEF MapRequest
<1> HIDE DEF a, b
<1>4. \A q \in p.asked : MapRequest(gone(q)) /\ gone(q).fresh = FALSE
  BY DEF MapShape, MapRequest
<1> HIDE DEF gone
<1>5. \A q \in old : MapRequest(q) /\ q.fresh = FALSE
  BY <1>4
<1> HIDE DEF old
<1>6. /\ cleared.asked = old
      /\ DOMAIN cleared = DOMAIN p /\ cleared.name = p.name /\ cleared.ticker = p.ticker /\ cleared.trail = p.trail
      /\ cleared.history = p.history /\ cleared.pinned = FALSE /\ cleared.data = None
  BY Zenon DEF MapShape
<1> HIDE DEF cleared
<1>7. MapShape(cleared)
  BY <1>5, <1>6 DEF MapShape
<1>14. \A q \in cleared.asked : MapRequest(q) /\ q.fresh = FALSE
  BY <1>5, <1>6
<1>8. /\ MapShape(kept) /\ kept.pinned = TRUE /\ kept.ticker = p.ticker /\ kept.trail = p.trail /\ kept.asked = cleared.asked
  BY <1>6, <1>7 DEF MapShape
<1>9. MapGood(kept)
  BY <1>14, <1>8 DEF MapGood, OfCurrent
<1>10. /\ DOMAIN sent = DOMAIN p /\ sent.name = p.name /\ sent.ticker = p.ticker /\ sent.trail = p.trail
       /\ sent.history = p.history /\ sent.pinned = FALSE /\ sent.data = None /\ sent.asked = cleared.asked \cup {a, b}
  BY <1>6 DEF MapShape
<1> HIDE DEF sent, kept
<1>11. MapShape(sent)
  BY <1>3, <1>14, <1>10 DEF MapShape
<1>12. Map!Current(sent) = co
  BY <1>10 DEF Map!Current, co
<1>13. MapGood(sent)
  BY <1>3, <1>14, <1>10, <1>11, <1>12 DEF MapGood, OfCurrent
<1> QED
  BY <1>1, <1>9, <1>13, MapMoved

LEMMA MapSteers ==
    ASSUME MapGood(page), ChainStore(srv),
           \/ Map!MountMap \/ Map!Crumb \/ Map!Regenerate \/ Map!BackToLive \/ Map!TogglePin
           \/ \E co \in Companies : Map!Recenter(co) \/ Map!ChangeTicker(co)
    PROVE  MapGood(page') /\ ChainStore(srv')
<1>0. MapShape(page)
  BY DEF MapGood
<1>1. CASE Map!MountMap
  <2>1. page' = Map!Load(page, FALSE, srv.pins) /\ UNCHANGED srv
    BY <1>1 DEF Map!MountMap, Map!To
  <2> QED
    BY <1>0, <2>1, MapLoads
<1>2. CASE Map!Regenerate \/ Map!BackToLive
  <2>1. page' \in {Map!Load(page, TRUE, srv.pins), Map!Load(page, FALSE, srv.pins)} /\ UNCHANGED srv
    BY <1>2 DEF Map!Regenerate, Map!BackToLive, Map!To
  <2> QED
    BY <1>0, <2>1, MapLoads
<1>3. ASSUME NEW p, MapShape(p), p.asked = page.asked, p.data = page.data, p.snapshot = page.snapshot, p.pinned = page.pinned,
             page' = IF Map!Current(p) = Map!Current(page) THEN p ELSE Map!Load(p, FALSE, srv.pins)
      PROVE  MapGood(page')
  <2>1. CASE Map!Current(p) = Map!Current(page)
    <3>1. page' = p
      BY <1>3, <2>1
    <3>2. MapGood(p)
      BY <1>3, <2>1 DEF MapGood, OfCurrent
    <3> QED
      BY <3>1, <3>2
  <2>2. CASE Map!Current(p) # Map!Current(page)
    BY <1>3, <2>2, MapLoads
  <2> QED
    BY <2>1, <2>2
<1>4. CASE Map!Crumb
  <2>1. PICK k \in 0..(Len(page.trail) - 1) :
           LET p == [page EXCEPT !.trail = SubSeq(@, 1, k)] IN
           Map!To(IF Map!Current(p) = Map!Current(page) THEN p ELSE Map!Load(p, FALSE, srv.pins))
    BY <1>4 DEF Map!Crumb
  <2> DEFINE t == SubSeq(page.trail, 1, k)
             p == [page EXCEPT !.trail = t]
  <2>2. (page' = IF Map!Current(p) = Map!Current(page) THEN p ELSE Map!Load(p, FALSE, srv.pins)) /\ UNCHANGED srv
    BY <2>1 DEF Map!To
  <2>3. t \in Seq(Companies)
    BY <1>0 DEF MapShape
  <2> HIDE DEF t
  <2>4. MapShape(p) /\ p.asked = page.asked /\ p.data = page.data /\ p.snapshot = page.snapshot /\ p.pinned = page.pinned
    BY <1>0, <2>3 DEF MapShape
  <2> HIDE DEF p
  <2> QED
    BY <1>3, <2>2, <2>4
<1>5. ASSUME NEW co \in Companies, Map!ChangeTicker(co) PROVE MapGood(page') /\ ChainStore(srv')
  <2> DEFINE p == [page EXCEPT !.ticker = co, !.trail = <<>>]
  <2>2. (page' = IF Map!Current(p) = Map!Current(page) THEN p ELSE Map!Load(p, FALSE, srv.pins)) /\ UNCHANGED srv
    BY <1>5, Zenon DEF Map!ChangeTicker, Map!To
  <2>4. MapShape(p) /\ p.asked = page.asked /\ p.data = page.data /\ p.snapshot = page.snapshot /\ p.pinned = page.pinned
    BY <1>0 DEF MapShape
  <2> HIDE DEF p
  <2> QED
    BY <1>3, <2>2, <2>4
<1>6. ASSUME NEW co \in Companies, Map!Recenter(co) PROVE MapGood(page') /\ ChainStore(srv')
  <2> DEFINE t == Append(page.trail, co)
             p == [page EXCEPT !.trail = t]
  <2>2. page' = Map!Load(p, FALSE, srv.pins) /\ UNCHANGED srv
    BY <1>6 DEF Map!Recenter, Map!To
  <2>3. t \in Seq(Companies)
    BY <1>0 DEF MapShape
  <2> HIDE DEF t
  <2>4. MapShape(p)
    BY <1>0, <2>3 DEF MapShape
  <2> HIDE DEF p
  <2> QED
    BY <2>2, <2>4, MapLoads
<1>7. CASE Map!TogglePin
  <2>1. ASSUME NEW co, NEW m PROVE ChainStore([srv EXCEPT !.pins[co] = m])
    <3> DEFINE s == [srv EXCEPT !.pins[co] = m]
    <3>1. DOMAIN s = DOMAIN srv /\ s.gen = srv.gen /\ s.cache = srv.cache
      BY DEF ChainStore
    <3> HIDE DEF s
    <3>2. ChainStore(s)
      BY <3>1 DEF ChainStore
    <3> QED
      BY <3>2 DEF s
  <2>2. ChainStore(srv')
    <3>1. \E co, m : srv' = [srv EXCEPT !.pins[co] = m]
      <4>1. srv' = [srv EXCEPT !.pins[Map!Current(page)] = None] \/ srv' = [srv EXCEPT !.pins[Map!Current(page)] = page.data]
        BY <1>7 DEF Map!TogglePin
      <4> QED
        BY <4>1, Zenon
    <3>2. PICK co, m : srv' = [srv EXCEPT !.pins[co] = m]
      BY <3>1
    <3>3. ChainStore([srv EXCEPT !.pins[co] = m])
      BY <2>1
    <3> QED
      BY <3>2, <3>3
  <2>3. \/ page' = Map!Load(page, FALSE, srv'.pins)
        \/ page' = [page EXCEPT !.pinned = TRUE]
    BY <1>7 DEF Map!TogglePin
  <2>4. MapGood([page EXCEPT !.pinned = TRUE])
    <3> DEFINE r == [page EXCEPT !.pinned = TRUE]
    <3>1. MapShape(r) /\ r.ticker = page.ticker /\ r.trail = page.trail /\ r.asked = page.asked /\ r.pinned = TRUE
      BY <1>0 DEF MapShape
    <3> HIDE DEF r
    <3>2. MapGood(r)
      BY <3>1, MapStays
    <3> QED
      BY <3>2 DEF r
  <2> QED
    BY <1>0, <2>2, <2>3, <2>4, MapLoads
<1> QED
  BY <1>1, <1>2, <1>4, <1>5, <1>6, <1>7

LEMMA MapViews ==
    ASSUME MapGood(page),
           Map!Play \/ Map!PlayTick \/ Map!Compare \/ (\E m \in Map!Range(page.history) : Map!ViewSnapshot(m)) \/ \E i \in 1..MaxGen : Map!Scrub(i)
    PROVE  MapGood(page') /\ UNCHANGED srv
<1>0. MapShape(page)
  BY DEF MapGood
<1>1. UNCHANGED srv
  BY Zenon DEF Map!Play, Map!PlayTick, Map!Compare, Map!ViewSnapshot, Map!Scrub, Map!To
<1>2. ASSUME NEW p, MapGood(p), NEW b PROVE MapGood([p EXCEPT !.playing = b])
  <2> DEFINE r == [p EXCEPT !.playing = b]
  <2>1. MapShape(r) /\ r.ticker = p.ticker /\ r.trail = p.trail /\ r.asked = p.asked /\ r.data = p.data /\ r.snapshot = p.snapshot /\ r.pinned = p.pinned
    BY <1>2 DEF MapGood, MapShape
  <2> HIDE DEF r
  <2>2. MapGood(r)
    BY <1>2, <2>1, MapStays
  <2> QED
    BY <2>2 DEF r
<1>3. CASE Map!Play
  <2>1. \E i : page' \in {[page EXCEPT !.playing = FALSE], [Map!MovedTo(page, i) EXCEPT !.playing = TRUE]}
    BY <1>3 DEF Map!Play, Map!To
  <2> QED
    BY <1>1, <1>2, <2>1, MapMoved
<1>4. ASSUME NEW i, Map!Scrub(i) PROVE MapGood(page')
  <2>1. page' = Map!MovedTo([page EXCEPT !.playing = FALSE], i)
    BY <1>4 DEF Map!Scrub, Map!To
  <2> QED
    BY <1>2, <2>1, MapMoved
<1>5. CASE Map!PlayTick
  <2>1. page' \in {[page EXCEPT !.playing = FALSE], Map!MovedTo(page, page.idx + 1)}
    BY <1>5 DEF Map!PlayTick, Map!To
  <2> QED
    BY <1>1, <1>2, <2>1, MapMoved
<1>6. CASE Map!Compare
  <2>1. page' = [page EXCEPT !.compare = ~page.compare]
    BY <1>6 DEF Map!Compare, Map!To
  <2>2. MapShape(page') /\ page'.ticker = page.ticker /\ page'.trail = page.trail /\ page'.asked = page.asked /\ page'.data = page.data
        /\ page'.snapshot = page.snapshot /\ page'.pinned = page.pinned
    BY <1>0, <2>1 DEF MapShape
  <2> QED
    BY <1>1, <2>2, MapStays
<1>7. ASSUME NEW m \in Map!Range(page.history), Map!ViewSnapshot(m) PROVE MapGood(page')
  <2>1. page' = [page EXCEPT !.data = m, !.snapshot = m.gen]
    BY <1>7, Zenon DEF Map!ViewSnapshot, Map!To
  <2>2. m \in Maps
    BY <1>0 DEF Map!Range, MapShape
  <2>3. m.gen # None
    BY <2>2, MapAssumption DEF Maps
  <2>4. MapShape(page') /\ page'.ticker = page.ticker /\ page'.trail = page.trail /\ page'.asked = page.asked /\ page'.snapshot # None
    BY <1>0, <2>1, <2>3 DEF MapShape
  <2> QED
    BY <2>4, MapStays
<1> QED
  BY <1>1, <1>3, <1>4, <1>5, <1>6, <1>7

LEMMA MapAnswered ==
    ASSUME MapGood(page), ChainStore(srv), NEW q \in page.asked, NEW ok \in BOOLEAN, Map!MapAnswers(q, ok) \/ Map!HistoryAnswers(q, ok)
    PROVE  MapGood(page') /\ ChainStore(srv')
<1> DEFINE p == [page EXCEPT !.asked = page.asked \ {q}]
<1>0. MapShape(page) /\ MapRequest(q)
  BY DEF MapGood, MapShape
<1>1. MapShape(p) /\ p.ticker = page.ticker /\ p.trail = page.trail /\ p.asked = page.asked \ {q} /\ p.data = page.data
      /\ p.snapshot = page.snapshot /\ p.pinned = page.pinned
  BY <1>0 DEF MapShape
<1> HIDE DEF p
<1>2. MapGood(p) /\ Map!Current(p) = Map!Current(page)
  BY <1>1, MapStays DEF Map!Current
<1>3. srv.gen[q.co] \in Nat
  BY <1>0 DEF ChainStore, MapRequest
<1>4. CASE Map!MapAnswers(q, ok)
  <2> DEFINE gen == Map!Generated(q, srv.gen[q.co])
  <2>1. gen \in Nat
    BY <1>3 DEF Map!Generated
  <2>2. /\ srv' = IF ok THEN [srv EXCEPT !.gen[q.co] = gen] ELSE srv
        /\ page' = IF Map!Stale(q) THEN p ELSE IF ok THEN [p EXCEPT !.data = Map!Map(q.co, gen), !.busy = FALSE]
                   ELSE [p EXCEPT !.err = TRUE, !.busy = FALSE]
    BY <1>4 DEF Map!MapAnswers, p
  <2> HIDE DEF gen
  <2>3. ChainStore(srv')
    BY <2>1, <2>2 DEF ChainStore
  <2>4. CASE Map!Stale(q)
    BY <1>2, <2>2, <2>3, <2>4
  <2>5. CASE ~Map!Stale(q) /\ ok
    <3> DEFINE m == Map!Map(q.co, gen)
    <3>1. page' = [p EXCEPT !.data = m, !.busy = FALSE]
      BY <2>2, <2>5
    <3>2. m.co = q.co
      BY DEF Map!Map
    <3> HIDE DEF m
    <3>3. q.co = Map!Current(page)
      BY <1>0, <2>5 DEF MapGood, OfCurrent, Map!Stale, MapRequest
    <3>4. /\ MapShape(page') /\ page'.ticker = p.ticker /\ page'.trail = p.trail /\ page'.asked = p.asked /\ page'.data = m
      BY <1>1, <3>1 DEF MapShape
    <3>5. Map!Current(page') = Map!Current(p)
      BY <3>4 DEF Map!Current
    <3> QED
      BY <1>2, <2>3, <3>2, <3>3, <3>4, <3>5 DEF MapGood, OfCurrent
  <2>6. CASE ~Map!Stale(q) /\ ~ok
    <3>1. page' = [p EXCEPT !.err = TRUE, !.busy = FALSE]
      BY <2>2, <2>6
    <3>2. MapShape(page') /\ page'.ticker = p.ticker /\ page'.trail = p.trail /\ page'.asked = p.asked /\ page'.data = p.data
          /\ page'.snapshot = p.snapshot /\ page'.pinned = p.pinned
      BY <1>1, <3>1 DEF MapShape
    <3> QED
      BY <1>2, <2>3, <3>2, MapStays
  <2> QED
    BY <2>4, <2>5, <2>6
<1>5. CASE Map!HistoryAnswers(q, ok)
  <2> DEFINE h == IF ok THEN Map!HistoryOf(q.co, srv.gen[q.co]) ELSE <<>>
             r == [p EXCEPT !.history = h]
             f == Map!Framed(r)
  <2>1. UNCHANGED srv /\ page' \in {p, Map!Played(f)}
    BY <1>5 DEF Map!HistoryAnswers, Map!To, p
  <2>2. h \in Seq(Maps)
    <3> DEFINE g == srv.gen[q.co]
    <3>1. \A i \in 1..g : Map!Map(q.co, g + 1 - i) \in Maps
      BY <1>0, <1>3 DEF Map!Map, Maps, MapRequest
    <3>2. Map!HistoryOf(q.co, g) = [i \in 1..g |-> Map!Map(q.co, g + 1 - i)]
      BY DEF Map!HistoryOf
    <3> HIDE DEF g
    <3>3. g \in Nat
      BY <1>3 DEF g
    <3>4. Map!HistoryOf(q.co, g) \in Seq(Maps)
      BY <3>1, <3>2, <3>3
    <3> QED
      BY <3>4 DEF g
  <2> HIDE DEF h
  <2>3. MapShape(r) /\ r.ticker = p.ticker /\ r.trail = p.trail /\ r.asked = p.asked /\ r.data = p.data
        /\ r.snapshot = p.snapshot /\ r.pinned = p.pinned
    BY <1>1, <2>2 DEF MapShape
  <2> HIDE DEF r
  <2>4. MapGood(f)
    BY <1>2, <2>3, MapStays, MapFramed
  <2> HIDE DEF f
  <2>5. MapGood(Map!Played(f))
    <3> DEFINE e == [f EXCEPT !.playing = FALSE]
    <3>1. MapShape(e) /\ e.ticker = f.ticker /\ e.trail = f.trail /\ e.asked = f.asked /\ e.data = f.data /\ e.snapshot = f.snapshot /\ e.pinned = f.pinned
      BY <2>4 DEF MapGood, MapShape
    <3> HIDE DEF e
    <3>2. MapGood(e)
      BY <2>4, <3>1, MapStays
    <3>3. Map!Played(f) \in {f, e}
      BY DEF Map!Played, e
    <3> QED
      BY <2>4, <3>2, <3>3
  <2> QED
    BY <1>2, <2>1, <2>5
<1> QED
  BY <1>4, <1>5

LEMMA MapKeeps ==
    ASSUME MapGood(page), ChainStore(srv), Map!Next
    PROVE  MapGood(page') /\ ChainStore(srv')
<1>0. MapShape(page)
  BY DEF MapGood
<1>1. ASSUME NEW q \in page.asked PROVE ~Map!SearchAnswers(q) /\ ~Map!QuoteAnswers(q) /\ ~Map!DetailAnswers(q) /\ ~Map!HandAnswers(q)
  BY <1>0, Zenon DEF MapShape, MapRequest, Map!SearchAnswers, Map!QuoteAnswers, Map!DetailAnswers, Map!HandAnswers
<1>2. CASE Map!Answers
  BY <1>1, <1>2, MapAnswered DEF Map!Answers
<1>3. \/ Map!MountMap \/ Map!Crumb \/ Map!Regenerate \/ Map!BackToLive \/ Map!TogglePin
      \/ (\E co \in Companies : Map!Recenter(co) \/ Map!ChangeTicker(co))
      \/ Map!Play \/ Map!PlayTick \/ Map!Compare \/ (\E m \in Map!Range(page.history) : Map!ViewSnapshot(m))
      \/ (\E i \in 1..MaxGen : Map!Scrub(i)) \/ Map!Answers
  BY <1>0 DEF MapShape, Map!Next, Map!Open, Map!ShowNode, Map!ChangeSubject, Map!Watch, Map!Simulate, Map!Flag, Map!AskByHand,
     Map!PointerDown, Map!PointerUp, Map!PointerMove, Map!Click, Map!PressKey, Map!Hover, Map!Wheel, Map!Reframe, Map!PullNews,
     Map!SixSeconds, Map!OtherCompany
<1> QED
  BY <1>2, <1>3, MapSteers, MapViews

\* What is said of a counterparty was found for it, and so will what is asked.
DetailShape(p) ==
    /\ DOMAIN p = {"name", "node", "cands", "quote", "watch", "scenario", "running", "reported", "asked"} /\ p.name = "detail"
    /\ \A q \in p.asked : q.what \in {"search", "quote", "watch", "scenario", "flag"} /\ (q.what \in {"search", "quote"} => q.of = p.node)
DetailGood(p) ==
    /\ DetailShape(p)
    /\ p.cands \in {None, "unlisted", p.node} /\ p.quote \in {None, p.node}

LEMMA DetailAsks ==
    ASSUME NEW p, DetailGood(p), NEW q, DOMAIN q = DOMAIN p, q.name = p.name, q.node = p.node, q.cands = p.cands, q.quote = p.quote,
           NEW a, q.asked \subseteq p.asked \cup {a},
           a.what \in {"search", "quote", "watch", "scenario", "flag"} /\ (a.what \in {"search", "quote"} => a.of = p.node)
    PROVE  DetailGood(q)
BY DEF DetailGood, DetailShape

LEMMA DetailQuoted ==
    ASSUME NEW p, DetailGood(p)
    PROVE  DetailGood(Map!Quoted(p))
<1> DEFINE a == [what |-> "quote", of |-> p.cands]
           q == [p EXCEPT !.asked = p.asked \cup {a}]
<1>1. CASE Map!Detail(p).listing # "listed"
  BY <1>1 DEF Map!Quoted
<1>2. CASE Map!Detail(p).listing = "listed"
  <2>1. p.cands = p.node
    BY <1>2 DEF Map!Detail, DetailGood
  <2>2. Map!Quoted(p) = q
    BY <1>2 DEF Map!Quoted
  <2>3. a.what = "quote" /\ a.of = p.node
    BY <2>1
  <2>4. DOMAIN q = DOMAIN p /\ q.name = p.name /\ q.node = p.node /\ q.cands = p.cands /\ q.quote = p.quote /\ q.asked = p.asked \cup {a}
    BY DEF DetailGood, DetailShape
  <2> HIDE DEF a, q
  <2>5. DetailGood(q)
    BY <2>3, <2>4, DetailAsks
  <2> QED
    BY <2>2, <2>5
<1> QED
  BY <1>1, <1>2

LEMMA DetailKeeps ==
    ASSUME DetailGood(page), ChainStore(srv), Map!Next
    PROVE  DetailGood(page') /\ ChainStore(srv')
<1>0. DetailShape(page)
  BY DEF DetailGood
<1>1. ASSUME NEW n \in Companies, Map!ShowNode(n) PROVE DetailGood(page') /\ ChainStore(srv')
  <2> DEFINE left == {q \in page.asked : q.what \notin {"search", "quote"}}
             p == [page EXCEPT !.node = n, !.cands = None, !.quote = None, !.reported = FALSE, !.scenario = None, !.asked = left]
             a == [what |-> "search", of |-> n]
             r == Map!Resolved(p)
  <2>1. page' = Map!Quoted(r) /\ UNCHANGED srv
    BY <1>1 DEF Map!ShowNode, Map!To
  <2>2. /\ DOMAIN p = DOMAIN page /\ p.name = page.name /\ p.node = n /\ p.cands = None /\ p.quote = None /\ p.asked = left
    BY <1>0 DEF DetailShape
  <2> HIDE DEF p
  <2>3. DetailGood(p)
    BY <1>0, <2>2 DEF DetailGood, DetailShape
  <2>4. DetailGood(r)
    <3>1. CASE srv.cache[n] # None
      <4>1. r = [p EXCEPT !.cands = srv.cache[n]]
        BY <2>2, <3>1 DEF Map!Resolved
      <4>2. srv.cache[n] \in {None, "unlisted", n}
        BY DEF ChainStore
      <4> HIDE DEF r
      <4> QED
        BY <2>2, <2>3, <4>1, <4>2 DEF DetailGood, DetailShape
    <3>2. CASE srv.cache[n] = None
      <4>1. r = [p EXCEPT !.asked = p.asked \cup {a}]
        BY <2>2, <3>2 DEF Map!Resolved
      <4>2. a.what = "search" /\ a.of = n
        OBVIOUS
      <4> HIDE DEF a, r
      <4>3. DOMAIN r = DOMAIN p /\ r.name = p.name /\ r.node = p.node /\ r.cands = p.cands /\ r.quote = p.quote /\ r.asked = p.asked \cup {a}
        BY <2>3, <4>1 DEF DetailGood, DetailShape
      <4> QED
        BY <2>2, <2>3, <4>2, <4>3, DetailAsks
    <3> QED
      BY <3>1, <3>2
  <2> HIDE DEF r
  <2> QED
    BY <2>1, <2>4, DetailQuoted
<1>2. ASSUME NEW q \in page.asked, Map!SearchAnswers(q) PROVE DetailGood(page') /\ ChainStore(srv')
  <2>0. q.what = "search" /\ q.of = page.node
    BY <1>0, <1>2 DEF Map!SearchAnswers, DetailShape
  <2>1. PICK found \in {page.node, "unlisted"} :
           /\ srv' = [srv EXCEPT !.cache[page.node] = found]
           /\ page' = Map!Quoted([page EXCEPT !.asked = @ \ {q}, !.cands = found])
    BY <1>2, <2>0 DEF Map!SearchAnswers
  <2> DEFINE p == [page EXCEPT !.asked = @ \ {q}, !.cands = found]
  <2>2. DetailGood(p)
    BY <1>0 DEF DetailGood, DetailShape
  <2>3. ChainStore(srv')
    BY <2>1 DEF ChainStore
  <2> HIDE DEF p
  <2> QED
    BY <2>1, <2>2, <2>3, DetailQuoted DEF p
<1>3. ASSUME NEW q \in page.asked, Map!QuoteAnswers(q) PROVE DetailGood(page') /\ ChainStore(srv')
  <2>0. q.what = "quote" /\ q.of = page.node
    BY <1>0, <1>3 DEF Map!QuoteAnswers, DetailShape
  <2>1. PICK v \in {page.node, None} : page' = [page EXCEPT !.asked = @ \ {q}, !.quote = v] /\ UNCHANGED srv
    BY <1>3, <2>0 DEF Map!QuoteAnswers, Map!To
  <2> QED
    BY <2>1 DEF DetailGood, DetailShape
<1>4. CASE Map!Watch \/ Map!Simulate \/ Map!Flag
  <2>1. PICK w \in {"watch", "scenario", "flag"} : \E of : page'.asked = page.asked \cup {[what |-> w, of |-> of]}
    BY <1>0, <1>4 DEF Map!Watch, Map!Simulate, Map!Flag, Map!To, DetailShape
  <2>2. PICK of : page'.asked = page.asked \cup {[what |-> w, of |-> of]}
    BY <2>1
  <2> DEFINE a == [what |-> w, of |-> of]
  <2>3. a.what = w
    OBVIOUS
  <2>4. DOMAIN page' = DOMAIN page /\ page'.name = page.name /\ page'.node = page.node /\ page'.cands = page.cands /\ page'.quote = page.quote /\ UNCHANGED srv
    BY <1>0, <1>4 DEF Map!Watch, Map!Simulate, Map!Flag, Map!To, DetailShape
  <2>5. page'.asked = page.asked \cup {a}
    BY <2>2
  <2> HIDE DEF a
  <2> QED
    BY <2>3, <2>4, <2>5 DEF DetailGood, DetailShape
<1>5. ASSUME NEW q \in page.asked, Map!DetailAnswers(q) PROVE DetailGood(page') /\ ChainStore(srv')
  <2> DEFINE p == [page EXCEPT !.asked = page.asked \ {q}]
  <2>1. /\ UNCHANGED srv
        /\ \/ \E w : page' = [p EXCEPT !.watch = w]
           \/ \E s : page' = [p EXCEPT !.running = FALSE, !.scenario = s]
           \/ \E b : page' = [p EXCEPT !.reported = b]
    BY <1>5, Zenon DEF Map!DetailAnswers, Map!To
  <2>2. DOMAIN page' = DOMAIN page /\ page'.name = page.name /\ page'.node = page.node /\ page'.cands = page.cands /\ page'.quote = page.quote
        /\ page'.asked = page.asked \ {q}
    BY <1>0, <2>1, Zenon DEF DetailShape
  <2> QED
    BY <2>1, <2>2, Zenon DEF DetailGood, DetailShape
<1>6. ASSUME NEW q \in page.asked, NEW ok PROVE ~Map!MapAnswers(q, ok) /\ ~Map!HistoryAnswers(q, ok) /\ ~Map!HandAnswers(q)
  BY <1>0, Zenon DEF DetailShape, Map!MapAnswers, Map!HistoryAnswers, Map!HandAnswers
<1>7. (\E n \in Companies : Map!ShowNode(n)) \/ Map!Watch \/ Map!Simulate \/ Map!Flag \/ Map!Answers
  BY <1>0 DEF DetailShape, Map!Next, Map!Open, Map!MountMap, Map!Crumb, Map!Regenerate, Map!BackToLive, Map!TogglePin, Map!Recenter,
     Map!ChangeTicker, Map!Play, Map!PlayTick, Map!Compare, Map!Scrub, Map!ChangeSubject, Map!AskByHand,
     Map!PointerDown, Map!PointerUp, Map!PointerMove, Map!Click, Map!PressKey, Map!Hover, Map!Wheel, Map!Reframe, Map!PullNews,
     Map!SixSeconds, Map!OtherCompany
<1> QED
  BY <1>1, <1>2, <1>3, <1>4, <1>5, <1>6, <1>7 DEF Map!Answers

\* The other pages of the map say nothing of a company; what is asked for by
\* hand is no answer to another of them.
HandGood(p) == "name" \in DOMAIN p /\ p.name = "search" /\ \A q \in p.asked : q.what = "hand"

\* A drawing: what one finger does is a drag once it has swept far enough, a
\* pan is measured from the one finger that is down, and a click comes with no
\* finger down.
CanvasShape(p) ==
    /\ DOMAIN p = {"name", "down", "pinch", "pan", "dragged", "view", "selected", "tip", "clicks", "swept", "most"}
    /\ p.name = "canvas" /\ IsFiniteSet(p.down) /\ p.most \in Nat
Pressed(p) ==
    /\ p.most = 1 => ~p.swept \/ p.dragged
    /\ p.clicks => p.down = {} /\ (~p.swept \/ p.dragged)
Panned(p) ==
    /\ p.most = 1 /\ p.down # {} => p.pan # None
    /\ p.most <= 2 /\ p.pan # None => p.down = {p.pan}
    /\ p.pinch => p.down # {} /\ \A f : p.down # {f}
CanvasGood(p) == CanvasShape(p) /\ Pressed(p) /\ Panned(p)

\* Headlines that are not seen yet have a timer, or are of another company.
PulseGood(p) ==
    /\ DOMAIN p = {"name", "items", "seen", "timers"} /\ p.name = "pulse"
    /\ \/ \A x \in p.items \ p.seen : \E items \in p.timers : x \in items
       \/ p.seen = {} /\ p.timers = {}

MapGroupGood ==
    \/ MapGood(page) /\ ChainStore(srv)
    \/ DetailGood(page) /\ ChainStore(srv)
    \/ HandGood(page) \/ CanvasGood(page) \/ PulseGood(page)

LEMMA HandKeeps ==
    ASSUME HandGood(page), Map!Next
    PROVE  HandGood(page')
<1>1. Map!AskByHand \/ (\E co \in Companies : Map!ChangeSubject(co)) \/ Map!Answers
  BY DEF HandGood, Map!Next, Map!Open, Map!MountMap, Map!Crumb, Map!Regenerate, Map!BackToLive, Map!TogglePin, Map!Recenter,
     Map!ChangeTicker, Map!Play, Map!PlayTick, Map!Compare, Map!Scrub, Map!ShowNode, Map!Watch, Map!Simulate, Map!Flag,
     Map!PointerDown, Map!PointerUp, Map!PointerMove, Map!Click, Map!PressKey, Map!Hover, Map!Wheel, Map!Reframe, Map!PullNews,
     Map!SixSeconds, Map!OtherCompany
<1>2. CASE Map!AskByHand
  BY <1>2 DEF Map!AskByHand, Map!To, HandGood
<1>3. ASSUME NEW co, Map!ChangeSubject(co) PROVE HandGood(page')
  BY <1>3 DEF Map!ChangeSubject, Map!To, HandGood
<1>4. ASSUME NEW q \in page.asked, Map!HandAnswers(q) PROVE HandGood(page')
  <2>1. PICK b, f : page' = [page EXCEPT !.asked = @ \ {q}, !.busy = FALSE, !.err = b, !.found = f]
    BY <1>4, Zenon DEF Map!HandAnswers, Map!To
  <2> QED
    BY <2>1 DEF HandGood
<1>5. ASSUME NEW q \in page.asked, NEW ok
      PROVE  ~Map!MapAnswers(q, ok) /\ ~Map!HistoryAnswers(q, ok) /\ ~Map!SearchAnswers(q) /\ ~Map!QuoteAnswers(q) /\ ~Map!DetailAnswers(q)
  BY Zenon DEF HandGood, Map!MapAnswers, Map!HistoryAnswers, Map!SearchAnswers, Map!QuoteAnswers, Map!DetailAnswers
<1> QED
  BY <1>1, <1>2, <1>3, <1>4, <1>5 DEF Map!Answers

LEMMA MapCount == \A S : Map!Cardinality(S) = Cardinality(S)
BY DEF Map!Cardinality, Cardinality

LEMMA FingerDown ==
    ASSUME CanvasGood(page), NEW f \in Fingers, Map!PointerDown(f)
    PROVE  CanvasGood(page')
<1> DEFINE n == Cardinality(page.down) + 1
<1>0. CanvasShape(page) /\ Pressed(page) /\ Panned(page)
  BY DEF CanvasGood
<1>1. f \notin page.down /\ IsFiniteSet(page.down) /\ Cardinality(page.down) \in Nat /\ f # None
  BY <1>0, FS_CardinalityType, MapAssumption DEF Map!PointerDown, CanvasShape
<1>2. n \in Nat /\ n >= 1 /\ (n = 1 <=> page.down = {})
  BY <1>1, FS_EmptySet
<1>3. IsFiniteSet(page.down \cup {f}) /\ (n >= 2 => \A g : page.down \cup {f} # {g})
  <2>1. IsFiniteSet(page.down \cup {f})
    BY <1>1, FS_AddElement
  <2>2. n >= 2 => page.down # {} /\ f \notin page.down
    BY <1>1, <1>2
  <2> QED
    BY <2>1, <2>2
<1> DEFINE m == IF n > page.most \/ n = 1 THEN n ELSE page.most
           p == [page EXCEPT !.down = @ \cup {f}, !.dragged = FALSE, !.clicks = FALSE, !.swept = IF n = 1 THEN FALSE ELSE @, !.most = m]
<1>4. page' = IF n = 2 THEN [p EXCEPT !.pinch = TRUE, !.pan = None] ELSE [p EXCEPT !.pan = f]
  BY MapCount DEF Map!PointerDown, Map!To
<1>5. /\ DOMAIN p = DOMAIN page /\ p.name = page.name /\ p.down = page.down \cup {f} /\ p.dragged = FALSE /\ p.clicks = FALSE
      /\ p.most = m /\ p.pinch = page.pinch /\ (n = 1 => p.swept = FALSE)
  BY <1>0 DEF CanvasShape
<1>6. m \in Nat /\ m >= n /\ (n = 1 => m = 1)
  BY <1>0, <1>2 DEF CanvasShape
<1> HIDE DEF n, m, p
<1>7. /\ DOMAIN page' = DOMAIN page /\ page'.name = page.name /\ page'.down = page.down \cup {f} /\ page'.dragged = FALSE
      /\ page'.clicks = FALSE /\ page'.most = m /\ (n = 1 => page'.swept = FALSE)
      /\ n = 2 => page'.pan = None
      /\ n # 2 => page'.pan = f /\ page'.pinch = page.pinch
  BY <1>0, <1>4, <1>5 DEF CanvasShape
<1>8. CanvasShape(page')
  BY <1>0, <1>3, <1>6, <1>7 DEF CanvasShape
<1>9. Pressed(page')
  BY <1>2, <1>6, <1>7 DEF Pressed
<1>10. n = 1 => page'.down = {f}
  BY <1>2, <1>7
<1>11. n = 1 => ~page.pinch
  BY <1>0, <1>2 DEF Panned
<1>12. Panned(page')
  BY <1>1, <1>2, <1>3, <1>6, <1>7, <1>10, <1>11 DEF Panned
<1> QED
  BY <1>8, <1>9, <1>12 DEF CanvasGood

LEMMA FingerMoves ==
    ASSUME CanvasGood(page), NEW far \in BOOLEAN, Map!PointerMove(far)
    PROVE  CanvasGood(page')
<1>0. CanvasShape(page) /\ Pressed(page) /\ Panned(page)
  BY DEF CanvasGood
<1> DEFINE swept == page.swept \/ far
           dragged == page.dragged \/ far
           p == [page EXCEPT !.swept = swept]
<1>1. page.down # {} /\ UNCHANGED srv
  BY DEF Map!PointerMove, Map!To
<1>2. \/ page' = [p EXCEPT !.dragged = TRUE, !.view = "moved"]
      \/ page.pan = None /\ page' = p
      \/ page' = [p EXCEPT !.dragged = dragged, !.view = "moved"]
  <2>1. p.dragged = page.dragged
    OBVIOUS
  <2> QED
    BY <2>1, Zenon DEF Map!PointerMove, Map!To
<1>3. (swept => page.swept \/ far) /\ (page.dragged \/ far => dragged)
  OBVIOUS
<1> HIDE DEF swept, dragged
<1>4. /\ DOMAIN p = DOMAIN page /\ p.name = page.name /\ p.down = page.down /\ p.clicks = page.clicks /\ p.most = page.most
      /\ p.pinch = page.pinch /\ p.pan = page.pan /\ p.swept = swept /\ p.dragged = page.dragged
  BY <1>0 DEF CanvasShape
<1> HIDE DEF p
<1>5. /\ DOMAIN page' = DOMAIN page /\ page'.name = page.name /\ page'.down = page.down /\ page'.clicks = page.clicks
      /\ page'.most = page.most /\ page'.pinch = page.pinch /\ page'.pan = page.pan /\ page'.swept = swept
      /\ page'.dragged = TRUE \/ page.pan = None \/ page'.dragged = dragged
  BY <1>0, <1>2, <1>4 DEF CanvasShape
<1>6. CanvasShape(page') /\ Panned(page')
  BY <1>0, <1>5 DEF CanvasShape, Panned
<1>7. page.most = 1 => ~swept \/ dragged
  BY <1>0, <1>3 DEF Pressed
<1>8. Pressed(page')
  BY <1>0, <1>1, <1>5, <1>7 DEF Pressed, Panned
<1> QED
  BY <1>6, <1>8 DEF CanvasGood

LEMMA FingerUp ==
    ASSUME CanvasGood(page), NEW f \in Fingers, Map!PointerUp(f)
    PROVE  CanvasGood(page')
<1>0. CanvasShape(page) /\ Pressed(page) /\ Panned(page)
  BY DEF CanvasGood
<1> DEFINE left == page.down \ {f}
           pinch == page.pinch /\ Cardinality(left) >= 2
           pan == IF left = {} THEN None ELSE page.pan
           clicks == left = {} /\ page.most = 1
<1>1. f \in page.down
  BY DEF Map!PointerUp
<1>2. page' = [page EXCEPT !.down = left, !.pinch = pinch, !.pan = pan, !.clicks = clicks]
  BY MapCount, Zenon DEF Map!PointerUp, Map!To
<1>3. pinch => left # {} /\ \A g : left # {g}
  <2>1. Cardinality({}) = 0 /\ \A g : Cardinality({g}) = 1
    BY FS_EmptySet, FS_Singleton
  <2>2. ASSUME pinch PROVE Cardinality(left) >= 2
    BY <2>2
  <2>3. ASSUME pinch, NEW g PROVE left # {} /\ left # {g}
    BY <2>1, <2>2, <2>3
  <2> QED
    BY <2>3
<1>4. IsFiniteSet(left)
  BY <1>0, FS_RemoveElement DEF CanvasShape
<1>5. clicks => left = {} /\ page.most = 1
  OBVIOUS
<1>6. page.most <= 2 /\ pan # None => left = {}
  BY <1>0, <1>1 DEF Panned
<1>7. (left = {} => pan = None) /\ (left # {} => pan = page.pan)
  OBVIOUS
<1> HIDE DEF pinch, pan, clicks
<1>8. /\ DOMAIN page' = DOMAIN page /\ page'.name = page.name /\ page'.down = left /\ page'.clicks = clicks
      /\ page'.most = page.most /\ page'.pinch = pinch /\ page'.pan = pan /\ page'.swept = page.swept
      /\ page'.dragged = page.dragged
  BY <1>0, <1>2 DEF CanvasShape
<1>9. CanvasShape(page')
  BY <1>0, <1>4, <1>8 DEF CanvasShape
<1>10. Pressed(page')
  BY <1>0, <1>5, <1>8 DEF Pressed
<1>11. page.down # {}
  BY <1>1
<1>12. Panned(page')
  BY <1>0, <1>3, <1>6, <1>7, <1>8, <1>11 DEF Panned
<1> QED
  BY <1>9, <1>10, <1>12 DEF CanvasGood

\* Only a click or a key changes what is picked, and only where nothing was
\* dragged.
DragsPickNothing == page.clicks /\ page.selected # page'.selected => ~page.swept

LEMMA PickingKeeps ==
    ASSUME CanvasGood(page), NEW n, Map!Click(n) \/ Map!PressKey(n)
    PROVE  CanvasGood(page') /\ DragsPickNothing
<1>0. CanvasShape(page) /\ Pressed(page) /\ Panned(page)
  BY DEF CanvasGood
<1> DEFINE s == IF page.dragged THEN page.selected ELSE IF page.selected = n THEN None ELSE n
           p == Map!Pick(n)
<1>1. p = [page EXCEPT !.clicks = FALSE, !.selected = s]
  BY DEF Map!Pick
<1>2. page' = p \/ page' = [p EXCEPT !.clicks = page.clicks]
  BY DEF Map!Click, Map!PressKey, Map!To
<1>3. s # page.selected => ~page.dragged
  OBVIOUS
<1> HIDE DEF s, p
<1>4. /\ DOMAIN page' = DOMAIN page /\ page'.name = page.name /\ page'.down = page.down /\ page'.most = page.most
      /\ page'.pinch = page.pinch /\ page'.pan = page.pan /\ page'.swept = page.swept /\ page'.dragged = page.dragged
      /\ page'.selected = s /\ (page'.clicks = FALSE \/ page'.clicks = page.clicks)
  BY <1>0, <1>1, <1>2 DEF CanvasShape
<1>5. CanvasShape(page') /\ Panned(page')
  BY <1>0, <1>4 DEF CanvasShape, Panned
<1>6. Pressed(page')
  BY <1>0, <1>4 DEF Pressed
<1>7. DragsPickNothing
  BY <1>0, <1>3, <1>4 DEF DragsPickNothing, Pressed
<1> QED
  BY <1>5, <1>6, <1>7 DEF CanvasGood

LEMMA CanvasKeeps ==
    ASSUME CanvasGood(page), Map!Next
    PROVE  CanvasGood(page') /\ DragsPickNothing
<1>0. CanvasShape(page) /\ Pressed(page) /\ Panned(page)
  BY DEF CanvasGood
<1>1. \/ \E f \in Fingers : Map!PointerDown(f) \/ Map!PointerUp(f)
      \/ \E far \in BOOLEAN : Map!PointerMove(far)
      \/ \E n \in Nodes : Map!Click(n) \/ Map!PressKey(n) \/ Map!Hover(n)
      \/ Map!Wheel \/ Map!Reframe
  BY <1>0 DEF CanvasShape, Map!Next, Map!Open, Map!MountMap, Map!Crumb, Map!Regenerate, Map!BackToLive, Map!TogglePin, Map!Recenter,
     Map!ChangeTicker, Map!Play, Map!PlayTick, Map!Compare, Map!Scrub, Map!ShowNode, Map!ChangeSubject, Map!Watch, Map!Simulate,
     Map!Flag, Map!AskByHand, Map!Answers, Map!Pages, Map!PullNews, Map!SixSeconds, Map!OtherCompany
<1>2. ASSUME NEW f \in Fingers, Map!PointerDown(f) PROVE CanvasGood(page') /\ DragsPickNothing
  <2>1. \E p : p.selected = page.selected /\ DOMAIN p = DOMAIN page
               /\ page' \in {[p EXCEPT !.pinch = TRUE, !.pan = None], [p EXCEPT !.pan = f]}
    <3>1. PICK s, m : LET p == [page EXCEPT !.down = page.down \cup {f}, !.dragged = FALSE, !.clicks = FALSE, !.swept = s, !.most = m]
                      IN page' \in {[p EXCEPT !.pinch = TRUE, !.pan = None], [p EXCEPT !.pan = f]}
      BY <1>2, Zenon DEF Map!PointerDown, Map!To
    <3> QED
      BY <1>0, <3>1, Zenon DEF CanvasShape
  <2>2. page'.selected = page.selected
    BY <1>0, <2>1 DEF CanvasShape
  <2> QED
    BY <1>2, <2>2, FingerDown DEF DragsPickNothing
<1>3. ASSUME NEW far \in BOOLEAN, Map!PointerMove(far) PROVE CanvasGood(page') /\ DragsPickNothing
  <2>1. page.down # {}
    BY <1>3 DEF Map!PointerMove
  <2> QED
    BY <1>0, <1>3, <2>1, FingerMoves DEF DragsPickNothing, Pressed
<1>4. ASSUME NEW f \in Fingers, Map!PointerUp(f) PROVE CanvasGood(page') /\ DragsPickNothing
  <2>1. f \in page.down
    BY <1>4 DEF Map!PointerUp
  <2> QED
    BY <1>0, <1>4, <2>1, FingerUp DEF DragsPickNothing, Pressed
<1>5. ASSUME NEW r, DOMAIN r = DOMAIN page,
             \A x \in {"name", "down", "pinch", "pan", "dragged", "selected", "clicks", "swept", "most"} : r[x] = page[x], page' = r
      PROVE  CanvasGood(page') /\ DragsPickNothing
  <2>1. CanvasShape(page') /\ Pressed(page') /\ Panned(page')
    BY <1>0, <1>5 DEF CanvasShape, Pressed, Panned
  <2> QED
    BY <1>5, <2>1 DEF CanvasGood, DragsPickNothing
<1>6. ASSUME NEW n \in Nodes, Map!Hover(n) PROVE CanvasGood(page') /\ DragsPickNothing
  <2>1. \E t : page' = [page EXCEPT !.tip = t]
    BY <1>6 DEF Map!Hover, Map!To
  <2> QED
    BY <1>0, <1>5, <2>1 DEF CanvasShape
<1>7. CASE Map!Wheel \/ Map!Reframe
  <2>1. \E v : page' = [page EXCEPT !.view = v]
    BY <1>7 DEF Map!Wheel, Map!Reframe, Map!To
  <2> QED
    BY <1>0, <1>5, <2>1 DEF CanvasShape
<1> QED
  BY <1>1, <1>2, <1>3, <1>4, <1>6, <1>7, PickingKeeps

LEMMA PulseKeeps ==
    ASSUME PulseGood(page), Map!Next
    PROVE  PulseGood(page')
<1>0. DOMAIN page = {"name", "items", "seen", "timers"} /\ page.name = "pulse"
  BY DEF PulseGood
<1>1. Map!PullNews \/ Map!SixSeconds \/ Map!OtherCompany
  BY <1>0 DEF Map!Next, Map!Open, Map!MountMap, Map!Crumb, Map!Regenerate, Map!BackToLive, Map!TogglePin, Map!Recenter,
     Map!ChangeTicker, Map!Play, Map!PlayTick, Map!Compare, Map!Scrub, Map!ShowNode, Map!ChangeSubject, Map!Watch, Map!Simulate,
     Map!Flag, Map!AskByHand, Map!Answers, Map!Pages, Map!PointerDown, Map!PointerUp, Map!PointerMove, Map!Click, Map!PressKey,
     Map!Hover, Map!Wheel, Map!Reframe
<1>2. ASSUME NEW items, page' = [page EXCEPT !.items = items, !.timers = @ \cup {items}] PROVE PulseGood(page')
  <2>1. DOMAIN page' = DOMAIN page /\ page'.name = page.name /\ page'.items = items /\ page'.timers = page.timers \cup {items}
    BY <1>0, <1>2
  <2> QED
    BY <1>0, <2>1 DEF PulseGood
<1>3. ASSUME NEW items \in page.timers, page' = [page EXCEPT !.seen = @ \cup items, !.timers = @ \ {items}] PROVE PulseGood(page')
  <2>1. /\ DOMAIN page' = DOMAIN page /\ page'.name = page.name /\ page'.items = page.items /\ page'.seen = page.seen \cup items
        /\ page'.timers = page.timers \ {items}
    BY <1>0, <1>3
  <2>2. \A x \in page.items \ page.seen : \E t \in page.timers : x \in t
    BY <1>3 DEF PulseGood
  <2>3. \A x \in page'.items \ page'.seen : \E t \in page'.timers : x \in t
    BY <2>1, <2>2
  <2> QED
    BY <1>0, <2>1, <2>3 DEF PulseGood
<1>4. ASSUME page' = [page EXCEPT !.seen = {}, !.timers = {}] PROVE PulseGood(page')
  <2>1. DOMAIN page' = DOMAIN page /\ page'.name = page.name /\ page'.seen = {} /\ page'.timers = {}
    BY <1>0, <1>4
  <2> QED
    BY <1>0, <2>1 DEF PulseGood
<1> QED
  BY <1>1, <1>2, <1>3, <1>4, Zenon DEF Map!PullNews, Map!SixSeconds, Map!OtherCompany, Map!To

LEMMA DrawingHolds ==
    /\ CanvasGood(page) => Map!AnchoredPan /\ Map!PulseEnds
    /\ PulseGood(page) => Map!AnchoredPan /\ Map!PulseEnds
<1>1. ASSUME CanvasGood(page) PROVE Map!AnchoredPan
  BY <1>1 DEF CanvasGood, Panned, Map!AnchoredPan
<1>2. ASSUME CanvasGood(page) PROVE Map!PulseEnds
  BY <1>2 DEF CanvasGood, CanvasShape, Map!PulseEnds, Map!Open
<1>3. ASSUME PulseGood(page) PROVE Map!AnchoredPan
  BY <1>3 DEF PulseGood, Map!AnchoredPan, Map!Open
<1>4. ASSUME PulseGood(page) PROVE Map!PulseEnds
  BY <1>4 DEF PulseGood, Map!PulseEnds, Map!Pulsing
<1> QED
  BY <1>1, <1>2, <1>3, <1>4

LEMMA MapGroupStarts == Map!Init => MapGroupGood
<1> SUFFICES ASSUME Map!Init PROVE MapGroupGood
  OBVIOUS
<1>1. ChainStore(srv)
  <2> DEFINE g == [co \in Companies |-> 1]
             n == [co \in Companies |-> None]
             s == [gen |-> g, pins |-> n, cache |-> n]
  <2>1. g \in [Companies -> Nat] /\ DOMAIN n = Companies /\ \A c \in Companies : n[c] = None
    OBVIOUS
  <2>2. srv \in {s, [s EXCEPT !.gen[Home] = MaxGen]}
    BY DEF Map!Init, Map!Fresh
  <2> HIDE DEF g, n
  <2>3. ChainStore(s)
    BY <2>1 DEF ChainStore
  <2>4. ChainStore([s EXCEPT !.gen[Home] = MaxGen])
    BY <2>1, MapAssumption DEF ChainStore
  <2> QED
    BY <2>2, <2>3, <2>4
<1>2. CASE page = Map!MapPage
  <2>1. MapShape(page) /\ page.asked = {} /\ page.data = None
    BY <1>2, MapAssumption DEF Map!MapPage, MapShape
  <2>2. MapGood(page)
    BY <2>1 DEF MapGood, OfCurrent
  <2> QED
    BY <1>1, <2>2 DEF MapGroupGood
<1>3. CASE page = Map!DetailPage
  <2>1. DetailGood(page)
    BY <1>3 DEF Map!DetailPage, DetailGood, DetailShape
  <2> QED
    BY <1>1, <2>1 DEF MapGroupGood
<1>4. CASE page = Map!HandPage
  BY <1>4 DEF Map!HandPage, HandGood, MapGroupGood
<1>5. CASE page = Map!CanvasPage
  <2>1. /\ DOMAIN page = {"name", "down", "pinch", "pan", "dragged", "view", "selected", "tip", "clicks", "swept", "most"}
        /\ page.name = "canvas" /\ page.down = {} /\ page.most = 0 /\ page.pan = None
        /\ page.pinch = FALSE /\ page.clicks = FALSE
    BY <1>5 DEF Map!CanvasPage
  <2>2. CanvasShape(page)
    BY <2>1, FS_EmptySet DEF CanvasShape
  <2>3. Pressed(page) /\ Panned(page)
    BY <2>1 DEF Pressed, Panned
  <2> QED
    BY <2>2, <2>3 DEF CanvasGood, MapGroupGood
<1>6. CASE page = Map!PulsePage
  BY <1>6 DEF Map!PulsePage, PulseGood, MapGroupGood
<1> QED
  BY <1>2, <1>3, <1>4, <1>5, <1>6 DEF Map!Init

LEMMA MapGroupKeeps == MapGroupGood /\ Map!Next => MapGroupGood'
BY MapKeeps, DetailKeeps, HandKeeps, CanvasKeeps, PulseKeeps DEF MapGroupGood

LEMMA MapGroupHolds == MapGroupGood => OpenIn(MapPages) /\ Map!MapOfCurrent /\ Map!DetailOfNode
BY DEF MapGroupGood, MapGood, MapShape, OfCurrent, DetailGood, DetailShape, HandGood, CanvasGood, CanvasShape, PulseGood, OpenIn, MapPages, Map!MapOfCurrent,
   Map!DetailOfNode, Map!Open

-----------------------------------------------------------------------------
(* The portfolios and the stress test.                                     *)

\* No portfolio is listed twice.
Distinct(s) == s \in Seq(Ids) /\ \A i \in 1..Len(s) : \A j \in 1..Len(s) : s[i] = s[j] => i = j
Among(s, id) == \E i \in 1..Len(s) : s[i] = id

LEMMA ListLonger ==
    ASSUME NEW s, Distinct(s), NEW id \in Ids, ~Among(s, id)
    PROVE  Distinct(Append(s, id)) /\ \A x : Among(Append(s, id), x) => Among(s, x) \/ x = id
<1> DEFINE t == Append(s, id)
<1>1. t \in Seq(Ids) /\ Len(t) = Len(s) + 1 /\ t[Len(s) + 1] = id /\ Len(s) \in Nat
  BY DEF Distinct
<1>2. \A i \in 1..Len(s) : t[i] = s[i]
  BY DEF Distinct
<1> HIDE DEF t
<1>3. \A i \in 1..Len(t) : i = Len(s) + 1 \/ i \in 1..Len(s)
  BY <1>1
<1>4. \A i \in 1..Len(t) : \A j \in 1..Len(t) : t[i] = t[j] => i = j
  BY <1>1, <1>2, <1>3 DEF Distinct, Among
<1>5. \A x : Among(t, x) => Among(s, x) \/ x = id
  BY <1>1, <1>2, <1>3 DEF Among
<1> QED
  BY <1>1, <1>4, <1>5 DEF t, Distinct

LEMMA ListShorter ==
    ASSUME NEW s, Distinct(s), NEW i \in 1..Len(s)
    PROVE  Distinct(Folio!RemoveAt(s, i)) /\ \A x : Among(Folio!RemoveAt(s, i), x) => Among(s, x)
<1> DEFINE a == SubSeq(s, 1, i - 1)
           b == SubSeq(s, i + 1, Len(s))
           t == a \o b
<1>0. Len(s) \in Nat /\ i \in Nat /\ 1 <= i /\ i <= Len(s) /\ s \in Seq(Ids)
  BY DEF Distinct
<1>1. a \in Seq(Ids) /\ Len(a) = i - 1 /\ \A k \in 1..(i - 1) : a[k] = s[k]
  BY <1>0
<1>2. b \in Seq(Ids) /\ Len(b) = Len(s) - i /\ \A k \in 1..(Len(s) - i) : b[k] = s[i + k]
  BY <1>0
<1> HIDE DEF a, b
<1>3. t \in Seq(Ids) /\ Len(t) = Len(s) - 1
  <2>1. a \in Seq(Ids) /\ b \in Seq(Ids)
    BY <1>1, <1>2
  <2>2. t \in Seq(Ids) /\ Len(t) = Len(a) + Len(b)
    BY <2>1
  <2> QED
    BY <1>0, <1>1, <1>2, <2>2
<1>4. \A k \in 1..Len(t) : t[k] = s[IF k < i THEN k ELSE k + 1]
  <2>1. ASSUME NEW k \in 1..Len(t), k < i PROVE t[k] = s[k]
    <3>1. k \in 1..Len(a) /\ k \in 1..(i - 1)
      BY <1>0, <1>1, <1>3, <2>1
    <3>2. t[k] = a[k]
      BY <1>1, <1>2, <3>1
    <3> QED
      BY <1>1, <3>1, <3>2
  <2>2. ASSUME NEW k \in 1..Len(t), ~(k < i) PROVE t[k] = s[k + 1]
    <3>1. k - (i - 1) \in 1..(Len(s) - i) /\ i + (k - (i - 1)) = k + 1
      BY <1>0, <1>3, <2>2
    <3>2. t[k] = b[k - (i - 1)]
      BY <1>0, <1>1, <1>2, <1>3, <2>2
    <3>3. b[k - (i - 1)] = s[i + (k - (i - 1))]
      BY <1>2, <3>1
    <3> QED
      BY <3>1, <3>2, <3>3
  <2> QED
    BY <2>1, <2>2
<1> HIDE DEF t
<1>5. \A k \in 1..Len(t) : (IF k < i THEN k ELSE k + 1) \in 1..Len(s)
  BY <1>0, <1>3
<1>6. Distinct(t)
  <2>1. ASSUME NEW j \in 1..Len(t), NEW k \in 1..Len(t), t[j] = t[k] PROVE j = k
    <3>1. s[IF j < i THEN j ELSE j + 1] = s[IF k < i THEN k ELSE k + 1]
      BY <1>4, <2>1
    <3>2. (IF j < i THEN j ELSE j + 1) = (IF k < i THEN k ELSE k + 1)
      BY <1>5, <3>1 DEF Distinct
    <3> QED
      BY <1>0, <1>3, <3>2
  <2> QED
    BY <1>3, <2>1 DEF Distinct
<1>7. \A x : Among(t, x) => Among(s, x)
  BY <1>4, <1>5 DEF Among
<1> QED
  BY <1>6, <1>7 DEF Folio!RemoveAt, t, a, b

LEMMA ListRange == ASSUME NEW s, Distinct(s) PROVE (\A x : x \in Folio!Range(s) <=> Among(s, x)) /\ Folio!Range(s) \subseteq Ids
<1>1. DOMAIN s = 1..Len(s) /\ \A i \in 1..Len(s) : s[i] \in Ids
  BY DEF Distinct
<1> QED
  BY <1>1 DEF Folio!Range, Among

\* The page of the portfolios: the choice is remembered, the history is of it
\* unless one is waited for, and no portfolio that is being made is there yet.
BookShape(p) ==
    /\ DOMAIN p = {"name", "pid", "stored", "portfolios", "data", "poll", "history", "wanted", "csv", "asked"}
    /\ p.name = "book"
BookChosen(p) ==
    /\ BookShape(p) /\ p.pid \in Ids \cup {None} /\ Distinct(p.portfolios)
    /\ p.pid # None => p.stored = p.pid
BookState(p) ==
    /\ BookChosen(p)
    /\ p.wanted # None => p.wanted = [pid |-> p.pid]
    /\ p.wanted = None => p.history = None \/ p.history.pid = p.pid
BookAsked(asked, s) ==
    \A q \in asked : /\ q.op = "list" => Distinct(q.list)
                     /\ q.op = "create" => q = [op |-> "create", id |-> q.id] /\ q.id \in Ids /\ ~Among(s, q.id)
BookGood == BookState(page) /\ Distinct(srv) /\ BookAsked(page.asked, srv)

LEMMA BookRefresh == ASSUME NEW p, BookState(p) PROVE BookState(Folio!Refresh(p)) /\ Folio!Refresh(p).asked = p.asked
<1> DEFINE r == Folio!Refresh(p)
<1>1. /\ DOMAIN r = DOMAIN p /\ r.name = p.name /\ r.pid = p.pid /\ r.stored = p.stored /\ r.portfolios = p.portfolios
      /\ r.history = p.history /\ r.wanted = p.wanted /\ r.asked = p.asked
  BY DEF Folio!Refresh, BookState, BookChosen, BookShape
<1> HIDE DEF r
<1>2. BookState(r)
  BY <1>1 DEF BookState, BookChosen, BookShape
<1> QED
  BY <1>1, <1>2 DEF r

LEMMA BookAskHistory ==
    ASSUME NEW p, BookChosen(p)
    PROVE  BookState(Folio!AskHistory(p)) /\ Folio!AskHistory(p).asked = p.asked
<1> DEFINE r == Folio!AskHistory(p)
<1>1. /\ DOMAIN r = DOMAIN p /\ r.name = p.name /\ r.pid = p.pid /\ r.stored = p.stored /\ r.portfolios = p.portfolios
      /\ r.history = p.history /\ r.wanted = [pid |-> p.pid] /\ r.asked = p.asked
  BY DEF Folio!AskHistory, BookChosen, BookShape
<1>2. [pid |-> p.pid] # None
  BY FolioAssumption DEF BookChosen
<1> HIDE DEF r
<1>3. BookState(r)
  BY <1>1, <1>2 DEF BookState, BookChosen, BookShape
<1> QED
  BY <1>1, <1>3 DEF r

LEMMA BookChoose ==
    ASSUME NEW p, BookState(p), NEW pid \in Ids \cup {None}
    PROVE  BookState(Folio!Choose(p, pid)) /\ Folio!Choose(p, pid).asked = p.asked
<1>1. CASE pid = p.pid
  BY <1>1 DEF Folio!Choose
<1>2. CASE pid # p.pid
  <2> DEFINE r == [p EXCEPT !.pid = pid, !.stored = IF pid = None THEN @ ELSE pid, !.data = None]
  <2>1. /\ DOMAIN r = DOMAIN p /\ r.name = p.name /\ r.pid = pid /\ r.portfolios = p.portfolios /\ r.asked = p.asked
        /\ pid # None => r.stored = pid
    BY DEF BookState, BookChosen, BookShape
  <2> HIDE DEF r
  <2>2. BookChosen(r)
    BY <2>1 DEF BookState, BookChosen, BookShape
  <2>3. BookState(Folio!AskHistory(r)) /\ Folio!AskHistory(r).asked = p.asked
    BY <2>1, <2>2, BookAskHistory
  <2>4. Folio!Choose(p, pid) = Folio!Refresh(Folio!AskHistory(r))
    BY <1>2 DEF Folio!Choose, r
  <2> QED
    BY <2>3, <2>4, BookRefresh
<1> QED
  BY <1>1, <1>2

LEMMA BookFallBack ==
    ASSUME NEW p, BookState(p), NEW list, Distinct(list)
    PROVE  BookState(Folio!FallBack(p, list)) /\ Folio!FallBack(p, list).asked = p.asked
<1> DEFINE r == [p EXCEPT !.portfolios = list]
<1>1. /\ DOMAIN r = DOMAIN p /\ r.name = p.name /\ r.pid = p.pid /\ r.stored = p.stored /\ r.portfolios = list
      /\ r.history = p.history /\ r.wanted = p.wanted /\ r.asked = p.asked
  BY DEF BookState, BookChosen, BookShape
<1>2. Folio!FallBack(p, list) = r \/ (list # <<>> /\ Folio!FallBack(p, list) = Folio!Choose(r, list[1]))
  BY DEF Folio!FallBack
<1> HIDE DEF r
<1>3. BookState(r)
  BY <1>1 DEF BookState, BookChosen, BookShape
<1>4. list # <<>> => list[1] \in Ids
  BY DEF Distinct
<1> QED
  BY <1>1, <1>2, <1>3, <1>4, BookChoose

LEMMA BookAsk ==
    ASSUME NEW p, BookState(p), NEW q
    PROVE  BookState(Folio!Ask(p, q)) /\ Folio!Ask(p, q).asked = p.asked \cup {q}
<1> DEFINE r == Folio!Ask(p, q)
<1>1. /\ DOMAIN r = DOMAIN p /\ r.name = p.name /\ r.pid = p.pid /\ r.stored = p.stored /\ r.portfolios = p.portfolios
      /\ r.history = p.history /\ r.wanted = p.wanted /\ r.asked = p.asked \cup {q}
  BY DEF Folio!Ask, BookState, BookChosen, BookShape
<1> HIDE DEF r
<1>2. BookState(r)
  BY <1>1 DEF BookState, BookChosen, BookShape
<1> QED
  BY <1>1, <1>2 DEF r

LEMMA BookAnswered ==
    ASSUME BookState(page), NEW q
    PROVE  BookState(Folio!Answered(q)) /\ Folio!Answered(q).asked = page.asked \ {q}
<1> DEFINE r == Folio!Answered(q)
<1>1. /\ DOMAIN r = DOMAIN page /\ r.name = page.name /\ r.pid = page.pid /\ r.stored = page.stored /\ r.portfolios = page.portfolios
      /\ r.history = page.history /\ r.wanted = page.wanted /\ r.asked = page.asked \ {q}
  BY DEF Folio!Answered, BookState, BookChosen, BookShape
<1> HIDE DEF r
<1>2. BookState(r)
  BY <1>1 DEF BookState, BookChosen, BookShape
<1> QED
  BY <1>1, <1>2 DEF r

\* Fields the invariant does not speak of.
LEMMA BookOther ==
    ASSUME NEW p, BookState(p), NEW r, DOMAIN r = DOMAIN p,
           \A f \in {"name", "pid", "stored", "portfolios", "history", "wanted"} : r[f] = p[f]
    PROVE  BookState(r)
BY DEF BookState, BookChosen, BookShape

\* A step that asks for something more, or answers, and leaves the server alone.
LEMMA BookAlone ==
    ASSUME BookGood, UNCHANGED srv, BookState(page'), NEW more, page'.asked \subseteq page.asked \cup more, BookAsked(more, srv)
    PROVE  BookGood'
BY DEF BookGood, BookAsked, Distinct, Among

LEMMA BookSends ==
    ASSUME BookGood, NEW q, page' = Folio!Ask(page, q), UNCHANGED srv, BookAsked({q}, srv)
    PROVE  BookGood'
<1>1. BookState(page') /\ page'.asked = page.asked \cup {q}
  BY BookAsk DEF BookGood
<1> QED
  BY <1>1, BookAlone

LEMMA BookAnswers ==
    ASSUME BookGood, NEW q, BookState(page'), page'.asked = page.asked \ {q}, UNCHANGED srv
    PROVE  BookGood'
<1>1. BookAsked({}, srv)
  BY DEF BookAsked
<1> QED
  BY <1>1, BookAlone

\* A list that comes, and the requests that change the server.
LEMMA ListAnswersKeeps == ASSUME BookGood, NEW q, Folio!ListAnswers(q) PROVE BookGood'
<1>1. q \in page.asked /\ q.op = "list" /\ UNCHANGED srv
  BY DEF Folio!ListAnswers, Folio!Waiting, Folio!To
<1>2. Distinct(q.list) /\ Distinct(srv) /\ BookState(page)
  BY <1>1 DEF BookGood, BookAsked
<1>3. BookState(Folio!Answered(q)) /\ Folio!Answered(q).asked = page.asked \ {q}
  BY <1>2, BookAnswered
<1>4. page' = Folio!Answered(q) \/ \E list \in {q.list, srv} : page' = Folio!FallBack(Folio!Answered(q), list)
  BY DEF Folio!ListAnswers, Folio!To
<1>5. BookState(page') /\ page'.asked = page.asked \ {q}
  BY <1>2, <1>3, <1>4, BookFallBack
<1> QED
  BY <1>1, <1>5, BookAnswers

LEMMA CreateKeeps == ASSUME BookGood, NEW q, Folio!CreateAnswers(q) PROVE BookGood'
<1> DEFINE p == Folio!Answered(q)
<1>1. q \in page.asked /\ q.op = "create"
  BY DEF Folio!CreateAnswers, Folio!Waiting
<1>2. q = [op |-> "create", id |-> q.id] /\ q.id \in Ids /\ ~Among(srv, q.id) /\ Distinct(srv) /\ BookState(page)
  BY <1>1 DEF BookGood, BookAsked
<1>3. BookState(p) /\ p.asked = page.asked \ {q}
  BY <1>2, BookAnswered
<1> HIDE DEF p
<1>4. ASSUME page' = p, UNCHANGED srv PROVE BookGood'
  BY <1>3, <1>4, BookAnswers
<1>5. ASSUME srv' = Append(srv, q.id),
             \/ page' = Folio!Ask(Folio!Refresh(Folio!AskHistory([p EXCEPT !.pid = q.id, !.stored = q.id, !.data = None])),
                                  [op |-> "list", list |-> srv'])
             \/ page' = p
      PROVE  BookGood'
  <2> DEFINE r == [p EXCEPT !.pid = q.id, !.stored = q.id, !.data = None]
             ask == [op |-> "list", list |-> srv']
  <2>1. Distinct(srv') /\ \A x : Among(srv', x) => Among(srv, x) \/ x = q.id
    BY <1>2, <1>5, ListLonger
  <2>2. /\ DOMAIN r = DOMAIN p /\ r.name = p.name /\ r.pid = q.id /\ r.stored = q.id /\ r.portfolios = p.portfolios
        /\ r.asked = p.asked
    BY <1>3 DEF BookState, BookChosen, BookShape
  <2> HIDE DEF r
  <2>3. BookChosen(r)
    BY <1>2, <1>3, <2>2 DEF BookState, BookChosen, BookShape
  <2>4. BookState(Folio!AskHistory(r)) /\ Folio!AskHistory(r).asked = page.asked \ {q}
    BY <1>3, <2>2, <2>3, BookAskHistory
  <2>5. BookState(Folio!Refresh(Folio!AskHistory(r))) /\ Folio!Refresh(Folio!AskHistory(r)).asked = page.asked \ {q}
    BY <2>4, BookRefresh
  <2>6. page' = Folio!Ask(Folio!Refresh(Folio!AskHistory(r)), ask) \/ page' = p
    BY <1>5 DEF r
  <2>7. BookState(page') /\ page'.asked \subseteq (page.asked \ {q}) \cup {ask}
    BY <1>3, <2>5, <2>6, BookAsk
  <2>8. BookAsked(page'.asked, srv')
    <3>1. ASSUME NEW x \in page'.asked, x # ask
          PROVE  /\ x.op = "list" => Distinct(x.list)
                 /\ x.op = "create" => x = [op |-> "create", id |-> x.id] /\ x.id \in Ids /\ ~Among(srv', x.id)
      <4>1. x \in page.asked /\ x # q
        BY <2>7, <3>1
      <4>2. /\ x.op = "list" => Distinct(x.list)
            /\ x.op = "create" => x = [op |-> "create", id |-> x.id] /\ x.id \in Ids /\ ~Among(srv, x.id)
        BY <4>1 DEF BookGood, BookAsked
      <4>3. x.op = "create" => x.id # q.id
        BY <1>2, <4>1, <4>2
      <4> QED
        BY <2>1, <4>2, <4>3
    <3>2. ask.op = "list" /\ ask.list = srv'
      OBVIOUS
    <3> QED
      BY <2>1, <3>1, <3>2 DEF BookAsked
  <2> QED
    BY <2>1, <2>7, <2>8 DEF BookGood
<1> QED
  BY <1>4, <1>5 DEF Folio!CreateAnswers, Folio!To, p

LEMMA DeleteKeeps == ASSUME BookGood, NEW q, Folio!DeleteAnswers(q) PROVE BookGood'
<1> DEFINE p == Folio!Answered(q)
           ask == [op |-> "list", list |-> srv']
<1>1. Distinct(srv) /\ BookState(page)
  BY DEF BookGood
<1>2. BookState(p) /\ p.asked = page.asked \ {q}
  BY <1>1, BookAnswered
<1> HIDE DEF p
<1>3. ASSUME page' = p, UNCHANGED srv PROVE BookGood'
  BY <1>2, <1>3, BookAnswers
<1>4. ASSUME NEW i \in DOMAIN srv, srv' = Folio!RemoveAt(srv, i),
             page' = Folio!Ask(IF q.chosen THEN Folio!Choose(p, None) ELSE p, ask) \/ page' = p
      PROVE  BookGood'
  <2> DEFINE r == IF q.chosen THEN Folio!Choose(p, None) ELSE p
  <2>1. i \in 1..Len(srv)
    BY <1>1 DEF Distinct
  <2>2. Distinct(srv') /\ \A x : Among(srv', x) => Among(srv, x)
    BY <1>1, <1>4, <2>1, ListShorter
  <2>3. BookState(Folio!Choose(p, None)) /\ Folio!Choose(p, None).asked = page.asked \ {q}
    BY <1>2, BookChoose
  <2>4. BookState(r) /\ r.asked = page.asked \ {q}
    BY <1>2, <2>3
  <2> HIDE DEF r
  <2>5. page' = Folio!Ask(r, ask) \/ page' = p
    BY <1>4 DEF r
  <2>6. BookState(page') /\ page'.asked \subseteq (page.asked \ {q}) \cup {ask}
    BY <1>2, <2>4, <2>5, BookAsk
  <2>7. BookAsked(page'.asked, srv')
    <3>1. ASSUME NEW x \in page'.asked, x # ask
          PROVE  /\ x.op = "list" => Distinct(x.list)
                 /\ x.op = "create" => x = [op |-> "create", id |-> x.id] /\ x.id \in Ids /\ ~Among(srv', x.id)
      <4>1. /\ x.op = "list" => Distinct(x.list)
            /\ x.op = "create" => x = [op |-> "create", id |-> x.id] /\ x.id \in Ids /\ ~Among(srv, x.id)
        BY <2>6, <3>1 DEF BookGood, BookAsked
      <4> QED
        BY <2>2, <4>1
    <3>2. ask.op = "list" /\ ask.list = srv'
      OBVIOUS
    <3> QED
      BY <2>2, <3>1, <3>2 DEF BookAsked
  <2> QED
    BY <2>2, <2>6, <2>7 DEF BookGood
<1> QED
  BY <1>3, <1>4 DEF Folio!DeleteAnswers, Folio!To, p

LEMMA PositionsKeep == ASSUME BookGood, NEW q, Folio!PositionsSent(q) PROVE BookGood'
<1> DEFINE p == Folio!Answered(q)
           ask == [op |-> "list", list |-> srv]
           r == Folio!ReloadAll(p)
<1>1. Distinct(srv) /\ BookState(page)
  BY DEF BookGood
<1>2. BookState(p) /\ p.asked = page.asked \ {q}
  BY <1>1, BookAnswered
<1>3. r = Folio!Ask(Folio!Refresh(Folio!AskHistory(p)), ask)
  BY DEF Folio!ReloadAll, Folio!ReloadPortfolios
<1> HIDE DEF p, r
<1>4. BookState(Folio!AskHistory(p)) /\ Folio!AskHistory(p).asked = page.asked \ {q}
  BY <1>2, BookAskHistory DEF BookState
<1>5. BookState(Folio!Refresh(Folio!AskHistory(p))) /\ Folio!Refresh(Folio!AskHistory(p)).asked = page.asked \ {q}
  BY <1>4, BookRefresh
<1>6. BookState(r) /\ r.asked = (page.asked \ {q}) \cup {ask}
  BY <1>3, <1>5, BookAsk
<1>7. BookState([r EXCEPT !.csv = None]) /\ [r EXCEPT !.csv = None].asked = r.asked
  <2>1. DOMAIN [r EXCEPT !.csv = None] = DOMAIN r
    OBVIOUS
  <2>2. \A f \in {"name", "pid", "stored", "portfolios", "history", "wanted", "asked"} : [r EXCEPT !.csv = None][f] = r[f]
    BY <1>6 DEF BookState, BookChosen, BookShape
  <2> QED
    BY <1>6, <2>1, <2>2, BookOther
<1>8. UNCHANGED srv /\ page' \in {p, r, [r EXCEPT !.csv = None]}
  BY DEF Folio!PositionsSent, Folio!To, p, r
<1>9. BookState(page') /\ page'.asked \subseteq page.asked \cup {ask}
  BY <1>2, <1>6, <1>7, <1>8
<1>10. BookAsked({ask}, srv)
  BY <1>1 DEF BookAsked
<1> QED
  BY <1>8, <1>9, <1>10, BookAlone

LEMMA BookKeeps == BookGood /\ Folio!BookNext => BookGood'
<1> SUFFICES ASSUME BookGood, Folio!BookNext PROVE BookGood'
  OBVIOUS
<1>0. BookState(page) /\ Distinct(srv) /\ BookAsked(page.asked, srv)
  BY DEF BookGood
<1>1. ASSUME NEW q, q.op \notin {"list", "create"}, page' = Folio!Ask(page, q), UNCHANGED srv PROVE BookGood'
  <2>1. BookAsked({q}, srv)
    BY <1>1 DEF BookAsked
  <2> QED
    BY <1>1, <2>1, BookSends
<1>2. ASSUME NEW r, DOMAIN r = DOMAIN page,
             \A f \in {"name", "pid", "stored", "portfolios", "history", "wanted"} : r[f] = page[f], r.asked = page.asked,
             page' = r, UNCHANGED srv
      PROVE  BookGood'
  <2>1. BookState(page')
    BY <1>0, <1>2, BookOther
  <2>2. page'.asked \subseteq page.asked \cup {}
    BY <1>2
  <2>3. BookAsked({}, srv)
    BY DEF BookAsked
  <2> QED
    BY <1>2, <2>1, <2>2, <2>3, BookAlone
<1>3. ASSUME NEW r, BookState(r), r.asked = page.asked, page' = r, UNCHANGED srv PROVE BookGood'
  <2>1. BookAsked({}, srv) /\ page'.asked \subseteq page.asked \cup {}
    BY <1>3 DEF BookAsked
  <2> QED
    BY <1>3, <2>1, BookAlone
<1>4. ASSUME NEW id \in Ids, Folio!Pick(id) PROVE BookGood'
  <2>1. page' = Folio!Choose(page, id) /\ UNCHANGED srv
    BY <1>4 DEF Folio!Pick, Folio!To
  <2> QED
    BY <1>0, <1>3, <2>1, BookChoose
<1>5. ASSUME NEW id \in Ids, Folio!CreatePortfolio(id) PROVE BookGood'
  <2> DEFINE q == [op |-> "create", id |-> id]
  <2>1. page' = Folio!Ask(page, q) /\ UNCHANGED srv /\ id \notin Folio!Range(srv)
    BY <1>5 DEF Folio!CreatePortfolio, Folio!To
  <2>2. ~Among(srv, id)
    BY <1>0, <2>1, ListRange
  <2>3. BookAsked({q}, srv)
    BY <2>2 DEF BookAsked
  <2> QED
    BY <2>1, <2>3, BookSends
<1>6. ASSUME NEW id \in Ids, Folio!DeletePortfolio(id) PROVE BookGood'
  <2> DEFINE q == [op |-> "delete", id |-> id, chosen |-> page.pid = id]
  <2>1. page' = Folio!Ask(page, q) /\ UNCHANGED srv /\ q.op \notin {"list", "create"}
    BY <1>6 DEF Folio!DeletePortfolio, Folio!To
  <2> QED
    BY <1>1, <2>1
<1>7. CASE Folio!Add \/ Folio!Close \/ Folio!ConfirmImport
  <2>1. UNCHANGED srv /\ \E op \in {"add", "close", "import"} : page' = Folio!Ask(page, [op |-> op, pid |-> page.pid])
    BY <1>7 DEF Folio!Add, Folio!Close, Folio!ConfirmImport, Folio!To
  <2>2. PICK op \in {"add", "close", "import"} : page' = Folio!Ask(page, [op |-> op, pid |-> page.pid])
    BY <2>1
  <2> QED
    BY <1>1, <2>1, <2>2
<1>8. ASSUME NEW f \in Files, Folio!ChooseFile(f) PROVE BookGood'
  <2>1. page' = Folio!Ask(page, [op |-> "read", file |-> f]) /\ UNCHANGED srv
    BY <1>8 DEF Folio!ChooseFile, Folio!To
  <2> QED
    BY <1>1, <2>1
<1>9. CASE Folio!CancelImport
  <2>1. page' = [page EXCEPT !.csv = None] /\ UNCHANGED srv
    BY <1>9 DEF Folio!CancelImport, Folio!To
  <2> QED
    BY <1>0, <1>2, <2>1 DEF BookState, BookChosen, BookShape
<1>10. CASE Folio!Tick
  <2>1. page' = Folio!Refresh(page) /\ UNCHANGED srv
    BY <1>10 DEF Folio!Tick, Folio!To
  <2> QED
    BY <1>0, <1>3, <2>1, BookRefresh
<1>11. CASE Folio!SummaryAnswers
  <2>1. UNCHANGED srv /\ \/ page' = [page EXCEPT !.data = Folio!Meant(page.poll.pid), !.poll = None]
                         \/ page' = [page EXCEPT !.poll = None]
    BY <1>11 DEF Folio!SummaryAnswers, Folio!To
  <2>2. CASE page' = [page EXCEPT !.data = Folio!Meant(page.poll.pid), !.poll = None]
    BY <1>0, <1>2, <2>1, <2>2 DEF BookState, BookChosen, BookShape
  <2>3. CASE page' = [page EXCEPT !.poll = None]
    BY <1>0, <1>2, <2>1, <2>3 DEF BookState, BookChosen, BookShape
  <2> QED
    BY <2>1, <2>2, <2>3
<1>12. CASE Folio!HistoryAnswers
  <2>1. UNCHANGED srv /\ page.wanted # None /\ \E h \in {page.wanted, None} : page' = [page EXCEPT !.history = h, !.wanted = None]
    BY <1>12 DEF Folio!HistoryAnswers, Folio!To
  <2>2. PICK h \in {page.wanted, None} : page' = [page EXCEPT !.history = h, !.wanted = None]
    BY <2>1
  <2>3. /\ DOMAIN page' = DOMAIN page /\ page'.name = page.name /\ page'.pid = page.pid /\ page'.stored = page.stored
        /\ page'.portfolios = page.portfolios /\ page'.history = h /\ page'.wanted = None /\ page'.asked = page.asked
    BY <1>0, <2>2 DEF BookState, BookChosen, BookShape
  <2>4. page.wanted.pid = page.pid
    BY <1>0, <2>1 DEF BookState
  <2>5. BookState(page')
    BY <1>0, <2>3, <2>4 DEF BookState, BookChosen, BookShape
  <2> QED
    BY <1>3, <2>1, <2>3, <2>5
<1>13. ASSUME NEW q \in page.asked, Folio!FileRead(q) PROVE BookGood'
  <2> DEFINE p == Folio!Answered(q)
             r == [p EXCEPT !.csv = [rows |-> q.file]]
  <2>1. page' = r /\ UNCHANGED srv
    BY <1>13 DEF Folio!FileRead, Folio!To
  <2>2. BookState(p) /\ p.asked = page.asked \ {q}
    BY <1>0, BookAnswered
  <2> HIDE DEF p
  <2>3. DOMAIN r = DOMAIN p
    OBVIOUS
  <2>4. \A f \in {"name", "pid", "stored", "portfolios", "history", "wanted", "asked"} : r[f] = p[f]
    BY <2>2 DEF BookState, BookChosen, BookShape
  <2>5. BookState(r) /\ r.asked = p.asked
    BY <2>2, <2>3, <2>4, BookOther
  <2> QED
    BY <2>1, <2>2, <2>5, BookAnswers
<1>14. ASSUME NEW q \in page.asked,
              \/ Folio!ListAnswers(q) \/ Folio!CreateAnswers(q) \/ Folio!DeleteAnswers(q) \/ Folio!FileRead(q)
              \/ Folio!PositionsSent(q)
       PROVE  BookGood'
  BY <1>13, <1>14, ListAnswersKeeps, CreateKeeps, DeleteKeeps, PositionsKeep
<1> QED
  BY <1>4, <1>5, <1>6, <1>7, <1>8, <1>9, <1>10, <1>11, <1>12, <1>14 DEF Folio!BookNext

\* The stress test: the request that counts is of the benchmark and the holdings
\* on the screen.
StressShape(p) ==
    /\ DOMAIN p = {"name", "open", "book", "bench", "busy", "error", "latest", "series", "asked"}
    /\ p.name = "stress"
StressState(p) ==
    /\ StressShape(p) /\ p.latest \in Nat
    /\ p.open \in BOOLEAN /\ p.busy \in BOOLEAN /\ p.error \in BOOLEAN
    /\ \A q \in p.asked : q.n \in Nat /\ q.n <= p.latest
StressGood(p) ==
    /\ StressState(p)
    /\ p.open /\ p.book # {} =>
          /\ \A q \in p.asked : q.n = p.latest => q.bench = p.bench /\ q.book = p.book
          /\ ~p.busy /\ ~p.error /\ p.series # None => p.series = [bench |-> p.bench, book |-> p.book]

LEMMA StressLoads == ASSUME NEW p, StressState(p), p.open, p.book # {} PROVE StressGood(Folio!Load(p))
<1> DEFINE r == Folio!Load(p)
           ask == [n |-> p.latest + 1, bench |-> p.bench, book |-> p.book]
<1>1. /\ DOMAIN r = DOMAIN p /\ r.name = p.name /\ r.open = p.open /\ r.book = p.book /\ r.bench = p.bench /\ r.busy = TRUE
      /\ r.error = FALSE /\ r.latest = p.latest + 1 /\ r.asked = p.asked \cup {ask}
  BY DEF Folio!Load, StressState, StressShape
<1>2. ask.n = p.latest + 1 /\ ask.bench = p.bench /\ ask.book = p.book
  OBVIOUS
<1> HIDE DEF r, ask
<1>3. StressState(r)
  <2>1. StressShape(r) /\ r.open \in BOOLEAN /\ r.busy \in BOOLEAN /\ r.error \in BOOLEAN
    BY <1>1 DEF StressState, StressShape
  <2>2. p.latest \in Nat /\ \A q \in p.asked : q.n \in Nat /\ q.n <= p.latest
    BY DEF StressState
  <2>3. r.latest \in Nat /\ \A q \in r.asked : q.n \in Nat /\ q.n <= r.latest
    BY <1>1, <1>2, <2>2
  <2> QED
    BY <2>1, <2>3 DEF StressState
<1>4. \A q \in r.asked : q.n = r.latest => q = ask
  BY <1>1 DEF StressState
<1> QED
  BY <1>1, <1>2, <1>3, <1>4 DEF StressGood, r

LEMMA StressRests == ASSUME NEW p, StressState(p), ~p.open \/ p.book = {} PROVE StressGood(Folio!Load(p))
BY DEF Folio!Load, StressGood, StressState

LEMMA StressKeeps == StressGood(page) /\ Folio!StressNext => StressGood(page') /\ UNCHANGED srv
<1> SUFFICES ASSUME StressGood(page), Folio!StressNext PROVE StressGood(page') /\ UNCHANGED srv
  OBVIOUS
<1>0. StressState(page) /\ StressShape(page)
  BY DEF StressGood, StressState
<1>1. ASSUME NEW p, StressState(p), page' = Folio!Load(p), UNCHANGED srv PROVE StressGood(page') /\ UNCHANGED srv
  BY <1>1, StressLoads, StressRests DEF StressState
<1>2. CASE Folio!OpenStress
  <2> DEFINE p == [page EXCEPT !.open = TRUE]
  <2>1. StressState(p)
    BY <1>0 DEF StressState, StressShape
  <2> QED
    BY <1>1, <1>2, <2>1 DEF Folio!OpenStress, Folio!To
<1>3. CASE Folio!CloseStress
  <2>1. page' = [page EXCEPT !.open = FALSE] /\ UNCHANGED srv
    BY <1>3 DEF Folio!CloseStress, Folio!To
  <2>2. StressState(page') /\ ~page'.open
    BY <1>0, <2>1 DEF StressState, StressShape
  <2> QED
    BY <2>1, <2>2 DEF StressGood
<1>4. CASE Folio!RetryLoad
  BY <1>0, <1>1, <1>4 DEF Folio!RetryLoad, Folio!To
<1>5. ASSUME NEW b \in Benchmarks, Folio!SetBench(b) PROVE StressGood(page') /\ UNCHANGED srv
  <2> DEFINE p == [page EXCEPT !.bench = b]
  <2>1. StressState(p)
    BY <1>0 DEF StressState, StressShape
  <2> QED
    BY <1>1, <1>5, <2>1 DEF Folio!SetBench, Folio!To
<1>6. ASSUME NEW book \in Books, Folio!HoldingsChange(book) PROVE StressGood(page') /\ UNCHANGED srv
  <2> DEFINE p == [page EXCEPT !.book = book]
  <2>1. StressState(p)
    BY <1>0 DEF StressState, StressShape
  <2> QED
    BY <1>1, <1>6, <2>1 DEF Folio!HoldingsChange, Folio!To
<1>7. ASSUME NEW q \in page.asked, Folio!SeriesAnswer(q) PROVE StressGood(page') /\ UNCHANGED srv
  <2> DEFINE p == Folio!Answered(q)
  <2>1. /\ DOMAIN p = DOMAIN page /\ p.name = page.name /\ p.open = page.open /\ p.book = page.book /\ p.bench = page.bench
        /\ p.busy = page.busy /\ p.error = page.error /\ p.latest = page.latest /\ p.series = page.series
        /\ p.asked = page.asked \ {q}
    BY <1>0 DEF Folio!Answered, StressShape
  <2> HIDE DEF p
  <2>2. StressGood(p)
    BY <2>1 DEF StressGood, StressState, StressShape
  <2>3. CASE page' = p /\ UNCHANGED srv
    BY <2>2, <2>3
  <2>4. CASE q.n = page.latest /\ page' = [p EXCEPT !.series = [bench |-> q.bench, book |-> q.book], !.busy = FALSE] /\ UNCHANGED srv
    <3>1. /\ DOMAIN page' = DOMAIN page /\ page'.name = page.name /\ page'.open = page.open /\ page'.book = page.book
          /\ page'.bench = page.bench /\ page'.error = page.error /\ page'.latest = page.latest
          /\ page'.asked = page.asked \ {q} /\ page'.busy = FALSE /\ page'.series = [bench |-> q.bench, book |-> q.book]
      BY <1>0, <2>1, <2>4 DEF StressShape
    <3>2. StressState(page')
      BY <1>0, <3>1 DEF StressState, StressShape
    <3>3. page.open /\ page.book # {} => q.bench = page.bench /\ q.book = page.book
      BY <2>4 DEF StressGood
    <3>4. page.open /\ page.book # {} => \A x \in page'.asked : x.n = page.latest => x.bench = page.bench /\ x.book = page.book
      BY <3>1 DEF StressGood
    <3> QED
      BY <2>4, <3>1, <3>2, <3>3, <3>4 DEF StressGood
  <2>5. CASE page' = [p EXCEPT !.series = None, !.error = TRUE, !.busy = FALSE] /\ UNCHANGED srv
    <3>1. /\ DOMAIN page' = DOMAIN page /\ page'.name = page.name /\ page'.open = page.open /\ page'.book = page.book
          /\ page'.bench = page.bench /\ page'.error = TRUE /\ page'.latest = page.latest
          /\ page'.asked = page.asked \ {q} /\ page'.busy = FALSE
      BY <1>0, <2>1, <2>5 DEF StressShape
    <3>2. StressState(page')
      BY <1>0, <3>1 DEF StressState, StressShape
    <3>3. page.open /\ page.book # {} => \A x \in page'.asked : x.n = page.latest => x.bench = page.bench /\ x.book = page.book
      BY <3>1 DEF StressGood
    <3> QED
      BY <2>5, <3>1, <3>2, <3>3 DEF StressGood
  <2> QED
    BY <1>7, <2>3, <2>4, <2>5 DEF Folio!SeriesAnswer, Folio!To, p
<1> QED
  BY <1>2, <1>3, <1>4, <1>5, <1>6, <1>7 DEF Folio!StressNext

FolioGood == BookGood \/ StressGood(page)

LEMMA FolioStarts == Folio!Init => FolioGood
<1> SUFFICES ASSUME Folio!Init PROVE FolioGood
  OBVIOUS
<1>1. srv = <<FirstId>>
  BY DEF Folio!Init
<1>2. Distinct(srv)
  BY <1>1, FolioAssumption DEF Distinct
<1>3. ASSUME NEW stored \in Ids \cup {None}, page = Folio!BookPage(stored) PROVE BookGood
  <2> DEFINE ask == [op |-> "list", list |-> srv]
             p == [name |-> "book", pid |-> stored, stored |-> stored, portfolios |-> <<>>, data |-> None, poll |-> None,
                   history |-> None, wanted |-> None, csv |-> None, asked |-> {ask}]
  <2>1. Distinct(<<>>)
    BY DEF Distinct
  <2>2. BookChosen(p) /\ p.asked = {ask}
    BY <2>1 DEF BookChosen, BookShape
  <2>3. page = Folio!Refresh(Folio!AskHistory(p))
    BY <1>3 DEF Folio!BookPage
  <2>4. ask.op = "list" /\ ask.list = srv
    OBVIOUS
  <2> HIDE DEF p, ask
  <2>5. BookState(page) /\ page.asked = {ask}
    BY <2>2, <2>3, BookAskHistory, BookRefresh
  <2>6. BookAsked(page.asked, srv)
    BY <1>2, <2>4, <2>5 DEF BookAsked
  <2> QED
    BY <1>2, <2>5, <2>6 DEF BookGood
<1>4. ASSUME NEW book \in Books, page = Folio!StressPage(book) PROVE StressGood(page)
  <2>1. /\ DOMAIN page = {"name", "open", "book", "bench", "busy", "error", "latest", "series", "asked"}
        /\ page.name = "stress" /\ page.open = FALSE /\ page.busy = FALSE /\ page.error = FALSE /\ page.latest = 0 /\ page.asked = {}
    BY <1>4 DEF Folio!StressPage
  <2>2. StressShape(page) /\ page.open \in BOOLEAN /\ page.busy \in BOOLEAN /\ page.error \in BOOLEAN
    BY <2>1 DEF StressShape
  <2>3. page.latest \in Nat /\ \A q \in page.asked : q.n \in Nat /\ q.n <= page.latest
    BY <2>1
  <2> QED
    BY <2>1, <2>2, <2>3 DEF StressGood, StressState
<1> QED
  BY <1>3, <1>4 DEF Folio!Init, FolioGood

LEMMA FolioKeeps == FolioGood /\ Folio!Next => FolioGood'
<1>1. BookGood => ~Folio!Open("stress")
  BY DEF BookGood, BookState, BookChosen, BookShape, Folio!Open
<1>2. StressGood(page) => ~Folio!Open("book")
  BY DEF StressGood, StressState, StressShape, Folio!Open
<1>3. Folio!StressNext => Folio!Open("stress")
  BY DEF Folio!StressNext, Folio!OpenStress, Folio!CloseStress, Folio!RetryLoad, Folio!SetBench, Folio!HoldingsChange
<1>4. Folio!BookNext => Folio!Open("book")
  BY DEF Folio!BookNext, Folio!Pick, Folio!CreatePortfolio, Folio!DeletePortfolio, Folio!Add, Folio!Close, Folio!ChooseFile,
         Folio!ConfirmImport, Folio!CancelImport, Folio!Tick, Folio!SummaryAnswers, Folio!HistoryAnswers
<1> QED
  BY <1>1, <1>2, <1>3, <1>4, BookKeeps, StressKeeps DEF FolioGood, Folio!Next

\* One of the portfolios at most is marked as the chosen one.
LEMMA OneIsChosen == ASSUME BookState(page) PROVE Folio!Cardinality(Folio!BookView.current) <= 1
<1> DEFINE current == {i \in DOMAIN page.portfolios : page.portfolios[i] = page.pid}
<1>1. Folio!BookView.current = current
  BY DEF Folio!BookView
<1>2. Folio!Cardinality(current) = Cardinality(current)
  BY DEF Folio!Cardinality, Cardinality
<1>3. \A i \in current : \A j \in current : i = j
  BY DEF BookState, BookChosen, Distinct
<1> HIDE DEF current
<1>4. CASE current = {}
  BY <1>1, <1>2, <1>4, FS_EmptySet
<1>5. ASSUME NEW i \in current PROVE Cardinality(current) = 1
  <2>1. current = {i}
    BY <1>3, <1>5
  <2> QED
    BY <2>1, FS_Singleton
<1> QED
  BY <1>1, <1>2, <1>4, <1>5

LEMMA FolioHolds ==
    FolioGood => OpenIn(FolioNames) /\ Folio!HistoryOfChosen /\ Folio!ChosenIsRemembered /\ Folio!StressOfBook
<1>1. ASSUME BookGood PROVE OpenIn(FolioNames) /\ Folio!HistoryOfChosen /\ Folio!ChosenIsRemembered /\ Folio!StressOfBook
  <2>1. Folio!Cardinality(Folio!BookView.current) <= 1
    BY <1>1, OneIsChosen DEF BookGood
  <2> QED
    BY <1>1, <2>1 DEF BookGood, BookState, BookChosen, BookShape, OpenIn, FolioNames, Folio!HistoryOfChosen, Folio!ChosenIsRemembered,
       Folio!StressOfBook, Folio!Open
<1>2. ASSUME StressGood(page)
      PROVE  OpenIn(FolioNames) /\ Folio!HistoryOfChosen /\ Folio!ChosenIsRemembered /\ Folio!StressOfBook
  BY <1>2 DEF StressGood, StressState, StressShape, OpenIn, FolioNames, Folio!HistoryOfChosen, Folio!ChosenIsRemembered,
     Folio!StressOfBook, Folio!StressView, Folio!Hidden, Folio!Open
<1> QED
  BY <1>1, <1>2 DEF FolioGood

-----------------------------------------------------------------------------
(* The workspace: the arrangement and the weights of a row stay open, and   *)
(* what is on its way to the server is a save or a deletion.                *)

ArrangedGood(p) == Named(p, {"desk", "grid"})
SavingGood(p) ==
    /\ DOMAIN p = {"name", "content", "desk", "lists", "dirty", "saving", "saved", "err", "asked"} /\ p.name = "saving"
    /\ \A q \in p.asked : DOMAIN q = {"what", "desk", "list", "done"} /\ q.what \in {"save", "delete"}
DeskGood == ArrangedGood(page) \/ SavingGood(page)

LEMMA DeskStarts == Desk!Init => DeskGood
BY DEF Desk!Init, Desk!DeskPage, Desk!GridPage, Desk!SavingPage, DeskGood, ArrangedGood, SavingGood, Named

LEMMA ArrangedKeeps == ASSUME ArrangedGood(page), Desk!Next PROVE ArrangedGood(page')
<1>0. "name" \in DOMAIN page /\ page.name \in {"desk", "grid"}
  BY DEF ArrangedGood, Named
<1>1. ASSUME NEW ws, Desk!Update(ws) PROVE ArrangedGood(page')
  BY <1>0, <1>1 DEF Desk!Update, Desk!To, ArrangedGood, Named
<1>2. CASE Desk!SetTicker \/ Desk!SetGroupTicker \/ Desk!SetLink \/ Desk!Rearrange
  <2>1. \E ws : Desk!Update(ws)
    BY <1>2, Zenon DEF Desk!SetTicker, Desk!SetGroupTicker, Desk!SetLink, Desk!Rearrange, Desk!OnPane
  <2> QED
    BY <1>1, <2>1
<1>3. CASE Desk!Escape
  BY <1>0, <1>3 DEF Desk!Escape, Desk!To, ArrangedGood, Named
<1>4. ASSUME NEW id, Desk!ClosePane(id) \/ Desk!ToggleMax(id) PROVE ArrangedGood(page')
  <2>1. \E ws, m : page' = [page EXCEPT !.ws = ws, !.max = m] \/ page' = [page EXCEPT !.max = m]
    BY <1>4, Zenon DEF Desk!ClosePane, Desk!ToggleMax, Desk!To
  <2> QED
    BY <1>0, <2>1 DEF ArrangedGood, Named
<1>5. CASE Desk!Drag \/ Desk!SplitGrows \/ Desk!SplitShrinks \/ Desk!SplitSwaps \/ Desk!EvenOut
  <2>1. \E split : page' = [page EXCEPT !.split = split]
    BY <1>5, Zenon DEF Desk!Drag, Desk!SplitGrows, Desk!SplitShrinks, Desk!SplitSwaps, Desk!EvenOut, Desk!To
  <2> QED
    BY <1>0, <2>1 DEF ArrangedGood, Named
<1>6. /\ ~Desk!Restore /\ ~Desk!EditDesk /\ ~Desk!DeskRequests
      /\ \A d \in Desks : ~Desk!SaveCurrent(d) /\ ~Desk!DeleteLayout(d) /\ ~Desk!OpenLayout(d)
  BY <1>0, Zenon DEF Desk!Restore, Desk!EditDesk, Desk!DeskRequests, Desk!SaveCurrent, Desk!DeleteLayout, Desk!OpenLayout, Desk!Ready, Desk!Open
<1> QED
  BY <1>2, <1>3, <1>4, <1>5, <1>6 DEF Desk!Next

\* What an arrangement that is not stored takes to be so.
UnsavedLasts ==
    page.dirty /\ ~page'.dirty => (\E q \in page.asked : q.done /\ q.what = "save") \/ page.asked = page'.asked

LEMMA SavingAsks ==
    ASSUME NEW p, SavingGood(p), p.dirty = page.dirty, NEW what \in {"save", "delete"}, NEW d, NEW list, page' = Desk!Ask(p, what, d, list)
    PROVE  SavingGood(page') /\ UnsavedLasts
<1> DEFINE ask == [what |-> what, desk |-> d, list |-> list, done |-> FALSE]
<1>1. DOMAIN ask = {"what", "desk", "list", "done"} /\ ask.what = what
  OBVIOUS
<1>2. page' = [p EXCEPT !.lists = list, !.asked = @ \cup {ask}]
  BY DEF Desk!Ask
<1> HIDE DEF ask
<1>3. DOMAIN page' = DOMAIN p /\ page'.name = p.name /\ page'.dirty = page.dirty /\ page'.asked = p.asked \cup {ask}
  BY <1>2 DEF SavingGood
<1> QED
  BY <1>1, <1>3 DEF SavingGood, UnsavedLasts

LEMMA SavingKeeps == ASSUME SavingGood(page), Desk!Next PROVE SavingGood(page') /\ UnsavedLasts
<1>0. /\ DOMAIN page = {"name", "content", "desk", "lists", "dirty", "saving", "saved", "err", "asked"} /\ page.name = "saving"
      /\ \A q \in page.asked : DOMAIN q = {"what", "desk", "list", "done"} /\ q.what \in {"save", "delete"}
  BY DEF SavingGood
<1>1. DOMAIN page' = DOMAIN page /\ page'.name = page.name /\ page'.asked = page.asked => SavingGood(page') /\ UnsavedLasts
  BY <1>0 DEF SavingGood, UnsavedLasts
<1>2. CASE Desk!Restore
  <2>1. page' = [page EXCEPT !.content = 1] \/ \E c, l, d : page' = [page EXCEPT !.lists = l, !.content = c, !.desk = d]
    BY <1>2, Zenon DEF Desk!Restore, Desk!To
  <2>2. DOMAIN page' = DOMAIN page /\ page'.name = page.name /\ page'.asked = page.asked
    BY <1>0, <2>1, Zenon
  <2> QED
    BY <1>1, <2>2
<1>3. CASE Desk!EditDesk
  <2>1. \E c : page' = [page EXCEPT !.content = c, !.dirty = TRUE]
    BY <1>3, Zenon DEF Desk!EditDesk, Desk!To
  <2>2. DOMAIN page' = DOMAIN page /\ page'.name = page.name /\ page'.asked = page.asked
    BY <1>0, <2>1
  <2> QED
    BY <1>1, <2>2
<1>4. ASSUME NEW d \in Desks, Desk!OpenLayout(d) PROVE SavingGood(page') /\ UnsavedLasts
  <2>1. \E c : page' = [page EXCEPT !.content = c, !.desk = d, !.dirty = FALSE]
    BY <1>4, Zenon DEF Desk!OpenLayout, Desk!To
  <2>2. DOMAIN page' = DOMAIN page /\ page'.name = page.name /\ page'.asked = page.asked
    BY <1>0, <2>1
  <2> QED
    BY <1>1, <2>2
<1>5. ASSUME NEW d \in Desks, Desk!SaveCurrent(d) PROVE SavingGood(page') /\ UnsavedLasts
  <2> DEFINE p == [page EXCEPT !.saving = TRUE, !.err = FALSE]
             list == [page.lists EXCEPT ![d] = page.content]
  <2>1. SavingGood(p) /\ p.dirty = page.dirty
    BY <1>0 DEF SavingGood
  <2>2. page' = Desk!Ask(p, "save", d, list)
    BY <1>5 DEF Desk!SaveCurrent, Desk!To
  <2> HIDE DEF p, list
  <2> QED
    BY <2>1, <2>2, SavingAsks
<1>6. ASSUME NEW d \in Desks, Desk!DeleteLayout(d) PROVE SavingGood(page') /\ UnsavedLasts
  <2> DEFINE list == [page.lists EXCEPT ![d] = 0]
  <2>1. page' = Desk!Ask(page, "delete", d, list)
    BY <1>6 DEF Desk!DeleteLayout, Desk!To
  <2> HIDE DEF list
  <2> QED
    BY <2>1, SavingAsks
<1>7. ASSUME NEW q \in page.asked, Desk!ListStored(q) PROVE SavingGood(page') /\ UnsavedLasts
  <2> DEFINE done == [q EXCEPT !.done = TRUE]
  <2>1. DOMAIN done = DOMAIN q /\ done.what = q.what
    BY <1>0
  <2>2. page' = [page EXCEPT !.asked = (@ \ {q}) \cup {done}]
    BY <1>7 DEF Desk!ListStored
  <2> HIDE DEF done
  <2>3. DOMAIN page' = DOMAIN page /\ page'.name = page.name /\ page'.dirty = page.dirty /\ page'.asked = (page.asked \ {q}) \cup {done}
    BY <1>0, <2>2
  <2> QED
    BY <1>0, <2>1, <2>3 DEF SavingGood, UnsavedLasts
<1>8. ASSUME NEW q \in page.asked, NEW ok \in BOOLEAN, ok => q.done, Desk!SaveAnswers(q, ok) PROVE SavingGood(page') /\ UnsavedLasts
  <2> DEFINE p == [page EXCEPT !.asked = @ \ {q}]
  <2>1. DOMAIN p = DOMAIN page /\ p.name = page.name /\ p.dirty = page.dirty /\ p.asked = page.asked \ {q}
    BY <1>0
  <2> HIDE DEF p
  <2>2. \E e : \/ page' = [p EXCEPT !.err = e]
               \/ ok /\ q.what # "delete" /\ page' = [p EXCEPT !.saving = FALSE, !.dirty = FALSE, !.saved = TRUE, !.desk = q.desk]
               \/ page' = [p EXCEPT !.saving = FALSE, !.err = e]
    BY <1>8, Zenon DEF Desk!SaveAnswers, Desk!To, p
  <2>3. /\ DOMAIN page' = DOMAIN page /\ page'.name = page.name /\ page'.asked = page.asked \ {q}
        /\ page'.dirty = page.dirty \/ (ok /\ q.what # "delete")
    BY <1>0, <2>1, <2>2
  <2>4. page'.dirty # page.dirty => q.done /\ q.what = "save"
    BY <1>0, <1>8, <2>3
  <2> QED
    BY <1>0, <2>3, <2>4 DEF SavingGood, UnsavedLasts
<1>9. CASE Desk!DeskRequests
  BY <1>7, <1>8, <1>9 DEF Desk!DeskRequests
<1>10. /\ ~Desk!SetTicker /\ ~Desk!SetGroupTicker /\ ~Desk!SetLink /\ ~Desk!Rearrange /\ ~Desk!Escape
       /\ \A id \in 1..MaxPanes : ~Desk!ClosePane(id) /\ ~Desk!ToggleMax(id)
       /\ ~Desk!Drag /\ ~Desk!SplitGrows /\ ~Desk!SplitShrinks /\ ~Desk!SplitSwaps /\ ~Desk!EvenOut
  BY <1>0 DEF Desk!SetTicker, Desk!SetGroupTicker, Desk!SetLink, Desk!Rearrange, Desk!Escape, Desk!ClosePane, Desk!ToggleMax,
     Desk!Drag, Desk!SplitGrows, Desk!SplitShrinks, Desk!SplitSwaps, Desk!EvenOut, Desk!Open
<1> QED
  BY <1>2, <1>3, <1>4, <1>5, <1>6, <1>9, <1>10 DEF Desk!Next

LEMMA DeskKeeps == DeskGood /\ Desk!Next => DeskGood'
BY ArrangedKeeps, SavingKeeps DEF DeskGood

LEMMA DeskHolds == DeskGood => OpenIn(DeskPages)
BY DEF DeskGood, ArrangedGood, SavingGood, Named, OpenIn, DeskPages

-----------------------------------------------------------------------------
(* All pages.                                                              *)

PagesGood ==
    \/ SignInGood \/ ListsGood
    \/ MapGroupGood \/ DeskGood \/ BoardGood \/ NoteGood(page, srv) \/ HookGood \/ TerminalGood \/ ResearchGood
    \/ AlertGood \/ FolioGood

LEMMA PagesStart == PagesInit => PagesGood
BY SignInStarts, ListsStart, MapGroupStarts, DeskStarts, BoardStarts, NoteStarts, HookStarts, TerminalStarts, ResearchStarts, AlertStarts,
   FolioStarts DEF PagesInit, PagesGood

LEMMA PagesStutter == PagesGood /\ UNCHANGED <<page, srv>> => PagesGood'
<1> SUFFICES ASSUME PagesGood, UNCHANGED <<page, srv>> PROVE PagesGood'
  OBVIOUS
<1>1. /\ SignInGood => SignInGood'
      /\ ListsGood => ListsGood'
      /\ DeskGood => DeskGood'
  BY DEF SignInGood, ListsGood, DeskGood
<1>2. /\ MapGroupGood => MapGroupGood'
      /\ BoardGood => BoardGood'
      /\ NoteGood(page, srv) => NoteGood(page', srv')
  BY DEF MapGroupGood, BoardGood
<1>3. /\ HookGood => HookGood'
      /\ TerminalGood => TerminalGood'
      /\ ResearchGood => ResearchGood'
  BY DEF HookGood, TerminalGood, ResearchGood
<1>4. /\ AlertGood => AlertGood'
      /\ FolioGood => FolioGood'
  BY DEF AlertGood, FolioGood, BookGood
<1> QED
  BY <1>1, <1>2, <1>3, <1>4 DEF PagesGood

\* The page that is open takes the step.
LEMMA PagesKeep == PagesGood /\ PagesNext => PagesGood'
<1> SUFFICES ASSUME PagesGood, PagesNext PROVE PagesGood'
  OBVIOUS
<1> USE DEF OpenIn, SignInNames, ListNames, MapPages, DeskPages, BoardPages, NotePages, HookPages, TerminalPages, ResearchNames, AlertNames,
        FolioNames
<1>1. CASE SignInGood
  <2>1. page.name \in SignInNames
    BY <1>1, SignInHolds
  <2> QED
    BY <1>1, <2>1, SignInKeeps DEF PagesNext, PagesGood
<1>2. CASE ListsGood
  <2>1. page.name \in ListNames
    BY <1>2, ListsHold
  <2> QED
    BY <1>2, <2>1, ListsKeep DEF PagesNext, PagesGood
<1>3. CASE MapGroupGood
  <2>1. page.name \in MapPages
    BY <1>3, MapGroupHolds
  <2> QED
    BY <1>3, <2>1, MapGroupKeeps DEF PagesNext, PagesGood
<1>4. CASE DeskGood
  <2>1. page.name \in DeskPages
    BY <1>4, DeskHolds
  <2> QED
    BY <1>4, <2>1, DeskKeeps DEF PagesNext, PagesGood
<1>5. CASE BoardGood
  <2>1. page.name \in BoardPages
    BY <1>5, BoardKept
  <2> QED
    BY <1>5, <2>1, BoardKeeps DEF PagesNext, PagesGood
<1>6. CASE NoteGood(page, srv)
  <2>1. page.name \in NotePages
    BY <1>6, NoteHolds
  <2> QED
    BY <1>6, <2>1, NoteKeeps DEF PagesNext, PagesGood
<1>7. CASE HookGood
  <2>1. page.name \in HookPages
    BY <1>7, HookHolds
  <2> QED
    BY <1>7, <2>1, HookKeeps DEF PagesNext, PagesGood
<1>8. CASE TerminalGood
  <2>1. page.name \in TerminalPages
    BY <1>8, TerminalHolds
  <2> QED
    BY <1>8, <2>1, TerminalKeeps DEF PagesNext, PagesGood
<1>9. CASE ResearchGood
  <2>1. page.name \in ResearchNames
    BY <1>9, ResearchHolds
  <2> QED
    BY <1>9, <2>1, ResearchKeeps DEF PagesNext, PagesGood
<1>10. CASE AlertGood
  <2>1. page.name \in AlertNames
    BY <1>10, AlertHolds
  <2> QED
    BY <1>10, <2>1, AlertKeeps DEF PagesNext, PagesGood
<1>11. CASE FolioGood
  <2>1. page.name \in FolioNames
    BY <1>11, FolioHolds
  <2> QED
    BY <1>11, <2>1, FolioKeeps DEF PagesNext, PagesGood
<1> QED
  BY <1>1, <1>2, <1>3, <1>4, <1>5, <1>6, <1>7, <1>8, <1>9, <1>10, <1>11 DEF PagesGood

\* What holds of one group holds of the sum: the others have other names.
LEMMA PagesHold == PagesGood => AccountsHold /\ ShownIsCurrent
<1> SUFFICES ASSUME PagesGood PROVE AccountsHold /\ ShownIsCurrent
  OBVIOUS
<1>1. CASE SignInGood
  BY <1>1, SignInHolds
     DEF AccountsHold, ShownIsCurrent, OpenIn, SignInNames, ListNames, MapPages, BoardPages, NotePages, HookPages, TerminalPages,
         ResearchNames, AlertNames, FolioNames
<1>2. CASE ListsGood
  BY <1>2, ListsHold
     DEF AccountsHold, ShownIsCurrent, OpenIn, SignInNames, ListNames, MapPages, BoardPages, NotePages, HookPages, TerminalPages,
         ResearchNames, AlertNames, FolioNames
<1>3. CASE MapGroupGood
  BY <1>3, MapGroupHolds
     DEF AccountsHold, ShownIsCurrent, OpenIn, SignInNames, ListNames, MapPages, BoardPages, NotePages, HookPages, TerminalPages,
         ResearchNames, AlertNames, FolioNames
<1>4. CASE DeskGood
  BY <1>4, DeskHolds
     DEF AccountsHold, ShownIsCurrent, OpenIn, SignInNames, ListNames, MapPages, DeskPages, BoardPages, NotePages, HookPages,
         TerminalPages, ResearchNames, AlertNames, FolioNames
<1>5. CASE BoardGood
  BY <1>5, BoardKept
     DEF AccountsHold, ShownIsCurrent, OpenIn, SignInNames, ListNames, MapPages, BoardPages, NotePages, HookPages, TerminalPages,
         ResearchNames, AlertNames, FolioNames
<1>6. CASE NoteGood(page, srv)
  BY <1>6, NoteHolds
     DEF AccountsHold, ShownIsCurrent, OpenIn, SignInNames, ListNames, MapPages, BoardPages, NotePages, HookPages, TerminalPages,
         ResearchNames, AlertNames, FolioNames
<1>7. CASE HookGood
  BY <1>7, HookHolds
     DEF AccountsHold, ShownIsCurrent, OpenIn, SignInNames, ListNames, MapPages, BoardPages, NotePages, HookPages, TerminalPages,
         ResearchNames, AlertNames, FolioNames
<1>8. CASE TerminalGood
  BY <1>8, TerminalHolds
     DEF AccountsHold, ShownIsCurrent, OpenIn, SignInNames, ListNames, MapPages, BoardPages, NotePages, HookPages, TerminalPages,
         ResearchNames, AlertNames, FolioNames
<1>9. CASE ResearchGood
  BY <1>9, ResearchHolds
     DEF AccountsHold, ShownIsCurrent, OpenIn, SignInNames, ListNames, MapPages, BoardPages, NotePages, HookPages, TerminalPages,
         ResearchNames, AlertNames, FolioNames
<1>10. CASE AlertGood
  BY <1>10, AlertHolds
     DEF AccountsHold, ShownIsCurrent, OpenIn, SignInNames, ListNames, MapPages, BoardPages, NotePages, HookPages, TerminalPages,
         ResearchNames, AlertNames, FolioNames
<1>11. CASE FolioGood
  BY <1>11, FolioHolds
     DEF AccountsHold, ShownIsCurrent, OpenIn, SignInNames, ListNames, MapPages, BoardPages, NotePages, HookPages, TerminalPages,
         ResearchNames, AlertNames, FolioNames
<1> QED
  BY <1>1, <1>2, <1>3, <1>4, <1>5, <1>6, <1>7, <1>8, <1>9, <1>10, <1>11 DEF PagesGood

\* The name of the page tells which it is.
LEMMA NameTells ==
    ASSUME PagesGood
    PROVE  /\ page.name = "canvas" => CanvasGood(page)
           /\ page.name = "pulse" => PulseGood(page)
           /\ page.name = "saving" => SavingGood(page)
           /\ page.name = "notes" => NoteGood(page, srv)
           /\ page.name = "badge" => BadgeGood(page)
<1> DEFINE Known == {"canvas", "pulse", "saving", "notes", "badge"}
<1>1. MapGroupGood => CanvasGood(page) \/ PulseGood(page) \/ page.name \notin Known
  BY DEF MapGroupGood, MapGood, MapShape, DetailGood, DetailShape, HandGood
<1>2. DeskGood => SavingGood(page) \/ page.name \notin Known
  BY DEF DeskGood, ArrangedGood, Named
<1>3. HookGood => BadgeGood(page) \/ page.name \notin Known
  BY DEF HookGood, PanelGood, PanelType, SnapshotGood, SnapshotType, Named, TicksGood
<1>4. NoteGood(page, srv) => page.name = "notes"
  BY NoteHolds DEF OpenIn, NotePages
<1>5. (CanvasGood(page) => page.name = "canvas") /\ (PulseGood(page) => page.name = "pulse")
  BY DEF CanvasGood, CanvasShape, PulseGood
<1>6. (SavingGood(page) => page.name = "saving") /\ (BadgeGood(page) => page.name = "badge")
  BY DEF SavingGood, BadgeGood
<1>7. SignInGood \/ ListsGood \/ BoardGood \/ TerminalGood \/ ResearchGood \/ AlertGood \/ FolioGood => page.name \notin Known
  BY SignInHolds, ListsHold, BoardKept, TerminalHolds, ResearchHolds, AlertHolds, FolioHolds
     DEF OpenIn, SignInNames, ListNames, BoardPages, TerminalPages, ResearchNames, AlertNames, FolioNames
<1> QED
  BY <1>1, <1>2, <1>3, <1>4, <1>5, <1>6, <1>7 DEF PagesGood

\* A mailed link is spent on two passwords that agree or not at all, a passkey
\* sign-in that reports a failure leaves the password form on the screen (one
\* that is cancelled reports none), and a device that was taken off the list is
\* signed out on the server (login/page.tsx:74-79, set-password/page.tsx:65-67, SessionManager.tsx:29-39).
THEOREM AccountsAreHeld == PagesSpec => []AccountsHold
<1>1. PagesGood /\ [PagesNext]_<<page, srv>> => PagesGood'
  BY PagesKeep, PagesStutter
<1>2. PagesGood => AccountsHold
  BY PagesHold
<1> QED
  BY PagesStart, <1>1, <1>2, PTL DEF PagesSpec

\* However the answers are reordered, lost or overtaken by another choice of the
\* reader, what these pages show belongs to what is open: the map that is loaded
\* and the panel of a counterparty, the saved list, the note and its text, the
\* data of a panel that loads once, the chart of the terminal and its address, a
\* backtest, a structure, the value an alert is checked against, a history and a
\* stress test.  What the code takes whatever is open by then, such as the
\* snapshot in the header of the terminal, is listed at ShownIsCurrent.
THEOREM ShownStaysCurrent == PagesSpec => []ShownIsCurrent
<1>1. PagesGood /\ [PagesNext]_<<page, srv>> => PagesGood'
  BY PagesKeep, PagesStutter
<1>2. PagesGood => ShownIsCurrent
  BY PagesHold
<1> QED
  BY PagesStart, <1>1, <1>2, PTL DEF PagesSpec

\* What a drawing shows can always be moved on: a pan is measured from a finger
\* that is down, also after one of two was lifted, and no headline that is still
\* pulsing is left without the timer that ends it (ValueChainMap.tsx:745-747, 850-859).
THEOREM DrawingGoesOn == PagesSpec => [](OpenIn(MapPages) => Map!AnchoredPan /\ Map!PulseEnds)
<1>1. PagesGood /\ [PagesNext]_<<page, srv>> => PagesGood'
  BY PagesKeep, PagesStutter
<1>2. PagesGood => (OpenIn(MapPages) => Map!AnchoredPan /\ Map!PulseEnds)
  <2>1. ASSUME page.name # "canvas", page.name # "pulse" PROVE Map!AnchoredPan /\ Map!PulseEnds
    BY <2>1 DEF Map!AnchoredPan, Map!PulseEnds, Map!Open
  <2> QED
    BY <2>1, NameTells, DrawingHolds
<1> QED
  BY PagesStart, <1>1, <1>2, PTL DEF PagesSpec

\* No step of a reader, and no answer, undoes what they count on: a press that
\* became a drag picks nothing, an arrangement reads as saved only when one was
\* stored, a draft is dropped only when its text is on the server, and the badge
\* of the connection does not flicker (ValueChainMap.tsx:745-747,
\* app/workspace/page.tsx:206-212, Notes.tsx:66-82, streamBadge.ts:13-21).
THEOREM StepsOfPages ==
    PagesSpec => Map!DragNeverPicks /\ Desk!UnsavedUntilStored /\ Note!DraftOutlivesFailure /\ Hook!BadgeIsSteady
<1>1. PagesGood /\ [PagesNext]_<<page, srv>> => PagesGood'
  BY PagesKeep, PagesStutter
<1>2. ASSUME PagesGood, [PagesNext]_<<page, srv>>, page.name = "canvas"
      PROVE  [DragsPickNothing]_<<page, srv>>
  <2>1. CanvasGood(page)
    BY <1>2, NameTells
  <2>2. PagesNext => Map!Next
    BY <1>2 DEF PagesNext, OpenIn, SignInNames, ListNames, MapPages, DeskPages, BoardPages, NotePages, HookPages, TerminalPages,
       ResearchNames, AlertNames, FolioNames
  <2> QED
    BY <1>2, <2>1, <2>2, CanvasKeeps
<1>3. ASSUME PagesGood, [PagesNext]_<<page, srv>>, page.name = "saving"
      PROVE  [UnsavedLasts]_<<page, srv>>
  <2>1. SavingGood(page)
    BY <1>3, NameTells
  <2>2. PagesNext => Desk!Next
    BY <1>3 DEF PagesNext, OpenIn, SignInNames, ListNames, MapPages, DeskPages, BoardPages, NotePages, HookPages, TerminalPages,
       ResearchNames, AlertNames, FolioNames
  <2> QED
    BY <1>3, <2>1, <2>2, SavingKeeps
<1>4. ASSUME PagesGood, [PagesNext]_<<page, srv>>, page.name = "notes"
      PROVE  [DraftsLast]_<<page, srv>>
  <2>1. NoteGood(page, srv)
    BY <1>4, NameTells
  <2>2. PagesNext => Note!Next
    BY <1>4 DEF PagesNext, OpenIn, SignInNames, ListNames, MapPages, DeskPages, BoardPages, NotePages, HookPages, TerminalPages,
       ResearchNames, AlertNames, FolioNames
  <2> QED
    BY <1>4, <2>1, <2>2, NoteKeeps
<1>5. ASSUME PagesGood, [PagesNext]_<<page, srv>>, page.name = "badge"
      PROVE  [BadgeLasts]_<<page, srv>>
  <2>1. BadgeGood(page)
    BY <1>5, NameTells
  <2>2. PagesNext => Hook!Next
    BY <1>5 DEF PagesNext, OpenIn, SignInNames, ListNames, MapPages, DeskPages, BoardPages, NotePages, HookPages, TerminalPages,
       ResearchNames, AlertNames, FolioNames
  <2> QED
    BY <1>5, <2>1, <2>2, BadgeKeeps
<1>6. PagesGood /\ [PagesNext]_<<page, srv>> =>
          [Map!Open("canvas") /\ page.clicks /\ page.selected # page'.selected => ~page.swept]_Map!vars
  BY <1>2 DEF DragsPickNothing, Map!Open, Map!vars
<1>7. PagesGood /\ [PagesNext]_<<page, srv>> =>
          [Desk!Open("saving") /\ page.dirty /\ ~page'.dirty =>
               (\E q \in page.asked : q.done /\ q.what = "save") \/ page.asked = page'.asked]_Desk!vars
  BY <1>3 DEF UnsavedLasts, Desk!Open, Desk!vars
<1>8. PagesGood /\ [PagesNext]_<<page, srv>> =>
          [Note!Open => \A t \in Tickers :
               srv.draft[t] # None /\ srv'.draft[t] = None =>
                   \/ \E q \in page.asked \ page'.asked : q.ticker = t /\ q.done
                   \/ page.ticker = t /\ page'.asked = page.asked]_Note!vars
  BY <1>4 DEF DraftsLast, Note!Open, Note!vars
<1>9. PagesGood /\ [PagesNext]_<<page, srv>> =>
          [Hook!Open("badge") /\ page'.state.shown # page.state.shown =>
               /\ page'.state.shown = page'.raw
               /\ page'.now - page.state.shownSince >= MinDwell
               /\ page'.now - page'.state.candidateSince >= ShowDelay[page'.raw]]_Hook!vars
  BY <1>5 DEF BadgeLasts, Hook!Open, Hook!vars
<1> QED
  BY PagesStart, <1>1, <1>6, <1>7, <1>8, <1>9, PTL
     DEF PagesSpec, Map!DragNeverPicks, Desk!UnsavedUntilStored, Note!DraftOutlivesFailure, Hook!BadgeIsSteady
=============================================================================
