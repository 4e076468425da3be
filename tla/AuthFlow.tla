------------------------------ MODULE AuthFlow ------------------------------
(***************************************************************************)
(* The request handlers of backend/routes/auth.py and the deactivation of  *)
(* backend/routes/admin.py over the session store, the accounts and the    *)
(* emailed links.  Each store call takes its own lock, so a handler is a   *)
(* sequence of steps and a worker thread can be overtaken by the others    *)
(* between any two of them.                                                *)
(*                                                                         *)
(* A password is the number of times it was set.  The CSRF check and the   *)
(* cookie jar are left out: a client may present any token that some       *)
(* response delivered.                                                     *)
(***************************************************************************)
EXTENDS Sessions

CONSTANTS
    Workers,    \* request threads
    Nobody,     \* whom an idle thread works for
    MaxLinks    \* bound on the links ever mailed

VARIABLES
    account,    \* users.json: [active, password] per user
    links,      \* auth_tokens.json: outstanding reset links
    nextLink,   \* the next link id
    worker,     \* what each thread is doing
    delivered,  \* refresh tokens that reached a client
    secret      \* history: the password that opened each session

store == vars     \* of Sessions
flowVars == <<store, account, links, nextLink, worker, delivered, secret>>

Account == [active : BOOLEAN, password : Nat]
Link == [id : Nat, user : Users]
Steps == {"idle", "login_create", "refresh_user", "refresh_reuse",
          "refresh_inactive", "accept_reset", "accept_user", "accept_revoke",
          "accept_create", "forgot_issue", "deact_revoke", "deact_links"}
Worker == [pc : Steps, user : Users \cup {Nobody}, token : Nat, password : Nat,
           sawActive : BOOLEAN, answer : {"none", "granted"}]   \* an access token, or not

-----------------------------------------------------------------------------
FlowInit ==
    /\ Init
    /\ account = [u \in Users |-> [active |-> TRUE, password |-> 1]]
    /\ links = {}
    /\ nextLink = 1
    /\ worker = [w \in Workers |->
           [pc |-> "idle", user |-> Nobody, token |-> 0, password |-> 0,
            sawActive |-> FALSE, answer |-> "none"]]
    /\ delivered = {}
    /\ secret = [s \in {} |-> 0]

At(w, pc) == worker[w].pc = pc
User(w) == worker[w].user

\* Thread w starts a request for u at step pc, holding token and password.
Start(w, pc, u, token, password) ==
    /\ At(w, "idle")
    /\ worker' = [worker EXCEPT ![w] =
           [pc |-> pc, user |-> u, token |-> token, password |-> password,
            sawActive |-> account[u].active, answer |-> "none"]]

GoTo(w, pc) == worker' = [worker EXCEPT ![w].pc = pc]

Answers(w, answer) ==
    worker' = [worker EXCEPT ![w] =
        [@ EXCEPT !.pc = "idle", !.user = Nobody, !.token = 0, !.password = 0,
                  !.answer = answer]]

GrantUnissued(w, token) ==
    /\ Answers(w, "granted")
    /\ delivered' = delivered \cup {nextToken + 1}

\* set_session and issue_token: the refresh cookie and an access token.
Grant(w, token) ==
    /\ Answers(w, "granted")
    /\ delivered' = delivered \cup {token}

\* A store call may raise (its save failed): the request then ends with an error,
\* and what the call changed stays.
Raised == reply'.answer = "raised"

GrantNew(w) == IF Raised THEN Answers(w, "none") /\ UNCHANGED delivered
                         ELSE Grant(w, reply'.given)

Proceed(w, pc) == IF Raised THEN Answers(w, "none") ELSE GoTo(w, pc)

\* The session that create() has just put into the table.
Opened(w) ==
    secret' = [s \in DOMAIN secret \cup {nextToken} |->
                  IF s = nextToken THEN worker[w].password ELSE secret[s]]

-----------------------------------------------------------------------------
\* POST /auth/login: authenticate, then create the session.
Login(w, u) ==
    /\ account[u].active
    /\ Start(w, "login_create", u, 0, account[u].password)
    /\ UNCHANGED <<store, account, links, nextLink, delivered, secret>>

LoginCreate(w) ==
    /\ At(w, "login_create")
    /\ Create(User(w))
    /\ Opened(w)
    /\ GrantNew(w)
    /\ UNCHANGED <<account, links, nextLink>>

\* POST /auth/refresh: rotate, then look the account up, or revoke.
Refresh(w, tok) ==
    /\ Rotate(tok)
    /\ LET u == table[chain[tok]].user
           pc == CASE reply'.answer = "ok" -> "refresh_user"
                   [] reply'.answer = "reuse" -> "refresh_reuse"
                   [] OTHER -> "idle"
       IN IF pc = "idle"
          THEN At(w, "idle") /\ Answers(w, "none")
          ELSE Start(w, pc, u, IF pc = "refresh_user" THEN reply'.given ELSE tok, 0)
    /\ UNCHANGED <<account, links, nextLink, delivered, secret>>

RefreshUnchecked(w) ==
    /\ At(w, "refresh_user")
    /\ Grant(w, worker[w].token)
    /\ UNCHANGED <<store, account, links, nextLink, secret>>

RefreshUser(w) ==
    /\ At(w, "refresh_user")
    /\ IF account[User(w)].active
       THEN Grant(w, worker[w].token)
       ELSE GoTo(w, "refresh_inactive") /\ UNCHANGED delivered
    /\ UNCHANGED <<store, account, links, nextLink, secret>>

RefreshRevoke(w) ==
    /\ At(w, "refresh_reuse") \/ At(w, "refresh_inactive")
    /\ Revoke(worker[w].token)
    /\ Answers(w, "none")
    /\ UNCHANGED <<account, links, nextLink, delivered, secret>>

\* POST /auth/logout and /auth/logout-all: one store call each.
Logout(w, tok) ==
    /\ At(w, "idle")
    /\ Revoke(tok)
    /\ Answers(w, "none")
    /\ UNCHANGED <<account, links, nextLink, delivered, secret>>

LogoutAll(w, u) ==
    /\ At(w, "idle")
    /\ RevokeAll(u)
    /\ Answers(w, "none")
    /\ UNCHANGED <<account, links, nextLink, delivered, secret>>

\* DELETE /auth/sessions/{id}: one other device of the caller.
EndDevice(w, u, s) ==
    /\ At(w, "idle")
    /\ RevokeSession(u, s)
    /\ Answers(w, "none")
    /\ UNCHANGED <<account, links, nextLink, delivered, secret>>

\* POST /auth/forgot-password: look the account up, then issue a link, which
\* replaces the outstanding one.
Forgot(w, u) ==
    /\ account[u].active
    /\ Start(w, "forgot_issue", u, 0, 0)
    /\ UNCHANGED <<store, account, links, nextLink, delivered, secret>>

ForgotIssue(w) ==
    /\ At(w, "forgot_issue")
    /\ nextLink <= MaxLinks
    /\ links' = {l \in links : l.user # User(w)} \cup {[id |-> nextLink, user |-> User(w)]}
    /\ nextLink' = nextLink + 1
    /\ Answers(w, "none")
    /\ UNCHANGED <<store, account, delivered, secret>>

\* POST /auth/invite/accept: spend the link, set the password, check the
\* account, end every session, open one.
AcceptPeeking(w, l) ==
    /\ Start(w, "accept_reset", l.user, 0, 0)
    /\ UNCHANGED <<store, account, links, nextLink, delivered, secret>>

Accept(w, l) ==
    /\ Start(w, "accept_reset", l.user, 0, 0)
    /\ links' = links \ {l}
    /\ UNCHANGED <<store, account, nextLink, delivered, secret>>

AcceptReset(w) ==
    LET set == account[User(w)].password + 1 IN
    /\ At(w, "accept_reset")
    /\ account' = [account EXCEPT ![User(w)].password = set]
    /\ worker' = [worker EXCEPT ![w].pc = "accept_user", ![w].password = set]
    /\ UNCHANGED <<store, links, nextLink, delivered, secret>>

\* The new password is too short: the link is spent all the same.
AcceptTooShort(w) ==
    /\ At(w, "accept_reset")
    /\ Answers(w, "none")
    /\ UNCHANGED <<store, account, links, nextLink, delivered, secret>>

AcceptUser(w) ==
    /\ At(w, "accept_user")
    /\ IF account[User(w)].active THEN GoTo(w, "accept_revoke")
                                  ELSE Answers(w, "none")
    /\ UNCHANGED <<store, account, links, nextLink, delivered, secret>>

AcceptRevoke(w) ==
    /\ At(w, "accept_revoke")
    /\ RevokeAll(User(w))
    /\ Proceed(w, "accept_create")
    /\ UNCHANGED <<account, links, nextLink, delivered, secret>>

AcceptCreate(w) ==
    /\ At(w, "accept_create")
    /\ Create(User(w))
    /\ Opened(w)
    /\ GrantNew(w)
    /\ UNCHANGED <<account, links, nextLink>>

\* DELETE /admin/users/{username}: deactivate, end the sessions, drop the
\* links.
Deactivate(w, u) ==
    /\ Start(w, "deact_revoke", u, 0, 0)
    /\ account' = [account EXCEPT ![u].active = FALSE]
    /\ UNCHANGED <<store, links, nextLink, delivered, secret>>

DeactivateRevoke(w) ==
    /\ At(w, "deact_revoke")
    /\ RevokeAll(User(w))
    /\ Proceed(w, "deact_links")
    /\ UNCHANGED <<account, links, nextLink, delivered, secret>>

DeactivateLinks(w) ==
    /\ At(w, "deact_links")
    /\ links' = {l \in links : l.user # User(w)}
    /\ Answers(w, "none")
    /\ UNCHANGED <<store, account, nextLink, delivered, secret>>

\* The admin page's toggle (pages/99_Admin.py): the flag and nothing else.
Toggle(u) ==
    /\ account' = [account EXCEPT ![u].active = ~account[u].active]
    /\ worker' = [w \in Workers |->
          IF User(w) = u /\ ~account[u].active /\ ~At(w, "idle")
          THEN [worker[w] EXCEPT !.sawActive = TRUE] ELSE worker[w]]
    /\ UNCHANGED <<store, links, nextLink, delivered, secret>>

Clock ==
    /\ Tick
    /\ UNCHANGED <<account, links, nextLink, worker, delivered, secret>>

Step(w) ==
    \/ LoginCreate(w) \/ RefreshUser(w) \/ RefreshRevoke(w)
    \/ ForgotIssue(w)
    \/ AcceptReset(w) \/ AcceptTooShort(w) \/ AcceptUser(w) \/ AcceptRevoke(w) \/ AcceptCreate(w)
    \/ DeactivateRevoke(w) \/ DeactivateLinks(w)

Request(w) ==
    \/ \E u \in Users : Login(w, u) \/ LogoutAll(w, u) \/ Forgot(w, u) \/ Deactivate(w, u)
    \/ \E u \in Users, s \in DOMAIN table : EndDevice(w, u, s)
    \/ \E tok \in delivered : Refresh(w, tok) \/ Logout(w, tok)
    \/ \E l \in links : Accept(w, l)

FlowNext ==
    \/ \E w \in Workers : Request(w) \/ Step(w)
    \/ \E u \in Users : Toggle(u)
    \/ Clock

FlowSpec == FlowInit /\ [][FlowNext]_flowVars

-----------------------------------------------------------------------------
FlowTypeOK ==
    /\ TypeOK
    /\ account \in [Users -> Account]
    /\ links \subseteq Link
    /\ nextLink \in Nat
    /\ worker \in [Workers -> Worker]
    /\ delivered \subseteq held

\* A request is granted an access token only if the account was active at
\* some moment while the request ran: what was begun after a deactivation is
\* refused, by password, by refresh cookie and by emailed link alike, whatever
\* overtakes it between its store calls.
GrantedWasActive ==
    \A w \in Workers : worker[w].answer = "granted" => worker[w].sawActive

\* Two people can hold the same link only until one of them uses it: the
\* password changes at most once per link ever mailed.
OnePasswordPerLink ==
    \A u \in Users : account[u].password <= nextLink

\* When a password reset answers, every session of the account was opened with
\* the new password (backend/routes/auth.py:230-232: "every other session
\* ends").
ResetEndsOtherSessions ==
    [][\A w \in Workers :
          At(w, "accept_create") /\ worker'[w].pc = "idle"
            => \A s \in Mine(table', User(w)) :
                  secret'[s] = account[User(w)].password]_flowVars
=============================================================================
